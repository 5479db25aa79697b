# Trunkless Whiteboard in TLA+

Specifications, model checking and proofs for the shared whiteboard in
`src/packages/backend` and `src/packages/client`: a server that holds the
whiteboards, and browsers that draw on replicas of them.

Contents: 1 the system, 2 where it is hard, 3 the modules, 4 the runs,
5 fairness, 6 the proofs, 7 where code and documentation disagree, 8 what is
not modelled, 9 the plan.

## 1. The system

### Server (`packages/backend/src`)

| part | state | operations |
| --- | --- | --- |
| connection, `models/client-connection.ts` | the state machine `_fsm`: ANONYMOUS, NO_WHITEBOARD, PENDING_APPROVAL, USER, HOST | register, hello, create, join, the decision about a join, leave, close |
| router, `controllers/router.ts`, `allowed-messages.ts` | none | dispatches a message if the state of its connection allows it, refuses it otherwise |
| controllers, `controllers/*-controller.ts` | none | decode a message into an operation of the whiteboard |
| whiteboard, `models/whiteboard.ts` | `host`, `clients`, `pastUsers`, `pendingClients`, `ended`; `lines`, `notes`, `images` | `handleOperation`: 4 operations of the session, 9 on figures; the multicast of changes; the bootstrap of newcomers; `detachClient` |
| registry, `models/whiteboard.ts:615` | the whiteboards that can be joined | add, get, delete |

The server is one node process.  No handler awaits, so a handler is atomic;
connections interleave between handlers.  Nothing is stored on disk.

### Browser (`packages/client/src`)

| part | state | operations |
| --- | --- | --- |
| connection state, `controllers/auth-controller.ts`, `store/auth.ts` | `clientState`, one of eight screens | the buttons of the screens and the callbacks of their requests |
| users, `store/users.ts` | present, past, pending | lists from the server; an applicant is struck off by the answer to the decision |
| requests, `connection/request-response.ts` | `messageIdToResponseHandler` | send and wait; the answer or a timer of 10 s calls the callback |
| incoming messages, `connection/incoming-handler.ts` | none | `handleMessage`, then the callback of the request that caused it |
| stores, `store/{notes,lines,images}.ts` | a timeline per figure | `setServerState`, `discardPatch`, local changes, `clearStores` |
| timelines, `store/timelines/*.ts` | committed state and patches of a figure | apply, commit, discard, the effective figure |
| controllers of figures | none | patch the store, send the request, discard the patch in its callback |
| pen, eraser, `editor/drawing-state.ts` | `context` (IDLE, DRAWING, ERASING with their buffers), a timer | pointer events, the throttled flush |
| undo, `editor/history.ts` | `history` | take back the last stroke or erasure |
| geometry, `editor/math.ts`, `utils.ts` | none | the points of a segment, of the eraser, points as numbers |
| hooks, `store/hooks.ts`, `store/index.ts` | the listeners of each store, three throttles, the copies in the state of the components | hand a new copy of a store to the components that listen, at once or up to 5 ms later |
| images on the canvas, `editor/render.ts` | what is painted, the passes that wait for their images | `renderImages` |
| editor, notes, tools, `editor/components/*.tsx` | the tool | which call of a controller an event of the user leads to |

### How they interact

A browser and the server exchange messages over one web socket: in order,
exactly once, until one side closes; what is on the way then is lost.  A request
has an id, and the message that answers it names it in `causedBy`.  Most requests
are answered by the *multicast* of their effect: the copy that goes to the author
names the request, the others name it too but their receivers have no handler
for it.  A change of a figure is shown at once, as a patch; the multicast sets
the committed state, and the callback discards the patch, in the same event.
Every change of a store updates the copies from which the components draw; a copy
of the images starts a pass that paints them when all have been loaded.

## 2. Where it is hard, and what makes each part correct

| component | what is hard | what must hold |
| --- | --- | --- |
| session layer | membership is kept twice, in whiteboards and in state machines, and `END_SESSION` walks over the one to change the other; connections close between a request and its decision | both agree (`MembershipAgrees`, `HostAgrees`, `PendingAgrees`); no handler throws; who is let in was let in by the host; an ended whiteboard stays as it is; each message is answered once; everybody hears of the members |
| figures | an answer is only a side effect of the multicast; the bootstrap of newcomers and the multicasts must not leave a gap; ids are chosen by clients | every change reaches every member, newcomers get everything, messages are current, ids stay taken, images have one order, points and positions stay within the whiteboard |
| browser session | callbacks run when the answer comes, on whatever screen is shown then; timers race answers; other messages come in between | when the messages are through, browser and server agree on state, rosters, applicants; every request returns |
| stores and timelines | a local change, the change of somebody else, a refusal, a timeout and an answer meet in one timeline | convergence; no patch stays; what is confirmed does not flicker |
| screen | components draw from copies that lag behind, listen only some time after they were first drawn, and lose their stores beneath them; passes that paint overtake each other | no note can be touched that has no timeline; in the end every screen shows its whiteboard, painted in order |
| pen and eraser | a throttle, a buffer passed by reference, a cache that lags behind, strokes that end outside of the canvas, stores that are cleared below the pen | no ink is lost; the pen never names a line that is forgotten |

PROJECT.json lists the hazards one by one, with the line where each bites and
the properties that would catch it.

## 3. The modules

```
Whiteboards                         Replicas
   :   :                               :
Session ---+--> Server -----------+    :
           |                      +--> App --+--> Drawing     Geometry
           +--> ClientSession ----+     |    |       |........:
                                        |    +--> Screen
                        Patches --> Timelines
```

An arrow is EXTENDS; `Drawing` uses `Geometry`, and `App` `Timelines`, as instances.  The
colons lead from a specification to the abstract one that it implements.  Every
action of a composed module is an action of the module below it, plus what the
new variables do in the same handler, so there is one definition per handler of
the code.

| module | models | its state and actions in the code |
| --- | --- | --- |
| `Whiteboards` | what the backend promises | abstract: phase, host, members, applicants, content of a whiteboard; who may change which |
| `Session` | connections, router, membership | `fsm` is `_fsm`, `clients[b][c]` how often c is in the array `clients`; one action per case of the router and state: `ClientHello`, `CreateWhiteboard`, `JoinWhiteboard`, `ApproveJoin`, `DenyJoin`, `LeaveWhiteboard`, `CloseSocket`, and `NotAllowed`, `NoSuchApplicant` for the refusals. `out` holds what the step sent, `requester` whom it answers |
| `Server` | the whole backend | `lines`, `notes`, `images`; one action per operation, with its refusals; `BootstrappingApproval` is `ApproveJoin` with the figures that a newcomer is sent |
| `ClientSession` | browsers on the session layer | `clientState`, `users`, `handlers`; one action per button, `Receive` (handleMessage and the callback), `TimeOut`, `Handle` (the server takes a message), `SocketEvent`, `Connected`, `Disconnected`; channels `toServer`, `toClient` |
| `Patches` | the patches of one timeline | operators only: `newPatch`, `Without` (what is left when one is discarded) |
| `Timelines` | one timeline | operators only: `patched`, `setCommitted`, `discardPatch`, `getEffectiveNote`, `getEffectiveImg`, `getEffectiveLine` |
| `App` | everything but pen and eraser | `stores`; the controllers of notes and images, `ReceiveFigure`, `TimeOutFigure`, `HandleFigure` |
| `Replicas` | what browsers and backend promise together | abstract: content of the whiteboards, and of each reader a copy and the changes it has yet to hear of |
| `Geometry` | the points of segments | operators only; square roots and roundings are exact integer arithmetic |
| `Drawing` | everything | `context`, `history`, `due` (the timer of throttle), `cached` (what the cache of effective lines has that the stores have not); `DrawDown`, `EraseDown`, `onPointerMove`, `onPointerUp`, `ThrottleTimer`, `undo` |
| `Screen` | `App` and what users see of it | `screen` has the copies of the hooks (`copy`), the throttled calls to come (`due`), the passes of `renderImages` (`loading`) and the canvas of the images (`painted`); the events of `App` with the updates they cause, and `useEffect`, `TrailingCall`, `Paint` |
| `SessionProofs`, `ServerProofs`, `ClientProofs`, `PatchProofs`, `TimelineProofs`, `AppProofs`, `DrawingProofs`, `ConvergenceProofs` | | theorems, see 6 |
| `MC*` | | starting states, small sets and symmetry for TLC |

Conventions.  A connection (`Clients`) is never reused: a page that is reloaded is
another one.  Data that no property tells apart is left out: the name of a user
is a constant of its connection, the bytes of an image do not change.  Operators
whose name has a suffix (`Detached_Kept`) are mutants: plausible bugs that the
property named in PROJECT.json must catch.  Variables that exist for the
properties only (`out`, `requester`, `gaveUp`, `astray`, `evicted`, and `missed`, `overtaken` of
`screen`) are marked where they are declared.

Refinement.  `Session` implements `Whiteboards` without a content, `Server` implements it
with one: in the abstract specification membership is one set, and each of the
code's two books of it (the array and the state machines) is related to that set by an invariant.  `App`
implements `Replicas`: `Reader` maps the committed states of the timelines, and the
messages in the channel, to the copy and the news of a reader.  A browser counts
as a reader (`Listens`) from the moment it handles `joinApproved`, and what it has then plus what is
on its way must already be the whiteboard; from then on each change must reach it once and in order.
It does not count while it is misled, nor while its admission is still on its way: what is
before that in the channel is of an earlier whiteboard.

## 4. The runs

| run | configuration | states | time | question |
| --- | --- | --- | --- | --- |
| session | `Session.cfg`: 3 connections, 2 whiteboards | 53,000 | 15 s | do the books of whiteboards and connections agree, is every message answered once, does nobody get in but by the host? |
| server | `Server.cfg`: 3 connections, 1 whiteboard, a line, a note, 2 images, a corner and a point outside | 70,000 | 40 s | what is stored, who may change it, who is told, what is a newcomer sent? |
| client_session | `ClientSession.cfg`: 2 browsers, 2 whiteboards, 3 requests each, from three places | 4.3 M | 145 s | do browsers and server agree once the messages are through? |
| algorithms | `Algorithms.cfg`: 3 patches; every segment of a 10 by 10 grid | 53,000 | 16 s | do timelines and segments mean what they should? |
| app | `App.cfg`: three scenes, see below | 1.1 M | 130 s | are the replicas replicas, and without a flicker? |
| screen | `ScreenLive.cfg`: two scenes | 240,000 | 110 s | does every screen come to show its whiteboard? |
| drawing | `Drawing.cfg`: three scenes | 760,000 | 130 s | is ink lost between pointer and server? |
| session_present, client_prompt, app_leftovers, screen_undone, drawing_shown | one property each | | < 60 s | the disagreements of section 7 |

What they show, beyond that no property is violated:

* **session**: all orders of hellos, creations, joins, decisions, leaves and
  disconnects of three connections.  Three is the smallest number with a host,
  a member and an applicant; with two whiteboards a connection can be wanted in
  one while it is host of another.  There is no bound on the number of steps.
  `ImplementsWhiteboards` says of each step who did it: a table of allowed messages with a
  case in the wrong row breaks it.
* **server**: the nine operations on figures with each refusal, in every
  state of the session layer, again without a bound on steps.  `ChangesAreAnnounced`,
  `MessagesAreCurrent` and `NewcomersHearAll` together are what the browsers rely on.
* **client_session**: hellos that are late or sent twice, the join by URL that
  the callback of a hello sends, users who join, create and leave without
  waiting, hosts that leave while somebody joins, timers at any time, connections
  that close on either side.  A run starts where the connections are opened, or in the
  lobby (`Lobby`: everybody has said hello, one may send a request more than the
  other), or where an eager user has asked for two whiteboards and is in the first
  (`Eager`).  `Misled` names the browsers for which the code does not keep the promise
  (section 7): one that gave up a request, one that got an answer on the wrong
  screen (`astray`), one that a late refusal sent off its screen (`evicted`).  They are left out of the
  first three properties, the others are not.
* **algorithms**: `NewestWins` compares the effective note, which the code finds by a scan
  from the newest change on, with the patches applied one by one, which is how the
  code itself draws a line.  `SettlingIsInvisible` says of notes, lines and images that the
  answer to the oldest patch changes nothing of what is shown.  `NoGaps`, `NothingElsewhere`, `EraserCovers` are about
  segments in each direction and of each slope on the grid; the points go through
  their numbers and back, as in the code.
* **app** has three scenes.  In the first two members create, move and delete one
  note and leave, two requests each; moves go inside and outside of the whiteboard, so
  some are refused; the timers of both may fire at any time, and the connection of
  the one that is not host may close.  In the second the
  host adds and deletes a note and adds two images, while another browser asks to
  join and is admitted or denied; three requests each.  In the third a browser connects, says
  hello and makes a whiteboard for itself.  One note is enough: the
  timelines of different figures do not interact.
* **screen** has two scenes.  In the first c1 and c2 write different texts into one note, c2
  leaves or loses its connection, its timers fire; the screen of c2 is looked at.  In
  the second c3 adds two images and c4, whose screen is looked at, asks for admission and adds
  one itself.  Two images are the fewest that can be painted in the wrong order,
  and an admission in between is the case where a screen listens too late.
* **drawing** has three scenes: one draws while another erases, each with undo
  and two requests; one does all three alone, three requests; one draws, leaves
  in the middle of the stroke and creates another whiteboard, with timeouts, three
  requests.  Pointer events fall on two places whose segment has inner points.

Bounds.  `MaxRequests` bounds what a browser sends: every request is a message
and an answer, so channels and handlers are bounded with it.  A scene starts with a host and
a member where a run is about figures, since to get there takes three requests
of each that `client_session` covers.  `Buttons`, `Faults` and `Tools` say which requests
a user makes, what goes wrong for it and what it draws with, `MaxActions` when it
stops erasing, `Pointer` where pointer events fall, `MaxPatches` how many patches a
timeline gets, `Width` and `Height` how large the grid is, `Border` how far outside of it
strokes may go, `Viewers` whose screens are looked at, `Broken` which images cannot be decoded (none in `screen`).
`LARGER_THAN_ANY_CANVAS` is 1,000,000 in the code and in `Drawing`, and 100 in `algorithms`, where
a canvas has ten rows: all that matters is the name it has.  None of them appears in
a guard for another reason.  Symmetry is used in `session`, `server` and `client_session`,
which have no liveness properties, over connections, whiteboards and images that
no definition tells apart.  `CHECK_DEADLOCK FALSE`, since users may stop and
connections stay closed.

Further configurations, not among the runs: `ServerLines.cfg` checks
`RemovalIsExact` (which is proved) at the ends of neighbouring columns;
`SessionPending.cfg`, `ClientShown.cfg` and `ClientAstray.cfg` show three more disagreements
(section 7; the last takes four minutes), and so do `ScreenOrder.cfg`,
`ScreenMissed.cfg`, `ScreenBroken.cfg`, `GeometryEnds.cfg` and `GeometryBorder.cfg`.

## 5. Fairness

`ClientFairness` and `AppFairness` assume weak fairness of three actions of each browser:
its timers fire (`setTimeout` in request-response.ts), it receives what has
arrived, and the server handles what has arrived: the event loops of browser and
server, and TCP as long as the connection is open.  Users, the loss of
connections and the opening of sockets are not fair: nobody needs to press
a button.  `ScreenFairness` adds, for the screens that are looked at, that React runs the
effects of what it rendered, that `lodash.throttle` makes its trailing call, and that
an image that can be decoded is loaded; each of the three is enabled until it is
done, so weak fairness is enough.  A pass with an image that cannot be decoded is not
enabled: `loadImage` listens for `load` and not for `error`, and waits for ever.  Of the throttle of
the pen nothing is assumed, since no liveness property of `Drawing` is stated.

## 6. The proofs

For every set of connections, whiteboards, ids, points and texts, and every bound, tlapm proves:

| module | theorem | states |
| --- | --- | --- |
| `SessionProofs` | `BooksAreRight` | the inductive invariant `Books` |
| | `MembershipAlwaysAgrees`, `HostAlwaysAgrees`, `PendingAlwaysAgrees` | its parts, which the run `session` checks |
| | `TypesAreCorrect`, `NoHandlerThrows` | `TypeOK`, `NeverThrows` |
| | `EveryMessageIsAnswered` | `OneAnswer` |
| | `MembersAreAlwaysTold` | the action property `RosterAnnounced` |
| | `EndedStaysFinal`, `HostAdmitsEverybody` | the action properties `EndedIsFinal`, `OnlyHostAdmits`: consequences of the refinement, stated on the code's variables |
| `ServerProofs` | `ServerKeepsBooks` | the same `Books` when figures are handled too |
| | `FigureTypesAreCorrect`, `NothingOutOfBounds`, `CreatorsAreAlwaysKnown`, `ImagesAreAlwaysOrdered`, `MessagesAreAlwaysCurrent` | the invariants of the run `server` |
| | `IdsStayTaken`, `ChangesAreAlwaysAnnounced`, `NewcomersAlwaysHearAll`, `NoMessageIsAnsweredTwice` | its action properties |
| | `CoordToNumberInjective`, `RemovalIsAlwaysExact` | points within the whiteboard have different numbers, and removal hits exactly what it names |
| | `SessionImplementsWhiteboards`, `ServerImplementsWhiteboards` | the refinements that `session` and `server` check |
| `ClientProofs` | `PostIsOrdered` | the inductive invariant `PostOK` about requests and answers |
| | `ClientTypesAreCorrect`, `AnswersAlwaysCome` | `ClientTypeOK`, `AnswersAreComing` |
| | `BrowsersFollow` | the inductive invariant `ViewOK` |
| | `StatesAlwaysAgree`, `RostersAlwaysAgree`, `NoApplicantIsEverLost` | the other invariants of the run `client_session` |
| `TimelineProofs` | `TimelinesAreWellMade` | the inductive invariant `TimelineOK` |
| | `NewestAlwaysWins`, `SettlingIsAlwaysInvisible` | what the run `algorithms` says of timelines, for any number of patches |
| `AppProofs` | `PatchesAlwaysWait` | `PatchesWait` of the run `app` |
| | `ShownNotesAlwaysHaveTimelines`, `PatchesWaitBehindScreens` | `ShownNotesHaveTimelines` of the run `screen`, and `PatchesWait` under its specification |
| `DrawingProofs` | `TimelinesAlwaysExist`, `InkAlwaysSent` | the invariant `TimelinesExist` and the action property `InkIsSent` of the run `drawing` |
| | `PatchesWaitWhileDrawing` | `PatchesWait` under its specification |
| `ConvergenceProofs` | `AlwaysConverged`, `AlwaysConvergedWhileDrawing` | `Converged` of the runs `app` and `drawing`, from the inductive invariant `SightOK` |
| | `AppImplementsReplicas`, `DrawingImplementsReplicas` | `ImplementsReplicas` of the run `app`: browsers and server implement `Replicas`, from `SightOK` |

So every property of the runs `session`, `server` and `client_session` is a theorem, and
`PatchProofs` has what the modules below it need to know of sequences and folds.

Assumptions, all of which TLC evaluates: `SessionAssumption` (the placeholders `NoBoard`,
`NoClient` are no whiteboard and no connection), `ServerAssumption` (points have integer
coordinates, there are finitely many image ids, `NoFigure` is no figure of any kind),
`ClientSessionAssumption` (the bound on requests is a number, `NoMessage` is no message),
`TimelinesAssumption`, `DataAssumption` of `MCTimelines` (the placeholders are no data), `AppAssumption` (there are
finitely many ids of notes and lines; the types of the bounds; a field that a change leaves `undefined` is no place,
text or number),
`ScreenAssumption` and `DrawingAssumption` (the types of the bounds).  That ids are finite says that loops over figures
end: those of the eraser and of undo, and the bootstrap of a newcomer.

**Books.**  No part of `Books` is inductive alone.  That a leave removes a client
from the right array needs `MembershipAgrees`; that the session that ends is the
one of this host needs `HostAgrees`; that an approval puts nobody into the array twice
needs `PendingAgrees`, since a pending client is not a member; and that a new whiteboard
starts with empty books needs `Unopened`: a whiteboard without a host was never
used.  With `StateTypes` these are `Books`.  `SessionProofs` has a lemma per handler,
`NextKeepsBooks` puts them together.

**Answers.**  Everything that is sent is a session message other than an
INTERNAL_SERVER_ERROR (`MailOK`): `Decidable` shows that
whoever the host decides about is pending, so no state machine throws.  That exactly one
message answers is read off each handler, except for a host that leaves: it gets its answer as one of the
members that are sent away, so it must be in the array exactly once, which is `MembershipAgrees`.
For `RosterAnnounced` the last list in `out` has to be the new one (`LastList`).

**Figures.**  An operation on a figure is sent by a member and leaves
`Books` alone (`Drawn`); `Stored` adds the types and bounds of the figures.  That the `zIndex` of
images are 0, 1, ..., n - 1 is by cardinality: a new image gets n, and an image is never
removed nor replaced.  `Handled` says of each operation that it either answers with an error and changes
nothing, or changes one figure and sends the new one to every connected member; the four
properties about messages follow.  A newcomer is sent each map in an order that the model leaves open: a
permutation of a finite set has all its elements, so none is left out.

**Refinement.**  Each action is mapped to one of `Whiteboards`: there is a lemma for each handler, that it is
`Create`, `Apply`, `Decide`, `Leave`, `End`, `Edit` or nothing (`CreateIsCreate` and so on), from `Books`; that
`Decide` is done by the host comes from the guard of the router and from `HostAgrees`, and
that `End` empties the whiteboard from `MembershipAgrees`.  A step of `Server` that answers for a figure
is `Edit`, by a member, of the one whiteboard the member is in.

**Post.**  `PostOK` says of each open connection that a request that waits is either in the channel to
the server, or answered by exactly one message in the channel back (`Coming`), that
the answers on the way are in the order of the requests (`InOrder`), and that what is on the
way to the server is what waits (`Expected`).  It rests on `OneAnswer`: a second answer to one
message, or none, breaks it.

**Trails.**  While messages cross, nothing that a browser shows need be what the server has.
`ViewOK` says that there is a *trail*: a sequence of states of the connection that begins with what
the browser shows, ends with what the server has, and has a step for each message on the way, which is what
that message with its callback makes of the screen (`Trail`).  What the server sends prolongs
the trail at its end (`NewsAreSeen`), what the browser receives takes off its first step.  The same for the
lists of users and for the applicants of a host: somewhere on the way, in the whiteboard that the trail ends in, is
the message with the current list, and nothing after it spoils it (`Roster`, `Applicant`).  With empty channels the
trail has one state, and the three properties follow.  The step of a browser that breaks its
trail is one that `Misled` names, which is how `evicted` was found.

**Timelines.**  The code scans the changes of a note from the newest on and applies the patches of a line
from the oldest on; `NewestWins` compares the scan with a fold, and a line is a fold already.  A fold of the
library is a recursive function on the subsets of a domain; `PatchProofs` takes it apart by induction on the set of the
numbers for which a statement holds, and the rest of the proof for notes is about sets: `Since` and `Word` say which patches the scan still looks at.
Settling the oldest patch of a line begins the fold one step later (`DrawLater`).  `TimelineOK` adds that the ids of patches are
increasing, so that the one that is settled is the first.

**Stores.**  `StoresOK` says that every patch in a store carries the number of a request that waits, which is about
the very figure (`About`), so that the callback that ends the request finds the patch.  It is inductive as several
patches may be made at once (`PatchedAll`, the flush of the eraser), and as a store only loses timelines where it is
cleared, together with its patches: this is `Keeps`, for every other step.

**Screens.**  `EditorOK`: while the components of the editor are there, each note that they draw, or are
about to be handed, has a timeline.  Stores are cleared only by an event that takes the editor
off the screen.

**Pens.**  `PenOK` says of the context, the history and the cache of a browser that every line they name has a
timeline.  It stands and falls with the moments at which the stores are cleared: when a whiteboard is left, which
resets the pen, and when one is created, which does not.  So `PenOK` has a second part: on the screens before a whiteboard
the pen is put away.  Nothing in the pen's own code sees to that.  A browser that draws would come back to the screen
"create or join" with its pen in hand if a second hello of its own succeeded, and a hello may be answered at any time
after it was sent.  That it cannot is a matter of the channels (`Mailbox`): a browser sends nothing but hellos until the
success of one has reached it, at most one success of a hello is on its way (`Welcome`), none is while the server has the
connection as anonymous (`BrowserOK`); of the other answers, only one to a leave takes a browser back to that screen,
and its callback resets the pen.  `BrowsersOK` puts these
together with `Books` and `StoresOK`; each step of `App` keeps it (`AppKeepsMail`) and either keeps the timelines,
or resets the pen, or finds it put away (`Sober`).  The cache of effective lines needs a clause of its own, since the
eraser meets what is cached.

**Ink.**  With `PensOK`, `InkIsSent` is about one step.  A pointer event derives a context with a larger buffer of the same line,
and a flush sends all of it in a request that was not there before (`FlushSends`), since the numbers of those
that wait are not above `sent`.  A stroke that starts while another has not ended has another line, since the line of
the first is `taken`.

**Convergence.**  What a browser shows and what the server stores differ while messages cross, so `Converged` says nothing
that a step could rest on.  `SightOK` does: the messages on their way to a browser that is not misled are its *course*
from the state it shows to the state the server has it in (`Course`, the trail of `ViewOK` with answers about figures), and
if that is a whiteboard, every figure of the whiteboard has a place on the last part of the course, which does not
leave the whiteboard any more: a message that brings it, or the beginning, where the browser has it from the
server already; and no later message says otherwise (`FigureAt`).  The server prolongs the course: a change is sent to every
member, so the figure gets a new place at the end, and a newcomer is sent every figure that there is, in whatever
order (`HandlingKeepsSight`).  The browser takes off its beginning: a message about a figure becomes the committed
state of the timeline, an answer with its callback moves the screen (`ReceiveKeepsSight`).  What a browser does itself changes
patches and never a committed state (`PressingKeepsSight`, `SameCopies`), one patch or, for the eraser and undo, several.
Four things have to hold besides.  The stores are blank on the screens before a
whiteboard (`Ready`): a member that a leave took away must not bring figures into the next whiteboard, which is where a
leave that timed out goes wrong (section 7) and why `Misled` is left out.  No message is answered twice, and a request of the session that the
server has yet to handle still waits (`Orderly`), since an answer whose request is gone would move the server and not the
browser.  The id of each figure that the server stores, a message names or a store has a timeline for was
`taken` (`Fresh`): a newly invented id that a store already knew would lose its committed state.  And the server has no figures in a
whiteboard that nobody has created (`ContentsOK`).  With an empty channel the beginning is the only place, and
without a request that waits no patch is left (`StoresOK`), so the committed state is what is shown (`SettledNote`,
`SettledImage`, `SettledLine`).

**Replicas.**  `AppImplementsReplicas` maps each step of `App` to one of `Replicas`, with `SightOK` before and after it.
`News` is a fold over the channel; `NotedByStep` and `NewsJoin` take it apart, and say that one more message is at
most one more news.  The place that `FigureAt` gives a figure is the last message that concerns it, so the copy of a
reader with its news is the content of its whiteboard (`ListenerIsRight`).  Whoever comes is therefore right, in any step that
changes no content (`AllComeAndGo`), and what is left is about those who stay.  Nothing changes for them when a browser
sends, gives up or loses its connection, since a local change touches no committed state (`PressingIsQuiet`), nor when the
server answers for the session, which says nothing of figures but to the one it admits (`SilentServer`).  A browser that reads a
message about a figure hears the first of its news: the callback of the request that the message answers and the update of the store, in this
order, commit what the message says (`ReceivingHears`).  A handler that sets a figure changes one entry of the
content and appends the same news for every reader of the whiteboard (`SettingTells`).

Only model-checked: `EchoIsInvisible` (run `app`); `DrawnInOrder`
(with leftovers of another whiteboard two images may have one `zIndex`, so that it is not true of all
starting states, and the run leaves these out); `LineEchoIsInvisible`
(run `drawing`); `NoGaps`, `NothingElsewhere`, `EraserCovers`, which need facts about square roots and
divisions that the provers have not.  Out of their reach: liveness
(`ScreensShowTheBoard`, `EveryRequestReturns`).

## 7. Where code and documentation disagree

Runs with the verdict *violation* show, with a trace each:

* **session_present**: who disconnects while waiting for approval can be approved,
  and stays among the "Connected users" for ever.
* **client_prompt**: a create that times out is carried out; the browser says that
  it was not, offers to create or join, and is refused both for ever.
* **app_leftovers**: "ensure no leftover from other whiteboard" is done by create
  and not by join; after a leave that timed out a note of the last
  whiteboard shows up in the next one.
* **screen_undone**: "discarding the patch undoes the changes", but the canvas of the images is
  painted over and never cleared; an image that was placed on the border, and refused, stays.
* **drawing_shown**: `flush` clears the very set that it made a patch of; the ink is
  gone from the screen until the server answers.

Outside of the runs, by the further configurations of section 4:

* `PendingHasHost`: who waits for approval when the host ends the session
  waits for ever, for a host that does not exist.
* `DisconnectionIsShown`: the timeout of a leave moves a browser that has lost its
  connection from "Protocol disconnected" to the prompt for whiteboards.
* `NoAnswerGoesAstray`: a browser that asks to join and to create at once can be
  admitted, sent away and made host, and ignores the last.
* `callback` (auth-controller.ts:183): the callback of a leave shows "create or join"
  without a look at the answer.  A user who leaves twice, or while the session ends, and
  who is in the next whiteboard by then, is taken off its screen by the refusal of the leave and
  stays a member.  An attempt to prove `StatesAgree` found this, not the run, which did
  not go that far; `evicted` and the scene `Eager` are there since.
* Requests do not say which whiteboard they are about: a note that a user puts on the screen of an ended session gets
  into the whiteboard for which the same user asked before.  The stores were cleared meanwhile, so the
  server's message brings a note that was not on the screen.  A larger instance, tried before a proof of
  `EchoIsInvisible`, had a trace of it; the property is stated for requests whose patch is still there (`Remembers`).
* `DrawingOrderIsDeterministic` (`ScreenOrder.cfg`): "sort the images for deterministic drawing
  order", but two passes of `renderImages` may end in the other order, and then an image is
  under one that has been there before it.
* `NothingIsMissed` (`ScreenMissed.cfg`): a component that takes its first copy and listens only
  after its first effect misses a figure that comes in between.  Who is admitted to a
  whiteboard with one image or one note may not see it until the next one comes.
* `SoundImagesArePainted` (`ScreenBroken.cfg`): `loadImage` waits for `load` and not for `error`, so that
  one file that is no image keeps every later pass, and every other image, off the canvas.
* `IncludesBothEnds` (`GeometryEnds.cfg`): "coordList includes original Coords a & b"; a segment of
  length 0 has only the point NaN, sent as (0, 0), and one of fractional length lacks its end.
* `NothingElsewhere` with strokes on the border (`GeometryBorder.cfg`): a point at x = -1 or y = -1
  becomes a number that decodes to another point, a million pixels away, and the segment
  to it crosses the canvas.

## 8. What is not modelled

* The drawing of lines on the canvas, which starts from scratch with each copy, and the sizes
  of notes and images.  A component that missed an update because it did not listen yet shows
  it only with the next one; the model has the case (`missed`, section 7), and
  `ScreensShowTheBoard` is stated for the others.
* Which tool is chosen, and the reading of an image file, which chooses one when it is
  done: `Drawing` lets any tool be chosen between two events.
* What becomes of a misled browser, whose request of the session timed out or was answered on the wrong
  screen: its stores may have leftovers of another whiteboard (**app_leftovers**), so `Converged` and
  the refinement of `Replicas` leave it out.
* Alerts, the screenshot tool, icons and layout, the address bar (whether it names a whiteboard
  is left open).
* The wire format: generated code.  What an encoding does to a value is modelled where it
  matters (NaN, the filter of points, a UUID that is taken).
* Malformed messages, and a crash of the server: it loses all whiteboards and closes
  all connections, after which browsers show DISCONNECTED and nothing more.
* Pointer events on the border of the canvas in `Drawing` (`MCGeometry` has them), and the
  rounding of floating point for segments some hundred pixels long.
* `localUpdatePos` of images, which nothing calls; benchmarks; deployment.

## 9. The plan

Done: `Session`, `Server`, `ClientSession`, `Timelines`, `App`, `Geometry`, `Drawing`, `Screen`, in this order, so
that what others rely on came first; `Whiteboards` and `Replicas` as what they implement; the runs
above; the theorems of section 6.

Next, proofs, in order of worth:

1. `EchoIsInvisible` and `LineEchoIsInvisible`, from `StoresOK` and the order of the answers (`InOrder`).
2. Of Geometry: a point goes through its number and back.

Left for models: `Drawing` under fairness (a stroke reaches the whiteboard), and the screens of
browsers that draw lines.
