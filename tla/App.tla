-------------------------------- MODULE App ----------------------------------
(***************************************************************************)
(* The whole program but for the pen: browsers with their stores of        *)
(* figures, the channels, and the backend.                                 *)
(*                                                                         *)
(* A change of a figure is shown at once, as a patch in its timeline, and  *)
(* sent.  The server tells every member of the whiteboard what has become  *)
(* of the figure, and whatever answers the request, or its timeout,        *)
(* discards the patch.                                                     *)
(***************************************************************************)
EXTENDS ClientSession, Server

CONSTANTS Buttons,   \* bound: the requests that each user makes
          Faults,    \* bound: what goes wrong for each
          Undefined  \* a field that a change does not mention

ASSUME AppAssumption ==
  /\ IsFiniteSet(NoteIds) /\ IsFiniteSet(LineIds)
  /\ Buttons \in [Clients -> SUBSET ClientToServerCase]
  /\ Faults \in [Clients -> SUBSET {"timeout", "disconnect"}]
  /\ Undefined # NoFigure
  /\ Undefined \notin Coordinates /\ Undefined \notin Texts /\ Undefined \notin Nat

VARIABLES stores,  \* noteTimelines, lineTimelines, imgTimelines of a browser
          taken    \* the ids that v4() has returned

appVars == <<clientVars, figureVars, stores, taken>>

T == INSTANCE Timelines WITH Null <- NoFigure
-----------------------------------------------------------------------------
(* Requests about figures, and the patch that each one makes.              *)

NewNoteBody(n, position, text) ==
  [case |-> "createNote", id |-> n, position |-> position, text |-> text]
TextBody(n, text)         == [case |-> "updateNoteText", id |-> n, text |-> text]
PositionBody(n, position) == [case |-> "updateNotePosition", id |-> n, position |-> position]
DeleteNoteBody(n)         == [case |-> "deleteNote", id |-> n]
NewImageBody(i, position) == [case |-> "createImage", id |-> i, position |-> position]
PointsBody(case, l, points) == [case |-> case, id |-> l, points |-> points]
DeleteLineBody(l)         == [case |-> "deleteLine", id |-> l]

StoreOf(body) ==
  CASE body.case \in
         {"createNote", "updateNoteText", "updateNotePosition", "deleteNote"} -> "note"
    [] body.case \in
         {"createLine", "addPointsToLine", "removePointsFromLine", "deleteLine"} -> "line"
    [] body.case = "createImage" -> "image"

(* zIndex of an image that the server has not numbered.                    *)
LocalZIndex(id) == 1000000 + id

DiffOf(id, body) ==
  CASE body.case = "createNote"           -> T!NoteDiff(body.position, body.text)
    [] body.case = "updateNoteText"       -> T!TextDiff(body.text)
    [] body.case = "updateNotePosition"   -> T!PositionDiff(body.position)
    [] body.case = "deleteNote"           -> T!NoteDeletion
    [] body.case = "createImage"          -> T!ImgDiff(body.position, LocalZIndex(id))
    [] body.case = "removePointsFromLine" -> T!RemovePoints(body.points)
    [] body.case = "deleteLine"           -> T!LineDeletion
    [] OTHER                              -> T!AddPoints(body.points)

Creates(body) == body.case \in {"createNote", "createImage", "createLine"}

(* The local... functions: the patch diff for the request body with id.    *)
Patched(store, id, body, diff) ==
  [store EXCEPT ![StoreOf(body)][body.id] =
     IF Creates(body) THEN T!newLocalTimeline(id, diff) ELSE T!patched(@, id, diff)]

(* What the store has of a figure that it does not know.                   *)
NoTimeline == [missing |-> TRUE]

NoStore == [note  |-> [n \in NoteIds  |-> NoTimeline],
            line  |-> [l \in LineIds  |-> NoTimeline],
            image |-> [i \in ImageIds |-> NoTimeline]]

(* Nothing is known of a figure that has no timeline.                      *)
setServerState(store, kind, id, figure) ==
  [store EXCEPT ![kind][id] =
     IF @ # NoTimeline THEN T!setCommitted(@, figure)
     ELSE IF figure = NoFigure THEN @ ELSE T!newCommittedTimeline(figure)]

(* handleMessage, for figures.  Mutant: deletions are not heeded.          *)
storeAfterMessage_NoDeletions(store, m) ==
  CASE m.type = "lineCreatedOrUpdated" -> setServerState(store, "line", m.id, m.points)
    [] m.type = "noteCreatedOrUpdated" -> setServerState(store, "note", m.id, m.note)
    [] m.type = "imageCreated"         -> setServerState(store, "image", m.id, m.image)
    [] OTHER                           -> store
storeAfterMessage(store, m) ==
  CASE m.type = "lineCreatedOrUpdated" -> setServerState(store, "line", m.id, m.points)
    [] m.type = "lineDeleted"          -> setServerState(store, "line", m.id, NoFigure)
    [] m.type = "noteCreatedOrUpdated" -> setServerState(store, "note", m.id, m.note)
    [] m.type = "noteDeleted"          -> setServerState(store, "note", m.id, NoFigure)
    [] m.type = "imageCreated"         -> setServerState(store, "image", m.id, m.image)
    [] OTHER                           -> store

discardPatch(store, r) ==
  [store EXCEPT ![StoreOf(r.body)][r.body.id] =
     IF @ = NoTimeline THEN @ ELSE T!discardPatch(@, r.id)]

(* clearStores is called when a whiteboard is left or created.             *)
ClearsStores(s, r, m) ==
  \/ r.body.case = "leaveWhiteboard"
  \/ /\ r.body.case = "createWhiteboardRequest" /\ m.type = "whiteboardCreated"
     /\ s.state = "NO_WHITEBOARD"

(* What the callback of the request r does to the stores; s is the state   *)
(* of the browser before.  Mutant: a refusal leaves the patch.             *)
storeAfterCallback_OnSuccess(store, s, r, m) ==
  CASE r.body.case \in FigureMessages ->
         IF m.type = "error" THEN store ELSE discardPatch(store, r)
    [] ClearsStores(s, r, m)           -> NoStore
    [] OTHER                           -> store
storeAfterCallback(store, s, r, m) ==
  CASE r.body.case \in FigureMessages -> discardPatch(store, r)
    [] ClearsStores(s, r, m)           -> NoStore
    [] OTHER                           -> store
-----------------------------------------------------------------------------
(* What is shown.                                                          *)

getEffectiveNote(store, n) ==
  IF store.note[n] = NoTimeline THEN NoFigure ELSE T!getEffectiveNote(store.note[n])
getEffectiveImg(store, i) ==
  IF store.image[i] = NoTimeline THEN NoFigure ELSE T!getEffectiveImg(store.image[i])
getEffectiveLine(store, l) ==
  IF store.line[l] = NoTimeline THEN NoFigure ELSE T!getEffectiveLine(store.line[l])

ShownNote(c, n)  == getEffectiveNote(stores[c], n)
ShownImage(c, i) == getEffectiveImg(stores[c], i)
ShownLine(c, l)  == getEffectiveLine(stores[c], l)
-----------------------------------------------------------------------------
(* The user changes figures.                                               *)

(* A whiteboard is on the screen.  When the session ends the tools are     *)
(* taken away, but the one that was chosen last stays chosen.              *)
ShowsBoard(c) ==
  clientState[c].state \in {"WHITEBOARD_USER", "WHITEBOARD_HOST", "SESSION_ENDED"}

(* A patch for each of the requests, of which first were sent before.      *)
PatchedAll(store, first, bodies, diffs) ==
  FoldLeft(LAMBDA s, i : Patched(s, first + i, bodies[i], diffs[i]),
           store, [i \in DOMAIN bodies |-> i])

(* The controllers: the patches, and the requests.                         *)
Change(c, bodies, diffs) ==
  /\ PressAll(c, bodies)
  /\ stores' = [stores EXCEPT ![c] = PatchedAll(@, sent[c], bodies, diffs)]
  /\ UNCHANGED figureVars

ChangeOne(c, body) ==
  body.case \in Buttons[c] /\ Change(c, <<body>>, <<DiffOf(sent[c] + 1, body)>>)

Invent(id) == id \notin taken /\ taken' = taken \cup {id}

addNote(c, n, position, text) ==
  /\ ShowsBoard(c)
  /\ Invent(n)
  /\ ChangeOne(c, NewNoteBody(n, position, text))

addImage(c, i, position) ==
  /\ ShowsBoard(c)
  /\ Invent(i)
  /\ ChangeOne(c, NewImageBody(i, position))

(* A note on the screen is typed in, dragged or deleted.                   *)
changeNote(c, n) ==
  /\ \/ \E text \in Texts : ChangeOne(c, TextBody(n, text))
     \/ \E position \in Coordinates : ChangeOne(c, PositionBody(n, position))
     \/ ChangeOne(c, DeleteNoteBody(n))
  /\ UNCHANGED taken

(* The notes on the screen are those of the store, as far as the screen    *)
(* has followed it (Screen).                                               *)
AddFigure(c) ==
  \/ \E n \in NoteIds, position \in Coordinates, text \in Texts : addNote(c, n, position, text)
  \/ \E i \in ImageIds, position \in Coordinates : addImage(c, i, position)

FigureAction(c) ==
  \/ AddFigure(c)
  \/ \E n \in NoteIds : ShowsBoard(c) /\ ShownNote(c, n) # NoFigure /\ changeNote(c, n)

(* The other buttons; the exit button clears the stores if nobody is asked.*)
SessionAction(c) ==
  /\ \/ /\ \/ "clientHello" \in Buttons[c] /\ setUsername(c)
           \/ "createWhiteboardRequest" \in Buttons[c] /\ createWhiteboard(c)
           \/ "leaveWhiteboard" \in Buttons[c] /\ leaveWhiteboard(c)
           \/ "joinWhiteboard" \in Buttons[c] /\ \E b \in Boards : joinWhiteboard(c, b)
           \/ "approveOrDenyJoin" \in Buttons[c] /\ \E x \in Clients : approveOrDenyUser(c, x)
        /\ UNCHANGED stores
     \/ /\ "leaveWhiteboard" \in Buttons[c] /\ exitEndedSession(c)
        /\ stores' = [stores EXCEPT ![c] = NoStore]
  /\ UNCHANGED <<figureVars, taken>>
-----------------------------------------------------------------------------
(* The events of a browser.                                                *)

ConnectionEvent(c) ==
  /\ "disconnect" \in Faults[c] /\ (Connected(c) \/ Disconnected(c))
  /\ UNCHANGED <<figureVars, stores, taken>>

ReceiveFigure(c) ==
  /\ Receive(c)
  /\ LET m == Head(toClient[c]).body
     IN  \/ /\ Caused(c) = {}
            /\ stores' = [stores EXCEPT ![c] = storeAfterMessage(@, m)]
         \/ \E r \in Caused(c) :
              stores' = [stores EXCEPT ![c] =
                storeAfterCallback(storeAfterMessage(@, m),
                                   handleMessage(clientState[c], m), r, m)]
  /\ UNCHANGED <<figureVars, taken>>

(* The oldest request has waited too long.                                 *)
TimeOutFigure(c) ==
  /\ "timeout" \in Faults[c]
  /\ TimeOut(c)
  /\ \E r \in handlers[c] \ handlers'[c] :
       stores' = [stores EXCEPT ![c] = storeAfterCallback(@, clientState[c], r, Timeout)]
  /\ UNCHANGED <<figureVars, taken>>
-----------------------------------------------------------------------------
(* The server takes a message.                                             *)

FigureHandler(c, body) ==
  \/ body.case = "createLine" /\ CreateLine(c, body.id, body.points)
  \/ body.case = "addPointsToLine" /\ AddPointsToLine(c, body.id, body.points)
  \/ body.case = "removePointsFromLine" /\ RemovePointsFromLine(c, body.id, body.points)
  \/ body.case = "deleteLine" /\ DeleteLine(c, body.id)
  \/ body.case = "createNote" /\ CreateNote(c, body.id, body.position, body.text)
  \/ body.case = "updateNoteText" /\ UpdateNoteText(c, body.id, body.text)
  \/ body.case = "updateNotePosition" /\ UpdateNotePosition(c, body.id, body.position)
  \/ body.case = "deleteNote" /\ DeleteNote(c, body.id)
  \/ body.case = "createImage" /\ CreateImage(c, body.id, body.position)

HandleFigure(c) ==
  /\ toServer[c] # <<>>
  /\ LET body == Head(toServer[c]).body
     IN  \/ PlainHandler(c, body) /\ UNCHANGED figureVars
         \/ /\ body.case = "approveOrDenyJoin" /\ body.approve
            /\ BootstrappingApproval(c, body.client)
         \/ FigureHandler(c, body)
  /\ Handled(c)
  /\ UNCHANGED <<stores, taken>>

SocketStep(c) ==
  /\ "disconnect" \in Faults[c] /\ SocketEvent(c)
  /\ UNCHANGED <<figureVars, stores, taken>>
-----------------------------------------------------------------------------
AppInit ==
  /\ ClientInit
  /\ ServerInit
  /\ stores = [c \in Clients |-> NoStore]
  /\ taken  = {}

AppStep(c) ==
  \/ SessionAction(c) \/ ConnectionEvent(c) \/ ReceiveFigure(c) \/ TimeOutFigure(c)
  \/ HandleFigure(c) \/ SocketStep(c)

AppNext == \E c \in Clients : FigureAction(c) \/ AppStep(c)

AppSpec == AppInit /\ [][AppNext]_appVars

(* As in ClientSession: timers fire, the server and the connections go on. *)
AppFairness ==
  \A c \in Clients :
    WF_appVars(TimeOutFigure(c)) /\ WF_appVars(ReceiveFigure(c)) /\ WF_appVars(HandleFigure(c))
-----------------------------------------------------------------------------
(* A member of a whiteboard whose requests of the session were answered.   *)
Follows(c, b) == InBoard(c, b) /\ Linked(c) /\ c \notin Misled

(* Convergence: when nothing is on its way to or from a member of a        *)
(* whiteboard and none of its requests waits, it shows the figures of the  *)
(* whiteboard, whoever changed what in which order, whatever was refused   *)
(* or timed out, and whenever it joined.  (An empty line shows nothing.)   *)
Ink(line) == IF line = NoFigure THEN {} ELSE line
Converged ==
  \A b \in Boards, c \in Clients :
    Follows(c, b) /\ Quiet(c) /\ handlers[c] = {} =>
      /\ \A n \in NoteIds  : ShownNote(c, n) = notes[b][n]
      /\ \A i \in ImageIds : ShownImage(c, i) = images[b][i]
      /\ \A l \in LineIds  : Ink(ShownLine(c, l)) = Ink(lines[b][l])

(* What browsers and backend are for: the replicas of Replicas.  The       *)
(* content of a whiteboard is what the server stores, a copy is what the   *)
(* timelines of a browser have from the server, and the news are the       *)
(* messages on their way to it.  Local changes do not matter, but nothing  *)
(* that others do between the admission of a member, the figures that it   *)
(* is sent, and the arrival of these may be missed or come out of order.   *)
Content(b) == [note |-> notes[b], image |-> images[b], line |-> lines[b]]
Committed(store) ==
  [kind \in DOMAIN store |->
    [id \in DOMAIN store[kind] |->
      IF store[kind][id] = NoTimeline THEN NoFigure ELSE store[kind][id].committed]]

Becomes(kind, id, figure) == [kind |-> kind, id |-> id, now |-> figure]
NewsOf(m) ==
  CASE m.type = "noteCreatedOrUpdated" -> Becomes("note", m.id, m.note)
    [] m.type = "noteDeleted"          -> Becomes("note", m.id, NoFigure)
    [] m.type = "imageCreated"         -> Becomes("image", m.id, m.image)
    [] m.type = "lineCreatedOrUpdated" -> Becomes("line", m.id, m.points)
    [] m.type = "lineDeleted"          -> Becomes("line", m.id, NoFigure)
FigureTypes == {"noteCreatedOrUpdated", "noteDeleted", "imageCreated",
                "lineCreatedOrUpdated", "lineDeleted"}
Noted(news, m) ==
  IF m.body.type \in FigureTypes THEN Append(news, NewsOf(m.body)) ELSE news
News(down) == FoldLeft(Noted, <<>>, down)

(* Whoever is a member and knows it; one that has been admitted is none    *)
(* before it has read so.                                                  *)
BeingAdmitted(c) ==
  \E i \in DOMAIN toClient[c] : toClient[c][i].body.type \in {"joinApproved", "whiteboardCreated"}
Listens(c) ==
  /\ \E b \in Boards : /\ clientState[c] \in {On("WHITEBOARD_USER", b), On("WHITEBOARD_HOST", b)}
                       /\ Follows(c, b)
  /\ ~BeingAdmitted(c)
NoReader  == [board |-> NoBoard]
Reader(c) ==
  IF Listens(c)
  THEN [board |-> fsm[c].board, news |-> News(toClient[c]), copy |-> Committed(stores[c])]
  ELSE NoReader

Copies == INSTANCE Replicas WITH
  Readers <- Clients,
  Figures <- ({"note"} \X NoteIds) \cup ({"image"} \X ImageIds) \cup ({"line"} \X LineIds),
  Nobody  <- NoReader,
  Blank   <- Committed(NoStore),
  content <- [b \in Boards |-> Content(b)],
  reader  <- [c \in Clients |-> Reader(c)]

ImplementsReplicas == Copies!Spec

(* Every patch has a request that waits, whose callback will discard it: a *)
(* change that the server refused is not shown for ever.                   *)
PatchesWait ==
  \A c \in Clients : \A kind \in {"note", "image", "line"} :
    \A id \in DOMAIN stores[c][kind] :
      stores[c][kind][id] # NoTimeline =>
        \A k \in DOMAIN stores[c][kind][id].patches :
          Waits(c, stores[c][kind][id].patches[k].id)

(* "If success - the change is already incorporated into state sent by     *)
(* server": the answer to a request that succeeded changes nothing of what *)
(* its sender sees, whatever others did and whatever it asked meanwhile.   *)
(* (The creator of a note and the place of an image among the others are   *)
(* the server's to say.  The stores may have been cleared since it asked:  *)
(* what is put on the screen of an ended session gets into a whiteboard    *)
(* that its user asked for before, and shows up there.)                    *)
SeenNote(c, n) ==
  LET note == ShownNote(c, n)
  IN  IF note = NoFigure THEN note ELSE [position |-> note.position, text |-> note.text]
SeenImage(c, i) ==
  LET img == ShownImage(c, i) IN IF img = NoFigure THEN img ELSE img.position

Remembers(c, r) ==
  LET entry == stores[c][StoreOf(r.body)][r.body.id]
  IN  entry # NoTimeline /\ \E k \in DOMAIN entry.patches : entry.patches[k].id = r.id
Succeeds(c) ==
  /\ toClient[c] # <<>> /\ Tail(toClient[c]) = toClient'[c] /\ link[c] = "open"
  /\ \E r \in Caused(c) : r.body.case \in FigureMessages /\ Remembers(c, r)
  /\ Head(toClient[c]).body.type # "error"
EchoIsInvisible ==
  [][\A c \in Clients \ Misled : Succeeds(c) =>
       /\ \A n \in NoteIds  : SeenNote(c, n)' = SeenNote(c, n)
       /\ \A i \in ImageIds : SeenImage(c, i)' = SeenImage(c, i)]_appVars

(* "ensure no leftover from other whiteboard": a member shows only notes   *)
(* of its whiteboard.                                                      *)
NoLeftovers ==
  \A b \in Boards, c \in Clients :
    InBoard(c, b) /\ Quiet(c) /\ handlers[c] = {} =>
      \A n \in NoteIds : ShownNote(c, n) # NoFigure => notes[b][n] # NoFigure
=============================================================================
