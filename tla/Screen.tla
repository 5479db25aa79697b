------------------------------- MODULE Screen ---------------------------------
(***************************************************************************)
(* What a user sees, which is not what the stores of the browser hold.     *)
(* The components of the editor draw from copies.  A change of a store     *)
(* hands a new copy to the components that listen, at once or, when one    *)
(* was handed out less than 5 ms ago, later.  Images take another way      *)
(* still: each copy starts a pass that loads all of them and then paints   *)
(* them on a canvas that nobody clears.                                    *)
(*                                                                         *)
(* React renders a component in the event that asks for it; its effects,   *)
(* among them to start listening, run in an event of their own.            *)
(***************************************************************************)
EXTENDS App

CONSTANTS Viewers,  \* bound: the browsers whose screens are looked at
          Broken    \* the images whose bytes the browser cannot decode

ASSUME ScreenAssumption == Viewers \subseteq Clients /\ Broken \subseteq ImageIds

VARIABLE screen  \* of every viewer, a record of
  (* editor     "none", "rendered" (it does not listen yet) or "listening" *)
  (* copy       the state of the hooks: what the components draw           *)
  (* due        the throttled functions whose trailing call is to come     *)
  (* missed     what was handed out before the components listened         *)
  (* loading    the passes of renderImages that wait for their images, the *)
  (*            oldest first, and whether a newer one has painted already  *)
  (* painted    the images on the canvas, from the bottom to the top       *)
  (* overtaken  the pass that painted last was not the newest (history)    *)

screenVars == <<appVars, screen>>
-----------------------------------------------------------------------------
Kinds == {"note", "line", "image"}

(* getEffectiveImgs: the images that are shown, by zIndex.                 *)
(* Mutant: in no particular order.                                         *)
EffectiveImgs(store) == {i \in ImageIds : getEffectiveImg(store, i) # NoFigure}
getEffectiveImgs_Unsorted(store) == SetToSeq(EffectiveImgs(store))
getEffectiveImgs(store) ==
  SetToSortSeq(EffectiveImgs(store), LAMBDA i, j :
    getEffectiveImg(store, i).zIndex < getEffectiveImg(store, j).zIndex)

(* What the components draw of a store.                                    *)
Effective(store) ==
  [note  |-> [n \in NoteIds |-> getEffectiveNote(store, n)],
   line  |-> [l \in LineIds |-> Ink(getEffectiveLine(store, l))],
   image |-> getEffectiveImgs(store)]

Show(editor, copy) ==
  [editor |-> editor, copy |-> copy, due |-> {}, missed |-> {},
   loading |-> <<>>, painted |-> <<>>, overtaken |-> FALSE]
NoEditor == Show("none", Effective(NoStore))
-----------------------------------------------------------------------------
(* lodash.throttle runs some of the functions that are called, and keeps   *)
(* the others for their trailing calls.  Mutant: there is none.            *)
Throttled_LeadingOnly(waiting, called, ran) == waiting \ ran
Throttled(waiting, called, ran)             == (waiting \cup called) \ ran

(* A new copy of the images starts a pass (the useEffect of Canvas).       *)
renderImages(loading, list) == Append(loading, [images |-> list, stale |-> FALSE])

(* The components of the screen s get the new copies of some kinds, if     *)
(* they listen by now.                                                     *)
HandOut(s, kinds, new) ==
  IF s.editor # "listening" THEN [s EXCEPT !.missed = @ \cup kinds]
  ELSE [s EXCEPT !.copy    = [k \in Kinds |-> IF k \in kinds THEN new[k] ELSE @[k]],
                 !.missed  = @ \ kinds,
                 !.loading = IF "image" \in kinds THEN renderImages(@, new.image) ELSE @]

(* The same, by functions of which some were called and some ran.          *)
Served(s, kinds, new, called, ran) ==
  [HandOut(s, kinds, new) EXCEPT !.due = Throttled(s.due, called, ran)]

(* sendNotesUpdate, sendLinesUpdate and sendImgsUpdate are called in an    *)
(* event of c: those in first when its store was between, and those in     *)
(* second when it is what it is now.                                       *)
Update(c, first, between, second) ==
  \E late \in SUBSET (first \cup second) : \E early \in SUBSET ((first \cap second) \ late) :
    LET new == [k \in Kinds |-> Effective(IF k \in early THEN between ELSE stores'[c])[k]]
    IN  screen' = [screen EXCEPT ![c] =
                     Served(@, late \cup early, new, first \cup second, late)]

(* useState takes the first copies when the editor is rendered: there is   *)
(* no news in the trailing call of an earlier update.                      *)
FirstCopies(c) == Effective(stores'[c])

(* Lifecycle shows the editor, or takes it away with all that it knew.     *)
Redraw(c, first, between, second) ==
  IF c \notin Viewers THEN UNCHANGED screen
  ELSE IF ~ShowsBoard(c)' THEN screen' = [screen EXCEPT ![c] = NoEditor]
  ELSE IF screen[c].editor = "none"
       THEN screen' = [screen EXCEPT ![c] = Show("rendered", FirstCopies(c))]
       ELSE Update(c, first, between, second)
-----------------------------------------------------------------------------
(* The events of App, with what they update.                               *)

(* The notes that can be typed in, dragged and deleted are the drawn ones. *)
changeShownNote(c) ==
  /\ ShowsBoard(c)
  /\ \E n \in NoteIds :
       /\ IF c \in Viewers THEN screen[c].copy.note[n] # NoFigure ELSE ShownNote(c, n) # NoFigure
       /\ changeNote(c, n)

(* What a new request is about.                                            *)
Touched(c) == {StoreOf(r.body) : r \in {q \in handlers'[c] \ handlers[c] :
                                          q.body.case \in FigureMessages}}

Edit(c) ==
  /\ AddFigure(c) \/ changeShownNote(c)
  /\ Redraw(c, {}, stores[c], Touched(c))

PressButton(c) ==
  /\ SessionAction(c) \/ ConnectionEvent(c)
  /\ Redraw(c, {}, stores[c], {})

(* The stores that a message, and then the callback of a request, update.  *)
MessageUpdates(m) ==
  CASE m.type \in {"noteCreatedOrUpdated", "noteDeleted"} -> {"note"}
    [] m.type \in {"lineCreatedOrUpdated", "lineDeleted"} -> {"line"}
    [] m.type = "imageCreated"                            -> {"image"}
    [] OTHER                                              -> {}
CallbackUpdates(s, r, m) ==
  IF r.body.case \in FigureMessages THEN {StoreOf(r.body)}
  ELSE IF ClearsStores(s, r, m) THEN Kinds ELSE {}

ReceiveAndRedraw(c) ==
  /\ ReceiveFigure(c)
  /\ LET m == Head(toClient[c]).body
     IN  Redraw(c, MessageUpdates(m), storeAfterMessage(stores[c], m),
                UNION {CallbackUpdates(handleMessage(clientState[c], m), r, m) : r \in Caused(c)})

TimeOutAndRedraw(c) ==
  /\ TimeOutFigure(c)
  /\ Redraw(c, {}, stores[c],
       UNION {CallbackUpdates(clientState[c], r, Timeout) : r \in handlers[c] \ handlers'[c]})

Elsewhere(c) ==
  /\ HandleFigure(c) \/ SocketStep(c)
  /\ UNCHANGED screen
-----------------------------------------------------------------------------
(* What a screen does by itself.                                           *)

(* The effects of the first rendering: the components listen from now on,  *)
(* and the images are loaded.                                              *)
useEffect(c) ==
  /\ screen[c].editor = "rendered"
  /\ screen' = [screen EXCEPT ![c].editor = "listening",
                              ![c].loading = renderImages(@, screen[c].copy.image)]
  /\ UNCHANGED appVars

(* The trailing call of a throttled function.                              *)
TrailingCall(c) ==
  \E k \in screen[c].due :
    /\ screen' = [screen EXCEPT ![c] = Served(@, {k}, Effective(stores[c]), {}, {k})]
    /\ UNCHANGED appVars

(* All images of a pass have been loaded, in whatever time that took, and  *)
(* are painted, on top of what is there.                                   *)
Paint(c) ==
  \E k \in DOMAIN screen[c].loading :
    LET pass == screen[c].loading[k]
        all  == ToSet(pass.images)
    IN  /\ all \cap Broken = {}
        /\ screen' = [screen EXCEPT
             ![c].painted   = SelectSeq(@, LAMBDA i : i \notin all) \o pass.images,
             ![c].overtaken = pass.stale,
             ![c].loading   = [j \in 1..(Len(@) - 1) |->
                IF j < k THEN [@[j] EXCEPT !.stale = TRUE] ELSE @[j + 1]]]
        /\ UNCHANGED appVars
-----------------------------------------------------------------------------
NewScreen(c) == IF ShowsBoard(c) THEN Show("listening", Effective(stores[c])) ELSE NoEditor
ScreensAreNew == screen = [c \in Viewers |-> NewScreen(c)]

ScreenInit == AppInit /\ ScreensAreNew

ScreenNext ==
  \/ \E c \in Clients : \/ Edit(c) \/ PressButton(c) \/ ReceiveAndRedraw(c)
                        \/ TimeOutAndRedraw(c) \/ Elsewhere(c)
  \/ \E c \in Viewers : useEffect(c) \/ TrailingCall(c) \/ Paint(c)

ScreenSpec == ScreenInit /\ [][ScreenNext]_screenVars

(* Besides what App assumes, effects are run, throttles have timers, and   *)
(* images are loaded.                                                      *)
ScreenFairness ==
  /\ AppFairness
  /\ \A c \in Viewers : /\ WF_screenVars(useEffect(c))
                        /\ WF_screenVars(TrailingCall(c))
                        /\ WF_screenVars(Paint(c))
-----------------------------------------------------------------------------
(* Whatever note a user can get hold of has a timeline, so that the        *)
(* controllers never throw "Tried updating text of a note without a        *)
(* NoteTimeline": the stores are cleared under the components, which lag   *)
(* behind, only as these are taken off the screen.                         *)
ShownNotesHaveTimelines ==
  \A c \in Viewers : \A n \in NoteIds :
    screen[c].editor # "none" /\ screen[c].copy.note[n] # NoFigure
      => stores[c].note[n] # NoTimeline

(* The images are painted in the order of their zIndex, once all of them   *)
(* are loaded, unless the last pass to paint was overtaken by a newer one. *)
AtRest(c) ==
  LET s == screen[c]
  IN  s.editor = "listening" /\ s.loading = <<>> /\ "image" \notin s.due \cup s.missed
PaintedInOrder(c) ==
  LET p == screen[c].painted
      z == [i \in EffectiveImgs(stores[c]) |-> getEffectiveImg(stores[c], i).zIndex]
  IN  /\ DOMAIN z \subseteq ToSet(p)
      /\ \A j, k \in DOMAIN p :
           j < k /\ {p[j], p[k]} \subseteq DOMAIN z => z[p[j]] < z[p[k]]
DrawnInOrder ==
  \A c \in Viewers : AtRest(c) /\ ~screen[c].overtaken => PaintedInOrder(c)

(* The screen of c shows the notes of b, and has painted those images.     *)
ShowsNotes(c, b) == \A n \in NoteIds : screen[c].copy.note[n] = notes[b][n]
HasPainted(c, these) == these \subseteq ToSet(screen[c].painted)

(* Once the users stop, the screen of every member of a whiteboard shows   *)
(* its notes and has painted its images, whatever was throttled in         *)
(* between, if the components were listening when the last of them came    *)
(* and the images can be decoded.                                          *)
ScreensShowTheBoard ==
  <>[](\A b \in Boards, c \in Viewers :
         Follows(c, b) /\ screen[c].missed = {} =>
           /\ ShowsNotes(c, b)
           /\ ToSet(screen[c].copy.image) = Images(b)
           /\ Images(b) \cap Broken = {} => HasPainted(c, Images(b)))

(* The same without its conditions, which the code does not keep true:     *)
(* what came before the components listened is not shown, and an image     *)
(* that cannot be decoded holds up the others.                             *)
NothingIsMissed ==
  <>[](\A b \in Boards, c \in Viewers :
         Follows(c, b) => ShowsNotes(c, b) /\ HasPainted(c, Images(b) \ Broken))
SoundImagesArePainted ==
  <>[](\A b \in Boards, c \in Viewers :
         Follows(c, b) /\ screen[c].missed = {} => HasPainted(c, Images(b) \ Broken))
-----------------------------------------------------------------------------
(* What the source says of the screen, and the code does not keep true.    *)

(* "If not, discarding the patch undoes the changes": an image that was    *)
(* refused is not on the screen any more.                                  *)
RefusedImagesVanish ==
  \A c \in Viewers :
    AtRest(c) => ToSet(screen[c].painted) \subseteq EffectiveImgs(stores[c])

(* "sort the images for deterministic drawing order".                      *)
DrawingOrderIsDeterministic == \A c \in Viewers : AtRest(c) => PaintedInOrder(c)
=============================================================================
