------------------------------ MODULE Drawing --------------------------------
(***************************************************************************)
(* The pen, the eraser and the undo button, on top of App: what pointer    *)
(* events make of the context of a browser, and when the points that they  *)
(* collect are flushed into a request.                                     *)
(*                                                                         *)
(* flush is throttled: it runs at once, or when the timer runs out.        *)
(***************************************************************************)
EXTENDS App

CONSTANTS Pointer,     \* bound: where pointer events happen
          Tools,       \* bound: the tools that each user uses
          MaxActions,  \* bound: when the history is longer, its user does not erase
          NotANumber   \* see Geometry

ASSUME DrawingAssumption ==
  /\ Pointer \subseteq [x : Int, y : Int]
  /\ Tools \in [Clients -> SUBSET {"draw", "erase", "undo"}]
  /\ MaxActions \in [Clients -> Nat]

VARIABLES context,  \* what the pointer is doing
          history,  \* the actions that undo takes back, the oldest first
          due,      \* a flush waits for the timer of throttle
          cached    \* points that only the cache of effective lines has

drawingVars == <<appVars, context, history, due, cached>>

G == INSTANCE Geometry WITH LARGER_THAN_ANY_CANVAS <- 1000000

LinePoints  == [a \in Pointer, b \in Pointer |->
                  G!calculateLinePoints(G!coordToNumber(a), G!coordToNumber(b))]
ErasePoints == [a \in Pointer, b \in Pointer |->
                  G!calculateErasePoints(G!coordToNumber(a), G!coordToNumber(b))]
-----------------------------------------------------------------------------
Untouched == [l \in LineIds |-> {}]

IDLE == [status |-> "IDLE"]
DRAWING(l, last, buffer) ==
  [status |-> "DRAWING", line |-> l, last |-> last, buffer |-> buffer]
ERASING(last, buffer, modified) ==
  [status |-> "ERASING", last |-> last, buffer |-> buffer, modified |-> modified]

deriveStateFromNewPosition(ctx, p) ==
  CASE ctx.status = "DRAWING" ->
         [ctx EXCEPT !.last = p, !.buffer = @ \cup LinePoints[ctx.last, p]]
    [] ctx.status = "ERASING" ->
         [ctx EXCEPT !.last = p, !.buffer = @ \cup ErasePoints[ctx.last, p]]
    [] OTHER -> ctx

DrawnLine(l)     == [type |-> "DRAWN_LINE", line |-> l]
Erased(modified) == [type |-> "ERASED", lines |-> modified]

(* finishDrawing, finishErase.                                             *)
Finished(ctx) ==
  CASE ctx.status = "DRAWING" -> <<DrawnLine(ctx.line)>>
    [] ctx.status = "ERASING" -> <<Erased(ctx.modified)>>
    [] OTHER                  -> <<>>
-----------------------------------------------------------------------------
(* getEffectiveLines.  The cache is filled when a line has changed and the *)
(* screen may be updated again; if that is while a buffer is flushed, the  *)
(* buffer is not yet cleared.                                              *)
NothingCached == Untouched

EffectiveLine(c, l) == Ink(ShownLine(c, l)) \cup cached[c][l]

(* Requests for lines, and the patches they make.                          *)
ChangeLines(c, bodies, diffs) ==
  /\ IF bodies = <<>> THEN UNCHANGED <<appVars, cached>>
     ELSE /\ Change(c, bodies, diffs)
          /\ cached' = [cached EXCEPT ![c] = NothingCached]
          /\ UNCHANGED taken

(* flush, while the context is ctx, and what it makes of it.  The set that *)
(* becomes the patch is the buffer, which is then cleared.                 *)
FlushDrawing(c, ctx) ==
  /\ ctx.status = "DRAWING"
  /\ Change(c, <<PointsBody("addPointsToLine", ctx.line, G!lineToMessage(ctx.buffer))>>,
               <<T!AddPoints({})>>)
  /\ \E shown \in {{}, ctx.buffer} :
       cached' = [cached EXCEPT ![c] = [NothingCached EXCEPT ![ctx.line] = shown]]
  /\ UNCHANGED taken

(* flushEraseBuffer: a request for each line that the eraser has met.      *)
Met(c, ctx, l) == EffectiveLine(c, l) \cap ctx.buffer
FlushErasing(c, ctx) ==
  /\ ctx.status = "ERASING"
  /\ \E order \in SetToSeqs({l \in LineIds : Met(c, ctx, l) # {}}) :
       ChangeLines(c,
         [i \in DOMAIN order |-> PointsBody("removePointsFromLine", order[i],
                                            G!lineToMessage(Met(c, ctx, order[i])))],
         [i \in DOMAIN order |-> T!RemovePoints(Met(c, ctx, order[i]))])

flush(c, ctx) ==
  \/ FlushDrawing(c, ctx)
  \/ FlushErasing(c, ctx)
  \/ ctx.status = "IDLE" /\ UNCHANGED <<appVars, cached>>

Flushed(c, ctx) ==
  CASE ctx.status = "DRAWING" -> [ctx EXCEPT !.buffer = {}]
    [] ctx.status = "ERASING" ->
         [ctx EXCEPT !.buffer = {},
                     !.modified = [l \in LineIds |-> @[l] \cup Met(c, ctx, l)]]
    [] OTHER -> ctx
-----------------------------------------------------------------------------
(* Pointer events.                                                         *)

(* A stroke that ended outside of the canvas has not ended: another may    *)
(* start, and the context of the first is lost.                            *)
DrawDown(c, l, p) ==
  /\ "draw" \in Tools[c] /\ ShowsBoard(c)
  /\ Invent(l)
  /\ Change(c, <<PointsBody("createLine", l, {p})>>, <<T!AddPoints({p})>>)
  /\ context' = [context EXCEPT ![c] = DRAWING(l, p, {p})]
  /\ cached'  = [cached EXCEPT ![c] = NothingCached]
  /\ UNCHANGED <<history, due>>

EraseDown(c, p) ==
  /\ "erase" \in Tools[c] /\ ShowsBoard(c)
  /\ Len(history[c]) < MaxActions[c]
  /\ context' = [context EXCEPT ![c] = ERASING(p, {p}, Untouched)]
  /\ UNCHANGED <<appVars, history, due, cached>>

(* throttledFlush runs flush at once, or leaves it to the timer.           *)
onPointerMove(c, p) ==
  /\ ShowsBoard(c) /\ context[c].status # "IDLE"
  /\ LET ctx == deriveStateFromNewPosition(context[c], p)
     IN  \/ /\ flush(c, ctx)
            /\ context' = [context EXCEPT ![c] = Flushed(c, ctx)]
            /\ due' = [due EXCEPT ![c] = FALSE]
         \/ /\ context' = [context EXCEPT ![c] = ctx]
            /\ due' = [due EXCEPT ![c] = TRUE]
            /\ UNCHANGED <<appVars, cached>>
  /\ UNCHANGED history

ThrottleTimer(c) ==
  /\ due[c]
  /\ flush(c, context[c])
  /\ context' = [context EXCEPT ![c] = Flushed(c, context[c])]
  /\ due' = [due EXCEPT ![c] = FALSE]
  /\ UNCHANGED history

(* The last segment and what waits for the timer are flushed at once.      *)
(* Mutant: what waits for the timer is not.                                *)
onPointerUp_Unflushed(c, p) ==
  /\ ShowsBoard(c) /\ context[c].status # "IDLE"
  /\ history' = [history EXCEPT ![c] = @ \o Finished(context[c])]
  /\ context' = [context EXCEPT ![c] = IDLE]
  /\ UNCHANGED <<appVars, due, cached>>
onPointerUp(c, p) ==
  /\ ShowsBoard(c) /\ context[c].status # "IDLE"
  /\ LET ctx == deriveStateFromNewPosition(context[c], p)
     IN  /\ flush(c, ctx)
         /\ history' = [history EXCEPT ![c] = @ \o Finished(Flushed(c, ctx))]
  /\ context' = [context EXCEPT ![c] = IDLE]
  /\ due' = [due EXCEPT ![c] = FALSE]
-----------------------------------------------------------------------------
(* The undo button.                                                        *)

undoDraw(c, action) ==
  /\ action.type = "DRAWN_LINE"
  /\ ChangeLines(c, <<DeleteLineBody(action.line)>>, <<T!LineDeletion>>)

undoErase(c, action) ==
  /\ action.type = "ERASED"
  /\ \E order \in SetToSeqs({l \in LineIds : action.lines[l] # {}}) :
       ChangeLines(c,
         [i \in DOMAIN order |-> PointsBody("addPointsToLine", order[i],
                                            G!lineToMessage(action.lines[order[i]]))],
         [i \in DOMAIN order |-> T!AddPoints(action.lines[order[i]])])

undo(c) ==
  /\ "undo" \in Tools[c] /\ ShowsBoard(c) /\ clientState[c].state # "SESSION_ENDED"
  /\ history[c] # <<>>
  /\ undoDraw(c, Last(history[c])) \/ undoErase(c, Last(history[c]))
  /\ history' = [history EXCEPT ![c] = Front(@)]
  /\ UNCHANGED <<context, due>>
-----------------------------------------------------------------------------
(* What a step of App means for the pen: a leave that is over resets it.   *)

CallsBack(c, r) == r \in handlers[c] \ handlers'[c]
Resets(c) ==
  \/ \E r \in handlers[c] : CallsBack(c, r) /\ r.body.case = "leaveWhiteboard"
  \/ clientState[c].state = "SESSION_ENDED" /\ clientState'[c].state = "NO_WHITEBOARD"

(* resetDrawingState and clearHistory.  Mutant: the history is kept.       *)
reset_KeepsHistory(c) ==
  /\ context' = IF Resets(c) THEN [context EXCEPT ![c] = IDLE] ELSE context
  /\ UNCHANGED <<history, due>>
reset(c) ==
  /\ context' = IF Resets(c) THEN [context EXCEPT ![c] = IDLE] ELSE context
  /\ history' = IF Resets(c) THEN [history EXCEPT ![c] = <<>>] ELSE history
  /\ UNCHANGED due

(* A message about a line, the end of a request about one and whatever     *)
(* clears the stores empty the cache.                                      *)
UpdatesLines(c) ==
  \/ Resets(c)
  \/ stores'[c].line # stores[c].line
  \/ \E r \in handlers[c] :
       CallsBack(c, r) /\ r.body.case \in FigureMessages /\ StoreOf(r.body) = "line"
  \/ /\ toClient[c] # <<>> /\ toClient'[c] = Tail(toClient[c])
     /\ Head(toClient[c]).body.type \in {"lineCreatedOrUpdated", "lineDeleted"}

AppAction(c) ==
  /\ FigureAction(c) \/ AppStep(c)
  /\ reset(c)
  /\ cached' = IF UpdatesLines(c) THEN [cached EXCEPT ![c] = NothingCached] ELSE cached

DrawingInit ==
  /\ context = [c \in Clients |-> IDLE]
  /\ history = [c \in Clients |-> <<>>]
  /\ due     = [c \in Clients |-> FALSE]
  /\ cached  = [c \in Clients |-> NothingCached]

PenStep(c) ==
  \/ \E p \in Pointer : EraseDown(c, p) \/ onPointerMove(c, p) \/ onPointerUp(c, p)
  \/ \E p \in Pointer, l \in LineIds : DrawDown(c, l, p)
  \/ ThrottleTimer(c)
  \/ undo(c)

DrawingNext == \E c \in Clients : PenStep(c) \/ AppAction(c)

DrawingSpec == AppInit /\ DrawingInit /\ [][DrawingNext]_drawingVars
-----------------------------------------------------------------------------
(* "Tried updating points of a line without a LineTimeline", and the same  *)
(* of deleting one, are never thrown: a line that the pen is drawing, that *)
(* the eraser has met or that undo would change has a timeline, also after *)
(* the browser has left and entered a whiteboard again.                    *)
Known(c, l) == stores[c].line[l] # NoTimeline
TimelinesExist ==
  \A c \in Clients :
    /\ context[c].status = "DRAWING" => Known(c, context[c].line)
    /\ context[c].status = "ERASING" =>
         \A l \in LineIds : context[c].modified[l] # {} => Known(c, l)
    /\ \A k \in DOMAIN history[c] :
         LET action == history[c][k]
         IN  IF action.type = "DRAWN_LINE" THEN Known(c, action.line)
             ELSE \A l \in LineIds : action.lines[l] # {} => Known(c, l)

(* Points leave the buffer of the pen only into a request that adds them   *)
(* to the line, however pointer events and the timer of throttle fall; but *)
(* for a stroke that is given up, since the browser leaves the whiteboard  *)
(* or another stroke starts without an end of this one.                    *)
Sends(c, l, points) ==
  \E r \in handlers'[c] \ handlers[c] :
    r.body.case = "addPointsToLine" /\ r.body.id = l /\ points \subseteq r.body.points
Continues(c) ==
  context'[c].status = "DRAWING" /\ context'[c].line = context[c].line
GivenUp(c) == Resets(c) \/ (context'[c].status # "IDLE" /\ ~Continues(c))
InkIsSent ==
  [][\A c \in Clients :
       context[c].status = "DRAWING" /\ ~GivenUp(c) =>
         LET kept == IF Continues(c) THEN context'[c].buffer ELSE {}
             gone == context[c].buffer \ kept
         IN  gone = {} \/ Sends(c, context[c].line, G!lineToMessage(gone))]_drawingVars

(* The answer to a request about a line that succeeded changes nothing of  *)
(* what the timelines of its sender show, but that it shows the points     *)
(* that were flushed into the request.  (The origin stands for a segment   *)
(* of length 0, which has no points for the browser.)                      *)
Origin == G!At(0, 0)
SeenInk(c, l) == Ink(ShownLine(c, l)) \cap WithinBounds
PointsOf(r) ==
  IF r.body.case = "addPointsToLine" THEN r.body.points \cup {Origin} ELSE {Origin}
LineEchoIsInvisible ==
  [][\A c \in Clients \ Misled : Succeeds(c) =>
       \A r \in Caused(c), l \in LineIds :
         SeenInk(c, l)' \ PointsOf(r) = SeenInk(c, l) \ PointsOf(r)]_drawingVars

(* "This increases latency of displaying the drawing locally": once it was *)
(* flushed, what the pen drew is displayed, unless it is erased.  Not so:  *)
(* the patch has lost the points, and only the server's answer shows them. *)
FlushedInkIsShown ==
  \A c \in Clients : \A r \in handlers[c] :
    r.body.case = "addPointsToLine" /\ ~(\E q \in handlers[c] : q.body.case \in
        {"removePointsFromLine", "deleteLine"})
    => r.body.points \ {Origin} \subseteq EffectiveLine(c, r.body.id)
=============================================================================
