----------------------------- MODULE MCDrawing ------------------------------
(* Drawing for TLC.                                                        *)
EXTENDS MCApp, Drawing

(* Where pointer events happen, and every point that can be on a line.     *)
TwoPlaces == {Point(1, 1), Point(3, 1)}
OneRow    == {Point(x, y) : x \in 0..3, y \in 0..1}

(* c1 draws and takes back while c2 erases and takes back; c3 is alone and *)
(* does all of this, and may erase when it has drawn a line; c4 is alone,  *)
(* draws, leaves and creates another whiteboard, and requests time out.    *)
AllTools == [c \in Clients |->
  CASE c = c1 -> {"draw", "undo"}          [] c = c2 -> {"erase", "undo"}
    [] c = c3 -> {"draw", "erase", "undo"} [] c = c4 -> {"draw"}]
OneOrTwo == [c \in Clients |-> IF c = c3 THEN 2 ELSE 1]
LeaverOnly(have) == [c \in Clients |-> IF c = c4 THEN have ELSE {}]
LeaverButtons == LeaverOnly({"createWhiteboardRequest", "leaveWhiteboard"})
LeaverFaults  == LeaverOnly({"timeout"})

Together == Scene(c1, c2, Each({c1, c2}, 2))
Alone(c, n) == Scene(c, NoClient, Each({c}, n))

Scenes       == (Together \/ Alone(c3, 3) \/ Alone(c4, 3)) /\ DrawingInit
DrawAndErase == Scenes /\ [][DrawingNext]_drawingVars

Stroke    == Alone(c4, 3) /\ DrawingInit
DrawAlone == Stroke /\ [][DrawingNext]_drawingVars
=============================================================================
