------------------------------ MODULE MCScreen ------------------------------
(* Screen for TLC, with the scenes of MCApp.                               *)
EXTENDS MCApp, Screen

(* c1 writes in a note; c2, whose screen is looked at, writes in it too,   *)
(* leaves, or loses its connection.  c3 adds images while c4, whose screen *)
(* is looked at, is admitted.                                              *)
WriteOrAddImages == [c \in Clients |->
  CASE c = c1 -> {"createNote", "updateNoteText"}
    [] c = c2 -> {"updateNoteText", "leaveWhiteboard"}
    [] c = c3 -> {"createImage", "approveOrDenyJoin"}
    [] OTHER  -> {"joinWhiteboard", "createImage"}]

ViewerMayFail == [c \in Clients |-> IF c = c2 THEN {"timeout", "disconnect"} ELSE {}]

Watched ==
  /\ \/ Scene(c1, c2, Each({c1, c2}, 2))
     \/ Scene(c3, NoClient, [Each({c3}, 3) EXCEPT ![c4] = 2])
  /\ ScreensAreNew

(* On the border of the canvas, where an image is seen and refused.        *)
OnBorder == {Point(-1, 0)}

FairScreenSpec == Watched /\ [][ScreenNext]_screenVars /\ ScreenFairness
WatchedSpec == Watched /\ [][ScreenNext]_screenVars
=============================================================================
