------------------------------ MODULE MCApp --------------------------------
(* App for TLC.  A run consists of scenes, which other users play: each    *)
(* starts when somebody has a whiteboard, and bounds what its users do.    *)
EXTENDS App

CONSTANTS c1, c2, c3, c4,  \* the users, as far as a run has them
          Board            \* the whiteboard they are in

Point(x, y) == [x |-> x, y |-> y]

(* A point of the whiteboard, with or without one beyond its edge.         *)
InAndOut == {Point(0, 0), Point(MAX_WIDTH + 1, 0)}
OneIn    == {Point(0, 0)}

Everyone(have) == [c \in Clients |-> have]

(* first has created Board, second, if that is a client, was admitted, the *)
(* others said hello: a state that is reached with up to three requests of *)
(* each.  Everybody has so many requests left; whoever has none and is not *)
(* in Board has disconnected.                                              *)
Scene(first, second, requests) ==
  LET Left(c) == c \notin {first, second} /\ requests[c] = 0
  IN
  /\ socket         = [c \in Clients |-> IF Left(c) THEN "closed" ELSE "open"]
  /\ fsm            = [c \in Clients |-> IF c = first THEN HostOf(Board)
                                         ELSE IF c = second THEN UserOf(Board)
                                         ELSE NoWhiteboard]
  /\ host           = [b \in Boards  |-> IF b = Board THEN first ELSE NoClient]
  /\ clients        = [b \in Boards  |-> [c \in Clients |->
                         IF b = Board /\ c \in {first, second} THEN 1 ELSE 0]]
  /\ pastUsers      = [b \in Boards  |-> {}]
  /\ pendingClients = [b \in Boards  |-> {}]
  /\ ended          = [b \in Boards  |-> FALSE]
  /\ whiteboards    = {Board}
  /\ requester      = NoClient
  /\ out            = [c \in Clients |-> <<>>]
  /\ link           = socket
  /\ clientState    = [c \in Clients |-> IF c = first THEN On("WHITEBOARD_HOST", Board)
                         ELSE IF c = second THEN On("WHITEBOARD_USER", Board)
                         ELSE IF Left(c) THEN Screen("DISCONNECTED")
                         ELSE Screen("NO_WHITEBOARD")]
  /\ users          = [c \in Clients |->
                         IF c \in {first, second}
                         THEN [NoUsers EXCEPT !.present = Clients \cap {first, second}]
                         ELSE NoUsers]
  /\ handlers       = [c \in Clients |-> {}]
  /\ sent           = [c \in Clients |-> MaxRequests - requests[c]]
  /\ gaveUp = {} /\ astray = {} /\ evicted = {}
  /\ toServer = [c \in Clients |-> <<>>]
  /\ toClient = [c \in Clients |-> <<>>]
  /\ lines    = [b \in Boards |-> [l \in LineIds  |-> NoFigure]]
  /\ notes    = [b \in Boards |-> [n \in NoteIds  |-> NoFigure]]
  /\ images   = [b \in Boards |-> [i \in ImageIds |-> NoFigure]]
  /\ stores   = [c \in Clients |-> NoStore]
  /\ taken    = {}

(* So many requests for each of some users.                                *)
Each(some, n) == [c \in Clients |-> IF c \in some THEN n ELSE 0]
-----------------------------------------------------------------------------
(* Two members move a note and leave, with timeouts, and one may lose its  *)
(* connection; c4 asks c3 for admission while c3 adds and deletes notes    *)
(* and images; c2 connects, says hello and has a whiteboard for itself.    *)
MoveOrAdmit == [c \in Clients |->
  IF c \in {c1, c2}
  THEN {"createNote", "updateNotePosition", "deleteNote", "leaveWhiteboard"}
         \cup IF c = c2 THEN {"clientHello", "createWhiteboardRequest"} ELSE {}
  ELSE {"createNote", "deleteNote", "createImage", "joinWhiteboard", "approveOrDenyJoin"}]
MemberMayFail == [c \in Clients |->
  CASE c = c1 -> {"timeout"} [] c = c2 -> {"timeout", "disconnect"} [] OTHER -> {}]

MoveAndAdmit ==
  Scene(c1, c2, Each({c1, c2}, 2)) \/ Scene(c3, NoClient, Each({c3, c4}, 3)) \/ AppInit
MoveAndAdmitSpec == MoveAndAdmit /\ [][AppNext]_appVars

(* Two members leave, and join again; only timeouts go wrong.              *)
Timeouts     == Everyone({"timeout"})
JoinAndLeave ==
  Everyone({"createNote", "deleteNote", "joinWhiteboard", "approveOrDenyJoin", "leaveWhiteboard"})
RejoinSpec   == Scene(c1, c2, Each({c1, c2}, 3)) /\ [][AppNext]_appVars
=============================================================================
