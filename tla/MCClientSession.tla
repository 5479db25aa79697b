--------------------------- MODULE MCClientSession ---------------------------
(* ClientSession for TLC: browsers and whiteboards are interchangeable.    *)
EXTENDS ClientSession, TLC

Symmetry == Permutations(Clients) \cup Permutations(Boards)

(* A run starts where the connections are opened or, so that it gets       *)
(* further, in the lobby: everybody has said hello, with a request each,   *)
(* and the bound leaves one of them a request more.                        *)
Lobby ==
  /\ socket         = [c \in Clients |-> "open"]
  /\ fsm            = [c \in Clients |-> NoWhiteboard]
  /\ host           = [b \in Boards  |-> NoClient]
  /\ clients        = [b \in Boards  |-> [c \in Clients |-> 0]]
  /\ pastUsers      = [b \in Boards  |-> {}]
  /\ pendingClients = [b \in Boards  |-> {}]
  /\ ended          = [b \in Boards  |-> FALSE]
  /\ whiteboards    = {}
  /\ requester      = NoClient
  /\ out            = [c \in Clients |-> <<>>]
  /\ link           = [c \in Clients |-> "open"]
  /\ clientState    = [c \in Clients |-> Screen("NO_WHITEBOARD")]
  /\ users          = [c \in Clients |-> NoUsers]
  /\ handlers       = [c \in Clients |-> {}]
  /\ \E eager \in Clients : sent = [c \in Clients |-> IF c = eager THEN 0 ELSE 1]
  /\ gaveUp = {} /\ astray = {} /\ evicted = {}
  /\ toServer = [c \in Clients |-> <<>>]
  /\ toClient = [c \in Clients |-> <<>>]

(* An eager user h has asked for two whiteboards at once, and is a user of *)
(* the first; nothing of that has arrived.  What it sees when the answer   *)
(* to the second request comes depends on both users.                      *)
EagerUser(g, h, b, second) ==
  LET first == JoinBody(b)
      Request(i, body) == [id |-> i, body |-> body]
      To(message, id) == [body |-> message, causedBy |-> id]
      list == [x \in Clients |-> IF x \in {g, h} THEN 1 ELSE 0]
  IN
  /\ socket         = [c \in Clients |-> "open"]
  /\ fsm            = [c \in Clients |-> IF c = g THEN HostOf(b) ELSE IF c = h THEN UserOf(b)
                                         ELSE NoWhiteboard]
  /\ host           = [x \in Boards  |-> IF x = b THEN g ELSE NoClient]
  /\ clients        = [x \in Boards  |-> IF x = b THEN list ELSE [c \in Clients |-> 0]]
  /\ pastUsers      = [x \in Boards  |-> {}]
  /\ pendingClients = [x \in Boards  |-> {}]
  /\ ended          = [x \in Boards  |-> FALSE]
  /\ whiteboards    = {b}
  /\ requester      = NoClient
  /\ out            = [c \in Clients |-> <<>>]
  /\ link           = [c \in Clients |-> "open"]
  /\ clientState    = [c \in Clients |-> IF c = g THEN On("WHITEBOARD_HOST", b)
                                         ELSE Screen("NO_WHITEBOARD")]
  /\ users          = [c \in Clients |-> IF c = g THEN [NoUsers EXCEPT !.present = {g, h}]
                                         ELSE NoUsers]
  /\ handlers       = [c \in Clients |->
                         IF c = h THEN {Request(1, first), Request(2, second)} ELSE {}]
  /\ sent           = [c \in Clients |-> IF c = g THEN MaxRequests - 2 ELSE MaxRequests - 1]
  /\ gaveUp = {} /\ astray = {} /\ evicted = {}
  /\ toServer = [c \in Clients |-> IF c = h THEN <<Request(2, second)>> ELSE <<>>]
  /\ toClient = [c \in Clients |->
       IF c = h THEN <<To(Success, <<h, 1>>), To(Plain("joinApproved", FALSE), NoMessage),
                       To(UserList(list, {}), NoMessage)>>
       ELSE <<>>]

Eager ==
  \E g, h \in Clients, b \in Boards :
    \E second \in {Body("createWhiteboardRequest")} \cup {JoinBody(x) : x \in Boards} :
      g # h /\ EagerUser(g, h, b, second)

LobbySpec    == Lobby /\ [][ClientNext]_clientVars
AnywhereSpec == (ClientInit \/ Lobby \/ Eager) /\ [][ClientNext]_clientVars
EagerSpec    == Eager /\ [][ClientNext]_clientVars
=============================================================================
