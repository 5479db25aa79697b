---------------------------- MODULE SessionProofs ----------------------------
(***************************************************************************)
(* Session is correct for every set of connections and of whiteboards.     *)
(*                                                                         *)
(* The invariants of Session are inductive only together: that a host      *)
(* that decides has a running whiteboard needs HostAgrees, that a client   *)
(* is approved once needs PendingAgrees, and that a new whiteboard starts  *)
(* empty needs Unopened.  Books is their conjunction.                     *)
(*                                                                         *)
(* out is determined by one step, so that nothing about it is inductive:   *)
(* that what is sent is well typed and reports no exception, that the      *)
(* sender of a message is answered once, and that the members of a         *)
(* whiteboard learn its list of members follow from Books and from what    *)
(* the step emits.                                                         *)
(***************************************************************************)
EXTENDS Session, SequenceTheorems, TLAPS

(* The types of the variables that persist: TypeOK but for requester, out. *)
StateTypes ==
  /\ socket         \in [Clients -> {"new", "open", "closed"}]
  /\ fsm            \in [Clients -> ClientFSM]
  /\ host           \in [Boards -> Clients \cup {NoClient}]
  /\ clients        \in [Boards -> [Clients -> Nat]]
  /\ pastUsers      \in [Boards -> SUBSET Clients]
  /\ pendingClients \in [Boards -> SUBSET Clients]
  /\ ended          \in [Boards -> BOOLEAN]
  /\ whiteboards    \in SUBSET Boards

(* A whiteboard that was not created did not end either, and no connection *)
(* refers to it.                                                           *)
Unopened ==
  \A b \in Boards : host[b] = NoClient =>
    ~ended[b] /\ \A c \in Clients : fsm[c].board # b

Books ==
  StateTypes /\ MembershipAgrees /\ HostAgrees /\ PendingAgrees /\ Unopened

USE DEF boardVars, sessionVars
-----------------------------------------------------------------------------
(* The states of a connection are told apart by their two components.      *)
LEMMA States ==
  ASSUME NEW s \in ClientFSM
  PROVE  /\ s.state = "ANONYMOUS" => s = Anonymous
         /\ s.state = "NO_WHITEBOARD" => s = NoWhiteboard
         /\ s.state = "PENDING_APPROVAL" => s.board \in Boards /\ s = PendingOn(s.board)
         /\ s.state = "USER" => s.board \in Boards /\ s = UserOf(s.board)
         /\ s.state = "HOST" => s.board \in Boards /\ s = HostOf(s.board)
         /\ s.state \in {"ANONYMOUS", "NO_WHITEBOARD", "PENDING_APPROVAL", "USER", "HOST"}
  BY DEF ClientFSM, Anonymous, NoWhiteboard, PendingOn, UserOf, HostOf

(* The router: the state of a client whose message is dispatched.          *)
LEMMA Dispatched ==
  ASSUME StateTypes, NEW c \in Clients, NEW case, Dispatch(c, case)
  PROVE  /\ case = "clientHello" => fsm[c] = Anonymous
         /\ case \in {"createWhiteboardRequest", "joinWhiteboard"} => fsm[c] = NoWhiteboard
         /\ case = "approveOrDenyJoin" => fsm[c].board \in Boards /\ fsm[c] = HostOf(fsm[c].board)
  <1>1. fsm[c] \in ClientFSM
    BY DEF StateTypes
  <1>2. case \in ALLOWED_MESSAGES[fsm[c].state]
    BY DEF Dispatch
  <1>3. CASE fsm[c].state = "ANONYMOUS"
    BY <1>1, <1>2, <1>3, States DEF ALLOWED_MESSAGES
  <1>4. CASE fsm[c].state = "NO_WHITEBOARD"
    BY <1>1, <1>2, <1>4, States DEF ALLOWED_MESSAGES
  <1>5. CASE fsm[c].state = "PENDING_APPROVAL"
    BY <1>2, <1>5 DEF ALLOWED_MESSAGES
  <1>6. CASE fsm[c].state = "USER"
    BY <1>2, <1>6 DEF ALLOWED_MESSAGES, FigureMessages
  <1>7. CASE fsm[c].state = "HOST"
    BY <1>1, <1>2, <1>7, States DEF ALLOWED_MESSAGES, FigureMessages
  <1>8. QED
    BY <1>1, <1>3, <1>4, <1>5, <1>6, <1>7, States
-----------------------------------------------------------------------------
(* The steps that change the books, one lemma for each.                    *)

LEMMA QuietKeepsBooks ==
  ASSUME Books, UNCHANGED <<fsm, boardVars>>,
         socket' \in [Clients -> {"new", "open", "closed"}]
  PROVE  Books'
  BY DEF Books, StateTypes, MembershipAgrees, HostAgrees, PendingAgrees, Unopened, InBoard

(* setUsername: the connection was and is in no whiteboard.                *)
LEMMA HelloKeepsBooks ==
  ASSUME Books, NEW c \in Clients, ClientHello(c)
  PROVE  Books'
  <1>1. /\ fsm[c] = Anonymous /\ fsm' = [fsm EXCEPT ![c] = NoWhiteboard]
        /\ UNCHANGED <<socket, boardVars>>
    BY Dispatched DEF ClientHello, Named, Books
  <1>2. \A x \in Clients, b \in Boards :
          /\ fsm'[x] = PendingOn(b) <=> fsm[x] = PendingOn(b)
          /\ fsm'[x] = UserOf(b) <=> fsm[x] = UserOf(b)
          /\ fsm'[x] = HostOf(b) <=> fsm[x] = HostOf(b)
          /\ fsm'[x].board = b => fsm[x].board = b
    BY <1>1 DEF Books, StateTypes, Anonymous, NoWhiteboard, PendingOn, UserOf, HostOf
  <1>3. StateTypes'
    BY <1>1 DEF Books, StateTypes, ClientFSM
  <1>4. MembershipAgrees' /\ HostAgrees' /\ PendingAgrees'
    BY <1>1, <1>2 DEF Books, MembershipAgrees, HostAgrees, PendingAgrees, InBoard
  <1>5. Unopened'
    BY <1>1, <1>2 DEF Books, Unopened
  <1>6. QED
    BY <1>3, <1>4, <1>5 DEF Books

(* becomeHost: Unopened makes a new whiteboard empty.                     *)
LEMMA CreateKeepsBooks ==
  ASSUME Books, NEW c \in Clients, NEW w \in Boards, CreateWhiteboard(c, w)
  PROVE  Books'
  <1>1. /\ fsm[c] = NoWhiteboard /\ fsm' = [fsm EXCEPT ![c] = HostOf(w)]
        /\ host[w] = NoClient /\ host' = [host EXCEPT ![w] = c]
        /\ clients' = [clients EXCEPT ![w] = [x \in Clients |-> IF x = c THEN 1 ELSE 0]]
        /\ whiteboards' = whiteboards \cup {w}
        /\ UNCHANGED <<socket, pastUsers, pendingClients, ended>>
    BY Dispatched DEF CreateWhiteboard, Hosting, addWhiteboard, Books
  <1>2. ~ended[w] /\ \A x \in Clients : fsm[x].board # w
    BY <1>1 DEF Books, Unopened
  <1>3. /\ \A x \in Clients, b \in Boards :
             /\ fsm'[x] = PendingOn(b) <=> fsm[x] = PendingOn(b)
             /\ fsm'[x] = UserOf(b) <=> fsm[x] = UserOf(b)
             /\ fsm'[x] = HostOf(b) <=> (IF b = w THEN x = c ELSE fsm[x] = HostOf(b))
             /\ fsm'[x].board = b => b = w \/ fsm[x].board = b
        /\ \A x \in Clients : fsm[x] # UserOf(w)
    BY <1>1, <1>2 DEF Books, StateTypes, NoWhiteboard, PendingOn, UserOf, HostOf
  <1>4. StateTypes'
    BY <1>1 DEF Books, StateTypes, ClientFSM
  <1>5. MembershipAgrees'
    BY <1>1, <1>2, <1>3 DEF Books, StateTypes, MembershipAgrees, InBoard
  <1>6. HostAgrees'
    BY <1>1, <1>2, <1>3, SessionAssumption DEF Books, StateTypes, HostAgrees
  <1>7. PendingAgrees'
    BY <1>1, <1>3 DEF Books, PendingAgrees
  <1>8. Unopened'
    BY <1>1, <1>3, SessionAssumption DEF Books, StateTypes, Unopened
  <1>9. QED
    BY <1>4, <1>5, <1>6, <1>7, <1>8 DEF Books

(* requestJoinWhiteboard: a whiteboard in the registry is not ended.       *)
LEMMA JoinKeepsBooks ==
  ASSUME Books, NEW c \in Clients, NEW w \in Boards, JoinWhiteboard(c, w)
  PROVE  Books'
  <1>1. CASE w \notin whiteboards
    <2>1. UNCHANGED <<socket, fsm, boardVars>>
      BY <1>1 DEF JoinWhiteboard, Applying, WithApplicant, Answer
    <2>2. QED
      BY <2>1, QuietKeepsBooks DEF Books, StateTypes
  <1>2. CASE w \in whiteboards
    <2>1. /\ fsm[c] = NoWhiteboard /\ fsm' = [fsm EXCEPT ![c] = PendingOn(w)]
          /\ ~ended[w] /\ host[w] # NoClient
          /\ pendingClients' = [pendingClients EXCEPT ![w] = @ \cup {c}]
          /\ UNCHANGED <<socket, host, clients, pastUsers, ended, whiteboards>>
      BY <1>2, Dispatched DEF JoinWhiteboard, Applying, WithApplicant, Books, HostAgrees
    <2>2. \A x \in Clients, b \in Boards :
            /\ fsm'[x] = PendingOn(b) <=> (fsm[x] = PendingOn(b) \/ (x = c /\ b = w))
            /\ fsm'[x] = UserOf(b) <=> fsm[x] = UserOf(b)
            /\ fsm'[x] = HostOf(b) <=> fsm[x] = HostOf(b)
            /\ fsm'[x].board = b => b = w \/ fsm[x].board = b
      BY <2>1 DEF Books, StateTypes, NoWhiteboard, PendingOn, UserOf, HostOf
    <2>3. \A x \in Clients, b \in Boards :
            x \in pendingClients'[b] <=> (x \in pendingClients[b] \/ (x = c /\ b = w))
      BY <2>1 DEF Books, StateTypes
    <2>4. StateTypes'
      <3>1. pendingClients' \in [Boards -> SUBSET Clients]
        BY <2>1 DEF Books, StateTypes
      <3>2. fsm' \in [Clients -> ClientFSM]
        BY <2>1 DEF Books, StateTypes, ClientFSM
      <3>3. QED
        BY <2>1, <3>1, <3>2 DEF Books, StateTypes
    <2>5. MembershipAgrees' /\ HostAgrees'
      BY <2>1, <2>2 DEF Books, MembershipAgrees, HostAgrees, InBoard
    <2>6. PendingAgrees'
      BY <2>2, <2>3 DEF Books, PendingAgrees
    <2>7. Unopened'
      BY <2>1, <2>2 DEF Books, Unopened
    <2>8. QED
      BY <2>4, <2>5, <2>6, <2>7 DEF Books
  <1>3. QED
    BY <1>1, <1>2

(* A host that decides runs its whiteboard, and whoever is in the map of   *)
(* pending clients waits for it: neither exception is ever thrown.         *)
LEMMA Decidable ==
  ASSUME Books, NEW h \in Clients, NEW c \in Clients, Dispatch(h, "approveOrDenyJoin"),
         c \in pendingClients[fsm[h].board]
  PROVE  /\ fsm[h].board \in Boards /\ host[fsm[h].board] = h /\ ~ended[fsm[h].board]
         /\ fsm[h] = HostOf(fsm[h].board) /\ fsm[c] = PendingOn(fsm[h].board)
         /\ ~Undecidable(h, c)
  <1> DEFINE w == fsm[h].board
  <1>1. w \in Boards /\ fsm[h] = HostOf(w)
    BY Dispatched DEF Books
  <1>2. host[w] = h /\ ~ended[w] /\ fsm[c] = PendingOn(w)
    BY <1>1 DEF Books, HostAgrees, PendingAgrees
  <1>3. fsm[c].state = "PENDING_APPROVAL"
    BY <1>2 DEF PendingOn
  <1>4. QED
    BY <1>1, <1>2, <1>3 DEF Undecidable

(* joinWhiteboard and addClientConnection.                                 *)
LEMMA ApproveKeepsBooks ==
  ASSUME Books, NEW h \in Clients, NEW c \in Clients, NEW dump, ApproveJoin(h, c, dump)
  PROVE  Books'
  <1> DEFINE w == fsm[h].board
  <1>1. /\ w \in Boards /\ host[w] = h /\ ~ended[w] /\ fsm[c] = PendingOn(w)
        /\ Admit(h, c, dump)
    BY Decidable DEF ApproveJoin, getPendingClient
  <1>2. /\ pendingClients' = [pendingClients EXCEPT ![w] = @ \ {c}]
        /\ clients' = [clients EXCEPT ![w][c] = @ + 1]
        /\ fsm' = [fsm EXCEPT ![c] = UserOf(w)]
        /\ UNCHANGED <<socket, host, pastUsers, ended, whiteboards>>
    BY <1>1 DEF Admit, Using, NoLongerPending, Joined
  <1>3. \A x \in Clients, b \in Boards :
          /\ fsm'[x] = PendingOn(b) <=> (fsm[x] = PendingOn(b) /\ x # c)
          /\ fsm'[x] = UserOf(b) <=> (fsm[x] = UserOf(b) \/ (x = c /\ b = w))
          /\ fsm'[x] = HostOf(b) <=> fsm[x] = HostOf(b)
          /\ fsm'[x].board = b => b = w \/ fsm[x].board = b
    BY <1>1, <1>2 DEF Books, StateTypes, PendingOn, UserOf, HostOf
  <1>4. \A x \in Clients, b \in Boards :
          /\ x \in pendingClients'[b] <=> (x \in pendingClients[b] /\ ~(x = c /\ b = w))
          /\ clients'[b][x] = IF x = c /\ b = w THEN clients[b][x] + 1 ELSE clients[b][x]
    BY <1>2 DEF Books, StateTypes
  <1>5. \A b \in Boards : fsm[c] = PendingOn(b) => b = w
    BY <1>1 DEF PendingOn
  <1>6. clients[w][c] = 0
    BY <1>1 DEF Books, MembershipAgrees, InBoard, PendingOn, UserOf, HostOf
  <1>7. StateTypes'
    <2>1. clients' \in [Boards -> [Clients -> Nat]]
      <3> DEFINE array == [clients[w] EXCEPT ![c] = @ + 1]
      <3>1. clients[w] \in [Clients -> Nat]
        BY <1>1 DEF Books, StateTypes
      <3>2. array \in [Clients -> Nat]
        BY <3>1
      <3>3. clients' = [clients EXCEPT ![w] = array]
        BY <1>2
      <3> HIDE DEF array
      <3>4. QED
        BY <3>2, <3>3 DEF Books, StateTypes
    <2>2. pendingClients' \in [Boards -> SUBSET Clients]
      BY <1>2 DEF Books, StateTypes
    <2>3. fsm' \in [Clients -> ClientFSM]
      BY <1>1, <1>2 DEF Books, StateTypes, ClientFSM
    <2>4. QED
      BY <1>2, <2>1, <2>2, <2>3 DEF Books, StateTypes
  <1>8. MembershipAgrees'
    <2> SUFFICES ASSUME NEW b \in Boards, NEW x \in Clients
                 PROVE  IF ended'[b] THEN ~InBoard(x, b)'
                        ELSE clients'[b][x] = IF InBoard(x, b)' THEN 1 ELSE 0
      BY DEF MembershipAgrees
    <2>1. InBoard(x, b)' <=> (InBoard(x, b) \/ (x = c /\ b = w))
      BY <1>3 DEF InBoard
    <2>2. QED
      BY <1>1, <1>2, <1>4, <1>6, <2>1 DEF Books, MembershipAgrees
  <1>9. HostAgrees'
    BY <1>2, <1>3 DEF Books, HostAgrees
  <1>10. PendingAgrees'
    BY <1>3, <1>4, <1>5 DEF Books, PendingAgrees
  <1>11. Unopened'
    BY <1>1, <1>2, <1>3, SessionAssumption DEF Books, Unopened
  <1>12. QED
    BY <1>7, <1>8, <1>9, <1>10, <1>11 DEF Books

(* handleJoinDenial.                                                       *)
LEMMA DenyKeepsBooks ==
  ASSUME Books, NEW h \in Clients, NEW c \in Clients, DenyJoin(h, c)
  PROVE  Books'
  <1> DEFINE w == fsm[h].board
  <1>1. /\ w \in Boards /\ fsm[c] = PendingOn(w) /\ fsm' = [fsm EXCEPT ![c] = NoWhiteboard]
        /\ pendingClients' = [pendingClients EXCEPT ![w] = @ \ {c}]
        /\ UNCHANGED <<socket, host, clients, pastUsers, ended, whiteboards>>
    BY Decidable DEF DenyJoin, getPendingClient, BackToNoWhiteboard, NoLongerPending
  <1>2. \A x \in Clients, b \in Boards :
          /\ fsm'[x] = PendingOn(b) <=> (fsm[x] = PendingOn(b) /\ x # c)
          /\ fsm'[x] = UserOf(b) <=> fsm[x] = UserOf(b)
          /\ fsm'[x] = HostOf(b) <=> fsm[x] = HostOf(b)
          /\ fsm'[x].board = b => fsm[x].board = b
    BY <1>1, SessionAssumption
       DEF Books, StateTypes, NoWhiteboard, PendingOn, UserOf, HostOf
  <1>3. \A x \in Clients, b \in Boards :
          x \in pendingClients'[b] <=> (x \in pendingClients[b] /\ ~(x = c /\ b = w))
    BY <1>1 DEF Books, StateTypes
  <1>4. \A b \in Boards : fsm[c] = PendingOn(b) => b = w
    BY <1>1 DEF PendingOn
  <1>5. StateTypes'
    <2>1. pendingClients' \in [Boards -> SUBSET Clients]
      BY <1>1 DEF Books, StateTypes
    <2>2. QED
      BY <1>1, <2>1 DEF Books, StateTypes, ClientFSM
  <1>6. MembershipAgrees' /\ HostAgrees' /\ Unopened'
    BY <1>1, <1>2 DEF Books, MembershipAgrees, HostAgrees, Unopened, InBoard
  <1>7. PendingAgrees'
    BY <1>2, <1>3, <1>4 DEF Books, PendingAgrees
  <1>8. QED
    BY <1>5, <1>6, <1>7 DEF Books

(* detachClient, for a leaveWhiteboard message or for a closed socket.     *)
LEMMA DetachKeepsBooks ==
  ASSUME Books, NEW c \in Clients, NEW from, DetachClient(c, from),
         socket' \in [Clients -> {"new", "open", "closed"}]
  PROVE  Books'
  <1> DEFINE w == fsm[c].board
  <1>1. w \in Boards /\ fsm[c] = UserOf(w)
    BY States DEF DetachClient, Books, StateTypes
  <1>2. /\ clients' = [clients EXCEPT ![w][c] = 0]
        /\ pastUsers' = [pastUsers EXCEPT ![w] = @ \cup {c}]
        /\ fsm' = [fsm EXCEPT ![c] = NoWhiteboard]
        /\ UNCHANGED <<host, pendingClients, ended, whiteboards>>
    BY DEF DetachClient, Detached, Remembered, BackToNoWhiteboard
  <1>3. \A x \in Clients, b \in Boards :
          /\ fsm'[x] = PendingOn(b) <=> fsm[x] = PendingOn(b)
          /\ fsm'[x] = UserOf(b) <=> (fsm[x] = UserOf(b) /\ x # c)
          /\ fsm'[x] = HostOf(b) <=> fsm[x] = HostOf(b)
          /\ fsm'[x].board = b => fsm[x].board = b
    BY <1>1, <1>2, SessionAssumption
       DEF Books, StateTypes, NoWhiteboard, PendingOn, UserOf, HostOf
  <1>4. \A x \in Clients, b \in Boards :
          clients'[b][x] = IF x = c /\ b = w THEN 0 ELSE clients[b][x]
    BY <1>2 DEF Books, StateTypes
  <1>5. \A b \in Boards : InBoard(c, b) => b = w
    BY <1>1 DEF InBoard, UserOf, HostOf
  <1>6. StateTypes'
    <2>1. clients' \in [Boards -> [Clients -> Nat]]
      <3> DEFINE array == [clients[w] EXCEPT ![c] = 0]
      <3>1. array \in [Clients -> Nat]
        BY <1>1 DEF Books, StateTypes
      <3>2. clients' = [clients EXCEPT ![w] = array]
        BY <1>2
      <3> HIDE DEF array
      <3>3. QED
        BY <3>1, <3>2 DEF Books, StateTypes
    <2>2. pastUsers' \in [Boards -> SUBSET Clients]
      BY <1>2 DEF Books, StateTypes
    <2>3. fsm' \in [Clients -> ClientFSM]
      BY <1>2 DEF Books, StateTypes, ClientFSM
    <2>4. QED
      BY <1>2, <2>1, <2>2, <2>3 DEF Books, StateTypes
  <1>7. MembershipAgrees'
    <2> SUFFICES ASSUME NEW b \in Boards, NEW x \in Clients
                 PROVE  IF ended'[b] THEN ~InBoard(x, b)'
                        ELSE clients'[b][x] = IF InBoard(x, b)' THEN 1 ELSE 0
      BY DEF MembershipAgrees
    <2>1. fsm[c] # HostOf(b)
      BY <1>1 DEF UserOf, HostOf
    <2>2. InBoard(x, b)' <=> (InBoard(x, b) /\ x # c)
      BY <1>3, <2>1 DEF InBoard
    <2>3. QED
      BY <1>2, <1>4, <1>5, <2>2 DEF Books, MembershipAgrees
  <1>8. HostAgrees' /\ PendingAgrees' /\ Unopened'
    BY <1>2, <1>3 DEF Books, HostAgrees, PendingAgrees, Unopened
  <1>9. QED
    BY <1>6, <1>7, <1>8 DEF Books

(* END_SESSION sends everybody away: whoever is in the array is a user of  *)
(* this whiteboard or its host.                                            *)
LEMMA EndKeepsBooks ==
  ASSUME Books, NEW h \in Clients, NEW from, EndSession(h, from),
         socket' \in [Clients -> {"new", "open", "closed"}]
  PROVE  Books'
  <1> DEFINE w == fsm[h].board
  <1>1. w \in Boards /\ fsm[h] = HostOf(w)
    BY States DEF EndSession, Books, StateTypes
  <1>2. host[w] = h /\ ~ended[w]
    BY <1>1 DEF Books, HostAgrees
  <1>3. /\ fsm' = AllSentAway(w, h)
        /\ ended' = [ended EXCEPT ![w] = TRUE] /\ whiteboards' = whiteboards \ {w}
        /\ UNCHANGED <<host, clients, pastUsers, pendingClients>>
    BY <1>2 DEF EndSession
  <1>4. \A x \in Clients : fsm'[x] = IF InBoard(x, w) THEN NoWhiteboard ELSE fsm[x]
    <2> SUFFICES ASSUME NEW x \in Clients
                 PROVE  fsm'[x] = IF InBoard(x, w) THEN NoWhiteboard ELSE fsm[x]
      OBVIOUS
    <2>1. clients[w][x] = IF InBoard(x, w) THEN 1 ELSE 0
      BY <1>1, <1>2 DEF Books, MembershipAgrees
    <2>2. fsm[x] = HostOf(w) => x = h
      BY <1>1, <1>2 DEF Books, HostAgrees
    <2>3. InBoard(x, w) => fsm[x].state = "USER" \/ x = h
      BY <2>2 DEF InBoard, UserOf, HostOf
    <2>4. InBoard(h, w)
      BY <1>1 DEF InBoard
    <2>5. QED
      BY <1>3, <2>1, <2>3, <2>4 DEF AllSentAway
  <1>5. \A x \in Clients, b \in Boards :
          /\ fsm'[x] = PendingOn(b) <=> fsm[x] = PendingOn(b)
          /\ fsm'[x] = UserOf(b) <=> (fsm[x] = UserOf(b) /\ b # w)
          /\ fsm'[x] = HostOf(b) <=> (fsm[x] = HostOf(b) /\ b # w)
          /\ fsm'[x].board = b => fsm[x].board = b
    BY <1>4, SessionAssumption DEF InBoard, NoWhiteboard, PendingOn, UserOf, HostOf
  <1>6. StateTypes'
    <2>1. fsm' \in [Clients -> ClientFSM]
      BY <1>3 DEF AllSentAway, Books, StateTypes, ClientFSM
    <2>2. QED
      BY <1>3, <2>1 DEF Books, StateTypes
  <1>7. MembershipAgrees'
    BY <1>3, <1>5 DEF Books, StateTypes, MembershipAgrees, InBoard
  <1>8. HostAgrees'
    BY <1>3, <1>5 DEF Books, StateTypes, HostAgrees
  <1>9. PendingAgrees'
    BY <1>3, <1>5 DEF Books, PendingAgrees
  <1>10. Unopened'
    <2> SUFFICES ASSUME NEW b \in Boards, host[b] = NoClient
                 PROVE  ~ended'[b] /\ \A x \in Clients : fsm'[x].board # b
      BY <1>3 DEF Unopened
    <2>1. b # w /\ ~ended[b] /\ \A x \in Clients : fsm[x].board # b
      BY <1>2, SessionAssumption DEF Books, Unopened
    <2>2. ended'[b] = ended[b]
      BY <1>3, <2>1 DEF Books, StateTypes
    <2>3. QED
      BY <1>5, <2>1, <2>2
  <1>11. QED
    BY <1>6, <1>7, <1>8, <1>9, <1>10 DEF Books
-----------------------------------------------------------------------------
LEMMA InitBooks == Init => Books
  BY SessionAssumption
     DEF Init, Books, StateTypes, MembershipAgrees, HostAgrees, PendingAgrees, Unopened,
         InBoard, ClientFSM, Anonymous, PendingOn, UserOf, HostOf

LEMMA PlainStepKeepsBooks ==
  ASSUME Books, NEW c \in Clients, PlainStep(c)
  PROVE  Books'
  <1> USE DEF Books, StateTypes
  <1>1. CASE RegisterClient(c)
    BY <1>1, QuietKeepsBooks DEF RegisterClient
  <1>2. CASE \E case \in ClientToServerCase : NotAllowed(c, case)
    BY <1>2, QuietKeepsBooks DEF NotAllowed, Answer
  <1>3. CASE ClientHello(c)
    BY <1>3, HelloKeepsBooks
  <1>4. CASE \E b \in Boards : CreateWhiteboard(c, b)
    BY <1>4, CreateKeepsBooks
  <1>5. CASE \E b \in Boards : JoinWhiteboard(c, b)
    BY <1>5, JoinKeepsBooks
  <1>6. CASE \E x \in Clients : NoSuchApplicant(c, x)
    BY <1>6, QuietKeepsBooks DEF NoSuchApplicant, getPendingClient, Answer
  <1>7. CASE \E x \in Clients : DenyJoin(c, x)
    BY <1>7, DenyKeepsBooks
  <1>8. CASE LeaveWhiteboard(c)
    BY <1>8, DetachKeepsBooks, EndKeepsBooks DEF LeaveWhiteboard
  <1>9. CASE CloseSocket(c)
    <2>1. socket' \in [Clients -> {"new", "open", "closed"}]
      BY <1>9 DEF CloseSocket
    <2>2. QED
      BY <1>9, <2>1, QuietKeepsBooks, DetachKeepsBooks, EndKeepsBooks DEF CloseSocket
  <1>10. QED
    BY <1>1, <1>2, <1>3, <1>4, <1>5, <1>6, <1>7, <1>8, <1>9 DEF PlainStep

LEMMA NextKeepsBooks == Books /\ [Next]_sessionVars => Books'
  <1>1. ASSUME Books, NEW c \in Clients, PlainStep(c) PROVE Books'
    BY <1>1, PlainStepKeepsBooks
  <1>2. ASSUME Books, NEW c \in Clients, NEW x \in Clients, ApproveJoin(c, x, <<>>)
        PROVE  Books'
    BY <1>2, ApproveKeepsBooks
  <1>3. ASSUME Books, UNCHANGED sessionVars PROVE Books'
    BY <1>3, QuietKeepsBooks DEF Books, StateTypes
  <1>4. QED
    BY <1>1, <1>2, <1>3 DEF Next

(* The books of the whiteboards are always right.                          *)
THEOREM BooksAreRight == Spec => []Books
  BY InitBooks, NextKeepsBooks, PTL DEF Spec

(* The members of a running whiteboard are the connections whose state     *)
(* machine says so, once each.                                             *)
THEOREM MembershipAlwaysAgrees == Spec => []MembershipAgrees
  BY BooksAreRight, PTL DEF Books

(* A running whiteboard is in the registry and has the host it was created *)
(* by.                                                                     *)
THEOREM HostAlwaysAgrees == Spec => []HostAgrees
  BY BooksAreRight, PTL DEF Books

(* Pending for a whiteboard, in its map and in the state machine.          *)
THEOREM PendingAlwaysAgrees == Spec => []PendingAgrees
  BY BooksAreRight, PTL DEF Books
-----------------------------------------------------------------------------
(* What a step may never do.                                               *)

(* END_SESSION finds a whiteboard that has not ended.                      *)
LEMMA EndsOnce ==
  ASSUME Books, NEW h \in Clients, NEW from, EndSession(h, from)
  PROVE  /\ fsm[h].board \in Boards /\ ~ended[fsm[h].board] /\ host[fsm[h].board] = h
         /\ fsm[h] = HostOf(fsm[h].board)
         /\ ended' = [ended EXCEPT ![fsm[h].board] = TRUE]
         /\ whiteboards' = whiteboards \ {fsm[h].board}
         /\ UNCHANGED <<host, clients, pastUsers, pendingClients>>
  <1>1. fsm[h].board \in Boards /\ fsm[h] = HostOf(fsm[h].board)
    BY States DEF EndSession, Books, StateTypes
  <1>2. host[fsm[h].board] = h /\ ~ended[fsm[h].board]
    BY <1>1 DEF Books, HostAgrees
  <1>3. QED
    BY <1>1, <1>2 DEF EndSession

(* A user that leaves is in a whiteboard that has not ended, and leaves    *)
(* its array.                                                              *)
LEMMA DetachesUser ==
  ASSUME Books, NEW c \in Clients, NEW from, DetachClient(c, from)
  PROVE  /\ fsm[c].board \in Boards /\ ~ended[fsm[c].board]
         /\ \A b \in Boards : b # fsm[c].board =>
              UNCHANGED <<clients[b], pastUsers[b], pendingClients[b], host[b]>>
         /\ clients' = [clients EXCEPT ![fsm[c].board][c] = 0]
         /\ UNCHANGED <<host, pendingClients, ended, whiteboards>>
  <1>1. fsm[c].board \in Boards /\ fsm[c] = UserOf(fsm[c].board)
    BY States DEF DetachClient, Books, StateTypes
  <1>2. ~ended[fsm[c].board]
    BY <1>1 DEF Books, MembershipAgrees, InBoard
  <1>3. QED
    BY <1>1, <1>2 DEF DetachClient, Detached, Remembered, Books, StateTypes

Final(b) ==
  ended[b] =>
    /\ ended'[b] /\ b \notin whiteboards'
    /\ UNCHANGED <<clients[b], pastUsers[b], pendingClients[b], host[b]>>

LEMMA ApproveIsFinal ==
  ASSUME Books, NEW h \in Clients, NEW c \in Clients, NEW dump, ApproveJoin(h, c, dump),
         NEW b \in Boards
  PROVE  Final(b)
  <1>1. fsm[h].board \in Boards /\ ~ended[fsm[h].board] /\ Admit(h, c, dump)
    BY Decidable DEF ApproveJoin, getPendingClient
  <1>2. /\ clients' = [clients EXCEPT ![fsm[h].board][c] = @ + 1]
        /\ pendingClients' = [pendingClients EXCEPT ![fsm[h].board] = @ \ {c}]
        /\ UNCHANGED <<host, pastUsers, ended, whiteboards>>
    BY <1>1 DEF Admit, Using, Joined, NoLongerPending
  <1>3. QED
    BY <1>1, <1>2 DEF Final, Books, StateTypes, HostAgrees

LEMMA PlainStepIsFinal ==
  ASSUME Books, NEW c \in Clients, PlainStep(c), NEW b \in Boards
  PROVE  Final(b)
  <1>0. ended[b] => b \notin whiteboards
    BY DEF Books, HostAgrees
  <1>1. ASSUME UNCHANGED boardVars PROVE Final(b)
    BY <1>0, <1>1 DEF Final
  <1>2. CASE RegisterClient(c) \/ ClientHello(c)
            \/ (\E case \in ClientToServerCase : NotAllowed(c, case))
            \/ \E x \in Clients : NoSuchApplicant(c, x)
    BY <1>1, <1>2 DEF RegisterClient, NotAllowed, ClientHello, NoSuchApplicant, Answer
  <1>3. ASSUME NEW w \in Boards, CreateWhiteboard(c, w) PROVE Final(b)
    <2>1. ~ended[w]
      BY <1>3 DEF CreateWhiteboard, Hosting, addWhiteboard, Books, Unopened
    <2>2. QED
      BY <1>0, <1>3, <2>1 DEF CreateWhiteboard, Hosting, addWhiteboard, Final, Books, StateTypes
  <1>4. ASSUME NEW w \in Boards, JoinWhiteboard(c, w) PROVE Final(b)
    <2>1. CASE w \notin whiteboards
      BY <1>1, <1>4, <2>1 DEF JoinWhiteboard, Applying, WithApplicant, Answer
    <2>2. CASE w \in whiteboards
      <3>1. ~ended[w]
        BY <2>2 DEF Books, HostAgrees
      <3>2. /\ pendingClients' = [pendingClients EXCEPT ![w] = @ \cup {c}]
            /\ UNCHANGED <<host, clients, pastUsers, ended, whiteboards>>
        BY <1>4, <2>2, <3>1 DEF JoinWhiteboard, Applying, WithApplicant
      <3>3. QED
        BY <1>0, <3>1, <3>2 DEF Final, Books, StateTypes
    <2>3. QED
      BY <2>1, <2>2
  <1>5. ASSUME NEW x \in Clients, DenyJoin(c, x) PROVE Final(b)
    <2>1. fsm[c].board \in Boards /\ ~ended[fsm[c].board]
      BY <1>5, Decidable DEF DenyJoin, getPendingClient
    <2>2. /\ pendingClients' = [pendingClients EXCEPT ![fsm[c].board] = @ \ {x}]
          /\ UNCHANGED <<host, clients, pastUsers, ended, whiteboards>>
      BY <1>5, Decidable DEF DenyJoin, getPendingClient, NoLongerPending
    <2>3. QED
      BY <1>0, <2>1, <2>2 DEF Final, Books, StateTypes
  <1>6. ASSUME NEW from, DetachClient(c, from) PROVE Final(b)
    BY <1>0, <1>6, DetachesUser DEF Final
  <1>7. ASSUME NEW from, EndSession(c, from) PROVE Final(b)
    BY <1>0, <1>7, EndsOnce DEF Final, Books, StateTypes
  <1>8. CASE LeaveWhiteboard(c) \/ CloseSocket(c)
    BY <1>1, <1>6, <1>7, <1>8 DEF LeaveWhiteboard, CloseSocket
  <1>9. QED
    BY <1>2, <1>3, <1>4, <1>5, <1>8 DEF PlainStep

(* Nothing changes in a whiteboard whose session ended.                    *)
THEOREM EndedStaysFinal == Spec => EndedIsFinal
  <1>1. Books /\ [Next]_sessionVars =>
          [\A b \in Boards : Final(b)]_sessionVars
    BY ApproveIsFinal, PlainStepIsFinal DEF Next
  <1>2. QED
    BY <1>1, BooksAreRight, PTL DEF Spec, EndedIsFinal, Final

Admitted(b, c) ==
  clients'[b][c] > clients[b][c] =>
    \/ requester' = c /\ host[b] = NoClient /\ host'[b] = c
    \/ requester' = host[b] /\ fsm[c] = PendingOn(b)

LEMMA ApproveAdmits ==
  ASSUME Books, NEW h \in Clients, NEW x \in Clients, NEW dump, ApproveJoin(h, x, dump),
         NEW b \in Boards, NEW c \in Clients
  PROVE  Admitted(b, c)
  <1> DEFINE w == fsm[h].board
  <1>1. /\ w \in Boards /\ host[w] = h /\ fsm[x] = PendingOn(w)
        /\ clients' = [clients EXCEPT ![w][x] = @ + 1] /\ requester' = h
    BY Decidable DEF ApproveJoin, getPendingClient, Admit, Using, Joined, Emit
  <1>2. CASE b = w /\ c = x
    BY <1>1, <1>2 DEF Admitted
  <1>3. CASE ~(b = w /\ c = x)
    <2>1. clients'[b][c] = clients[b][c] /\ clients[b][c] \in Nat
      BY <1>1, <1>3 DEF Books, StateTypes
    <2>2. QED
      BY <2>1 DEF Admitted
  <1>4. QED
    BY <1>2, <1>3

LEMMA PlainStepAdmits ==
  ASSUME Books, NEW c \in Clients, PlainStep(c), NEW b \in Boards, NEW x \in Clients
  PROVE  Admitted(b, x)
  <1>0. clients[b][x] \in Nat
    BY DEF Books, StateTypes
  <1>1. ASSUME clients' = clients PROVE Admitted(b, x)
    BY <1>0, <1>1 DEF Admitted
  <1>2. CASE RegisterClient(c) \/ ClientHello(c)
            \/ (\E case \in ClientToServerCase : NotAllowed(c, case))
            \/ \E y \in Clients : NoSuchApplicant(c, y)
    BY <1>1, <1>2 DEF RegisterClient, NotAllowed, ClientHello, NoSuchApplicant, Answer
  <1>3. ASSUME NEW w \in Boards, CreateWhiteboard(c, w) PROVE Admitted(b, x)
    BY <1>0, <1>3 DEF CreateWhiteboard, Hosting, addWhiteboard, Emit, Admitted, Books, StateTypes
  <1>4. ASSUME NEW w \in Boards, JoinWhiteboard(c, w) PROVE Admitted(b, x)
    BY <1>1, <1>4 DEF JoinWhiteboard, Applying, WithApplicant, Answer
  <1>5. ASSUME NEW y \in Clients, DenyJoin(c, y) PROVE Admitted(b, x)
    BY <1>1, <1>5, Decidable DEF DenyJoin, getPendingClient
  <1>6. ASSUME NEW from, DetachClient(c, from) PROVE Admitted(b, x)
    <2>1. clients' = [clients EXCEPT ![fsm[c].board][c] = 0]
      BY <1>6, DetachesUser
    <2>2. clients'[b][x] = clients[b][x] \/ clients'[b][x] = 0
      BY <2>1 DEF Books, StateTypes
    <2>3. QED
      BY <1>0, <2>2 DEF Admitted
  <1>7. CASE LeaveWhiteboard(c) \/ CloseSocket(c)
    BY <1>1, <1>6, <1>7, EndsOnce DEF LeaveWhiteboard, CloseSocket
  <1>8. QED
    BY <1>2, <1>3, <1>4, <1>5, <1>7 DEF PlainStep

(* Nobody gets into a whiteboard but by its host.                          *)
THEOREM HostAdmitsEverybody == Spec => OnlyHostAdmits
  <1>1. Books /\ [Next]_sessionVars =>
          [\A b \in Boards, c \in Clients : Admitted(b, c)]_sessionVars
    BY ApproveAdmits, PlainStepAdmits DEF Next
  <1>2. QED
    BY <1>1, BooksAreRight, PTL DEF Spec, OnlyHostAdmits, Admitted
-----------------------------------------------------------------------------
(* What the server sends.                                                  *)

(* A message that does not report an exception.                            *)
ProperMessage ==
  {m \in SessionMessage : m.type = "error" => m.reason # "INTERNAL_SERVER_ERROR"}

Mail == [Clients -> Seq(ProperMessage)]
-----------------------------------------------------------------------------
(* The helpers that build what a step sends.                               *)

LEMMA PlainIsProper ==
  ASSUME NEW re \in BOOLEAN,
         NEW type \in {"success", "joinApproved", "joinDenied", "whiteboardSessionEnded"}
  PROVE  Plain(type, re) \in ProperMessage
  BY DEF ProperMessage, SessionMessage, Plain

LEMMA CreatedIsProper ==
  ASSUME NEW b \in Boards
  PROVE  WhiteboardCreated(b) \in ProperMessage
  BY DEF ProperMessage, SessionMessage, WhiteboardCreated

LEMMA ErrorIsProper ==
  ASSUME NEW re \in BOOLEAN, NEW reason \in ErrorReason \ {"INTERNAL_SERVER_ERROR"}
  PROVE  Error(reason, re) \in ProperMessage
  BY DEF ProperMessage, SessionMessage, Error

LEMMA WantsIsProper ==
  ASSUME NEW c \in Clients
  PROVE  WantsToJoin(c) \in ProperMessage
  BY DEF ProperMessage, SessionMessage, WantsToJoin

LEMMA UserListIsProper ==
  ASSUME NEW list, NEW past \in SUBSET Clients
  PROVE  UserList(list, past) \in ProperMessage
  BY DEF ProperMessage, SessionMessage, UserList

LEMMA OneIsSeq ==
  ASSUME NEW S, NEW m \in S
  PROVE  <<m>> \in Seq(S) /\ <<m>> = [i \in 1..1 |-> m]
  OBVIOUS

LEMMA OnlyIsMail ==
  ASSUME NEW c, NEW msgs \in Seq(ProperMessage)
  PROVE  Only(c, msgs) \in Mail
  BY DEF Only, Mail

LEMMA ToAllIsMail ==
  ASSUME NEW list \in [Clients -> Nat], NEW m \in ProperMessage
  PROVE  ToAll(list, m) \in Mail
  <1> SUFFICES ASSUME NEW x \in Clients
               PROVE  [i \in 1..list[x] |-> m] \in Seq(ProperMessage)
    BY DEF ToAll, Mail
  <1>1. list[x] \in Nat
    OBVIOUS
  <1>2. QED
    BY <1>1

LEMMA PlusIsMail ==
  ASSUME NEW f \in Mail, NEW g \in Mail
  PROVE  f ++ g \in Mail
  BY ConcatProperties DEF ++, Mail

LEMMA EmitIsMail ==
  ASSUME NEW c, NEW msgs \in Mail, Emit(c, msgs)
  PROVE  out' \in Mail /\ requester' = c
  BY DEF Emit, Mail

LEMMA ListIsMail ==
  ASSUME StateTypes', NEW b \in Boards
  PROVE  CurrentClientList(b) \in Mail
  <1>1. clients'[b] \in [Clients -> Nat] /\ pastUsers'[b] \in SUBSET Clients
    BY DEF StateTypes
  <1>2. QED
    BY <1>1, ToAllIsMail, UserListIsProper DEF CurrentClientList

LEMMA AnswerIsMail ==
  ASSUME NEW c, NEW m \in ProperMessage, Answer(c, m)
  PROVE  out' \in Mail /\ requester' = c
  <1>1. Only(c, <<m>>) \in Mail
    BY OneIsSeq, OnlyIsMail
  <1>2. QED
    BY <1>1, EmitIsMail DEF Answer

MailSent == out' \in Mail /\ requester' \in Clients \cup {NoClient}

LEMMA RefusalIsMail ==
  ASSUME NEW c \in Clients, NEW reason \in ErrorReason \ {"INTERNAL_SERVER_ERROR"},
         Answer(c, Error(reason, TRUE))
  PROVE  MailSent
  <1> DEFINE m == Error(reason, TRUE)
  <1>1. m \in ProperMessage /\ Answer(c, m)
    BY ErrorIsProper
  <1> HIDE DEF m
  <1>2. QED
    BY <1>1, AnswerIsMail DEF MailSent
-----------------------------------------------------------------------------
(* Every step sends proper messages only.                                  *)

LEMMA ApproveSendsMail ==
  ASSUME Books, Books', NEW h \in Clients, NEW c \in Clients,
         NEW dump \in Seq(ProperMessage), ApproveJoin(h, c, dump)
  PROVE  MailSent
  <1>1. fsm[h].board \in Boards /\ Admit(h, c, dump)
    BY Decidable DEF ApproveJoin, getPendingClient
  <1>2. /\ Only(c, <<Plain("joinApproved", FALSE)>>) \in Mail
        /\ CurrentClientList(fsm[h].board) \in Mail
        /\ Only(c, dump) \in Mail /\ Only(h, <<Success>>) \in Mail
    <2>1. /\ Plain("joinApproved", FALSE) \in ProperMessage
          /\ Success \in ProperMessage
      BY PlainIsProper DEF Success
    <2>2. /\ <<Plain("joinApproved", FALSE)>> \in Seq(ProperMessage)
          /\ <<Success>> \in Seq(ProperMessage)
      BY <2>1, OneIsSeq
    <2>3. QED
      BY <1>1, <2>2, OnlyIsMail, ListIsMail DEF Books
  <1>3. Only(c, <<Plain("joinApproved", FALSE)>>) ++ CurrentClientList(fsm[h].board)
          ++ Only(c, dump) ++ Only(h, <<Success>>) \in Mail
    BY <1>2, PlusIsMail
  <1>4. QED
    BY <1>1, <1>3, EmitIsMail DEF Admit, Using, MailSent

LEMMA PlainStepSendsMail ==
  ASSUME Books, Books', NEW c \in Clients, PlainStep(c)
  PROVE  MailSent
  <1>0. /\ Success \in ProperMessage
        /\ \A m \in ProperMessage : <<m>> \in Seq(ProperMessage)
        /\ <<>> \in Seq(ProperMessage)
    BY PlainIsProper, OneIsSeq, EmptySeq DEF Success
  <1>1. CASE RegisterClient(c)
    BY <1>0, <1>1, OnlyIsMail, EmitIsMail DEF RegisterClient, MailSent
  <1>2. CASE \E case \in ClientToServerCase : NotAllowed(c, case)
    BY <1>2, RefusalIsMail DEF NotAllowed, ErrorReason
  <1>3. CASE ClientHello(c)
    <2>1. Only(c, <<Success>>) \in Mail
      BY <1>0, OnlyIsMail
    <2>2. QED
      BY <1>3, <2>1, EmitIsMail DEF ClientHello, Named, MailSent
  <1>4. ASSUME NEW w \in Boards, CreateWhiteboard(c, w) PROVE MailSent
    <2>0. <<WhiteboardCreated(w)>> \in Seq(ProperMessage)
      BY CreatedIsProper, OneIsSeq
    <2>1. /\ Only(c, <<WhiteboardCreated(w)>>) \in Mail
          /\ CurrentClientList(w) \in Mail
      BY <1>0, <2>0, OnlyIsMail, ListIsMail DEF Books
    <2>2. QED
      BY <1>4, <2>1, PlusIsMail, EmitIsMail DEF CreateWhiteboard, Hosting, addWhiteboard, MailSent
  <1>5. ASSUME NEW w \in Boards, JoinWhiteboard(c, w) PROVE MailSent
    <2>1. CASE w \notin whiteboards
      BY <1>5, <2>1, RefusalIsMail DEF JoinWhiteboard, Applying, WithApplicant, ErrorReason
    <2>2. CASE w \in whiteboards
      <3>1. /\ Only(c, <<Error("WHITEBOARD_DOES_NOT_EXIST", FALSE)>>) \in Mail
            /\ Only(host[w], <<WantsToJoin(c)>>) \in Mail
            /\ Only(c, <<Success>>) \in Mail
        BY <1>0, ErrorIsProper, WantsIsProper, OnlyIsMail DEF ErrorReason
      <3> DEFINE msgs == (IF ended[w]
                          THEN Only(c, <<Error("WHITEBOARD_DOES_NOT_EXIST", FALSE)>>)
                          ELSE Only(host[w], <<WantsToJoin(c)>>)) ++ Only(c, <<Success>>)
      <3>2. msgs \in Mail
        BY <3>1, PlusIsMail
      <3>3. Emit(c, msgs)
        BY <1>5, <2>2 DEF JoinWhiteboard, Applying, WithApplicant
      <3> HIDE DEF msgs
      <3>4. QED
        BY <3>2, <3>3, EmitIsMail DEF MailSent
    <2>3. QED
      BY <2>1, <2>2
  <1>6. ASSUME NEW x \in Clients, NoSuchApplicant(c, x) PROVE MailSent
    BY <1>6, RefusalIsMail DEF NoSuchApplicant, getPendingClient, ErrorReason
  <1>7. ASSUME NEW x \in Clients, DenyJoin(c, x) PROVE MailSent
    <2>1. ~Undecidable(c, x)
      BY <1>7, Decidable DEF DenyJoin, getPendingClient
    <2>2. /\ Only(x, <<Plain("joinDenied", FALSE)>>) \in Mail
          /\ Only(c, <<Success>>) \in Mail
      BY <1>0, PlainIsProper, OnlyIsMail
    <2>3. QED
      BY <1>7, <2>1, <2>2, PlusIsMail, EmitIsMail DEF DenyJoin, getPendingClient, MailSent
  <1>8. ASSUME NEW from \in Clients \cup {NoClient}, DetachClient(c, from) PROVE MailSent
    <2>1. fsm[c].board \in Boards
      BY <1>8, DetachesUser
    <2>2. /\ CurrentClientList(fsm[c].board) \in Mail
          /\ Only(c, <<Plain("success", from = c)>>) \in Mail
      BY <1>0, <2>1, PlainIsProper, OnlyIsMail, ListIsMail DEF Books
    <2>3. QED
      BY <1>8, <2>2, PlusIsMail, EmitIsMail DEF DetachClient, MailSent
  <1>9. ASSUME NEW from \in Clients \cup {NoClient}, EndSession(c, from) PROVE MailSent
    <2>1. fsm[c].board \in Boards /\ ~ended[fsm[c].board]
      BY <1>9, EndsOnce
    <2>2. clients[fsm[c].board] \in [Clients -> Nat]
      BY <2>1 DEF Books, StateTypes
    <2>3. ToAll(clients[fsm[c].board], SessionEnded(c, from)) \in Mail
      BY <2>2, PlainIsProper, ToAllIsMail DEF SessionEnded
    <2>4. QED
      BY <1>9, <2>1, <2>3, EmitIsMail DEF EndSession, MailSent
  <1>10. CASE LeaveWhiteboard(c)
    BY <1>8, <1>9, <1>10 DEF LeaveWhiteboard
  <1>11. CASE CloseSocket(c)
    <2>1. ASSUME Emit(NoClient, Only(c, <<>>)) PROVE MailSent
      BY <1>0, <2>1, OnlyIsMail, EmitIsMail DEF MailSent
    <2>2. QED
      BY <1>8, <1>9, <1>11, <2>1 DEF CloseSocket
  <1>12. QED
    BY <1>1, <1>2, <1>3, <1>4, <1>5, <1>6, <1>7, <1>10, <1>11 DEF PlainStep

MailOK == out \in Mail /\ requester \in Clients \cup {NoClient}

LEMMA MailAlwaysOK == Spec => [](Books /\ MailOK)
  <1>1. Init => MailOK
    BY DEF Init, MailOK, Mail
  <1>2. Books /\ Books' /\ MailOK /\ [Next]_sessionVars => MailOK'
    <2> SUFFICES ASSUME Books, Books', MailOK, [Next]_sessionVars PROVE MailOK'
      OBVIOUS
    <2>1. CASE UNCHANGED sessionVars
      BY <2>1 DEF sessionVars, MailOK, Mail
    <2>2. ASSUME NEW c \in Clients, PlainStep(c) PROVE MailOK'
      BY <2>2, PlainStepSendsMail DEF MailSent, MailOK
    <2>3. ASSUME NEW c \in Clients, NEW x \in Clients, ApproveJoin(c, x, <<>>) PROVE MailOK'
      <3>1. <<>> \in Seq(ProperMessage)
        OBVIOUS
      <3>2. QED
        BY <2>3, <3>1, ApproveSendsMail DEF MailSent, MailOK
    <2>4. QED
      BY <2>1, <2>2, <2>3 DEF Next
  <1>3. QED
    BY <1>1, <1>2, BooksAreRight, PTL DEF Spec

(* Every variable keeps the type the code gives it.                        *)
THEOREM TypesAreCorrect == Spec => []TypeOK
  <1>1. Books /\ MailOK => TypeOK
    <2>1. ProperMessage \subseteq SessionMessage
      BY DEF ProperMessage
    <2>2. MailOK => out \in [Clients -> Seq(SessionMessage)]
      BY <2>1 DEF MailOK, Mail
    <2>3. QED
      BY <2>2 DEF Books, StateTypes, MailOK, TypeOK
  <1>2. QED
    BY <1>1, MailAlwaysOK, PTL

(* No handler of a well-formed message ever throws.                        *)
THEOREM NoHandlerThrows == Spec => []NeverThrows
  <1>1. MailOK => NeverThrows
    <2> SUFFICES ASSUME MailOK, NEW c \in Clients, NEW i \in DOMAIN out[c]
                 PROVE  out[c][i] \in ProperMessage
      BY DEF NeverThrows, ProperMessage
    <2>1. QED
      BY ElementOfSeq DEF MailOK, Mail
  <1>2. QED
    BY <1>1, MailAlwaysOK, PTL
-----------------------------------------------------------------------------
(* What one client is sent in one step, put together of smaller parts.     *)

(* None of the messages answers; exactly one does.                         *)
Silent(s) == \A j \in DOMAIN s : ~s[j].re
Once(s)  == \E i \in DOMAIN s : \A j \in DOMAIN s : s[j].re <=> j = i

(* None of the messages is a list of members; the last that is, is m.      *)
NoList(s)      == \A j \in DOMAIN s : s[j].type # "userListChanged"
LastList(s, m) == \E i \in DOMAIN s :
                    s[i] = m /\ \A j \in DOMAIN s : j > i => s[j].type # "userListChanged"

(* The messages of s \o t are those of s and then those of t.              *)
LEMMA ConcatParts ==
  ASSUME NEW S, NEW s \in Seq(S), NEW t \in Seq(S)
  PROVE  /\ DOMAIN s = 1..Len(s) /\ DOMAIN t = 1..Len(t) /\ Len(s) \in Nat /\ Len(t) \in Nat
         /\ s \o t \in Seq(S) /\ DOMAIN (s \o t) = 1..(Len(s) + Len(t))
         /\ \A i \in DOMAIN s : i \in DOMAIN (s \o t) /\ (s \o t)[i] = s[i]
         /\ \A i \in DOMAIN t : /\ i + Len(s) \in DOMAIN (s \o t)
                                /\ (s \o t)[i + Len(s)] = t[i]
         /\ \A i \in DOMAIN (s \o t) :
              \/ i \in DOMAIN s /\ (s \o t)[i] = s[i]
              \/ /\ i - Len(s) \in DOMAIN t /\ i > Len(s)
                 /\ (s \o t)[i] = t[i - Len(s)]
  <1>1. /\ DOMAIN s = 1..Len(s) /\ DOMAIN t = 1..Len(t) /\ Len(s) \in Nat /\ Len(t) \in Nat
        /\ s \o t \in Seq(S) /\ DOMAIN (s \o t) = 1..(Len(s) + Len(t))
        /\ \A i \in 1..(Len(s) + Len(t)) :
             (s \o t)[i] = IF i <= Len(s) THEN s[i] ELSE t[i - Len(s)]
    BY ConcatProperties, LenProperties
  <1>2. QED
    BY <1>1

LEMMA SilentThenSilent ==
  ASSUME NEW S, NEW s \in Seq(S), NEW t \in Seq(S), Silent(s), Silent(t)
  PROVE  Silent(s \o t)
  BY ConcatParts DEF Silent

LEMMA SilentThenOnce ==
  ASSUME NEW S, NEW s \in Seq(S), NEW t \in Seq(S), Silent(s), Once(t)
  PROVE  Once(s \o t)
  <1>1. PICK i \in DOMAIN t : \A j \in DOMAIN t : t[j].re <=> j = i
    BY DEF Once
  <1>2. i + Len(s) \in DOMAIN (s \o t)
    BY ConcatParts
  <1>3. ASSUME NEW j \in DOMAIN (s \o t)
        PROVE  (s \o t)[j].re <=> j = i + Len(s)
    BY <1>1, ConcatParts DEF Silent
  <1>4. QED
    BY <1>2, <1>3 DEF Once

LEMMA OnceThenSilent ==
  ASSUME NEW S, NEW s \in Seq(S), NEW t \in Seq(S), Once(s), Silent(t)
  PROVE  Once(s \o t)
  <1>1. PICK i \in DOMAIN s : \A j \in DOMAIN s : s[j].re <=> j = i
    BY DEF Once
  <1>2. i \in DOMAIN (s \o t)
    BY ConcatParts
  <1>3. ASSUME NEW j \in DOMAIN (s \o t)
        PROVE  (s \o t)[j].re <=> j = i
    BY <1>1, ConcatParts DEF Silent
  <1>4. QED
    BY <1>2, <1>3 DEF Once

LEMMA NoneThenNone ==
  ASSUME NEW S, NEW s \in Seq(S), NEW t \in Seq(S), NoList(s), NoList(t)
  PROVE  NoList(s \o t)
  BY ConcatParts DEF NoList

LEMMA ListAfterAnything ==
  ASSUME NEW S, NEW s \in Seq(S), NEW t \in Seq(S), NEW m, LastList(t, m)
  PROVE  LastList(s \o t, m)
  <1>1. PICK i \in DOMAIN t :
          t[i] = m /\ \A j \in DOMAIN t : j > i => t[j].type # "userListChanged"
    BY DEF LastList
  <1>2. i + Len(s) \in DOMAIN (s \o t) /\ (s \o t)[i + Len(s)] = m
    BY <1>1, ConcatParts
  <1>3. ASSUME NEW j \in DOMAIN (s \o t), j > i + Len(s)
        PROVE  (s \o t)[j].type # "userListChanged"
    BY <1>1, <1>3, ConcatParts
  <1>4. QED
    BY <1>2, <1>3 DEF LastList

LEMMA ListThenNone ==
  ASSUME NEW S, NEW s \in Seq(S), NEW t \in Seq(S), NEW m, LastList(s, m), NoList(t)
  PROVE  LastList(s \o t, m)
  <1>1. PICK i \in DOMAIN s :
          s[i] = m /\ \A j \in DOMAIN s : j > i => s[j].type # "userListChanged"
    BY DEF LastList
  <1>2. i \in DOMAIN (s \o t) /\ (s \o t)[i] = m
    BY <1>1, ConcatParts
  <1>3. ASSUME NEW j \in DOMAIN (s \o t), j > i
        PROVE  (s \o t)[j].type # "userListChanged"
    BY <1>1, <1>3, ConcatParts DEF NoList
  <1>4. QED
    BY <1>2, <1>3 DEF LastList
(* The parts that a handler puts together, as one client gets them.        *)
LEMMA OnlyAt ==
  ASSUME NEW c, NEW msgs, NEW x \in Clients
  PROVE  Only(c, msgs)[x] = IF x = c THEN msgs ELSE <<>>
  BY DEF Only

LEMMA PlusAt ==
  ASSUME NEW f, NEW g, NEW x \in Clients
  PROVE  (f ++ g)[x] = f[x] \o g[x]
  BY DEF ++

LEMMA EmptyParts == Silent(<<>>) /\ NoList(<<>>)
  BY DEF Silent, NoList

LEMMA OnePart ==
  ASSUME NEW m
  PROVE  /\ ~m.re => Silent(<<m>>)
         /\ m.re => Once(<<m>>)
         /\ m.type # "userListChanged" => NoList(<<m>>)
  BY DEF Silent, Once, NoList

LEMMA PartForAll ==
  ASSUME NEW list \in [Clients -> Nat], NEW m, NEW x \in Clients
  PROVE  /\ ~m.re => Silent(ToAll(list, m)[x])
         /\ m.re /\ list[x] = 1 => Once(ToAll(list, m)[x])
         /\ list[x] > 0 => LastList(ToAll(list, m)[x], m)
  <1>1. ToAll(list, m)[x] = [i \in 1..list[x] |-> m] /\ list[x] \in Nat
    BY DEF ToAll
  <1>2. /\ DOMAIN ToAll(list, m)[x] = 1..list[x]
        /\ \A i \in 1..list[x] : ToAll(list, m)[x][i] = m
    BY <1>1
  <1>3. ~m.re => Silent(ToAll(list, m)[x])
    BY <1>2 DEF Silent
  <1>4. m.re /\ list[x] = 1 => Once(ToAll(list, m)[x])
    BY <1>2 DEF Once
  <1>5. list[x] > 0 => LastList(ToAll(list, m)[x], m)
    <2>1. \A j \in 1..list[x] : ~(j > list[x])
      BY <1>1
    <2>2. list[x] > 0 => list[x] \in 1..list[x]
      BY <1>1
    <2>3. QED
      BY <1>2, <2>1, <2>2 DEF LastList
  <1>6. QED
    BY <1>3, <1>4, <1>5

LEMMA ListPart ==
  ASSUME StateTypes', NEW b \in Boards, NEW x \in Clients
  PROVE  /\ CurrentClientList(b)[x] \in Seq(ProperMessage)
         /\ Silent(CurrentClientList(b)[x])
         /\ clients'[b][x] > 0 =>
              LastList(CurrentClientList(b)[x], UserList(clients'[b], pastUsers'[b]))
  <1>1. CurrentClientList(b) \in Mail
    BY ListIsMail
  <1>2. clients'[b] \in [Clients -> Nat]
    BY DEF StateTypes
  <1> DEFINE list == UserList(clients'[b], pastUsers'[b])
  <1>3. ~list.re
    BY DEF UserList
  <1> HIDE DEF list
  <1>4. CurrentClientList(b) = ToAll(clients'[b], list)
    BY DEF CurrentClientList, list
  <1>5. /\ Silent(CurrentClientList(b)[x])
        /\ clients'[b][x] > 0 => LastList(CurrentClientList(b)[x], list)
    BY <1>2, <1>3, <1>4, PartForAll
  <1>6. QED
    BY <1>1, <1>5 DEF Mail, list

LEMMA EmitAt ==
  ASSUME NEW c, NEW msgs, Emit(c, msgs), NEW x \in Clients, socket'[x] = "open"
  PROVE  requester' = c /\ out'[x] = msgs[x]
  BY DEF Emit
-----------------------------------------------------------------------------
(* A message is answered by the step that handles it.                      *)

Answered(c) == requester' = c /\ Once(out'[c])

LEMMA OneMessageAnswers ==
  ASSUME NEW c \in Clients, NEW m, m.re, socket'[c] = "open", Emit(c, Only(c, <<m>>))
  PROVE  Answered(c)
  BY EmitAt, OnlyAt, OnePart DEF Answered

LEMMA RefusalAnswers ==
  ASSUME NEW c \in Clients, socket[c] = "open", NEW reason, Answer(c, Error(reason, TRUE))
  PROVE  Answered(c)
  BY OneMessageAnswers DEF Answer, Error

(* The host that decides is not the client it decides about.               *)
LEMMA DecisionsAnswer ==
  ASSUME Books, Books', NEW h \in Clients, NEW c \in Clients
  PROVE  /\ DenyJoin(h, c) => Answered(h)
         /\ \A dump : ApproveJoin(h, c, dump) => Answered(h)
  <1> SUFFICES ASSUME Dispatch(h, "approveOrDenyJoin"), getPendingClient(h, c)
               PROVE  /\ DenyJoin(h, c) => Answered(h)
                      /\ \A dump : ApproveJoin(h, c, dump) => Answered(h)
    BY DEF DenyJoin, ApproveJoin
  <1> DEFINE w == fsm[h].board
  <1>1. /\ w \in Boards /\ fsm[h] = HostOf(w) /\ fsm[c] = PendingOn(w) /\ socket[h] = "open"
        /\ ~Undecidable(h, c)
    BY Decidable DEF getPendingClient, Dispatch
  <1>2. h # c
    BY <1>1 DEF HostOf, PendingOn
  <1>3. /\ <<Success>> \in Seq(ProperMessage) /\ Once(<<Success>>)
        /\ <<>> \in Seq(ProperMessage) /\ Silent(<<>>)
    <2>1. Success \in ProperMessage /\ Success.re
      BY PlainIsProper DEF Success, Plain
    <2>2. QED
      BY <2>1, OneIsSeq, OnePart, EmptyParts, EmptySeq
  <1>4. ASSUME DenyJoin(h, c) PROVE Answered(h)
    <2>1. /\ UNCHANGED socket
          /\ Emit(h, Only(c, <<Plain("joinDenied", FALSE)>>) ++ Only(h, <<Success>>))
      BY <1>1, <1>4 DEF DenyJoin
    <2> DEFINE msgs == Only(c, <<Plain("joinDenied", FALSE)>>) ++ Only(h, <<Success>>)
    <2>2. msgs[h] = <<>> \o <<Success>>
      BY <1>2 DEF ++, Only
    <2> HIDE DEF msgs
    <2>3. requester' = h /\ out'[h] = msgs[h]
      BY <1>1, <2>1, EmitAt DEF msgs
    <2>4. QED
      BY <1>3, <2>2, <2>3, SilentThenOnce DEF Answered
  <1>5. ASSUME NEW dump, ApproveJoin(h, c, dump) PROVE Answered(h)
    <2>1. /\ UNCHANGED socket
          /\ Emit(h, Only(c, <<Plain("joinApproved", FALSE)>>) ++ CurrentClientList(w)
                       ++ Only(c, dump) ++ Only(h, <<Success>>))
      BY <1>1, <1>5 DEF ApproveJoin, Admit
    <2> DEFINE list == CurrentClientList(w)[h]
               msgs == Only(c, <<Plain("joinApproved", FALSE)>>) ++ CurrentClientList(w)
                         ++ Only(c, dump) ++ Only(h, <<Success>>)
    <2>2. msgs[h] = ((<<>> \o list) \o <<>>) \o <<Success>>
      BY <1>2 DEF ++, Only
    <2>3. list \in Seq(ProperMessage) /\ Silent(list)
      BY <1>1, ListPart DEF Books
    <2> HIDE DEF list, msgs
    <2>4. (<<>> \o list) \o <<>> = list
      BY <2>3, ConcatEmptySeq
    <2>5. requester' = h /\ out'[h] = msgs[h]
      BY <1>1, <2>1, EmitAt DEF msgs
    <2>6. QED
      BY <1>3, <2>2, <2>3, <2>4, <2>5, SilentThenOnce DEF Answered
  <1>6. QED
    BY <1>4, <1>5
(* A client that leaves is answered by success, a host that leaves by the  *)
(* whiteboardSessionEnded that everybody gets: it is a member, once.       *)
LEMMA LeavingAnswers ==
  ASSUME Books, Books', NEW c \in Clients, LeaveWhiteboard(c)
  PROVE  Answered(c)
  <1> DEFINE w == fsm[c].board
  <1>1. socket'[c] = "open"
    BY DEF LeaveWhiteboard, Dispatch
  <1>2. CASE DetachClient(c, c)
    <2>1. w \in Boards /\ Emit(c, CurrentClientList(w) ++ Only(c, <<Plain("success", c = c)>>))
      BY <1>2, DetachesUser DEF DetachClient
    <2> DEFINE list == CurrentClientList(w)[c]
               last == <<Plain("success", c = c)>>
               msgs == CurrentClientList(w) ++ Only(c, last)
    <2>2. msgs[c] = list \o last
      BY DEF ++, Only
    <2>3. list \in Seq(ProperMessage) /\ Silent(list)
      BY <2>1, ListPart DEF Books
    <2>4. last \in Seq(ProperMessage) /\ Once(last)
      <3>1. Plain("success", c = c) \in ProperMessage
        BY PlainIsProper
      <3>2. Plain("success", c = c).re
        BY DEF Plain
      <3>3. QED
        BY <3>1, <3>2, OneIsSeq, OnePart
    <2> HIDE DEF list, last, msgs
    <2>5. requester' = c /\ out'[c] = msgs[c]
      BY <1>1, <2>1, EmitAt DEF msgs, last
    <2>6. QED
      BY <2>2, <2>3, <2>4, <2>5, SilentThenOnce DEF Answered
  <1>3. CASE EndSession(c, c)
    <2>1. /\ w \in Boards /\ ~ended[w] /\ fsm[c] = HostOf(w)
          /\ Emit(c, ToAll(clients[w], SessionEnded(c, c)))
      BY <1>3, EndsOnce DEF EndSession
    <2>2. clients[w][c] = 1 /\ clients[w] \in [Clients -> Nat]
      BY <2>1 DEF Books, StateTypes, MembershipAgrees, InBoard
    <2>3. SessionEnded(c, c).re
      BY DEF SessionEnded, Plain
    <2>4. requester' = c /\ out'[c] = ToAll(clients[w], SessionEnded(c, c))[c]
      BY <1>1, <2>1, EmitAt
    <2>5. QED
      BY <2>2, <2>3, <2>4, PartForAll DEF Answered
  <1>4. QED
    BY <1>2, <1>3 DEF LeaveWhiteboard

LEMMA CreateAnswers ==
  ASSUME Books, Books', NEW c \in Clients, NEW w \in Boards, CreateWhiteboard(c, w)
  PROVE  Answered(c)
  <1> DEFINE list  == CurrentClientList(w)[c]
             first == <<WhiteboardCreated(w)>>
             msgs  == Only(c, first) ++ CurrentClientList(w)
  <1>1. socket'[c] = "open" /\ Emit(c, msgs)
    BY DEF CreateWhiteboard, Hosting, addWhiteboard, Dispatch
  <1>2. msgs[c] = first \o list
    BY DEF ++, Only
  <1>3. list \in Seq(ProperMessage) /\ Silent(list)
    BY ListPart DEF Books
  <1>4. first \in Seq(ProperMessage) /\ Once(first)
    <2>1. WhiteboardCreated(w).re
      BY DEF WhiteboardCreated
    <2>2. QED
      BY <2>1, CreatedIsProper, OneIsSeq, OnePart
  <1> HIDE DEF list, first, msgs
  <1>5. requester' = c /\ out'[c] = msgs[c]
    BY <1>1, EmitAt
  <1>6. QED
    BY <1>2, <1>3, <1>4, <1>5, OnceThenSilent DEF Answered

LEMMA JoinAnswers ==
  ASSUME Books, NEW c \in Clients, NEW w \in Boards, JoinWhiteboard(c, w)
  PROVE  Answered(c)
  <1>1. CASE w \notin whiteboards
    BY <1>1, RefusalAnswers DEF JoinWhiteboard, Applying, WithApplicant, Dispatch
  <1>2. CASE w \in whiteboards
    <2> DEFINE news == (IF ended[w]
                        THEN Only(c, <<Error("WHITEBOARD_DOES_NOT_EXIST", FALSE)>>)
                        ELSE Only(host[w], <<WantsToJoin(c)>>))
               last == <<Success>>
               msgs == news ++ Only(c, last)
    <2>1. socket'[c] = "open" /\ Emit(c, msgs)
      BY <1>2 DEF JoinWhiteboard, Applying, WithApplicant, Dispatch
    <2>2. news[c] \in Seq(ProperMessage) /\ Silent(news[c])
      <3>1. /\ <<Error("WHITEBOARD_DOES_NOT_EXIST", FALSE)>> \in Seq(ProperMessage)
            /\ <<WantsToJoin(c)>> \in Seq(ProperMessage) /\ <<>> \in Seq(ProperMessage)
        BY ErrorIsProper, WantsIsProper, OneIsSeq, EmptySeq DEF ErrorReason
      <3>2. /\ ~Error("WHITEBOARD_DOES_NOT_EXIST", FALSE).re /\ ~WantsToJoin(c).re
        BY DEF Error, WantsToJoin
      <3>3. \/ news[c] = <<Error("WHITEBOARD_DOES_NOT_EXIST", FALSE)>>
            \/ news[c] = <<WantsToJoin(c)>>
            \/ news[c] = <<>>
        BY DEF Only
      <3> HIDE DEF news
      <3>4. /\ Silent(<<Error("WHITEBOARD_DOES_NOT_EXIST", FALSE)>>)
            /\ Silent(<<WantsToJoin(c)>>)
        BY <3>2, OnePart
      <3>5. QED
        BY <3>1, <3>3, <3>4, EmptyParts
    <2>3. last \in Seq(ProperMessage) /\ Once(last)
      <3>1. Success \in ProperMessage /\ Success.re
        BY PlainIsProper DEF Success, Plain
      <3>2. QED
        BY <3>1, OneIsSeq, OnePart
    <2> HIDE DEF news, last
    <2>4. msgs[c] = news[c] \o last
      BY DEF ++, Only
    <2> HIDE DEF msgs
    <2>5. requester' = c /\ out'[c] = msgs[c]
      BY <2>1, EmitAt
    <2>6. QED
      BY <2>2, <2>3, <2>4, <2>5, SilentThenOnce DEF Answered
  <1>3. QED
    BY <1>1, <1>2

(* A step of the session layer handles no message, or answers it.          *)
LEMMA PlainStepAnswers ==
  ASSUME Books, Books', NEW c \in Clients, PlainStep(c)
  PROVE  requester' = NoClient \/ Answered(c)
  <1>1. CASE RegisterClient(c)
    BY <1>1 DEF RegisterClient, Emit
  <1>2. CASE \E case \in ClientToServerCase : NotAllowed(c, case)
    BY <1>2, RefusalAnswers DEF NotAllowed
  <1>3. CASE ClientHello(c)
    <2>1. socket'[c] = "open" /\ Emit(c, Only(c, <<Success>>)) /\ Success.re
      BY <1>3 DEF ClientHello, Named, Dispatch, Success, Plain
    <2>2. QED
      BY <2>1, OneMessageAnswers
  <1>4. CASE \E w \in Boards : CreateWhiteboard(c, w)
    BY <1>4, CreateAnswers
  <1>5. CASE \E w \in Boards : JoinWhiteboard(c, w)
    BY <1>5, JoinAnswers
  <1>6. CASE \E x \in Clients : NoSuchApplicant(c, x)
    BY <1>6, RefusalAnswers DEF NoSuchApplicant, getPendingClient, Dispatch
  <1>7. CASE \E x \in Clients : DenyJoin(c, x)
    BY <1>7, DecisionsAnswer
  <1>8. CASE LeaveWhiteboard(c)
    BY <1>8, LeavingAnswers
  <1>9. CASE CloseSocket(c)
    <2>1. ASSUME NEW msgs, Emit(NoClient, msgs) PROVE requester' = NoClient
      BY <2>1 DEF Emit
    <2>2. DetachClient(c, NoClient) => requester' = NoClient
      BY <2>1 DEF DetachClient
    <2>3. EndSession(c, NoClient) => requester' = NoClient
      BY <2>1 DEF EndSession
    <2>4. QED
      BY <1>9, <2>1, <2>2, <2>3 DEF CloseSocket
  <1>10. QED
    BY <1>1, <1>2, <1>3, <1>4, <1>5, <1>6, <1>7, <1>8, <1>9 DEF PlainStep

(* Every message of the session layer is answered, exactly once, by the    *)
(* step that handles it.                                                   *)
THEOREM EveryMessageIsAnswered == Spec => []OneAnswer
  <1> DEFINE Last == requester # NoClient => Once(out[requester])
  <1>1. Init => Last
    BY DEF Init
  <1>2. Books /\ Books' /\ Last /\ [Next]_sessionVars => Last'
    <2> SUFFICES ASSUME Books, Books', Last, [Next]_sessionVars PROVE Last'
      OBVIOUS
    <2>1. CASE UNCHANGED sessionVars
      BY <2>1 DEF sessionVars, Once
    <2>2. ASSUME NEW c \in Clients, PlainStep(c) PROVE Last'
      <3>1. requester' = NoClient \/ (requester' = c /\ Once(out'[c]))
        BY <2>2, PlainStepAnswers DEF Answered
      <3>2. QED
        BY <3>1 DEF Once
    <2>3. ASSUME NEW c \in Clients, NEW x \in Clients, ApproveJoin(c, x, <<>>) PROVE Last'
      <3>1. requester' = c /\ Once(out'[c])
        BY <2>3, DecisionsAnswer DEF Answered
      <3>2. QED
        BY <3>1 DEF Once
    <2>4. QED
      BY <2>1, <2>2, <2>3 DEF Next
  <1>3. Last <=> OneAnswer
    BY DEF Once, OneAnswer
  <1>4. QED
    BY <1>1, <1>2, <1>3, BooksAreRight, PTL DEF Spec
-----------------------------------------------------------------------------
(* The members of a whiteboard know its list of members.                   *)

TheirList(b) == UserList(clients'[b], pastUsers'[b])

Told(b) ==
  (clients'[b] # clients[b] \/ pastUsers'[b] # pastUsers[b]) =>
    \A x \in Clients : clients'[b][x] > 0 /\ socket'[x] = "open" =>
      LastList(out'[x], TheirList(b))

LEMMA NothingToTell ==
  ASSUME NEW b \in Boards, UNCHANGED <<clients[b], pastUsers[b]>>
  PROVE  Told(b)
  BY DEF Told

(* The list is the last one of everybody who gets before and after around  *)
(* it, when there is no list in after.                                     *)
LEMMA ListTells ==
  ASSUME Books', NEW w \in Boards,
         \A b \in Boards \ {w} : UNCHANGED <<clients[b], pastUsers[b]>>,
         NEW before \in Mail, NEW after \in Mail, \A x \in Clients : NoList(after[x]),
         NEW c, Emit(c, before ++ CurrentClientList(w) ++ after)
  PROVE  \A b \in Boards : Told(b)
  <1> SUFFICES ASSUME NEW x \in Clients, clients'[w][x] > 0, socket'[x] = "open"
               PROVE  LastList(out'[x], TheirList(w))
    BY NothingToTell DEF Told
  <1> DEFINE list == CurrentClientList(w)[x]
             all  == before ++ CurrentClientList(w) ++ after
  <1>1. all[x] = (before[x] \o list) \o after[x]
    BY DEF ++
  <1>2. list \in Seq(ProperMessage) /\ LastList(list, TheirList(w))
    BY ListPart DEF Books, TheirList
  <1>3. before[x] \in Seq(ProperMessage) /\ after[x] \in Seq(ProperMessage)
    BY DEF Mail
  <1> HIDE DEF list, all
  <1>4. out'[x] = all[x]
    BY EmitAt DEF all
  <1>5. before[x] \o list \in Seq(ProperMessage) /\ LastList(before[x] \o list, TheirList(w))
    BY <1>2, <1>3, ConcatProperties, ListAfterAnything
  <1>6. QED
    BY <1>1, <1>3, <1>4, <1>5, ListThenNone

LEMMA EmptyMail ==
  ASSUME NEW c
  PROVE  Only(c, <<>>) \in Mail /\ \A x \in Clients : NoList(Only(c, <<>>)[x])
  <1>1. <<>> \in Seq(ProperMessage)
    BY EmptySeq
  <1>2. QED
    BY <1>1, OnlyIsMail, OnlyAt, EmptyParts

LEMMA PlusEmpty ==
  ASSUME NEW f \in Mail, NEW c
  PROVE  f ++ Only(c, <<>>) = f /\ Only(c, <<>>) ++ f = f
  <1>1. \A x \in Clients : f[x] \o <<>> = f[x] /\ <<>> \o f[x] = f[x]
    BY ConcatEmptySeq DEF Mail
  <1>2. QED
    BY <1>1 DEF ++, Only, Mail

LEMMA CreateTells ==
  ASSUME Books, Books', NEW c \in Clients, NEW w \in Boards, CreateWhiteboard(c, w)
  PROVE  \A b \in Boards : Told(b)
  <1> DEFINE before == Only(c, <<WhiteboardCreated(w)>>)
             after  == Only(c, <<>>)
             list   == CurrentClientList(w)
  <1>1. /\ \A b \in Boards \ {w} : UNCHANGED <<clients[b], pastUsers[b]>>
        /\ Emit(c, before ++ list)
    BY DEF CreateWhiteboard, Hosting, addWhiteboard, Books, StateTypes
  <1>2. before \in Mail /\ list \in Mail
    BY CreatedIsProper, OneIsSeq, OnlyIsMail, ListIsMail DEF Books
  <1>3. after \in Mail /\ \A x \in Clients : NoList(after[x])
    BY EmptyMail
  <1> HIDE DEF before, list
  <1>4. (before ++ list) ++ after = before ++ list
    BY <1>2, PlusIsMail, PlusEmpty
  <1> HIDE DEF after
  <1>5. Emit(c, before ++ list ++ after)
    BY <1>1, <1>4
  <1>6. QED
    BY <1>1, <1>2, <1>3, <1>5, ListTells DEF list

LEMMA DetachTells ==
  ASSUME Books, Books', NEW c \in Clients, NEW from \in Clients \cup {NoClient},
         DetachClient(c, from)
  PROVE  \A b \in Boards : Told(b)
  <1> DEFINE w      == fsm[c].board
             before == Only(c, <<>>)
             after  == Only(c, <<Plain("success", from = c)>>)
             list   == CurrentClientList(w)
  <1>1. /\ w \in Boards /\ \A b \in Boards \ {w} : UNCHANGED <<clients[b], pastUsers[b]>>
        /\ Emit(from, list ++ after)
    BY DetachesUser DEF DetachClient
  <1>2. before \in Mail /\ list \in Mail
    BY <1>1, EmptyMail, ListIsMail DEF Books
  <1>3. after \in Mail /\ \A x \in Clients : NoList(after[x])
    <2> DEFINE last == <<Plain("success", from = c)>>
    <2>1. last \in Seq(ProperMessage) /\ NoList(last)
      <3>1. Plain("success", from = c) \in ProperMessage
        BY PlainIsProper
      <3>2. Plain("success", from = c).type # "userListChanged"
        BY DEF Plain
      <3>3. QED
        BY <3>1, <3>2, OneIsSeq, OnePart
    <2> HIDE DEF last
    <2>2. Only(c, last) \in Mail /\ \A x \in Clients : NoList(Only(c, last)[x])
      BY <2>1, OnlyIsMail, OnlyAt, EmptyParts
    <2>3. QED
      BY <2>2 DEF last
  <1> HIDE DEF list, after
  <1>4. before ++ list = list
    BY <1>2, PlusEmpty
  <1> HIDE DEF before
  <1>5. Emit(from, before ++ list ++ after)
    BY <1>1, <1>4
  <1>6. QED
    BY <1>1, <1>2, <1>3, <1>5, ListTells DEF list

(* The newcomer hears of the figures after the list.                       *)
LEMMA ApproveTells ==
  ASSUME Books, Books', NEW h \in Clients, NEW c \in Clients,
         NEW dump \in Seq(ProperMessage), NoList(dump), ApproveJoin(h, c, dump)
  PROVE  \A b \in Boards : Told(b)
  <1> DEFINE w      == fsm[h].board
             before == Only(c, <<Plain("joinApproved", FALSE)>>)
             list   == CurrentClientList(w)
             figs   == Only(c, dump)
             last   == Only(h, <<Success>>)
             after  == figs ++ last
  <1>1. w \in Boards /\ Admit(h, c, dump)
    BY Decidable DEF ApproveJoin, getPendingClient
  <1>2. /\ \A b \in Boards \ {w} : UNCHANGED <<clients[b], pastUsers[b]>>
        /\ Emit(h, before ++ list ++ figs ++ last)
    BY <1>1 DEF Admit, Using, Joined, Books, StateTypes
  <1>3. /\ before \in Mail /\ list \in Mail /\ figs \in Mail /\ last \in Mail
        /\ \A x \in Clients : NoList(figs[x]) /\ NoList(last[x])
    <2>1. /\ Plain("joinApproved", FALSE) \in ProperMessage
          /\ Success \in ProperMessage /\ Success.type # "userListChanged"
      BY PlainIsProper DEF Success, Plain
    <2>2. /\ <<Plain("joinApproved", FALSE)>> \in Seq(ProperMessage)
          /\ <<Success>> \in Seq(ProperMessage) /\ NoList(<<Success>>)
      BY <2>1, OneIsSeq, OnePart
    <2>3. list \in Mail
      BY <1>1, ListIsMail DEF Books
    <2>4. before \in Mail /\ figs \in Mail /\ last \in Mail
      BY <2>2, OnlyIsMail
    <2>5. QED
      BY <2>2, <2>3, <2>4, EmptyParts, OnlyAt
  <1> HIDE DEF before, list, figs, last
  <1>4. after \in Mail
    BY <1>3, PlusIsMail
  <1>5. \A x \in Clients : NoList(after[x])
    <2> SUFFICES ASSUME NEW x \in Clients PROVE NoList(after[x])
      OBVIOUS
    <2>1. after[x] = figs[x] \o last[x]
      BY PlusAt
    <2>2. figs[x] \in Seq(ProperMessage) /\ last[x] \in Seq(ProperMessage)
      BY <1>3 DEF Mail
    <2>3. QED
      BY <1>3, <2>1, <2>2, NoneThenNone
  <1>6. before ++ list ++ figs ++ last = before ++ list ++ after
    <2> SUFFICES ASSUME NEW x \in Clients
                 PROVE  ((before[x] \o list[x]) \o figs[x]) \o last[x]
                          = (before[x] \o list[x]) \o (figs[x] \o last[x])
      BY DEF ++
    <2> DEFINE head == before[x] \o list[x]
    <2>1. /\ before[x] \in Seq(ProperMessage) /\ list[x] \in Seq(ProperMessage)
          /\ figs[x] \in Seq(ProperMessage) /\ last[x] \in Seq(ProperMessage)
      BY <1>3 DEF Mail
    <2>2. head \in Seq(ProperMessage)
      BY <2>1, ConcatProperties
    <2> HIDE DEF head
    <2>3. (head \o figs[x]) \o last[x] = head \o (figs[x] \o last[x])
      <3> DEFINE f == figs[x]
                 l == last[x]
      <3>1. f \in Seq(ProperMessage) /\ l \in Seq(ProperMessage)
        BY <2>1
      <3> HIDE DEF f, l
      <3>2. (head \o f) \o l = head \o (f \o l)
        BY <2>2, <3>1, ConcatAssociative
      <3>3. QED
        BY <3>2 DEF f, l
    <2>4. QED
      BY <2>3 DEF head
  <1> HIDE DEF after
  <1>7. Emit(h, before ++ list ++ after)
    BY <1>2, <1>6
  <1>8. QED
    BY <1>1, <1>2, <1>3, <1>4, <1>5, <1>7, ListTells DEF list

LEMMA PlainStepTells ==
  ASSUME Books, Books', NEW c \in Clients, PlainStep(c)
  PROVE  \A b \in Boards : Told(b)
  <1> DEFINE AllTold == \A b \in Boards : Told(b)
  <1>1. ASSUME UNCHANGED <<clients, pastUsers>> PROVE AllTold
    BY <1>1 DEF Told
  <1>0. ASSUME NEW from \in Clients \cup {NoClient}, DetachClient(c, from) PROVE AllTold
    BY <1>0, DetachTells
  <1> SUFFICES AllTold
    OBVIOUS
  <1>2. CASE RegisterClient(c) \/ ClientHello(c)
            \/ (\E case \in ClientToServerCase : NotAllowed(c, case))
            \/ \E x \in Clients : NoSuchApplicant(c, x)
    BY <1>1, <1>2 DEF RegisterClient, NotAllowed, ClientHello, NoSuchApplicant, Answer,
                       boardVars
  <1>3. CASE \E w \in Boards : CreateWhiteboard(c, w)
    BY <1>3, CreateTells
  <1> HIDE DEF AllTold
  <1>4. CASE \E w \in Boards : JoinWhiteboard(c, w)
    BY <1>1, <1>4 DEF JoinWhiteboard, Applying, WithApplicant, Answer, boardVars
  <1>5. CASE \E x \in Clients : DenyJoin(c, x)
    BY <1>1, <1>5, Decidable DEF DenyJoin, getPendingClient
  <1>6. CASE LeaveWhiteboard(c) \/ CloseSocket(c)
    BY <1>0, <1>1, <1>6, EndsOnce DEF LeaveWhiteboard, CloseSocket, boardVars
  <1>7. QED
    BY <1>2, <1>3, <1>4, <1>5, <1>6 DEF PlainStep

(* Whoever is in a whiteboard whose members changed is told in that step,  *)
(* and is told nothing older afterwards.                                   *)
THEOREM MembersAreAlwaysTold == Spec => RosterAnnounced
  <1>1. Books /\ Books' /\ [Next]_sessionVars => [\A b \in Boards : Told(b)]_sessionVars
    <2> SUFFICES ASSUME Books, Books', Next PROVE \A b \in Boards : Told(b)
      BY DEF sessionVars
    <2>1. <<>> \in Seq(ProperMessage) /\ NoList(<<>>)
      BY EmptySeq, EmptyParts
    <2>2. QED
      BY <2>1, ApproveTells, PlainStepTells DEF Next
  <1>2. [\A b \in Boards : Told(b)]_sessionVars =>
          [\A b \in Boards :
             (clients'[b] # clients[b] \/ pastUsers'[b] # pastUsers[b]) =>
               \A x \in Clients : clients'[b][x] > 0 /\ socket'[x] = "open" =>
                 \E i \in DOMAIN out'[x] :
                   /\ out'[x][i] = UserList(clients'[b], pastUsers'[b])
                   /\ \A j \in DOMAIN out'[x] :
                        j > i => out'[x][j].type # "userListChanged"]_sessionVars
    BY DEF Told, LastList, TheirList
  <1>3. QED
    BY <1>1, <1>2, BooksAreRight, PTL DEF Spec, RosterAnnounced
=============================================================================
