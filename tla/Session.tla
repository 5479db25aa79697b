------------------------------- MODULE Session -------------------------------
(***************************************************************************)
(* The session layer of the backend: what a ClientConnection may do in     *)
(* each of its states, and the membership bookkeeping of the whiteboards:  *)
(* who hosts, who takes part, who has left, who waits for approval.        *)
(*                                                                         *)
(* The server is one node process.  A handler never awaits, so every       *)
(* handler is one action; its actors interleave between handlers.  A       *)
(* member of Clients is one ClientConnection: a browser that reconnects is *)
(* another member.  What stays out of the state is data: a user name is a  *)
(* constant of its connection.                                             *)
(*                                                                         *)
(* out[c] is the sequence of messages the last step handed to the socket   *)
(* of c, and requester the client whose message that step handled.  Every  *)
(* causedBy that the server sends names the message being handled, hence   *)
(* the Boolean re of a message: "is a response to it".                     *)
(***************************************************************************)
EXTENDS Naturals, Sequences, FiniteSets

CONSTANTS Clients,    \* the connections
          Boards,     \* the UUIDs that whiteboards may get
          NoBoard,    \* a connection that is in no whiteboard
          NoClient    \* the host of a whiteboard not created yet

ASSUME SessionAssumption == NoBoard \notin Boards /\ NoClient \notin Clients

VARIABLES
  socket,          \* "new", "open" or "closed": the web socket of a client
  fsm,             \* ClientConnection._fsm
  host,            \* Whiteboard.host
  clients,         \* Whiteboard.clients: how often a client is in the array
  pastUsers,       \* Whiteboard.pastUsers
  pendingClients,  \* Whiteboard.pendingClients, its keys
  ended,           \* Whiteboard.ended
  whiteboards,     \* the registry of joinable whiteboards, its keys
  requester, out   \* what the last step answered and sent

boardVars   == <<host, clients, pastUsers, pendingClients, ended, whiteboards>>
sessionVars == <<socket, fsm, boardVars, requester, out>>
-----------------------------------------------------------------------------
(* The state of a connection, and the messages it may send in that state.  *)

Anonymous    == [state |-> "ANONYMOUS",        board |-> NoBoard]
NoWhiteboard == [state |-> "NO_WHITEBOARD",    board |-> NoBoard]
PendingOn(b) == [state |-> "PENDING_APPROVAL", board |-> b]
UserOf(b)    == [state |-> "USER",             board |-> b]
HostOf(b)    == [state |-> "HOST",             board |-> b]

ClientFSM == {Anonymous, NoWhiteboard}
               \cup {PendingOn(b) : b \in Boards}
               \cup {UserOf(b) : b \in Boards} \cup {HostOf(b) : b \in Boards}

FigureMessages ==
  {"createNote", "deleteNote", "createLine", "addPointsToLine",
   "removePointsFromLine", "deleteLine", "updateNotePosition",
   "updateNoteText", "createImage"}

ClientToServerCase ==
  FigureMessages \cup {"clientHello", "createWhiteboardRequest",
                       "joinWhiteboard", "approveOrDenyJoin", "leaveWhiteboard"}

(* Mutant: what only the host may send is among the common messages.       *)
ALLOWED_MESSAGES_EveryoneDecides ==
  [ANONYMOUS        |-> {"clientHello"},
   NO_WHITEBOARD    |-> {"joinWhiteboard", "createWhiteboardRequest"},
   PENDING_APPROVAL |-> {},
   USER             |-> FigureMessages \cup {"leaveWhiteboard", "approveOrDenyJoin"},
   HOST             |-> FigureMessages \cup {"leaveWhiteboard", "approveOrDenyJoin"}]

(* Mutant: a client that waits for approval may draw already.              *)
ALLOWED_MESSAGES_ApplicantsDraw ==
  [ANONYMOUS        |-> {"clientHello"},
   NO_WHITEBOARD    |-> {"joinWhiteboard", "createWhiteboardRequest"},
   PENDING_APPROVAL |-> FigureMessages,
   USER             |-> FigureMessages \cup {"leaveWhiteboard"},
   HOST             |-> FigureMessages \cup {"leaveWhiteboard", "approveOrDenyJoin"}]

ALLOWED_MESSAGES ==
  [ANONYMOUS        |-> {"clientHello"},
   NO_WHITEBOARD    |-> {"joinWhiteboard", "createWhiteboardRequest"},
   PENDING_APPROVAL |-> {},
   USER             |-> FigureMessages \cup {"leaveWhiteboard"},
   HOST             |-> FigureMessages \cup {"leaveWhiteboard", "approveOrDenyJoin"}]

(* A connection is in no whiteboard again: its whole state is replaced.    *)
(* Mutant: only the name of the state is.                                  *)
BackToNoWhiteboard_StateOnly(c) == [fsm EXCEPT ![c].state = "NO_WHITEBOARD"]
BackToNoWhiteboard(c)           == [fsm EXCEPT ![c] = NoWhiteboard]

(* What setUsername, requestJoinWhiteboard, joinWhiteboard and becomeHost  *)
(* make of the state of c.                                                 *)
Named(c)       == [fsm EXCEPT ![c] = NoWhiteboard]
Applying(c, b) == [fsm EXCEPT ![c] = PendingOn(b)]
Using(c, b)    == [fsm EXCEPT ![c] = UserOf(b)]
Hosting(c, b)  == [fsm EXCEPT ![c] = HostOf(b)]

(* c is in the state USER or HOST of whiteboard b.                         *)
InBoard(c, b) == fsm[c] \in {UserOf(b), HostOf(b)}
-----------------------------------------------------------------------------
(* Messages to the clients.                                                *)

ErrorReason ==
  {"OPERATION_NOT_ALLOWED", "WHITEBOARD_DOES_NOT_EXIST",
   "COORDINATES_OUT_OF_BOUNDS", "FIGURE_NOT_EXISTS", "ID_CONFLICT",
   "INTERNAL_SERVER_ERROR", "INVALID_MESSAGE", "USER_DOES_NOT_EXIST"}

Plain(type, re)     == [type |-> type, re |-> re]
Success             == Plain("success", TRUE)
Error(reason, re)   == [type |-> "error", reason |-> reason, re |-> re]
WhiteboardCreated(b) == [type |-> "whiteboardCreated", board |-> b, re |-> TRUE]
WantsToJoin(c)      == [type |-> "clientWantsToJoin", client |-> c, re |-> FALSE]
UserList(list, past) ==
  [type |-> "userListChanged", re |-> FALSE,
   present |-> {x \in Clients : list[x] > 0}, past |-> past]

SessionMessage ==
  [type : {"success", "joinApproved", "joinDenied", "whiteboardSessionEnded"},
   re : BOOLEAN]
    \cup [type : {"whiteboardCreated"}, board : Boards, re : {TRUE}]
    \cup [type : {"error"}, reason : ErrorReason, re : BOOLEAN]
    \cup [type : {"clientWantsToJoin"}, client : Clients, re : {FALSE}]
    \cup [type : {"userListChanged"}, re : {FALSE},
          present : SUBSET Clients, past : SUBSET Clients]

(* Messages for one client, and sendToClients: one copy for each time a    *)
(* client is in the array.                                                 *)
Only(c, msgs)  == [x \in Clients |-> IF x = c THEN msgs ELSE <<>>]
ToAll(list, m) == [x \in Clients |-> [i \in 1..list[x] |-> m]]
f ++ g         == [x \in Clients |-> f[x] \o g[x]]

(* sendCurrentClientList, after the members of b have changed.             *)
(* Mutant: before.                                                         *)
CurrentClientList_Before(b) == ToAll(clients[b], UserList(clients[b], pastUsers[b]))
CurrentClientList(b) == ToAll(clients'[b], UserList(clients'[b], pastUsers'[b]))

(* The step handles a message of c and sends msgs; a socket that is closed *)
(* swallows what is sent to it.                                            *)
Emit(c, msgs) ==
  /\ requester' = c
  /\ out' = [x \in Clients |-> IF socket'[x] = "open" THEN msgs[x] ELSE <<>>]

(* The handler only answers its client.                                    *)
Answer(c, m) ==
  /\ UNCHANGED <<socket, fsm, boardVars>>
  /\ Emit(c, Only(c, <<m>>))

(* dispatch caught an exception before anything was changed.               *)
Throws(c) == Answer(c, Error("INTERNAL_SERVER_ERROR", TRUE))

Dispatch(c, case) ==
  /\ socket[c] = "open"
  /\ case \in ALLOWED_MESSAGES[fsm[c].state]
-----------------------------------------------------------------------------
Init ==
  /\ socket         = [c \in Clients |-> "new"]
  /\ fsm            = [c \in Clients |-> Anonymous]
  /\ host           = [b \in Boards  |-> NoClient]
  /\ clients        = [b \in Boards  |-> [c \in Clients |-> 0]]
  /\ pastUsers      = [b \in Boards  |-> {}]
  /\ pendingClients = [b \in Boards  |-> {}]
  /\ ended          = [b \in Boards  |-> FALSE]
  /\ whiteboards    = {}
  /\ requester      = NoClient
  /\ out            = [c \in Clients |-> <<>>]

(* A web socket connects and gets its ClientConnection.                    *)
RegisterClient(c) ==
  /\ socket[c] = "new"
  /\ socket' = [socket EXCEPT ![c] = "open"]
  /\ UNCHANGED <<fsm, boardVars>>
  /\ Emit(NoClient, Only(c, <<>>))

(* A message that the state of its sender does not allow.                  *)
NotAllowed(c, case) ==
  /\ socket[c] = "open"
  /\ case \notin ALLOWED_MESSAGES[fsm[c].state]
  /\ Answer(c, Error("OPERATION_NOT_ALLOWED", TRUE))

ClientHello(c) ==
  /\ Dispatch(c, "clientHello")
  /\ fsm' = Named(c)
  /\ UNCHANGED <<socket, boardVars>>
  /\ Emit(c, Only(c, <<Success>>))

addWhiteboard(b) == whiteboards \cup {b}

(* uuidv4 names a whiteboard never seen.                                   *)
CreateWhiteboard(c, b) ==
  /\ Dispatch(c, "createWhiteboardRequest")
  /\ host[b] = NoClient
  /\ fsm'         = Hosting(c, b)
  /\ host'        = [host EXCEPT ![b] = c]
  /\ clients'     = [clients EXCEPT ![b] = [x \in Clients |-> IF x = c THEN 1 ELSE 0]]
  /\ whiteboards' = addWhiteboard(b)
  /\ UNCHANGED <<socket, pastUsers, pendingClients, ended>>
  /\ Emit(c, Only(c, <<WhiteboardCreated(b)>>)
               ++ CurrentClientList(b))

(* The operation ADD_PENDING_CLIENT, which an ended whiteboard refuses.    *)
WithApplicant(b, c) ==
  IF ended[b] THEN pendingClients ELSE [pendingClients EXCEPT ![b] = @ \cup {c}]

(* A UUID of no whiteboard is refused.                                     *)
JoinWhiteboard(c, b) ==
  /\ Dispatch(c, "joinWhiteboard")
  /\ \/ /\ b \notin whiteboards
        /\ Answer(c, Error("WHITEBOARD_DOES_NOT_EXIST", TRUE))
     \/ /\ b \in whiteboards
        /\ fsm' = Applying(c, b)
        /\ pendingClients' = WithApplicant(b, c)
        /\ UNCHANGED <<socket, host, clients, pastUsers, ended, whiteboards>>
        /\ Emit(c, (IF ended[b] THEN Only(c, <<Error("WHITEBOARD_DOES_NOT_EXIST", FALSE)>>)
                                ELSE Only(host[b], <<WantsToJoin(c)>>))
                     ++ Only(c, <<Success>>))
-----------------------------------------------------------------------------
(* The host decides about the client c, which it knows by its id only.     *)

getPendingClient(h, c) == c \in pendingClients[fsm[h].board]

NoSuchApplicant(h, c) ==
  /\ Dispatch(h, "approveOrDenyJoin")
  /\ ~getPendingClient(h, c)
  /\ Answer(h, Error("USER_DOES_NOT_EXIST", TRUE))

(* pendingClients.delete.  Mutant: forgotten.                              *)
NoLongerPending_Kept(b, c) == pendingClients
NoLongerPending(b, c) == [pendingClients EXCEPT ![b] = @ \ {c}]

(* The operations APPROVE_ and DENY_PENDING_CLIENT refuse a whiteboard     *)
(* that ended and throw on a client that is not pending.                   *)
Undecidable(h, c) ==
  ended[fsm[h].board] \/ fsm[c].state # "PENDING_APPROVAL"

RefuseDecision(h) ==
  IF ended[fsm[h].board]
  THEN /\ UNCHANGED <<socket, fsm, boardVars>>
       /\ Emit(h, Only(h, <<Error("WHITEBOARD_DOES_NOT_EXIST", FALSE), Success>>))
  ELSE Throws(h)

Joined(b, c) == [clients EXCEPT ![b][c] = @ + 1]

(* The new member hears joinApproved, the list of members, and then dump,  *)
(* the figures that bootstrapClient sends.                                 *)
Admit(h, c, dump) ==
  LET b == fsm[h].board
  IN  /\ pendingClients' = NoLongerPending(b, c)
      /\ clients' = Joined(b, c)
      /\ fsm'     = Using(c, b)
      /\ UNCHANGED <<socket, host, pastUsers, ended, whiteboards>>
      /\ Emit(h, Only(c, <<Plain("joinApproved", FALSE)>>)
                   ++ CurrentClientList(b)
                   ++ Only(c, dump)
                   ++ Only(h, <<Success>>))

ApproveJoin(h, c, dump) ==
  /\ Dispatch(h, "approveOrDenyJoin")
  /\ getPendingClient(h, c)
  /\ IF Undecidable(h, c) THEN RefuseDecision(h) ELSE Admit(h, c, dump)

DenyJoin(h, c) ==
  /\ Dispatch(h, "approveOrDenyJoin")
  /\ getPendingClient(h, c)
  /\ IF Undecidable(h, c) THEN RefuseDecision(h)
     ELSE /\ fsm' = BackToNoWhiteboard(c)
          /\ pendingClients' = NoLongerPending(fsm[h].board, c)
          /\ UNCHANGED <<socket, host, clients, pastUsers, ended, whiteboards>>
          /\ Emit(h, Only(c, <<Plain("joinDenied", FALSE)>>) ++ Only(h, <<Success>>))
-----------------------------------------------------------------------------
(* handleDisconnect: a user or the host is gone, by a leaveWhiteboard      *)
(* message (from = c, answered) or by a closed socket (from = NoClient).   *)

(* The array without the client.  Mutant: it stays in the array.           *)
Detached_Kept(b, c) == clients
Detached(b, c) == [clients EXCEPT ![b][c] = 0]

(* pastUsers.push, which keeps the name of whoever created a figure.       *)
(* Mutant: forgotten.                                                      *)
Remembered_Forgotten(b, c) == pastUsers
Remembered(b, c) == [pastUsers EXCEPT ![b] = @ \cup {c}]

DetachClient(c, from) ==
  LET b == fsm[c].board
  IN  /\ fsm[c].state = "USER"
      /\ clients'   = Detached(b, c)
      /\ pastUsers' = Remembered(b, c)
      /\ fsm'       = BackToNoWhiteboard(c)
      /\ UNCHANGED <<host, pendingClients, ended, whiteboards>>
      /\ Emit(from, CurrentClientList(b) ++ Only(c, <<Plain("success", from = c)>>))

(* handleWhiteboardEndedByHost of every client in the array, which changes *)
(* users only, and then the host.  Mutants: each half of it is forgotten.  *)
AllSentAway_UsersStay(b, h) == BackToNoWhiteboard(h)
AllSentAway_HostStays(b, h) ==
  [x \in Clients |-> IF clients[b][x] > 0 /\ fsm[x].state = "USER"
                     THEN NoWhiteboard ELSE fsm[x]]
AllSentAway(b, h) ==
  [x \in Clients |-> IF x = h \/ (clients[b][x] > 0 /\ fsm[x].state = "USER")
                     THEN NoWhiteboard ELSE fsm[x]]

(* whiteboardSessionEnded answers the message of a host that leaves.       *)
(* Mutant: the id of that message is not passed on.                        *)
SessionEnded_Unrelated(h, from) == Plain("whiteboardSessionEnded", FALSE)
SessionEnded(h, from)           == Plain("whiteboardSessionEnded", from = h)

(* The operation END_SESSION.                                              *)
EndSession(h, from) ==
  LET b == fsm[h].board
  IN  /\ fsm[h].state = "HOST"
      /\ fsm' = AllSentAway(b, h)
      /\ IF ended[b]
         THEN /\ UNCHANGED <<ended, whiteboards>>
              /\ Emit(from, Only(h, <<Error("WHITEBOARD_DOES_NOT_EXIST", FALSE)>>))
         ELSE /\ ended' = [ended EXCEPT ![b] = TRUE]
              /\ whiteboards' = whiteboards \ {b}
              /\ Emit(from, ToAll(clients[b], SessionEnded(h, from)))
      /\ UNCHANGED <<host, clients, pastUsers, pendingClients>>

LeaveWhiteboard(c) ==
  /\ Dispatch(c, "leaveWhiteboard")
  /\ UNCHANGED socket
  /\ DetachClient(c, c) \/ EndSession(c, c)

(* The socket closes.  A client that waits for approval is not withdrawn.  *)
CloseSocket(c) ==
  /\ socket[c] = "open"
  /\ socket' = [socket EXCEPT ![c] = "closed"]
  /\ \/ DetachClient(c, NoClient)
     \/ EndSession(c, NoClient)
     \/ /\ fsm[c].state \notin {"USER", "HOST"}
        /\ UNCHANGED <<fsm, boardVars>>
        /\ Emit(NoClient, Only(c, <<>>))
-----------------------------------------------------------------------------
(* Every step but the approval of a join, which also sends the figures.    *)
PlainStep(c) ==
  \/ RegisterClient(c)
  \/ \E case \in ClientToServerCase : NotAllowed(c, case)
  \/ ClientHello(c)
  \/ \E b \in Boards : CreateWhiteboard(c, b) \/ JoinWhiteboard(c, b)
  \/ \E x \in Clients : NoSuchApplicant(c, x) \/ DenyJoin(c, x)
  \/ LeaveWhiteboard(c)
  \/ CloseSocket(c)

Next == \E c \in Clients : \/ PlainStep(c)
                           \/ \E x \in Clients : ApproveJoin(c, x, <<>>)

Spec == Init /\ [][Next]_sessionVars
-----------------------------------------------------------------------------
(* Every variable has the type the code gives it.                          *)
TypeOK ==
  /\ socket         \in [Clients -> {"new", "open", "closed"}]
  /\ fsm            \in [Clients -> ClientFSM]
  /\ host           \in [Boards -> Clients \cup {NoClient}]
  /\ clients        \in [Boards -> [Clients -> Nat]]
  /\ pastUsers      \in [Boards -> SUBSET Clients]
  /\ pendingClients \in [Boards -> SUBSET Clients]
  /\ ended          \in [Boards -> BOOLEAN]
  /\ whiteboards    \in SUBSET Boards
  /\ requester      \in Clients \cup {NoClient}
  /\ out            \in [Clients -> Seq(SessionMessage)]

(* The array of members of a running whiteboard and the state machines of  *)
(* the connections tell the same story: a connection is in the array       *)
(* exactly once when its state is HOST or USER of that whiteboard and not  *)
(* at all otherwise, and no connection is left in an ended whiteboard.     *)
(* They are updated in different objects, by addClientConnection,          *)
(* detachClient and the forEach of END_SESSION.                            *)
MembershipAgrees ==
  \A b \in Boards, c \in Clients :
    IF ended[b] THEN ~InBoard(c, b)
    ELSE clients[b][c] = IF InBoard(c, b) THEN 1 ELSE 0

(* A whiteboard has one host, for as long as it runs, and can be found in  *)
(* the registry exactly then.                                              *)
HostAgrees ==
  /\ \A b \in Boards, c \in Clients :
       fsm[c] = HostOf(b) <=> host[b] = c /\ ~ended[b]
  /\ whiteboards = {b \in Boards : host[b] # NoClient /\ ~ended[b]}

(* The map of pending clients of a whiteboard holds exactly the            *)
(* connections whose state machine waits for that whiteboard.              *)
PendingAgrees ==
  \A b \in Boards, c \in Clients :
    c \in pendingClients[b] <=> fsm[c] = PendingOn(b)

(* The exceptions of the state machines and of APPROVE_ and                *)
(* DENY_PENDING_CLIENT ("Invalid client state", "was not pending") are     *)
(* never thrown: no order of joins, decisions, leaves and disconnects      *)
(* answers a well-formed message with INTERNAL_SERVER_ERROR.               *)
NeverThrows ==
  \A c \in Clients : \A i \in DOMAIN out[c] :
    out[c][i].type = "error" => out[c][i].reason # "INTERNAL_SERVER_ERROR"

(* Every session message is answered in the handler that receives it, by   *)
(* exactly one message with its id in causedBy: the callback that the      *)
(* client registered for it is called, and not by a later, unrelated one.  *)
OneAnswer ==
  requester # NoClient =>
    \E i \in DOMAIN out[requester] :
      \A j \in DOMAIN out[requester] : out[requester][j].re <=> j = i

(* What the session layer is for: the whiteboards of Whiteboards, with the *)
(* members that the state machines of the connections name, and running    *)
(* while they can be found in the registry.                                *)
Phase(b) == IF host[b] = NoClient THEN "unused"
            ELSE IF b \in whiteboards THEN "running" ELSE "ended"
Members(b) == {c \in Clients : InBoard(c, b)}

Shared == INSTANCE Whiteboards WITH
  phase      <- [b \in Boards |-> Phase(b)],
  members    <- [b \in Boards |-> Members(b)],
  applicants <- pendingClients,
  former     <- pastUsers,
  content    <- [b \in Boards |-> "figures"],
  actor      <- requester

(* Each handler does to three kinds of objects (the state machines, the    *)
(* whiteboards, the registry) what one step does to a shared whiteboard,   *)
(* or nothing: a client is in one whiteboard, let in by its host, and when *)
(* the host goes everybody is sent away at once and nobody comes back.     *)
ImplementsWhiteboards == Shared!Spec

(* A whiteboard whose session ended stays as it was: nobody joins it,      *)
(* leaves it, or starts to wait for it, although clients and operations    *)
(* still hold references to the object.                                    *)
EndedIsFinal ==
  [][\A b \in Boards : ended[b] =>
       /\ ended'[b] /\ b \notin whiteboards'
       /\ UNCHANGED <<clients[b], pastUsers[b], pendingClients[b], host[b]>>]_sessionVars

(* A connection that comes to be in a whiteboard either created it or was  *)
(* waiting for it when its host sent the message that let it in.           *)
OnlyHostAdmits ==
  [][\A b \in Boards, c \in Clients :
       clients'[b][c] > clients[b][c] =>
         \/ requester' = c /\ host[b] = NoClient /\ host'[b] = c
         \/ requester' = host[b] /\ fsm[c] = PendingOn(b)]_sessionVars

(* Whoever is in a running whiteboard after its members changed is told so *)
(* in that step, and the last list it is told is the current one.          *)
RosterAnnounced ==
  [][\A b \in Boards :
       (clients'[b] # clients[b] \/ pastUsers'[b] # pastUsers[b]) =>
         \A x \in Clients : clients'[b][x] > 0 /\ socket'[x] = "open" =>
           \E i \in DOMAIN out'[x] :
             /\ out'[x][i] = UserList(clients'[b], pastUsers'[b])
             /\ \A j \in DOMAIN out'[x] : j > i => out'[x][j].type # "userListChanged"]_sessionVars
-----------------------------------------------------------------------------
(* What the user interface says of these data, and the server does not     *)
(* keep true.                                                              *)

(* "Connected users": the list of present users names open connections.    *)
PresentAreConnected ==
  \A b \in whiteboards, c \in Clients : clients[b][c] > 0 => socket[c] = "open"

(* "Pending approval from host...": there is a host that may approve.      *)
PendingHasHost ==
  \A c \in Clients, b \in Boards :
    socket[c] = "open" /\ fsm[c] = PendingOn(b) => b \in whiteboards
=============================================================================
