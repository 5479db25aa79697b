---------------------------- MODULE ClientSession ----------------------------
(***************************************************************************)
(* The browsers, composed with the session layer of the backend: what a    *)
(* user may do on each screen, the requests that this sends, their answers *)
(* and timeouts, and what the other messages of the server change.         *)
(*                                                                         *)
(* Each direction of a connection is a FIFO channel.  The server takes one *)
(* message at a time and runs its whole handler (an action of Session); a  *)
(* browser takes one message at a time, applies it (handleMessage) and     *)
(* then calls the callback of the request that caused it, in one event.    *)
(* Timeouts, user actions and the loss of the connection come in between.  *)
(* A page that is reloaded is another member of Clients.                   *)
(***************************************************************************)
EXTENDS Session

CONSTANTS MaxRequests,  \* bound: how many messages a browser sends
          NoMessage     \* the causedBy of a message that answers nothing

ASSUME ClientSessionAssumption ==
  MaxRequests \in Nat /\ NoMessage \notin Clients \X Nat

VARIABLES
  link,         \* the WebSocket of a browser: "connecting", "open" or "closed"
  clientState,  \* clientState.v
  users,        \* usersState, the ids in its three lists
  handlers,     \* messageIdToResponseHandler: the requests that wait
  sent,         \* how many messages the browser has sent
  gaveUp,       \* those that saw a request of this module time out (history)
  astray,       \* those that got an answer on a screen that ignores it (history)
  evicted,      \* those that a refusal of an old leave took off a screen (history)
  toServer, toClient  \* the messages on their way

channelVars  == <<toServer, toClient>>
browserVars  == <<link, clientState, users, handlers, sent, gaveUp, astray, evicted>>
clientVars   == <<sessionVars, browserVars, channelVars>>
-----------------------------------------------------------------------------
On(state, b) == [state |-> state, board |-> b]
Screen(state) == On(state, NoBoard)

ConnectionState ==
  {Screen(s) : s \in {"CONNECTING", "ANONYMOUS", "NO_WHITEBOARD", "DISCONNECTED"}}
    \cup {On(s, b) : s \in {"PENDING_APPROVAL", "WHITEBOARD_USER",
                            "WHITEBOARD_HOST", "SESSION_ENDED"}, b \in Boards}

NoUsers == [present |-> {}, past |-> {}, pending |-> {}]

(* The body of a message, with the id that it gets when it is sent.        *)
Body(case)             == [case |-> case]
JoinBody(b)            == [case |-> "joinWhiteboard", board |-> b]
DecisionBody(x, admit) == [case |-> "approveOrDenyJoin", client |-> x, approve |-> admit]

(* What a callback is given when nobody answered.                          *)
Timeout == Plain("timeout", FALSE)
-----------------------------------------------------------------------------
(* What a message of the server does to the state of a browser.            *)

(* Mutant: an approval is believed on every screen.                        *)
handleJoinApproved_Always(s) == On("WHITEBOARD_USER", s.board)
handleJoinApproved(s) ==
  IF s.state = "PENDING_APPROVAL" THEN On("WHITEBOARD_USER", s.board) ELSE s

handleJoinDenied(s) ==
  IF s.state = "PENDING_APPROVAL" THEN Screen("NO_WHITEBOARD") ELSE s

handleSessionEnded(s) ==
  IF s.state \in {"WHITEBOARD_USER", "WHITEBOARD_HOST"}
  THEN On("SESSION_ENDED", s.board) ELSE s

handleMessage(s, m) ==
  CASE m.type = "joinApproved"           -> handleJoinApproved(s)
    [] m.type = "joinDenied"             -> handleJoinDenied(s)
    [] m.type = "whiteboardSessionEnded" -> handleSessionEnded(s)
    [] OTHER                             -> s

(* Mutant: only the present users are looked at.                           *)
usersAfterMessage_NoPast(u, m) ==
  CASE m.type = "clientWantsToJoin" -> [u EXCEPT !.pending = @ \cup {m.client}]
    [] m.type = "userListChanged"   -> [u EXCEPT !.present = m.present]
    [] OTHER                        -> u
usersAfterMessage(u, m) ==
  CASE m.type = "clientWantsToJoin" -> [u EXCEPT !.pending = @ \cup {m.client}]
    [] m.type = "userListChanged"   -> [u EXCEPT !.present = m.present, !.past = m.past]
    [] OTHER                        -> u

(* What the callback of a request does with the answer m, or with Timeout. *)
(* The one of leaveWhiteboard does not look at it.                         *)
(* Mutants: it does not look at any answer; it does, for leaveWhiteboard.  *)
callback_AnyAnswer(s, body, m) ==
  CASE body.case = "joinWhiteboard" -> On("PENDING_APPROVAL", body.board)
    [] body.case = "createWhiteboardRequest" /\ m.type = "whiteboardCreated"
         -> On("WHITEBOARD_HOST", m.board)
    [] body.case \in {"clientHello", "leaveWhiteboard"} -> Screen("NO_WHITEBOARD")
    [] OTHER -> s
callback_LeavesIfToldSo(s, body, m) ==
  CASE body.case = "clientHello" /\ m.type = "success" -> Screen("NO_WHITEBOARD")
    [] /\ body.case = "joinWhiteboard" /\ m.type = "success"
       /\ s.state = "NO_WHITEBOARD" -> On("PENDING_APPROVAL", body.board)
    [] /\ body.case = "createWhiteboardRequest" /\ m.type = "whiteboardCreated"
       /\ s.state = "NO_WHITEBOARD" -> On("WHITEBOARD_HOST", m.board)
    [] body.case = "leaveWhiteboard" /\ m.type = "success" -> Screen("NO_WHITEBOARD")
    [] OTHER -> s
callback(s, body, m) ==
  CASE body.case = "clientHello" /\ m.type = "success" -> Screen("NO_WHITEBOARD")
    [] /\ body.case = "joinWhiteboard" /\ m.type = "success"
       /\ s.state = "NO_WHITEBOARD" -> On("PENDING_APPROVAL", body.board)
    [] /\ body.case = "createWhiteboardRequest" /\ m.type = "whiteboardCreated"
       /\ s.state = "NO_WHITEBOARD" -> On("WHITEBOARD_HOST", m.board)
    [] body.case = "leaveWhiteboard" -> Screen("NO_WHITEBOARD")
    [] OTHER -> s

(* "... response received in unexpected client state": the callback only   *)
(* complains.                                                              *)
Unexpected(s, body, m) ==
  /\ s.state # "NO_WHITEBOARD"
  /\ \/ body.case = "joinWhiteboard" /\ m.type = "success"
     \/ body.case = "createWhiteboardRequest" /\ m.type = "whiteboardCreated"

(* The callback of leaveWhiteboard leaves the screen although the server   *)
(* has refused, because the whiteboard that the user left is gone, and the *)
(* browser is on its way into another one.                                 *)
Evicts(s, body, m) ==
  /\ body.case = "leaveWhiteboard" /\ m.type = "error"
  /\ s.state \notin {"NO_WHITEBOARD", "SESSION_ENDED"}

(* Who was decided about is struck off the list if the server did so.      *)
usersAfterCallback(u, body, m) ==
  CASE body.case = "approveOrDenyJoin" /\ m.type = "success"
         -> [u EXCEPT !.pending = @ \ {body.client}]
    [] body.case = "leaveWhiteboard" -> NoUsers
    [] OTHER -> u
-----------------------------------------------------------------------------
(* RequestResponseService.send, for one or more bodies: the messages are   *)
(* on their way, if there is a connection, and handlers wait for their     *)
(* answers besides those of before.                                        *)
SendAll(c, before, bodies) ==
  LET messages == [i \in DOMAIN bodies |-> [id |-> sent[c] + i, body |-> bodies[i]]]
  IN  /\ sent[c] + Len(bodies) <= MaxRequests
      /\ sent' = [sent EXCEPT ![c] = @ + Len(bodies)]
      /\ handlers' = [handlers EXCEPT ![c] =
                        before \cup {messages[i] : i \in DOMAIN bodies}]
      /\ toServer' = IF link[c] = "open" /\ socket[c] = "open"
                     THEN [toServer EXCEPT ![c] = @ \o messages] ELSE toServer

(* The step was one of a browser: the server handed out nothing.           *)
ServerIdle ==
  /\ UNCHANGED <<socket, fsm, boardVars>>
  /\ requester' = NoClient
  /\ out' = [c \in Clients |-> <<>>]

(* A button that sends requests and changes nothing else.                  *)
PressAll(c, bodies) ==
  /\ SendAll(c, handlers[c], bodies)
  /\ ServerIdle
  /\ UNCHANGED <<link, clientState, users, gaveUp, astray, evicted, toClient>>
Press(c, body) == PressAll(c, <<body>>)

setUsername(c) ==
  /\ clientState[c].state = "ANONYMOUS"
  /\ Press(c, Body("clientHello"))

joinWhiteboard(c, b) ==
  /\ clientState[c].state = "NO_WHITEBOARD"
  /\ Press(c, JoinBody(b))

(* Bound: there are whiteboards left for the requests that are on the way. *)
AsksToCreate(x, i) ==
  i \in DOMAIN toServer[x] /\ toServer[x][i].body.case = "createWhiteboardRequest"
BoardsLeft ==
  Cardinality({b \in Boards : host[b] = NoClient}) >
  Cardinality({p \in Clients \X (1..MaxRequests) : AsksToCreate(p[1], p[2])})

createWhiteboard(c) ==
  /\ clientState[c].state = "NO_WHITEBOARD"
  /\ BoardsLeft
  /\ Press(c, Body("createWhiteboardRequest"))

(* Mutant: the user is struck off the list before there is an answer.      *)
approveOrDenyUser_AtOnce(c, x) ==
  /\ clientState[c].state = "WHITEBOARD_HOST"
  /\ x \in users[c].pending
  /\ \E admit \in BOOLEAN : SendAll(c, handlers[c], <<DecisionBody(x, admit)>>)
  /\ users' = [users EXCEPT ![c].pending = @ \ {x}]
  /\ ServerIdle
  /\ UNCHANGED <<link, clientState, gaveUp, astray, evicted, toClient>>
approveOrDenyUser(c, x) ==
  /\ clientState[c].state = "WHITEBOARD_HOST"
  /\ x \in users[c].pending
  /\ \E admit \in BOOLEAN : Press(c, DecisionBody(x, admit))

(* The exit button; once the session has ended there is nobody to ask.     *)
leaveWhiteboard(c) ==
  /\ clientState[c].state \in {"WHITEBOARD_USER", "WHITEBOARD_HOST"}
  /\ Press(c, Body("leaveWhiteboard"))

exitEndedSession(c) ==
  /\ clientState[c].state = "SESSION_ENDED"
  /\ clientState' = [clientState EXCEPT ![c] = Screen("NO_WHITEBOARD")]
  /\ users' = [users EXCEPT ![c] = NoUsers]
  /\ ServerIdle
  /\ UNCHANGED <<link, handlers, sent, gaveUp, astray, evicted, channelVars>>
-----------------------------------------------------------------------------
(* The events of a browser.                                                *)

Connected(c) ==
  /\ link[c] = "connecting" /\ socket[c] # "new"
  /\ link' = [link EXCEPT ![c] = "open"]
  /\ clientState' = [clientState EXCEPT ![c] = Screen("ANONYMOUS")]
  /\ ServerIdle
  /\ UNCHANGED <<users, handlers, sent, gaveUp, astray, evicted, channelVars>>

(* There is no second attempt.                                             *)
Disconnected(c) ==
  /\ link[c] # "closed"
  /\ link' = [link EXCEPT ![c] = "closed"]
  /\ clientState' = [clientState EXCEPT ![c] = Screen("DISCONNECTED")]
  /\ toClient' = [toClient EXCEPT ![c] = <<>>]
  /\ ServerIdle
  /\ UNCHANGED <<users, handlers, sent, gaveUp, astray, evicted, toServer>>

(* The request that the first message to c answers, if it still waits.     *)
Caused(c) == {r \in handlers[c] : Head(toClient[c]).causedBy = <<c, r.id>>}

(* The callback of a hello that succeeds joins the whiteboard of the URL.  *)
JoinsAtOnce(c) ==
  /\ \E r \in Caused(c) : r.body.case = "clientHello"
  /\ Head(toClient[c]).body.type = "success"

(* handleMessage and then the callback.                                    *)
Receive(c) ==
  LET m       == Head(toClient[c]).body
      waiting == handlers[c] \ Caused(c)
  IN  /\ link[c] = "open" /\ toClient[c] # <<>>
      /\ toClient' = [toClient EXCEPT ![c] = Tail(@)]
      /\ \/ /\ Caused(c) = {}
            /\ clientState' = [clientState EXCEPT ![c] = handleMessage(@, m)]
            /\ users' = [users EXCEPT ![c] = usersAfterMessage(@, m)]
            /\ UNCHANGED <<astray, evicted>>
         \/ \E r \in Caused(c) :
              /\ clientState' = [clientState EXCEPT ![c] = callback(handleMessage(@, m), r.body, m)]
              /\ users' = [users EXCEPT ![c] =
                   usersAfterCallback(usersAfterMessage(@, m), r.body, m)]
              /\ astray' = IF Unexpected(handleMessage(clientState[c], m), r.body, m)
                           THEN astray \cup {c} ELSE astray
              /\ evicted' = IF Evicts(handleMessage(clientState[c], m), r.body, m)
                            THEN evicted \cup {c} ELSE evicted
      /\ \/ /\ handlers' = [handlers EXCEPT ![c] = waiting]
            /\ UNCHANGED <<sent, toServer>>
         \/ JoinsAtOnce(c) /\ \E b \in Boards : SendAll(c, waiting, <<JoinBody(b)>>)
      /\ ServerIdle
      /\ UNCHANGED <<link, gaveUp>>

(* SERVER_RESPONSE_TIMEOUT is over for the oldest request that waits: all  *)
(* timers take the same time.  Mutant: the handler is not deleted.         *)
TimeOut_Kept(c) ==
  \E r \in handlers[c] :
    /\ clientState' = [clientState EXCEPT ![c] = callback(@, r.body, Timeout)]
    /\ users' = [users EXCEPT ![c] = usersAfterCallback(@, r.body, Timeout)]
    /\ gaveUp' = IF r.body.case \in FigureMessages THEN gaveUp ELSE gaveUp \cup {c}
    /\ ServerIdle
    /\ UNCHANGED <<link, sent, handlers, astray, evicted, channelVars>>
TimeOut(c) ==
  \E r \in handlers[c] :
    /\ \A q \in handlers[c] : r.id <= q.id
    /\ handlers' = [handlers EXCEPT ![c] = @ \ {r}]
    /\ clientState' = [clientState EXCEPT ![c] = callback(@, r.body, Timeout)]
    /\ users' = [users EXCEPT ![c] = usersAfterCallback(@, r.body, Timeout)]
    /\ gaveUp' = IF r.body.case \in FigureMessages THEN gaveUp ELSE gaveUp \cup {c}
    /\ ServerIdle
    /\ UNCHANGED <<link, sent, astray, evicted, channelVars>>
-----------------------------------------------------------------------------
(* The server.                                                             *)

(* What a step of Session hands out is on its way; whatever answers the    *)
(* message being handled carries its id.                                   *)
Deliver(id) ==
  toClient' = [x \in Clients |->
    IF link[x] = "closed" THEN <<>>
    ELSE toClient[x] \o [i \in DOMAIN out'[x] |->
           [body |-> out'[x][i], causedBy |-> IF out'[x][i].re THEN id ELSE NoMessage]]]

(* The handler of a message, except for an approval.                       *)
PlainHandler(c, body) ==
  \/ NotAllowed(c, body.case)
  \/ body.case = "clientHello" /\ ClientHello(c)
  \/ body.case = "createWhiteboardRequest" /\ \E b \in Boards : CreateWhiteboard(c, b)
  \/ body.case = "joinWhiteboard" /\ JoinWhiteboard(c, body.board)
  \/ body.case = "approveOrDenyJoin" /\ NoSuchApplicant(c, body.client)
  \/ body.case = "approveOrDenyJoin" /\ ~body.approve /\ DenyJoin(c, body.client)
  \/ body.case = "leaveWhiteboard" /\ LeaveWhiteboard(c)

(* The first message of c was handled, and what that sent is on its way.   *)
Handled(c) ==
  /\ toServer' = [toServer EXCEPT ![c] = Tail(@)]
  /\ Deliver(<<c, Head(toServer[c]).id>>)
  /\ UNCHANGED browserVars

Approves(c, body, dump) ==
  body.case = "approveOrDenyJoin" /\ body.approve /\ ApproveJoin(c, body.client, dump)

Handle(c) ==
  /\ toServer[c] # <<>>
  /\ LET body == Head(toServer[c]).body
     IN  PlainHandler(c, body) \/ Approves(c, body, <<>>)
  /\ Handled(c)

(* A web socket connects, or closes with what is still on the way to it.   *)
SocketEvent(c) ==
  /\ \/ link[c] = "connecting" /\ RegisterClient(c)
     \/ CloseSocket(c)
  /\ toServer' = [toServer EXCEPT ![c] = <<>>]
  /\ Deliver(NoMessage)
  /\ UNCHANGED browserVars
-----------------------------------------------------------------------------
BrowsersAreNew ==
  /\ users       = [c \in Clients |-> NoUsers]
  /\ handlers    = [c \in Clients |-> {}]
  /\ sent        = [c \in Clients |-> 0]
  /\ gaveUp      = {}
  /\ astray      = {}
  /\ evicted     = {}
  /\ toServer    = [c \in Clients |-> <<>>]
  /\ toClient    = [c \in Clients |-> <<>>]

ClientInit ==
  /\ Init
  /\ link        = [c \in Clients |-> "connecting"]
  /\ clientState = [c \in Clients |-> Screen("CONNECTING")]
  /\ BrowsersAreNew

UserAction(c) ==
  \/ setUsername(c) \/ createWhiteboard(c) \/ leaveWhiteboard(c) \/ exitEndedSession(c)
  \/ \E b \in Boards : joinWhiteboard(c, b)
  \/ \E x \in Clients : approveOrDenyUser(c, x)

BrowserEvent(c) == Connected(c) \/ Disconnected(c) \/ Receive(c) \/ TimeOut(c)

ClientNext ==
  \E c \in Clients : UserAction(c) \/ BrowserEvent(c) \/ Handle(c) \/ SocketEvent(c)

ClientSpec == ClientInit /\ [][ClientNext]_clientVars

(* setTimeout fires in every browser, and the server and the connections   *)
(* do not stop for ever.  Users need not do anything.                      *)
ClientFairness ==
  \A c \in Clients :
    WF_clientVars(TimeOut(c)) /\ WF_clientVars(Receive(c)) /\ WF_clientVars(Handle(c))

FairClientSpec == ClientSpec /\ ClientFairness
-----------------------------------------------------------------------------
(* The variables of the browsers and the channels have their types.        *)
ClientTypeOK ==
  /\ link \in [Clients -> {"connecting", "open", "closed"}]
  /\ clientState \in [Clients -> ConnectionState]
  /\ users \in [Clients -> [present : SUBSET Clients, past : SUBSET Clients,
                            pending : SUBSET Clients]]
  /\ sent \in [Clients -> 0..MaxRequests]
  /\ gaveUp \subseteq Clients /\ astray \subseteq Clients /\ evicted \subseteq Clients
  /\ \A c \in Clients :
       /\ \A r \in handlers[c] : r.id \in 1..sent[c]
       /\ \A i \in DOMAIN toServer[c] : toServer[c][i].id \in 1..sent[c]
       /\ \A i \in DOMAIN toClient[c] : toClient[c][i].body \in SessionMessage

Linked(c) == link[c] = "open" /\ socket[c] = "open"
Quiet(c)  == Linked(c) /\ toServer[c] = <<>> /\ toClient[c] = <<>>

(* The state in which the server must be for what a browser shows.         *)
ServerStateOf(s) ==
  CASE s.state = "ANONYMOUS"                          -> Anonymous
    [] s.state \in {"NO_WHITEBOARD", "SESSION_ENDED"} -> NoWhiteboard
    [] s.state = "PENDING_APPROVAL"                   -> PendingOn(s.board)
    [] s.state = "WHITEBOARD_USER"                    -> UserOf(s.board)
    [] s.state = "WHITEBOARD_HOST"                    -> HostOf(s.board)

(* Browsers that missed an answer, or got one on the wrong screen.         *)
Misled == gaveUp \cup astray \cup evicted

(* Once nothing is on its way to or from a browser whose requests were     *)
(* answered in time and on the right screen, it and the server are in the  *)
(* same state, whatever the users pressed while messages crossed:          *)
(* impatient users who join, create or leave twice, hosts that leave while *)
(* somebody joins.                                                         *)
StatesAgree ==
  \A c \in Clients \ Misled :
    Quiet(c) => fsm[c] = ServerStateOf(clientState[c])

(* Whoever waits for a running whiteboard is in the list of applicants of  *)
(* its host or about to be, unless the browser of the host was misled: one *)
(* that was denied and applies again is not struck off by the late answer  *)
(* to the first decision, nor by the end of the session before.            *)
NoApplicantIsLost ==
  \A b \in whiteboards : \A c \in pendingClients[b] :
    LET h == host[b]
    IN  \/ c \in users[h].pending
        \/ \E i \in DOMAIN toClient[h] : toClient[h][i].body = WantsToJoin(c)
        \/ ~Linked(h) \/ h \in Misled

(* The lists of present and past users that a member has heard last are    *)
(* those of its whiteboard: the lists of one that it was in before do not  *)
(* get in between, nor does the reset of the lists when it left that.      *)
RostersAgree ==
  \A b \in whiteboards, c \in Clients \ Misled :
    Quiet(c) /\ InBoard(c, b) =>
      /\ users[c].present = {x \in Clients : clients[b][x] > 0}
      /\ users[c].past = pastUsers[b]

(* A request that still waits is on its way to the server, or its answer   *)
(* on its way back: over an open connection only a slow one times out.     *)
AnswersAreComing ==
  \A c \in Clients : \A r \in handlers[c] : Linked(c) =>
      \/ \E i \in DOMAIN toServer[c] : toServer[c][i] = r
      \/ \E i \in DOMAIN toClient[c] : toClient[c][i].causedBy = <<c, r.id>>

(* Every callback is called, by an answer or by its timer: once the users  *)
(* stop, no request waits.                                                 *)
Waits(c, k) == \E r \in handlers[c] : r.id = k
EveryRequestReturns == <>[](\A c \in Clients : handlers[c] = {})
-----------------------------------------------------------------------------
(* What the user interface says, and the code does not keep true.          *)

(* "Unable to join whiteboard": whoever is asked to create or to join a    *)
(* whiteboard may do so.                                                   *)
PromptIsHonest ==
  \A c \in Clients :
    Quiet(c) /\ clientState[c].state = "NO_WHITEBOARD" => fsm[c] = NoWhiteboard

(* "Protocol disconnected": a browser without a connection says so.        *)
DisconnectionIsShown ==
  \A c \in Clients : link[c] = "closed" => clientState[c].state = "DISCONNECTED"

(* "JoinWhiteboard response received in unexpected client state", and the  *)
(* same of CreateWhiteboard: not unless a request timed out before.        *)
NoAnswerGoesAstray == astray \subseteq gaveUp
=============================================================================
