---------------------------- MODULE ClientProofs -----------------------------
(***************************************************************************)
(* Proofs about ClientSession.  The letters of a browser are numbered, and *)
(* whatever of them is under way is in order: first the answers that come  *)
(* back, then the requests that still go to the server.  From this follows *)
(* that answers are never lost on an open connection.                      *)
(*                                                                         *)
(* The messages on their way to a browser also lead from the state of the  *)
(* server that it shows to the one that the server is in (its trail), and  *)
(* what it lists is what the last of them that concerns it will leave.     *)
(* From this follows that a quiet browser agrees with the server.          *)
(***************************************************************************)
EXTENDS ClientSession, SessionProofs

(* What a browser sends, and what it is sent.                              *)
SessionBody ==
  {Body("clientHello"), Body("createWhiteboardRequest"), Body("leaveWhiteboard")}
    \cup {JoinBody(b) : b \in Boards}
    \cup {DecisionBody(x, admit) : x \in Clients, admit \in BOOLEAN}

Letter == [id : Nat \ {0}, body : SessionBody]
Reply  == [body : ProperMessage, causedBy : (Clients \X Nat) \cup {NoMessage}]

ClientTypes ==
  /\ link \in [Clients -> {"connecting", "open", "closed"}]
  /\ clientState \in [Clients -> ConnectionState]
  /\ users \in [Clients -> [present : SUBSET Clients, past : SUBSET Clients,
                            pending : SUBSET Clients]]
  /\ handlers \in [Clients -> SUBSET Letter]
  /\ sent \in [Clients -> 0..MaxRequests]
  /\ gaveUp \subseteq Clients /\ astray \subseteq Clients /\ evicted \subseteq Clients
  /\ toServer \in [Clients -> Seq(Letter)]
  /\ toClient \in [Clients -> Seq(Reply)]

WellTyped == Books /\ MailOK /\ ClientTypes
-----------------------------------------------------------------------------
(* The server handles the messages of the browsers as Session says.        *)

LEMMA Bodies ==
  ASSUME NEW body \in SessionBody
  PROVE  /\ body.case \in ClientToServerCase \ FigureMessages
         /\ body.case = "joinWhiteboard" => body.board \in Boards
         /\ body.case = "approveOrDenyJoin" => body.client \in Clients /\ body.approve \in BOOLEAN
  BY DEF SessionBody, Body, JoinBody, DecisionBody, ClientToServerCase, FigureMessages

LEMMA HandlerIsStep ==
  ASSUME NEW c \in Clients, NEW body \in SessionBody, PlainHandler(c, body)
  PROVE  PlainStep(c) /\ requester' = c
  <1>1. PlainStep(c)
    BY Bodies DEF PlainHandler, PlainStep
  <1>2. requester' = c
    BY DEF PlainHandler, NotAllowed, ClientHello, CreateWhiteboard, JoinWhiteboard,
           NoSuchApplicant, DenyJoin, RefuseDecision, Throws, LeaveWhiteboard, DetachClient,
           EndSession, Answer, Emit
  <1>3. QED
    BY <1>1, <1>2

LEMMA SocketEventIsStep ==
  ASSUME NEW c \in Clients, SocketEvent(c)
  PROVE  PlainStep(c)
  BY DEF SocketEvent, PlainStep

(* A step of the server, as far as the browsers are concerned.             *)
ServerStep(c) == PlainStep(c) \/ \E x \in Clients : ApproveJoin(c, x, <<>>)

LEMMA ServerStepIsCorrect ==
  ASSUME Books, NEW c \in Clients, ServerStep(c)
  PROVE  Books' /\ MailOK'
  <1>1. Books'
    BY PlainStepKeepsBooks, ApproveKeepsBooks DEF ServerStep
  <1>2. MailSent
    BY <1>1, PlainStepSendsMail, ApproveSendsMail, EmptySeq DEF ServerStep
  <1>3. QED
    BY <1>1, <1>2 DEF MailSent, MailOK

LEMMA IdleIsCorrect ==
  ASSUME Books, ServerIdle
  PROVE  Books' /\ MailOK'
  <1>1. Books'
    BY QuietKeepsBooks DEF ServerIdle, Books, StateTypes
  <1>2. MailOK'
    BY EmptySeq DEF ServerIdle, MailOK, Mail
  <1>3. QED
    BY <1>1, <1>2

(* The message of c that was first is handled, and answered.               *)
LEMMA HandleAnswers ==
  ASSUME WellTyped, NEW c \in Clients, Handle(c)
  PROVE  /\ ServerStep(c) /\ Books' /\ MailOK' /\ Answered(c)
         /\ toServer[c] # <<>> /\ Handled(c)
         /\ Head(toServer[c]) \in Letter
  <1> DEFINE body == Head(toServer[c]).body
  <1>1. Head(toServer[c]) \in Letter /\ body \in SessionBody
    <2>1. toServer[c] \in Seq(Letter) /\ toServer[c] # <<>>
      BY DEF Handle, WellTyped, ClientTypes
    <2>2. QED
      <3>1. Head(toServer[c]) \in Letter
        BY <2>1, HeadTailProperties
      <3>2. QED
        BY <3>1 DEF Letter
  <1> HIDE DEF body
  <1>2. (PlainStep(c) /\ requester' = c) \/ Approves(c, body, <<>>)
    BY <1>1, HandlerIsStep DEF Handle, body
  <1>3. Approves(c, body, <<>>) => body.client \in Clients /\ ApproveJoin(c, body.client, <<>>)
    BY <1>1, Bodies DEF Approves
  <1>4. ServerStep(c)
    BY <1>2, <1>3 DEF ServerStep
  <1>5. Books' /\ MailOK'
    BY <1>4, ServerStepIsCorrect DEF WellTyped
  <1>6. Answered(c)
    BY <1>2, <1>3, <1>5, PlainStepAnswers, DecisionsAnswer, SessionAssumption DEF WellTyped
  <1>7. QED
    BY <1>1, <1>4, <1>5, <1>6 DEF Handle
-----------------------------------------------------------------------------
(* The post of a browser x: the letters hs that wait for an answer, of n   *)
(* sent so far, those that go up to the server, and what comes down.       *)

(* The request k is answered by d.                                         *)
AnswersTo(x, d, k) == d.causedBy = <<x, k>>

InOrder(x, hs, n, up, down) ==
  /\ hs \in SUBSET Letter /\ n \in Nat /\ up \in Seq(Letter) /\ down \in Seq(Reply)
  /\ \A r \in hs : r.id <= n
  /\ \A i \in DOMAIN up : up[i].id <= n
  /\ \A r, q \in hs : r.id = q.id => r = q
  /\ \A r \in hs : \A i \in DOMAIN up : r.id = up[i].id => r = up[i]
  /\ \A i, j \in DOMAIN up : i < j => up[i].id < up[j].id
  /\ \A i \in DOMAIN down : \A k \in Nat : AnswersTo(x, down[i], k) =>
       /\ k <= n
       /\ \A j \in DOMAIN up : k < up[j].id
       /\ \A j \in DOMAIN down : \A m \in Nat : i < j /\ AnswersTo(x, down[j], m) => k < m
  /\ \A i \in DOMAIN down : ~down[i].body.re => down[i].causedBy = NoMessage

(* Whatever waits will get its answer, over an open connection.            *)
Coming(x, hs, up, down) ==
  \A r \in hs : \/ \E i \in DOMAIN up : up[i] = r
                \/ \E i \in DOMAIN down : AnswersTo(x, down[i], r.id)

(* Whatever comes is waited for, if nothing has timed out.                 *)
Expected(x, hs, up, down) ==
  /\ \A i \in DOMAIN up : up[i] \in hs
  /\ \A i \in DOMAIN down : \A k \in Nat :
       AnswersTo(x, down[i], k) => \E r \in hs : r.id = k

LEMMA TailParts ==
  ASSUME NEW S, NEW s \in Seq(S), s # <<>>
  PROVE  /\ 1 \in DOMAIN s /\ Head(s) = s[1] /\ Head(s) \in S /\ Tail(s) \in Seq(S)
         /\ \A i \in DOMAIN s : i \in Nat \ {0} /\ s[i] \in S
         /\ \A i \in DOMAIN Tail(s) : i + 1 \in DOMAIN s /\ Tail(s)[i] = s[i + 1] /\ i \in Nat \ {0}
         /\ \A i \in DOMAIN s : i # 1 => i - 1 \in DOMAIN Tail(s) /\ Tail(s)[i - 1] = s[i]
  <1>1. /\ Head(s) \in S /\ Tail(s) \in Seq(S) /\ Len(Tail(s)) = Len(s) - 1
        /\ \A i \in 1..Len(Tail(s)) : Tail(s)[i] = s[i + 1]
    BY HeadTailProperties
  <1>2. /\ DOMAIN s = 1..Len(s) /\ Len(s) \in Nat \ {0} /\ Head(s) = s[1]
        /\ DOMAIN Tail(s) = 1..Len(Tail(s))
        /\ \A i \in 1..Len(s) : s[i] \in S
    BY <1>1
  <1>3. QED
    BY <1>1, <1>2

(* A new letter is sent, over an open connection or not.                   *)
LEMMA SendOrdered ==
  ASSUME NEW x, NEW hs, NEW n, NEW up, NEW down, InOrder(x, hs, n, up, down),
         NEW l \in Letter, l.id = n + 1, NEW to \in {up, up \o <<l>>}
  PROVE  /\ InOrder(x, hs \cup {l}, n + 1, to, down)
         /\ Expected(x, hs, up, down) => Expected(x, hs \cup {l}, to, down)
         /\ Coming(x, hs, up, down) => Coming(x, hs \cup {l}, up \o <<l>>, down)
  <1>1. up \in Seq(Letter) /\ <<l>> \in Seq(Letter) /\ Len(<<l>>) = 1 /\ <<l>>[1] = l
    BY DEF InOrder
  <1>2. /\ DOMAIN up = 1..Len(up) /\ Len(up) \in Nat
        /\ up \o <<l>> \in Seq(Letter) /\ DOMAIN (up \o <<l>>) = 1..(Len(up) + 1)
        /\ \A i \in DOMAIN up : (up \o <<l>>)[i] = up[i]
        /\ (up \o <<l>>)[Len(up) + 1] = l
    BY <1>1, ConcatProperties
  <1>3. n \in Nat /\ \A r \in hs : r \in Letter /\ r.id <= n /\ r.id \in Nat
    BY DEF InOrder, Letter
  <1>4. \A i \in DOMAIN up : up[i].id <= n /\ up[i].id \in Nat
    <2>1. \A i \in DOMAIN up : up[i].id <= n
      BY DEF InOrder
    <2>2. \A i \in DOMAIN up : up[i] \in Letter
      BY <1>1, <1>2, ElementOfSeq
    <2>3. QED
      BY <2>1, <2>2 DEF Letter
  <1>5. /\ to \in Seq(Letter)
        /\ \A i \in DOMAIN to : \/ i \in DOMAIN up /\ to[i] = up[i]
                                \/ i = Len(up) + 1 /\ to[i] = l
    BY <1>1, <1>2
  <1>6. InOrder(x, hs \cup {l}, n + 1, to, down)
    <2>1. \A r \in hs \cup {l} : r.id <= n + 1
      BY <1>3
    <2>2. \A i \in DOMAIN to : to[i].id <= n + 1
      BY <1>3, <1>4, <1>5
    <2>3. \A r, q \in hs \cup {l} : r.id = q.id => r = q
      BY <1>3 DEF InOrder
    <2>4. \A r \in hs \cup {l} : \A i \in DOMAIN to : r.id = to[i].id => r = to[i]
      BY <1>3, <1>4, <1>5 DEF InOrder
    <2>5. \A i, j \in DOMAIN to : i < j => to[i].id < to[j].id
      BY <1>2, <1>3, <1>4, <1>5 DEF InOrder
    <2>6. \A i \in DOMAIN down : \A k \in Nat : AnswersTo(x, down[i], k) =>
            k <= n + 1 /\ \A j \in DOMAIN to : k < to[j].id
      BY <1>3, <1>5 DEF InOrder
    <2>7. QED
      BY <1>3, <1>5, <2>1, <2>2, <2>3, <2>4, <2>5, <2>6 DEF InOrder
  <1>7. Expected(x, hs, up, down) => Expected(x, hs \cup {l}, to, down)
    BY <1>5 DEF Expected
  <1>8. Coming(x, hs, up, down) => Coming(x, hs \cup {l}, up \o <<l>>, down)
    BY <1>2 DEF Coming
  <1>9. QED
    BY <1>6, <1>7, <1>8

(* The first message that came down is read.                               *)
LEMMA ReadOrdered ==
  ASSUME NEW x, NEW hs, NEW n, NEW up, NEW down, InOrder(x, hs, n, up, down), down # <<>>,
         NEW left, left = hs \ {r \in hs : AnswersTo(x, Head(down), r.id)}
  PROVE  /\ InOrder(x, left, n, up, Tail(down))
         /\ Expected(x, hs, up, down) => Expected(x, left, up, Tail(down))
         /\ Coming(x, hs, up, down) => Coming(x, left, up, Tail(down))
  <1>1. /\ 1 \in DOMAIN down /\ Head(down) = down[1] /\ Tail(down) \in Seq(Reply)
        /\ \A i \in DOMAIN down : i \in Nat \ {0}
        /\ \A i \in DOMAIN Tail(down) :
             i + 1 \in DOMAIN down /\ Tail(down)[i] = down[i + 1] /\ i \in Nat \ {0}
        /\ \A i \in DOMAIN down :
             i # 1 => i - 1 \in DOMAIN Tail(down) /\ Tail(down)[i - 1] = down[i]
    BY TailParts DEF InOrder
  <1>2. left \in SUBSET Letter /\ left \subseteq hs
    BY DEF InOrder
  <1>3. \A r \in hs : r.id \in Nat
    BY DEF InOrder, Letter
  <1>4. InOrder(x, left, n, up, Tail(down))
    <2>1. \A i \in DOMAIN Tail(down) : \A k \in Nat : AnswersTo(x, Tail(down)[i], k) =>
            /\ k <= n
            /\ \A j \in DOMAIN up : k < up[j].id
            /\ \A j \in DOMAIN Tail(down) : \A m \in Nat :
                 i < j /\ AnswersTo(x, Tail(down)[j], m) => k < m
      BY <1>1 DEF InOrder
    <2>2. \A i \in DOMAIN Tail(down) :
            ~Tail(down)[i].body.re => Tail(down)[i].causedBy = NoMessage
      BY <1>1 DEF InOrder
    <2>3. QED
      BY <1>1, <1>2, <2>1, <2>2 DEF InOrder
  <1>5. ASSUME Expected(x, hs, up, down) PROVE Expected(x, left, up, Tail(down))
    <2>1. \A i \in DOMAIN up : up[i] \in left
      BY <1>1, <1>3, <1>5 DEF Expected, InOrder
    <2>2. ASSUME NEW i \in DOMAIN Tail(down), NEW k \in Nat, AnswersTo(x, Tail(down)[i], k)
          PROVE  \E r \in left : r.id = k
      <3>1. i + 1 \in DOMAIN down /\ AnswersTo(x, down[i + 1], k) /\ 1 < i + 1
        BY <1>1, <2>2
      <3>2. PICK r \in hs : r.id = k
        BY <1>5, <3>1 DEF Expected
      <3>3. AnswersTo(x, down[1], r.id) => r.id < k
        BY <1>1, <1>3, <3>1 DEF InOrder
      <3>4. QED
        BY <1>1, <1>3, <3>2, <3>3
    <2>3. QED
      BY <2>1, <2>2 DEF Expected
  <1>6. Coming(x, hs, up, down) => Coming(x, left, up, Tail(down))
    BY <1>1 DEF Coming
  <1>7. QED
    BY <1>4, <1>5, <1>6
(* A request has waited too long; nobody waits for it any more.            *)
LEMMA ForgetOrdered ==
  ASSUME NEW x, NEW hs, NEW n, NEW up, NEW down, InOrder(x, hs, n, up, down), NEW r
  PROVE  /\ InOrder(x, hs \ {r}, n, up, down)
         /\ Coming(x, hs, up, down) => Coming(x, hs \ {r}, up, down)
  BY DEF InOrder, Coming

(* A direction of the connection is cut.                                   *)
LEMMA CutOrdered ==
  ASSUME NEW x, NEW hs, NEW n, NEW up, NEW down, InOrder(x, hs, n, up, down)
  PROVE  /\ InOrder(x, hs, n, up, <<>>) /\ InOrder(x, hs, n, <<>>, down)
         /\ Expected(x, hs, up, down) =>
              Expected(x, hs, up, <<>>) /\ Expected(x, hs, <<>>, down)
  <1>1. <<>> \in Seq(Reply) /\ <<>> \in Seq(Letter) /\ DOMAIN <<>> = {}
    BY EmptySeq
  <1>2. QED
    BY <1>1 DEF InOrder, Expected

(* Messages come down that answer nothing that x has asked.                *)
LEMMA NewsOrdered ==
  ASSUME NEW x, NEW hs, NEW n, NEW up, NEW down, InOrder(x, hs, n, up, down),
         NEW news \in Seq(Reply), \A i \in DOMAIN news : \A k \in Nat : ~AnswersTo(x, news[i], k),
         \A i \in DOMAIN news : ~news[i].body.re => news[i].causedBy = NoMessage
  PROVE  /\ InOrder(x, hs, n, up, down \o news)
         /\ Expected(x, hs, up, down) => Expected(x, hs, up, down \o news)
         /\ Coming(x, hs, up, down) => Coming(x, hs, up, down \o news)
  <1> DEFINE all == down \o news
  <1>1. /\ all \in Seq(Reply) /\ DOMAIN down \subseteq Nat
        /\ \A i \in DOMAIN down : i \in DOMAIN all /\ all[i] = down[i]
        /\ \A i \in DOMAIN all : \/ i \in DOMAIN down /\ all[i] = down[i]
                                 \/ \E j \in DOMAIN news : all[i] = news[j]
    BY ConcatParts DEF InOrder
  <1> HIDE DEF all
  <1>2. \A i \in DOMAIN all : \A k \in Nat :
          AnswersTo(x, all[i], k) => i \in DOMAIN down /\ AnswersTo(x, down[i], k)
    BY <1>1 DEF AnswersTo
  <1>3. InOrder(x, hs, n, up, all)
    <2>1. \A i \in DOMAIN all : ~all[i].body.re => all[i].causedBy = NoMessage
      BY <1>1 DEF InOrder
    <2>2. QED
      BY <1>1, <1>2, <2>1 DEF InOrder
  <1>4. Expected(x, hs, up, down) => Expected(x, hs, up, all)
    BY <1>2 DEF Expected
  <1>5. Coming(x, hs, up, down) => Coming(x, hs, up, all)
    BY <1>1 DEF Coming
  <1>6. QED
    BY <1>3, <1>4, <1>5 DEF all

(* The first letter is handled: exactly one message that comes down then   *)
(* answers it.                                                             *)
LEMMA HandledOrdered ==
  ASSUME NEW x, NEW hs, NEW n, NEW up, NEW down, InOrder(x, hs, n, up, down), up # <<>>,
         NEW news \in Seq(Reply),
         NEW a \in DOMAIN news, AnswersTo(x, news[a], Head(up).id),
         \A i \in DOMAIN news : \A k \in Nat : AnswersTo(x, news[i], k) => i = a,
         \A i \in DOMAIN news : ~news[i].body.re => news[i].causedBy = NoMessage
  PROVE  /\ InOrder(x, hs, n, Tail(up), down \o news)
         /\ Expected(x, hs, up, down) => Expected(x, hs, Tail(up), down \o news)
         /\ Coming(x, hs, up, down) => Coming(x, hs, Tail(up), down \o news)
  <1> DEFINE all  == down \o news
             rest == Tail(up)
             id   == Head(up).id
  <1>1. /\ all \in Seq(Reply) /\ DOMAIN down \subseteq Nat
        /\ \A i \in DOMAIN down : i \in DOMAIN all /\ all[i] = down[i]
        /\ a + Len(down) \in DOMAIN all /\ all[a + Len(down)] = news[a]
        /\ \A i \in DOMAIN all : \/ i \in DOMAIN down /\ all[i] = down[i]
                                 \/ /\ i - Len(down) \in DOMAIN news /\ i > Len(down)
                                    /\ all[i] = news[i - Len(down)]
        /\ DOMAIN down = 1..Len(down) /\ Len(down) \in Nat /\ DOMAIN all \subseteq Nat
        /\ a \in Nat
    <2>1. down \in Seq(Reply)
      BY DEF InOrder
    <2>2. DOMAIN news = 1..Len(news) /\ Len(news) \in Nat
      OBVIOUS
    <2>3. QED
      BY <2>1, <2>2, ConcatParts
  <1>2. /\ 1 \in DOMAIN up /\ id = up[1].id /\ rest \in Seq(Letter) /\ up[1] \in Letter
        /\ \A i \in DOMAIN rest : i + 1 \in DOMAIN up /\ rest[i] = up[i + 1] /\ i \in Nat \ {0}
        /\ \A i \in DOMAIN up : i \in Nat \ {0}
        /\ \A i \in DOMAIN up : i # 1 => i - 1 \in DOMAIN rest /\ rest[i - 1] = up[i]
    <2>1. up \in Seq(Letter)
      BY DEF InOrder
    <2>2. QED
      BY <2>1, TailParts
  <1>3. id \in Nat /\ id <= n
    BY <1>2 DEF Letter, InOrder
  <1>4. \A j \in DOMAIN rest : id < rest[j].id
    BY <1>2 DEF InOrder
  <1>5. \A k \in Nat : AnswersTo(x, news[a], k) => k = id
    BY DEF AnswersTo
  <1> HIDE DEF all, rest, id
  <1>6. \A i \in DOMAIN all : \A k \in Nat : AnswersTo(x, all[i], k) =>
          \/ i \in DOMAIN down /\ AnswersTo(x, down[i], k) /\ k < id
          \/ i = a + Len(down) /\ k = id
    <2>1. \A i \in DOMAIN down : \A k \in Nat : AnswersTo(x, down[i], k) => k < id
      BY <1>2 DEF InOrder
    <2>2. SUFFICES ASSUME NEW i \in DOMAIN all, NEW k \in Nat, AnswersTo(x, all[i], k),
                          i \notin DOMAIN down
                   PROVE  i = a + Len(down) /\ k = id
      BY <1>1, <2>1 DEF AnswersTo
    <2>3. i - Len(down) \in DOMAIN news /\ all[i] = news[i - Len(down)]
      BY <1>1, <2>2
    <2>4. i - Len(down) = a
      BY <2>2, <2>3
    <2>5. QED
      BY <1>1, <1>5, <2>2, <2>3, <2>4
  <1>7. InOrder(x, hs, n, rest, all)
    <2>1. ASSUME NEW i \in DOMAIN all, ~all[i].body.re PROVE all[i].causedBy = NoMessage
      <3>1. CASE i \in DOMAIN down /\ all[i] = down[i]
        BY <2>1, <3>1 DEF InOrder
      <3>2. CASE i - Len(down) \in DOMAIN news /\ all[i] = news[i - Len(down)]
        BY <2>1, <3>2
      <3>3. QED
        BY <1>1, <3>1, <3>2
    <2>2. /\ \A i \in DOMAIN rest : rest[i].id <= n
          /\ \A r \in hs : \A i \in DOMAIN rest : r.id = rest[i].id => r = rest[i]
          /\ \A i, j \in DOMAIN rest : i < j => rest[i].id < rest[j].id
      <3>1. \A i, j \in DOMAIN rest : i < j => i + 1 < j + 1
        BY <1>2
      <3>2. \A i \in DOMAIN rest : rest[i].id <= n
        BY <1>2 DEF InOrder
      <3>3. \A r \in hs : \A i \in DOMAIN rest : r.id = rest[i].id => r = rest[i]
        BY <1>2 DEF InOrder
      <3>4. \A i, j \in DOMAIN up : i < j => up[i].id < up[j].id
        BY DEF InOrder
      <3>5. QED
        BY <1>2, <3>1, <3>2, <3>3, <3>4
    <2>3. ASSUME NEW i \in DOMAIN all, NEW k \in Nat, AnswersTo(x, all[i], k)
          PROVE  /\ k <= n
                 /\ \A j \in DOMAIN rest : k < rest[j].id
                 /\ \A j \in DOMAIN all : \A m \in Nat : i < j /\ AnswersTo(x, all[j], m) => k < m
      <3>1. k <= n
        BY <1>3, <1>6, <2>3 DEF InOrder
      <3>2. \A j \in DOMAIN rest : k < rest[j].id
        <4>1. CASE k = id
          BY <1>4, <4>1
        <4>2. CASE i \in DOMAIN down /\ AnswersTo(x, down[i], k)
          BY <1>2, <4>2 DEF InOrder
        <4>3. QED
          BY <1>6, <2>3, <4>1, <4>2
      <3>3. ASSUME NEW j \in DOMAIN all, NEW m \in Nat, i < j, AnswersTo(x, all[j], m)
            PROVE  k < m
        <4>1. CASE i \in DOMAIN down /\ AnswersTo(x, down[i], k) /\ k < id
          BY <1>6, <3>3, <4>1 DEF InOrder
        <4>2. CASE i = a + Len(down)
          <5>1. j \in DOMAIN down \/ j = a + Len(down)
            BY <1>6, <3>3
          <5>2. ~(i < j)
            BY <1>1, <4>2, <5>1
          <5>3. QED
            BY <3>3, <5>2
        <4>3. QED
          BY <1>6, <2>3, <4>1, <4>2
      <3>4. QED
        BY <3>1, <3>2, <3>3
    <2>4. QED
      BY <1>1, <1>2, <2>1, <2>2, <2>3 DEF InOrder
  <1>8. ASSUME Expected(x, hs, up, down) PROVE Expected(x, hs, rest, all)
    <2>1. \A i \in DOMAIN rest : rest[i] \in hs
      BY <1>2, <1>8 DEF Expected
    <2>2. up[1] \in hs /\ up[1].id = id
      BY <1>2, <1>8 DEF Expected, id
    <2>3. QED
      BY <1>6, <1>8, <2>1, <2>2 DEF Expected
  <1>9. ASSUME Coming(x, hs, up, down) PROVE Coming(x, hs, rest, all)
    <2>1. AnswersTo(x, all[a + Len(down)], up[1].id)
      BY <1>1, <1>2 DEF id
    <2>2. SUFFICES ASSUME NEW r \in hs
                   PROVE  \/ \E i \in DOMAIN rest : rest[i] = r
                          \/ \E i \in DOMAIN all : AnswersTo(x, all[i], r.id)
      BY DEF Coming
    <2>3. CASE \E i \in DOMAIN up : up[i] = r
      <3>1. PICK i \in DOMAIN up : up[i] = r
        BY <2>3
      <3>2. CASE i = 1
        BY <1>1, <2>1, <3>1, <3>2
      <3>3. CASE i # 1
        BY <1>2, <3>1, <3>3
      <3>4. QED
        BY <3>2, <3>3
    <2>4. CASE \E i \in DOMAIN down : AnswersTo(x, down[i], r.id)
      BY <1>1, <2>4
    <2>5. QED
      BY <1>9, <2>3, <2>4 DEF Coming
  <1>10. QED
    BY <1>7, <1>8, <1>9 DEF all, rest
-----------------------------------------------------------------------------
(* What a browser shows is one of its screens, with a whiteboard or not.   *)

LEMMA Screens ==
  ASSUME NEW s \in ConnectionState
  PROVE  /\ s.state \in {"CONNECTING", "ANONYMOUS", "NO_WHITEBOARD", "DISCONNECTED"} =>
              s = Screen(s.state)
         /\ s.state \in {"PENDING_APPROVAL", "WHITEBOARD_USER", "WHITEBOARD_HOST",
                         "SESSION_ENDED"} => s = On(s.state, s.board) /\ s.board \in Boards
         /\ s.state \in {"CONNECTING", "ANONYMOUS", "NO_WHITEBOARD", "DISCONNECTED",
                         "PENDING_APPROVAL", "WHITEBOARD_USER", "WHITEBOARD_HOST",
                         "SESSION_ENDED"}
  BY DEF ConnectionState, Screen, On

LEMMA AreScreens ==
  /\ \A state \in {"CONNECTING", "ANONYMOUS", "NO_WHITEBOARD", "DISCONNECTED"} :
       Screen(state) \in ConnectionState
  /\ \A b \in Boards, state \in {"PENDING_APPROVAL", "WHITEBOARD_USER", "WHITEBOARD_HOST",
                                 "SESSION_ENDED"} : On(state, b) \in ConnectionState
  BY DEF ConnectionState

(* The screens of a browser that has a connection.                         *)
Online(s) == s.state \notin {"CONNECTING", "DISCONNECTED"}

LEMMA MessageFields ==
  ASSUME NEW m \in ProperMessage \cup {Timeout}
  PROVE  /\ m.type = "whiteboardCreated" => m.board \in Boards
         /\ m.type = "clientWantsToJoin" => m.client \in Clients
         /\ m.type = "userListChanged" => m.present \subseteq Clients /\ m.past \subseteq Clients
  <1>1. CASE m = Timeout
    BY <1>1 DEF Timeout, Plain
  <1>2. CASE m \in ProperMessage
    <2>1. m \in SessionMessage
      BY <1>2 DEF ProperMessage
    <2>2. m.type = "whiteboardCreated" => m.board \in Boards
      BY <2>1 DEF SessionMessage
    <2>3. m.type = "clientWantsToJoin" => m.client \in Clients
      BY <2>1 DEF SessionMessage
    <2>4. m.type = "userListChanged" => m.present \subseteq Clients /\ m.past \subseteq Clients
      BY <2>1 DEF SessionMessage
    <2>5. QED
      BY <2>2, <2>3, <2>4
  <1>3. QED
    BY <1>1, <1>2

LEMMA MessageShows ==
  ASSUME NEW s \in ConnectionState, NEW m
  PROVE  /\ handleMessage(s, m) \in ConnectionState
         /\ Online(s) => Online(handleMessage(s, m))
  <1>1. handleMessage(s, m) \in {s, On("WHITEBOARD_USER", s.board), Screen("NO_WHITEBOARD"),
                                 On("SESSION_ENDED", s.board)}
    BY DEF handleMessage, handleJoinApproved, handleJoinDenied, handleSessionEnded
  <1>2. handleMessage(s, m) # s => s.state \in {"PENDING_APPROVAL", "WHITEBOARD_USER",
                                                "WHITEBOARD_HOST"}
    BY DEF handleMessage, handleJoinApproved, handleJoinDenied, handleSessionEnded
  <1>3. \A state, b : On(state, b).state = state /\ Screen(state).state = state
    BY DEF On, Screen
  <1>4. QED
    BY <1>1, <1>2, <1>3, Screens, AreScreens DEF Online

LEMMA CallbackShows ==
  ASSUME NEW s \in ConnectionState, NEW body \in SessionBody,
         NEW m \in ProperMessage \cup {Timeout}
  PROVE  /\ callback(s, body, m) \in ConnectionState
         /\ Online(s) => Online(callback(s, body, m))
  <1>1. \/ callback(s, body, m) \in {s, Screen("NO_WHITEBOARD")}
        \/ /\ callback(s, body, m) = On("PENDING_APPROVAL", body.board)
           /\ body.case = "joinWhiteboard"
        \/ /\ callback(s, body, m) = On("WHITEBOARD_HOST", m.board)
           /\ m.type = "whiteboardCreated"
    BY DEF callback
  <1>2. m.type = "whiteboardCreated" => m.board \in Boards
    BY MessageFields
  <1>3. \A state, b : On(state, b).state = state /\ Screen(state).state = state
    BY DEF On, Screen
  <1>4. QED
    BY <1>1, <1>2, <1>3, Bodies, AreScreens DEF Online

UserLists == [present : SUBSET Clients, past : SUBSET Clients, pending : SUBSET Clients]

LEMMA ListsFollow ==
  ASSUME NEW u \in UserLists, NEW m \in ProperMessage \cup {Timeout}
  PROVE  /\ usersAfterMessage(u, m) \in UserLists
         /\ \A body \in SessionBody : usersAfterCallback(u, body, m) \in UserLists
  <1>1. /\ m.type = "clientWantsToJoin" => m.client \in Clients
        /\ m.type = "userListChanged" => m.present \subseteq Clients /\ m.past \subseteq Clients
    BY MessageFields
  <1>2. usersAfterMessage(u, m) \in UserLists
    BY <1>1 DEF usersAfterMessage, UserLists
  <1>3. \A body \in SessionBody : usersAfterCallback(u, body, m) \in UserLists
    BY DEF usersAfterCallback, UserLists, NoUsers
  <1>4. QED
    BY <1>2, <1>3
-----------------------------------------------------------------------------
(* The steps of a browser.                                                 *)

NewLetter(c, body) == [id |-> sent[c] + 1, body |-> body]

LEMMA SendsOne ==
  ASSUME ClientTypes, NEW c \in Clients, NEW before, NEW body \in SessionBody,
         SendAll(c, before, <<body>>)
  PROVE  /\ NewLetter(c, body) \in Letter
         /\ sent[c] + 1 \in 0..MaxRequests
         /\ sent' = [sent EXCEPT ![c] = @ + 1]
         /\ handlers' = [handlers EXCEPT ![c] = before \cup {NewLetter(c, body)}]
         /\ toServer' = IF Linked(c)
                        THEN [toServer EXCEPT ![c] = @ \o <<NewLetter(c, body)>>] ELSE toServer
  <1> DEFINE messages == [i \in DOMAIN <<body>> |-> [id |-> sent[c] + i, body |-> <<body>>[i]]]
  <1>1. messages = <<NewLetter(c, body)>> /\ Len(<<body>>) = 1 /\ DOMAIN messages = {1}
    BY DEF NewLetter
  <1>2. sent[c] \in 0..MaxRequests /\ MaxRequests \in Nat
    BY ClientSessionAssumption DEF ClientTypes
  <1>3. sent[c] + 1 \in 0..MaxRequests /\ NewLetter(c, body) \in Letter
    BY <1>1, <1>2 DEF SendAll, NewLetter, Letter
  <1>4. {messages[i] : i \in DOMAIN <<body>>} = {NewLetter(c, body)}
    BY <1>1
  <1>5. handlers' = [handlers EXCEPT ![c] = before \cup {messages[i] : i \in DOMAIN <<body>>}]
    BY DEF SendAll
  <1>6. toServer' = IF Linked(c) THEN [toServer EXCEPT ![c] = @ \o messages] ELSE toServer
    BY DEF SendAll, Linked
  <1>7. sent' = [sent EXCEPT ![c] = @ + 1]
    BY <1>1 DEF SendAll
  <1> HIDE DEF messages
  <1>8. QED
    BY <1>1, <1>3, <1>4, <1>5, <1>6, <1>7
Post(c) ==
  /\ InOrder(c, handlers[c], sent[c], toServer[c], toClient[c])
  /\ Linked(c) => Coming(c, handlers[c], toServer[c], toClient[c])
  /\ c \notin gaveUp => Expected(c, handlers[c], toServer[c], toClient[c])
  /\ link[c] = "connecting" => /\ handlers[c] = {} /\ toServer[c] = <<>>
                               /\ clientState[c] = Screen("CONNECTING")
  /\ link[c] = "open" => Online(clientState[c])

PostOK == WellTyped /\ \A c \in Clients : Post(c)

(* Nothing happens to the browser x and to its connection.                 *)
Untroubled(x) ==
  /\ UNCHANGED <<socket[x], link[x], clientState[x], handlers[x], sent[x],
                 toServer[x], toClient[x]>>
  /\ gaveUp \subseteq gaveUp'

LEMMA UntroubledPost ==
  ASSUME NEW x \in Clients, Post(x), Untroubled(x)
  PROVE  Post(x)'
  BY DEF Post, Untroubled, Linked

(* A request is sent, after some letters were struck off.                  *)
LEMMA SendingPost ==
  ASSUME ClientTypes, NEW c \in Clients, NEW hs, NEW down, NEW body \in SessionBody,
         SendAll(c, hs, <<body>>), UNCHANGED <<socket, link, gaveUp>>,
         InOrder(c, hs, sent[c], toServer[c], down),
         Linked(c) => Coming(c, hs, toServer[c], down),
         c \notin gaveUp => Expected(c, hs, toServer[c], down)
  PROVE  /\ InOrder(c, handlers'[c], sent'[c], toServer'[c], down)
         /\ Linked(c)' => Coming(c, handlers'[c], toServer'[c], down)
         /\ c \notin gaveUp' => Expected(c, handlers'[c], toServer'[c], down)
  <1> DEFINE l  == NewLetter(c, body)
             up == toServer[c]
             to == IF Linked(c) THEN up \o <<l>> ELSE up
  <1>0. /\ l \in Letter /\ sent' = [sent EXCEPT ![c] = @ + 1]
        /\ handlers' = [handlers EXCEPT ![c] = hs \cup {l}]
        /\ toServer' = IF Linked(c) THEN [toServer EXCEPT ![c] = @ \o <<l>>] ELSE toServer
    BY SendsOne
  <1>1. l.id = sent[c] + 1
    BY DEF NewLetter
  <1> HIDE DEF l
  <1>2. /\ toServer'[c] = to /\ to \in {up, up \o <<l>>}
        /\ handlers'[c] = hs \cup {l} /\ sent'[c] = sent[c] + 1
    BY <1>0 DEF ClientTypes
  <1>3. /\ InOrder(c, hs \cup {l}, sent[c] + 1, to, down)
        /\ Expected(c, hs, up, down) => Expected(c, hs \cup {l}, to, down)
        /\ Coming(c, hs, up, down) => Coming(c, hs \cup {l}, up \o <<l>>, down)
    BY <1>0, <1>1, <1>2, SendOrdered
  <1>4. QED
    BY <1>1, <1>2, <1>3 DEF Linked

LEMMA SendingTypes ==
  ASSUME ClientTypes, NEW c \in Clients, NEW hs \in SUBSET Letter, NEW body \in SessionBody,
         SendAll(c, hs, <<body>>)
  PROVE  /\ handlers' \in [Clients -> SUBSET Letter] /\ sent' \in [Clients -> 0..MaxRequests]
         /\ toServer' \in [Clients -> Seq(Letter)]
         /\ \A x \in Clients \ {c} : UNCHANGED <<handlers[x], sent[x], toServer[x]>>
  <1> DEFINE l == NewLetter(c, body)
  <1>1. /\ l \in Letter /\ sent[c] + 1 \in 0..MaxRequests
        /\ sent' = [sent EXCEPT ![c] = @ + 1]
        /\ handlers' = [handlers EXCEPT ![c] = hs \cup {l}]
        /\ \/ toServer' = [toServer EXCEPT ![c] = @ \o <<l>>]
           \/ toServer' = toServer
    BY SendsOne
  <1> HIDE DEF l
  <1>2. toServer[c] \in Seq(Letter) /\ <<l>> \in Seq(Letter)
    BY <1>1 DEF ClientTypes
  <1>3. toServer[c] \o <<l>> \in Seq(Letter)
    BY <1>2, ConcatProperties
  <1>4. QED
    BY <1>1, <1>3 DEF ClientTypes

(* A button that sends a request.                                          *)
LEMMA PressPost ==
  ASSUME PostOK, NEW c \in Clients, NEW body \in SessionBody, Press(c, body),
         Online(clientState[c])
  PROVE  PostOK'
  <1>1. /\ SendAll(c, handlers[c], <<body>>) /\ ServerIdle
        /\ UNCHANGED <<link, clientState, users, gaveUp, astray, evicted, toClient, socket>>
    BY DEF Press, PressAll, ServerIdle
  <1>2. ClientTypes /\ handlers[c] \in SUBSET Letter /\ Post(c) /\ link[c] # "connecting"
    <2>1. link[c] = "connecting" => ~Online(clientState[c])
      BY DEF PostOK, Post, Online, Screen, On
    <2>2. QED
      BY <2>1 DEF PostOK, WellTyped, ClientTypes
  <1>3. Books' /\ MailOK'
    BY <1>1, IdleIsCorrect DEF PostOK, WellTyped
  <1>4. ClientTypes'
    <2>1. /\ handlers' \in [Clients -> SUBSET Letter] /\ sent' \in [Clients -> 0..MaxRequests]
          /\ toServer' \in [Clients -> Seq(Letter)]
      BY <1>1, <1>2, SendingTypes
    <2>2. QED
      BY <1>1, <1>2, <2>1 DEF ClientTypes
  <1>5. Post(c)'
    <2>1. /\ InOrder(c, handlers'[c], sent'[c], toServer'[c], toClient[c])
          /\ Linked(c)' => Coming(c, handlers'[c], toServer'[c], toClient[c])
          /\ c \notin gaveUp' => Expected(c, handlers'[c], toServer'[c], toClient[c])
      BY <1>1, <1>2, SendingPost DEF Post
    <2>2. QED
      BY <1>1, <1>2, <2>1 DEF Post
  <1>6. ASSUME NEW x \in Clients, x # c PROVE Post(x)'
    <2>1. Untroubled(x)
      BY <1>1, <1>2, <1>6, SendingTypes DEF Untroubled
    <2>2. QED
      BY <2>1, UntroubledPost DEF PostOK
  <1>7. QED
    BY <1>3, <1>4, <1>5, <1>6 DEF PostOK, WellTyped

LEMMA UserPresses ==
  ASSUME ClientTypes, NEW c \in Clients, UserAction(c)
  PROVE  \/ exitEndedSession(c)
         \/ \E body \in SessionBody : Press(c, body) /\ Online(clientState[c])
  <1>1. ASSUME setUsername(c) \/ createWhiteboard(c) \/ leaveWhiteboard(c)
        PROVE  \E body \in SessionBody : Press(c, body) /\ Online(clientState[c])
    BY <1>1 DEF setUsername, createWhiteboard, leaveWhiteboard, SessionBody, Online
  <1>2. ASSUME NEW b \in Boards, joinWhiteboard(c, b)
        PROVE  \E body \in SessionBody : Press(c, body) /\ Online(clientState[c])
    BY <1>2 DEF joinWhiteboard, SessionBody, Online
  <1>3. ASSUME NEW x \in Clients, approveOrDenyUser(c, x)
        PROVE  \E body \in SessionBody : Press(c, body) /\ Online(clientState[c])
    BY <1>3 DEF approveOrDenyUser, SessionBody, Online
  <1>4. QED
    BY <1>1, <1>2, <1>3 DEF UserAction
-----------------------------------------------------------------------------
(* The events of a browser, which leave the others and the server alone.   *)

LEMMA OnlyOneMoves ==
  ASSUME PostOK, ServerIdle, ClientTypes', NEW c \in Clients, Post(c)',
         \A x \in Clients \ {c} : Untroubled(x)
  PROVE  PostOK'
  <1>1. Books' /\ MailOK'
    BY IdleIsCorrect DEF PostOK, WellTyped
  <1>2. \A x \in Clients \ {c} : Post(x)'
    BY UntroubledPost DEF PostOK
  <1>3. QED
    BY <1>1, <1>2 DEF PostOK, WellTyped

LEMMA ExitPost ==
  ASSUME PostOK, NEW c \in Clients, exitEndedSession(c)
  PROVE  PostOK'
  <1>1. /\ ServerIdle /\ clientState' = [clientState EXCEPT ![c] = Screen("NO_WHITEBOARD")]
        /\ users' = [users EXCEPT ![c] = NoUsers] /\ clientState[c].state = "SESSION_ENDED"
        /\ UNCHANGED <<socket, link, handlers, sent, gaveUp, astray, evicted, toServer, toClient>>
    BY DEF exitEndedSession, ServerIdle, channelVars
  <1>2. ClientTypes /\ Post(c)
    BY DEF PostOK, WellTyped
  <1>3. ClientTypes'
    BY <1>1, <1>2, AreScreens DEF ClientTypes, NoUsers
  <1>4. clientState'[c] = Screen("NO_WHITEBOARD") /\ link[c] # "connecting"
    BY <1>1, <1>2 DEF ClientTypes, Post, Screen, On
  <1>5. Post(c)'
    BY <1>1, <1>2, <1>4 DEF Post, Online, Screen, On, Linked
  <1>6. \A x \in Clients \ {c} : Untroubled(x)
    BY <1>1, <1>2 DEF Untroubled, ClientTypes
  <1>7. QED
    BY <1>1, <1>3, <1>5, <1>6, OnlyOneMoves

LEMMA ConnectedPost ==
  ASSUME PostOK, NEW c \in Clients, Connected(c)
  PROVE  PostOK'
  <1>1. /\ ServerIdle /\ clientState' = [clientState EXCEPT ![c] = Screen("ANONYMOUS")]
        /\ link[c] = "connecting" /\ link' = [link EXCEPT ![c] = "open"]
        /\ UNCHANGED <<socket, users, handlers, sent, gaveUp, astray, evicted,
                       toServer, toClient>>
    BY DEF Connected, ServerIdle, channelVars
  <1>2. ClientTypes /\ Post(c)
    BY DEF PostOK, WellTyped
  <1>3. ClientTypes'
    BY <1>1, <1>2, AreScreens DEF ClientTypes
  <1>4. clientState'[c] = Screen("ANONYMOUS") /\ link'[c] = "open" /\ handlers[c] = {}
    BY <1>1, <1>2 DEF ClientTypes, Post
  <1>5. Post(c)'
    BY <1>1, <1>2, <1>4 DEF Post, Online, Screen, On, Coming
  <1>6. \A x \in Clients \ {c} : Untroubled(x)
    BY <1>1, <1>2 DEF Untroubled, ClientTypes
  <1>7. QED
    BY <1>1, <1>3, <1>5, <1>6, OnlyOneMoves

LEMMA DisconnectedPost ==
  ASSUME PostOK, NEW c \in Clients, Disconnected(c)
  PROVE  PostOK'
  <1>1. /\ ServerIdle /\ clientState' = [clientState EXCEPT ![c] = Screen("DISCONNECTED")]
        /\ link' = [link EXCEPT ![c] = "closed"]
        /\ toClient' = [toClient EXCEPT ![c] = <<>>]
        /\ UNCHANGED <<socket, users, handlers, sent, gaveUp, astray, evicted, toServer>>
    BY DEF Disconnected, ServerIdle
  <1>2. ClientTypes /\ Post(c)
    BY DEF PostOK, WellTyped
  <1>3. ClientTypes'
    <2>1. <<>> \in Seq(Reply)
      BY EmptySeq
    <2>2. QED
      BY <1>1, <1>2, <2>1, AreScreens DEF ClientTypes
  <1>4. link'[c] = "closed" /\ toClient'[c] = <<>>
    BY <1>1, <1>2 DEF ClientTypes
  <1>5. Post(c)'
    BY <1>1, <1>2, <1>4, CutOrdered DEF Post, Linked
  <1>6. \A x \in Clients \ {c} : Untroubled(x)
    BY <1>1, <1>2 DEF Untroubled, ClientTypes
  <1>7. QED
    BY <1>1, <1>3, <1>5, <1>6, OnlyOneMoves

LEMMA TimeOutPost ==
  ASSUME PostOK, NEW c \in Clients, TimeOut(c)
  PROVE  PostOK'
  <1>1. PICK r \in handlers[c] :
          /\ ServerIdle /\ handlers' = [handlers EXCEPT ![c] = @ \ {r}]
          /\ clientState' = [clientState EXCEPT ![c] = callback(@, r.body, Timeout)]
          /\ users' = [users EXCEPT ![c] = usersAfterCallback(@, r.body, Timeout)]
          /\ gaveUp' = IF r.body.case \in FigureMessages THEN gaveUp ELSE gaveUp \cup {c}
          /\ UNCHANGED <<socket, link, sent, astray, evicted, toServer, toClient>>
    BY DEF TimeOut, ServerIdle, channelVars
  <1>2. ClientTypes /\ Post(c)
    BY DEF PostOK, WellTyped
  <1>3. r \in Letter /\ r.body \in SessionBody /\ r.body.case \notin FigureMessages
    <2>1. r \in Letter
      BY <1>2 DEF ClientTypes
    <2>2. r.body \in SessionBody
      BY <2>1 DEF Letter
    <2>3. QED
      BY <2>1, <2>2, Bodies
  <1>4. /\ clientState[c] \in ConnectionState /\ users[c] \in UserLists
        /\ Timeout \in ProperMessage \cup {Timeout}
    BY <1>2 DEF ClientTypes, UserLists
  <1>5. /\ callback(clientState[c], r.body, Timeout) \in ConnectionState
        /\ Online(clientState[c]) => Online(callback(clientState[c], r.body, Timeout))
        /\ usersAfterCallback(users[c], r.body, Timeout) \in UserLists
    BY <1>3, <1>4, CallbackShows, ListsFollow
  <1>6. ClientTypes'
    <2>1. clientState' \in [Clients -> ConnectionState]
      BY <1>1, <1>2, <1>5 DEF ClientTypes
    <2>2. users' \in [Clients -> UserLists]
      BY <1>1, <1>2, <1>5 DEF ClientTypes, UserLists
    <2>3. handlers' \in [Clients -> SUBSET Letter] /\ gaveUp' \subseteq Clients
      BY <1>1, <1>2 DEF ClientTypes
    <2>4. QED
      BY <1>1, <1>2, <2>1, <2>2, <2>3 DEF ClientTypes, UserLists
  <1>7. /\ handlers'[c] = handlers[c] \ {r} /\ c \in gaveUp'
        /\ clientState'[c] = callback(clientState[c], r.body, Timeout)
    BY <1>1, <1>2, <1>3 DEF ClientTypes
  <1>8. Post(c)'
    <2>1. link[c] # "connecting"
      BY <1>1, <1>2 DEF Post
    <2>2. InOrder(c, handlers[c], sent[c], toServer[c], toClient[c])
      BY <1>2 DEF Post
    <2>3. /\ InOrder(c, handlers[c] \ {r}, sent[c], toServer[c], toClient[c])
          /\ Coming(c, handlers[c], toServer[c], toClient[c]) =>
               Coming(c, handlers[c] \ {r}, toServer[c], toClient[c])
      BY <2>2, ForgetOrdered
    <2>4. link[c] = "open" => Online(clientState'[c])
      BY <1>2, <1>5, <1>7 DEF Post
    <2>5. QED
      BY <1>1, <1>2, <1>7, <2>1, <2>3, <2>4 DEF Post, Linked
  <1>9. \A x \in Clients \ {c} : Untroubled(x)
    BY <1>1, <1>2 DEF Untroubled, ClientTypes
  <1>10. QED
    BY <1>1, <1>6, <1>8, <1>9, OnlyOneMoves
(* What a message shows, and what the callback of the request that caused  *)
(* it does then.                                                           *)
LEMMA ReceiveTypes ==
  ASSUME ClientTypes, NEW c \in Clients, Receive(c)
  PROVE  /\ clientState' \in [Clients -> ConnectionState] /\ users' \in [Clients -> UserLists]
         /\ astray' \subseteq Clients /\ evicted' \subseteq Clients
         /\ \A x \in Clients \ {c} : UNCHANGED clientState[x]
         /\ Online(clientState[c]) => Online(clientState'[c])
  <1> DEFINE m    == Head(toClient[c]).body
             s    == clientState[c]
             u    == users[c]
             hold == handleMessage(s, m)
             list == usersAfterMessage(u, m)
  <1>1. s \in ConnectionState /\ u \in UserLists /\ handlers[c] \in SUBSET Letter
    BY DEF ClientTypes, UserLists
  <1>2. m \in ProperMessage \cup {Timeout}
    <2>1. toClient[c] \in Seq(Reply) /\ toClient[c] # <<>>
      BY DEF ClientTypes, Receive
    <2>2. Head(toClient[c]) \in Reply
      BY <2>1, HeadTailProperties
    <2>3. QED
      BY <2>2 DEF Reply
  <1>3. \/ /\ clientState' = [clientState EXCEPT ![c] = hold]
           /\ users' = [users EXCEPT ![c] = list]
           /\ UNCHANGED <<astray, evicted>>
        \/ \E r \in handlers[c] :
             /\ clientState' = [clientState EXCEPT ![c] = callback(hold, r.body, m)]
             /\ users' = [users EXCEPT ![c] = usersAfterCallback(list, r.body, m)]
             /\ astray' \subseteq astray \cup {c} /\ evicted' \subseteq evicted \cup {c}
    BY DEF Receive, Caused
  <1> HIDE DEF m, s, u
  <1>4. hold \in ConnectionState /\ (Online(s) => Online(hold)) /\ list \in UserLists
    BY <1>1, <1>2, MessageShows, ListsFollow
  <1> HIDE DEF hold, list
  <1>5. CASE /\ clientState' = [clientState EXCEPT ![c] = hold]
             /\ users' = [users EXCEPT ![c] = list]
             /\ UNCHANGED <<astray, evicted>>
    BY <1>4, <1>5 DEF ClientTypes, UserLists, s
  <1>6. CASE \E r \in handlers[c] :
               /\ clientState' = [clientState EXCEPT ![c] = callback(hold, r.body, m)]
               /\ users' = [users EXCEPT ![c] = usersAfterCallback(list, r.body, m)]
               /\ astray' \subseteq astray \cup {c} /\ evicted' \subseteq evicted \cup {c}
    <2>1. PICK r \in handlers[c] :
               /\ clientState' = [clientState EXCEPT ![c] = callback(hold, r.body, m)]
               /\ users' = [users EXCEPT ![c] = usersAfterCallback(list, r.body, m)]
               /\ astray' \subseteq astray \cup {c} /\ evicted' \subseteq evicted \cup {c}
      BY <1>6
    <2>2. r.body \in SessionBody
      BY <1>1 DEF Letter
    <2>3. /\ callback(hold, r.body, m) \in ConnectionState
          /\ Online(hold) => Online(callback(hold, r.body, m))
          /\ usersAfterCallback(list, r.body, m) \in UserLists
      BY <1>2, <1>4, <2>2, CallbackShows, ListsFollow
    <2>4. QED
      BY <1>4, <2>1, <2>3 DEF ClientTypes, UserLists, s
  <1>7. QED
    BY <1>3, <1>5, <1>6

LEMMA ReceivePost ==
  ASSUME PostOK, NEW c \in Clients, Receive(c)
  PROVE  PostOK'
  <1> DEFINE down == toClient[c]
             left == handlers[c] \ Caused(c)
  <1>1. /\ ServerIdle /\ link[c] = "open" /\ down # <<>>
        /\ toClient' = [toClient EXCEPT ![c] = Tail(@)]
        /\ UNCHANGED <<socket, link, gaveUp>>
        /\ \/ /\ handlers' = [handlers EXCEPT ![c] = left]
              /\ UNCHANGED <<sent, toServer>>
           \/ \E b \in Boards : SendAll(c, left, <<JoinBody(b)>>)
    BY DEF Receive, ServerIdle
  <1>2. ClientTypes /\ Post(c)
    BY DEF PostOK, WellTyped
  <1>3. /\ clientState' \in [Clients -> ConnectionState] /\ users' \in [Clients -> UserLists]
        /\ astray' \subseteq Clients /\ evicted' \subseteq Clients
        /\ \A x \in Clients \ {c} : UNCHANGED clientState[x]
        /\ Online(clientState'[c])
    BY <1>1, <1>2, ReceiveTypes DEF Post
  <1>4. /\ InOrder(c, left, sent[c], toServer[c], Tail(down))
        /\ Linked(c) => Coming(c, left, toServer[c], Tail(down))
        /\ c \notin gaveUp => Expected(c, left, toServer[c], Tail(down))
    <2>1. left = handlers[c] \ {r \in handlers[c] : AnswersTo(c, Head(down), r.id)}
      BY DEF Caused, AnswersTo
    <2>2. /\ InOrder(c, handlers[c], sent[c], toServer[c], down)
          /\ Linked(c) => Coming(c, handlers[c], toServer[c], down)
          /\ c \notin gaveUp => Expected(c, handlers[c], toServer[c], down)
      BY <1>2 DEF Post
    <2> HIDE DEF left, down
    <2>3. QED
      BY <1>1, <2>1, <2>2, ReadOrdered
  <1>5. /\ toClient' \in [Clients -> Seq(Reply)] /\ toClient'[c] = Tail(down)
        /\ \A x \in Clients \ {c} : UNCHANGED toClient[x]
    <2>1. down \in Seq(Reply)
      BY <1>2 DEF ClientTypes
    <2>2. Tail(down) \in Seq(Reply)
      BY <1>1, <2>1, HeadTailProperties
    <2>3. QED
      BY <1>1, <1>2, <2>2 DEF ClientTypes
  <1>6. left \in SUBSET Letter
    BY <1>2 DEF ClientTypes
  <1> HIDE DEF left
  <1>7. /\ handlers' \in [Clients -> SUBSET Letter] /\ sent' \in [Clients -> 0..MaxRequests]
        /\ toServer' \in [Clients -> Seq(Letter)]
        /\ \A x \in Clients \ {c} : UNCHANGED <<handlers[x], sent[x], toServer[x]>>
        /\ InOrder(c, handlers'[c], sent'[c], toServer'[c], Tail(down))
        /\ Linked(c)' => Coming(c, handlers'[c], toServer'[c], Tail(down))
        /\ c \notin gaveUp' => Expected(c, handlers'[c], toServer'[c], Tail(down))
    <2>1. CASE /\ handlers' = [handlers EXCEPT ![c] = left]
               /\ UNCHANGED <<sent, toServer>>
      BY <1>1, <1>2, <1>4, <1>6, <2>1 DEF ClientTypes, Linked
    <2>2. CASE \E b \in Boards : SendAll(c, left, <<JoinBody(b)>>)
      <3>1. PICK b \in Boards : SendAll(c, left, <<JoinBody(b)>>)
        BY <2>2
      <3>2. JoinBody(b) \in SessionBody
        BY DEF SessionBody
      <3>3. QED
        BY <1>1, <1>2, <1>4, <1>6, <3>1, <3>2, SendingTypes, SendingPost
    <2>3. QED
      BY <1>1, <2>1, <2>2
  <1>8. ClientTypes'
    BY <1>1, <1>2, <1>3, <1>5, <1>7 DEF ClientTypes, UserLists
  <1>9. Post(c)'
    BY <1>1, <1>3, <1>5, <1>7 DEF Post
  <1>10. \A x \in Clients \ {c} : Untroubled(x)
    BY <1>1, <1>3, <1>5, <1>7 DEF Untroubled
  <1>11. QED
    BY <1>1, <1>8, <1>9, <1>10, OnlyOneMoves
-----------------------------------------------------------------------------
(* What the server hands out is on its way.                                *)

Delivered(x, id) ==
  [i \in DOMAIN out'[x] |->
     [body |-> out'[x][i], causedBy |-> IF out'[x][i].re THEN id ELSE NoMessage]]

Causes == (Clients \X Nat) \cup {NoMessage}

LEMMA ProperParts ==
  ASSUME NEW m \in ProperMessage
  PROVE  m.re \in BOOLEAN
  <1>1. m \in SessionMessage
    BY DEF ProperMessage
  <1>2. QED
    BY <1>1 DEF SessionMessage

LEMMA DeliveredMail ==
  ASSUME MailOK', NEW x \in Clients, NEW id \in Causes
  PROVE  /\ Delivered(x, id) \in Seq(Reply)
         /\ DOMAIN Delivered(x, id) = DOMAIN out'[x]
         /\ \A i \in DOMAIN out'[x] :
              /\ Delivered(x, id)[i].body = out'[x][i]
              /\ out'[x][i].re => Delivered(x, id)[i].causedBy = id
              /\ ~out'[x][i].re => Delivered(x, id)[i].causedBy = NoMessage
  <1>1. out'[x] \in Seq(ProperMessage)
    BY DEF MailOK, Mail
  <1>2. DOMAIN out'[x] = 1..Len(out'[x]) /\ Len(out'[x]) \in Nat
    BY <1>1
  <1>3. \A i \in DOMAIN out'[x] : out'[x][i] \in ProperMessage
    BY <1>1, <1>2, ElementOfSeq
  <1> DEFINE d(i) == [body |-> out'[x][i], causedBy |-> IF out'[x][i].re THEN id ELSE NoMessage]
  <1>4. \A i \in DOMAIN out'[x] : d(i) \in Reply
    BY <1>3 DEF Reply, Causes
  <1>5. Delivered(x, id) = [i \in 1..Len(out'[x]) |-> d(i)]
    BY <1>2 DEF Delivered
  <1> HIDE DEF d
  <1>6. Delivered(x, id) \in Seq(Reply) /\ DOMAIN Delivered(x, id) = DOMAIN out'[x]
    BY <1>2, <1>4, <1>5
  <1>7. \A i \in DOMAIN out'[x] :
              /\ Delivered(x, id)[i].body = out'[x][i]
              /\ out'[x][i].re => Delivered(x, id)[i].causedBy = id
              /\ ~out'[x][i].re => Delivered(x, id)[i].causedBy = NoMessage
    BY DEF Delivered
  <1>8. QED
    BY <1>6, <1>7

LEMMA DeliverAt ==
  ASSUME NEW id, Deliver(id), NEW x \in Clients
  PROVE  toClient'[x] = IF link[x] = "closed" THEN <<>> ELSE toClient[x] \o Delivered(x, id)
  BY DEF Deliver, Delivered

LEMMA DeliverTypes ==
  ASSUME ClientTypes, MailOK', NEW id \in Causes, Deliver(id)
  PROVE  toClient' \in [Clients -> Seq(Reply)]
  <1>1. \A x \in Clients : toClient'[x] \in Seq(Reply)
    <2>1. TAKE x \in Clients
    <2>2. toClient[x] \in Seq(Reply) /\ Delivered(x, id) \in Seq(Reply) /\ <<>> \in Seq(Reply)
      BY DeliveredMail, EmptySeq DEF ClientTypes
    <2>3. toClient[x] \o Delivered(x, id) \in Seq(Reply)
      BY <2>2, ConcatProperties
    <2>4. QED
      BY <2>2, <2>3, DeliverAt
  <1>2. toClient' = [x \in Clients |-> toClient'[x]]
    BY DEF Deliver
  <1>3. QED
    BY <1>1, <1>2

(* The browser x hears news.                                               *)
LEMMA NewsPost ==
  ASSUME ClientTypes, MailOK', NEW x \in Clients, Post(x), NEW id \in Causes, Deliver(id),
         \A k \in Nat : id # <<x, k>>, UNCHANGED browserVars,
         \/ toServer'[x] = toServer[x] /\ (Linked(x)' => Linked(x))
         \/ toServer'[x] = <<>> /\ ~Linked(x)'
  PROVE  Post(x)'
  <1> DEFINE down == toClient[x]
             news == Delivered(x, id)
             hs   == handlers[x]
             n    == sent[x]
             up   == toServer[x]
             all  == down \o news
  <1>1. /\ news \in Seq(Reply)
        /\ \A i \in DOMAIN news : \A k \in Nat : ~AnswersTo(x, news[i], k)
        /\ \A i \in DOMAIN news : ~news[i].body.re => news[i].causedBy = NoMessage
    <2>1. /\ news \in Seq(Reply)
          /\ \A i \in DOMAIN news : news[i].causedBy \in {id, NoMessage}
          /\ \A i \in DOMAIN news : ~news[i].body.re => news[i].causedBy = NoMessage
      <3>1. \A i \in DOMAIN out'[x] : out'[x][i].re \/ ~out'[x][i].re
        OBVIOUS
      <3>2. QED
        BY <3>1, DeliveredMail
    <2>2. \A k \in Nat : NoMessage # <<x, k>>
      BY ClientSessionAssumption
    <2>3. QED
      BY <2>1, <2>2 DEF AnswersTo
  <1>2. /\ InOrder(x, hs, n, up, down)
        /\ Linked(x) => Coming(x, hs, up, down)
        /\ x \notin gaveUp => Expected(x, hs, up, down)
    BY DEF Post
  <1>3. toClient'[x] = IF link[x] = "closed" THEN <<>> ELSE all
    BY DeliverAt
  <1>4. UNCHANGED <<handlers, sent, link, gaveUp, clientState>>
    BY DEF browserVars
  <1> HIDE DEF news, down
  <1>5. /\ InOrder(x, hs, n, up, all)
        /\ Linked(x) => Coming(x, hs, up, all)
        /\ x \notin gaveUp => Expected(x, hs, up, all)
    BY <1>1, <1>2, NewsOrdered
  <1> HIDE DEF all, hs, n, up
  <1>6. /\ InOrder(x, hs, n, up, toClient'[x])
        /\ Linked(x) /\ Linked(x)' => Coming(x, hs, up, toClient'[x])
        /\ x \notin gaveUp => Expected(x, hs, up, toClient'[x])
    BY <1>3, <1>4, <1>5, CutOrdered DEF Linked
  <1>7. /\ InOrder(x, hs, n, <<>>, toClient'[x])
        /\ x \notin gaveUp => Expected(x, hs, <<>>, toClient'[x])
    BY <1>6, CutOrdered
  <1>8. link[x] = "connecting" => hs = {} /\ up = <<>> /\ clientState[x] = Screen("CONNECTING")
    BY DEF Post, hs, up
  <1>9. link[x] = "open" => Online(clientState[x])
    BY DEF Post
  <1>10. CASE toServer'[x] = up /\ (Linked(x)' => Linked(x))
    BY <1>4, <1>6, <1>8, <1>9, <1>10 DEF Post, hs, n
  <1>11. CASE toServer'[x] = <<>> /\ ~Linked(x)'
    BY <1>4, <1>7, <1>8, <1>9, <1>11 DEF Post, hs, n
  <1>12. QED
    BY <1>10, <1>11 DEF up

(* Who opens and who closes a connection at the server.                    *)
LEMMA HandlersKeepSockets ==
  ASSUME NEW c \in Clients, Handle(c)
  PROVE  UNCHANGED socket
  BY DEF Handle, PlainHandler, Approves, NotAllowed, ClientHello, CreateWhiteboard,
         JoinWhiteboard, NoSuchApplicant, DenyJoin, ApproveJoin, Admit, RefuseDecision, Throws,
         LeaveWhiteboard, Answer

LEMMA SocketEvents ==
  ASSUME StateTypes, NEW c \in Clients, SocketEvent(c)
  PROVE  /\ \A x \in Clients \ {c} : UNCHANGED socket[x]
         /\ link[c] = "connecting" \/ socket'[c] = "closed"
  BY DEF StateTypes, SocketEvent, RegisterClient, CloseSocket

LEMMA SocketEventPost ==
  ASSUME PostOK, NEW c \in Clients, SocketEvent(c)
  PROVE  PostOK'
  <1>1. /\ toServer' = [toServer EXCEPT ![c] = <<>>] /\ Deliver(NoMessage)
        /\ UNCHANGED browserVars
    BY DEF SocketEvent
  <1>2. Books' /\ MailOK'
    BY SocketEventIsStep, ServerStepIsCorrect DEF PostOK, WellTyped, ServerStep
  <1>3. ClientTypes /\ NoMessage \in Causes
    BY DEF PostOK, WellTyped, Causes
  <1>4. ClientTypes'
    <2>1. toClient' \in [Clients -> Seq(Reply)]
      BY <1>1, <1>2, <1>3, DeliverTypes
    <2>2. toServer' \in [Clients -> Seq(Letter)]
      BY <1>1, <1>3, EmptySeq DEF ClientTypes
    <2>3. QED
      BY <1>1, <1>3, <2>1, <2>2 DEF ClientTypes, browserVars
  <1>5. ASSUME NEW x \in Clients PROVE Post(x)'
    <2>1. \A k \in Nat : NoMessage # <<x, k>>
      BY ClientSessionAssumption
    <2>2. Post(x) /\ StateTypes
      BY DEF PostOK, WellTyped, Books
    <2>3. \/ toServer'[x] = toServer[x] /\ (Linked(x)' => Linked(x))
          \/ toServer'[x] = <<>> /\ ~Linked(x)'
      BY <1>1, <1>3, <2>2, SocketEvents DEF Linked, ClientTypes, browserVars
    <2>4. QED
      BY <1>1, <1>2, <1>3, <2>1, <2>2, <2>3, NewsPost
  <1>6. QED
    BY <1>2, <1>4, <1>5 DEF PostOK, WellTyped

LEMMA HandlePost ==
  ASSUME PostOK, NEW c \in Clients, Handle(c)
  PROVE  PostOK'
  <1> DEFINE up   == toServer[c]
             id   == <<c, Head(up).id>>
  <1>1. WellTyped /\ ClientTypes /\ Post(c)
    BY DEF PostOK, WellTyped
  <1>2. /\ Books' /\ MailOK' /\ Answered(c) /\ up # <<>> /\ Handled(c) /\ Head(up) \in Letter
    BY <1>1, HandleAnswers
  <1>3. /\ toServer' = [toServer EXCEPT ![c] = Tail(@)] /\ Deliver(id)
        /\ UNCHANGED browserVars /\ UNCHANGED socket
    BY <1>2, HandlersKeepSockets DEF Handled
  <1>4. id \in Causes /\ Head(up).id \in Nat
    BY <1>2 DEF Letter, Causes
  <1>5. Tail(up) \in Seq(Letter)
    <2>1. up \in Seq(Letter)
      BY <1>1 DEF ClientTypes
    <2>2. QED
      BY <1>2, <2>1, HeadTailProperties
  <1>6. toServer'[c] = Tail(up) /\ \A x \in Clients \ {c} : toServer'[x] = toServer[x]
    BY <1>1, <1>3 DEF ClientTypes
  <1>7. ClientTypes'
    <2>1. toClient' \in [Clients -> Seq(Reply)]
      BY <1>1, <1>2, <1>3, <1>4, DeliverTypes
    <2>2. toServer' \in [Clients -> Seq(Letter)]
      BY <1>1, <1>3, <1>5 DEF ClientTypes
    <2>3. QED
      BY <1>1, <1>3, <2>1, <2>2 DEF ClientTypes, browserVars
  <1>8. Post(c)'
    <2> DEFINE down == toClient[c]
               news == Delivered(c, id)
               hs   == handlers[c]
               n    == sent[c]
               all  == down \o news
    <2>1. /\ InOrder(c, hs, n, up, down)
          /\ Linked(c) => Coming(c, hs, up, down)
          /\ c \notin gaveUp => Expected(c, hs, up, down)
          /\ link[c] # "connecting" /\ (link[c] = "open" => Online(clientState[c]))
      BY <1>1, <1>2 DEF Post
    <2>2. PICK a \in DOMAIN out'[c] : \A j \in DOMAIN out'[c] : out'[c][j].re <=> j = a
      BY <1>2 DEF Answered, Once
    <2>3. /\ news \in Seq(Reply) /\ a \in DOMAIN news /\ AnswersTo(c, news[a], Head(up).id)
          /\ \A i \in DOMAIN news : \A k \in Nat : AnswersTo(c, news[i], k) => i = a
          /\ \A i \in DOMAIN news : ~news[i].body.re => news[i].causedBy = NoMessage
      <3>1. /\ news \in Seq(Reply) /\ DOMAIN news = DOMAIN out'[c]
            /\ \A i \in DOMAIN out'[c] :
                 /\ news[i].body = out'[c][i]
                 /\ out'[c][i].re => news[i].causedBy = id
                 /\ ~out'[c][i].re => news[i].causedBy = NoMessage
        BY <1>2, <1>4, DeliveredMail
      <3>2. \A k \in Nat : NoMessage # <<c, k>>
        BY ClientSessionAssumption
      <3> HIDE DEF news
      <3>3. AnswersTo(c, news[a], Head(up).id)
        BY <2>2, <3>1 DEF AnswersTo
      <3>4. \A i \in DOMAIN news : \A k \in Nat : AnswersTo(c, news[i], k) => i = a
        BY <2>2, <3>1, <3>2 DEF AnswersTo
      <3>5. QED
        BY <2>2, <3>1, <3>3, <3>4
    <2>4. toClient'[c] = IF link[c] = "closed" THEN <<>> ELSE all
      BY <1>3, DeliverAt
    <2> HIDE DEF news, down, up, hs, n
    <2>5. /\ InOrder(c, hs, n, Tail(up), all)
          /\ Linked(c) => Coming(c, hs, Tail(up), all)
          /\ c \notin gaveUp => Expected(c, hs, Tail(up), all)
      BY <1>2, <2>1, <2>3, HandledOrdered
    <2> HIDE DEF all
    <2>6. /\ InOrder(c, hs, n, Tail(up), toClient'[c])
          /\ Linked(c) => Coming(c, hs, Tail(up), toClient'[c])
          /\ c \notin gaveUp => Expected(c, hs, Tail(up), toClient'[c])
      BY <2>4, <2>5, CutOrdered DEF Linked
    <2>7. QED
      BY <1>3, <1>6, <2>1, <2>6 DEF Post, Linked, browserVars, hs, n
  <1>9. ASSUME NEW x \in Clients \ {c} PROVE Post(x)'
    <2>1. /\ \A k \in Nat : id # <<x, k>>
          /\ toServer'[x] = toServer[x] /\ (Linked(x)' => Linked(x))
      BY <1>3, <1>6 DEF Linked, browserVars
    <2>2. Post(x)
      BY DEF PostOK
    <2>3. QED
      BY <1>1, <1>2, <1>3, <1>4, <2>1, <2>2, NewsPost
  <1>10. QED
    BY <1>2, <1>7, <1>8, <1>9 DEF PostOK, WellTyped
-----------------------------------------------------------------------------
(* The connections are in order at the start, and every step keeps them so. *)

LEMMA ClientInitPost == ClientInit => PostOK
  <1> SUFFICES ASSUME ClientInit PROVE PostOK
    OBVIOUS
  <1>1. Books /\ MailOK
    <2>1. Init
      BY DEF ClientInit
    <2>2. out = [c \in Clients |-> <<>>] /\ requester = NoClient
      BY <2>1 DEF Init
    <2>3. MailOK
      BY <2>2, EmptySeq DEF MailOK, Mail
    <2>4. QED
      BY <2>1, <2>3, InitBooks
  <1>2. ClientTypes
    <2>1. <<>> \in Seq(Letter) /\ <<>> \in Seq(Reply)
      BY EmptySeq
    <2>2. QED
      BY <2>1, AreScreens, ClientSessionAssumption
         DEF ClientInit, BrowsersAreNew, ClientTypes, NoUsers
  <1>3. ASSUME NEW c \in Clients PROVE Post(c)
    <2>1. /\ handlers[c] = {} /\ sent[c] = 0 /\ toServer[c] = <<>> /\ toClient[c] = <<>>
          /\ link[c] = "connecting" /\ clientState[c] = Screen("CONNECTING")
      BY <1>3 DEF ClientInit, BrowsersAreNew
    <2>2. <<>> \in Seq(Letter) /\ <<>> \in Seq(Reply) /\ DOMAIN <<>> = {}
      BY EmptySeq
    <2>3. /\ InOrder(c, {}, 0, <<>>, <<>>) /\ Coming(c, {}, <<>>, <<>>)
          /\ Expected(c, {}, <<>>, <<>>)
      BY <2>2 DEF InOrder, Coming, Expected
    <2>4. QED
      BY <2>1, <2>3 DEF Post
  <1>4. QED
    BY <1>1, <1>2, <1>3 DEF PostOK, WellTyped

LEMMA ClientNextPost == PostOK /\ [ClientNext]_clientVars => PostOK'
  <1> SUFFICES ASSUME PostOK, [ClientNext]_clientVars PROVE PostOK'
    OBVIOUS
  <1>1. CASE UNCHANGED clientVars
    BY <1>1 DEF clientVars, sessionVars, boardVars, browserVars, channelVars, PostOK, WellTyped,
       Books, StateTypes, MembershipAgrees, HostAgrees, PendingAgrees, Unopened, InBoard,
       MailOK, ClientTypes, Post, Linked
  <1>2. ASSUME NEW c \in Clients, UserAction(c) PROVE PostOK'
    BY <1>2, UserPresses, PressPost, ExitPost DEF PostOK, WellTyped
  <1>3. ASSUME NEW c \in Clients, BrowserEvent(c) PROVE PostOK'
    BY <1>3, ConnectedPost, DisconnectedPost, ReceivePost, TimeOutPost DEF BrowserEvent
  <1>4. ASSUME NEW c \in Clients, Handle(c) \/ SocketEvent(c) PROVE PostOK'
    BY <1>4, HandlePost, SocketEventPost
  <1>5. QED
    BY <1>1, <1>2, <1>3, <1>4 DEF ClientNext

(* Whatever browsers, users, timers and the server do, and wherever a      *)
(* connection breaks, requests and answers stay in order.                  *)
THEOREM PostIsOrdered == ClientSpec => []PostOK
  BY ClientInitPost, ClientNextPost, PTL DEF ClientSpec

(* The variables of the browsers and the channels always have their types, *)
(* and no message carries a number that was not handed out yet.            *)
THEOREM ClientTypesAreCorrect == ClientSpec => []ClientTypeOK
  <1>1. PostOK => ClientTypeOK
    <2> SUFFICES ASSUME PostOK PROVE ClientTypeOK
      OBVIOUS
    <2>1. ClientTypes /\ \A c \in Clients : Post(c)
      BY DEF PostOK, WellTyped
    <2>2. ASSUME NEW c \in Clients
          PROVE  /\ \A r \in handlers[c] : r.id \in 1..sent[c]
                 /\ \A i \in DOMAIN toServer[c] : toServer[c][i].id \in 1..sent[c]
                 /\ \A i \in DOMAIN toClient[c] : toClient[c][i].body \in SessionMessage
      <3>1. InOrder(c, handlers[c], sent[c], toServer[c], toClient[c])
        BY <2>1 DEF Post
      <3>2. sent[c] \in Nat /\ toServer[c] \in Seq(Letter) /\ toClient[c] \in Seq(Reply)
        BY <3>1 DEF InOrder
      <3>3. \A r \in handlers[c] : r.id \in 1..sent[c]
        BY <3>1, <3>2 DEF InOrder, Letter
      <3>4. \A i \in DOMAIN toServer[c] : toServer[c][i].id \in 1..sent[c]
        <4>1. TAKE i \in DOMAIN toServer[c]
        <4>2. toServer[c][i] \in Letter /\ toServer[c][i].id <= sent[c]
          BY <3>1, <3>2, ElementOfSeq DEF InOrder
        <4>3. QED
          BY <3>2, <4>2 DEF Letter
      <3>5. \A i \in DOMAIN toClient[c] : toClient[c][i].body \in SessionMessage
        <4>1. TAKE i \in DOMAIN toClient[c]
        <4>2. toClient[c][i] \in Reply
          BY <3>2, ElementOfSeq
        <4>3. toClient[c][i].body \in ProperMessage
          BY <4>2 DEF Reply
        <4>4. QED
          BY <4>3 DEF ProperMessage
      <3>6. QED
        BY <3>3, <3>4, <3>5
    <2>3. QED
      BY <2>1, <2>2 DEF ClientTypeOK, ClientTypes
  <1>2. QED
    BY <1>1, PostIsOrdered, PTL

(* Over an open connection no answer is lost or goes to another request:   *)
(* a request times out only because the server or the network is slow.     *)
THEOREM AnswersAlwaysCome == ClientSpec => []AnswersAreComing
  <1>1. PostOK => AnswersAreComing
    BY DEF PostOK, Post, Coming, AnswersTo, AnswersAreComing
  <1>2. QED
    BY <1>1, PostIsOrdered, PTL
-----------------------------------------------------------------------------
(***************************************************************************)
(* What a browser shows agrees with what the server has, once the          *)
(* connection between them is quiet, and no applicant is lost.             *)
(*                                                                         *)
(* While messages are on their way the two differ.  The invariant relates  *)
(* them by a trail: the states of the server that the browser has yet to   *)
(* hear of, one after each message that comes down, from the one that it   *)
(* shows to the one that the server is in now.  The list of members and    *)
(* every applicant have a place on the last, unchanging part of the trail: *)
(* the message that brought them, or the browser itself if it was read,    *)
(* and nothing behind that place removes them.                             *)
(***************************************************************************)
USE DEF boardVars

(* A message that nobody has asked for takes a client from f to g.         *)
Tells(m, f, g) ==
  \/ /\ m.type = "joinApproved" /\ ~m.re
     /\ \E b \in Boards : f = PendingOn(b) /\ g = UserOf(b)
  \/ /\ m.type = "joinDenied" /\ ~m.re
     /\ \E b \in Boards : f = PendingOn(b) /\ g = NoWhiteboard
  \/ /\ m.type = "whiteboardSessionEnded"
     /\ \E b \in Boards : f \in {UserOf(b), HostOf(b)} /\ g = NoWhiteboard
  \/ m.type \in {"clientWantsToJoin", "userListChanged"} /\ ~m.re /\ f = g

(* The answer to a request does.                                           *)
Settles(body, m, f, g) ==
  \/ m.type = "error" /\ f = g
  \/ m.type = "success" /\ body.case = "approveOrDenyJoin" /\ f = g
  \/ m.type = "success" /\ body.case = "clientHello" /\ f = Anonymous /\ g = NoWhiteboard
  \/ /\ m.type = "success" /\ body.case = "joinWhiteboard"
     /\ f = NoWhiteboard /\ g = PendingOn(body.board)
  \/ /\ m.type = "success" /\ body.case = "leaveWhiteboard"
     /\ \E b \in Boards : f = UserOf(b) /\ g = NoWhiteboard
  \/ /\ m.type = "whiteboardCreated" /\ body.case = "createWhiteboardRequest"
     /\ f = NoWhiteboard /\ g = HostOf(m.board)

(* The message d, which comes down to x, takes it from f to g.             *)
Takes(x, hs, d, f, g) ==
  \/ Tells(d.body, f, g)
  \/ \E r \in hs : AnswersTo(x, d, r.id) /\ Settles(r.body, d.body, f, g)

(* The state of the server that a browser shows; before it knows that it   *)
(* is connected, the first one.                                            *)
Shown(s) == IF s.state = "CONNECTING" THEN Anonymous ELSE ServerStateOf(s)
-----------------------------------------------------------------------------
(* A browser follows what it reads.                                        *)

LEMMA ShownStates ==
  ASSUME NEW s \in ConnectionState
  PROVE  /\ s.state = "CONNECTING" => Shown(s) = Anonymous
         /\ s.state = "ANONYMOUS" => Shown(s) = Anonymous
         /\ s.state \in {"NO_WHITEBOARD", "SESSION_ENDED"} => Shown(s) = NoWhiteboard
         /\ s.state = "PENDING_APPROVAL" => Shown(s) = PendingOn(s.board)
         /\ s.state = "WHITEBOARD_USER" => Shown(s) = UserOf(s.board)
         /\ s.state = "WHITEBOARD_HOST" => Shown(s) = HostOf(s.board)
  BY DEF Shown, ServerStateOf

LEMMA StatesDiffer ==
  /\ Anonymous # NoWhiteboard
  /\ \A b \in Boards :
       /\ {PendingOn(b), UserOf(b), HostOf(b)} \cap {Anonymous, NoWhiteboard} = {}
       /\ \A w \in Boards :
            /\ PendingOn(b) # UserOf(w) /\ PendingOn(b) # HostOf(w) /\ UserOf(b) # HostOf(w)
            /\ PendingOn(b) = PendingOn(w) => b = w
            /\ UserOf(b) = UserOf(w) => b = w
            /\ HostOf(b) = HostOf(w) => b = w
  BY DEF Anonymous, NoWhiteboard, PendingOn, UserOf, HostOf

(* Only a whiteboard makes a state.                                        *)
LEMMA StateBoards ==
  ASSUME NEW b, {PendingOn(b), UserOf(b), HostOf(b)} \cap ClientFSM # {}
  PROVE  b \in Boards
  BY DEF ClientFSM, Anonymous, NoWhiteboard, PendingOn, UserOf, HostOf

(* Which screen stands for a state of the server.                          *)
LEMMA ScreenOf ==
  ASSUME NEW s \in ConnectionState, Online(s), NEW b \in Boards
  PROVE  /\ Shown(s) = Anonymous => s.state = "ANONYMOUS"
         /\ Shown(s) = NoWhiteboard => s.state \in {"NO_WHITEBOARD", "SESSION_ENDED"}
         /\ Shown(s) = PendingOn(b) => s = On("PENDING_APPROVAL", b)
         /\ Shown(s) = UserOf(b) => s = On("WHITEBOARD_USER", b)
         /\ Shown(s) = HostOf(b) => s = On("WHITEBOARD_HOST", b)
  <1>1. /\ s.state \in {"ANONYMOUS", "NO_WHITEBOARD", "PENDING_APPROVAL", "WHITEBOARD_USER",
                        "WHITEBOARD_HOST", "SESSION_ENDED"}
        /\ s.state \in {"PENDING_APPROVAL", "WHITEBOARD_USER", "WHITEBOARD_HOST"} =>
             s = On(s.state, s.board) /\ s.board \in Boards
    BY Screens DEF Online
  <1>2. CASE s.state = "ANONYMOUS"
    BY <1>2, ShownStates, StatesDiffer
  <1>3. CASE s.state \in {"NO_WHITEBOARD", "SESSION_ENDED"}
    BY <1>3, ShownStates, StatesDiffer
  <1>4. CASE s.state = "PENDING_APPROVAL"
    BY <1>1, <1>4, ShownStates, StatesDiffer
  <1>5. CASE s.state = "WHITEBOARD_USER"
    BY <1>1, <1>5, ShownStates, StatesDiffer
  <1>6. CASE s.state = "WHITEBOARD_HOST"
    BY <1>1, <1>6, ShownStates, StatesDiffer
  <1>7. QED
    BY <1>1, <1>2, <1>3, <1>4, <1>5, <1>6

LEMMA ScreensShow ==
  /\ Shown(Screen("NO_WHITEBOARD")) = NoWhiteboard
  /\ Shown(Screen("ANONYMOUS")) = Anonymous
  /\ Shown(Screen("CONNECTING")) = Anonymous
  /\ \A b \in Boards :
       /\ Shown(On("SESSION_ENDED", b)) = NoWhiteboard
       /\ Shown(On("PENDING_APPROVAL", b)) = PendingOn(b)
       /\ Shown(On("WHITEBOARD_USER", b)) = UserOf(b)
       /\ Shown(On("WHITEBOARD_HOST", b)) = HostOf(b)
  BY DEF Shown, ServerStateOf, Screen, On

(* What a browser makes of a message that it did not ask for.              *)
LEMMA ReadsNews ==
  ASSUME NEW s \in ConnectionState, Online(s), NEW m, NEW g, Tells(m, Shown(s), g)
  PROVE  Shown(handleMessage(s, m)) = g
  <1>1. CASE /\ m.type = "joinApproved"
             /\ \E b \in Boards : Shown(s) = PendingOn(b) /\ g = UserOf(b)
    <2>1. PICK b \in Boards : Shown(s) = PendingOn(b) /\ g = UserOf(b)
      BY <1>1
    <2>2. s = On("PENDING_APPROVAL", b)
      BY <2>1, ScreenOf
    <2>3. handleMessage(s, m) = On("WHITEBOARD_USER", b)
      BY <1>1, <2>2 DEF handleMessage, handleJoinApproved, On
    <2>4. QED
      BY <2>1, <2>3, ScreensShow
  <1>2. CASE /\ m.type = "joinDenied"
             /\ \E b \in Boards : Shown(s) = PendingOn(b) /\ g = NoWhiteboard
    <2>1. s.state = "PENDING_APPROVAL"
      BY <1>2, ScreenOf DEF On
    <2>2. handleMessage(s, m) = Screen("NO_WHITEBOARD")
      BY <1>2, <2>1 DEF handleMessage, handleJoinDenied
    <2>3. QED
      BY <1>2, <2>2, ScreensShow
  <1>3. CASE /\ m.type = "whiteboardSessionEnded"
             /\ \E b \in Boards : Shown(s) \in {UserOf(b), HostOf(b)} /\ g = NoWhiteboard
    <2>1. PICK b \in Boards : Shown(s) \in {UserOf(b), HostOf(b)} /\ g = NoWhiteboard
      BY <1>3
    <2>2. s \in {On("WHITEBOARD_USER", b), On("WHITEBOARD_HOST", b)}
      BY <2>1, ScreenOf
    <2>3. handleMessage(s, m) = On("SESSION_ENDED", b)
      BY <1>3, <2>2 DEF handleMessage, handleSessionEnded, On
    <2>4. QED
      BY <2>1, <2>3, ScreensShow
  <1>4. CASE m.type \in {"clientWantsToJoin", "userListChanged"} /\ Shown(s) = g
    BY <1>4 DEF handleMessage
  <1>5. QED
    BY <1>1, <1>2, <1>3, <1>4 DEF Tells

(* What it makes of an answer, on a screen that it meets as expected.      *)
LEMMA ReadsAnswer ==
  ASSUME NEW s \in ConnectionState, Online(s), NEW body, NEW m, NEW g \in ClientFSM,
         \/ Settles(body, m, Shown(s), g)
         \/ m.type = "whiteboardSessionEnded" /\ Tells(m, Shown(s), g),
         ~Unexpected(handleMessage(s, m), body, m), ~Evicts(handleMessage(s, m), body, m)
  PROVE  Shown(callback(handleMessage(s, m), body, m)) = g
  <1>1. CASE m.type = "whiteboardSessionEnded" /\ Tells(m, Shown(s), g)
    <2>1. Shown(handleMessage(s, m)) = g /\ g = NoWhiteboard
      BY <1>1, ReadsNews DEF Tells
    <2>2. callback(handleMessage(s, m), body, m) \in {handleMessage(s, m), Screen("NO_WHITEBOARD")}
      BY <1>1 DEF callback
    <2>3. QED
      BY <2>1, <2>2, ScreensShow
  <1>2. CASE Settles(body, m, Shown(s), g)
    <2>1. handleMessage(s, m) = s
      BY <1>2 DEF Settles, handleMessage
    <2>2. CASE m.type = "error" /\ Shown(s) = g
      <3>1. CASE body.case = "leaveWhiteboard"
        <4>1. s.state \in {"NO_WHITEBOARD", "SESSION_ENDED"}
          BY <2>1, <2>2, <3>1 DEF Evicts
        <4>2. callback(s, body, m) = Screen("NO_WHITEBOARD")
          BY <2>2, <3>1 DEF callback
        <4>3. QED
          BY <2>1, <2>2, <4>1, <4>2, ShownStates, ScreensShow
      <3>2. CASE body.case # "leaveWhiteboard"
        BY <2>1, <2>2, <3>2 DEF callback
      <3>3. QED
        BY <3>1, <3>2
    <2>3. CASE m.type = "success" /\ body.case = "approveOrDenyJoin" /\ Shown(s) = g
      BY <2>1, <2>3 DEF callback
    <2>4. CASE /\ m.type = "success" /\ body.case \in {"clientHello", "leaveWhiteboard"}
               /\ g = NoWhiteboard
      BY <2>1, <2>4, ScreensShow DEF callback
    <2>5. CASE /\ m.type = "success" /\ body.case = "joinWhiteboard"
               /\ Shown(s) = NoWhiteboard /\ g = PendingOn(body.board)
      <3>1. s.state = "NO_WHITEBOARD"
        BY <2>1, <2>5 DEF Unexpected
      <3>2. body.board \in Boards
        BY <2>5, StateBoards
      <3>3. callback(s, body, m) = On("PENDING_APPROVAL", body.board)
        BY <2>5, <3>1 DEF callback
      <3>4. QED
        BY <2>1, <2>5, <3>2, <3>3, ScreensShow
    <2>6. CASE /\ m.type = "whiteboardCreated" /\ body.case = "createWhiteboardRequest"
               /\ Shown(s) = NoWhiteboard /\ g = HostOf(m.board)
      <3>1. s.state = "NO_WHITEBOARD"
        BY <2>1, <2>6 DEF Unexpected
      <3>2. m.board \in Boards
        BY <2>6, StateBoards
      <3>3. callback(s, body, m) = On("WHITEBOARD_HOST", m.board)
        BY <2>6, <3>1 DEF callback
      <3>4. QED
        BY <2>1, <2>6, <3>2, <3>3, ScreensShow
    <2>7. QED
      BY <1>2, <2>2, <2>3, <2>4, <2>5, <2>6 DEF Settles
  <1>3. QED
    BY <1>1, <1>2
-----------------------------------------------------------------------------
(* The trail p from f to g along what comes down to x.                     *)
Trail(x, hs, f, down, g, p) ==
  /\ p \in [0..Len(down) -> ClientFSM] /\ p[0] = f /\ p[Len(down)] = g
  /\ \A i \in 1..Len(down) : Takes(x, hs, down[i], p[i - 1], p[i])

(* From its place i on nothing changes any more.                           *)
Place(p, down, g, i) ==
  i \in 0..Len(down) /\ \A j \in i..Len(down) : p[j] = g

(* The list m of members: u are the lists of the browser.                  *)
Upsets(x, hs, d) ==
  \/ d.body.type = "userListChanged"
  \/ \E r \in hs : AnswersTo(x, d, r.id) /\ r.body.case = "leaveWhiteboard"

RosterAt(x, hs, down, u, m, i) ==
  /\ i = 0 => u.present = m.present /\ u.past = m.past
  /\ i # 0 => down[i].body = m
  /\ \A j \in 1..Len(down) : j > i => ~Upsets(x, hs, down[j])

Roster(x, hs, down, g, p, u, m) ==
  \E i \in 0..Len(down) : Place(p, down, g, i) /\ RosterAt(x, hs, down, u, m, i)

(* The applicant y.                                                        *)
Strikes(x, hs, y, d) ==
  \E r \in hs :
    /\ AnswersTo(x, d, r.id)
    /\ \/ r.body.case = "leaveWhiteboard"
       \/ r.body.case = "approveOrDenyJoin" /\ r.body.client = y /\ d.body.type = "success"

ApplicantAt(x, hs, down, u, y, i) ==
  /\ i = 0 => y \in u.pending
  /\ i # 0 => down[i].body = WantsToJoin(y)
  /\ \A j \in 1..Len(down) : j > i => ~Strikes(x, hs, y, down[j])

Applicant(x, hs, down, g, p, u, y) ==
  \E i \in 0..Len(down) : Place(p, down, g, i) /\ ApplicantAt(x, hs, down, u, y, i)
-----------------------------------------------------------------------------
(* News prolong the trail.                                                 *)

Longer(p, down, news, g) ==
  [i \in 0..Len(down \o news) |-> IF i <= Len(down) THEN p[i] ELSE g]

LEMMA LongerParts ==
  ASSUME NEW S, NEW down \in Seq(S), NEW news \in Seq(S), NEW p, NEW g
  PROVE  /\ Len(down) \in Nat /\ Len(news) \in Nat /\ Len(down \o news) = Len(down) + Len(news)
         /\ DOMAIN down = 1..Len(down) /\ DOMAIN news = 1..Len(news)
         /\ \A i \in 1..Len(down) : (down \o news)[i] = down[i]
         /\ \A i \in 1..Len(down \o news) :
              i > Len(down) =>
                i - Len(down) \in 1..Len(news) /\ (down \o news)[i] = news[i - Len(down)]
         /\ \A i \in 0..Len(down) : Longer(p, down, news, g)[i] = p[i]
         /\ \A i \in 0..Len(down \o news) : i > Len(down) => Longer(p, down, news, g)[i] = g
  <1> DEFINE all == down \o news
  <1>1. /\ DOMAIN down = 1..Len(down) /\ DOMAIN news = 1..Len(news)
        /\ Len(down) \in Nat /\ Len(news) \in Nat
        /\ all \in Seq(S) /\ DOMAIN all = 1..(Len(down) + Len(news))
        /\ \A i \in DOMAIN down : i \in DOMAIN all /\ all[i] = down[i]
        /\ \A i \in DOMAIN all : \/ i \in DOMAIN down /\ all[i] = down[i]
                                 \/ /\ i - Len(down) \in DOMAIN news /\ i > Len(down)
                                    /\ all[i] = news[i - Len(down)]
    BY ConcatParts
  <1>2. Len(all) = Len(down) + Len(news)
    BY ConcatProperties
  <1>3. /\ \A i \in 0..Len(down) : Longer(p, down, news, g)[i] = p[i]
        /\ \A i \in 0..Len(all) : i > Len(down) => Longer(p, down, news, g)[i] = g
    BY <1>1, <1>2 DEF Longer
  <1> HIDE DEF all
  <1>4. QED
    BY <1>1, <1>2, <1>3 DEF all

LEMMA TrailGrows ==
  ASSUME NEW x, NEW hs, NEW f, NEW down \in Seq(Reply), NEW news \in Seq(Reply),
         NEW g \in ClientFSM, NEW h \in ClientFSM, NEW p, Trail(x, hs, f, down, g, p),
         news = <<>> => g = h,
         \A i \in 1..Len(news) : Takes(x, hs, news[i], IF i = 1 THEN g ELSE h, h)
  PROVE  Trail(x, hs, f, down \o news, h, Longer(p, down, news, h))
  <1> DEFINE q   == Longer(p, down, news, h)
             all == down \o news
             n   == Len(down)
  <1>1. /\ n \in Nat /\ Len(news) \in Nat /\ Len(all) = n + Len(news)
        /\ \A i \in 1..n : all[i] = down[i]
        /\ \A i \in 1..Len(all) : i > n => i - n \in 1..Len(news) /\ all[i] = news[i - n]
        /\ \A i \in 0..n : q[i] = p[i]
        /\ \A i \in 0..Len(all) : i > n => q[i] = h
    BY LongerParts
  <1>2. q = [i \in 0..Len(all) |-> IF i <= n THEN p[i] ELSE h]
    BY DEF Longer
  <1>3. Len(news) = 0 => news = <<>>
    BY EmptySeq
  <1> HIDE DEF q, all, n
  <1>4. /\ p \in [0..n -> ClientFSM] /\ p[0] = f /\ p[n] = g
        /\ \A i \in 1..n : Takes(x, hs, down[i], p[i - 1], p[i])
    BY DEF Trail, n
  <1>5. q \in [0..Len(all) -> ClientFSM]
    BY <1>1, <1>2, <1>4
  <1>6. q[0] = f /\ q[Len(all)] = h
    <2>1. q[0] = f
      BY <1>1, <1>4
    <2>2. CASE Len(news) = 0
      BY <1>1, <1>3, <1>4, <2>2
    <2>3. CASE Len(news) > 0
      BY <1>1, <2>1, <2>3
    <2>4. QED
      BY <1>1, <2>1, <2>2, <2>3
  <1>7. ASSUME NEW i \in 1..Len(all) PROVE Takes(x, hs, all[i], q[i - 1], q[i])
    <2>1. CASE i <= n
      <3>1. all[i] = down[i] /\ q[i - 1] = p[i - 1] /\ q[i] = p[i] /\ i \in 1..n
        BY <1>1, <2>1
      <3>2. QED
        BY <1>4, <3>1
    <2>2. CASE i = n + 1
      <3>1. all[i] = news[1] /\ q[i - 1] = g /\ q[i] = h /\ 1 \in 1..Len(news)
        BY <1>1, <1>4, <2>2
      <3>2. QED
        BY <3>1
    <2>3. CASE i > n + 1
      <3>1. /\ all[i] = news[i - n] /\ q[i - 1] = h /\ q[i] = h
            /\ i - n \in 1..Len(news) /\ i - n # 1
        BY <1>1, <2>3
      <3>2. QED
        BY <3>1
    <2>4. QED
      BY <1>1, <2>1, <2>2, <2>3
  <1>8. QED
    BY <1>5, <1>6, <1>7 DEF Trail, q, all

(* A place keeps its meaning if the news do not move the client, and there *)
(* is a new one behind the news that do.                                   *)
LEMMA PlaceStays ==
  ASSUME NEW S, NEW down \in Seq(S), NEW news \in Seq(S), NEW p, NEW g, NEW i,
         Place(p, down, g, i)
  PROVE  Place(Longer(p, down, news, g), down \o news, g, i)
  <1> DEFINE q   == Longer(p, down, news, g)
             all == down \o news
  <1>1. /\ Len(down) \in Nat /\ Len(news) \in Nat /\ Len(all) = Len(down) + Len(news)
        /\ \A j \in 0..Len(down) : q[j] = p[j]
        /\ \A j \in 0..Len(all) : j > Len(down) => q[j] = g
    BY LongerParts
  <1> HIDE DEF q, all
  <1>2. QED
    BY <1>1 DEF Place, q, all

LEMMA PlaceIsNew ==
  ASSUME NEW S, NEW down \in Seq(S), NEW news \in Seq(S), NEW p, NEW g, NEW a \in 1..Len(news)
  PROVE  Place(Longer(p, down, news, g), down \o news, g, Len(down) + a)
  <1> DEFINE q   == Longer(p, down, news, g)
             all == down \o news
  <1>1. /\ Len(down) \in Nat /\ Len(news) \in Nat /\ Len(all) = Len(down) + Len(news)
        /\ \A j \in 0..Len(all) : j > Len(down) => q[j] = g
    BY LongerParts
  <1> HIDE DEF q, all
  <1>2. QED
    BY <1>1 DEF Place, q, all

LEMMA RosterStays ==
  ASSUME NEW x, NEW hs, NEW down \in Seq(Reply), NEW news \in Seq(Reply), NEW p, NEW g, NEW u,
         NEW m, Roster(x, hs, down, g, p, u, m),
         \A j \in 1..Len(news) : ~Upsets(x, hs, news[j])
  PROVE  Roster(x, hs, down \o news, g, Longer(p, down, news, g), u, m)
  <1>1. PICK i \in 0..Len(down) : Place(p, down, g, i) /\ RosterAt(x, hs, down, u, m, i)
    BY DEF Roster
  <1> DEFINE all == down \o news
  <1>2. /\ Len(down) \in Nat /\ Len(news) \in Nat /\ Len(all) = Len(down) + Len(news)
        /\ \A j \in 1..Len(down) : all[j] = down[j]
        /\ \A j \in 1..Len(all) :
             j > Len(down) => j - Len(down) \in 1..Len(news) /\ all[j] = news[j - Len(down)]
    BY LongerParts
  <1>3. Place(Longer(p, down, news, g), all, g, i)
    BY <1>1, PlaceStays
  <1> HIDE DEF all
  <1>4. RosterAt(x, hs, all, u, m, i)
    <2>1. i = 0 => u.present = m.present /\ u.past = m.past
      BY <1>1 DEF RosterAt
    <2>2. i # 0 => all[i].body = m
      BY <1>1, <1>2 DEF RosterAt
    <2>3. ASSUME NEW j \in 1..Len(all), j > i PROVE ~Upsets(x, hs, all[j])
      <3>1. CASE j <= Len(down)
        <4>1. j \in 1..Len(down) /\ all[j] = down[j]
          BY <1>2, <3>1
        <4>2. QED
          BY <1>1, <2>3, <4>1 DEF RosterAt
      <3>2. CASE j > Len(down)
        BY <1>2, <3>2
      <3>3. QED
        BY <1>2, <3>1, <3>2
    <2>4. QED
      BY <2>1, <2>2, <2>3 DEF RosterAt
  <1>5. i \in 0..Len(all)
    BY <1>2
  <1>6. QED
    BY <1>3, <1>4, <1>5 DEF Roster, all

LEMMA RosterIsNew ==
  ASSUME NEW x, NEW hs, NEW down \in Seq(Reply), NEW news \in Seq(Reply), NEW p, NEW g, NEW u,
         NEW m, NEW a \in 1..Len(news), news[a].body = m,
         \A j \in 1..Len(news) : j > a => ~Upsets(x, hs, news[j])
  PROVE  Roster(x, hs, down \o news, g, Longer(p, down, news, g), u, m)
  <1> DEFINE all == down \o news
             i   == Len(down) + a
  <1>1. Place(Longer(p, down, news, g), all, g, i)
    BY PlaceIsNew
  <1>2. /\ Len(down) \in Nat /\ Len(news) \in Nat /\ Len(all) = Len(down) + Len(news)
        /\ \A j \in 1..Len(all) :
             j > Len(down) => j - Len(down) \in 1..Len(news) /\ all[j] = news[j - Len(down)]
    BY LongerParts
  <1> HIDE DEF all
  <1>3. i \in 0..Len(all) /\ i # 0 /\ all[i] = news[a]
    BY <1>2
  <1>4. RosterAt(x, hs, all, u, m, i)
    <2>1. ASSUME NEW j \in 1..Len(all), j > i PROVE ~Upsets(x, hs, all[j])
      <3>1. j - Len(down) \in 1..Len(news) /\ all[j] = news[j - Len(down)] /\ j - Len(down) > a
        BY <1>2, <2>1
      <3>2. QED
        BY <3>1
    <2>2. QED
      BY <1>3, <2>1 DEF RosterAt
  <1>5. QED
    BY <1>1, <1>3, <1>4 DEF Roster, all

LEMMA ApplicantStays ==
  ASSUME NEW x, NEW hs, NEW down \in Seq(Reply), NEW news \in Seq(Reply), NEW p, NEW g, NEW u,
         NEW y, Applicant(x, hs, down, g, p, u, y),
         \A j \in 1..Len(news) : ~Strikes(x, hs, y, news[j])
  PROVE  Applicant(x, hs, down \o news, g, Longer(p, down, news, g), u, y)
  <1>1. PICK i \in 0..Len(down) : Place(p, down, g, i) /\ ApplicantAt(x, hs, down, u, y, i)
    BY DEF Applicant
  <1> DEFINE all == down \o news
  <1>2. /\ Len(down) \in Nat /\ Len(news) \in Nat /\ Len(all) = Len(down) + Len(news)
        /\ \A j \in 1..Len(down) : all[j] = down[j]
        /\ \A j \in 1..Len(all) :
             j > Len(down) => j - Len(down) \in 1..Len(news) /\ all[j] = news[j - Len(down)]
    BY LongerParts
  <1>3. Place(Longer(p, down, news, g), all, g, i)
    BY <1>1, PlaceStays
  <1> HIDE DEF all
  <1>4. ApplicantAt(x, hs, all, u, y, i)
    <2>1. i # 0 => all[i] = down[i]
      BY <1>2
    <2>2. ASSUME NEW j \in 1..Len(all), j > i PROVE ~Strikes(x, hs, y, all[j])
      <3>1. CASE j \in 1..Len(down)
        BY <1>1, <1>2, <2>2, <3>1 DEF ApplicantAt
      <3>2. CASE j > Len(down)
        BY <1>2, <3>2
      <3>3. QED
        BY <1>2, <3>1, <3>2
    <2>3. QED
      BY <1>1, <2>1, <2>2 DEF ApplicantAt
  <1>5. i \in 0..Len(all)
    BY <1>2
  <1>6. QED
    BY <1>3, <1>4, <1>5 DEF Applicant, all

LEMMA ApplicantIsNew ==
  ASSUME NEW x, NEW hs, NEW down \in Seq(Reply), NEW news \in Seq(Reply), NEW p, NEW g, NEW u,
         NEW y, Len(news) = 1, news[1].body = WantsToJoin(y)
  PROVE  Applicant(x, hs, down \o news, g, Longer(p, down, news, g), u, y)
  <1> DEFINE all == down \o news
             i   == Len(down) + 1
  <1>1. Place(Longer(p, down, news, g), all, g, i)
    <2>1. 1 \in 1..Len(news)
      OBVIOUS
    <2>2. QED
      BY <2>1, PlaceIsNew
  <1>2. /\ Len(down) \in Nat /\ Len(news) \in Nat /\ Len(all) = Len(down) + Len(news)
        /\ \A j \in 1..Len(all) :
             j > Len(down) => j - Len(down) \in 1..Len(news) /\ all[j] = news[j - Len(down)]
    BY LongerParts
  <1> HIDE DEF all
  <1>3. i \in 0..Len(all) /\ i # 0 /\ all[i] = news[1] /\ \A j \in 1..Len(all) : ~(j > i)
    BY <1>2
  <1>4. ApplicantAt(x, hs, all, u, y, i)
    BY <1>3 DEF ApplicantAt
  <1>5. QED
    BY <1>1, <1>3, <1>4 DEF Applicant, all
-----------------------------------------------------------------------------
(* The first message is read: the trail loses its first step, and places   *)
(* move up.                                                                *)

Shorter(p, down) == [i \in 0..Len(Tail(down)) |-> p[i + 1]]

(* Who is answered later is none of those that the first message answers.  *)
LEMMA LaterAnswers ==
  ASSUME NEW x, NEW hs, NEW n, NEW up, NEW down, InOrder(x, hs, n, up, down), down # <<>>,
         NEW left, left = hs \ {r \in hs : AnswersTo(x, Head(down), r.id)}
  PROVE  /\ Len(down) \in Nat \ {0} /\ Len(Tail(down)) = Len(down) - 1
         /\ 1 \in 1..Len(down) /\ Head(down) = down[1] /\ left \subseteq hs
         /\ \A j \in 1..Len(Tail(down)) : j + 1 \in 1..Len(down) /\ Tail(down)[j] = down[j + 1]
         /\ \A j \in 1..Len(Tail(down)) : \A r \in hs :
              AnswersTo(x, Tail(down)[j], r.id) => r \in left
  <1>1. down \in Seq(Reply)
    BY DEF InOrder
  <1>2. /\ DOMAIN down = 1..Len(down) /\ Len(down) \in Nat \ {0} /\ Len(Tail(down)) = Len(down) - 1
        /\ Head(down) = down[1]
        /\ \A j \in 1..Len(Tail(down)) : Tail(down)[j] = down[j + 1]
    BY <1>1, HeadTailProperties
  <1>3. ASSUME NEW j \in 1..Len(Tail(down)), NEW r \in hs, AnswersTo(x, Tail(down)[j], r.id)
        PROVE  r \in left
    <2>1. j + 1 \in DOMAIN down /\ 1 \in DOMAIN down /\ 1 < j + 1 /\ AnswersTo(x, down[j + 1], r.id)
      BY <1>2, <1>3
    <2>2. r.id \in Nat
      BY DEF InOrder, Letter
    <2>3. AnswersTo(x, down[1], r.id) => r.id < r.id
      BY <2>1, <2>2 DEF InOrder
    <2>4. QED
      BY <1>2, <2>2, <2>3
  <1>4. left \subseteq hs
    OBVIOUS
  <1>5. \A k \in Nat \ {0} : 1 \in 1..k /\ \A j \in 1..k - 1 : j + 1 \in 1..k
    OBVIOUS
  <1>6. 1 \in 1..Len(down) /\ \A j \in 1..Len(Tail(down)) : j + 1 \in 1..Len(down)
    BY <1>2, <1>5
  <1>7. \A j \in 1..Len(Tail(down)) : \A r \in hs : AnswersTo(x, Tail(down)[j], r.id) => r \in left
    BY <1>3
  <1>8. QED
    BY <1>2, <1>4, <1>6, <1>7, Zenon

LEMMA TrailReads ==
  ASSUME NEW x, NEW hs, NEW n, NEW up, NEW down, InOrder(x, hs, n, up, down), down # <<>>,
         NEW left, left = hs \ {r \in hs : AnswersTo(x, Head(down), r.id)},
         NEW f, NEW g, NEW p, Trail(x, hs, f, down, g, p)
  PROVE  /\ p[1] \in ClientFSM /\ Takes(x, hs, Head(down), f, p[1])
         /\ Trail(x, left, p[1], Tail(down), g, Shorter(p, down))
  <1> DEFINE rest == Tail(down)
             q    == Shorter(p, down)
  <1>1. /\ Len(down) \in Nat \ {0} /\ Len(rest) = Len(down) - 1
        /\ 1 \in 1..Len(down) /\ Head(down) = down[1] /\ left \subseteq hs
        /\ \A j \in 1..Len(rest) : j + 1 \in 1..Len(down) /\ rest[j] = down[j + 1]
        /\ \A j \in 1..Len(rest) : \A r \in hs : AnswersTo(x, rest[j], r.id) => r \in left
    BY LaterAnswers
  <1>2. q = [i \in 0..Len(rest) |-> p[i + 1]]
    BY DEF Shorter
  <1> HIDE DEF rest, q
  <1>3. /\ p \in [0..Len(down) -> ClientFSM] /\ p[0] = f /\ p[Len(down)] = g
        /\ \A i \in 1..Len(down) : Takes(x, hs, down[i], p[i - 1], p[i])
    BY DEF Trail
  <1>4. p[1] \in ClientFSM /\ Takes(x, hs, Head(down), f, p[1])
    BY <1>1, <1>3
  <1>5. q \in [0..Len(rest) -> ClientFSM] /\ q[0] = p[1] /\ q[Len(rest)] = g
    BY <1>1, <1>2, <1>3
  <1>6. ASSUME NEW i \in 1..Len(rest) PROVE Takes(x, left, rest[i], q[i - 1], q[i])
    <2>1. q[i - 1] = p[i] /\ q[i] = p[i + 1] /\ i + 1 \in 1..Len(down) /\ rest[i] = down[i + 1]
      BY <1>1, <1>2
    <2>2. Takes(x, hs, rest[i], q[i - 1], q[i])
      BY <1>3, <2>1
    <2>3. QED
      BY <1>1, <2>2 DEF Takes
  <1>7. QED
    BY <1>4, <1>5, <1>6 DEF Trail, rest, q

LEMMA PlaceReads ==
  ASSUME NEW down, Len(down) \in Nat \ {0}, Len(Tail(down)) = Len(down) - 1,
         NEW p, NEW g, NEW i \in 0..Len(down), Place(p, down, g, i),
         NEW k, k = IF i = 0 THEN 0 ELSE i - 1
  PROVE  Place(Shorter(p, down), Tail(down), g, k)
  <1> DEFINE rest == Tail(down)
             q    == Shorter(p, down)
  <1>1. k \in 0..Len(rest) /\ \A j \in k..Len(rest) : j \in 0..Len(rest) /\ j + 1 \in i..Len(down)
    OBVIOUS
  <1>2. \A j \in 0..Len(rest) : q[j] = p[j + 1]
    BY DEF Shorter
  <1> HIDE DEF rest, q
  <1>3. QED
    BY <1>1, <1>2 DEF Place, rest, q

LEMMA RosterReads ==
  ASSUME NEW x, NEW hs, NEW n, NEW up, NEW down, InOrder(x, hs, n, up, down), down # <<>>,
         NEW left, left = hs \ {r \in hs : AnswersTo(x, Head(down), r.id)},
         NEW g, NEW p, NEW u, NEW v, NEW m, Roster(x, hs, down, g, p, u, m),
         Head(down).body = m => v.present = m.present /\ v.past = m.past,
         ~Upsets(x, hs, Head(down)) => v.present = u.present /\ v.past = u.past
  PROVE  Roster(x, left, Tail(down), g, Shorter(p, down), v, m)
  <1> DEFINE rest == Tail(down)
  <1>1. /\ Len(down) \in Nat \ {0} /\ Len(rest) = Len(down) - 1
        /\ 1 \in 1..Len(down) /\ Head(down) = down[1] /\ left \subseteq hs
        /\ \A j \in 1..Len(rest) : j + 1 \in 1..Len(down) /\ rest[j] = down[j + 1]
    BY LaterAnswers
  <1>2. PICK i \in 0..Len(down) : Place(p, down, g, i) /\ RosterAt(x, hs, down, u, m, i)
    BY DEF Roster
  <1> DEFINE k == IF i = 0 THEN 0 ELSE i - 1
  <1>3. Place(Shorter(p, down), rest, g, k)
    BY <1>1, <1>2, PlaceReads
  <1> HIDE DEF rest
  <1>4. RosterAt(x, left, rest, v, m, k)
    <2>1. k = 0 => v.present = m.present /\ v.past = m.past
      BY <1>1, <1>2 DEF RosterAt
    <2>2. k # 0 => rest[k] = down[i] /\ i # 0
      BY <1>1
    <2>3. ASSUME NEW j \in 1..Len(rest), j > k PROVE ~Upsets(x, left, rest[j])
      <3>1. j + 1 \in 1..Len(down) /\ j + 1 > i /\ rest[j] = down[j + 1]
        BY <1>1, <2>3
      <3>2. ~Upsets(x, hs, rest[j])
        BY <1>2, <3>1 DEF RosterAt
      <3>3. QED
        BY <1>1, <3>2 DEF Upsets
    <2>4. QED
      BY <1>2, <2>1, <2>2, <2>3 DEF RosterAt
  <1>5. k \in 0..Len(rest)
    BY <1>1
  <1>6. QED
    BY <1>3, <1>4, <1>5 DEF Roster, rest

LEMMA ApplicantReads ==
  ASSUME NEW x, NEW hs, NEW n, NEW up, NEW down, InOrder(x, hs, n, up, down), down # <<>>,
         NEW left, left = hs \ {r \in hs : AnswersTo(x, Head(down), r.id)},
         NEW g, NEW p, NEW u, NEW v, NEW y, Applicant(x, hs, down, g, p, u, y),
         Head(down).body = WantsToJoin(y) => y \in v.pending,
         ~Strikes(x, hs, y, Head(down)) => (y \in u.pending => y \in v.pending)
  PROVE  Applicant(x, left, Tail(down), g, Shorter(p, down), v, y)
  <1> DEFINE rest == Tail(down)
  <1>1. /\ Len(down) \in Nat \ {0} /\ Len(rest) = Len(down) - 1
        /\ 1 \in 1..Len(down) /\ Head(down) = down[1] /\ left \subseteq hs
        /\ \A j \in 1..Len(rest) : j + 1 \in 1..Len(down) /\ rest[j] = down[j + 1]
    BY LaterAnswers
  <1>2. PICK i \in 0..Len(down) : Place(p, down, g, i) /\ ApplicantAt(x, hs, down, u, y, i)
    BY DEF Applicant
  <1> DEFINE k == IF i = 0 THEN 0 ELSE i - 1
  <1>3. Place(Shorter(p, down), rest, g, k)
    BY <1>1, <1>2, PlaceReads
  <1> HIDE DEF rest
  <1>4. ApplicantAt(x, left, rest, v, y, k)
    <2>1. k = 0 => y \in v.pending
      BY <1>1, <1>2 DEF ApplicantAt
    <2>2. k # 0 => rest[k] = down[i] /\ i # 0
      BY <1>1
    <2>3. ASSUME NEW j \in 1..Len(rest), j > k PROVE ~Strikes(x, left, y, rest[j])
      <3>1. j + 1 \in 1..Len(down) /\ j + 1 > i /\ rest[j] = down[j + 1]
        BY <1>1, <2>3
      <3>2. ~Strikes(x, hs, y, rest[j])
        BY <1>2, <3>1 DEF ApplicantAt
      <3>3. QED
        BY <1>1, <3>2 DEF Strikes
    <2>4. QED
      BY <1>2, <2>1, <2>2, <2>3 DEF ApplicantAt
  <1>5. k \in 0..Len(rest)
    BY <1>1
  <1>6. QED
    BY <1>3, <1>4, <1>5 DEF Applicant, rest
-----------------------------------------------------------------------------
(* A new letter is answered by nothing that is on its way already.         *)
LEMMA NewLetterChangesNothing ==
  ASSUME NEW x, NEW hs, NEW n, NEW up, NEW down, InOrder(x, hs, n, up, down),
         NEW l, l.id = n + 1
  PROVE  /\ \A f, g, p : Trail(x, hs, f, down, g, p) => Trail(x, hs \cup {l}, f, down, g, p)
         /\ \A g, p, u, m : Roster(x, hs, down, g, p, u, m) =>
                              Roster(x, hs \cup {l}, down, g, p, u, m)
         /\ \A g, p, u, y : Applicant(x, hs, down, g, p, u, y) =>
                              Applicant(x, hs \cup {l}, down, g, p, u, y)
  <1>1. /\ DOMAIN down = 1..Len(down)
        /\ \A j \in 1..Len(down) : ~AnswersTo(x, down[j], l.id)
    <2>1. down \in Seq(Reply) /\ n \in Nat
      BY DEF InOrder
    <2>2. DOMAIN down = 1..Len(down)
      BY <2>1
    <2>3. \A j \in DOMAIN down : AnswersTo(x, down[j], n + 1) => n + 1 <= n
      BY <2>1 DEF InOrder
    <2>4. QED
      BY <2>1, <2>2, <2>3
  <1>2. \A f, g, p : Trail(x, hs, f, down, g, p) => Trail(x, hs \cup {l}, f, down, g, p)
    BY DEF Trail, Takes
  <1>3. \A j \in 1..Len(down) :
          /\ Upsets(x, hs \cup {l}, down[j]) => Upsets(x, hs, down[j])
          /\ \A y : Strikes(x, hs \cup {l}, y, down[j]) => Strikes(x, hs, y, down[j])
    BY <1>1 DEF Upsets, Strikes
  <1>4. \A g, p, u, m : Roster(x, hs, down, g, p, u, m) =>
                          Roster(x, hs \cup {l}, down, g, p, u, m)
    BY <1>3 DEF Roster, RosterAt
  <1>5. \A g, p, u, y : Applicant(x, hs, down, g, p, u, y) =>
                          Applicant(x, hs \cup {l}, down, g, p, u, y)
    BY <1>3 DEF Applicant, ApplicantAt
  <1>6. QED
    BY <1>2, <1>4, <1>5
-----------------------------------------------------------------------------
(* What one step of the server tells the client x.  The step handles its   *)
(* own message body, or (~mine) something else.                            *)

NewsTrail(x, mine, body) ==
  /\ out'[x] = <<>> => fsm'[x] = fsm[x]
  /\ \A i \in 1..Len(out'[x]) :
       LET f == IF i = 1 THEN fsm[x] ELSE fsm'[x]
       IN  \/ Tells(out'[x][i], f, fsm'[x])
           \/ mine /\ out'[x][i].re /\ Settles(body, out'[x][i], f, fsm'[x])

(* Members hear the current list last, if they hear one.                   *)
Disturbs(m, mine, body) ==
  m.type = "userListChanged" \/ (mine /\ body.case = "leaveWhiteboard")
NewsRoster(x, mine, body) ==
  \A b \in Boards : InBoard(x, b)' =>
    \/ /\ InBoard(x, b) /\ UNCHANGED <<fsm[x], clients[b], pastUsers[b]>>
       /\ \A i \in 1..Len(out'[x]) : ~Disturbs(out'[x][i], mine, body)
    \/ \E a \in 1..Len(out'[x]) :
         /\ out'[x][a] = TheirList(b)
         /\ \A i \in 1..Len(out'[x]) : i > a => ~Disturbs(out'[x][i], mine, body)

(* A host hears of every applicant, and of no success with one that is     *)
(* still there.                                                            *)
NewsApplicants(x, mine, body) ==
  \A b \in Boards : fsm'[x] = HostOf(b) => \A y \in pendingClients'[b] :
    \/ /\ fsm'[x] = fsm[x] /\ y \in pendingClients[b]
       /\ mine => /\ body.case # "leaveWhiteboard"
                  /\ body.case = "approveOrDenyJoin" /\ body.client = y =>
                       \A i \in 1..Len(out'[x]) : out'[x][i].type # "success"
    \/ out'[x] = <<WantsToJoin(y)>>

Tidings(x, mine, body) ==
  NewsTrail(x, mine, body) /\ NewsRoster(x, mine, body) /\ NewsApplicants(x, mine, body)

(* A message takes x to its new state.                                     *)
Moves(x, mine, body, m) ==
  \/ Tells(m, fsm[x], fsm'[x])
  \/ mine /\ m.re /\ Settles(body, m, fsm[x], fsm'[x])

LEMMA InOneBoard ==
  ASSUME NEW x, NEW b \in Boards, NEW w \in Boards
  PROVE  /\ InBoard(x, b) /\ InBoard(x, w) => b = w
         /\ fsm[x] = HostOf(b) => InBoard(x, b)
         /\ fsm[x] \in {Anonymous, NoWhiteboard, PendingOn(w)} => ~InBoard(x, b)
  BY StatesDiffer DEF InBoard

(* x stays where it is, and hears nothing or one thing.                    *)
LEMMA StillNews ==
  ASSUME NEW x, NEW mine \in BOOLEAN, NEW body, UNCHANGED fsm[x],
         \A b \in Boards : InBoard(x, b) =>
           /\ UNCHANGED <<clients[b], pastUsers[b]>>
           /\ fsm[x] = HostOf(b) => pendingClients'[b] \subseteq pendingClients[b],
         \/ out'[x] = <<>>
         \/ \E m : out'[x] = <<m>> /\ m.type # "userListChanged" /\ Moves(x, mine, body, m),
         \A b \in Boards : mine /\ InBoard(x, b) =>
           /\ body.case # "leaveWhiteboard"
           /\ body.case = "approveOrDenyJoin" =>
                \/ body.client \notin pendingClients'[b]
                \/ \E reason : out'[x] = <<Error(reason, TRUE)>>
  PROVE  Tidings(x, mine, body)
  <1>1. CASE out'[x] = <<>>
    <2>1. Len(out'[x]) = 0 /\ 1..Len(out'[x]) = {}
      BY <1>1
    <2>2. NewsTrail(x, mine, body) /\ NewsRoster(x, mine, body)
      BY <2>1 DEF NewsTrail, NewsRoster, InBoard
    <2>3. NewsApplicants(x, mine, body)
      <3>1. SUFFICES ASSUME NEW b \in Boards, fsm'[x] = HostOf(b), NEW y \in pendingClients'[b]
                     PROVE  y \in pendingClients[b] /\ (mine => body.case # "leaveWhiteboard")
        BY <2>1 DEF NewsApplicants
      <3>2. InBoard(x, b)
        BY <3>1 DEF InBoard
      <3>3. QED
        BY <3>1, <3>2
    <2>4. QED
      BY <2>2, <2>3 DEF Tidings
  <1>2. ASSUME NEW m, out'[x] = <<m>>, m.type # "userListChanged", Moves(x, mine, body, m)
        PROVE  Tidings(x, mine, body)
    <2>1. 1..Len(out'[x]) = {1} /\ out'[x][1] = m /\ out'[x] # <<>>
      BY <1>2
    <2>2. NewsTrail(x, mine, body)
      BY <1>2, <2>1 DEF NewsTrail, Moves
    <2>3. NewsRoster(x, mine, body)
      BY <1>2, <2>1 DEF NewsRoster, InBoard, Disturbs
    <2>4. NewsApplicants(x, mine, body)
      <3>1. SUFFICES ASSUME NEW b \in Boards, fsm'[x] = HostOf(b),
                            NEW y \in pendingClients'[b], mine
                     PROVE  /\ body.case # "leaveWhiteboard"
                            /\ body.case = "approveOrDenyJoin" /\ body.client = y =>
                                 \A i \in 1..Len(out'[x]) : out'[x][i].type # "success"
        BY InOneBoard DEF NewsApplicants
      <3>2. \A reason : out'[x] = <<Error(reason, TRUE)>> => m.type # "success"
        BY <2>1 DEF Error
      <3>3. QED
        BY <2>1, <3>1, <3>2, InOneBoard
    <2>5. QED
      BY <2>2, <2>3, <2>4 DEF Tidings
  <1>3. QED
    BY <1>1, <1>2

LEMMA NoNews ==
  ASSUME NEW x, NEW body, UNCHANGED fsm[x], out'[x] = <<>>,
         \A b \in Boards : InBoard(x, b) =>
           /\ UNCHANGED <<clients[b], pastUsers[b]>>
           /\ fsm[x] = HostOf(b) => pendingClients'[b] \subseteq pendingClients[b]
  PROVE  Tidings(x, FALSE, body)
  <1>1. FALSE \in BOOLEAN
    OBVIOUS
  <1>2. QED
    BY <1>1, StillNews

(* x is in no whiteboard after one message.                                *)
LEMMA GoneNews ==
  ASSUME NEW x, NEW mine \in BOOLEAN, NEW body, NEW m, out'[x] = <<m>>, Moves(x, mine, body, m),
         \A b \in Boards : ~InBoard(x, b)'
  PROVE  Tidings(x, mine, body)
  <1>1. 1..Len(out'[x]) = {1} /\ out'[x][1] = m /\ out'[x] # <<>>
    OBVIOUS
  <1>2. NewsTrail(x, mine, body)
    BY <1>1 DEF NewsTrail, Moves
  <1>3. NewsRoster(x, mine, body) /\ NewsApplicants(x, mine, body)
    BY DEF NewsRoster, NewsApplicants, InBoard
  <1>4. QED
    BY <1>2, <1>3 DEF Tidings

LEMMA ListTellsNothing ==
  ASSUME NEW b, NEW f
  PROVE  Tells(TheirList(b), f, f) /\ TheirList(b).type = "userListChanged"
  BY DEF Tells, TheirList, UserList

(* x comes into the whiteboard w, which is told first.                     *)
LEMMA ComingNews ==
  ASSUME NEW x, NEW mine \in BOOLEAN, NEW body, NEW m, NEW w \in Boards,
         out'[x] = <<m, TheirList(w)>>, Moves(x, mine, body, m),
         InBoard(x, w)', fsm'[x] = HostOf(w) => pendingClients'[w] = {}
  PROVE  Tidings(x, mine, body)
  <1>1. /\ 1..Len(out'[x]) = {1, 2} /\ out'[x][1] = m /\ out'[x][2] = TheirList(w)
        /\ out'[x] # <<>>
    OBVIOUS
  <1>2. \A b \in Boards : InBoard(x, b)' => b = w
    BY StatesDiffer DEF InBoard
  <1>3. NewsTrail(x, mine, body)
    BY <1>1, ListTellsNothing DEF NewsTrail, Moves
  <1>4. NewsRoster(x, mine, body)
    BY <1>1, <1>2 DEF NewsRoster
  <1>5. NewsApplicants(x, mine, body)
    BY <1>2 DEF NewsApplicants, InBoard
  <1>6. QED
    BY <1>3, <1>4, <1>5 DEF Tidings

(* x is in the whiteboard w and hears who is there now; a host that has    *)
(* let somebody in hears of its success then.                              *)
LEMMA ListNews ==
  ASSUME NEW x, NEW mine \in BOOLEAN, NEW body, NEW w \in Boards,
         UNCHANGED fsm[x], InBoard(x, w), pendingClients'[w] \subseteq pendingClients[w],
         \/ out'[x] = <<TheirList(w)>> /\ ~mine
         \/ /\ out'[x] = <<TheirList(w), Success>> /\ mine /\ body.case = "approveOrDenyJoin"
            /\ body.client \notin pendingClients'[w]
  PROVE  Tidings(x, mine, body)
  <1>1. InBoard(x, w)' /\ \A b \in Boards : InBoard(x, b)' => b = w
    BY StatesDiffer DEF InBoard
  <1>2. Success.type = "success" /\ Success.re
    BY DEF Success, Plain
  <1>3. CASE out'[x] = <<TheirList(w)>> /\ ~mine
    <2>1. 1..Len(out'[x]) = {1} /\ out'[x][1] = TheirList(w) /\ out'[x] # <<>>
      BY <1>3
    <2>2. NewsTrail(x, mine, body)
      BY <2>1, ListTellsNothing DEF NewsTrail
    <2>3. NewsRoster(x, mine, body)
      BY <1>1, <2>1 DEF NewsRoster
    <2>4. NewsApplicants(x, mine, body)
      BY <1>1, <1>3 DEF NewsApplicants, InBoard
    <2>5. QED
      BY <2>2, <2>3, <2>4 DEF Tidings
  <1>4. CASE /\ out'[x] = <<TheirList(w), Success>> /\ mine /\ body.case = "approveOrDenyJoin"
             /\ body.client \notin pendingClients'[w]
    <2>1. /\ 1..Len(out'[x]) = {1, 2} /\ out'[x][1] = TheirList(w) /\ out'[x][2] = Success
          /\ out'[x] # <<>>
      BY <1>4
    <2>2. Settles(body, Success, fsm'[x], fsm'[x])
      BY <1>2, <1>4 DEF Settles
    <2>3. NewsTrail(x, mine, body)
      BY <1>2, <1>4, <2>1, <2>2, ListTellsNothing DEF NewsTrail
    <2>4. NewsRoster(x, mine, body)
      BY <1>1, <1>2, <1>4, <2>1 DEF NewsRoster, Disturbs
    <2>5. NewsApplicants(x, mine, body)
      BY <1>1, <1>4 DEF NewsApplicants, InBoard
    <2>6. QED
      BY <2>3, <2>4, <2>5 DEF Tidings
  <1>5. QED
    BY <1>3, <1>4
-----------------------------------------------------------------------------
(* The news of each action of the server.                                  *)

LEMMA CopiesAt ==
  ASSUME NEW list, NEW m, NEW x \in Clients
  PROVE  /\ list[x] = 0 => ToAll(list, m)[x] = <<>>
         /\ list[x] = 1 => ToAll(list, m)[x] = <<m>>
  BY DEF ToAll

(* Who hears the list of the members of w, which runs.                     *)
LEMMA ListAt ==
  ASSUME Books', NEW w \in Boards, ~ended'[w], NEW x \in Clients
  PROVE  CurrentClientList(w)[x] = IF InBoard(x, w)' THEN <<TheirList(w)>> ELSE <<>>
  <1>1. clients'[w][x] = IF InBoard(x, w)' THEN 1 ELSE 0
    BY DEF Books, MembershipAgrees
  <1>2. CurrentClientList(w) = ToAll(clients'[w], TheirList(w))
    BY DEF CurrentClientList, TheirList
  <1>3. QED
    BY <1>1, <1>2, CopiesAt

LEMMA ShortParts ==
  ASSUME NEW m, NEW n
  PROVE  /\ <<>> \o <<>> = <<>> /\ <<m>> \o <<>> = <<m>> /\ <<>> \o <<n>> = <<n>>
         /\ <<m>> \o <<n>> = <<m, n>>
  <1>1. /\ <<m>> \in Seq({m, n}) /\ <<n>> \in Seq({m, n}) /\ <<>> \in Seq({m, n})
        /\ Len(<<m>>) = 1 /\ Len(<<n>>) = 1
    OBVIOUS
  <1>2. <<>> \o <<>> = <<>> /\ <<m>> \o <<>> = <<m>> /\ <<>> \o <<n>> = <<n>>
    BY <1>1, ConcatEmptySeq
  <1>3. <<m>> \o <<n>> = <<m, n>>
    <2> DEFINE s == <<m>> \o <<n>>
    <2>1. s \in Seq({m, n}) /\ Len(s) = 2 /\ s[1] = m /\ s[2] = n
      BY <1>1, ConcatProperties
    <2>2. <<m, n>> \in Seq({m, n}) /\ Len(<<m, n>>) = 2
      OBVIOUS
    <2> HIDE DEF s
    <2>3. s = <<m, n>>
      BY <2>1, <2>2, SeqEqual
    <2>4. QED
      BY <2>3 DEF s
  <1>4. QED
    BY <1>2, <1>3

LEMMA AnswerNews ==
  ASSUME NEW c \in Clients, NEW body, NEW reason, Answer(c, Error(reason, TRUE)),
         \A b \in Boards : InBoard(c, b) => body.case # "leaveWhiteboard",
         NEW x \in Clients, socket'[x] = "open"
  PROVE  Tidings(x, x = c, body)
  <1>1. /\ UNCHANGED <<socket, fsm, boardVars>>
        /\ out'[x] = IF x = c THEN <<Error(reason, TRUE)>> ELSE <<>>
    BY EmitAt, OnlyAt DEF Answer
  <1>2. /\ Error(reason, TRUE).type = "error" /\ Error(reason, TRUE).re
    BY DEF Error
  <1>3. Settles(body, Error(reason, TRUE), fsm[x], fsm'[x])
    BY <1>1, <1>2 DEF Settles
  <1>4. CASE x = c
    <2>1. /\ out'[x] = <<Error(reason, TRUE)>> /\ Moves(x, TRUE, body, Error(reason, TRUE))
          /\ Error(reason, TRUE).type # "userListChanged" /\ TRUE \in BOOLEAN
      BY <1>1, <1>2, <1>3, <1>4 DEF Moves
    <2>2. Tidings(x, TRUE, body)
      BY <1>1, <1>4, <2>1, StillNews
    <2>3. QED
      BY <1>4, <2>2
  <1>5. CASE x # c
    <2>1. Tidings(x, FALSE, body)
      BY <1>1, <1>5, NoNews
    <2>2. QED
      BY <1>5, <2>1
  <1>6. QED
    BY <1>4, <1>5

LEMMA HelloNews ==
  ASSUME Books, NEW c \in Clients, NEW body, body.case = "clientHello", ClientHello(c),
         NEW x \in Clients, socket'[x] = "open"
  PROVE  Tidings(x, x = c, body)
  <1>1. /\ fsm[c] = Anonymous /\ fsm' = [fsm EXCEPT ![c] = NoWhiteboard]
        /\ UNCHANGED <<socket, boardVars>> /\ Emit(c, Only(c, <<Success>>))
    BY Dispatched DEF ClientHello, Named, Books
  <1>2. out'[x] = IF x = c THEN <<Success>> ELSE <<>>
    BY <1>1, EmitAt, OnlyAt
  <1>3. fsm'[x] = IF x = c THEN NoWhiteboard ELSE fsm[x]
    BY <1>1 DEF Books, StateTypes
  <1>4. CASE x = c
    <2>1. Moves(x, TRUE, body, Success)
      BY <1>1, <1>3, <1>4 DEF Moves, Settles, Success, Plain
    <2>2. \A b \in Boards : ~InBoard(x, b)'
      BY <1>3, <1>4, StatesDiffer DEF InBoard
    <2>3. QED
      BY <1>2, <1>4, <2>1, <2>2, GoneNews
  <1>5. CASE x # c
    <2>1. Tidings(x, FALSE, body)
      BY <1>1, <1>2, <1>3, <1>5, NoNews
    <2>2. QED
      BY <1>5, <2>1
  <1>6. QED
    BY <1>4, <1>5

LEMMA CreateNews ==
  ASSUME Books, Books', NEW c \in Clients, NEW w \in Boards, CreateWhiteboard(c, w),
         NEW body, body.case = "createWhiteboardRequest", NEW x \in Clients, socket'[x] = "open"
  PROVE  Tidings(x, x = c, body)
  <1>1. /\ fsm[c] = NoWhiteboard /\ fsm' = [fsm EXCEPT ![c] = HostOf(w)] /\ host[w] = NoClient
        /\ clients' = [clients EXCEPT ![w] = [y \in Clients |-> IF y = c THEN 1 ELSE 0]]
        /\ UNCHANGED <<socket, pastUsers, pendingClients, ended>>
        /\ Emit(c, Only(c, <<WhiteboardCreated(w)>>) ++ CurrentClientList(w))
    BY Dispatched DEF CreateWhiteboard, Hosting, addWhiteboard, Books
  <1>2. ~ended[w] /\ \A y \in Clients : fsm[y].board # w
    BY <1>1 DEF Books, Unopened
  <1>3. fsm'[x] = IF x = c THEN HostOf(w) ELSE fsm[x]
    BY <1>1 DEF Books, StateTypes
  <1>4. out'[x] = (IF x = c THEN <<WhiteboardCreated(w)>> ELSE <<>>)
                    \o (IF InBoard(x, w)' THEN <<TheirList(w)>> ELSE <<>>)
    <2> DEFINE first == Only(c, <<WhiteboardCreated(w)>>)
               list  == CurrentClientList(w)
    <2>1. /\ first[x] = IF x = c THEN <<WhiteboardCreated(w)>> ELSE <<>>
          /\ list[x] = IF InBoard(x, w)' THEN <<TheirList(w)>> ELSE <<>>
      BY <1>1, <1>2, OnlyAt, ListAt
    <2> DEFINE all == first ++ list
    <2>2. Emit(c, all)
      BY <1>1
    <2> HIDE DEF first, list
    <2>3. all[x] = first[x] \o list[x]
      BY DEF ++
    <2> HIDE DEF all
    <2>4. out'[x] = all[x]
      BY <2>2, EmitAt
    <2>5. QED
      BY <2>1, <2>3, <2>4
  <1>5. CASE x = c
    <2>1. out'[x] = <<WhiteboardCreated(w), TheirList(w)>> /\ InBoard(x, w)'
      <3>1. InBoard(x, w)'
        BY <1>3, <1>5 DEF InBoard
      <3>2. QED
        BY <1>4, <1>5, <3>1, ShortParts
    <2>2. Moves(x, TRUE, body, WhiteboardCreated(w))
      BY <1>1, <1>3, <1>5 DEF Moves, Settles, WhiteboardCreated
    <2>3. pendingClients'[w] = {}
      BY <1>1, <1>2 DEF Books, StateTypes, PendingAgrees, PendingOn
    <2>4. QED
      BY <1>5, <2>1, <2>2, <2>3, ComingNews
  <1>6. CASE x # c
    <2>1. \A b \in Boards : InBoard(x, b) => b # w
      BY <1>2 DEF InBoard, UserOf, HostOf
    <2>2. ~InBoard(x, w)' /\ out'[x] = <<>>
      BY <1>3, <1>4, <1>6, <2>1 DEF InBoard
    <2>3. \A b \in Boards : InBoard(x, b) => UNCHANGED <<clients[b], pastUsers[b]>>
      BY <1>1, <2>1 DEF Books, StateTypes
    <2>4. Tidings(x, FALSE, body)
      BY <1>1, <1>3, <1>6, <2>2, <2>3, NoNews
    <2>5. QED
      BY <1>6, <2>4
  <1>7. QED
    BY <1>5, <1>6

LEMMA JoinNews ==
  ASSUME Books, Books', NEW c \in Clients, NEW body, body.case = "joinWhiteboard",
         body.board \in Boards, JoinWhiteboard(c, body.board), NEW x \in Clients,
         socket'[x] = "open"
  PROVE  Tidings(x, x = c, body)
  <1> DEFINE w == body.board
  <1>1. CASE w \notin whiteboards
    BY <1>1, AnswerNews DEF JoinWhiteboard, Applying, WithApplicant
  <1>2. CASE w \in whiteboards
    <2>1. /\ fsm[c] = NoWhiteboard /\ ~ended[w] /\ host[w] # NoClient
      BY <1>2, Dispatched DEF Books, HostAgrees, JoinWhiteboard, Applying, WithApplicant
    <2>2. /\ fsm' = [fsm EXCEPT ![c] = PendingOn(w)]
          /\ pendingClients' = [pendingClients EXCEPT ![w] = @ \cup {c}]
          /\ UNCHANGED <<socket, host, clients, pastUsers, ended, whiteboards>>
          /\ Emit(c, Only(host[w], <<WantsToJoin(c)>>) ++ Only(c, <<Success>>))
      BY <1>2, <2>1 DEF JoinWhiteboard, Applying, WithApplicant
    <2>3. host[w] \in Clients /\ host[w] # c /\ fsm[host[w]] = HostOf(w)
      <3>1. host[w] \in Clients
        BY <2>1 DEF Books, StateTypes
      <3>2. fsm[host[w]] = HostOf(w)
        BY <2>1, <3>1 DEF Books, HostAgrees
      <3>3. QED
        BY <2>1, <3>1, <3>2, StatesDiffer
    <2>4. fsm'[x] = IF x = c THEN PendingOn(w) ELSE fsm[x]
      BY <2>2 DEF Books, StateTypes
    <2>5. out'[x] = (IF x = host[w] THEN <<WantsToJoin(c)>> ELSE <<>>)
                      \o (IF x = c THEN <<Success>> ELSE <<>>)
      <3> DEFINE first == Only(host[w], <<WantsToJoin(c)>>)
                 last  == Only(c, <<Success>>)
      <3>1. /\ first[x] = IF x = host[w] THEN <<WantsToJoin(c)>> ELSE <<>>
            /\ last[x] = IF x = c THEN <<Success>> ELSE <<>>
        BY OnlyAt
      <3> DEFINE all == first ++ last
      <3>2. Emit(c, all)
        BY <2>2
      <3> HIDE DEF first, last
      <3>3. all[x] = first[x] \o last[x]
        BY DEF ++
      <3> HIDE DEF all
      <3>4. out'[x] = all[x]
        BY <3>2, EmitAt
      <3>5. QED
        BY <3>1, <3>3, <3>4
    <2>6. CASE x = c
      <3>1. out'[x] = <<Success>>
        BY <2>3, <2>5, <2>6, ShortParts
      <3>2. Moves(x, TRUE, body, Success)
        BY <2>1, <2>4, <2>6 DEF Moves, Settles, Success, Plain
      <3>3. \A b \in Boards : ~InBoard(x, b)'
        BY <2>4, <2>6, StatesDiffer DEF InBoard
      <3>4. QED
        BY <2>6, <3>1, <3>2, <3>3, GoneNews
    <2>7. CASE x = host[w]
      <3>1. out'[x] = <<WantsToJoin(c)>> /\ x # c /\ UNCHANGED fsm[x] /\ fsm[x] = HostOf(w)
        BY <2>3, <2>4, <2>5, <2>7, ShortParts
      <3>2. 1..Len(out'[x]) = {1} /\ out'[x][1] = WantsToJoin(c) /\ out'[x] # <<>>
        BY <3>1
      <3>3. WantsToJoin(c).type = "clientWantsToJoin" /\ ~WantsToJoin(c).re
        BY DEF WantsToJoin
      <3>4. NewsTrail(x, FALSE, body)
        BY <3>1, <3>2, <3>3 DEF NewsTrail, Tells
      <3>5. NewsRoster(x, FALSE, body)
        BY <2>2, <3>1, <3>2, <3>3 DEF NewsRoster, Disturbs, InBoard
      <3>6. \A b \in Boards : fsm'[x] = HostOf(b) => b = w
        BY <3>1, StatesDiffer
      <3>7. \A y \in pendingClients'[w] : y \in pendingClients[w] \/ y = c
        BY <2>2 DEF Books, StateTypes
      <3>8. NewsApplicants(x, FALSE, body)
        BY <3>1, <3>6, <3>7 DEF NewsApplicants
      <3>9. QED
        BY <3>1, <3>4, <3>5, <3>8 DEF Tidings
    <2>8. CASE x # c /\ x # host[w]
      <3>1. \A b \in Boards : fsm[x] = HostOf(b) => b # w
        BY <2>8 DEF Books, HostAgrees
      <3>2. \A b \in Boards : fsm[x] = HostOf(b) => pendingClients'[b] \subseteq pendingClients[b]
        BY <2>2, <3>1 DEF Books, StateTypes
      <3>3. out'[x] = <<>>
        BY <2>5, <2>8, ShortParts
      <3>4. Tidings(x, FALSE, body)
        BY <2>2, <2>4, <2>8, <3>2, <3>3, NoNews
      <3>5. QED
        BY <2>8, <3>4
    <2>9. QED
      BY <2>6, <2>7, <2>8
  <1>3. QED
    BY <1>1, <1>2
LEMMA DenyNews ==
  ASSUME Books, Books', NEW h \in Clients, NEW c \in Clients, DenyJoin(h, c),
         NEW body, body.case = "approveOrDenyJoin", body.client = c,
         NEW x \in Clients, socket'[x] = "open"
  PROVE  Tidings(x, x = h, body)
  <1> DEFINE w == fsm[h].board
  <1>1. /\ w \in Boards /\ fsm[h] = HostOf(w) /\ fsm[c] = PendingOn(w) /\ ~Undecidable(h, c)
    BY Decidable DEF DenyJoin, getPendingClient
  <1>2. /\ fsm' = [fsm EXCEPT ![c] = NoWhiteboard]
        /\ pendingClients' = [pendingClients EXCEPT ![w] = @ \ {c}]
        /\ UNCHANGED <<socket, host, clients, pastUsers, ended, whiteboards>>
        /\ Emit(h, Only(c, <<Plain("joinDenied", FALSE)>>) ++ Only(h, <<Success>>))
    BY <1>1 DEF DenyJoin, BackToNoWhiteboard, NoLongerPending
  <1>3. fsm'[x] = IF x = c THEN NoWhiteboard ELSE fsm[x]
    BY <1>2 DEF Books, StateTypes
  <1>4. h # c
    BY <1>1, StatesDiffer
  <1>5. \A b \in Boards : pendingClients'[b] \subseteq pendingClients[b]
    BY <1>2 DEF Books, StateTypes
  <1>6. c \notin pendingClients'[w]
    BY <1>1, <1>2 DEF Books, StateTypes
  <1>7. out'[x] = (IF x = c THEN <<Plain("joinDenied", FALSE)>> ELSE <<>>)
                    \o (IF x = h THEN <<Success>> ELSE <<>>)
    <2> DEFINE first == Only(c, <<Plain("joinDenied", FALSE)>>)
               last  == Only(h, <<Success>>)
    <2>1. /\ first[x] = IF x = c THEN <<Plain("joinDenied", FALSE)>> ELSE <<>>
          /\ last[x] = IF x = h THEN <<Success>> ELSE <<>>
      BY OnlyAt
    <2> DEFINE all == first ++ last
    <2>2. Emit(h, all)
      BY <1>2
    <2> HIDE DEF first, last
    <2>3. all[x] = first[x] \o last[x]
      BY DEF ++
    <2> HIDE DEF all
    <2>4. out'[x] = all[x]
      BY <2>2, EmitAt
    <2>5. QED
      BY <2>1, <2>3, <2>4
  <1>8. CASE x = c
    <2>1. out'[x] = <<Plain("joinDenied", FALSE)>>
      BY <1>4, <1>7, <1>8, ShortParts
    <2>2. Moves(x, FALSE, body, Plain("joinDenied", FALSE))
      BY <1>1, <1>3, <1>8 DEF Moves, Tells, Plain
    <2>3. \A b \in Boards : ~InBoard(x, b)'
      BY <1>3, <1>8, StatesDiffer DEF InBoard
    <2>4. Tidings(x, FALSE, body)
      BY <2>1, <2>2, <2>3, GoneNews
    <2>5. QED
      BY <1>4, <1>8, <2>4
  <1>9. CASE x = h
    <2>1. out'[x] = <<Success>> /\ UNCHANGED fsm[x] /\ fsm[x] = HostOf(w)
      BY <1>1, <1>3, <1>4, <1>7, <1>9, ShortParts
    <2>2. Moves(x, TRUE, body, Success) /\ Success.type # "userListChanged"
      BY <2>1 DEF Moves, Settles, Success, Plain
    <2>3. \A b \in Boards : InBoard(x, b) => b = w
      BY <1>1, <2>1, StatesDiffer DEF InBoard
    <2>4. Tidings(x, TRUE, body)
      BY <1>1, <1>2, <1>5, <1>6, <2>1, <2>2, <2>3, StillNews
    <2>5. QED
      BY <1>9, <2>4
  <1>10. CASE x # c /\ x # h
    <2>1. out'[x] = <<>> /\ UNCHANGED fsm[x]
      BY <1>3, <1>7, <1>10, ShortParts
    <2>2. Tidings(x, FALSE, body)
      BY <1>2, <1>5, <2>1, NoNews
    <2>3. QED
      BY <1>10, <2>2
  <1>11. QED
    BY <1>8, <1>9, <1>10

(* Whoever is let in hears so and then who is there.                       *)
LEMMA AdmitNews ==
  ASSUME Books, Books', NEW h \in Clients, NEW c \in Clients, NEW dump, ApproveJoin(h, c, dump),
         NEW body, body.case = "approveOrDenyJoin", body.client = c,
         NEW x \in Clients, socket'[x] = "open", x # c \/ dump = <<>>
  PROVE  Tidings(x, x = h, body)
  <1>0. PICK w \in Boards : w = fsm[h].board
    BY Decidable DEF ApproveJoin, getPendingClient
  <1>1. /\ w \in Boards /\ fsm[h] = HostOf(w) /\ fsm[c] = PendingOn(w) /\ ~ended[w]
        /\ Admit(h, c, dump)
    BY <1>0, Decidable DEF ApproveJoin, getPendingClient
  <1>2. /\ fsm' = [fsm EXCEPT ![c] = UserOf(w)]
        /\ pendingClients' = [pendingClients EXCEPT ![w] = @ \ {c}]
        /\ clients' = [clients EXCEPT ![w][c] = @ + 1]
        /\ UNCHANGED <<socket, host, pastUsers, ended, whiteboards>>
        /\ Emit(h, Only(c, <<Plain("joinApproved", FALSE)>>) ++ CurrentClientList(w)
                     ++ Only(c, dump) ++ Only(h, <<Success>>))
    BY <1>0, <1>1 DEF Admit, Using, NoLongerPending, Joined
  <1>3. fsm'[x] = IF x = c THEN UserOf(w) ELSE fsm[x]
    BY <1>2 DEF Books, StateTypes
  <1>4. h # c
    BY <1>1, StatesDiffer
  <1>5. \A b \in Boards : pendingClients'[b] \subseteq pendingClients[b]
    BY <1>2 DEF Books, StateTypes
  <1>6. c \notin pendingClients'[w]
    BY <1>1, <1>2 DEF Books, StateTypes
  <1>7. \A b \in Boards : b # w => UNCHANGED <<clients[b], pastUsers[b]>>
    BY <1>2 DEF Books, StateTypes
  <1>8. out'[x] = (((IF x = c THEN <<Plain("joinApproved", FALSE)>> ELSE <<>>)
                     \o (IF InBoard(x, w)' THEN <<TheirList(w)>> ELSE <<>>))
                     \o <<>>) \o (IF x = h THEN <<Success>> ELSE <<>>)
    <2> DEFINE first == Only(c, <<Plain("joinApproved", FALSE)>>)
               list  == CurrentClientList(w)
               more  == Only(c, dump)
               last  == Only(h, <<Success>>)
    <2>1. /\ first[x] = IF x = c THEN <<Plain("joinApproved", FALSE)>> ELSE <<>>
          /\ last[x] = IF x = h THEN <<Success>> ELSE <<>>
          /\ more[x] = <<>>
      BY OnlyAt
    <2>2. list[x] = IF InBoard(x, w)' THEN <<TheirList(w)>> ELSE <<>>
      BY <1>1, <1>2, ListAt
    <2> DEFINE all == first ++ list ++ more ++ last
    <2>3. Emit(h, all)
      BY <1>2
    <2> HIDE DEF first, list, more, last
    <2>4. all[x] = ((first[x] \o list[x]) \o more[x]) \o last[x]
      BY DEF ++
    <2> HIDE DEF all
    <2>5. out'[x] = all[x]
      BY <2>3, EmitAt
    <2>6. QED
      BY <2>1, <2>2, <2>4, <2>5
  <1>9. CASE x = c
    <2>1. InBoard(x, w)' /\ fsm'[x] = UserOf(w)
      BY <1>3, <1>9 DEF InBoard
    <2> DEFINE two == <<Plain("joinApproved", FALSE), TheirList(w)>>
    <2>2. two \o <<>> = two
      <3>1. two \in Seq({Plain("joinApproved", FALSE), TheirList(w)})
        OBVIOUS
      <3>2. QED
        BY <3>1, ConcatEmptySeq
    <2>3. <<Plain("joinApproved", FALSE)>> \o <<TheirList(w)>> = two
      BY ShortParts
    <2> HIDE DEF two
    <2>4. out'[x] = two
      BY <1>4, <1>8, <1>9, <2>1, <2>2, <2>3
    <2>5. out'[x] = <<Plain("joinApproved", FALSE), TheirList(w)>>
      BY <2>4 DEF two
    <2>6. Moves(x, FALSE, body, Plain("joinApproved", FALSE))
      BY <1>1, <1>9, <2>1 DEF Moves, Tells, Plain
    <2>7. fsm'[x] # HostOf(w)
      BY <1>1, <2>1, StatesDiffer
    <2>8. Tidings(x, FALSE, body)
      BY <1>1, <2>1, <2>5, <2>6, <2>7, ComingNews
    <2>9. QED
      BY <1>4, <1>9, <2>8
  <1>10. CASE x # c /\ InBoard(x, w)
    <2>1. UNCHANGED fsm[x] /\ InBoard(x, w)'
      BY <1>3, <1>10 DEF InBoard
    <2>2. CASE x = h
      <3>1. out'[x] = <<TheirList(w), Success>>
        BY <1>8, <1>10, <2>1, <2>2, ShortParts
      <3>2. Tidings(x, TRUE, body)
        BY <1>1, <1>5, <1>6, <1>10, <2>1, <3>1, ListNews
      <3>3. QED
        BY <2>2, <3>2
    <2>3. CASE x # h
      <3>1. out'[x] = <<TheirList(w)>>
        BY <1>8, <1>10, <2>1, <2>3, ShortParts
      <3>2. Tidings(x, FALSE, body)
        BY <1>1, <1>5, <1>10, <2>1, <3>1, ListNews
      <3>3. QED
        BY <2>3, <3>2
    <2>4. QED
      BY <2>2, <2>3
  <1>11. CASE x # c /\ ~InBoard(x, w)
    <2>1. UNCHANGED fsm[x] /\ ~InBoard(x, w)' /\ x # h
      BY <1>1, <1>3, <1>11 DEF InBoard
    <2>2. out'[x] = <<>>
      BY <1>8, <1>11, <2>1, ShortParts
    <2>3. \A b \in Boards : InBoard(x, b) => b # w
      BY <1>11
    <2>4. Tidings(x, FALSE, body)
      BY <1>5, <1>7, <2>1, <2>2, <2>3, NoNews
    <2>5. QED
      BY <2>1, <2>4
  <1>12. QED
    BY <1>9, <1>10, <1>11
LEMMA DetachNews ==
  ASSUME Books, Books', NEW c \in Clients, NEW from, DetachClient(c, from), NEW body,
         NEW x \in Clients, socket'[x] = "open",
         x = c => from = c /\ body.case = "leaveWhiteboard"
  PROVE  Tidings(x, x = c, body)
  <1>0. PICK w \in Boards : w = fsm[c].board
    BY DetachesUser
  <1>1. fsm[c] = UserOf(w) /\ ~ended[w]
    BY <1>0, States, DetachesUser DEF DetachClient, Books, StateTypes
  <1>2. /\ fsm' = [fsm EXCEPT ![c] = NoWhiteboard]
        /\ clients' = [clients EXCEPT ![w][c] = 0]
        /\ pastUsers' = [pastUsers EXCEPT ![w] = @ \cup {c}]
        /\ UNCHANGED <<host, pendingClients, ended, whiteboards>>
        /\ Emit(from, CurrentClientList(w) ++ Only(c, <<Plain("success", from = c)>>))
    BY <1>0 DEF DetachClient, Detached, Remembered, BackToNoWhiteboard
  <1>3. fsm'[x] = IF x = c THEN NoWhiteboard ELSE fsm[x]
    BY <1>2 DEF Books, StateTypes
  <1>4. \A b \in Boards : b # w => UNCHANGED <<clients[b], pastUsers[b]>>
    BY <1>2 DEF Books, StateTypes
  <1>5. out'[x] = (IF InBoard(x, w)' THEN <<TheirList(w)>> ELSE <<>>)
                    \o (IF x = c THEN <<Plain("success", from = c)>> ELSE <<>>)
    <2> DEFINE list == CurrentClientList(w)
               last == Only(c, <<Plain("success", from = c)>>)
    <2>1. list[x] = IF InBoard(x, w)' THEN <<TheirList(w)>> ELSE <<>>
      BY <1>1, <1>2, ListAt
    <2>2. last[x] = IF x = c THEN <<Plain("success", from = c)>> ELSE <<>>
      BY OnlyAt
    <2> DEFINE all == list ++ last
    <2>3. Emit(from, all)
      BY <1>2
    <2> HIDE DEF list, last
    <2>4. all[x] = list[x] \o last[x]
      BY DEF ++
    <2> HIDE DEF all
    <2>5. out'[x] = all[x]
      BY <2>3, EmitAt
    <2>6. QED
      BY <2>1, <2>2, <2>4, <2>5
  <1>6. CASE x = c
    <2>1. \A b \in Boards : ~InBoard(x, b)'
      BY <1>3, <1>6, StatesDiffer DEF InBoard
    <2> DEFINE m == Plain("success", from = c)
    <2>2. m.type = "success" /\ m.re
      BY <1>6 DEF Plain
    <2> HIDE DEF m
    <2>3. out'[x] = <<m>>
      BY <1>5, <1>6, <2>1, ShortParts DEF m
    <2>4. Moves(x, TRUE, body, m)
      BY <1>1, <1>3, <1>6, <2>2 DEF Moves, Settles
    <2>5. Tidings(x, TRUE, body)
      BY <2>1, <2>3, <2>4, GoneNews
    <2>6. QED
      BY <1>6, <2>5
  <1>7. CASE x # c /\ InBoard(x, w)
    <2>1. UNCHANGED fsm[x] /\ InBoard(x, w)'
      BY <1>3, <1>7 DEF InBoard
    <2>2. out'[x] = <<TheirList(w)>>
      BY <1>5, <1>7, <2>1, ShortParts
    <2>3. pendingClients'[w] \subseteq pendingClients[w]
      BY <1>2
    <2>4. Tidings(x, FALSE, body)
      BY <1>7, <2>1, <2>2, <2>3, ListNews
    <2>5. QED
      BY <1>7, <2>4
  <1>8. CASE x # c /\ ~InBoard(x, w)
    <2>1. UNCHANGED fsm[x] /\ ~InBoard(x, w)'
      BY <1>3, <1>8 DEF InBoard
    <2>2. out'[x] = <<>>
      BY <1>5, <1>8, <2>1, ShortParts
    <2>3. \A b \in Boards : InBoard(x, b) => b # w
      BY <1>8
    <2>4. Tidings(x, FALSE, body)
      BY <1>2, <1>4, <2>1, <2>2, <2>3, NoNews
    <2>5. QED
      BY <1>8, <2>4
  <1>9. QED
    BY <1>6, <1>7, <1>8

(* END_SESSION tells everybody whom it sends away.                         *)
LEMMA EndNews ==
  ASSUME Books, NEW h \in Clients, NEW from, EndSession(h, from), NEW body,
         NEW x \in Clients, socket'[x] = "open"
  PROVE  Tidings(x, x = h, body)
  <1>0. PICK w \in Boards : w = fsm[h].board
    BY EndsOnce
  <1>1. /\ fsm[h] = HostOf(w) /\ ~ended[w] /\ host[w] = h
        /\ UNCHANGED <<host, clients, pastUsers, pendingClients>>
    BY <1>0, EndsOnce
  <1>2. fsm' = AllSentAway(w, h) /\ Emit(from, ToAll(clients[w], SessionEnded(h, from)))
    BY <1>0, <1>1 DEF EndSession
  <1>3. /\ fsm'[x] = IF InBoard(x, w) THEN NoWhiteboard ELSE fsm[x]
        /\ clients[w][x] = IF InBoard(x, w) THEN 1 ELSE 0
    <2>1. clients[w][x] = IF InBoard(x, w) THEN 1 ELSE 0
      BY <1>1 DEF Books, MembershipAgrees
    <2>2. InBoard(x, w) => fsm[x].state = "USER" \/ x = h
      BY <1>1 DEF Books, HostAgrees, InBoard, UserOf, HostOf
    <2>3. InBoard(h, w)
      BY <1>1 DEF InBoard
    <2>4. QED
      BY <1>2, <2>1, <2>2, <2>3 DEF AllSentAway
  <1> DEFINE m == SessionEnded(h, from)
  <1>4. m.type = "whiteboardSessionEnded"
    BY DEF SessionEnded, Plain
  <1> HIDE DEF m
  <1>5. out'[x] = ToAll(clients[w], m)[x]
    BY <1>2, EmitAt DEF m
  <1>6. CASE InBoard(x, w)
    <2>1. out'[x] = <<m>>
      BY <1>3, <1>5, <1>6, CopiesAt
    <2>2. \A b \in Boards : ~InBoard(x, b)'
      BY <1>3, <1>6, StatesDiffer DEF InBoard
    <2>3. Tells(m, fsm[x], fsm'[x])
      BY <1>3, <1>4, <1>6 DEF Tells, InBoard
    <2>4. Moves(x, TRUE, body, m) /\ Moves(x, FALSE, body, m)
      BY <2>3 DEF Moves
    <2>5. Tidings(x, TRUE, body)
      BY <2>1, <2>2, <2>4, GoneNews
    <2>6. Tidings(x, FALSE, body)
      BY <2>1, <2>2, <2>4, GoneNews
    <2>7. CASE x = h
      BY <2>5, <2>7
    <2>8. CASE x # h
      BY <2>6, <2>8
    <2>9. QED
      BY <2>7, <2>8
  <1>7. CASE ~InBoard(x, w)
    <2>1. out'[x] = <<>> /\ UNCHANGED fsm[x] /\ x # h
      BY <1>1, <1>3, <1>5, <1>7, CopiesAt DEF InBoard
    <2>2. Tidings(x, FALSE, body)
      BY <1>1, <2>1, NoNews
    <2>3. QED
      BY <2>1, <2>2
  <1>8. QED
    BY <1>6, <1>7
-----------------------------------------------------------------------------
(* A user or a host may leave.                                             *)
LEMMA MembersMayLeave ==
  ASSUME NEW c, NEW b \in Boards, InBoard(c, b)
  PROVE  "leaveWhiteboard" \in ALLOWED_MESSAGES[fsm[c].state]
  BY DEF InBoard, UserOf, HostOf, ALLOWED_MESSAGES

(* A dump is for the newcomer, and nobody else hears of it.                *)
Addressed(body) ==
  /\ body.case = "joinWhiteboard" => body.board \in Boards
  /\ body.case = "approveOrDenyJoin" => body.client \in Clients

LEMMA HandlerNews ==
  ASSUME Books, Books', NEW c \in Clients, NEW body, Addressed(body), NEW dump,
         PlainHandler(c, body) \/ Approves(c, body, dump),
         NEW x \in Clients, socket'[x] = "open",
         Approves(c, body, dump) => x # body.client \/ dump = <<>>
  PROVE  Tidings(x, x = c, body)
  <1>1. CASE NotAllowed(c, body.case)
    <2>1. \A b \in Boards : InBoard(c, b) => body.case # "leaveWhiteboard"
      BY <1>1, MembersMayLeave DEF NotAllowed
    <2>2. QED
      BY <1>1, <2>1, AnswerNews DEF NotAllowed
  <1>2. CASE body.case = "clientHello" /\ ClientHello(c)
    BY <1>2, HelloNews
  <1>3. CASE body.case = "createWhiteboardRequest" /\ \E b \in Boards : CreateWhiteboard(c, b)
    BY <1>3, CreateNews
  <1>4. CASE body.case = "joinWhiteboard" /\ JoinWhiteboard(c, body.board)
    BY <1>4, JoinNews DEF Addressed
  <1>5. CASE body.case = "approveOrDenyJoin" /\ NoSuchApplicant(c, body.client)
    BY <1>5, AnswerNews DEF NoSuchApplicant, getPendingClient
  <1>6. CASE body.case = "approveOrDenyJoin" /\ DenyJoin(c, body.client)
    BY <1>6, DenyNews DEF Addressed
  <1>7. CASE body.case = "leaveWhiteboard" /\ LeaveWhiteboard(c)
    BY <1>7, DetachNews, EndNews DEF LeaveWhiteboard
  <1>8. CASE Approves(c, body, dump)
    BY <1>8, AdmitNews DEF Addressed, Approves
  <1>9. QED
    BY <1>1, <1>2, <1>3, <1>4, <1>5, <1>6, <1>7, <1>8 DEF PlainHandler

LEMMA SocketNews ==
  ASSUME Books, Books', NEW c \in Clients, RegisterClient(c) \/ CloseSocket(c), NEW body,
         NEW x \in Clients, socket'[x] = "open"
  PROVE  Tidings(x, FALSE, body)
  <1>1. ASSUME UNCHANGED <<fsm, boardVars>>, Emit(NoClient, Only(c, <<>>))
        PROVE  Tidings(x, FALSE, body)
    <2>1. out'[x] = <<>>
      BY <1>1, EmitAt, OnlyAt
    <2>2. QED
      BY <1>1, <2>1, NoNews
  <1>2. CASE RegisterClient(c)
    BY <1>1, <1>2 DEF RegisterClient
  <1>3. CASE CloseSocket(c)
    <2>1. x # c
      BY <1>3 DEF CloseSocket, Books, StateTypes
    <2>2. CASE DetachClient(c, NoClient)
      <3>1. Tidings(x, x = c, body)
        BY <2>1, <2>2, DetachNews
      <3>2. QED
        BY <2>1, <3>1
    <2>3. CASE EndSession(c, NoClient)
      <3>1. Tidings(x, x = c, body)
        BY <2>3, EndNews
      <3>2. QED
        BY <2>1, <3>1
    <2>4. QED
      BY <1>1, <1>3, <2>2, <2>3 DEF CloseSocket
  <1>4. QED
    BY <1>2, <1>3
-----------------------------------------------------------------------------
(* What the browser x sees of the server.                                  *)

(* The list of members and the applicants that x must come to know.        *)
Rosters(x) == {UserList(clients[b], pastUsers[b]) : b \in {w \in Boards : InBoard(x, w)}}
Applicants(x) == {y \in Clients : \E b \in Boards : fsm[x] = HostOf(b) /\ y \in pendingClients[b]}

Sees(x, hs, s, u, down, g, rosters, applicants, p) ==
  /\ Trail(x, hs, Shown(s), down, g, p)
  /\ \A m \in rosters : Roster(x, hs, down, g, p, u, m)
  /\ \A y \in applicants : Applicant(x, hs, down, g, p, u, y)

View(x) ==
  \E p : Sees(x, handlers[x], clientState[x], users[x], toClient[x], fsm[x],
              Rosters(x), Applicants(x), p)

InView(x) ==
  /\ x \notin Misled /\ socket[x] = "open" /\ link[x] # "closed" => View(x)
  /\ socket[x] = "new" => fsm[x] = Anonymous /\ toClient[x] = <<>>

ViewOK == PostOK /\ \A x \in Clients : InView(x)

(* What the server hands out prolongs what is seen.  If it handles a       *)
(* message of x, that is a request which still waits.                      *)
LEMMA NewsAreSeen ==
  ASSUME WellTyped, StateTypes', MailOK', NEW x \in Clients, View(x), Post(x), link[x] # "closed",
         NEW id \in Causes, Deliver(id), UNCHANGED browserVars,
         NEW mine \in BOOLEAN, NEW body, Tidings(x, mine, body),
         mine => \E r \in handlers[x] : r.body = body /\ id = <<x, r.id>>,
         ~mine => \A k \in Nat : id # <<x, k>>
  PROVE  View(x)'
  <1> DEFINE down == toClient[x]
             news == Delivered(x, id)
             hs   == handlers[x]
             u    == users[x]
             g    == fsm[x]
             h    == fsm'[x]
             n    == 1..Len(out'[x])
  <1>1. /\ down \in Seq(Reply) /\ g \in ClientFSM /\ h \in ClientFSM /\ hs \in SUBSET Letter
        /\ \A r, q \in hs : r.id = q.id => r = q
    BY DEF WellTyped, ClientTypes, Books, StateTypes, Post, InOrder
  <1>2. /\ news \in Seq(Reply) /\ 1..Len(news) = n /\ Len(news) = Len(out'[x])
        /\ \A i \in n : /\ news[i].body = out'[x][i]
                        /\ out'[x][i].re => news[i].causedBy = id
                        /\ news[i].causedBy \in {id, NoMessage}
    <2>1. /\ news \in Seq(Reply) /\ DOMAIN news = DOMAIN out'[x]
          /\ \A i \in DOMAIN out'[x] :
               /\ news[i].body = out'[x][i]
               /\ out'[x][i].re => news[i].causedBy = id
               /\ ~out'[x][i].re => news[i].causedBy = NoMessage
      BY DeliveredMail
    <2>2. out'[x] \in Seq(ProperMessage)
      BY DEF MailOK, Mail
    <2> HIDE DEF news
    <2>3. /\ DOMAIN news = 1..Len(news) /\ DOMAIN out'[x] = n
          /\ Len(news) \in Nat /\ Len(out'[x]) \in Nat
      BY <2>1, <2>2
    <2>4. Len(news) = Len(out'[x])
      <3>1. \A i, j \in Nat : 1..i = 1..j => i = j
        <4> SUFFICES ASSUME NEW i \in Nat, NEW j \in Nat, 1..i = 1..j, i < j PROVE FALSE
          OBVIOUS
        <4>1. j \in 1..j /\ j \notin 1..i
          OBVIOUS
        <4>2. QED
          BY <4>1
      <3>2. QED
        BY <2>1, <2>3, <3>1
    <2>5. QED
      BY <2>1, <2>3, <2>4
  <1>3. PICK p : Sees(x, hs, clientState[x], u, down, g, Rosters(x), Applicants(x), p)
    BY DEF View
  <1>4. ASSUME NEW i \in n, NEW r \in hs, AnswersTo(x, news[i], r.id)
        PROVE  mine /\ r.body = body
    <2>1. r.id \in Nat
      BY <1>1 DEF Letter
    <2>2. NoMessage # <<x, r.id>>
      BY <2>1, ClientSessionAssumption
    <2>3. id = <<x, r.id>>
      BY <1>2, <1>4, <2>2 DEF AnswersTo
    <2>4. mine
      BY <2>1, <2>3
    <2>5. PICK q \in hs : q.body = body /\ id = <<x, q.id>>
      BY <2>4
    <2>6. q.id = r.id
      BY <2>3, <2>5
    <2>7. QED
      BY <1>1, <2>4, <2>5, <2>6
  <1> DEFINE all == down \o news
             q   == Longer(p, down, news, h)
  <1> HIDE DEF news
  <1>5. Trail(x, hs, Shown(clientState[x]), all, h, q)
    <2>1. news = <<>> => g = h
      BY <1>2, EmptySeq DEF Tidings, NewsTrail, MailOK, Mail
    <2>2. ASSUME NEW i \in n PROVE Takes(x, hs, news[i], IF i = 1 THEN g ELSE h, h)
      <3> DEFINE f == IF i = 1 THEN g ELSE h
      <3>1. \/ Tells(out'[x][i], f, h)
            \/ mine /\ out'[x][i].re /\ Settles(body, out'[x][i], f, h)
        BY DEF Tidings, NewsTrail
      <3> HIDE DEF f
      <3>2. CASE Tells(out'[x][i], f, h)
        BY <1>2, <3>2 DEF Takes, f
      <3>3. CASE mine /\ out'[x][i].re /\ Settles(body, out'[x][i], f, h)
        <4>1. PICK r \in hs : r.body = body /\ id = <<x, r.id>>
          BY <3>3
        <4>2. AnswersTo(x, news[i], r.id)
          BY <1>2, <3>3, <4>1 DEF AnswersTo
        <4>3. QED
          BY <1>2, <3>3, <4>1, <4>2 DEF Takes, f
      <3>4. QED
        BY <3>1, <3>2, <3>3
    <2>3. Trail(x, hs, Shown(clientState[x]), down, g, p)
      BY <1>3 DEF Sees
    <2> HIDE DEF down, hs, g, h
    <2>4. QED
      BY <1>1, <1>2, <2>1, <2>2, <2>3, TrailGrows
  <1>6. ASSUME NEW m \in Rosters(x)' PROVE Roster(x, hs, all, h, q, u, m)
    <2>1. PICK b \in Boards : InBoard(x, b)' /\ m = TheirList(b)
      BY DEF Rosters, TheirList
    <2>2. CASE /\ InBoard(x, b) /\ UNCHANGED <<fsm[x], clients[b], pastUsers[b]>>
               /\ \A i \in n : ~Disturbs(out'[x][i], mine, body)
      <3>1. g = h /\ m \in Rosters(x)
        BY <2>1, <2>2 DEF Rosters, TheirList
      <3>2. Roster(x, hs, down, h, p, u, m)
        BY <1>3, <3>1 DEF Sees
      <3>3. \A i \in n : ~Upsets(x, hs, news[i])
        BY <1>2, <1>4, <2>2 DEF Upsets, Disturbs
      <3> HIDE DEF down, hs, g, h, u
      <3>4. QED
        BY <1>1, <1>2, <3>2, <3>3, RosterStays
    <2>3. CASE \E a \in n : /\ out'[x][a] = TheirList(b)
                            /\ \A i \in n : i > a => ~Disturbs(out'[x][i], mine, body)
      <3>1. PICK a \in n : /\ out'[x][a] = TheirList(b)
                           /\ \A i \in n : i > a => ~Disturbs(out'[x][i], mine, body)
        BY <2>3
      <3>2. news[a].body = m
        BY <1>2, <2>1, <3>1
      <3>3. \A i \in n : i > a => ~Upsets(x, hs, news[i])
        BY <1>2, <1>4, <3>1 DEF Upsets, Disturbs
      <3> HIDE DEF down, hs, g, h, u
      <3>4. QED
        BY <1>1, <1>2, <3>2, <3>3, RosterIsNew
    <2>4. QED
      BY <2>1, <2>2, <2>3 DEF Tidings, NewsRoster
  <1>7. ASSUME NEW y \in Applicants(x)' PROVE Applicant(x, hs, all, h, q, u, y)
    <2>1. PICK b \in Boards : fsm'[x] = HostOf(b) /\ y \in pendingClients'[b]
      BY DEF Applicants
    <2>2. CASE /\ fsm'[x] = fsm[x] /\ y \in pendingClients[b]
               /\ mine => /\ body.case # "leaveWhiteboard"
                          /\ body.case = "approveOrDenyJoin" /\ body.client = y =>
                               \A i \in n : out'[x][i].type # "success"
      <3>1. g = h /\ y \in Applicants(x)
        BY <2>1, <2>2 DEF Applicants
      <3>2. Applicant(x, hs, down, h, p, u, y)
        BY <1>3, <3>1 DEF Sees
      <3>3. \A i \in n : ~Strikes(x, hs, y, news[i])
        BY <1>2, <1>4, <2>2 DEF Strikes
      <3> HIDE DEF down, hs, g, h, u
      <3>4. QED
        BY <1>1, <1>2, <3>2, <3>3, ApplicantStays
    <2>3. CASE out'[x] = <<WantsToJoin(y)>>
      <3>1. Len(news) = 1 /\ news[1].body = WantsToJoin(y)
        BY <1>2, <2>3
      <3> HIDE DEF down, hs, g, h, u
      <3>2. QED
        BY <1>1, <1>2, <3>1, ApplicantIsNew
    <2>4. QED
      BY <2>1, <2>2, <2>3 DEF Tidings, NewsApplicants
  <1>8. toClient'[x] = all
    BY DeliverAt DEF news
  <1>9. UNCHANGED <<handlers[x], clientState[x], users[x]>>
    BY DEF browserVars
  <1> HIDE DEF all, q
  <1>10. Sees(x, handlers'[x], clientState'[x], users'[x], toClient'[x], fsm'[x],
              Rosters(x)', Applicants(x)', q)
    BY <1>5, <1>6, <1>7, <1>8, <1>9 DEF Sees
  <1>11. QED
    BY <1>10 DEF View
-----------------------------------------------------------------------------
(* A browser that is not misled reads the first message as it is meant.    *)
LEMMA ReceiveFollows ==
  ASSUME WellTyped, NEW c \in Clients, Post(c), Receive(c), c \notin gaveUp,
         c \notin astray', c \notin evicted', NEW g \in ClientFSM,
         Takes(c, handlers[c], Head(toClient[c]), Shown(clientState[c]), g)
  PROVE  Shown(clientState'[c]) = g
  <1> DEFINE d    == Head(toClient[c])
             m    == d.body
             s    == clientState[c]
             hs   == handlers[c]
             hold == handleMessage(s, m)
  <1>1. /\ s \in ConnectionState /\ Online(s) /\ clientState \in [Clients -> ConnectionState]
        /\ hs \in SUBSET Letter /\ \A r, q \in hs : r.id = q.id => r = q
    BY DEF WellTyped, ClientTypes, Receive, Post, InOrder
  <1>2. d \in Reply /\ (~m.re => d.causedBy = NoMessage)
    <2>1. toClient[c] \in Seq(Reply) /\ toClient[c] # <<>>
      BY DEF WellTyped, ClientTypes, Receive
    <2>2. d \in Reply /\ d = toClient[c][1] /\ 1 \in DOMAIN toClient[c]
      BY <2>1, HeadTailProperties
    <2>3. \A i \in DOMAIN toClient[c] :
            ~toClient[c][i].body.re => toClient[c][i].causedBy = NoMessage
      BY DEF Post, InOrder
    <2>4. QED
      BY <2>2, <2>3
  <1>3. m \in ProperMessage
    BY <1>2 DEF Reply
  <1>4. \A r \in hs : d.causedBy = <<c, r.id>> => m.re
    <2>1. \A r \in hs : <<c, r.id>> # NoMessage
      BY <1>1, ClientSessionAssumption DEF Letter
    <2> HIDE DEF d, hs
    <2>2. QED
      BY <1>2, <2>1
  <1>5. \/ /\ \A r \in hs : d.causedBy # <<c, r.id>>
           /\ clientState' = [clientState EXCEPT ![c] = hold]
        \/ \E r \in hs :
             /\ d.causedBy = <<c, r.id>>
             /\ clientState' = [clientState EXCEPT ![c] = callback(hold, r.body, m)]
             /\ astray' = IF Unexpected(hold, r.body, m) THEN astray \cup {c} ELSE astray
             /\ evicted' = IF Evicts(hold, r.body, m) THEN evicted \cup {c} ELSE evicted
    BY DEF Receive, Caused
  <1>6. Takes(c, hs, d, Shown(s), g)
    OBVIOUS
  <1> HIDE DEF s, hs, d, hold
  <1>7. CASE /\ \A r \in hs : d.causedBy # <<c, r.id>>
             /\ clientState' = [clientState EXCEPT ![c] = hold]
    <2>1. Tells(m, Shown(s), g)
      BY <1>6, <1>7 DEF Takes, AnswersTo
    <2>2. Shown(hold) = g
      BY <1>1, <2>1, ReadsNews DEF hold
    <2>3. QED
      BY <1>1, <1>7, <2>2
  <1>8. ASSUME NEW r \in hs, d.causedBy = <<c, r.id>>,
               clientState' = [clientState EXCEPT ![c] = callback(hold, r.body, m)],
               ~Unexpected(hold, r.body, m), ~Evicts(hold, r.body, m)
        PROVE  Shown(clientState'[c]) = g
    <2>1. m.re
      BY <1>4, <1>8
    <2>2. \/ Settles(r.body, m, Shown(s), g)
          \/ m.type = "whiteboardSessionEnded" /\ Tells(m, Shown(s), g)
      <3>1. CASE Tells(m, Shown(s), g)
        BY <2>1, <3>1 DEF Tells
      <3>2. CASE \E q \in hs : AnswersTo(c, d, q.id) /\ Settles(q.body, m, Shown(s), g)
        BY <1>1, <1>8, <3>2 DEF AnswersTo
      <3>3. QED
        BY <1>6, <3>1, <3>2 DEF Takes
    <2>3. Shown(callback(hold, r.body, m)) = g
      BY <1>1, <1>8, <2>2, ReadsAnswer DEF hold
    <2>4. QED
      BY <1>1, <1>8, <2>3
  <1>9. QED
    BY <1>5, <1>7, <1>8

(* What it does to the lists of users.                                     *)
LEMMA ReceiveLists ==
  ASSUME WellTyped, NEW c \in Clients, Post(c), Receive(c)
  PROVE  LET d == Head(toClient[c]) IN
         /\ d.body.type = "userListChanged" /\ ~d.body.re =>
              users'[c].present = d.body.present /\ users'[c].past = d.body.past
         /\ ~Upsets(c, handlers[c], d) =>
              users'[c].present = users[c].present /\ users'[c].past = users[c].past
         /\ d.body.type = "clientWantsToJoin" /\ ~d.body.re => d.body.client \in users'[c].pending
         /\ \A y : ~Strikes(c, handlers[c], y, d) =>
              (y \in users[c].pending => y \in users'[c].pending)
  <1> DEFINE d    == Head(toClient[c])
             m    == d.body
             u    == users[c]
             hs   == handlers[c]
             list == usersAfterMessage(u, m)
  <1>1. /\ u \in UserLists /\ users \in [Clients -> UserLists] /\ hs \in SUBSET Letter
    BY DEF WellTyped, ClientTypes, UserLists
  <1>2. d \in Reply /\ (~m.re => d.causedBy = NoMessage)
    <2>1. toClient[c] \in Seq(Reply) /\ toClient[c] # <<>>
      BY DEF WellTyped, ClientTypes, Receive
    <2>2. d \in Reply /\ d = toClient[c][1] /\ 1 \in DOMAIN toClient[c]
      BY <2>1, HeadTailProperties
    <2>3. \A i \in DOMAIN toClient[c] :
            ~toClient[c][i].body.re => toClient[c][i].causedBy = NoMessage
      BY DEF Post, InOrder
    <2>4. QED
      BY <2>2, <2>3
  <1>3. m \in ProperMessage
    BY <1>2 DEF Reply
  <1>4. \A r \in hs : d.causedBy = <<c, r.id>> => m.re
    <2>1. \A r \in hs : <<c, r.id>> # NoMessage
      BY <1>1, ClientSessionAssumption DEF Letter
    <2> HIDE DEF d, hs
    <2>2. QED
      BY <1>2, <2>1
  <1>5. \/ users' = [users EXCEPT ![c] = list]
        \/ \E r \in hs : /\ d.causedBy = <<c, r.id>>
                         /\ users' = [users EXCEPT ![c] = usersAfterCallback(list, r.body, m)]
    BY DEF Receive, Caused
  <1> HIDE DEF d, u, hs
  <1>6. /\ m.type = "userListChanged" => list.present = m.present /\ list.past = m.past
        /\ m.type # "userListChanged" => list.present = u.present /\ list.past = u.past
        /\ m.type = "clientWantsToJoin" => m.client \in list.pending
        /\ \A y \in u.pending : y \in list.pending
    BY <1>1 DEF usersAfterMessage, UserLists
  <1>7. list \in UserLists
    BY <1>1, <1>3, ListsFollow
  <1> HIDE DEF list, m
  <1>8. CASE users' = [users EXCEPT ![c] = list]
    <2>1. users'[c] = list
      BY <1>1, <1>8
    <2>2. QED
      BY <1>6, <2>1 DEF Upsets, d, u, hs, m
  <1>9. ASSUME NEW r \in hs, d.causedBy = <<c, r.id>>,
               users' = [users EXCEPT ![c] = usersAfterCallback(list, r.body, m)]
        PROVE  /\ m.re
               /\ r.body.case # "leaveWhiteboard" =>
                    users'[c].present = list.present /\ users'[c].past = list.past
               /\ \A y \in list.pending :
                    \/ y \in users'[c].pending
                    \/ r.body.case = "leaveWhiteboard"
                    \/ r.body.case = "approveOrDenyJoin" /\ r.body.client = y /\ m.type = "success"
    <2>1. users'[c] = usersAfterCallback(list, r.body, m)
      BY <1>1, <1>9
    <2>2. m.re
      BY <1>4, <1>9
    <2>3. QED
      BY <1>7, <2>1, <2>2 DEF usersAfterCallback, UserLists
  <1>10. CASE \E r \in hs : /\ d.causedBy = <<c, r.id>>
                            /\ users' = [users EXCEPT ![c] = usersAfterCallback(list, r.body, m)]
    <2>1. PICK r \in hs : /\ d.causedBy = <<c, r.id>>
                          /\ users' = [users EXCEPT ![c] = usersAfterCallback(list, r.body, m)]
      BY <1>10
    <2>2. /\ m.re
          /\ r.body.case # "leaveWhiteboard" =>
               users'[c].present = list.present /\ users'[c].past = list.past
          /\ \A y \in list.pending :
               \/ y \in users'[c].pending
               \/ r.body.case = "leaveWhiteboard"
               \/ r.body.case = "approveOrDenyJoin" /\ r.body.client = y /\ m.type = "success"
      BY <1>9, <2>1
    <2>3. AnswersTo(c, d, r.id)
      BY <2>1 DEF AnswersTo
    <2>4. ~Upsets(c, hs, d) => users'[c].present = u.present /\ users'[c].past = u.past
      BY <1>6, <2>2, <2>3 DEF Upsets, m
    <2>5. \A y : ~Strikes(c, hs, y, d) => (y \in u.pending => y \in users'[c].pending)
      BY <1>6, <2>2, <2>3 DEF Strikes, m
    <2>6. QED
      BY <2>2, <2>4, <2>5 DEF d, u, hs, m
  <1>11. QED
    BY <1>5, <1>8, <1>10

(* A message has been read, and nothing else has happened yet.             *)
LEMMA ReadIsSeen ==
  ASSUME WellTyped, NEW c \in Clients, Post(c), Receive(c), c \notin gaveUp,
         c \notin astray', c \notin evicted', View(c)
  PROVE  \E p : Sees(c, handlers[c] \ Caused(c), clientState'[c], users'[c], Tail(toClient[c]),
                     fsm[c], Rosters(c), Applicants(c), p)
  <1> DEFINE d    == Head(toClient[c])
             down == toClient[c]
             hs   == handlers[c]
             left == handlers[c] \ Caused(c)
             u    == users[c]
             v    == users'[c]
  <1>1. PICK p : Sees(c, hs, clientState[c], u, down, fsm[c], Rosters(c), Applicants(c), p)
    BY DEF View
  <1>2. left = hs \ {r \in hs : AnswersTo(c, d, r.id)} /\ down # <<>>
    BY DEF Caused, AnswersTo, Receive
  <1>3. InOrder(c, hs, sent[c], toServer[c], down)
    BY DEF Post
  <1>4. /\ d.body.type = "userListChanged" /\ ~d.body.re =>
             v.present = d.body.present /\ v.past = d.body.past
        /\ ~Upsets(c, hs, d) => v.present = u.present /\ v.past = u.past
        /\ d.body.type = "clientWantsToJoin" /\ ~d.body.re => d.body.client \in v.pending
        /\ \A y : ~Strikes(c, hs, y, d) => (y \in u.pending => y \in v.pending)
    BY ReceiveLists
  <1>5. \A g \in ClientFSM :
          Takes(c, hs, d, Shown(clientState[c]), g) => Shown(clientState'[c]) = g
    BY ReceiveFollows
  <1> DEFINE q == Shorter(p, down)
             g == fsm[c]
  <1> HIDE DEF hs, left, u, v, g
  <1>6. Trail(c, left, Shown(clientState'[c]), Tail(down), g, q)
    <2>1. Trail(c, hs, Shown(clientState[c]), down, g, p)
      BY <1>1 DEF Sees, g
    <2> HIDE DEF down
    <2>2. /\ p[1] \in ClientFSM /\ Takes(c, hs, Head(down), Shown(clientState[c]), p[1])
          /\ Trail(c, left, p[1], Tail(down), g, Shorter(p, down))
      BY <1>2, <1>3, <2>1, TrailReads DEF down
    <2>3. QED
      BY <1>5, <2>2 DEF down
  <1>7. ASSUME NEW m \in Rosters(c) PROVE Roster(c, left, Tail(down), g, q, v, m)
    <2>1. Roster(c, hs, down, g, p, u, m)
      BY <1>1 DEF Sees, g
    <2>2. m.type = "userListChanged" /\ ~m.re
      BY DEF Rosters, UserList
    <2>3. Head(down).body = m => v.present = m.present /\ v.past = m.past
      BY <1>4, <2>2
    <2>4. ~Upsets(c, hs, Head(down)) => v.present = u.present /\ v.past = u.past
      BY <1>4
    <2> HIDE DEF down
    <2>5. QED
      BY <1>2, <1>3, <2>1, <2>3, <2>4, RosterReads DEF down
  <1>8. ASSUME NEW y \in Applicants(c) PROVE Applicant(c, left, Tail(down), g, q, v, y)
    <2>1. Applicant(c, hs, down, g, p, u, y)
      BY <1>1 DEF Sees, g
    <2>2. /\ WantsToJoin(y).type = "clientWantsToJoin" /\ ~WantsToJoin(y).re
          /\ WantsToJoin(y).client = y
      BY DEF WantsToJoin
    <2>3. Head(down).body = WantsToJoin(y) => y \in v.pending
      BY <1>4, <2>2
    <2>4. ~Strikes(c, hs, y, Head(down)) => (y \in u.pending => y \in v.pending)
      BY <1>4
    <2> HIDE DEF down
    <2>5. QED
      BY <1>2, <1>3, <2>1, <2>3, <2>4, ApplicantReads DEF down
  <1>9. Sees(c, left, clientState'[c], v, Tail(down), g, Rosters(c), Applicants(c), q)
    BY <1>6, <1>7, <1>8 DEF Sees
  <1>10. QED
    BY <1>9 DEF left, v, g
(* A request that is sent is seen by nobody yet.                           *)
LEMMA SendingIsUnseen ==
  ASSUME ClientTypes, NEW c \in Clients, NEW hs, NEW down, NEW body \in SessionBody,
         SendAll(c, hs, <<body>>), InOrder(c, hs, sent[c], toServer[c], down),
         NEW s, NEW u, NEW g, NEW rosters, NEW applicants, NEW p,
         Sees(c, hs, s, u, down, g, rosters, applicants, p)
  PROVE  Sees(c, handlers'[c], s, u, down, g, rosters, applicants, p)
  <1> DEFINE l == NewLetter(c, body)
  <1>1. handlers' = [handlers EXCEPT ![c] = hs \cup {l}]
    BY SendsOne
  <1>2. handlers'[c] = hs \cup {l}
    BY <1>1 DEF ClientTypes
  <1>3. l.id = sent[c] + 1
    BY DEF NewLetter
  <1> HIDE DEF l
  <1>4. Sees(c, hs \cup {l}, s, u, down, g, rosters, applicants, p)
    <2>1. /\ \A f, h, q : Trail(c, hs, f, down, h, q) => Trail(c, hs \cup {l}, f, down, h, q)
          /\ \A h, q, v, m : Roster(c, hs, down, h, q, v, m) =>
                               Roster(c, hs \cup {l}, down, h, q, v, m)
          /\ \A h, q, v, y : Applicant(c, hs, down, h, q, v, y) =>
                               Applicant(c, hs \cup {l}, down, h, q, v, y)
      BY <1>3, NewLetterChangesNothing
    <2>2. QED
      BY <2>1 DEF Sees
  <1>5. QED
    BY <1>2, <1>4

(* A step that leaves x and the server alone.                              *)
Unmoved(x) == Untroubled(x) /\ UNCHANGED users[x] /\ (x \in Misled => x \in Misled')

LEMMA UnmovedView ==
  ASSUME NEW x \in Clients, InView(x), Unmoved(x), ServerIdle
  PROVE  InView(x)'
  <1>1. UNCHANGED <<fsm[x], Rosters(x), Applicants(x)>>
    BY DEF ServerIdle, Rosters, Applicants, InBoard
  <1>2. View(x) => View(x)'
    BY <1>1 DEF View, Unmoved, Untroubled
  <1>3. QED
    BY <1>1, <1>2 DEF InView, Unmoved, Untroubled

(* What remains to be shown of a step of the browser c.                    *)
LEMMA BrowserStepView ==
  ASSUME ViewOK, NEW c \in Clients, ServerIdle, PostOK',
         \A x \in Clients \ {c} : Unmoved(x),
         c \notin Misled' /\ socket[c] = "open" /\ link'[c] # "closed" => View(c)',
         socket[c] = "new" => UNCHANGED toClient[c] \/ toClient'[c] = <<>>
  PROVE  ViewOK'
  <1>1. InView(c)'
    BY DEF ViewOK, InView, ServerIdle
  <1>2. \A x \in Clients \ {c} : InView(x)'
    BY UnmovedView DEF ViewOK
  <1>3. QED
    BY <1>1, <1>2 DEF ViewOK

LEMMA IdleSeesTheSame ==
  ASSUME ServerIdle, NEW x
  PROVE  UNCHANGED <<socket[x], fsm[x], Rosters(x), Applicants(x)>>
  BY DEF ServerIdle, Rosters, Applicants, InBoard

LEMMA PressView ==
  ASSUME ViewOK, NEW c \in Clients, NEW body \in SessionBody, Press(c, body),
         Online(clientState[c])
  PROVE  ViewOK'
  <1>1. PostOK' /\ PostOK
    BY PressPost DEF ViewOK
  <1>2. /\ SendAll(c, handlers[c], <<body>>) /\ ServerIdle
        /\ UNCHANGED <<link, clientState, users, gaveUp, astray, evicted, toClient, socket>>
    BY DEF Press, PressAll, ServerIdle
  <1>3. ClientTypes /\ handlers[c] \in SUBSET Letter /\ Post(c)
    BY <1>1 DEF PostOK, WellTyped, ClientTypes
  <1>4. \A x \in Clients \ {c} : Unmoved(x)
    BY <1>2, <1>3, SendingTypes DEF Unmoved, Untroubled, Misled
  <1>5. ASSUME View(c) PROVE View(c)'
    <2>1. PICK p : Sees(c, handlers[c], clientState[c], users[c], toClient[c], fsm[c],
                        Rosters(c), Applicants(c), p)
      BY <1>5 DEF View
    <2>2. InOrder(c, handlers[c], sent[c], toServer[c], toClient[c])
      BY <1>3 DEF Post
    <2>3. Sees(c, handlers'[c], clientState[c], users[c], toClient[c], fsm[c],
               Rosters(c), Applicants(c), p)
      BY <1>2, <1>3, <2>1, <2>2, SendingIsUnseen
    <2>4. QED
      BY <1>2, <2>3, IdleSeesTheSame DEF View
  <1>6. QED
    BY <1>1, <1>2, <1>4, <1>5, BrowserStepView DEF ViewOK, InView, Misled

LEMMA ReceiveView ==
  ASSUME ViewOK, NEW c \in Clients, Receive(c)
  PROVE  ViewOK'
  <1> DEFINE down == toClient[c]
             left == handlers[c] \ Caused(c)
  <1>1. PostOK' /\ PostOK
    BY ReceivePost DEF ViewOK
  <1>2. /\ ServerIdle /\ link[c] = "open" /\ down # <<>>
        /\ toClient' = [toClient EXCEPT ![c] = Tail(@)]
        /\ UNCHANGED <<socket, link, gaveUp>>
        /\ \/ /\ handlers' = [handlers EXCEPT ![c] = left]
              /\ UNCHANGED <<sent, toServer>>
           \/ \E b \in Boards : SendAll(c, left, <<JoinBody(b)>>)
    BY DEF Receive, ServerIdle
  <1>3. WellTyped /\ ClientTypes /\ Post(c) /\ left \in SUBSET Letter
    BY <1>1 DEF PostOK, WellTyped, ClientTypes
  <1>4. toClient'[c] = Tail(down) /\ \A x \in Clients \ {c} : UNCHANGED toClient[x]
    BY <1>2, <1>3 DEF ClientTypes
  <1>5. /\ astray \subseteq astray' /\ evicted \subseteq evicted'
        /\ \A x \in Clients \ {c} : UNCHANGED <<clientState[x], users[x]>>
    BY <1>3 DEF Receive, ClientTypes
  <1>6. \A x \in Clients \ {c} : Unmoved(x)
    <2>1. \A x \in Clients \ {c} : UNCHANGED <<handlers[x], sent[x], toServer[x]>>
      <3>1. CASE handlers' = [handlers EXCEPT ![c] = left] /\ UNCHANGED <<sent, toServer>>
        BY <1>3, <3>1 DEF ClientTypes
      <3>2. CASE \E b \in Boards : SendAll(c, left, <<JoinBody(b)>>)
        <4>1. PICK b \in Boards : SendAll(c, left, <<JoinBody(b)>>)
          BY <3>2
        <4>2. JoinBody(b) \in SessionBody
          BY DEF SessionBody
        <4> HIDE DEF left
        <4>3. QED
          BY <1>3, <4>1, <4>2, SendingTypes
      <3>3. QED
        BY <1>2, <3>1, <3>2
    <2>2. QED
      BY <1>2, <1>4, <1>5, <2>1 DEF Unmoved, Untroubled, Misled
  <1>7. ASSUME c \notin Misled', View(c) PROVE View(c)'
    <2>1. c \notin gaveUp /\ c \notin astray' /\ c \notin evicted'
      BY <1>2, <1>7 DEF Misled
    <2>2. PICK p : Sees(c, left, clientState'[c], users'[c], Tail(down),
                        fsm[c], Rosters(c), Applicants(c), p)
      BY <1>3, <1>7, <2>1, ReadIsSeen
    <2>3. InOrder(c, left, sent[c], toServer[c], Tail(down))
      <3>1. left = handlers[c] \ {r \in handlers[c] : AnswersTo(c, Head(down), r.id)}
        BY DEF Caused, AnswersTo
      <3>2. InOrder(c, handlers[c], sent[c], toServer[c], down)
        BY <1>3 DEF Post
      <3> HIDE DEF left, down
      <3>3. QED
        BY <1>2, <3>1, <3>2, ReadOrdered
    <2> HIDE DEF left, down
    <2>4. Sees(c, handlers'[c], clientState'[c], users'[c], Tail(down),
               fsm[c], Rosters(c), Applicants(c), p)
      <3>1. CASE handlers' = [handlers EXCEPT ![c] = left]
        BY <1>3, <2>2, <3>1 DEF ClientTypes
      <3>2. CASE \E b \in Boards : SendAll(c, left, <<JoinBody(b)>>)
        <4>1. PICK b \in Boards : SendAll(c, left, <<JoinBody(b)>>)
          BY <3>2
        <4>2. JoinBody(b) \in SessionBody
          BY DEF SessionBody
        <4>3. QED
          BY <1>3, <2>2, <2>3, <4>1, <4>2, SendingIsUnseen
      <3>3. QED
        BY <1>2, <3>1, <3>2
    <2>5. QED
      BY <1>2, <1>4, <2>4, IdleSeesTheSame DEF View
  <1>8. c \notin Misled' => c \notin Misled
    BY <1>2, <1>5 DEF Misled
  <1>9. socket[c] = "new" => toClient[c] = <<>>
    BY DEF ViewOK, InView
  <1>10. c \notin Misled' /\ socket[c] = "open" /\ link'[c] # "closed" => View(c)'
    BY <1>2, <1>7, <1>8 DEF ViewOK, InView
  <1>11. QED
    BY <1>1, <1>2, <1>6, <1>9, <1>10, BrowserStepView

(* The button that leaves an ended session empties the lists: what they    *)
(* will hold is still on its way.                                          *)
LEMMA ExitView ==
  ASSUME ViewOK, NEW c \in Clients, exitEndedSession(c)
  PROVE  ViewOK'
  <1>1. PostOK' /\ PostOK
    BY ExitPost DEF ViewOK
  <1>2. /\ ServerIdle /\ clientState' = [clientState EXCEPT ![c] = Screen("NO_WHITEBOARD")]
        /\ users' = [users EXCEPT ![c] = NoUsers] /\ clientState[c].state = "SESSION_ENDED"
        /\ UNCHANGED <<socket, link, handlers, sent, gaveUp, astray, evicted, toServer, toClient>>
    BY DEF exitEndedSession, ServerIdle, channelVars
  <1>3. ClientTypes /\ clientState[c] \in ConnectionState
    BY <1>1 DEF PostOK, WellTyped, ClientTypes
  <1>4. \A x \in Clients \ {c} : Unmoved(x)
    BY <1>2, <1>3 DEF Unmoved, Untroubled, Misled, ClientTypes
  <1>5. Shown(clientState[c]) = NoWhiteboard /\ Shown(clientState'[c]) = NoWhiteboard
    <2>1. clientState'[c] = Screen("NO_WHITEBOARD")
      BY <1>2, <1>3 DEF ClientTypes
    <2>2. QED
      BY <1>2, <1>3, <2>1, ShownStates, ScreensShow
  <1>6. ASSUME View(c) PROVE View(c)'
    <2> DEFINE down == toClient[c]
               g    == fsm[c]
               u    == users[c]
               v    == users'[c]
               hs   == handlers[c]
    <2>1. PICK p : Sees(c, hs, clientState[c], u, down, g, Rosters(c), Applicants(c), p)
      BY <1>6 DEF View
    <2>2. p[0] = NoWhiteboard
      BY <1>5, <2>1 DEF Sees, Trail
    <2>3. Len(down) \in Nat
      BY <1>3 DEF ClientTypes
    <2>4. ASSUME NEW i \in 0..Len(down), Place(p, down, g, i), g # NoWhiteboard PROVE i # 0
      BY <2>2, <2>3, <2>4 DEF Place
    <2>5. Rosters(c) # {} \/ Applicants(c) # {} => g # NoWhiteboard
      <3>1. g = NoWhiteboard => \A b \in Boards : ~InBoard(c, b) /\ g # HostOf(b)
        BY StatesDiffer DEF InBoard
      <3>2. g = NoWhiteboard => Rosters(c) = {}
        BY <3>1 DEF Rosters
      <3>3. g = NoWhiteboard => Applicants(c) = {}
        BY <3>1 DEF Applicants
      <3>4. QED
        BY <3>2, <3>3
    <2> HIDE DEF down, g, u, v, hs
    <2>6. ASSUME NEW m \in Rosters(c) PROVE Roster(c, hs, down, g, p, v, m)
      <3>1. PICK i \in 0..Len(down) : Place(p, down, g, i) /\ RosterAt(c, hs, down, u, m, i)
        BY <2>1 DEF Sees, Roster
      <3>2. i # 0
        BY <2>4, <2>5, <3>1
      <3>3. QED
        BY <3>1, <3>2 DEF Roster, RosterAt
    <2>7. ASSUME NEW y \in Applicants(c) PROVE Applicant(c, hs, down, g, p, v, y)
      <3>1. PICK i \in 0..Len(down) : Place(p, down, g, i) /\ ApplicantAt(c, hs, down, u, y, i)
        BY <2>1 DEF Sees, Applicant
      <3>2. i # 0
        BY <2>4, <2>5, <3>1
      <3>3. QED
        BY <3>1, <3>2 DEF Applicant, ApplicantAt
    <2>8. Sees(c, hs, clientState'[c], v, down, g, Rosters(c), Applicants(c), p)
      BY <1>5, <2>1, <2>6, <2>7 DEF Sees
    <2>9. QED
      BY <1>2, <2>8, IdleSeesTheSame DEF View, hs, v, down, g
  <1>7. QED
    BY <1>1, <1>2, <1>4, <1>6, BrowserStepView DEF ViewOK, InView, Misled

LEMMA ConnectionView ==
  ASSUME ViewOK, NEW c \in Clients, Connected(c) \/ Disconnected(c) \/ TimeOut(c)
  PROVE  ViewOK'
  <1>1. PostOK' /\ PostOK
    BY ConnectedPost, DisconnectedPost, TimeOutPost DEF ViewOK
  <1>2. WellTyped /\ ClientTypes /\ Post(c)
    BY <1>1 DEF PostOK, WellTyped
  <1>3. CASE Connected(c)
    <2>1. /\ ServerIdle /\ clientState' = [clientState EXCEPT ![c] = Screen("ANONYMOUS")]
          /\ link[c] = "connecting" /\ link' = [link EXCEPT ![c] = "open"]
          /\ UNCHANGED <<socket, users, handlers, sent, gaveUp, astray, evicted,
                         toServer, toClient>>
      BY <1>3 DEF Connected, ServerIdle, channelVars
    <2>2. \A x \in Clients \ {c} : Unmoved(x)
      BY <1>2, <2>1 DEF Unmoved, Untroubled, Misled, ClientTypes
    <2>3. Shown(clientState'[c]) = Shown(clientState[c])
      <3>1. clientState'[c] = Screen("ANONYMOUS") /\ clientState[c] = Screen("CONNECTING")
        BY <1>2, <2>1 DEF ClientTypes, Post
      <3>2. QED
        BY <3>1, ScreensShow
    <2>4. View(c) => View(c)'
      BY <2>1, <2>3, IdleSeesTheSame DEF View, Sees
    <2>5. QED
      BY <1>1, <2>1, <2>2, <2>4, BrowserStepView DEF ViewOK, InView, Misled
  <1>4. CASE Disconnected(c)
    <2>1. /\ ServerIdle /\ clientState' = [clientState EXCEPT ![c] = Screen("DISCONNECTED")]
          /\ link' = [link EXCEPT ![c] = "closed"]
          /\ toClient' = [toClient EXCEPT ![c] = <<>>]
          /\ UNCHANGED <<socket, users, handlers, sent, gaveUp, astray, evicted, toServer>>
      BY <1>4 DEF Disconnected, ServerIdle
    <2>2. \A x \in Clients \ {c} : Unmoved(x)
      BY <1>2, <2>1 DEF Unmoved, Untroubled, Misled, ClientTypes
    <2>3. link'[c] = "closed" /\ toClient'[c] = <<>>
      BY <1>2, <2>1 DEF ClientTypes
    <2>4. QED
      BY <1>1, <2>1, <2>2, <2>3, BrowserStepView
  <1>5. CASE TimeOut(c)
    <2>1. PICK r \in handlers[c] :
            /\ ServerIdle /\ handlers' = [handlers EXCEPT ![c] = @ \ {r}]
            /\ clientState' = [clientState EXCEPT ![c] = callback(@, r.body, Timeout)]
            /\ users' = [users EXCEPT ![c] = usersAfterCallback(@, r.body, Timeout)]
            /\ gaveUp' = IF r.body.case \in FigureMessages THEN gaveUp ELSE gaveUp \cup {c}
            /\ UNCHANGED <<socket, link, sent, astray, evicted, toServer, toClient>>
      BY <1>5 DEF TimeOut, ServerIdle, channelVars
    <2>2. \A x \in Clients \ {c} : Unmoved(x)
      BY <1>2, <2>1 DEF Unmoved, Untroubled, Misled, ClientTypes
    <2>3. c \in Misled'
      <3>1. r \in Letter
        BY <1>2 DEF ClientTypes
      <3>2. r.body \in SessionBody
        BY <3>1 DEF Letter
      <3>3. r.body.case \notin FigureMessages
        BY <3>2, Bodies
      <3>4. QED
        BY <2>1, <3>3 DEF Misled
    <2>4. QED
      BY <1>1, <2>1, <2>2, <2>3, BrowserStepView
  <1>6. QED
    BY <1>3, <1>4, <1>5
-----------------------------------------------------------------------------
(* The steps of the server.                                                *)

(* A connection without a name is nobody's concern but its own.            *)
LEMMA AnonymousStays ==
  ASSUME Books, NEW c \in Clients, ServerStep(c), NEW x \in Clients, x # c, fsm[x] = Anonymous
  PROVE  fsm'[x] = Anonymous
  <1> USE DEF Books, StateTypes
  <1>1. ASSUME UNCHANGED fsm PROVE fsm'[x] = Anonymous
    BY <1>1
  <1>2. CASE \/ RegisterClient(c)
             \/ \E case \in ClientToServerCase : NotAllowed(c, case)
             \/ \E y \in Clients : NoSuchApplicant(c, y)
    BY <1>2 DEF RegisterClient, NotAllowed, NoSuchApplicant, getPendingClient, Answer
  <1>3. CASE ClientHello(c)
    BY <1>3 DEF ClientHello, Named
  <1>4. ASSUME NEW b \in Boards, CreateWhiteboard(c, b) \/ JoinWhiteboard(c, b)
        PROVE  fsm'[x] = Anonymous
    BY <1>4 DEF CreateWhiteboard, Hosting, addWhiteboard, JoinWhiteboard, Applying,
                WithApplicant, Answer
  <1>5. ASSUME NEW y \in Clients, DenyJoin(c, y) PROVE fsm'[x] = Anonymous
    <2>1. /\ fsm[c].board \in Boards /\ fsm[y] = PendingOn(fsm[c].board)
          /\ fsm' = [fsm EXCEPT ![y] = NoWhiteboard]
      BY <1>5, Decidable DEF DenyJoin, getPendingClient, BackToNoWhiteboard
    <2>2. PendingOn(fsm[c].board) # Anonymous
      BY <2>1, StatesDiffer
    <2>3. y # x
      BY <2>1, <2>2
    <2>4. QED
      BY <2>1, <2>3
  <1>6. ASSUME NEW y \in Clients, ApproveJoin(c, y, <<>>) PROVE fsm'[x] = Anonymous
    <2>1. /\ fsm[c].board \in Boards /\ fsm[y] = PendingOn(fsm[c].board)
          /\ fsm' = [fsm EXCEPT ![y] = UserOf(fsm[c].board)]
      BY <1>6, Decidable DEF ApproveJoin, getPendingClient, Admit, Using
    <2>2. PendingOn(fsm[c].board) # Anonymous
      BY <2>1, StatesDiffer
    <2>3. y # x
      BY <2>1, <2>2
    <2>4. QED
      BY <2>1, <2>3
  <1>7. ASSUME NEW from, DetachClient(c, from) PROVE fsm'[x] = Anonymous
    BY <1>7 DEF DetachClient, BackToNoWhiteboard
  <1>8. ASSUME NEW from, EndSession(c, from) PROVE fsm'[x] = Anonymous
    <2>1. fsm' = AllSentAway(fsm[c].board, c) /\ fsm[x].state # "USER"
      BY <1>8 DEF EndSession, Anonymous
    <2>2. QED
      BY <2>1 DEF AllSentAway
  <1>9. CASE LeaveWhiteboard(c) \/ CloseSocket(c)
    BY <1>7, <1>8, <1>9 DEF LeaveWhiteboard, CloseSocket
  <1>10. QED
    BY <1>2, <1>3, <1>4, <1>5, <1>6, <1>9 DEF ServerStep, PlainStep

(* A socket that is not open swallows what is sent to it.                  *)
LEMMA OnlyOpenHear ==
  ASSUME NEW c \in Clients, ServerStep(c), NEW x \in Clients, socket'[x] # "open"
  PROVE  out'[x] = <<>>
  <1>0. ASSUME NEW d, NEW msgs, Emit(d, msgs) PROVE out'[x] = <<>>
    BY <1>0 DEF Emit
  <1>1. ASSUME NEW d, NEW m, Answer(d, m) PROVE out'[x] = <<>>
    BY <1>0, <1>1 DEF Answer
  <1>2. CASE \/ RegisterClient(c) \/ ClientHello(c)
             \/ \E case \in ClientToServerCase : NotAllowed(c, case)
             \/ \E y \in Clients : NoSuchApplicant(c, y)
    BY <1>0, <1>1, <1>2 DEF RegisterClient, ClientHello, NotAllowed, NoSuchApplicant
  <1>3. CASE \E b \in Boards : CreateWhiteboard(c, b) \/ JoinWhiteboard(c, b)
    BY <1>0, <1>1, <1>3 DEF CreateWhiteboard, JoinWhiteboard
  <1>4. CASE RefuseDecision(c)
    BY <1>0, <1>1, <1>4 DEF RefuseDecision, Throws
  <1>5. ASSUME NEW y \in Clients, DenyJoin(c, y) \/ ApproveJoin(c, y, <<>>)
        PROVE  out'[x] = <<>>
    BY <1>0, <1>4, <1>5 DEF DenyJoin, ApproveJoin, Admit
  <1>6. CASE LeaveWhiteboard(c) \/ CloseSocket(c)
    BY <1>0, <1>6 DEF LeaveWhiteboard, CloseSocket, DetachClient, EndSession
  <1>7. QED
    BY <1>2, <1>3, <1>5, <1>6 DEF ServerStep, PlainStep

(* Nothing is on its way to a browser that does not hear anything.         *)
LEMMA NothingDelivered ==
  ASSUME NEW id, Deliver(id), NEW x \in Clients, toClient[x] = <<>>, out'[x] = <<>>
  PROVE  toClient'[x] = <<>>
  <1>1. Delivered(x, id) = <<>>
    BY DEF Delivered
  <1>2. <<>> \o <<>> = <<>>
    BY ShortParts
  <1>3. QED
    BY <1>1, <1>2, DeliverAt

LEMMA HandleView ==
  ASSUME ViewOK, NEW c \in Clients, Handle(c)
  PROVE  ViewOK'
  <1> DEFINE up   == toServer[c]
             body == Head(up).body
             id   == <<c, Head(up).id>>
  <1>1. PostOK' /\ PostOK /\ WellTyped /\ ClientTypes /\ Post(c)
    BY HandlePost DEF ViewOK, PostOK, WellTyped
  <1>2. /\ ServerStep(c) /\ Books' /\ MailOK' /\ up # <<>> /\ Handled(c) /\ Head(up) \in Letter
    BY <1>1, HandleAnswers
  <1>3. /\ Deliver(id) /\ UNCHANGED browserVars /\ UNCHANGED socket
        /\ PlainHandler(c, body) \/ Approves(c, body, <<>>)
    BY <1>2, HandlersKeepSockets DEF Handled, Handle
  <1>4. id \in Causes /\ Head(up).id \in Nat /\ body \in SessionBody /\ Books /\ StateTypes'
    BY <1>1, <1>2 DEF Letter, Causes, WellTyped, Books
  <1>5. c \notin gaveUp => Head(up) \in handlers[c]
    <2>1. up \in Seq(Letter)
      BY <1>1 DEF ClientTypes
    <2>2. 1 \in DOMAIN up /\ Head(up) = up[1]
      BY <1>2, <2>1, HeadTailProperties
    <2>3. QED
      BY <1>1, <2>2 DEF Post, Expected
  <1>6. socket[c] = "open"
    BY <1>3 DEF PlainHandler, Approves, NotAllowed, ClientHello, CreateWhiteboard,
         JoinWhiteboard, NoSuchApplicant, DenyJoin, ApproveJoin, LeaveWhiteboard, Dispatch
  <1> HIDE DEF up, body
  <1>7. ASSUME NEW x \in Clients, x \notin Misled', socket'[x] = "open", link'[x] # "closed"
        PROVE  View(x)'
    <2>1. View(x) /\ Post(x) /\ link[x] # "closed" /\ (x = c => c \notin gaveUp)
      BY <1>1, <1>3, <1>7 DEF ViewOK, InView, PostOK, Misled, browserVars
    <2>2. Tidings(x, x = c, body)
      <3>1. Addressed(body)
        BY <1>4, Bodies DEF Addressed
      <3>2. QED
        BY <1>2, <1>3, <1>4, <1>7, <3>1, HandlerNews
    <2>3. CASE x = c
      <3>1. Tidings(x, TRUE, body)
        BY <2>2, <2>3
      <3>2. \E r \in handlers[x] : r.body = body /\ id = <<x, r.id>>
        BY <1>5, <2>1, <2>3 DEF body
      <3> HIDE DEF id
      <3>3. TRUE \in BOOLEAN
        OBVIOUS
      <3>4. QED
        BY <1>1, <1>2, <1>3, <1>4, <2>1, <3>1, <3>2, <3>3, NewsAreSeen
    <2>4. CASE x # c
      <3>1. Tidings(x, FALSE, body)
        BY <2>2, <2>4
      <3>2. \A k \in Nat : id # <<x, k>>
        BY <2>4
      <3> HIDE DEF id
      <3>3. FALSE \in BOOLEAN
        OBVIOUS
      <3>4. QED
        BY <1>1, <1>2, <1>3, <1>4, <2>1, <3>1, <3>2, <3>3, NewsAreSeen
    <2>5. QED
      BY <2>3, <2>4
  <1>8. ASSUME NEW x \in Clients, socket'[x] = "new"
        PROVE  fsm'[x] = Anonymous /\ toClient'[x] = <<>>
    <2>1. x # c /\ fsm[x] = Anonymous /\ toClient[x] = <<>>
      BY <1>3, <1>6, <1>8 DEF ViewOK, InView
    <2>2. out'[x] = <<>>
      BY <1>2, <1>8, OnlyOpenHear
    <2>3. QED
      BY <1>2, <1>3, <1>4, <2>1, <2>2, AnonymousStays, NothingDelivered
  <1>9. QED
    BY <1>1, <1>7, <1>8 DEF ViewOK, InView

LEMMA SocketEventView ==
  ASSUME ViewOK, NEW c \in Clients, SocketEvent(c)
  PROVE  ViewOK'
  <1>1. PostOK' /\ PostOK /\ WellTyped
    BY SocketEventPost DEF ViewOK, PostOK
  <1>2. /\ Deliver(NoMessage) /\ UNCHANGED browserVars /\ ServerStep(c)
        /\ (RegisterClient(c) /\ link[c] = "connecting") \/ CloseSocket(c)
    BY SocketEventIsStep DEF SocketEvent, ServerStep
  <1>3. Books /\ Books' /\ MailOK' /\ StateTypes' /\ NoMessage \in Causes
    BY <1>1, <1>2, ServerStepIsCorrect DEF WellTyped, Books, Causes
  <1>4. \A x \in Clients : \A k \in Nat : NoMessage # <<x, k>>
    BY ClientSessionAssumption
  <1>5. \A x \in Clients \ {c} : UNCHANGED socket[x]
    BY <1>3, SocketEvents DEF Books
  <1>6. ASSUME NEW x \in Clients, x \notin Misled', socket'[x] = "open", link'[x] # "closed",
               socket[x] = "open"
        PROVE  View(x)'
    <2>1. View(x) /\ Post(x) /\ link[x] # "closed"
      BY <1>1, <1>2, <1>6 DEF ViewOK, InView, PostOK, Misled, browserVars
    <2> DEFINE body == Body("clientHello")
    <2>2. Tidings(x, FALSE, body) /\ FALSE \in BOOLEAN
      BY <1>2, <1>3, <1>6, SocketNews
    <2> HIDE DEF body
    <2>3. QED
      BY <1>1, <1>2, <1>3, <1>4, <2>1, <2>2, NewsAreSeen
  <1>7. ASSUME socket'[c] = "open", socket[c] # "open" PROVE View(c)'
    <2>1. /\ socket[c] = "new" /\ link[c] = "connecting" /\ UNCHANGED <<fsm, boardVars>>
          /\ Emit(NoClient, Only(c, <<>>))
      BY <1>2, <1>7 DEF RegisterClient, CloseSocket
    <2>2. fsm'[c] = Anonymous /\ toClient[c] = <<>>
      BY <2>1 DEF ViewOK, InView
    <2>3. out'[c] = <<>>
      BY <1>7, <2>1, EmitAt, OnlyAt
    <2>4. toClient'[c] = <<>>
      BY <1>2, <2>2, <2>3, NothingDelivered
    <2>5. Shown(clientState'[c]) = Anonymous
      <3>1. clientState'[c] = Screen("CONNECTING")
        BY <1>1, <1>2, <2>1 DEF PostOK, Post, browserVars
      <3>2. QED
        BY <3>1, ScreensShow
    <2>6. Rosters(c)' = {} /\ Applicants(c)' = {}
      <3>1. \A b \in Boards : ~InBoard(c, b)' /\ fsm'[c] # HostOf(b)
        BY <2>2, StatesDiffer DEF InBoard
      <3>2. Rosters(c)' = {}
        BY <3>1 DEF Rosters
      <3>3. Applicants(c)' = {}
        BY <3>1 DEF Applicants
      <3>4. QED
        BY <3>2, <3>3
    <2> DEFINE p == [i \in 0..0 |-> Anonymous]
    <2>7. \A hs : Trail(c, hs, Anonymous, <<>>, Anonymous, p)
      BY DEF Trail, ClientFSM
    <2> HIDE DEF p
    <2>8. Sees(c, handlers'[c], clientState'[c], users'[c], toClient'[c], fsm'[c],
               Rosters(c)', Applicants(c)', p)
      BY <2>2, <2>4, <2>5, <2>6, <2>7 DEF Sees
    <2>9. QED
      BY <2>8 DEF View
  <1>8. ASSUME NEW x \in Clients, socket'[x] = "new"
        PROVE  fsm'[x] = Anonymous /\ toClient'[x] = <<>>
    <2>1. x # c /\ socket[x] = "new"
      BY <1>2, <1>3, <1>5, <1>8 DEF RegisterClient, CloseSocket, Books, StateTypes
    <2>2. fsm[x] = Anonymous /\ toClient[x] = <<>>
      BY <2>1 DEF ViewOK, InView
    <2>3. out'[x] = <<>>
      BY <1>2, <1>8, OnlyOpenHear
    <2>4. QED
      BY <1>2, <1>3, <2>1, <2>2, <2>3, AnonymousStays, NothingDelivered
  <1>9. ASSUME NEW x \in Clients, x # c PROVE socket'[x] = "open" => socket[x] = "open"
    BY <1>5, <1>9
  <1>10. QED
    BY <1>1, <1>6, <1>7, <1>8, <1>9 DEF ViewOK, InView
-----------------------------------------------------------------------------
LEMMA ClientInitView == ClientInit => ViewOK
  <1> SUFFICES ASSUME ClientInit PROVE ViewOK
    OBVIOUS
  <1>1. PostOK
    BY ClientInitPost
  <1>2. ASSUME NEW x \in Clients PROVE InView(x)
    BY DEF ClientInit, Init, BrowsersAreNew, InView
  <1>3. QED
    BY <1>1, <1>2 DEF ViewOK

LEMMA ClientNextView == ViewOK /\ [ClientNext]_clientVars => ViewOK'
  <1> SUFFICES ASSUME ViewOK, [ClientNext]_clientVars PROVE ViewOK'
    OBVIOUS
  <1>1. CASE UNCHANGED clientVars
    <2>1. PostOK'
      BY <1>1, ClientNextPost DEF ViewOK
    <2>2. ASSUME NEW x \in Clients PROVE InView(x)'
      BY <1>1 DEF ViewOK, InView, View, Misled, Rosters, Applicants, InBoard, clientVars,
                  browserVars, channelVars, sessionVars
    <2>3. QED
      BY <2>1, <2>2 DEF ViewOK
  <1>2. ASSUME NEW c \in Clients,
               UserAction(c) \/ BrowserEvent(c) \/ Handle(c) \/ SocketEvent(c)
        PROVE  ViewOK'
    <2>1. CASE UserAction(c)
      <3>1. ClientTypes
        BY DEF ViewOK, PostOK, WellTyped
      <3>2. QED
        BY <2>1, <3>1, UserPresses, PressView, ExitView
    <2>2. CASE BrowserEvent(c)
      BY <2>2, ReceiveView, ConnectionView DEF BrowserEvent
    <2>3. QED
      BY <1>2, <2>1, <2>2, HandleView, SocketEventView
  <1>3. QED
    BY <1>1, <1>2 DEF ClientNext

(* The browsers that are not misled see what the server has, or will when  *)
(* they have read what is on its way to them.                              *)
THEOREM BrowsersFollow == ClientSpec => []ViewOK
  BY ClientInitView, ClientNextView, PTL DEF ClientSpec

(* The trail of a browser to which nothing is on its way has no step.      *)
LEMMA QuietViews ==
  ASSUME ViewOK, NEW c \in Clients \ Misled, Quiet(c)
  PROVE  /\ fsm[c] = ServerStateOf(clientState[c])
         /\ \A m \in Rosters(c) : users[c].present = m.present /\ users[c].past = m.past
  <1>1. PICK p : Sees(c, handlers[c], clientState[c], users[c], <<>>, fsm[c],
                      Rosters(c), Applicants(c), p)
    BY DEF ViewOK, InView, Quiet, Linked, View
  <1>2. Len(<<>>) = 0 /\ 0..0 = {0}
    OBVIOUS
  <1>3. fsm[c] = Shown(clientState[c])
    BY <1>1, <1>2 DEF Sees, Trail
  <1>4. Online(clientState[c])
    BY DEF ViewOK, PostOK, Post, Quiet, Linked
  <1>5. \A m \in Rosters(c) : users[c].present = m.present /\ users[c].past = m.past
    BY <1>1, <1>2 DEF Sees, Roster, RosterAt
  <1>6. QED
    BY <1>3, <1>4, <1>5 DEF Shown, Online

(* A browser whose requests were answered in time and on the right screen  *)
(* shows the state that the server has it in, once nothing is on its way.  *)
THEOREM StatesAlwaysAgree == ClientSpec => []StatesAgree
  <1>1. ViewOK => StatesAgree
    BY QuietViews DEF StatesAgree
  <1>2. QED
    BY <1>1, BrowsersFollow, PTL

(* The lists of present and of past users that it shows are then those of  *)
(* its whiteboard.                                                         *)
THEOREM RostersAlwaysAgree == ClientSpec => []RostersAgree
  <1>1. ASSUME ViewOK, NEW b \in whiteboards, NEW c \in Clients \ Misled, Quiet(c), InBoard(c, b)
        PROVE  /\ users[c].present = {x \in Clients : clients[b][x] > 0}
               /\ users[c].past = pastUsers[b]
    <2>1. b \in Boards
      BY <1>1 DEF ViewOK, PostOK, WellTyped, Books, StateTypes
    <2>2. UserList(clients[b], pastUsers[b]) \in Rosters(c)
      BY <1>1, <2>1 DEF Rosters
    <2>3. QED
      BY <1>1, <2>2, QuietViews DEF UserList
  <1>2. ViewOK => RostersAgree
    BY <1>1 DEF RostersAgree
  <1>3. QED
    BY <1>2, BrowsersFollow, PTL

(* Whoever waits for a running whiteboard is in the list of applicants of  *)
(* its host, or about to be.                                               *)
THEOREM NoApplicantIsEverLost == ClientSpec => []NoApplicantIsLost
  <1>1. ASSUME ViewOK, NEW b \in whiteboards, NEW c \in pendingClients[b],
               Linked(host[b]), host[b] \notin Misled
        PROVE  \/ c \in users[host[b]].pending
               \/ \E i \in DOMAIN toClient[host[b]] :
                    toClient[host[b]][i].body = WantsToJoin(c)
    <2> DEFINE h    == host[b]
               down == toClient[h]
    <2>1. Books /\ ClientTypes /\ b \in Boards /\ h \in Clients /\ fsm[h] = HostOf(b)
      BY <1>1 DEF ViewOK, PostOK, WellTyped, Books, StateTypes, HostAgrees
    <2>2. c \in Clients /\ c \in Applicants(h)
      BY <2>1 DEF Applicants, Books, StateTypes
    <2>3. View(h) /\ DOMAIN down = 1..Len(down)
      BY <1>1, <2>1 DEF ViewOK, InView, Linked, ClientTypes
    <2>4. PICK p : Applicant(h, handlers[h], down, fsm[h], p, users[h], c)
      BY <2>2, <2>3 DEF View, Sees
    <2>5. PICK i \in 0..Len(down) : ApplicantAt(h, handlers[h], down, users[h], c, i)
      BY <2>4 DEF Applicant
    <2>6. i = 0 \/ i \in DOMAIN down
      BY <2>3
    <2>7. QED
      BY <2>5, <2>6 DEF ApplicantAt
  <1>2. ViewOK => NoApplicantIsLost
    BY <1>1 DEF NoApplicantIsLost
  <1>3. QED
    BY <1>2, BrowsersFollow, PTL
=============================================================================
