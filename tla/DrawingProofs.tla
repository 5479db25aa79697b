----------------------------- MODULE DrawingProofs -----------------------------
(***************************************************************************)
(* Pen, eraser and undo, for every set of browsers and lines: what they    *)
(* name is known to the store, and no ink is lost on the way into a        *)
(* request.                                                                *)
(*                                                                         *)
(* Stores are forgotten when a whiteboard is created, and the pen is put   *)
(* away when one is left.  That the pen is put away by the time a          *)
(* whiteboard is created, although a hello may be answered late, depends   *)
(* on the order of messages: of the hellos of a browser one succeeds, and  *)
(* nothing but hellos is sent before its answer is there.                  *)
(***************************************************************************)
EXTENDS AppProofs, SessionProofs, FiniteSetTheorems
-----------------------------------------------------------------------------
(* Sequences, of whatever.                                                 *)
IsSeq(s) == \E S : s \in Seq(S)

LEMMA SeqParts ==
  ASSUME NEW s, IsSeq(s)
  PROVE  DOMAIN s = 1..Len(s) /\ Len(s) \in Nat
  BY DEF IsSeq

LEMMA ListIsSeq ==
  ASSUME NEW n \in Nat, NEW f, f = [i \in 1..n |-> f[i]]
  PROVE  IsSeq(f) /\ Len(f) = n
  <1> DEFINE S == {f[i] : i \in 1..n}
  <1>1. f \in Seq(S) /\ Len(f) = n
    <2>1. \A i \in 1..n : f[i] \in S
      OBVIOUS
    <2> HIDE DEF S
    <2>2. f \in [1..n -> S]
      BY <2>1
    <2>3. QED
      BY <2>2
  <1>2. QED
    BY <1>1 DEF IsSeq

LEMMA OneIsList ==
  ASSUME NEW m
  PROVE  /\ IsSeq(<<m>>) /\ Len(<<m>>) = 1 /\ <<m>>[1] = m /\ IsSeq(<<>>) /\ Len(<<>>) = 0
         /\ DOMAIN <<m>> = {1} /\ DOMAIN <<>> = {}
  <1>1. <<m>> \in Seq({m}) /\ <<>> \in Seq({m})
    OBVIOUS
  <1>2. DOMAIN <<m>> = {1} /\ DOMAIN <<>> = {} /\ <<m>>[1] = m
    OBVIOUS
  <1>3. QED
    BY <1>1, <1>2 DEF IsSeq

LEMMA TailIs ==
  ASSUME NEW s, IsSeq(s), s # <<>>
  PROVE  /\ 1 \in DOMAIN s /\ Head(s) = s[1] /\ IsSeq(Tail(s))
         /\ \A i \in DOMAIN Tail(s) : i + 1 \in DOMAIN s /\ Tail(s)[i] = s[i + 1] /\ i \in Nat /\ i > 0
  <1>1. PICK S : s \in Seq(S)
    BY DEF IsSeq
  <1>2. Tail(s) \in Seq(S) /\ Len(Tail(s)) = Len(s) - 1 /\ Len(s) \in Nat /\ Len(s) > 0
    BY <1>1
  <1>3. DOMAIN Tail(s) = 1..(Len(s) - 1) /\ DOMAIN s = 1..Len(s)
    BY <1>1, <1>2
  <1>4. \A i \in 1..(Len(s) - 1) : Tail(s)[i] = s[i + 1]
    BY <1>1, <1>2
  <1>5. Head(s) = s[1]
    BY <1>1
  <1>6. QED
    BY <1>2, <1>3, <1>4, <1>5 DEF IsSeq

LEMMA ConcatIs ==
  ASSUME NEW s, IsSeq(s), NEW t, IsSeq(t)
  PROVE  /\ IsSeq(s \o t) /\ Len(s) \in Nat
         /\ \A i \in DOMAIN s : i \in DOMAIN (s \o t) /\ (s \o t)[i] = s[i] /\ i <= Len(s)
         /\ \A i \in DOMAIN (s \o t) :
              \/ i \in DOMAIN s /\ (s \o t)[i] = s[i]
              \/ /\ i - Len(s) \in DOMAIN t /\ (s \o t)[i] = t[i - Len(s)]
                 /\ i > Len(s) /\ i \in Nat
  <1>1. PICK S : s \in Seq(S)
    BY DEF IsSeq
  <1>2. PICK Q : t \in Seq(Q)
    BY DEF IsSeq
  <1>3. s \in Seq(S \cup Q) /\ t \in Seq(S \cup Q)
    BY <1>1, <1>2, SeqMonotonic
  <1>4. IsSeq(s \o t)
    BY <1>3, ConcatProperties DEF IsSeq
  <1>5. QED
    BY <1>3, <1>4, ConcatParts

(* The permutations of a finite set.                                       *)
LEMMA OrderIs ==
  ASSUME NEW S, IsFiniteSet(S), NEW s \in SetToSeqs(S)
  PROVE  \E n \in Nat : s \in [1..n -> S] /\ DOMAIN s = 1..n /\ Len(s) = n /\ IsSeq(s)
  <1>1. PICK n \in Nat : n = Cardinality(S)
    BY FS_CardinalityType
  <1>2. s \in [1..n -> S]
    BY <1>1 DEF SetToSeqs
  <1>3. IsSeq(s) /\ Len(s) = n
    BY <1>2, ListIsSeq
  <1>4. QED
    BY <1>2, <1>3
-----------------------------------------------------------------------------
(* What a step of the server hands out are sequences.                      *)
Posted == \A x \in Clients : IsSeq(out'[x])
ListsOf(msgs) == msgs = [x \in Clients |-> msgs[x]] /\ \A x \in Clients : IsSeq(msgs[x])

LEMMA OnlyLists ==
  ASSUME NEW c, NEW msgs, IsSeq(msgs)
  PROVE  ListsOf(Only(c, msgs))
  BY OneIsList DEF Only, ListsOf

LEMMA ToAllLists ==
  ASSUME NEW list, \A x \in Clients : list[x] \in Nat, NEW m
  PROVE  ListsOf(ToAll(list, m))
  <1>1. ASSUME NEW x \in Clients PROVE IsSeq([i \in 1..list[x] |-> m])
    <2> DEFINE f == [i \in 1..list[x] |-> m]
    <2>1. f = [i \in 1..list[x] |-> f[i]] /\ list[x] \in Nat
      OBVIOUS
    <2> HIDE DEF f
    <2>2. IsSeq(f)
      BY <2>1, ListIsSeq
    <2>3. QED
      BY <2>2 DEF f
  <1>2. QED
    BY <1>1 DEF ToAll, ListsOf

LEMMA PlusLists ==
  ASSUME NEW f, NEW g, ListsOf(f), ListsOf(g)
  PROVE  ListsOf(f ++ g)
  <1>1. \A x \in Clients : IsSeq(f[x] \o g[x])
    BY ConcatIs DEF ListsOf
  <1>2. QED
    BY <1>1 DEF ++, ListsOf

LEMMA EmitPosts ==
  ASSUME NEW c, NEW msgs, ListsOf(msgs), Emit(c, msgs)
  PROVE  Posted /\ \A x \in Clients : out'[x] \in {msgs[x], <<>>}
  BY OneIsList DEF Emit, ListsOf, Posted

LEMMA MailIsPosted ==
  ASSUME out' \in Mail
  PROVE  Posted
  BY DEF Mail, Posted, IsSeq

(* The members of a whiteboard are counted.                                *)
LEMMA Counted ==
  ASSUME StateTypes, NEW b \in Boards
  PROVE  \A x \in Clients : clients[b][x] \in Nat
  BY DEF StateTypes

(* A message about a figure leaves the session alone.                      *)
LEMMA OperationPosts ==
  ASSUME Books, NEW c \in Clients, NEW case \in FigureMessages, NEW effect,
         Dispatch(c, case),
         effect => \/ \E m : Multicast(c, m)
                   \/ \E reason : Emit(c, Only(c, <<Error(reason, TRUE)>>))
                   \/ Emit(c, Only(c, <<>>)),
         IF ended[fsm[c].board]
         THEN Emit(c, Only(c, <<Error("WHITEBOARD_DOES_NOT_EXIST", FALSE)>>))
         ELSE effect
  PROVE  Posted
  <1>1. fsm[c].board \in Boards
    <2>1. fsm[c] \in ClientFSM /\ fsm[c].state \in {"USER", "HOST"}
      <3>1. fsm[c] \in ClientFSM
        BY DEF Books, StateTypes
      <3>2. fsm[c].state \in {"ANONYMOUS", "NO_WHITEBOARD", "PENDING_APPROVAL", "USER", "HOST"}
        BY <3>1, States
      <3>3. QED
        BY <3>1, <3>2 DEF Dispatch, ALLOWED_MESSAGES, FigureMessages
    <2>2. QED
      BY <2>1, States
  <1>2. ASSUME NEW m, Multicast(c, m) PROVE Posted
    <2>1. ListsOf(ToAll(clients[fsm[c].board], m))
      BY <1>1, Counted, ToAllLists DEF Books
    <2>2. QED
      BY <1>2, <2>1, EmitPosts DEF Multicast
  <1>3. ASSUME NEW m, Emit(c, Only(c, <<m>>)) PROVE Posted
    <2>1. ListsOf(Only(c, <<m>>))
      BY OneIsList, OnlyLists
    <2>2. QED
      BY <1>3, <2>1, EmitPosts
  <1>4. ASSUME Emit(c, Only(c, <<>>)) PROVE Posted
    <2>1. ListsOf(Only(c, <<>>))
      BY OneIsList, OnlyLists
    <2>2. QED
      BY <1>4, <2>1, EmitPosts
  <1>5. QED
    BY <1>2, <1>3, <1>4

LEMMA FigurePosts ==
  ASSUME Books, NEW c \in Clients, NEW body, FigureHandler(c, body)
  PROVE  Posted /\ UNCHANGED <<socket, fsm, boardVars>> /\ body.case \in FigureMessages
  <1>1. CASE body.case = "createLine" /\ CreateLine(c, body.id, body.points)
    BY <1>1, OperationPosts DEF CreateLine, Operation, Refuse, StoreLine, FigureMessages
  <1>2. CASE body.case = "addPointsToLine" /\ AddPointsToLine(c, body.id, body.points)
    BY <1>2, OperationPosts DEF AddPointsToLine, Operation, Refuse, StoreLine, FigureMessages
  <1>3. CASE body.case = "removePointsFromLine" /\ RemovePointsFromLine(c, body.id, body.points)
    BY <1>3, OperationPosts DEF RemovePointsFromLine, Operation, Refuse, StoreLine, FigureMessages
  <1>4. CASE body.case = "deleteLine" /\ DeleteLine(c, body.id)
    BY <1>4, OperationPosts DEF DeleteLine, Operation, Refuse, FigureMessages
  <1>5. CASE body.case = "createNote" /\ CreateNote(c, body.id, body.position, body.text)
    BY <1>5, OperationPosts DEF CreateNote, Operation, Refuse, StoreNote, FigureMessages
  <1>6. CASE body.case = "updateNoteText" /\ UpdateNoteText(c, body.id, body.text)
    BY <1>6, OperationPosts DEF UpdateNoteText, Operation, Refuse, StoreNote, FigureMessages
  <1>7. CASE body.case = "updateNotePosition" /\ UpdateNotePosition(c, body.id, body.position)
    BY <1>7, OperationPosts DEF UpdateNotePosition, Operation, Refuse, StoreNote, FigureMessages
  <1>8. CASE body.case = "deleteNote" /\ DeleteNote(c, body.id)
    BY <1>8, OperationPosts DEF DeleteNote, Operation, Refuse, FigureMessages
  <1>9. CASE body.case = "createImage" /\ CreateImage(c, body.id, body.position)
    BY <1>9, OperationPosts DEF CreateImage, Operation, Refuse, FigureMessages
  <1>10. QED
    BY <1>1, <1>2, <1>3, <1>4, <1>5, <1>6, <1>7, <1>8, <1>9 DEF FigureHandler

(* The image of a finite set under a function.                             *)
LEMMA ImageIsFinite ==
  ASSUME NEW S, IsFiniteSet(S), NEW f
  PROVE  IsFiniteSet({f[x] : x \in S})
  <1> DEFINE Q == {f[x] : x \in S}
             g == [x \in S |-> f[x]]
  <1>1. g \in Surjection(S, Q)
    BY DEF Surjection
  <1> HIDE DEF Q, g
  <1>2. IsFiniteSet(Q)
    BY <1>1, FS_Surjection
  <1>3. QED
    BY <1>2 DEF Q

LEMMA DumpIsSeq ==
  ASSUME NEW b, NEW dump \in Bootstraps(b)
  PROVE  IsSeq(dump)
  <1>1. PICK l \in LineDumps(b), n \in NoteDumps(b), i \in ImageDumps(b) : dump = (l \o n) \o i
    BY DEF Bootstraps
  <1>2. IsSeq(l)
    <2> DEFINE f == [x \in Lines(b) |-> LineCreatedOrUpdated(x, lines[b][x], FALSE)]
    <2>1. l \in SetToSeqs({f[x] : x \in Lines(b)})
      BY <1>1 DEF LineDumps
    <2>2. IsFiniteSet(Lines(b))
      BY AppAssumption, FS_Subset DEF Lines
    <2> HIDE DEF f
    <2>3. QED
      BY <2>1, <2>2, ImageIsFinite, OrderIs
  <1>3. IsSeq(n)
    <2> DEFINE f == [x \in Notes(b) |-> NoteCreatedOrUpdated(x, notes[b][x], FALSE)]
    <2>1. n \in SetToSeqs({f[x] : x \in Notes(b)})
      BY <1>1 DEF NoteDumps
    <2>2. IsFiniteSet(Notes(b))
      BY AppAssumption, FS_Subset DEF Notes
    <2> HIDE DEF f
    <2>3. QED
      BY <2>1, <2>2, ImageIsFinite, OrderIs
  <1>4. IsSeq(i)
    <2> DEFINE f == [x \in Images(b) |-> ImageCreated(x, images[b][x], FALSE)]
    <2>1. i \in SetToSeqs({f[x] : x \in Images(b)})
      BY <1>1 DEF ImageDumps
    <2>2. IsFiniteSet(Images(b))
      BY ServerAssumption, FS_Subset DEF Images
    <2> HIDE DEF f
    <2>3. QED
      BY <2>1, <2>2, ImageIsFinite, OrderIs
  <1>5. IsSeq(l \o n)
    BY <1>2, <1>3, ConcatIs
  <1>6. QED
    BY <1>1, <1>4, <1>5, ConcatIs

LEMMA ApprovalPosts ==
  ASSUME Books, NEW h \in Clients, NEW c \in Clients, BootstrappingApproval(h, c)
  PROVE  /\ Posted /\ Books' /\ UNCHANGED socket
         /\ fsm[c] \in ClientFSM /\ \E b \in Boards : fsm' = [fsm EXCEPT ![c] = UserOf(b)]
  <1> DEFINE b == fsm[h].board
  <1>1. PICK dump \in Bootstraps(b) : ApproveJoin(h, c, dump)
    BY DEF BootstrappingApproval
  <1>2. Books'
    BY <1>1, ApproveKeepsBooks
  <1>3. b \in Boards /\ Admit(h, c, dump)
    BY <1>1, Decidable DEF ApproveJoin, getPendingClient
  <1>4. /\ fsm' = [fsm EXCEPT ![c] = UserOf(b)] /\ UNCHANGED socket
        /\ Emit(h, Only(c, <<Plain("joinApproved", FALSE)>>) ++ CurrentClientList(b)
                     ++ Only(c, dump) ++ Only(h, <<Success>>))
    BY <1>3 DEF Admit, Using
  <1>5. ListsOf(Only(c, <<Plain("joinApproved", FALSE)>>)) /\ ListsOf(Only(h, <<Success>>))
    BY OneIsList, OnlyLists
  <1>6. ListsOf(Only(c, dump))
    BY DumpIsSeq, OnlyLists
  <1>7. ListsOf(CurrentClientList(b))
    <2>1. StateTypes'
      BY <1>2 DEF Books
    <2>2. \A x \in Clients : clients'[b][x] \in Nat
      BY <1>3, <2>1 DEF StateTypes
    <2>3. QED
      BY <2>2, ToAllLists DEF CurrentClientList
  <1>8. Posted
    BY <1>4, <1>5, <1>6, <1>7, PlusLists, EmitPosts
  <1>9. QED
    BY <1>2, <1>3, <1>4, <1>8 DEF Books, StateTypes
-----------------------------------------------------------------------------
(* Who has said hello is not anonymous again, and one hello succeeds.      *)
StaysNamed == \A x \in Clients : fsm'[x] = Anonymous => fsm[x] = Anonymous
Greeted(c) ==
  \/ \A i \in DOMAIN out'[c] : out'[c][i].type # "success"
  \/ /\ fsm[c] = Anonymous /\ fsm'[c] # Anonymous
     /\ \A i, j \in DOMAIN out'[c] : i = j

LEMMA NamedStates ==
  /\ NoWhiteboard # Anonymous
  /\ \A b : PendingOn(b) # Anonymous /\ UserOf(b) # Anonymous /\ HostOf(b) # Anonymous
  BY DEF NoWhiteboard, Anonymous, PendingOn, UserOf, HostOf

LEMMA MoveStaysNamed ==
  ASSUME StateTypes, NEW c, NEW s, s # Anonymous, fsm' = [fsm EXCEPT ![c] = s]
  PROVE  StaysNamed
  BY DEF StateTypes, StaysNamed

LEMMA PlainStepStaysNamed ==
  ASSUME Books, NEW c \in Clients, PlainStep(c)
  PROVE  StaysNamed
  <1>0. StateTypes
    BY DEF Books
  <1>1. CASE UNCHANGED fsm
    BY <1>1 DEF StaysNamed
  <1>2. CASE ClientHello(c)
    BY <1>0, <1>2, MoveStaysNamed, NamedStates DEF ClientHello, Named
  <1>3. ASSUME NEW b \in Boards, CreateWhiteboard(c, b) PROVE StaysNamed
    BY <1>0, <1>3, MoveStaysNamed, NamedStates DEF CreateWhiteboard, Hosting
  <1>4. ASSUME NEW b \in Boards, JoinWhiteboard(c, b) PROVE StaysNamed
    BY <1>0, <1>1, <1>4, MoveStaysNamed, NamedStates DEF JoinWhiteboard, Applying, Answer
  <1>5. ASSUME NEW x \in Clients, DenyJoin(c, x) PROVE StaysNamed
    <2>1. fsm' = BackToNoWhiteboard(x)
      BY <1>5, Decidable DEF DenyJoin, getPendingClient
    <2>2. QED
      BY <1>0, <2>1, MoveStaysNamed, NamedStates DEF BackToNoWhiteboard
  <1>6. ASSUME NEW from, DetachClient(c, from) PROVE StaysNamed
    BY <1>0, <1>6, MoveStaysNamed, NamedStates DEF DetachClient, BackToNoWhiteboard
  <1>7. ASSUME NEW from, EndSession(c, from) PROVE StaysNamed
    BY <1>7, NamedStates DEF EndSession, AllSentAway, StaysNamed
  <1>8. LeaveWhiteboard(c) \/ CloseSocket(c) => StaysNamed
    BY <1>1, <1>6, <1>7 DEF LeaveWhiteboard, CloseSocket
  <1>9. RegisterClient(c) \/ (\E case \in ClientToServerCase : NotAllowed(c, case))
          \/ (\E x \in Clients : NoSuchApplicant(c, x)) => UNCHANGED fsm
    BY DEF RegisterClient, NotAllowed, NoSuchApplicant, Answer
  <1>10. QED
    BY <1>1, <1>2, <1>3, <1>4, <1>5, <1>8, <1>9 DEF PlainStep

(* What browsers send.                                                     *)
BodyOK(body) ==
  /\ body.case \in ClientToServerCase
  /\ body.case = "joinWhiteboard" => body.board \in Boards
  /\ body.case = "approveOrDenyJoin" => body.client \in Clients

LEMMA PlainHandlerIs ==
  ASSUME Books, NEW c \in Clients, NEW body, BodyOK(body), PlainHandler(c, body)
  PROVE  /\ PlainStep(c)
         /\ body.case = "clientHello" => ClientHello(c) \/ NotAllowed(c, body.case)
  BY DEF PlainHandler, PlainStep, BodyOK

LEMMA OneIsGreeted ==
  ASSUME Books, NEW c \in Clients, ClientHello(c) \/ \E case : NotAllowed(c, case)
  PROVE  Greeted(c)
  <1>1. ASSUME NEW m, Emit(c, Only(c, <<m>>))
        PROVE  \A i \in DOMAIN out'[c] : out'[c][i] = m /\ i = 1
    <2>1. out'[c] \in {<<m>>, <<>>}
      BY <1>1 DEF Emit, Only
    <2>2. QED
      BY <2>1, OneIsList
  <1>2. ASSUME NEW case, NotAllowed(c, case) PROVE Greeted(c)
    <2>1. Error("OPERATION_NOT_ALLOWED", TRUE).type # "success"
      BY DEF Error
    <2>2. Emit(c, Only(c, <<Error("OPERATION_NOT_ALLOWED", TRUE)>>))
      BY <1>2 DEF NotAllowed, Answer
    <2>3. QED
      BY <1>1, <2>1, <2>2 DEF Greeted
  <1>3. CASE ClientHello(c)
    <2>1. fsm[c] = Anonymous
      BY <1>3, Dispatched DEF ClientHello, Books
    <2>2. fsm'[c] # Anonymous
      BY <1>3, NamedStates DEF ClientHello, Named, Books, StateTypes
    <2>3. \A i, j \in DOMAIN out'[c] : i = j
      BY <1>1, <1>3 DEF ClientHello
    <2>4. QED
      BY <2>1, <2>2, <2>3 DEF Greeted
  <1>4. QED
    BY <1>2, <1>3

LEMMA HandlingIs ==
  ASSUME Books, NEW c \in Clients, BodyOK(Head(toServer[c]).body), HandleFigure(c)
  PROVE  /\ Posted /\ Books' /\ StaysNamed
         /\ Head(toServer[c]).body.case = "clientHello" => Greeted(c)
  <1> DEFINE body == Head(toServer[c]).body
  <1>1. CASE PlainHandler(c, body)
    <2>1. PlainStep(c) /\ (body.case = "clientHello" => ClientHello(c) \/ NotAllowed(c, body.case))
      BY <1>1, PlainHandlerIs
    <2>2. Books'
      BY <2>1, PlainStepKeepsBooks
    <2>3. Posted
      BY <2>1, <2>2, PlainStepSendsMail, MailIsPosted DEF MailSent
    <2>4. QED
      BY <2>1, <2>2, <2>3, PlainStepStaysNamed, OneIsGreeted
  <1>2. CASE body.case = "approveOrDenyJoin" /\ BootstrappingApproval(c, body.client)
    <2>1. body.client \in Clients
      BY <1>2 DEF BodyOK
    <2>2. /\ Posted /\ Books'
          /\ \E b \in Boards : fsm' = [fsm EXCEPT ![body.client] = UserOf(b)]
      BY <1>2, <2>1, ApprovalPosts
    <2>3. StaysNamed
      BY <2>2, MoveStaysNamed, NamedStates DEF Books
    <2>4. QED
      BY <1>2, <2>2, <2>3
  <1>3. CASE FigureHandler(c, body)
    <2>1. Posted /\ UNCHANGED <<socket, fsm, boardVars>> /\ body.case \in FigureMessages
      BY <1>3, FigurePosts
    <2>2. Books'
      BY <2>1, QuietKeepsBooks DEF Books, StateTypes
    <2>3. QED
      BY <2>1, <2>2 DEF StaysNamed, FigureMessages
  <1>4. QED
    BY <1>1, <1>2, <1>3 DEF HandleFigure
-----------------------------------------------------------------------------
(* The two channels of a browser that waits for the requests hs, of n that *)
(* it has sent, while the server has the state f of its connection.        *)

(* The message m tells the browser that a hello has succeeded.             *)
Greets(c, hs, m) ==
  /\ m.body.type = "success"
  /\ \E r \in hs : r.body.case = "clientHello" /\ m.causedBy = <<c, r.id>>
Welcome(c, hs, down) == \E i \in DOMAIN down : Greets(c, hs, down[i])

(* What is on its way to the server are requests with their own bodies.    *)
UpOK(hs, n, up) ==
  /\ IsSeq(up)
  /\ \A i \in DOMAIN up :
       /\ BodyOK(up[i].body) /\ up[i].id \in Nat /\ up[i].id <= n
       /\ \A r \in hs : r.id = up[i].id => r.body = up[i].body

(* What is on its way back answers requests that were sent, and at most    *)
(* once is a success of a hello among it; the server knows if it is.       *)
DownOK(c, n, down) ==
  /\ IsSeq(down)
  /\ \A i \in DOMAIN down : \A k \in Nat : down[i].causedBy = <<c, k>> => k <= n
WelcomeOK(c, hs, down, f) ==
  /\ \A i, j \in DOMAIN down :
       Greets(c, hs, down[i]) /\ Greets(c, hs, down[j]) => i = j
  /\ f = Anonymous => ~Welcome(c, hs, down)
Mailbox(c, hs, n, up, down, f) ==
  UpOK(hs, n, up) /\ DownOK(c, n, down) /\ WelcomeOK(c, hs, down, f)

(* A request no longer waits.                                              *)
LEMMA FewerWait ==
  ASSUME NEW c, NEW hs, NEW n, NEW up, NEW down, NEW f, Mailbox(c, hs, n, up, down, f),
         NEW fewer, fewer \subseteq hs
  PROVE  /\ Mailbox(c, fewer, n, up, down, f)
         /\ Welcome(c, fewer, down) => Welcome(c, hs, down)
  <1>1. \A m : Greets(c, fewer, m) => Greets(c, hs, m)
    BY DEF Greets
  <1>2. UpOK(fewer, n, up)
    BY DEF Mailbox, UpOK
  <1>3. Welcome(c, fewer, down) => Welcome(c, hs, down)
    BY <1>1 DEF Welcome
  <1>4. WelcomeOK(c, fewer, down, f)
    BY <1>1, <1>3 DEF Mailbox, WelcomeOK
  <1>5. QED
    BY <1>2, <1>3, <1>4 DEF Mailbox

(* The connection is lost, in either direction.                            *)
LEMMA MailIsLost ==
  ASSUME NEW c, NEW hs, NEW n, NEW up, NEW down, NEW f, Mailbox(c, hs, n, up, down, f)
  PROVE  /\ \A g : Mailbox(c, hs, n, up, <<>>, g)
         /\ Mailbox(c, hs, n, <<>>, down, f)
  <1>1. UpOK(hs, n, <<>>) /\ DownOK(c, n, <<>>) /\ ~Welcome(c, hs, <<>>)
    BY OneIsList DEF UpOK, DownOK, Welcome
  <1>2. \A g : WelcomeOK(c, hs, <<>>, g)
    BY <1>1, OneIsList DEF WelcomeOK
  <1>3. QED
    BY <1>1, <1>2 DEF Mailbox

(* The server takes a message.                                             *)
LEMMA MailIsHandled ==
  ASSUME NEW c, NEW hs, NEW n, NEW up, NEW down, NEW f, Mailbox(c, hs, n, up, down, f),
         up # <<>>
  PROVE  /\ Mailbox(c, hs, n, Tail(up), down, f)
         /\ Head(up).id \in Nat /\ Head(up).id <= n /\ BodyOK(Head(up).body)
         /\ \A r \in hs : r.id = Head(up).id => r.body = Head(up).body
  <1>1. /\ 1 \in DOMAIN up /\ Head(up) = up[1] /\ IsSeq(Tail(up))
        /\ \A i \in DOMAIN Tail(up) : i + 1 \in DOMAIN up /\ Tail(up)[i] = up[i + 1]
    BY TailIs DEF Mailbox, UpOK
  <1>2. UpOK(hs, n, Tail(up))
    BY <1>1 DEF Mailbox, UpOK
  <1>3. QED
    BY <1>1, <1>2 DEF Mailbox, UpOK

(* The browser takes a message; a hello is welcome once.                   *)
LEMMA MailIsTaken ==
  ASSUME NEW c, NEW hs, NEW n, NEW up, NEW down, NEW f, Mailbox(c, hs, n, up, down, f),
         down # <<>>
  PROVE  /\ Mailbox(c, hs, n, up, Tail(down), f)
         /\ Welcome(c, hs, Tail(down)) => Welcome(c, hs, down)
         /\ Greets(c, hs, Head(down)) =>
              Welcome(c, hs, down) /\ ~Welcome(c, hs, Tail(down)) /\ f # Anonymous
  <1>1. /\ 1 \in DOMAIN down /\ Head(down) = down[1] /\ IsSeq(Tail(down))
        /\ \A i \in DOMAIN Tail(down) :
             i + 1 \in DOMAIN down /\ Tail(down)[i] = down[i + 1] /\ i \in Nat /\ i > 0
    BY TailIs DEF Mailbox, DownOK
  <1>2. DownOK(c, n, Tail(down))
    BY <1>1 DEF Mailbox, DownOK
  <1>3. Welcome(c, hs, Tail(down)) => Welcome(c, hs, down)
    BY <1>1 DEF Welcome
  <1>4. ASSUME NEW i \in DOMAIN Tail(down), NEW j \in DOMAIN Tail(down),
               Greets(c, hs, Tail(down)[i]), Greets(c, hs, Tail(down)[j])
        PROVE  i = j
    <2>1. i + 1 = j + 1
      BY <1>1, <1>4 DEF Mailbox, WelcomeOK
    <2>2. QED
      BY <1>1, <2>1
  <1>5. WelcomeOK(c, hs, Tail(down), f)
    BY <1>3, <1>4 DEF Mailbox, WelcomeOK
  <1>6. ASSUME Greets(c, hs, Head(down))
        PROVE  Welcome(c, hs, down) /\ ~Welcome(c, hs, Tail(down)) /\ f # Anonymous
    <2>1. Welcome(c, hs, down)
      BY <1>1, <1>6 DEF Welcome
    <2>2. ASSUME NEW i \in DOMAIN Tail(down), Greets(c, hs, Tail(down)[i]) PROVE FALSE
      <3>1. i + 1 = 1
        BY <1>1, <1>6, <2>2 DEF Mailbox, WelcomeOK
      <3>2. QED
        BY <1>1, <3>1
    <2>3. QED
      BY <2>1, <2>2 DEF Mailbox, WelcomeOK, Welcome
  <1>7. QED
    BY <1>2, <1>3, <1>5, <1>6 DEF Mailbox

(* The browser sends: the numbers of what it sends are new.                *)
Numbered(n, bodies, k, messages) ==
  /\ IsSeq(messages) /\ DOMAIN messages = 1..k
  /\ \A i \in 1..k : messages[i] = [id |-> n + i, body |-> bodies[i]]
MoreWait(hs, n, bodies, k, more) ==
  \A r \in more : r \in hs \/ \E i \in 1..k : r = [id |-> n + i, body |-> bodies[i]]

LEMMA MailIsSent ==
  ASSUME NEW c, NEW hs, NEW n \in Nat, NEW up, NEW down, NEW f,
         Mailbox(c, hs, n, up, down, f), \A r \in hs : r.id \in Nat /\ r.id <= n,
         NEW bodies, NEW k \in Nat, \A i \in 1..k : BodyOK(bodies[i]),
         NEW more, MoreWait(hs, n, bodies, k, more),
         NEW messages, Numbered(n, bodies, k, messages)
  PROVE  /\ Mailbox(c, more, n + k, up, down, f)
         /\ Mailbox(c, more, n + k, up \o messages, down, f)
         /\ Welcome(c, more, down) => Welcome(c, hs, down)
  <1>0. /\ \A r \in more : r \in hs \/ \E i \in 1..k : r = [id |-> n + i, body |-> bodies[i]]
        /\ IsSeq(messages) /\ DOMAIN messages = 1..k
        /\ \A i \in 1..k : messages[i] = [id |-> n + i, body |-> bodies[i]]
    BY DEF MoreWait, Numbered
  <1>1. \A r \in more :
          \/ r \in hs /\ r.id \in Nat /\ r.id <= n
          \/ \E i \in 1..k : r.id = n + i /\ r.body = bodies[i] /\ r.id \in Nat /\ ~(r.id <= n)
    <2>1. ASSUME NEW r \in more, NEW i \in 1..k, r = [id |-> n + i, body |-> bodies[i]]
          PROVE  r.id = n + i /\ r.body = bodies[i] /\ r.id \in Nat /\ ~(r.id <= n)
      <3>1. r.id = n + i /\ r.body = bodies[i]
        BY <2>1
      <3>2. QED
        BY <3>1
    <2>2. QED
      BY <1>0, <2>1
  <1>2. DownOK(c, n + k, down)
    <2>1. ASSUME NEW i \in DOMAIN down, NEW j \in Nat, down[i].causedBy = <<c, j>>
          PROVE  j <= n + k
      <3>1. j <= n
        BY <2>1 DEF Mailbox, DownOK
      <3>2. QED
        BY <3>1
    <2>2. QED
      BY <2>1 DEF Mailbox, DownOK
  <1>3. \A i \in DOMAIN down : Greets(c, more, down[i]) => Greets(c, hs, down[i])
    <2> SUFFICES ASSUME NEW i \in DOMAIN down, NEW r \in more, down[i].body.type = "success",
                        r.body.case = "clientHello", down[i].causedBy = <<c, r.id>>
                 PROVE  r \in hs
      BY DEF Greets
    <2>1. r.id \in Nat
      BY <1>1
    <2>2. r.id <= n
      BY <2>1 DEF Mailbox, DownOK
    <2>3. QED
      BY <1>1, <2>2
  <1>4. Welcome(c, more, down) => Welcome(c, hs, down)
    BY <1>3 DEF Welcome
  <1>5. WelcomeOK(c, more, down, f)
    BY <1>3, <1>4 DEF Mailbox, WelcomeOK
  <1>6. UpOK(more, n + k, up)
    <2>1. ASSUME NEW i \in DOMAIN up
          PROVE  /\ BodyOK(up[i].body) /\ up[i].id \in Nat /\ up[i].id <= n + k
                 /\ \A r \in more : r.id = up[i].id => r.body = up[i].body
      <3>1. BodyOK(up[i].body) /\ up[i].id \in Nat /\ up[i].id <= n
        BY DEF Mailbox, UpOK
      <3>2. up[i].id <= n + k
        BY <3>1
      <3>3. QED
        BY <1>1, <3>1, <3>2 DEF Mailbox, UpOK
    <2>2. QED
      BY <2>1 DEF Mailbox, UpOK
  <1>7. UpOK(more, n + k, messages)
    <2>1. ASSUME NEW i \in 1..k
          PROVE  /\ BodyOK(messages[i].body) /\ messages[i].id \in Nat /\ messages[i].id <= n + k
                 /\ \A r \in more : r.id = messages[i].id => r.body = messages[i].body
      <3>1. messages[i].id = n + i /\ messages[i].body = bodies[i]
        BY <1>0
      <3>2. ASSUME NEW r \in more, r.id = messages[i].id PROVE r.body = messages[i].body
        <4>1. CASE r.id <= n
          BY <3>1, <3>2, <4>1
        <4>2. CASE ~(r.id <= n)
          <5>1. PICK j \in 1..k : r.id = n + j /\ r.body = bodies[j]
            BY <1>1, <4>2
          <5>2. i = j
            BY <3>1, <3>2, <5>1
          <5>3. QED
            BY <3>1, <5>1, <5>2
        <4>3. QED
          BY <4>1, <4>2
      <3>3. QED
        BY <3>1, <3>2
    <2>2. QED
      BY <1>0, <2>1 DEF UpOK
  <1>8. UpOK(more, n + k, up \o messages)
    <2>1. IsSeq(up)
      BY DEF Mailbox, UpOK
    <2>2. /\ IsSeq(up \o messages)
          /\ \A i \in DOMAIN (up \o messages) :
               \/ i \in DOMAIN up /\ (up \o messages)[i] = up[i]
               \/ i - Len(up) \in DOMAIN messages /\ (up \o messages)[i] = messages[i - Len(up)]
      BY <1>0, <2>1, ConcatIs
    <2> DEFINE all == up \o messages
    <2> HIDE DEF all
    <2>3. QED
      BY <1>6, <1>7, <2>2 DEF UpOK, all
  <1>9. QED
    BY <1>2, <1>4, <1>5, <1>6, <1>8 DEF Mailbox

(* The server hands out news: of others, or in answer to the request id of *)
(* the browser.                                                            *)
LEMMA MailIsDelivered ==
  ASSUME NEW c, NEW hs, NEW n, NEW up, NEW down, NEW f, Mailbox(c, hs, n, up, down, f),
         NEW news, IsSeq(news), DownOK(c, n, news), NEW g, g = Anonymous => f = Anonymous,
         \/ ~Welcome(c, hs, news)
         \/ f = Anonymous /\ g # Anonymous /\ \A i, j \in DOMAIN news : i = j
  PROVE  /\ Mailbox(c, hs, n, up, down \o news, g)
         /\ Welcome(c, hs, down \o news) => Welcome(c, hs, down) \/ f = Anonymous
  <1> DEFINE all == down \o news
  <1>1. IsSeq(down)
    BY DEF Mailbox, DownOK
  <1>2. /\ IsSeq(all) /\ Len(down) \in Nat
        /\ \A i \in DOMAIN all :
             \/ i \in DOMAIN down /\ all[i] = down[i]
             \/ /\ i - Len(down) \in DOMAIN news /\ all[i] = news[i - Len(down)]
                /\ i \in Nat
    BY <1>1, ConcatIs
  <1> HIDE DEF all
  <1>3. DownOK(c, n, all)
    BY <1>2 DEF Mailbox, DownOK
  <1>4. CASE ~Welcome(c, hs, news)
    <2>1. \A i \in DOMAIN all : Greets(c, hs, all[i]) => i \in DOMAIN down /\ all[i] = down[i]
      BY <1>2, <1>4 DEF Welcome
    <2>2. Welcome(c, hs, all) => Welcome(c, hs, down)
      BY <2>1 DEF Welcome
    <2>3. WelcomeOK(c, hs, all, g)
      BY <2>1, <2>2 DEF Mailbox, WelcomeOK
    <2>4. QED
      BY <1>3, <2>2, <2>3 DEF Mailbox, all
  <1>5. CASE f = Anonymous /\ g # Anonymous /\ \A i, j \in DOMAIN news : i = j
    <2>1. ~Welcome(c, hs, down)
      BY <1>5 DEF Mailbox, WelcomeOK
    <2>2. \A i \in DOMAIN all : Greets(c, hs, all[i]) => i - Len(down) \in DOMAIN news /\ i \in Nat
      BY <1>2, <2>1 DEF Welcome
    <2>3. ASSUME NEW i \in DOMAIN all, NEW j \in DOMAIN all,
                 Greets(c, hs, all[i]), Greets(c, hs, all[j])
          PROVE  i = j
      <3>1. i - Len(down) = j - Len(down) /\ i \in Nat /\ j \in Nat
        BY <1>5, <2>2, <2>3
      <3>2. QED
        BY <1>2, <3>1
    <2>4. WelcomeOK(c, hs, all, g)
      BY <1>5, <2>3 DEF WelcomeOK
    <2>5. QED
      BY <1>3, <1>5, <2>4 DEF Mailbox, all
  <1>6. QED
    BY <1>4, <1>5
-----------------------------------------------------------------------------
(* The browsers and their mail.                                            *)

(* Nothing but hellos is sent before the answer to one, which moves the    *)
(* browser on.                                                             *)
Unnamed == {"CONNECTING", "ANONYMOUS"}
BrowserOK(c) ==
  /\ Mailbox(c, handlers[c], sent[c], toServer[c], toClient[c], fsm[c])
  /\ clientState[c].state \in Unnamed =>
       \A r \in handlers[c] : r.body.case = "clientHello"
  /\ link[c] # "closed" /\ (fsm[c] = Anonymous \/ Welcome(c, handlers[c], toClient[c]))
       => clientState[c].state \in Unnamed
  /\ link[c] = "connecting" => clientState[c].state \in Unnamed

MailDomains ==
  /\ toServer = [c \in Clients |-> toServer[c]] /\ toClient = [c \in Clients |-> toClient[c]]
  /\ link = [c \in Clients |-> link[c]] /\ clientState = [c \in Clients |-> clientState[c]]
BrowsersOK == Books /\ StoresOK /\ MailDomains /\ \A c \in Clients : BrowserOK(c)

LEMMA NewsAre ==
  ASSUME NEW id, NEW o, IsSeq(o)
  PROVE  LET news == [i \in DOMAIN o |->
                       [body |-> o[i], causedBy |-> IF o[i].re THEN id ELSE NoMessage]]
         IN  /\ IsSeq(news) /\ DOMAIN news = DOMAIN o
             /\ \A i \in DOMAIN news : news[i].body = o[i] /\ news[i].causedBy \in {id, NoMessage}
  <1> DEFINE news == [i \in DOMAIN o |->
                       [body |-> o[i], causedBy |-> IF o[i].re THEN id ELSE NoMessage]]
  <1>1. \A i \in DOMAIN news : news[i].body = o[i] /\ news[i].causedBy \in {id, NoMessage}
    OBVIOUS
  <1>2. DOMAIN o = 1..Len(o) /\ Len(o) \in Nat
    BY SeqParts
  <1>3. news = [i \in 1..Len(o) |-> news[i]] /\ DOMAIN news = DOMAIN o
    BY <1>2
  <1> HIDE DEF news
  <1>4. IsSeq(news)
    BY <1>2, <1>3, ListIsSeq
  <1>5. QED
    BY <1>1, <1>3, <1>4 DEF news

LEMMA NoNumber == \A x \in Clients : \A k \in Nat : NoMessage # <<x, k>>
  BY ClientSessionAssumption

(* What the server hands out in a step that takes the message id.          *)
LEMMA DeliveryKeepsMail ==
  ASSUME BrowsersOK, Posted, StaysNamed, NEW x \in Clients, NEW id, Deliver(id),
         UNCHANGED <<link, clientState, handlers, sent>>, fsm' = [y \in Clients |-> fsm'[y]],
         Mailbox(x, handlers[x], sent[x], toServer'[x], toClient[x], fsm[x]),
         \A k \in Nat : id = <<x, k>> => k <= sent[x],
         \/ Greeted(x)
         \/ \A r \in handlers[x] : r.body.case = "clientHello" => id # <<x, r.id>>
  PROVE  BrowserOK(x)'
  <1> DEFINE o == out'[x]
             news == [i \in DOMAIN o |->
                       [body |-> o[i], causedBy |-> IF o[i].re THEN id ELSE NoMessage]]
             hs == handlers[x]
             n == sent[x]
             f == fsm[x]
             down == toClient[x]
  <1>1. toClient'[x] = IF link[x] = "closed" THEN <<>> ELSE down \o news
    BY DEF Deliver
  <1>2. IsSeq(o)
    BY DEF Posted
  <1>3. PICK g : g = fsm'[x]
    OBVIOUS
  <1>4. g = Anonymous => f = Anonymous
    BY <1>3 DEF StaysNamed
  <1>5. /\ IsSeq(news) /\ DOMAIN news = DOMAIN o
        /\ \A i \in DOMAIN news : news[i].body = o[i] /\ news[i].causedBy \in {id, NoMessage}
    BY <1>2, NewsAre
  <1>6. \A r \in hs : r.id \in Nat
    BY DEF BrowsersOK, StoresOK, RequestsOK
  <1>7. \/ \A i \in DOMAIN o : o[i].type # "success"
        \/ f = Anonymous /\ g # Anonymous /\ \A i, j \in DOMAIN o : i = j
        \/ \A r \in hs : r.body.case = "clientHello" => id # <<x, r.id>>
    BY <1>3 DEF Greeted
  <1>8. BrowserOK(x)
    BY DEF BrowsersOK
  <1> HIDE DEF news, o
  <1>9. DownOK(x, n, news)
    BY <1>5, NoNumber DEF DownOK
  <1>10. \/ ~Welcome(x, hs, news)
         \/ f = Anonymous /\ g # Anonymous /\ \A i, j \in DOMAIN news : i = j
    <2>1. CASE \A i \in DOMAIN o : o[i].type # "success"
      BY <1>5, <2>1 DEF Welcome, Greets
    <2>2. CASE \A r \in hs : r.body.case = "clientHello" => id # <<x, r.id>>
      BY <1>5, <1>6, <2>2, NoNumber DEF Welcome, Greets
    <2>3. QED
      BY <1>5, <1>7, <2>1, <2>2
  <1>11. PICK up : up = toServer'[x]
    OBVIOUS
  <1>12. Mailbox(x, hs, n, up, down, f)
    BY <1>11
  <1>13. CASE link[x] = "closed"
    <2>1. toClient'[x] = <<>>
      BY <1>1, <1>13
    <2>2. Mailbox(x, hs, n, up, <<>>, g)
      BY <1>12, MailIsLost
    <2>3. QED
      BY <1>3, <1>8, <1>11, <1>13, <2>1, <2>2 DEF BrowserOK
  <1>14. CASE link[x] # "closed"
    <2>1. toClient'[x] = down \o news
      BY <1>1, <1>14
    <2>2. /\ Mailbox(x, hs, n, up, down \o news, g)
          /\ Welcome(x, hs, down \o news) => Welcome(x, hs, down) \/ f = Anonymous
      BY <1>4, <1>5, <1>9, <1>10, <1>12, MailIsDelivered
    <2>3. QED
      BY <1>3, <1>4, <1>8, <1>11, <1>14, <2>1, <2>2 DEF BrowserOK
  <1>15. QED
    BY <1>13, <1>14

LEMMA HandlingKeepsMail ==
  ASSUME BrowsersOK, NEW c \in Clients, HandleFigure(c)
  PROVE  BrowsersOK' /\ UNCHANGED <<link, clientState, handlers, sent, stores>>
  <1>1. /\ toServer[c] # <<>> /\ toServer' = [toServer EXCEPT ![c] = Tail(@)]
        /\ Deliver(<<c, Head(toServer[c]).id>>)
        /\ UNCHANGED <<link, clientState, handlers, sent, stores>>
    BY DEF HandleFigure, Handled, browserVars
  <1>2. /\ Mailbox(c, handlers[c], sent[c], Tail(toServer[c]), toClient[c], fsm[c])
        /\ Head(toServer[c]).id \in Nat /\ Head(toServer[c]).id <= sent[c]
        /\ BodyOK(Head(toServer[c]).body)
        /\ \A r \in handlers[c] :
             r.id = Head(toServer[c]).id => r.body = Head(toServer[c]).body
    <2>1. Mailbox(c, handlers[c], sent[c], toServer[c], toClient[c], fsm[c])
      BY DEF BrowsersOK, BrowserOK
    <2>2. toServer[c] # <<>>
      BY <1>1
    <2>3. QED
      BY ONLY <2>1, <2>2, MailIsHandled
  <1>3. /\ Posted /\ Books' /\ StaysNamed
        /\ Head(toServer[c]).body.case = "clientHello" => Greeted(c)
    BY <1>2, HandlingIs DEF BrowsersOK
  <1>4. fsm' = [y \in Clients |-> fsm'[y]]
    BY <1>3 DEF Books, StateTypes
  <1>5. ASSUME NEW x \in Clients PROVE BrowserOK(x)'
    <2> DEFINE k == Head(toServer[c]).id
    <2>1. CASE x = c
      <3>1. toServer'[x] = Tail(toServer[c])
        BY <1>1, <2>1 DEF BrowsersOK, MailDomains
      <3>2. \/ Greeted(c)
            \/ \A r \in handlers[c] : r.body.case = "clientHello" => <<c, k>> # <<c, r.id>>
        BY <1>2, <1>3
      <3>3. Mailbox(x, handlers[x], sent[x], toServer'[x], toClient[x], fsm[x])
        BY <1>2, <2>1, <3>1
      <3>4. \A j \in Nat : <<c, k>> = <<x, j>> => j <= sent[x]
        BY <1>2, <2>1
      <3> HIDE DEF k
      <3>5. QED
        BY <1>1, <1>3, <1>4, <2>1, <3>2, <3>3, <3>4, DeliveryKeepsMail DEF k
    <2>2. CASE x # c
      <3>1. toServer'[x] = toServer[x]
        BY <1>1, <2>2 DEF BrowsersOK, MailDomains
      <3>2. Mailbox(x, handlers[x], sent[x], toServer'[x], toClient[x], fsm[x])
        BY <3>1 DEF BrowsersOK, BrowserOK
      <3>3. \A j : <<c, k>> # <<x, j>>
        BY <2>2
      <3> HIDE DEF k
      <3>4. QED
        BY <1>1, <1>3, <1>4, <3>2, <3>3, DeliveryKeepsMail DEF k
    <2>3. QED
      BY <2>1, <2>2
  <1>6. StoresOK'
    BY <1>1, StoresStay DEF BrowsersOK, SameStores
  <1>7. MailDomains'
    BY <1>1 DEF BrowsersOK, MailDomains, Deliver
  <1>8. QED
    BY <1>1, <1>3, <1>5, <1>6, <1>7 DEF BrowsersOK

LEMMA SocketKeepsMail ==
  ASSUME BrowsersOK, NEW c \in Clients, SocketStep(c)
  PROVE  BrowsersOK' /\ UNCHANGED <<link, clientState, handlers, sent, stores>>
  <1>1. /\ RegisterClient(c) \/ CloseSocket(c)
        /\ toServer' = [toServer EXCEPT ![c] = <<>>]
        /\ Deliver(NoMessage)
        /\ UNCHANGED <<link, clientState, handlers, sent, stores>>
    BY DEF SocketStep, SocketEvent, browserVars
  <1>2. PlainStep(c)
    BY <1>1 DEF PlainStep
  <1>3. Books' /\ StaysNamed
    BY <1>2, PlainStepKeepsBooks, PlainStepStaysNamed DEF BrowsersOK
  <1>4. Posted
    BY <1>2, <1>3, PlainStepSendsMail, MailIsPosted DEF BrowsersOK, MailSent
  <1>5. fsm' = [y \in Clients |-> fsm'[y]]
    BY <1>3 DEF Books, StateTypes
  <1>6. ASSUME NEW x \in Clients PROVE BrowserOK(x)'
    <2>1. toServer'[x] \in {toServer[x], <<>>}
      BY <1>1 DEF BrowsersOK, MailDomains
    <2>2. Mailbox(x, handlers[x], sent[x], toServer'[x], toClient[x], fsm[x])
      BY <2>1, MailIsLost DEF BrowsersOK, BrowserOK
    <2>3. \A r \in handlers[x] : r.id \in Nat
      BY DEF BrowsersOK, StoresOK, RequestsOK
    <2>4. QED
      BY <1>1, <1>3, <1>4, <1>5, <2>2, <2>3, NoNumber, DeliveryKeepsMail
  <1>7. StoresOK'
    BY <1>1, StoresStay DEF BrowsersOK, SameStores
  <1>8. MailDomains'
    BY <1>1 DEF BrowsersOK, MailDomains, Deliver
  <1>9. QED
    BY <1>1, <1>3, <1>6, <1>7, <1>8 DEF BrowsersOK

(* A step of one browser.                                                  *)
LEMMA OneBrowser ==
  ASSUME BrowsersOK, NEW c \in Clients, ServerIdle, StoresOK', MailDomains', BrowserOK(c)',
         \A x \in Clients : x # c =>
           /\ handlers'[x] = handlers[x] /\ sent'[x] = sent[x] /\ link'[x] = link[x]
           /\ clientState'[x] = clientState[x]
           /\ toServer'[x] = toServer[x] /\ toClient'[x] = toClient[x]
  PROVE  BrowsersOK'
  <1>1. Books'
    BY QuietKeepsBooks DEF BrowsersOK, ServerIdle, Books, StateTypes
  <1>2. ASSUME NEW x \in Clients, x # c PROVE BrowserOK(x)'
    <2>1. BrowserOK(x) /\ UNCHANGED fsm
      BY DEF BrowsersOK, ServerIdle
    <2>2. QED
      BY <1>2, <2>1 DEF BrowserOK
  <1>3. QED
    BY <1>1, <1>2 DEF BrowsersOK

(* Requests are sent, besides those that wait.                             *)
SentWith(c, before, bodies, k, down, f, more, up) ==
  /\ handlers' = [handlers EXCEPT ![c] = more] /\ RequestsOK(more, sent[c] + k)
  /\ sent' = [sent EXCEPT ![c] = sent[c] + k] /\ sent[c] + k \in Nat
  /\ toServer' = [toServer EXCEPT ![c] = up]
  /\ Mailbox(c, more, sent[c] + k, up, down, f)
  /\ Welcome(c, more, down) => Welcome(c, before, down)
  /\ before \subseteq more
  /\ \A r \in more : r \in before \/ \E i \in 1..k : r.body = bodies[i]

LEMMA SendingKeepsMail ==
  ASSUME StoresOK, MailDomains, NEW c \in Clients, NEW before, before \subseteq handlers[c],
         NEW bodies, NEW k \in Nat, DOMAIN bodies = 1..k, Len(bodies) = k,
         \A i \in 1..k : BodyOK(bodies[i]), SendAll(c, before, bodies), NEW down, NEW f,
         Mailbox(c, before, sent[c], toServer[c], down, f)
  PROVE  \E more, up : SentWith(c, before, bodies, k, down, f, more, up)
  <1> DEFINE n == sent[c]
             up == toServer[c]
             messages == [i \in DOMAIN bodies |-> [id |-> n + i, body |-> bodies[i]]]
  <1>1. PICK more : SentAs(c, before, bodies, k, more)
    BY SentRequests
  <1>2. n \in Nat /\ \A r \in before : r.id \in Nat /\ r.id <= n
    BY DEF StoresOK, RequestsOK
  <1>3. Numbered(n, bodies, k, messages)
    <2>1. messages = [i \in 1..k |-> messages[i]]
      OBVIOUS
    <2>2. \A i \in 1..k : messages[i] = [id |-> n + i, body |-> bodies[i]]
      OBVIOUS
    <2> HIDE DEF messages
    <2>3. QED
      BY <2>1, <2>2, ListIsSeq DEF Numbered
  <1>4. \/ toServer' = [toServer EXCEPT ![c] = @ \o messages]
        \/ toServer' = toServer
    BY DEF SendAll
  <1>5. toServer' = [toServer EXCEPT ![c] = up \o messages] \/ toServer' = [toServer EXCEPT ![c] = up]
    BY <1>4 DEF MailDomains
  <1>6. MoreWait(before, n, bodies, k, more)
    BY <1>1 DEF SentAs, MoreWait
  <1>7. /\ Mailbox(c, more, n + k, up, down, f)
        /\ Mailbox(c, more, n + k, up \o messages, down, f)
        /\ Welcome(c, more, down) => Welcome(c, before, down)
    <2> HIDE DEF messages, n, up
    <2>1. Mailbox(c, before, n, up, down, f)
      BY DEF n, up
    <2>2. QED
      BY ONLY <1>2, <1>3, <1>6, <2>1, k \in Nat, \A i \in 1..k : BodyOK(bodies[i]), MailIsSent
  <1>8. \A r \in more : r \in before \/ \E i \in 1..k : r.body = bodies[i]
    BY <1>6 DEF MoreWait
  <1> HIDE DEF messages
  <1>9. QED
    BY <1>1, <1>5, <1>7, <1>8 DEF SentAs, SentWith

LEMMA PressKeepsMail ==
  ASSUME BrowsersOK, StoresOK', NEW c \in Clients, NEW bodies, NEW k \in Nat,
         DOMAIN bodies = 1..k, Len(bodies) = k, \A i \in 1..k : BodyOK(bodies[i]),
         clientState[c].state \in Unnamed => \A i \in 1..k : bodies[i].case = "clientHello",
         PressAll(c, bodies)
  PROVE  BrowsersOK' /\ UNCHANGED <<link, clientState>>
  <1>1. /\ SendAll(c, handlers[c], bodies) /\ ServerIdle /\ UNCHANGED <<link, clientState, toClient>>
    BY DEF PressAll
  <1>2. BrowserOK(c) /\ StoresOK /\ MailDomains
    BY DEF BrowsersOK
  <1>3. Mailbox(c, handlers[c], sent[c], toServer[c], toClient[c], fsm[c])
    BY <1>2 DEF BrowserOK
  <1>4. PICK more, up : SentWith(c, handlers[c], bodies, k, toClient[c], fsm[c], more, up)
    <2>1. handlers[c] \subseteq handlers[c]
      OBVIOUS
    <2>2. QED
      BY <1>1, <1>2, <1>3, <2>1, SendingKeepsMail
  <1>5. handlers'[c] = more /\ sent'[c] = sent[c] + k /\ toServer'[c] = up /\ fsm' = fsm
    BY <1>1, <1>2, <1>4 DEF SentWith, StoresOK, MailDomains, ServerIdle
  <1>6. BrowserOK(c)'
    BY <1>1, <1>2, <1>4, <1>5 DEF SentWith, BrowserOK
  <1>7. MailDomains'
    BY <1>1, <1>2, <1>4 DEF SentWith, MailDomains
  <1>8. \A x \in Clients : x # c =>
           /\ handlers'[x] = handlers[x] /\ sent'[x] = sent[x] /\ toServer'[x] = toServer[x]
    BY <1>2, <1>4 DEF SentWith, StoresOK, MailDomains
  <1>9. QED
    BY <1>1, <1>6, <1>7, <1>8, OneBrowser

(* What a message and a callback do to the state of a browser.             *)
LEMMA MessageMoves ==
  ASSUME NEW s, NEW m
  PROVE  LET t == handleMessage(s, m)
         IN  \/ t = s
             \/ /\ s.state = "PENDING_APPROVAL" /\ m.type # "success"
                /\ t.state \in {"WHITEBOARD_USER", "NO_WHITEBOARD"}
             \/ /\ s.state \in {"WHITEBOARD_USER", "WHITEBOARD_HOST"} /\ m.type # "success"
                /\ t.state = "SESSION_ENDED"
  BY DEF handleMessage, handleJoinApproved, handleJoinDenied, handleSessionEnded, Screen, On

LEMMA CallbackMoves ==
  ASSUME NEW s, NEW body, NEW m
  PROVE  LET t == callback(s, body, m)
         IN  \/ /\ t = s /\ body.case # "leaveWhiteboard"
                /\ ~(body.case = "clientHello" /\ m.type = "success")
             \/ /\ body.case = "clientHello" /\ m.type = "success"
                /\ t.state = "NO_WHITEBOARD"
             \/ body.case = "joinWhiteboard" /\ s.state = "NO_WHITEBOARD" /\ t.state = "PENDING_APPROVAL"
             \/ /\ body.case = "createWhiteboardRequest" /\ s.state = "NO_WHITEBOARD"
                /\ m.type = "whiteboardCreated" /\ t.state = "WHITEBOARD_HOST"
             \/ body.case = "leaveWhiteboard" /\ t.state = "NO_WHITEBOARD"
  BY DEF callback, Screen, On

(* A message for a browser.                                                *)
LEMMA ReceiveIs ==
  ASSUME BrowsersOK, NEW c \in Clients, ReceiveFigure(c)
  PROVE  LET m == Head(toClient[c]).body
             s == clientState[c]
         IN  /\ ServerIdle /\ link[c] = "open" /\ UNCHANGED link /\ toClient[c] # <<>>
             /\ toClient' = [toClient EXCEPT ![c] = Tail(toClient[c])]
             /\ MailDomains'
             /\ \A x \in Clients : x # c => clientState'[x] = clientState[x]
             /\ \/ Caused(c) = {} /\ clientState'[c] = handleMessage(s, m)
                \/ \E r \in Caused(c) :
                     Caused(c) = {r} /\ clientState'[c] = callback(handleMessage(s, m), r.body, m)
  <1> DEFINE m == Head(toClient[c]).body
             s == clientState[c]
  <1>0. StoresOK /\ MailDomains /\ Receive(c)
    BY DEF BrowsersOK, ReceiveFigure
  <1>1. /\ ServerIdle /\ link[c] = "open" /\ UNCHANGED link /\ toClient[c] # <<>>
        /\ toClient' = [toClient EXCEPT ![c] = Tail(@)]
        /\ \/ Caused(c) = {} /\ clientState' = [clientState EXCEPT ![c] = handleMessage(@, m)]
           \/ \E r \in Caused(c) :
                clientState' = [clientState EXCEPT ![c] = callback(handleMessage(@, m), r.body, m)]
        /\ UNCHANGED toServer \/ \E bodies : SendAll(c, handlers[c] \ Caused(c), bodies)
    BY <1>0 DEF Receive
  <1> HIDE DEF m
  <1>2. /\ toClient' = [toClient EXCEPT ![c] = Tail(toClient[c])]
        /\ toClient' = [x \in Clients |-> toClient'[x]]
    BY <1>0, <1>1 DEF MailDomains
  <1>3. toServer' = [x \in Clients |-> toServer'[x]]
    <2>1. CASE UNCHANGED toServer
      BY <1>0, <2>1 DEF MailDomains
    <2>2. CASE \E bodies : SendAll(c, handlers[c] \ Caused(c), bodies)
      BY <1>0, <2>2 DEF MailDomains, SendAll
    <2>3. QED
      BY <1>1, <2>1, <2>2
  <1>4. /\ clientState' = [x \in Clients |-> clientState'[x]]
        /\ \A x \in Clients : x # c => clientState'[x] = clientState[x]
        /\ \/ Caused(c) = {} /\ clientState'[c] = handleMessage(s, m)
           \/ \E r \in Caused(c) : clientState'[c] = callback(handleMessage(s, m), r.body, m)
    <2>1. CASE Caused(c) = {} /\ clientState' = [clientState EXCEPT ![c] = handleMessage(@, m)]
      BY <1>0, <2>1 DEF MailDomains
    <2>2. CASE \E r \in Caused(c) :
                clientState' = [clientState EXCEPT ![c] = callback(handleMessage(@, m), r.body, m)]
      BY <1>0, <2>2 DEF MailDomains
    <2>3. QED
      BY <1>1, <2>1, <2>2
  <1>5. \A r \in Caused(c) : Caused(c) = {r}
    BY <1>0, OneIsCaused
  <1>6. MailDomains'
    BY <1>0, <1>1, <1>2, <1>3, <1>4 DEF MailDomains
  <1>7. QED
    BY <1>1, <1>2, <1>4, <1>5, <1>6 DEF m

LEMMA CausedGreets ==
  ASSUME BrowsersOK, NEW c \in Clients, NEW r \in Caused(c), r.body.case = "clientHello",
         Head(toClient[c]).body.type = "success"
  PROVE  Greets(c, handlers[c], Head(toClient[c]))
  BY DEF Caused, Greets

LEMMA ReceiveKeepsMail ==
  ASSUME BrowsersOK, NEW c \in Clients, ReceiveFigure(c)
  PROVE  BrowsersOK'
  <1> DEFINE hs == handlers[c]
             waiting == hs \ Caused(c)
             n == sent[c]
             up == toServer[c]
             down == toClient[c]
             f == fsm[c]
             s == clientState[c]
             m == Head(toClient[c]).body
  <1>0. /\ StoresOK /\ MailDomains /\ BrowserOK(c) /\ Receive(c)
        /\ Mailbox(c, hs, n, up, down, f) /\ waiting \subseteq hs
    BY DEF BrowsersOK, ReceiveFigure, BrowserOK
  <1>1. /\ ServerIdle /\ link[c] = "open" /\ UNCHANGED link /\ down # <<>>
        /\ toClient' = [toClient EXCEPT ![c] = Tail(down)]
        /\ MailDomains'
        /\ \A x \in Clients : x # c => clientState'[x] = clientState[x]
    BY ReceiveIs
  <1>2. \/ Caused(c) = {} /\ clientState'[c] = handleMessage(s, m)
        \/ \E r \in Caused(c) :
             Caused(c) = {r} /\ clientState'[c] = callback(handleMessage(s, m), r.body, m)
    BY ReceiveIs
  <1>3. StoresOK'
    BY <1>0, ReceiveKept
  <1>4. /\ Mailbox(c, hs, n, up, Tail(down), f)
        /\ Welcome(c, hs, Tail(down)) => Welcome(c, hs, down)
        /\ Greets(c, hs, Head(down)) => ~Welcome(c, hs, Tail(down)) /\ f # Anonymous
    <2> HIDE DEF hs, n, up, down, f
    <2>1. QED
      BY <1>0, <1>1, MailIsTaken
  <1>5. /\ Mailbox(c, waiting, n, up, Tail(down), f)
        /\ Welcome(c, waiting, Tail(down)) => Welcome(c, hs, Tail(down))
    <2> HIDE DEF hs, n, up, down, f, waiting
    <2>1. QED
      BY <1>0, <1>4, FewerWait
  <1>6. \/ /\ handlers' = [handlers EXCEPT ![c] = waiting]
           /\ UNCHANGED <<sent, toServer>>
        \/ JoinsAtOnce(c) /\ \E b \in Boards : SendAll(c, waiting, <<JoinBody(b)>>)
    BY <1>0 DEF Receive
  <1> HIDE DEF waiting
  <1>7. \E more, k, top :
          /\ handlers' = [handlers EXCEPT ![c] = more]
          /\ sent' = [sent EXCEPT ![c] = k] /\ toServer' = [toServer EXCEPT ![c] = top]
          /\ Mailbox(c, more, k, top, Tail(down), f)
          /\ Welcome(c, more, Tail(down)) => Welcome(c, waiting, Tail(down))
          /\ more = waiting \/ JoinsAtOnce(c)
    <2>1. CASE handlers' = [handlers EXCEPT ![c] = waiting] /\ UNCHANGED <<sent, toServer>>
      <3>1. sent' = [sent EXCEPT ![c] = n] /\ toServer' = [toServer EXCEPT ![c] = up]
        BY <1>0, <2>1 DEF StoresOK, MailDomains
      <3>2. QED
        BY <1>5, <2>1, <3>1
    <2>2. ASSUME JoinsAtOnce(c), NEW b \in Boards, SendAll(c, waiting, <<JoinBody(b)>>)
          PROVE  \E more, k, top :
                   /\ handlers' = [handlers EXCEPT ![c] = more]
                   /\ sent' = [sent EXCEPT ![c] = k] /\ toServer' = [toServer EXCEPT ![c] = top]
                   /\ Mailbox(c, more, k, top, Tail(down), f)
                   /\ Welcome(c, more, Tail(down)) => Welcome(c, waiting, Tail(down))
                   /\ more = waiting \/ JoinsAtOnce(c)
      <3>1. BodyOK(JoinBody(b))
        BY DEF BodyOK, JoinBody, ClientToServerCase
      <3> DEFINE bodies == <<JoinBody(b)>>
      <3>2. DOMAIN bodies = 1..1 /\ Len(bodies) = 1 /\ 1 \in Nat /\ \A i \in 1..1 : BodyOK(bodies[i])
        BY <3>1
      <3>3. SendAll(c, waiting, bodies)
        BY <2>2
      <3> HIDE DEF bodies
      <3>4. PICK more, top : SentWith(c, waiting, bodies, 1, Tail(down), f, more, top)
        BY <1>0, <1>5, <3>2, <3>3, SendingKeepsMail
      <3>5. QED
        BY <2>2, <3>4 DEF SentWith
    <2>3. QED
      BY <1>6, <2>1, <2>2
  <1>8. PICK more, k, top :
          /\ handlers' = [handlers EXCEPT ![c] = more]
          /\ sent' = [sent EXCEPT ![c] = k] /\ toServer' = [toServer EXCEPT ![c] = top]
          /\ Mailbox(c, more, k, top, Tail(down), f)
          /\ Welcome(c, more, Tail(down)) => Welcome(c, waiting, Tail(down))
          /\ more = waiting \/ JoinsAtOnce(c)
    BY <1>7
  <1>9. /\ handlers'[c] = more /\ sent'[c] = k /\ toServer'[c] = top /\ fsm' = fsm
        /\ toClient'[c] = Tail(down) /\ link'[c] = "open"
        /\ \A x \in Clients : x # c =>
             /\ handlers'[x] = handlers[x] /\ sent'[x] = sent[x] /\ link'[x] = link[x]
             /\ toServer'[x] = toServer[x] /\ toClient'[x] = toClient[x]
    BY <1>0, <1>1, <1>8 DEF StoresOK, MailDomains, ServerIdle
  <1>10. ASSUME clientState'[c].state \in Unnamed
         PROVE  s.state \in Unnamed /\ ~JoinsAtOnce(c)
    <2>1. CASE Caused(c) = {} /\ clientState'[c] = handleMessage(s, m)
      BY <1>10, <2>1, MessageMoves DEF Unnamed, JoinsAtOnce
    <2>2. ASSUME NEW r \in Caused(c), Caused(c) = {r},
                 clientState'[c] = callback(handleMessage(s, m), r.body, m)
          PROVE  s.state \in Unnamed /\ ~JoinsAtOnce(c)
      <3> DEFINE t == handleMessage(s, m)
      <3>1. t.state \in Unnamed => s.state \in Unnamed
        BY MessageMoves DEF Unnamed
      <3> HIDE DEF t, m
      <3>2. t.state \in Unnamed /\ ~(r.body.case = "clientHello" /\ m.type = "success")
        BY <1>10, <2>2, CallbackMoves DEF Unnamed, t
      <3>3. QED
        BY <2>2, <3>1, <3>2 DEF JoinsAtOnce, m
    <2>3. QED
      BY <1>2, <2>1, <2>2
  <1>11. ASSUME f = Anonymous \/ Welcome(c, more, Tail(down))
         PROVE  clientState'[c].state \in Unnamed
    <2>1. s.state \in Unnamed /\ \A r \in hs : r.body.case = "clientHello"
      BY <1>0, <1>1, <1>4, <1>5, <1>8, <1>11 DEF BrowserOK
    <2>2. handleMessage(s, m) = s
      BY <2>1, MessageMoves DEF Unnamed
    <2>3. \A r \in Caused(c) : r.body.case = "clientHello"
      BY <2>1 DEF Caused
    <2>4. ASSUME NEW r \in Caused(c) PROVE m.type # "success"
      BY <1>4, <1>5, <1>8, <1>11, <2>3, CausedGreets
    <2> HIDE DEF m, s
    <2>5. \A r \in Caused(c) : callback(s, r.body, m) = s
      BY <2>3, <2>4, CallbackMoves
    <2>6. QED
      BY <1>2, <2>1, <2>2, <2>5
  <1>12. BrowserOK(c)'
    <2>1. ASSUME clientState'[c].state \in Unnamed, NEW r \in more
          PROVE  r.body.case = "clientHello"
      BY <1>0, <1>8, <1>10, <2>1 DEF BrowserOK, waiting
    <2>2. QED
      BY <1>8, <1>9, <1>11, <2>1 DEF BrowserOK
  <1>13. QED
    BY <1>1, <1>3, <1>9, <1>12, OneBrowser

LEMMA TimeOutKeepsMail ==
  ASSUME BrowsersOK, NEW c \in Clients, TimeOutFigure(c)
  PROVE  BrowsersOK'
  <1>0. StoresOK /\ MailDomains /\ BrowserOK(c) /\ StoresOK'
    BY TimeOutKept DEF BrowsersOK
  <1>1. PICK r \in handlers[c] :
          /\ handlers' = [handlers EXCEPT ![c] = @ \ {r}]
          /\ clientState' = [clientState EXCEPT ![c] = callback(@, r.body, Timeout)]
          /\ ServerIdle /\ UNCHANGED <<link, sent, toServer, toClient>>
    BY DEF TimeOutFigure, TimeOut, channelVars
  <1> DEFINE fewer == handlers[c] \ {r}
             s == clientState[c]
  <1>2. /\ handlers'[c] = fewer /\ clientState'[c] = callback(s, r.body, Timeout) /\ fsm' = fsm
        /\ \A x \in Clients : x # c => handlers'[x] = handlers[x] /\ clientState'[x] = clientState[x]
        /\ MailDomains'
    BY <1>0, <1>1 DEF StoresOK, MailDomains, ServerIdle
  <1>3. /\ Mailbox(c, fewer, sent[c], toServer[c], toClient[c], fsm[c])
        /\ Welcome(c, fewer, toClient[c]) => Welcome(c, handlers[c], toClient[c])
    BY <1>0, FewerWait DEF BrowserOK
  <1>4. Timeout.type # "success"
    BY DEF Timeout, Plain
  <1>5. clientState'[c].state \in Unnamed => s.state \in Unnamed
    BY <1>2, CallbackMoves DEF Unnamed
  <1>6. s.state \in Unnamed => clientState'[c] = s
    <2> HAVE s.state \in Unnamed
    <2>1. r.body.case = "clientHello"
      BY <1>0 DEF BrowserOK
    <2>2. QED
      BY <1>2, <1>4, <2>1, CallbackMoves
  <1>7. BrowserOK(c)'
    BY <1>0, <1>1, <1>2, <1>3, <1>5, <1>6 DEF BrowserOK
  <1>8. QED
    BY <1>0, <1>1, <1>2, <1>7, OneBrowser

LEMMA ConnectionKeepsMail ==
  ASSUME BrowsersOK, NEW c \in Clients, ConnectionEvent(c)
  PROVE  BrowsersOK'
  <1>0. StoresOK /\ MailDomains /\ BrowserOK(c)
    BY DEF BrowsersOK
  <1>1. StoresOK'
    BY <1>0, OtherStepsKeep, StoresStay
  <1>2. CASE Connected(c)
    <2>1. /\ link' = [link EXCEPT ![c] = "open"] /\ link[c] = "connecting"
          /\ clientState' = [clientState EXCEPT ![c] = Screen("ANONYMOUS")]
          /\ ServerIdle /\ UNCHANGED <<handlers, sent, toServer, toClient>>
      BY <1>2 DEF Connected, channelVars
    <2>2. /\ link'[c] = "open" /\ clientState'[c].state = "ANONYMOUS" /\ fsm' = fsm
          /\ \A x \in Clients : x # c => link'[x] = link[x] /\ clientState'[x] = clientState[x]
          /\ MailDomains'
      BY <1>0, <2>1 DEF MailDomains, ServerIdle, Screen, On
    <2>3. BrowserOK(c)'
      BY <1>0, <2>1, <2>2 DEF BrowserOK, Unnamed
    <2>4. QED
      BY <1>1, <2>1, <2>2, <2>3, OneBrowser
  <1>3. CASE Disconnected(c)
    <2>1. /\ link' = [link EXCEPT ![c] = "closed"]
          /\ clientState' = [clientState EXCEPT ![c] = Screen("DISCONNECTED")]
          /\ toClient' = [toClient EXCEPT ![c] = <<>>]
          /\ ServerIdle /\ UNCHANGED <<handlers, sent, toServer>>
      BY <1>3 DEF Disconnected
    <2>2. /\ link'[c] = "closed" /\ clientState'[c].state = "DISCONNECTED" /\ fsm' = fsm
          /\ toClient'[c] = <<>>
          /\ \A x \in Clients : x # c => /\ link'[x] = link[x] /\ clientState'[x] = clientState[x]
                                         /\ toClient'[x] = toClient[x]
          /\ MailDomains'
      BY <1>0, <2>1 DEF MailDomains, ServerIdle, Screen, On
    <2>3. Mailbox(c, handlers[c], sent[c], toServer[c], <<>>, fsm[c])
      BY <1>0, MailIsLost DEF BrowserOK
    <2>4. BrowserOK(c)'
      BY <2>1, <2>2, <2>3 DEF BrowserOK, Unnamed
    <2>5. QED
      BY <1>1, <2>1, <2>2, <2>4, OneBrowser
  <1>4. QED
    BY <1>2, <1>3 DEF ConnectionEvent

LEMMA OnePressKeepsMail ==
  ASSUME BrowsersOK, StoresOK', NEW c \in Clients, NEW body, BodyOK(body),
         clientState[c].state \in Unnamed => body.case = "clientHello", PressAll(c, <<body>>)
  PROVE  BrowsersOK' /\ UNCHANGED <<link, clientState>>
  <1> DEFINE bodies == <<body>>
  <1>1. /\ DOMAIN bodies = 1..1 /\ Len(bodies) = 1 /\ 1 \in Nat
        /\ \A i \in 1..1 : bodies[i] = body
    OBVIOUS
  <1>2. PressAll(c, bodies)
    OBVIOUS
  <1> HIDE DEF bodies
  <1>3. QED
    BY <1>1, <1>2, PressKeepsMail

LEMMA ButtonsKeepMail ==
  ASSUME BrowsersOK, NEW c \in Clients, SessionAction(c)
  PROVE  BrowsersOK'
  <1>0. StoresOK /\ MailDomains /\ BrowserOK(c) /\ StoresOK'
    BY ButtonsKept DEF BrowsersOK
  <1>1. CASE exitEndedSession(c)
    <2>1. /\ clientState' = [clientState EXCEPT ![c] = Screen("NO_WHITEBOARD")]
          /\ clientState[c].state = "SESSION_ENDED"
          /\ ServerIdle /\ UNCHANGED <<link, handlers, sent, toServer, toClient>>
      BY <1>1 DEF exitEndedSession, channelVars
    <2>2. /\ clientState'[c].state = "NO_WHITEBOARD" /\ fsm' = fsm
          /\ \A x \in Clients : x # c => clientState'[x] = clientState[x]
          /\ MailDomains'
      BY <1>0, <2>1 DEF MailDomains, ServerIdle, Screen, On
    <2>3. BrowserOK(c)'
      BY <1>0, <2>1, <2>2 DEF BrowserOK, Unnamed
    <2>4. QED
      BY <1>0, <2>1, <2>2, <2>3, OneBrowser
  <1>2. \/ exitEndedSession(c)
        \/ \E body : /\ BodyOK(body) /\ PressAll(c, <<body>>)
                     /\ clientState[c].state \in Unnamed => body.case = "clientHello"
    <2>1. CASE setUsername(c)
      <3>1. BodyOK(Body("clientHello")) /\ Body("clientHello").case = "clientHello"
        BY DEF BodyOK, Body, ClientToServerCase
      <3>2. QED
        BY <2>1, <3>1 DEF setUsername, Press
    <2>2. CASE createWhiteboard(c)
      <3>1. BodyOK(Body("createWhiteboardRequest"))
        BY DEF BodyOK, Body, ClientToServerCase
      <3>2. QED
        BY <2>2, <3>1 DEF createWhiteboard, Press, Unnamed
    <2>3. CASE leaveWhiteboard(c)
      <3>1. BodyOK(Body("leaveWhiteboard"))
        BY DEF BodyOK, Body, ClientToServerCase
      <3>2. QED
        BY <2>3, <3>1 DEF leaveWhiteboard, Press, Unnamed
    <2>4. ASSUME NEW b \in Boards, joinWhiteboard(c, b)
          PROVE  \E body : /\ BodyOK(body) /\ PressAll(c, <<body>>)
                           /\ clientState[c].state \in Unnamed => body.case = "clientHello"
      <3>1. BodyOK(JoinBody(b))
        BY DEF BodyOK, JoinBody, ClientToServerCase
      <3>2. QED
        BY <2>4, <3>1 DEF joinWhiteboard, Press, Unnamed
    <2>5. ASSUME NEW x \in Clients, approveOrDenyUser(c, x)
          PROVE  \E body : /\ BodyOK(body) /\ PressAll(c, <<body>>)
                           /\ clientState[c].state \in Unnamed => body.case = "clientHello"
      <3>1. \A admit : BodyOK(DecisionBody(x, admit))
        BY DEF BodyOK, DecisionBody, ClientToServerCase
      <3>2. QED
        BY <2>5, <3>1 DEF approveOrDenyUser, Press, Unnamed
    <2>6. QED
      BY <2>1, <2>2, <2>3, <2>4, <2>5 DEF SessionAction
  <1>3. QED
    BY <1>0, <1>1, <1>2, OnePressKeepsMail

(* Changes of figures are made where a whiteboard is shown.                *)
LEMMA FigureBodyOK ==
  ASSUME NEW body, body.case \in FigureMessages
  PROVE  BodyOK(body)
  BY DEF BodyOK, FigureMessages, ClientToServerCase

LEMMA FigureActionIs ==
  ASSUME NEW c \in Clients, FigureAction(c)
  PROVE  /\ ShowsBoard(c)
         /\ \E body : body.case \in FigureMessages /\ ChangeOne(c, body)
  <1>1. \A n, position, text : NewNoteBody(n, position, text).case \in FigureMessages
    BY DEF NewNoteBody, FigureMessages
  <1>2. \A n, text : TextBody(n, text).case \in FigureMessages
    BY DEF TextBody, FigureMessages
  <1>3. \A n, position : /\ PositionBody(n, position).case \in FigureMessages
                         /\ NewImageBody(n, position).case \in FigureMessages
    BY DEF PositionBody, NewImageBody, FigureMessages
  <1>4. \A n : DeleteNoteBody(n).case \in FigureMessages
    BY DEF DeleteNoteBody, FigureMessages
  <1>5. CASE AddFigure(c)
    BY <1>1, <1>3, <1>5 DEF AddFigure, addNote, addImage
  <1>6. ASSUME NEW n \in NoteIds, ShowsBoard(c), changeNote(c, n)
        PROVE  ShowsBoard(c) /\ \E body : body.case \in FigureMessages /\ ChangeOne(c, body)
    BY <1>2, <1>3, <1>4, <1>6 DEF changeNote
  <1>7. QED
    BY <1>5, <1>6 DEF FigureAction

LEMMA FigureActionKeepsMail ==
  ASSUME BrowsersOK, NEW c \in Clients, FigureAction(c)
  PROVE  BrowsersOK' /\ UNCHANGED <<link, clientState>>
  <1>1. PICK body : body.case \in FigureMessages /\ ChangeOne(c, body)
    BY FigureActionIs
  <1>2. PressAll(c, <<body>>)
    BY <1>1 DEF ChangeOne, Change
  <1>3. clientState[c].state \notin Unnamed
    BY FigureActionIs DEF ShowsBoard, Unnamed
  <1>4. StoresOK'
    BY FigureActionKept DEF BrowsersOK
  <1>5. QED
    BY <1>1, <1>2, <1>3, <1>4, FigureBodyOK, OnePressKeepsMail

LEMMA AppKeepsMail ==
  ASSUME BrowsersOK, NEW c \in Clients, FigureAction(c) \/ AppStep(c)
  PROVE  BrowsersOK'
  BY FigureActionKeepsMail, ButtonsKeepMail, ConnectionKeepsMail, ReceiveKeepsMail,
     TimeOutKeepsMail, HandlingKeepsMail, SocketKeepsMail DEF AppStep

LEMMA InitMail == AppInit => BrowsersOK
  <1> SUFFICES ASSUME AppInit PROVE BrowsersOK
    OBVIOUS
  <1>1. StoresOK
    BY AppInitStores
  <1>2. Books
    BY InitBooks DEF AppInit, ClientInit
  <1>3. /\ link = [c \in Clients |-> "connecting"]
        /\ clientState = [c \in Clients |-> Screen("CONNECTING")]
        /\ handlers = [c \in Clients |-> {}]
        /\ toServer = [c \in Clients |-> <<>>] /\ toClient = [c \in Clients |-> <<>>]
    BY DEF AppInit, ClientInit, BrowsersAreNew
  <1>4. MailDomains
    BY <1>3 DEF MailDomains
  <1>5. ASSUME NEW c \in Clients PROVE BrowserOK(c)
    <2>1. UpOK({}, sent[c], <<>>) /\ DownOK(c, sent[c], <<>>) /\ WelcomeOK(c, {}, <<>>, fsm[c])
      BY OneIsList DEF UpOK, DownOK, WelcomeOK, Welcome
    <2>2. QED
      BY <1>3, <2>1 DEF BrowserOK, Mailbox, Unnamed, Screen, On
  <1>6. QED
    BY <1>1, <1>2, <1>4, <1>5 DEF BrowsersOK
-----------------------------------------------------------------------------
(* The pen.                                                                *)

(* What the context, the history and the cache of a browser name is known  *)
(* to its store; a line that is being drawn has an id that is in use.      *)
Has(store, l) == store.line[l] # NoTimeline
AllHave(store, marks) == \A l \in LineIds : marks[l] # {} => Has(store, l)

ContextOK(ctx, store, used) ==
  \/ ctx = IDLE
  \/ \E l \in LineIds \cap used : Has(store, l) /\ \E last, buffer : ctx = DRAWING(l, last, buffer)
  \/ \E last, buffer, modified :
       /\ ctx = ERASING(last, buffer, modified)
       /\ modified = [l \in LineIds |-> modified[l]] /\ AllHave(store, modified)
ActionOK(action, store) ==
  \/ \E l \in LineIds : action = DrawnLine(l) /\ Has(store, l)
  \/ \E modified : action = Erased(modified) /\ AllHave(store, modified)
HistoryOK(actions, store) ==
  IsSeq(actions) /\ \A k \in DOMAIN actions : ActionOK(actions[k], store)
CachedOK(shown, store) ==
  shown = [l \in LineIds |-> shown[l]] /\ AllHave(store, shown)

(* The pen is put away where no whiteboard is shown, but for a browser     *)
(* that has lost its connection.                                           *)
Prompted == Unnamed \cup {"NO_WHITEBOARD", "PENDING_APPROVAL"}
PutAway(c) == context[c] = IDLE /\ history[c] = <<>>
PenOK(c) ==
  /\ ContextOK(context[c], stores[c], taken)
  /\ HistoryOK(history[c], stores[c]) /\ CachedOK(cached[c], stores[c])
  /\ clientState[c].state \in Prompted => PutAway(c)
PenDomains ==
  /\ context = [c \in Clients |-> context[c]] /\ history = [c \in Clients |-> history[c]]
  /\ cached = [c \in Clients |-> cached[c]]
PensOK == BrowsersOK /\ PenDomains /\ \A c \in Clients : PenOK(c)

LEMMA ContextParts ==
  /\ IDLE.status = "IDLE"
  /\ \A l, last, buffer :
       LET ctx == DRAWING(l, last, buffer)
       IN  /\ ctx.status = "DRAWING" /\ ctx.line = l /\ ctx.last = last /\ ctx.buffer = buffer
           /\ ctx # IDLE
  /\ \A last, buffer, modified :
       LET ctx == ERASING(last, buffer, modified)
       IN  /\ ctx.status = "ERASING" /\ ctx.last = last /\ ctx.buffer = buffer
           /\ ctx.modified = modified /\ ctx # IDLE
  <1>1. IDLE.status = "IDLE"
    BY DEF IDLE
  <1>2. \A l, last, buffer :
          LET ctx == DRAWING(l, last, buffer)
          IN  ctx.status = "DRAWING" /\ ctx.line = l /\ ctx.last = last /\ ctx.buffer = buffer
    BY DEF DRAWING
  <1>3. \A last, buffer, modified :
          LET ctx == ERASING(last, buffer, modified)
          IN  /\ ctx.status = "ERASING" /\ ctx.last = last /\ ctx.buffer = buffer
              /\ ctx.modified = modified
    BY DEF ERASING
  <1>4. QED
    BY <1>1, <1>2, <1>3

LEMMA NothingIsKnown ==
  /\ \A store : CachedOK(NothingCached, store) /\ HistoryOK(<<>>, store)
  /\ \A store, used : ContextOK(IDLE, store, used)
  <1>1. \A l \in LineIds : NothingCached[l] = {}
    BY DEF NothingCached, Untouched
  <1>2. NothingCached = [l \in LineIds |-> NothingCached[l]]
    BY DEF NothingCached, Untouched
  <1>3. \A store : CachedOK(NothingCached, store)
    BY <1>1, <1>2 DEF CachedOK, AllHave
  <1>4. \A store : HistoryOK(<<>>, store)
    BY OneIsList DEF HistoryOK
  <1>5. QED
    BY <1>3, <1>4 DEF ContextOK

(* A store that knows more.                                                *)
LEMMA KnownStays ==
  ASSUME NEW store, NEW new, Keeps(store, new)
  PROVE  /\ \A l \in LineIds : Has(store, l) => Has(new, l)
         /\ \A marks : AllHave(store, marks) => AllHave(new, marks)
         /\ \A action : ActionOK(action, store) => ActionOK(action, new)
         /\ \A actions : HistoryOK(actions, store) => HistoryOK(actions, new)
         /\ \A shown : CachedOK(shown, store) => CachedOK(shown, new)
         /\ \A ctx, used, more :
              used \subseteq more /\ ContextOK(ctx, store, used) => ContextOK(ctx, new, more)
  <1>1. \A l \in LineIds : Has(store, l) => Has(new, l)
    BY Ids DEF Keeps, Kinds, Has
  <1>2. \A marks : AllHave(store, marks) => AllHave(new, marks)
    BY <1>1 DEF AllHave
  <1>3. \A action : ActionOK(action, store) => ActionOK(action, new)
    BY <1>1, <1>2 DEF ActionOK
  <1>4. \A actions : HistoryOK(actions, store) => HistoryOK(actions, new)
    BY <1>3 DEF HistoryOK
  <1>5. \A shown : CachedOK(shown, store) => CachedOK(shown, new)
    BY <1>2 DEF CachedOK
  <1>6. ASSUME NEW ctx, NEW used, NEW more, used \subseteq more, ContextOK(ctx, store, used)
        PROVE  ContextOK(ctx, new, more)
    BY <1>1, <1>2, <1>6 DEF ContextOK
  <1>7. QED
    BY <1>1, <1>2, <1>3, <1>4, <1>5, <1>6

(* Whoever neither draws nor erases has no context.                        *)
LEMMA ContextIs ==
  ASSUME NEW ctx, NEW store, NEW used, ContextOK(ctx, store, used)
  PROVE  /\ ctx.status \in {"IDLE", "DRAWING", "ERASING"}
         /\ ctx.status = "IDLE" => ctx = IDLE
         /\ ctx.status = "DRAWING" =>
              /\ ctx = DRAWING(ctx.line, ctx.last, ctx.buffer)
              /\ ctx.line \in LineIds /\ ctx.line \in used /\ Has(store, ctx.line)
         /\ ctx.status = "ERASING" =>
              /\ ctx = ERASING(ctx.last, ctx.buffer, ctx.modified)
              /\ ctx.modified = [l \in LineIds |-> ctx.modified[l]] /\ AllHave(store, ctx.modified)
  <1>1. CASE ctx = IDLE
    BY <1>1, ContextParts
  <1>2. ASSUME NEW l \in LineIds \cap used, Has(store, l), NEW last, NEW buffer,
               ctx = DRAWING(l, last, buffer)
        PROVE  /\ ctx.status = "DRAWING" /\ ctx = DRAWING(ctx.line, ctx.last, ctx.buffer)
               /\ ctx.line \in LineIds /\ ctx.line \in used /\ Has(store, ctx.line)
    BY <1>2, ContextParts
  <1>3. ASSUME NEW last, NEW buffer, NEW modified, ctx = ERASING(last, buffer, modified),
               modified = [l \in LineIds |-> modified[l]], AllHave(store, modified)
        PROVE  /\ ctx.status = "ERASING" /\ ctx = ERASING(ctx.last, ctx.buffer, ctx.modified)
               /\ ctx.modified = [l \in LineIds |-> ctx.modified[l]] /\ AllHave(store, ctx.modified)
    BY <1>3, ContextParts
  <1>4. QED
    BY <1>1, <1>2, <1>3 DEF ContextOK

(* Contexts with other fields.                                             *)
Moved(ctx, p, b)   == [ctx EXCEPT !.last = p, !.buffer = b]
Emptied(ctx, b)    == [ctx EXCEPT !.buffer = b]
Marked(ctx, b, w)  == [ctx EXCEPT !.buffer = b, !.modified = w]

LEMMA DrawingMoves ==
  ASSUME NEW l, NEW last, NEW buffer, NEW p, NEW b
  PROVE  LET ctx == DRAWING(l, last, buffer)
         IN  Emptied(ctx, b) = DRAWING(l, last, b) /\ Moved(ctx, p, b) = DRAWING(l, p, b)
  <1> DEFINE ctx == DRAWING(l, last, buffer)
             mid == [ctx EXCEPT !.last = p]
  <1>1. [ctx EXCEPT !.last = p, !.buffer = b] = [mid EXCEPT !.buffer = b]
    OBVIOUS
  <1>2. mid = DRAWING(l, p, buffer)
    BY DEF DRAWING
  <1>3. [ctx EXCEPT !.buffer = b] = DRAWING(l, last, b)
    BY DEF DRAWING
  <1> HIDE DEF ctx, mid
  <1>4. [mid EXCEPT !.buffer = b] = DRAWING(l, p, b)
    BY <1>2 DEF DRAWING
  <1>5. QED
    BY <1>1, <1>3, <1>4 DEF Moved, Emptied, ctx

LEMMA ErasingMoves ==
  ASSUME NEW last, NEW buffer, NEW modified, NEW p, NEW b, NEW w
  PROVE  LET ctx == ERASING(last, buffer, modified)
         IN  Moved(ctx, p, b) = ERASING(p, b, modified) /\ Marked(ctx, b, w) = ERASING(last, b, w)
  <1> DEFINE ctx == ERASING(last, buffer, modified)
             mid == [ctx EXCEPT !.last = p]
             low == [ctx EXCEPT !.buffer = b]
  <1>1. /\ [ctx EXCEPT !.last = p, !.buffer = b] = [mid EXCEPT !.buffer = b]
        /\ [ctx EXCEPT !.buffer = b, !.modified = w] = [low EXCEPT !.modified = w]
    OBVIOUS
  <1>2. mid = ERASING(p, buffer, modified) /\ low = ERASING(last, b, modified)
    BY DEF ERASING
  <1> HIDE DEF ctx, mid, low
  <1>3. [mid EXCEPT !.buffer = b] = ERASING(p, b, modified)
    BY <1>2 DEF ERASING
  <1>4. [low EXCEPT !.modified = w] = ERASING(last, b, w)
    BY <1>2 DEF ERASING
  <1>5. QED
    BY <1>1, <1>3, <1>4 DEF Moved, Marked, ctx

LEMMA DerivedOK ==
  ASSUME NEW ctx, NEW store, NEW used, ContextOK(ctx, store, used), NEW p
  PROVE  LET new == deriveStateFromNewPosition(ctx, p)
         IN  /\ ContextOK(new, store, used) /\ new.status = ctx.status
             /\ ctx.status = "DRAWING" => new.line = ctx.line /\ ctx.buffer \subseteq new.buffer
             /\ ctx.status = "IDLE" => new = ctx
  <1> DEFINE new == deriveStateFromNewPosition(ctx, p)
  <1>1. CASE ctx.status = "IDLE"
    BY <1>1 DEF deriveStateFromNewPosition
  <1>2. CASE ctx.status = "DRAWING"
    <2> DEFINE X == LinePoints[ctx.last, p]
    <2>1. ctx = DRAWING(ctx.line, ctx.last, ctx.buffer)
      BY <1>2, ContextIs
    <2>2. new = Moved(ctx, p, ctx.buffer \cup X)
      BY <1>2 DEF deriveStateFromNewPosition, Moved
    <2> HIDE DEF X, new
    <2>4. new = DRAWING(ctx.line, p, ctx.buffer \cup X)
      BY <2>1, <2>2, DrawingMoves
    <2>5. ctx.line \in LineIds \cap used /\ Has(store, ctx.line)
      BY <1>2, ContextIs
    <2>6. ContextOK(new, store, used)
      BY <2>4, <2>5 DEF ContextOK
    <2>7. new.status = "DRAWING" /\ new.line = ctx.line /\ ctx.buffer \subseteq new.buffer
      BY <2>4, ContextParts
    <2>8. QED
      BY <1>2, <2>6, <2>7 DEF new
  <1>3. CASE ctx.status = "ERASING"
    <2> DEFINE X == ErasePoints[ctx.last, p]
    <2>1. ctx = ERASING(ctx.last, ctx.buffer, ctx.modified)
      BY <1>3, ContextIs
    <2>2. new = Moved(ctx, p, ctx.buffer \cup X)
      BY <1>3 DEF deriveStateFromNewPosition, Moved
    <2> HIDE DEF X, new
    <2>4. new = ERASING(p, ctx.buffer \cup X, ctx.modified)
      BY <2>1, <2>2, ErasingMoves
    <2>5. ctx.modified = [l \in LineIds |-> ctx.modified[l]] /\ AllHave(store, ctx.modified)
      BY <1>3, ContextIs
    <2>6. ContextOK(new, store, used)
      BY <2>4, <2>5 DEF ContextOK
    <2>7. new.status = "ERASING"
      BY <2>4, ContextParts
    <2>8. QED
      BY <1>3, <2>6, <2>7 DEF new
  <1>4. QED
    BY <1>1, <1>2, <1>3, ContextIs

(* What the eraser meets has a timeline.                                   *)
LEMMA MetIsKnown ==
  ASSUME NEW c, CachedOK(cached[c], stores[c]), NEW ctx, NEW l \in LineIds, Met(c, ctx, l) # {}
  PROVE  Has(stores[c], l)
  <1>1. CASE cached[c][l] # {}
    BY <1>1 DEF CachedOK, AllHave
  <1>2. CASE cached[c][l] = {}
    <2>1. ShownLine(c, l) # NoFigure
      BY <1>2 DEF Met, EffectiveLine, Ink
    <2>2. QED
      BY <2>1, ShownIsKnown DEF ShownLine, Has
  <1>3. QED
    BY <1>1, <1>2

LEMMA FlushedOK ==
  ASSUME NEW c, CachedOK(cached[c], stores[c]), NEW ctx, NEW used,
         ContextOK(ctx, stores[c], used)
  PROVE  LET new == Flushed(c, ctx)
         IN  /\ ContextOK(new, stores[c], used) /\ new.status = ctx.status
             /\ ctx.status = "DRAWING" => new.line = ctx.line /\ new.buffer = {}
             /\ ctx.status = "IDLE" => new = ctx
  <1> DEFINE new == Flushed(c, ctx)
             store == stores[c]
  <1>1. CASE ctx.status = "IDLE"
    BY <1>1 DEF Flushed
  <1>2. CASE ctx.status = "DRAWING"
    <2>1. ctx = DRAWING(ctx.line, ctx.last, ctx.buffer)
      BY <1>2, ContextIs
    <2>2. new = Emptied(ctx, {})
      BY <1>2 DEF Flushed, Emptied
    <2> HIDE DEF new
    <2>4. new = DRAWING(ctx.line, ctx.last, {})
      BY <2>1, <2>2, DrawingMoves
    <2>5. ctx.line \in LineIds \cap used /\ Has(store, ctx.line)
      BY <1>2, ContextIs
    <2>6. ContextOK(new, store, used)
      BY <2>4, <2>5 DEF ContextOK
    <2>7. new.status = "DRAWING" /\ new.line = ctx.line /\ new.buffer = {}
      BY <2>4, ContextParts
    <2>8. QED
      BY <1>2, <2>6, <2>7 DEF new
  <1>3. CASE ctx.status = "ERASING"
    <2> DEFINE more == [l \in LineIds |-> ctx.modified[l] \cup Met(c, ctx, l)]
    <2>1. ctx = ERASING(ctx.last, ctx.buffer, ctx.modified)
      BY <1>3, ContextIs
    <2>2. new = Marked(ctx, {}, more)
      BY <1>3 DEF Flushed, Marked
    <2>3. more = [l \in LineIds |-> more[l]] /\ AllHave(store, more)
      <3>1. AllHave(store, ctx.modified)
        BY <1>3, ContextIs
      <3>2. ASSUME NEW l \in LineIds, more[l] # {} PROVE Has(store, l)
        <4>1. CASE ctx.modified[l] # {}
          BY <3>1, <4>1 DEF AllHave
        <4>2. CASE ctx.modified[l] = {}
          <5>1. Met(c, ctx, l) # {}
            BY <3>2, <4>2
          <5>2. QED
            BY <5>1, MetIsKnown
        <4>3. QED
          BY <4>1, <4>2
      <3>3. QED
        BY <3>2 DEF AllHave
    <2> HIDE DEF new, more
    <2>5. new = ERASING(ctx.last, {}, more)
      BY <2>1, <2>2, ErasingMoves
    <2>6. ContextOK(new, store, used)
      BY <2>3, <2>5 DEF ContextOK
    <2>7. new.status = "ERASING"
      BY <2>5, ContextParts
    <2>8. QED
      BY <1>3, <2>6, <2>7 DEF new
  <1>4. QED
    BY <1>1, <1>2, <1>3, ContextIs

(* What a change of lines does to its browser.                             *)
Drew(c) ==
  /\ BrowsersOK' /\ Keeps(stores[c], stores'[c]) /\ UNCHANGED <<clientState, taken>>
  /\ \A x \in Clients : x # c => stores'[x] = stores[x]
Caches(c) ==
  /\ cached' = [x \in Clients |-> cached'[x]]
  /\ \A x \in Clients : x # c => cached'[x] = cached[x]
  /\ CachedOK(cached'[c], stores'[c])

LEMMA BrowsersStay ==
  ASSUME BrowsersOK, UNCHANGED appVars
  PROVE  BrowsersOK'
  <1>1. UNCHANGED <<link, clientState, handlers, sent, toServer, toClient, fsm, socket, boardVars, stores>>
    BY DEF appVars, clientVars, sessionVars, browserVars, channelVars
  <1>2. StoresOK'
    BY <1>1, StoresStay DEF BrowsersOK, SameStores
  <1>3. Books'
    BY <1>1, QuietKeepsBooks DEF BrowsersOK, Books, StateTypes
  <1>4. MailDomains'
    BY <1>1 DEF BrowsersOK, MailDomains
  <1>5. \A x \in Clients : BrowserOK(x)'
    BY <1>1 DEF BrowsersOK, BrowserOK
  <1>6. QED
    BY <1>2, <1>3, <1>4, <1>5 DEF BrowsersOK

LEMMA LineBodyOK ==
  ASSUME NEW store, NEW body, body.id \in LineIds,
         \/ body.case = "createLine"
         \/ /\ body.case \in {"addPointsToLine", "removePointsFromLine", "deleteLine"}
            /\ Has(store, body.id)
  PROVE  Patchable(store, body) /\ BodyOK(body)
  <1>1. body.case \in FigureMessages
    BY DEF FigureMessages
  <1>2. StoreOf(body) = "line"
    BY DEF StoreOf
  <1>3. QED
    BY <1>1, <1>2, FigureBodyOK, Ids DEF Patchable, HasTimeline, Has, Creates, Kinds

LEMMA ChangeDraws ==
  ASSUME BrowsersOK, NEW c \in Clients, NEW bodies, NEW diffs, NEW k \in Nat,
         DOMAIN bodies = 1..k, Len(bodies) = k,
         \A i \in 1..k : Patchable(stores[c], bodies[i]) /\ BodyOK(bodies[i]),
         clientState[c].state \notin Unnamed, Change(c, bodies, diffs)
  PROVE  /\ BrowsersOK' /\ Keeps(stores[c], stores'[c]) /\ UNCHANGED clientState
         /\ \A x \in Clients : x # c => stores'[x] = stores[x]
  <1>1. StoresOK' /\ Keeps(stores[c], stores'[c]) /\ \A x \in Clients : x # c => stores'[x] = stores[x]
    BY ChangeKept DEF BrowsersOK
  <1>2. PressAll(c, bodies)
    BY DEF Change
  <1>3. QED
    BY <1>1, <1>2, PressKeepsMail

LEMMA ChangeLinesDraws ==
  ASSUME BrowsersOK, PenDomains, NEW c \in Clients, CachedOK(cached[c], stores[c]),
         NEW bodies, NEW diffs, NEW k \in Nat, DOMAIN bodies = 1..k, Len(bodies) = k,
         \A i \in 1..k : Patchable(stores[c], bodies[i]) /\ BodyOK(bodies[i]),
         clientState[c].state \notin Unnamed, ChangeLines(c, bodies, diffs)
  PROVE  Drew(c) /\ Caches(c)
  <1>1. CASE bodies = <<>>
    <2>1. UNCHANGED <<appVars, cached>>
      BY <1>1 DEF ChangeLines
    <2>2. UNCHANGED <<clientState, stores, taken, cached>>
      BY <2>1 DEF appVars, clientVars, browserVars
    <2>3. QED
      BY <2>1, <2>2, BrowsersStay DEF Drew, Caches, PenDomains, Keeps
  <1>2. CASE bodies # <<>>
    <2>1. /\ Change(c, bodies, diffs) /\ UNCHANGED taken
          /\ cached' = [cached EXCEPT ![c] = NothingCached]
      BY <1>2 DEF ChangeLines
    <2>2. Drew(c)
      BY <2>1, ChangeDraws DEF Drew
    <2>3. Caches(c)
      BY <2>1, NothingIsKnown DEF Caches, PenDomains
    <2>4. QED
      BY <2>2, <2>3
  <1>3. QED
    BY <1>1, <1>2

(* A request for each of some lines that are known, in any order.          *)
LEMMA ForEachLine ==
  ASSUME BrowsersOK, PenDomains, NEW c \in Clients, CachedOK(cached[c], stores[c]),
         clientState[c].state \notin Unnamed,
         NEW some \in SUBSET LineIds, \A l \in some : Has(stores[c], l),
         NEW order \in SetToSeqs(some),
         NEW case \in {"addPointsToLine", "removePointsFromLine"}, NEW points, NEW diffs,
         ChangeLines(c, [i \in DOMAIN order |-> PointsBody(case, order[i], points[i])], diffs)
  PROVE  Drew(c) /\ Caches(c)
  <1> DEFINE bodies == [i \in DOMAIN order |-> PointsBody(case, order[i], points[i])]
  <1>1. IsFiniteSet(some)
    BY AppAssumption, FS_Subset
  <1>2. PICK n \in Nat : order \in [1..n -> some] /\ DOMAIN order = 1..n
    BY <1>1, OrderIs
  <1>3. bodies = [i \in 1..n |-> bodies[i]] /\ DOMAIN bodies = 1..n
    BY <1>2
  <1>4. ASSUME NEW i \in 1..n PROVE Patchable(stores[c], bodies[i]) /\ BodyOK(bodies[i])
    <2>1. bodies[i] = PointsBody(case, order[i], points[i]) /\ order[i] \in some
      BY <1>2, <1>4
    <2> DEFINE body == bodies[i]
    <2>2. body.id = order[i] /\ body.case = case
      BY <2>1 DEF PointsBody
    <2> HIDE DEF bodies, body
    <2>3. body.id \in LineIds /\ Has(stores[c], body.id)
      BY <2>1, <2>2
    <2>4. Patchable(stores[c], body) /\ BodyOK(body)
      BY <2>2, <2>3, LineBodyOK
    <2>5. QED
      BY <2>4 DEF body
  <1>5. ChangeLines(c, bodies, diffs)
    OBVIOUS
  <1> HIDE DEF bodies
  <1>6. Len(bodies) = n
    BY <1>3, ListIsSeq
  <1>7. QED
    BY <1>3, <1>4, <1>5, <1>6, ChangeLinesDraws

LEMMA OneLineDraws ==
  ASSUME BrowsersOK, NEW c \in Clients, NEW body, Patchable(stores[c], body), BodyOK(body),
         clientState[c].state \notin Unnamed, NEW diffs, Change(c, <<body>>, diffs)
  PROVE  /\ BrowsersOK' /\ Keeps(stores[c], stores'[c]) /\ UNCHANGED clientState
         /\ \A x \in Clients : x # c => stores'[x] = stores[x]
  <1> DEFINE bodies == <<body>>
  <1>1. DOMAIN bodies = 1..1 /\ Len(bodies) = 1 /\ 1 \in Nat /\ \A i \in 1..1 : bodies[i] = body
    OBVIOUS
  <1>2. Change(c, bodies, diffs)
    OBVIOUS
  <1> HIDE DEF bodies
  <1>3. QED
    BY <1>1, <1>2, ChangeDraws

(* A flush.                                                                *)
LEMMA FlushDraws ==
  ASSUME BrowsersOK, PenDomains, NEW c \in Clients, CachedOK(cached[c], stores[c]), NEW ctx,
         ContextOK(ctx, stores[c], taken), ctx = IDLE \/ clientState[c].state \notin Unnamed,
         flush(c, ctx)
  PROVE  Drew(c) /\ Caches(c)
  <1>1. CASE ctx.status = "IDLE" /\ UNCHANGED <<appVars, cached>>
    <2>1. UNCHANGED <<clientState, stores, taken, cached>>
      BY <1>1 DEF appVars, clientVars, browserVars
    <2>2. QED
      BY <1>1, <2>1, BrowsersStay DEF Drew, Caches, PenDomains, Keeps
  <1>2. CASE FlushDrawing(c, ctx)
    <2> DEFINE body == PointsBody("addPointsToLine", ctx.line, G!lineToMessage(ctx.buffer))
    <2>1. ctx.status = "DRAWING" /\ Change(c, <<body>>, <<T!AddPoints({})>>) /\ UNCHANGED taken
      BY <1>2 DEF FlushDrawing
    <2>2. PICK shown : cached' = [cached EXCEPT ![c] = [NothingCached EXCEPT ![ctx.line] = shown]]
      BY <1>2 DEF FlushDrawing
    <2>3. ctx.line \in LineIds /\ Has(stores[c], ctx.line)
      BY <2>1, ContextIs
    <2>4. body.id = ctx.line /\ body.case = "addPointsToLine"
      BY DEF PointsBody
    <2> HIDE DEF body
    <2>5. Patchable(stores[c], body) /\ BodyOK(body)
      BY <2>3, <2>4, LineBodyOK
    <2>6. ctx # IDLE
      BY <2>1, ContextParts
    <2>7. Drew(c)
      BY <2>1, <2>5, <2>6, OneLineDraws DEF Drew
    <2>8. CachedOK([NothingCached EXCEPT ![ctx.line] = shown], stores[c])
      <3> DEFINE new == [NothingCached EXCEPT ![ctx.line] = shown]
      <3>1. new = [l \in LineIds |-> new[l]]
        BY DEF NothingCached, Untouched
      <3>2. \A l \in LineIds : new[l] # {} => l = ctx.line
        BY DEF NothingCached, Untouched
      <3> HIDE DEF new
      <3>3. CachedOK(new, stores[c])
        BY <2>3, <3>1, <3>2 DEF CachedOK, AllHave
      <3>4. QED
        BY <3>3 DEF new
    <2>9. CachedOK([NothingCached EXCEPT ![ctx.line] = shown], stores'[c])
      BY <2>7, <2>8, KnownStays DEF Drew
    <2>10. Caches(c)
      BY <2>2, <2>9 DEF Caches, PenDomains
    <2>11. QED
      BY <2>7, <2>10
  <1>3. CASE FlushErasing(c, ctx)
    <2> DEFINE some == {l \in LineIds : Met(c, ctx, l) # {}}
    <2>1. PICK order \in SetToSeqs(some) :
            ChangeLines(c,
              [i \in DOMAIN order |-> PointsBody("removePointsFromLine", order[i],
                                                 G!lineToMessage(Met(c, ctx, order[i])))],
              [i \in DOMAIN order |-> T!RemovePoints(Met(c, ctx, order[i]))])
      BY <1>3 DEF FlushErasing
    <2> DEFINE points == [i \in DOMAIN order |-> G!lineToMessage(Met(c, ctx, order[i]))]
               diffs == [i \in DOMAIN order |-> T!RemovePoints(Met(c, ctx, order[i]))]
    <2>2. [i \in DOMAIN order |-> PointsBody("removePointsFromLine", order[i],
                                             G!lineToMessage(Met(c, ctx, order[i])))]
            = [i \in DOMAIN order |-> PointsBody("removePointsFromLine", order[i], points[i])]
      OBVIOUS
    <2>3. ChangeLines(c, [i \in DOMAIN order |->
                            PointsBody("removePointsFromLine", order[i], points[i])], diffs)
      BY <2>1, <2>2
    <2>4. ctx # IDLE
      BY <1>3, ContextParts DEF FlushErasing
    <2>5. \A l \in some : Has(stores[c], l)
      BY MetIsKnown
    <2>6. some \in SUBSET LineIds /\ clientState[c].state \notin Unnamed
      BY <2>4
    <2> HIDE DEF some, points, diffs
    <2>7. QED
      BY <2>3, <2>5, <2>6, ForEachLine
  <1>4. QED
    BY <1>1, <1>2, <1>3 DEF flush

(* A step of one pen.                                                      *)
OthersRest(c) ==
  \A x \in Clients : x # c =>
    /\ stores'[x] = stores[x] /\ clientState'[x] = clientState[x] /\ cached'[x] = cached[x]
    /\ context'[x] = context[x] /\ history'[x] = history[x]

LEMMA OnePen ==
  ASSUME PensOK, NEW c \in Clients, BrowsersOK', PenDomains', taken \subseteq taken',
         OthersRest(c), PenOK(c)'
  PROVE  PensOK'
  <1>1. ASSUME NEW x \in Clients, x # c PROVE PenOK(x)'
    <2>1. PenOK(x) /\ Keeps(stores[x], stores[x])
      BY DEF PensOK, Keeps
    <2>2. ContextOK(context[x], stores[x], taken')
      BY <2>1, KnownStays DEF PenOK
    <2>3. QED
      BY <1>1, <2>1, <2>2 DEF PenOK, OthersRest, PutAway
  <1>2. QED
    BY <1>1 DEF PensOK

LEMMA BoardIsShown ==
  ASSUME NEW c, ShowsBoard(c)
  PROVE  clientState[c].state \notin Prompted /\ clientState[c].state \notin Unnamed
  BY DEF ShowsBoard, Prompted, Unnamed

(* What a pen step leaves to show.                                         *)
LEMMA PenIsOK ==
  ASSUME PensOK, NEW c \in Clients, BrowsersOK', Keeps(stores[c], stores'[c]), UNCHANGED clientState,
         taken \subseteq taken', \A x \in Clients : x # c => stores'[x] = stores[x],
         Caches(c), NEW ctx, context' = [context EXCEPT ![c] = ctx],
         ContextOK(ctx, stores'[c], taken'),
         NEW actions, history' = [history EXCEPT ![c] = actions], HistoryOK(actions, stores'[c]),
         \/ clientState[c].state \notin Prompted
         \/ ctx = IDLE /\ actions = <<>>
  PROVE  PensOK'
  <1>1. /\ context'[c] = ctx /\ history'[c] = actions
        /\ \A x \in Clients : x # c => context'[x] = context[x] /\ history'[x] = history[x]
        /\ PenDomains'
    BY DEF PensOK, PenDomains, Caches
  <1>2. OthersRest(c)
    BY <1>1 DEF OthersRest, Caches
  <1>3. PenOK(c)'
    BY <1>1 DEF PenOK, PutAway, Caches
  <1>4. QED
    BY <1>1, <1>2, <1>3, OnePen

LEMMA EraseDownKeepsPens ==
  ASSUME PensOK, NEW c \in Clients, NEW p, EraseDown(c, p)
  PROVE  PensOK'
  <1>1. /\ ShowsBoard(c) /\ context' = [context EXCEPT ![c] = ERASING(p, {p}, Untouched)]
        /\ UNCHANGED <<appVars, history, cached>>
    BY DEF EraseDown
  <1>2. UNCHANGED <<clientState, stores, taken, cached, history>>
    BY <1>1 DEF appVars, clientVars, browserVars
  <1>3. BrowsersOK'
    BY <1>1, BrowsersStay DEF PensOK
  <1>4. ContextOK(ERASING(p, {p}, Untouched), stores[c], taken)
    <2>1. Untouched = [l \in LineIds |-> Untouched[l]] /\ AllHave(stores[c], Untouched)
      BY DEF Untouched, AllHave
    <2>2. QED
      BY <2>1 DEF ContextOK
  <1>5. history' = [history EXCEPT ![c] = history[c]] /\ Caches(c) /\ Keeps(stores[c], stores'[c])
    BY <1>2 DEF PensOK, PenDomains, PenOK, Caches, Keeps
  <1>6. HistoryOK(history[c], stores'[c])
    BY <1>2 DEF PensOK, PenOK
  <1>7. QED
    BY <1>1, <1>2, <1>3, <1>4, <1>5, <1>6, PenIsOK, BoardIsShown

(* A line that is created is known.                                        *)
LEMMA CreatedIsKnown ==
  ASSUME StoresOK, NEW c \in Clients, NEW l \in LineIds, NEW points, NEW diff,
         Change(c, <<PointsBody("createLine", l, points)>>, <<diff>>)
  PROVE  Has(stores'[c], l)
  <1> DEFINE body == PointsBody("createLine", l, points)
             bodies == <<body>>
             diffs == <<diff>>
             id == sent[c] + 1
             store == stores[c]
  <1>1. stores'[c] = PatchedAll(store, sent[c], bodies, diffs)
    BY DEF Change, StoresOK
  <1>2. DOMAIN bodies = 1..1 /\ bodies[1] = body /\ diffs[1] = diff /\ 1 \in Nat
    OBVIOUS
  <1>3. body.case = "createLine" /\ body.id = l
    BY DEF PointsBody
  <1> HIDE DEF bodies, diffs, body
  <1>4. PICK g : /\ g[0] = store
                 /\ \A n \in Nat : n < 1 =>
                      g[n + 1] = Patched(g[n], sent[c] + (n + 1), bodies[n + 1], diffs[n + 1])
                 /\ PatchedAll(store, sent[c], bodies, diffs) = g[1]
    <2>1. PICK k \in Nat : k = 1
      OBVIOUS
    <2>2. DOMAIN bodies = 1..k
      BY <1>2, <2>1
    <2>3. \E g : /\ g[0] = store
                 /\ \A n \in Nat : n < k =>
                      g[n + 1] = Patched(g[n], sent[c] + (n + 1), bodies[n + 1], diffs[n + 1])
                 /\ PatchedAll(store, sent[c], bodies, diffs) = g[k]
      BY ONLY PatchedByStep, k \in Nat, <2>2
    <2>4. QED
      BY <2>1, <2>3
  <1>5. g[1] = Patched(store, id, body, diff)
    <2>1. g[0 + 1] = Patched(g[0], sent[c] + (0 + 1), bodies[0 + 1], diffs[0 + 1])
      BY <1>4
    <2>2. QED
      BY <1>2, <1>4, <2>1
  <1> DEFINE value == T!newLocalTimeline(id, diff)
  <1>6. Patched(store, id, body, diff) = Put(store, "line", l, value)
    BY <1>3 DEF Patched, Put, StoreOf, Creates
  <1>7. value # NoTimeline
    <2>1. Timeline(value, {id})
      BY NewTimelines
    <2>2. QED
      BY <2>1, TimelineIsThere
  <1>8. StoreShape(store)
    BY DEF StoresOK, StoreOK
  <1> HIDE DEF value, store
  <1>9. Put(store, "line", l, value)["line"][l] = value
    BY <1>8, EntryIs, Ids DEF Kinds
  <1>10. QED
    BY <1>1, <1>4, <1>5, <1>6, <1>7, <1>9 DEF Has

LEMMA DrawDownKeepsPens ==
  ASSUME PensOK, NEW c \in Clients, NEW l \in LineIds, NEW p, DrawDown(c, l, p)
  PROVE  PensOK'
  <1> DEFINE body == PointsBody("createLine", l, {p})
  <1>1. /\ ShowsBoard(c) /\ Invent(l)
        /\ Change(c, <<body>>, <<T!AddPoints({p})>>)
        /\ context' = [context EXCEPT ![c] = DRAWING(l, p, {p})]
        /\ cached'  = [cached EXCEPT ![c] = NothingCached]
        /\ UNCHANGED history
    BY DEF DrawDown
  <1>2. BrowsersOK /\ StoresOK /\ PenDomains /\ PenOK(c)
    BY DEF PensOK, BrowsersOK
  <1>3. Has(stores'[c], l)
    BY <1>1, <1>2, CreatedIsKnown
  <1>4. body.id = l /\ body.case = "createLine"
    BY DEF PointsBody
  <1> HIDE DEF body
  <1>5. Patchable(stores[c], body) /\ BodyOK(body)
    BY <1>4, LineBodyOK
  <1>6. /\ BrowsersOK' /\ Keeps(stores[c], stores'[c]) /\ UNCHANGED clientState
        /\ \A x \in Clients : x # c => stores'[x] = stores[x]
    BY <1>1, <1>2, <1>5, OneLineDraws, BoardIsShown
  <1>7. taken' = taken \cup {l}
    BY <1>1 DEF Invent
  <1>8. ContextOK(DRAWING(l, p, {p}), stores'[c], taken')
    BY <1>3, <1>7 DEF ContextOK
  <1>9. history' = [history EXCEPT ![c] = history[c]] /\ Caches(c)
    BY <1>1, <1>2, NothingIsKnown DEF PenDomains, Caches
  <1>10. HistoryOK(history[c], stores'[c])
    BY <1>2, <1>6, KnownStays DEF PenOK
  <1>11. QED
    BY <1>1, <1>6, <1>7, <1>8, <1>9, <1>10, PenIsOK, BoardIsShown

(* Strokes that are over.                                                  *)
LEMMA FinishedOK ==
  ASSUME NEW ctx, NEW store, NEW used, ContextOK(ctx, store, used)
  PROVE  HistoryOK(Finished(ctx), store)
  <1>1. ASSUME NEW a, ActionOK(a, store) PROVE HistoryOK(<<a>>, store)
    BY <1>1, OneIsList DEF HistoryOK
  <1>2. CASE ctx.status = "IDLE"
    BY <1>2, NothingIsKnown DEF Finished
  <1>3. CASE ctx.status = "DRAWING"
    <2>1. ActionOK(DrawnLine(ctx.line), store)
      BY <1>3, ContextIs DEF ActionOK
    <2>2. QED
      BY <1>1, <1>3, <2>1 DEF Finished
  <1>4. CASE ctx.status = "ERASING"
    <2>1. ActionOK(Erased(ctx.modified), store)
      BY <1>4, ContextIs DEF ActionOK
    <2>2. QED
      BY <1>1, <1>4, <2>1 DEF Finished
  <1>5. QED
    BY <1>2, <1>3, <1>4, ContextIs

LEMMA HistoryGrows ==
  ASSUME NEW s, NEW t, NEW store, HistoryOK(s, store), HistoryOK(t, store)
  PROVE  HistoryOK(s \o t, store)
  <1> DEFINE all == s \o t
  <1>1. /\ IsSeq(all)
        /\ \A i \in DOMAIN all :
             \/ i \in DOMAIN s /\ all[i] = s[i]
             \/ i - Len(s) \in DOMAIN t /\ all[i] = t[i - Len(s)]
    BY ConcatIs DEF HistoryOK
  <1> HIDE DEF all
  <1>2. HistoryOK(all, store)
    BY <1>1 DEF HistoryOK
  <1>3. QED
    BY <1>2 DEF all

LEMMA HistoryParts ==
  ASSUME NEW s, NEW store, HistoryOK(s, store), s # <<>>
  PROVE  ActionOK(Last(s), store) /\ HistoryOK(Front(s), store)
  <1>1. PICK S : s \in Seq(S)
    BY DEF HistoryOK, IsSeq
  <1>2. Len(s) \in DOMAIN s /\ DOMAIN s = 1..Len(s) /\ Len(s) \in Nat
    BY <1>1
  <1>3. ActionOK(s[Len(s)], store)
    BY <1>2 DEF HistoryOK
  <1>4. /\ SubSeq(s, 1, Len(s) - 1) \in Seq(S) /\ Len(SubSeq(s, 1, Len(s) - 1)) = Len(s) - 1
        /\ \A i \in 1..(Len(s) - 1) : SubSeq(s, 1, Len(s) - 1)[i] = s[i]
    BY <1>1, <1>2
  <1>5. DOMAIN SubSeq(s, 1, Len(s) - 1) = 1..(Len(s) - 1)
    BY <1>4
  <1>6. Front(s) = SubSeq(s, 1, Len(s) - 1) /\ Last(s) = s[Len(s)]
    BY DEF Front, Last
  <1>7. \A i \in 1..(Len(s) - 1) : ActionOK(s[i], store)
    BY <1>2 DEF HistoryOK
  <1>8. IsSeq(Front(s))
    BY <1>4, <1>6 DEF IsSeq
  <1>9. QED
    BY <1>3, <1>4, <1>5, <1>6, <1>7, <1>8 DEF HistoryOK

(* The pointer moves or is released, or the timer of throttle runs out.    *)
LEMMA FlushKeepsPens ==
  ASSUME PensOK, NEW c \in Clients, NEW ctx, ContextOK(ctx, stores[c], taken),
         ctx = IDLE \/ clientState[c].state \notin Prompted, flush(c, ctx),
         NEW new, new \in {Flushed(c, ctx), IDLE}, context' = [context EXCEPT ![c] = new],
         NEW actions, history' = [history EXCEPT ![c] = actions], HistoryOK(actions, stores[c]),
         \/ clientState[c].state \notin Prompted
         \/ actions = <<>>
  PROVE  PensOK'
  <1>1. BrowsersOK /\ PenDomains /\ CachedOK(cached[c], stores[c])
    BY DEF PensOK, PenOK
  <1>2. ctx = IDLE \/ clientState[c].state \notin Unnamed
    BY DEF Prompted
  <1>3. Drew(c) /\ Caches(c)
    BY <1>1, <1>2, FlushDraws
  <1>4. ContextOK(new, stores[c], taken)
    BY <1>1, FlushedOK, NothingIsKnown
  <1>5. ContextOK(new, stores'[c], taken') /\ HistoryOK(actions, stores'[c]) /\ taken \subseteq taken'
    BY <1>3, <1>4, KnownStays DEF Drew
  <1>6. clientState[c].state \notin Prompted \/ (new = IDLE /\ actions = <<>>)
    <2>1. ASSUME ctx = IDLE PROVE Flushed(c, ctx) = IDLE
      <3>1. ctx.status = "IDLE"
        BY <2>1, ContextParts
      <3>2. QED
        BY <1>1, <2>1, <3>1, FlushedOK
    <2>2. CASE clientState[c].state \in Prompted
      <3>1. ctx = IDLE /\ actions = <<>>
        BY <2>2
      <3>2. new = IDLE
        BY <2>1, <3>1
      <3>3. QED
        BY <3>1, <3>2
    <2>3. QED
      BY <2>2
  <1>7. /\ BrowsersOK' /\ Keeps(stores[c], stores'[c]) /\ UNCHANGED clientState
        /\ \A x \in Clients : x # c => stores'[x] = stores[x]
    BY <1>3 DEF Drew
  <1>8. QED
    BY <1>3, <1>5, <1>6, <1>7, PenIsOK

LEMMA MoveKeepsPens ==
  ASSUME PensOK, NEW c \in Clients, NEW p, onPointerMove(c, p)
  PROVE  PensOK'
  <1> DEFINE ctx == deriveStateFromNewPosition(context[c], p)
  <1>1. ShowsBoard(c) /\ UNCHANGED history
    BY DEF onPointerMove
  <1>2. /\ BrowsersOK /\ PenDomains /\ PenOK(c)
        /\ clientState[c].state \notin Prompted
        /\ history' = [history EXCEPT ![c] = history[c]] /\ HistoryOK(history[c], stores[c])
    BY <1>1, BoardIsShown DEF PensOK, PenDomains, PenOK
  <1>3. ContextOK(ctx, stores[c], taken)
    BY <1>2, DerivedOK DEF PenOK
  <1>4. \/ flush(c, ctx) /\ context' = [context EXCEPT ![c] = Flushed(c, ctx)]
        \/ context' = [context EXCEPT ![c] = ctx] /\ UNCHANGED <<appVars, cached>>
    BY DEF onPointerMove
  <1> HIDE DEF ctx
  <1>5. CASE flush(c, ctx) /\ context' = [context EXCEPT ![c] = Flushed(c, ctx)]
    BY <1>2, <1>3, <1>5, FlushKeepsPens
  <1>6. CASE context' = [context EXCEPT ![c] = ctx] /\ UNCHANGED <<appVars, cached>>
    <2>1. UNCHANGED <<clientState, stores, taken, cached>>
      BY <1>6 DEF appVars, clientVars, browserVars
    <2>2. BrowsersOK'
      BY <1>2, <1>6, BrowsersStay
    <2>3. Caches(c) /\ Keeps(stores[c], stores'[c])
      BY <1>2, <2>1 DEF PenDomains, PenOK, Caches, Keeps
    <2>4. HistoryOK(history[c], stores'[c]) /\ ContextOK(ctx, stores'[c], taken')
      BY <1>2, <1>3, <2>1
    <2>5. QED
      BY <1>2, <1>6, <2>1, <2>2, <2>3, <2>4, PenIsOK
  <1>7. QED
    BY <1>4, <1>5, <1>6

LEMMA UpKeepsPens ==
  ASSUME PensOK, NEW c \in Clients, NEW p, onPointerUp(c, p)
  PROVE  PensOK'
  <1> DEFINE ctx == deriveStateFromNewPosition(context[c], p)
             done == history[c] \o Finished(Flushed(c, ctx))
  <1>1. /\ ShowsBoard(c) /\ flush(c, ctx)
        /\ history' = [history EXCEPT ![c] = @ \o Finished(Flushed(c, ctx))]
        /\ context' = [context EXCEPT ![c] = IDLE]
    BY DEF onPointerUp
  <1>2. /\ BrowsersOK /\ PenDomains /\ PenOK(c) /\ clientState[c].state \notin Prompted
        /\ HistoryOK(history[c], stores[c]) /\ CachedOK(cached[c], stores[c])
    BY <1>1, BoardIsShown DEF PensOK, PenOK
  <1>3. ContextOK(ctx, stores[c], taken)
    BY <1>2, DerivedOK DEF PenOK
  <1>4. HistoryOK(done, stores[c])
    <2>1. ContextOK(Flushed(c, ctx), stores[c], taken)
      BY <1>2, <1>3, FlushedOK
    <2>2. HistoryOK(Finished(Flushed(c, ctx)), stores[c])
      BY <2>1, FinishedOK
    <2>3. QED
      BY <1>2, <2>2, HistoryGrows
  <1>5. history' = [history EXCEPT ![c] = done]
    BY <1>1, <1>2 DEF PenDomains
  <1> HIDE DEF ctx, done
  <1>6. QED
    BY <1>1, <1>2, <1>3, <1>4, <1>5, FlushKeepsPens

LEMMA TimerKeepsPens ==
  ASSUME PensOK, NEW c \in Clients, ThrottleTimer(c)
  PROVE  PensOK'
  <1>1. /\ flush(c, context[c]) /\ UNCHANGED history
        /\ context' = [context EXCEPT ![c] = Flushed(c, context[c])]
    BY DEF ThrottleTimer
  <1>2. /\ PenDomains /\ ContextOK(context[c], stores[c], taken)
        /\ HistoryOK(history[c], stores[c])
        /\ clientState[c].state \in Prompted => context[c] = IDLE /\ history[c] = <<>>
    BY DEF PensOK, PenOK, PutAway
  <1>3. history' = [history EXCEPT ![c] = history[c]]
    BY <1>1, <1>2 DEF PenDomains
  <1>4. QED
    BY <1>1, <1>2, <1>3, FlushKeepsPens

(* The undo button.                                                        *)
LEMMA undoDraws ==
  ASSUME BrowsersOK, PenDomains, NEW c \in Clients, CachedOK(cached[c], stores[c]),
         clientState[c].state \notin Unnamed, NEW action, ActionOK(action, stores[c]),
         undoDraw(c, action) \/ undoErase(c, action)
  PROVE  Drew(c) /\ Caches(c)
  <1>1. CASE undoDraw(c, action)
    <2> DEFINE body == DeleteLineBody(action.line)
               bodies == <<body>>
    <2>1. action.type = "DRAWN_LINE" /\ ChangeLines(c, bodies, <<T!LineDeletion>>)
      BY <1>1 DEF undoDraw
    <2>2. \A modified : Erased(modified).type = "ERASED"
      BY DEF Erased
    <2>3. PICK l \in LineIds : action = DrawnLine(l) /\ Has(stores[c], l)
      BY <2>1, <2>2 DEF ActionOK
    <2>4. body.id = l /\ body.case = "deleteLine"
      BY <2>3 DEF DeleteLineBody, DrawnLine
    <2>5. DOMAIN bodies = 1..1 /\ Len(bodies) = 1 /\ 1 \in Nat /\ \A i \in 1..1 : bodies[i] = body
      OBVIOUS
    <2> HIDE DEF body, bodies
    <2>6. Patchable(stores[c], body) /\ BodyOK(body)
      BY <2>3, <2>4, LineBodyOK
    <2>7. QED
      BY <2>1, <2>5, <2>6, ChangeLinesDraws
  <1>2. CASE undoErase(c, action)
    <2> DEFINE some == {l \in LineIds : action.lines[l] # {}}
    <2>1. /\ action.type = "ERASED"
          /\ \E order \in SetToSeqs(some) :
               ChangeLines(c,
                 [i \in DOMAIN order |-> PointsBody("addPointsToLine", order[i],
                                                    G!lineToMessage(action.lines[order[i]]))],
                 [i \in DOMAIN order |-> T!AddPoints(action.lines[order[i]])])
      BY <1>2 DEF undoErase
    <2>2. PICK order \in SetToSeqs(some) :
               ChangeLines(c,
                 [i \in DOMAIN order |-> PointsBody("addPointsToLine", order[i],
                                                    G!lineToMessage(action.lines[order[i]]))],
                 [i \in DOMAIN order |-> T!AddPoints(action.lines[order[i]])])
      BY <2>1
    <2> DEFINE points == [i \in DOMAIN order |-> G!lineToMessage(action.lines[order[i]])]
               diffs == [i \in DOMAIN order |-> T!AddPoints(action.lines[order[i]])]
    <2>3. [i \in DOMAIN order |-> PointsBody("addPointsToLine", order[i],
                                             G!lineToMessage(action.lines[order[i]]))]
            = [i \in DOMAIN order |-> PointsBody("addPointsToLine", order[i], points[i])]
      OBVIOUS
    <2>4. ChangeLines(c, [i \in DOMAIN order |->
                            PointsBody("addPointsToLine", order[i], points[i])], diffs)
      BY <2>2, <2>3
    <2>5. \A l : DrawnLine(l).type = "DRAWN_LINE"
      BY DEF DrawnLine
    <2>6. PICK modified : action = Erased(modified) /\ AllHave(stores[c], modified)
      BY <2>1, <2>5 DEF ActionOK
    <2>7. \A l \in some : Has(stores[c], l)
      BY <2>6 DEF Erased, AllHave
    <2>8. some \in SUBSET LineIds
      OBVIOUS
    <2> HIDE DEF some, points, diffs
    <2>9. QED
      BY <2>4, <2>7, <2>8, ForEachLine
  <1>3. QED
    BY <1>1, <1>2

LEMMA UndoKeepsPens ==
  ASSUME PensOK, NEW c \in Clients, undo(c)
  PROVE  PensOK'
  <1>1. /\ ShowsBoard(c) /\ history[c] # <<>> /\ UNCHANGED context
        /\ undoDraw(c, Last(history[c])) \/ undoErase(c, Last(history[c]))
        /\ history' = [history EXCEPT ![c] = Front(@)]
    BY DEF undo
  <1>2. /\ BrowsersOK /\ PenDomains /\ ContextOK(context[c], stores[c], taken)
        /\ HistoryOK(history[c], stores[c]) /\ CachedOK(cached[c], stores[c])
        /\ clientState[c].state \notin Prompted /\ clientState[c].state \notin Unnamed
    BY <1>1, BoardIsShown DEF PensOK, PenOK
  <1>3. ActionOK(Last(history[c]), stores[c]) /\ HistoryOK(Front(history[c]), stores[c])
    BY <1>1, <1>2, HistoryParts
  <1>4. Drew(c) /\ Caches(c)
    BY <1>1, <1>2, <1>3, undoDraws
  <1>5. /\ HistoryOK(Front(history[c]), stores'[c]) /\ ContextOK(context[c], stores'[c], taken')
        /\ taken \subseteq taken'
    BY <1>2, <1>3, <1>4, KnownStays DEF Drew
  <1>6. /\ context' = [context EXCEPT ![c] = context[c]]
        /\ history' = [history EXCEPT ![c] = Front(history[c])]
    BY <1>1, <1>2 DEF PenDomains
  <1>7. /\ BrowsersOK' /\ Keeps(stores[c], stores'[c]) /\ UNCHANGED clientState
        /\ \A x \in Clients : x # c => stores'[x] = stores[x]
    BY <1>4 DEF Drew
  <1>8. QED
    BY <1>2, <1>4, <1>5, <1>6, <1>7, PenIsOK

LEMMA PenStepKeepsPens ==
  ASSUME PensOK, NEW c \in Clients, PenStep(c)
  PROVE  PensOK'
  BY EraseDownKeepsPens, DrawDownKeepsPens, MoveKeepsPens, UpKeepsPens, TimerKeepsPens,
     UndoKeepsPens DEF PenStep

(* The steps of App: the stores of a browser forget a line only when the   *)
(* pen is reset, or had nothing to do; and so it is on the screens where   *)
(* the pen is put away.                                                    *)
Sober(c) ==
  /\ \A x \in Clients : x # c => stores'[x] = stores[x] /\ clientState'[x] = clientState[x]
  /\ taken \subseteq taken'
  /\ Keeps(stores[c], stores'[c]) \/ Resets(c) \/ PutAway(c)
  /\ clientState'[c].state \in Prompted => Resets(c) \/ PutAway(c)

LEMMA CausedIsCalled ==
  ASSUME StoresOK, NEW c \in Clients, ReceiveFigure(c), NEW r \in Caused(c)
  PROVE  CallsBack(c, r)
  <1> DEFINE waiting == handlers[c] \ Caused(c)
  <1>1. \/ handlers' = [handlers EXCEPT ![c] = waiting]
        \/ \E b \in Boards : SendAll(c, waiting, <<JoinBody(b)>>)
    BY DEF ReceiveFigure, Receive
  <1>2. r \in handlers[c] /\ r \notin waiting /\ waiting \subseteq handlers[c]
    BY DEF Caused
  <1> HIDE DEF waiting
  <1>3. CASE handlers' = [handlers EXCEPT ![c] = waiting]
    BY <1>2, <1>3 DEF StoresOK, CallsBack
  <1>4. ASSUME NEW b \in Boards, SendAll(c, waiting, <<JoinBody(b)>>) PROVE CallsBack(c, r)
    <2> DEFINE bodies == <<JoinBody(b)>>
    <2>1. DOMAIN bodies = 1..1 /\ Len(bodies) = 1 /\ 1 \in Nat
      OBVIOUS
    <2>2. SendAll(c, waiting, bodies)
      BY <1>4
    <2> HIDE DEF bodies
    <2>3. PICK more : SentAs(c, waiting, bodies, 1, more)
      BY <1>2, <2>1, <2>2, SentRequests
    <2>4. r.id \in Nat /\ r.id <= sent[c] /\ sent[c] \in Nat
      BY <1>2 DEF StoresOK, RequestsOK
    <2>5. r \notin more
      <3>1. ASSUME NEW i \in 1..1, r = [id |-> sent[c] + i, body |-> bodies[i]] PROVE FALSE
        <4>1. r.id = sent[c] + i
          BY <3>1
        <4>2. QED
          BY <2>4, <4>1
      <3>2. QED
        BY <1>2, <2>3, <3>1 DEF SentAs
    <2>6. handlers'[c] = more
      BY <2>3 DEF SentAs, StoresOK
    <2>7. QED
      BY <1>2, <2>5, <2>6 DEF CallsBack
  <1>5. QED
    BY <1>1, <1>3, <1>4

LEMMA ReceiveIsSober ==
  ASSUME BrowsersOK, NEW c \in Clients, ReceiveFigure(c),
         clientState[c].state \in Prompted => PutAway(c)
  PROVE  Sober(c)
  <1> DEFINE m == Head(toClient[c]).body
             s == clientState[c]
             t == handleMessage(s, m)
  <1>0. StoresOK /\ MailDomains /\ BrowserOK(c)
    BY DEF BrowsersOK
  <1>1. /\ link[c] = "open" /\ toClient[c] # <<>>
        /\ \A x \in Clients : x # c => clientState'[x] = clientState[x]
        /\ \/ Caused(c) = {} /\ clientState'[c] = t
           \/ \E r \in Caused(c) : Caused(c) = {r} /\ clientState'[c] = callback(t, r.body, m)
    BY ReceiveIs
  <1>2. /\ \A x \in Clients : x # c => stores'[x] = stores[x]
        /\ Keeps(stores[c], stores'[c]) \/ \E r \in Caused(c) : ClearsStores(t, r, m)
    BY <1>0, ReceiveKept
  <1>3. UNCHANGED taken
    BY DEF ReceiveFigure
  <1>4. ASSUME NEW r \in Caused(c), r.body.case = "leaveWhiteboard" PROVE Resets(c)
    BY <1>0, <1>4, CausedIsCalled DEF Resets, Caused
  <1>5. t.state \in Prompted => s.state \in Prompted
    BY MessageMoves DEF Prompted, Unnamed
  <1>6. ASSUME NEW r \in Caused(c), ClearsStores(t, r, m) PROVE Resets(c) \/ PutAway(c)
    <2> HIDE DEF m, t
    <2>1. r.body.case = "leaveWhiteboard" \/ t.state = "NO_WHITEBOARD"
      BY <1>6, LeavingIsSeen
    <2>2. QED
      BY <1>4, <1>5, <2>1 DEF Prompted
  <1>7. ASSUME NEW r \in Caused(c), clientState'[c] = callback(t, r.body, m),
               clientState'[c].state \in Prompted
        PROVE  Resets(c) \/ PutAway(c)
    <2>1. CASE r.body.case = "clientHello" /\ m.type = "success"
      <3>1. Greets(c, handlers[c], Head(toClient[c]))
        BY <2>1, CausedGreets
      <3>2. Welcome(c, handlers[c], toClient[c])
        BY <1>0, <1>1, <3>1, MailIsTaken DEF BrowserOK
      <3>3. s.state \in Unnamed
        BY <1>0, <1>1, <3>2 DEF BrowserOK
      <3>4. QED
        BY <3>3 DEF Prompted
    <2> HIDE DEF m, t
    <2>2. CASE r.body.case = "leaveWhiteboard"
      BY <1>4, <2>2
    <2>3. CASE t.state \in Prompted
      BY <1>5, <2>3
    <2>4. \/ r.body.case = "clientHello" /\ m.type = "success"
          \/ r.body.case = "leaveWhiteboard"
          \/ t.state \in Prompted
      BY <1>7, CallbackMoves DEF Prompted, Unnamed
    <2>5. QED
      BY <2>1, <2>2, <2>3, <2>4 DEF m
  <1>8. clientState'[c].state \in Prompted => Resets(c) \/ PutAway(c)
    BY <1>1, <1>5, <1>7
  <1>9. Keeps(stores[c], stores'[c]) \/ Resets(c) \/ PutAway(c)
    BY <1>2, <1>6
  <1>10. QED
    BY <1>1, <1>2, <1>3, <1>8, <1>9 DEF Sober

LEMMA TimeOutIsSober ==
  ASSUME BrowsersOK, NEW c \in Clients, TimeOutFigure(c),
         clientState[c].state \in Prompted => PutAway(c)
  PROVE  Sober(c)
  <1> DEFINE s == clientState[c]
  <1>0. StoresOK /\ MailDomains /\ BrowserOK(c)
    BY DEF BrowsersOK
  <1>1. PICK r \in handlers[c] :
          /\ handlers'[c] = handlers[c] \ {r}
          /\ clientState' = [clientState EXCEPT ![c] = callback(@, r.body, Timeout)]
          /\ \/ Keeps(stores[c], stores'[c])
             \/ ClearsStores(s, r, Timeout)
    BY <1>0, TimeOutKept
  <1>2. \A x \in Clients : x # c => stores'[x] = stores[x]
    BY <1>0, TimeOutKept
  <1>3. /\ clientState'[c] = callback(s, r.body, Timeout)
        /\ \A x \in Clients : x # c => clientState'[x] = clientState[x]
    BY <1>0, <1>1 DEF MailDomains
  <1>4. UNCHANGED taken
    BY DEF TimeOutFigure
  <1>5. r.body.case = "leaveWhiteboard" => Resets(c)
    BY <1>1 DEF Resets, CallsBack
  <1>6. Timeout.type # "success" /\ Timeout.type # "whiteboardCreated"
    BY DEF Timeout, Plain
  <1>7. ClearsStores(s, r, Timeout) => Resets(c)
    BY <1>5, <1>6, LeavingIsSeen
  <1>8. clientState'[c].state \in Prompted => Resets(c) \/ s.state \in Prompted
    BY <1>3, <1>5, <1>6, CallbackMoves DEF Prompted, Unnamed
  <1>9. QED
    BY <1>1, <1>2, <1>3, <1>4, <1>7, <1>8 DEF Sober

LEMMA FigureTakes == \A c : FigureAction(c) => taken \subseteq taken'
  <1> SUFFICES ASSUME NEW c, FigureAction(c) PROVE taken \subseteq taken'
    OBVIOUS
  <1>1. (\E id : Invent(id)) \/ UNCHANGED taken
    BY DEF FigureAction, AddFigure, addNote, addImage, changeNote
  <1>2. QED
    BY <1>1 DEF Invent

LEMMA AppStepIsSober ==
  ASSUME BrowsersOK, NEW c \in Clients, FigureAction(c) \/ AppStep(c),
         clientState[c].state \in Prompted => PutAway(c)
  PROVE  Sober(c)
  <1>0. StoresOK /\ MailDomains /\ BrowserOK(c) /\ DOMAIN clientState = Clients
    BY DEF BrowsersOK, MailDomains
  <1>1. CASE FigureAction(c)
    BY <1>0, <1>1, FigureActionKept, FigureActionKeepsMail, FigureTakes DEF Sober
  <1>2. CASE SessionAction(c)
    <2>1. UNCHANGED taken
      BY <1>2 DEF SessionAction
    <2>2. /\ stores' = stores \/ exitEndedSession(c)
          /\ \A x \in Clients : x # c => stores'[x] = stores[x]
      BY <1>0, <1>2, ButtonsKept
    <2>3. MovesOne(c)
      BY <1>0, <1>2, ButtonsClear
    <2>4. CASE exitEndedSession(c)
      <3>1. clientState[c].state = "SESSION_ENDED" /\ clientState'[c].state = "NO_WHITEBOARD"
        BY <1>0, <2>4 DEF exitEndedSession, Screen, On
      <3>2. QED
        BY <2>1, <2>2, <2>3, <3>1 DEF Sober, Resets, MovesOne
    <2>5. CASE \E body : Press(c, body)
      <3>1. UNCHANGED clientState
        BY <2>5 DEF Press, PressAll
      <3>2. CASE stores' = stores
        BY <2>1, <3>1, <3>2 DEF Sober, Keeps
      <3>3. QED
        BY <2>2, <2>4, <3>2
    <2>6. exitEndedSession(c) \/ \E body : Press(c, body)
      BY <1>2 DEF SessionAction, setUsername, createWhiteboard, leaveWhiteboard, joinWhiteboard,
                  approveOrDenyUser
    <2>7. QED
      BY <2>4, <2>5, <2>6
  <1>3. CASE ConnectionEvent(c)
    <2>1. UNCHANGED <<stores, taken>> /\ MovesOne(c)
      BY <1>0, <1>3, ConnectionClears DEF ConnectionEvent
    <2>2. CASE Connected(c)
      <3>1. clientState[c].state \in Unnamed
        BY <1>0, <2>2 DEF Connected, BrowserOK
      <3>2. PutAway(c)
        BY <3>1 DEF Prompted
      <3>3. QED
        BY <2>1, <3>2 DEF Sober, MovesOne
    <2>3. CASE Disconnected(c)
      <3>1. clientState'[c].state = "DISCONNECTED"
        BY <1>0, <2>3 DEF Disconnected, Screen, On, MailDomains
      <3>2. QED
        BY <2>1, <3>1 DEF Sober, MovesOne, Keeps, Prompted, Unnamed
    <2>4. QED
      BY <1>3, <2>2, <2>3 DEF ConnectionEvent
  <1>4. CASE HandleFigure(c) \/ SocketStep(c)
    <2>1. UNCHANGED <<clientState, stores>>
      BY <1>4, HandlingKeepsMail, SocketKeepsMail
    <2>2. UNCHANGED taken
      BY <1>4 DEF HandleFigure, SocketStep
    <2>3. QED
      BY <2>1, <2>2 DEF Sober, Keeps
  <1>5. QED
    BY <1>1, <1>2, <1>3, <1>4, ReceiveIsSober, TimeOutIsSober DEF AppStep

LEMMA AppKeepsPens ==
  ASSUME PensOK, NEW c \in Clients, AppAction(c)
  PROVE  PensOK'
  <1>0. BrowsersOK /\ PenDomains /\ PenOK(c)
    BY DEF PensOK, AppAction
  <1>1. BrowsersOK'
    BY <1>0, AppKeepsMail DEF AppAction
  <1>2. Sober(c)
    BY <1>0, AppStepIsSober DEF PenOK, AppAction
  <1>3. /\ context' = IF Resets(c) THEN [context EXCEPT ![c] = IDLE] ELSE context
        /\ history' = IF Resets(c) THEN [history EXCEPT ![c] = <<>>] ELSE history
        /\ cached' = IF UpdatesLines(c) THEN [cached EXCEPT ![c] = NothingCached] ELSE cached
    BY DEF AppAction, reset
  <1>4. /\ PenDomains'
        /\ \A x \in Clients : x # c =>
             context'[x] = context[x] /\ history'[x] = history[x] /\ cached'[x] = cached[x]
    BY <1>0, <1>3 DEF PenDomains
  <1>5. OthersRest(c)
    BY <1>2, <1>4 DEF OthersRest, Sober
  <1>6. CachedOK(cached'[c], stores'[c])
    <2>1. CASE UpdatesLines(c)
      BY <1>0, <1>3, <2>1, NothingIsKnown DEF PenDomains
    <2>2. CASE ~UpdatesLines(c)
      <3>1. cached'[c] = cached[c] /\ stores'[c].line = stores[c].line
        BY <1>3, <2>2 DEF UpdatesLines
      <3>2. QED
        BY <1>0, <3>1 DEF PenOK, CachedOK, AllHave, Has
    <2>3. QED
      BY <2>1, <2>2
  <1>7. CASE Resets(c) \/ PutAway(c)
    <2>1. context'[c] = IDLE /\ history'[c] = <<>>
      BY <1>0, <1>3, <1>7 DEF PenDomains, PutAway
    <2>2. PenOK(c)'
      BY <1>6, <2>1, NothingIsKnown DEF PenOK, PutAway
    <2>3. QED
      BY <1>1, <1>2, <1>4, <1>5, <2>2, OnePen DEF Sober
  <1>8. CASE ~(Resets(c) \/ PutAway(c))
    <2>1. /\ Keeps(stores[c], stores'[c]) /\ clientState'[c].state \notin Prompted
          /\ context'[c] = context[c] /\ history'[c] = history[c] /\ taken \subseteq taken'
      BY <1>2, <1>3, <1>8 DEF Sober
    <2>2. ContextOK(context[c], stores'[c], taken') /\ HistoryOK(history[c], stores'[c])
      BY <1>0, <2>1, KnownStays DEF PenOK
    <2>3. PenOK(c)'
      BY <1>6, <2>1, <2>2 DEF PenOK
    <2>4. QED
      BY <1>1, <1>4, <1>5, <2>1, <2>3, OnePen
  <1>9. QED
    BY <1>7, <1>8
-----------------------------------------------------------------------------
(* DrawingSpec.                                                            *)

LEMMA InitPens == AppInit /\ DrawingInit => PensOK
  <1> SUFFICES ASSUME AppInit, DrawingInit PROVE PensOK
    OBVIOUS
  <1>1. BrowsersOK
    BY InitMail
  <1>2. PenDomains
    BY DEF DrawingInit, PenDomains
  <1>3. ASSUME NEW c \in Clients PROVE PenOK(c)
    BY NothingIsKnown DEF DrawingInit, PenOK, PutAway
  <1>4. QED
    BY <1>1, <1>2, <1>3 DEF PensOK

LEMMA PensStay ==
  ASSUME PensOK, UNCHANGED drawingVars
  PROVE  PensOK'
  <1>1. UNCHANGED appVars /\ UNCHANGED <<context, history, cached>>
    BY DEF drawingVars
  <1>2. UNCHANGED <<clientState, stores, taken>>
    BY <1>1 DEF appVars, clientVars, browserVars
  <1>3. BrowsersOK'
    BY <1>1, BrowsersStay DEF PensOK
  <1>4. QED
    BY <1>1, <1>2, <1>3 DEF PensOK, PenDomains, PenOK, PutAway

LEMMA PensAlwaysOK == DrawingSpec => []PensOK
  <1>1. PensOK /\ [DrawingNext]_drawingVars => PensOK'
    BY PenStepKeepsPens, AppKeepsPens, PensStay DEF DrawingNext
  <1>2. QED
    BY <1>1, InitPens, PTL DEF DrawingSpec

(* A browser never throws "Tried updating points of a line without a       *)
(* LineTimeline", nor the same of deleting one: in every execution, of any *)
(* number of browsers, the line that a pen draws, the lines that an eraser *)
(* has met and those that undo would change have a timeline.               *)
THEOREM TimelinesAlwaysExist == DrawingSpec => []TimelinesExist
  <1>1. ASSUME PensOK, NEW c \in Clients
        PROVE  /\ context[c].status = "DRAWING" => Known(c, context[c].line)
               /\ context[c].status = "ERASING" =>
                    \A l \in LineIds : context[c].modified[l] # {} => Known(c, l)
    <2>1. ContextOK(context[c], stores[c], taken)
      BY <1>1 DEF PensOK, PenOK
    <2>2. QED
      <3>1. /\ context[c].status = "DRAWING" => Has(stores[c], context[c].line)
            /\ context[c].status = "ERASING" => AllHave(stores[c], context[c].modified)
        BY <2>1, ContextIs
      <3>2. QED
        BY <3>1 DEF Known, Has, AllHave
  <1>2. ASSUME NEW action, NEW c, ActionOK(action, stores[c])
        PROVE  IF action.type = "DRAWN_LINE" THEN Known(c, action.line)
               ELSE \A l \in LineIds : action.lines[l] # {} => Known(c, l)
    <2>1. /\ \A l : DrawnLine(l).type = "DRAWN_LINE" /\ DrawnLine(l).line = l
          /\ \A modified : Erased(modified).type = "ERASED" /\ Erased(modified).lines = modified
      BY DEF DrawnLine, Erased
    <2>2. QED
      BY <1>2, <2>1 DEF ActionOK, Known, Has, AllHave
  <1>3. ASSUME PensOK, NEW c \in Clients, NEW k \in DOMAIN history[c]
        PROVE  ActionOK(history[c][k], stores[c])
    BY <1>3 DEF PensOK, PenOK, HistoryOK
  <1>4. PensOK => TimelinesExist
    BY <1>1, <1>2, <1>3 DEF TimelinesExist
  <1>5. QED
    BY <1>4, PensAlwaysOK, PTL

(* A refused change is not shown for ever, strokes and undone strokes      *)
(* included: every patch has a request whose callback will discard it.     *)
THEOREM PatchesWaitWhileDrawing == DrawingSpec => []PatchesWait
  <1>1. PensOK => PatchesWait
    BY PatchesOfStores DEF PensOK, BrowsersOK
  <1>2. QED
    BY <1>1, PensAlwaysOK, PTL

(* A change of the pen sends what the change is made of.                   *)
LEMMA RequestIsNew ==
  ASSUME StoresOK, NEW c \in Clients, NEW body, NEW diffs, Change(c, <<body>>, diffs)
  PROVE  \E r \in handlers'[c] \ handlers[c] : r.body = body
  <1> DEFINE bodies == <<body>>
             r == [id |-> sent[c] + 1, body |-> body]
  <1>1. DOMAIN bodies = 1..1 /\ Len(bodies) = 1 /\ 1 \in Nat /\ bodies[1] = body /\ 1 \in 1..1
    OBVIOUS
  <1>2. SendAll(c, handlers[c], bodies)
    BY DEF Change, PressAll
  <1>3. handlers[c] \subseteq handlers[c]
    OBVIOUS
  <1> HIDE DEF bodies
  <1>4. PICK more : SentAs(c, handlers[c], bodies, 1, more)
    BY <1>1, <1>2, <1>3, SentRequests
  <1>5. [id |-> sent[c] + 1, body |-> bodies[1]] \in more
    BY <1>1, <1>4 DEF SentAs
  <1>6. r \in handlers'[c]
    BY <1>1, <1>4, <1>5 DEF SentAs, StoresOK
  <1>7. r \notin handlers[c]
    <2>1. \A q \in handlers[c] : q.id \in Nat /\ q.id <= sent[c] /\ sent[c] \in Nat
      BY DEF StoresOK, RequestsOK
    <2>2. r.id = sent[c] + 1
      OBVIOUS
    <2>3. QED
      BY <2>1, <2>2
  <1>8. r.body = body
    OBVIOUS
  <1>9. QED
    BY <1>6, <1>7, <1>8

LEMMA FlushSends ==
  ASSUME StoresOK, NEW c \in Clients, NEW ctx, ctx.status = "DRAWING", flush(c, ctx),
         NEW points, points \subseteq ctx.buffer
  PROVE  Sends(c, ctx.line, G!lineToMessage(points))
  <1> DEFINE body == PointsBody("addPointsToLine", ctx.line, G!lineToMessage(ctx.buffer))
  <1>1. Change(c, <<body>>, <<T!AddPoints({})>>)
    BY DEF flush, FlushDrawing, FlushErasing
  <1>2. /\ body.case = "addPointsToLine" /\ body.id = ctx.line
        /\ body.points = G!lineToMessage(ctx.buffer)
    BY DEF PointsBody
  <1>3. G!lineToMessage(points) \subseteq G!lineToMessage(ctx.buffer)
    BY DEF G!lineToMessage
  <1> HIDE DEF body
  <1>4. PICK r \in handlers'[c] \ handlers[c] : r.body = body
    BY <1>1, RequestIsNew
  <1>5. QED
    BY <1>2, <1>3, <1>4 DEF Sends

(* What InkIsSent says of one browser.                                     *)
InkStays(c) ==
  context[c].status = "DRAWING" /\ ~GivenUp(c) =>
    LET kept == IF Continues(c) THEN context'[c].buffer ELSE {}
        gone == context[c].buffer \ kept
    IN  gone = {} \/ Sends(c, context[c].line, G!lineToMessage(gone))

LEMMA KeptInk ==
  ASSUME NEW c, context'[c] = context[c]
  PROVE  InkStays(c)
  BY DEF InkStays, Continues

LEMMA FlushedInk ==
  ASSUME StoresOK, NEW c \in Clients, NEW ctx, flush(c, ctx),
         context[c].status = "DRAWING" => /\ ctx.status = "DRAWING" /\ ctx.line = context[c].line
                                          /\ context[c].buffer \subseteq ctx.buffer
  PROVE  InkStays(c)
  <1> SUFFICES ASSUME context[c].status = "DRAWING", NEW kept
               PROVE  Sends(c, context[c].line, G!lineToMessage(context[c].buffer \ kept))
    BY DEF InkStays
  <1> DEFINE gone == context[c].buffer \ kept
  <1>1. gone \subseteq ctx.buffer
    OBVIOUS
  <1> HIDE DEF gone
  <1>2. Sends(c, ctx.line, G!lineToMessage(gone))
    BY <1>1, FlushSends
  <1>3. QED
    BY <1>2 DEF gone

LEMMA PenStepKeepsInk ==
  ASSUME PensOK, NEW c \in Clients, PenStep(c)
  PROVE  InkStays(c)
  <1>1. /\ StoresOK /\ PenDomains /\ ContextOK(context[c], stores[c], taken)
        /\ CachedOK(cached[c], stores[c])
    BY DEF PensOK, BrowsersOK, PenOK
  <1>2. ASSUME NEW p, EraseDown(c, p) PROVE InkStays(c)
    <2>1. context'[c].status = "ERASING"
      BY <1>1, <1>2, ContextParts DEF EraseDown, PenDomains
    <2>2. QED
      BY <2>1 DEF InkStays, GivenUp, Continues
  <1>3. ASSUME NEW p, NEW l \in LineIds, DrawDown(c, l, p) PROVE InkStays(c)
    <2>1. context'[c] = DRAWING(l, p, {p}) /\ l \notin taken
      BY <1>1, <1>3 DEF DrawDown, PenDomains, Invent
    <2>2. context'[c].status = "DRAWING" /\ context'[c].line = l
      BY <2>1, ContextParts
    <2>3. context[c].status = "DRAWING" => context[c].line \in taken
      BY <1>1, ContextIs
    <2>4. QED
      BY <2>1, <2>2, <2>3 DEF InkStays, GivenUp, Continues
  <1>4. ASSUME NEW p, onPointerMove(c, p) \/ onPointerUp(c, p) PROVE InkStays(c)
    <2> DEFINE ctx == deriveStateFromNewPosition(context[c], p)
    <2>1. /\ ctx.status = context[c].status
          /\ context[c].status = "DRAWING" =>
               ctx.line = context[c].line /\ context[c].buffer \subseteq ctx.buffer
      BY <1>1, DerivedOK
    <2>2. flush(c, ctx) \/ context' = [context EXCEPT ![c] = ctx]
      BY <1>4 DEF onPointerMove, onPointerUp
    <2> HIDE DEF ctx
    <2>3. CASE flush(c, ctx)
      BY <1>1, <2>1, <2>3, FlushedInk
    <2>4. CASE context' = [context EXCEPT ![c] = ctx]
      <3>1. context'[c] = ctx
        BY <1>1, <2>4 DEF PenDomains
      <3>2. context[c].status = "DRAWING" =>
              Continues(c) /\ context[c].buffer \ context'[c].buffer = {}
        BY <2>1, <3>1 DEF Continues
      <3>3. QED
        BY <3>2 DEF InkStays
    <2>5. QED
      BY <2>2, <2>3, <2>4
  <1>5. ASSUME ThrottleTimer(c) PROVE InkStays(c)
    <2>1. flush(c, context[c])
      BY <1>5 DEF ThrottleTimer
    <2>2. QED
      BY <1>1, <2>1, FlushedInk
  <1>6. ASSUME undo(c) PROVE InkStays(c)
    BY <1>6, KeptInk DEF undo
  <1>7. QED
    BY <1>2, <1>3, <1>4, <1>5, <1>6 DEF PenStep

(* One pen at a time.                                                      *)
LEMMA OthersKeepInk ==
  ASSUME PensOK, NEW c \in Clients, PenStep(c) \/ AppAction(c), NEW x \in Clients, x # c
  PROVE  context'[x] = context[x]
  <1>1. context = [z \in Clients |-> context[z]]
    BY DEF PensOK, PenDomains
  <1>2. ASSUME PenStep(c) PROVE \E ctx : context' = [context EXCEPT ![c] = ctx]
    <2>1. context' = [context EXCEPT ![c] = context[c]] \/ context' # context
      BY <1>1
    <2>2. QED
      BY <1>2, <2>1 DEF PenStep, EraseDown, DrawDown, onPointerMove, onPointerUp, ThrottleTimer,
                       undo
  <1>3. ASSUME AppAction(c) PROVE (\E ctx : context' = [context EXCEPT ![c] = ctx]) \/ context' = context
    BY <1>3 DEF AppAction, reset
  <1>4. QED
    BY <1>1, <1>2, <1>3

(* No ink is lost: in every execution, of any number of browsers, however  *)
(* pointer events and the timer of throttle fall, points leave the buffer  *)
(* of a pen only into a request that adds them to its line, unless the     *)
(* stroke is given up.                                                     *)
THEOREM InkAlwaysSent == DrawingSpec => InkIsSent
  <1>1. ASSUME PensOK, DrawingNext, NEW x \in Clients PROVE InkStays(x)
    <2>1. PICK c \in Clients : PenStep(c) \/ AppAction(c)
      BY <1>1 DEF DrawingNext
    <2>2. CASE x # c
      BY <1>1, <2>1, <2>2, OthersKeepInk, KeptInk
    <2>3. CASE x = c /\ PenStep(c)
      BY <1>1, <2>3, PenStepKeepsInk
    <2>4. CASE x = c /\ AppAction(c)
      <3>1. Resets(c) \/ context'[c] = context[c]
        BY <2>4 DEF AppAction, reset
      <3>2. QED
        BY <2>4, <3>1, KeptInk DEF InkStays, GivenUp
    <2>5. QED
      BY <2>1, <2>2, <2>3, <2>4
  <1>2. PensOK /\ [DrawingNext]_drawingVars =>
          [\A c \in Clients :
             context[c].status = "DRAWING" /\ ~GivenUp(c) =>
               LET kept == IF Continues(c) THEN context'[c].buffer ELSE {}
                   gone == context[c].buffer \ kept
               IN  gone = {} \/ Sends(c, context[c].line, G!lineToMessage(gone))]_drawingVars
    BY <1>1 DEF InkStays
  <1>3. QED
    BY <1>2, PensAlwaysOK, PTL DEF DrawingSpec, InkIsSent
=============================================================================
