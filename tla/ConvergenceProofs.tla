-------------------------- MODULE ConvergenceProofs --------------------------
(***************************************************************************)
(* Browsers converge: what a member of a whiteboard shows once its         *)
(* connection is quiet is what the server stores, for AppSpec and for      *)
(* DrawingSpec.                                                            *)
(*                                                                         *)
(* The invariant is that of ClientProofs with figures in the place of the  *)
(* lists.  The messages on their way to a browser lead from the state of   *)
(* the server that it shows to the one that the server is in (its course). *)
(* If that is a whiteboard, every figure of the whiteboard has a place on  *)
(* the last part of the course, which does not leave the whiteboard any    *)
(* more: a message that brings it, or the browser itself, which has it     *)
(* from the server already; and no later message says otherwise.  A        *)
(* newcomer starts from an empty whiteboard: its stores are blank until it *)
(* is admitted, and the server sends it everything that is not.            *)
(*                                                                         *)
(* From the same invariant, AppSpec and DrawingSpec implement Replicas:    *)
(* a copy becomes right with the news that are on their way to it, and     *)
(* each step adds at most one of these, for every reader, or takes the     *)
(* first of one reader away.                                               *)
(***************************************************************************)
EXTENDS DrawingProofs, ClientProofs

(* m says what became of the figure id, or that there are none.            *)
Concerns(m, kind, id) ==
  m.type \in FigureTypes /\ NewsOf(m).kind = kind /\ NewsOf(m).id = id
Brings(m, kind, id, fig) ==
  \/ Concerns(m, kind, id) /\ NewsOf(m).now = fig
  \/ m.type \in {"joinApproved", "whiteboardCreated"} /\ fig = NoFigure

Member(f) == \E b \in Boards : f \in {UserOf(b), HostOf(b)}

(* The requests of hs that d answers.                                      *)
Unasked(x, hs, d) == \A r \in hs : ~AnswersTo(x, d, r.id)
AsksForFigures(x, hs, d) ==
  \A r \in hs : AnswersTo(x, d, r.id) => r.body.case \in FigureMessages

(* The message d, which comes down to x, takes it from f to g.             *)
Leads(x, hs, d, f, g) ==
  \/ /\ Tells(d.body, f, g)
     /\ d.body.type = "whiteboardSessionEnded" \/ Unasked(x, hs, d)
  \/ d.body.type = "error" /\ f = g
  \/ d.body.type \in FigureTypes /\ f = g /\ Member(g) /\ AsksForFigures(x, hs, d)
  \/ \E r \in hs : /\ AnswersTo(x, d, r.id) /\ r.body.case \notin FigureMessages
                   /\ Settles(r.body, d.body, f, g)

Course(x, hs, f, down, g, p) ==
  /\ p \in [0..Len(down) -> ClientFSM] /\ p[0] = f /\ p[Len(down)] = g
  /\ \A i \in 1..Len(down) : Leads(x, hs, down[i], p[i - 1], p[i])

(* What a store has from the server.                                       *)
CommittedAt(store, kind, id) ==
  IF store[kind][id] = NoTimeline THEN NoFigure ELSE store[kind][id].committed
Blank(store) ==
  \A kind \in Kinds : \A id \in IdsOf(kind) : CommittedAt(store, kind, id) = NoFigure

FigureAt(down, store, kind, id, fig, i) ==
  /\ i = 0 => CommittedAt(store, kind, id) = fig
  /\ i # 0 => Brings(down[i].body, kind, id, fig)
  /\ \A j \in 1..Len(down) :
       j > i /\ Concerns(down[j].body, kind, id) => NewsOf(down[j].body).now = fig

Copied(down, store, g, p, kind, id, fig) ==
  \E i \in 0..Len(down) : Place(p, down, g, i) /\ FigureAt(down, store, kind, id, fig, i)

(* all are the figures of the whiteboards.                                 *)
AllCopied(down, store, g, p, all) ==
  \A b \in Boards : g \in {UserOf(b), HostOf(b)} =>
    \A kind \in Kinds : \A id \in IdsOf(kind) :
      Copied(down, store, g, p, kind, id, all[b][kind][id])

Contents == [b \in Boards |-> Content(b)]

Sight(x, hs, s, store, down, g, all, p) ==
  Course(x, hs, Shown(s), down, g, p) /\ AllCopied(down, store, g, p, all)

Watching(x, hs, s, store, down, g, all) ==
  \E p \in [0..Len(down) -> ClientFSM] : Sight(x, hs, s, store, down, g, all, p)

Ready(x) ==
  /\ clientState[x] \in ConnectionState
  /\ link[x] = "open" => Online(clientState[x])
  /\ clientState[x].state \in Prompted => Blank(stores[x])

Watches(x) ==
  /\ Ready(x)
  /\ Watching(x, handlers[x], clientState[x], stores[x], toClient[x], fsm[x], Contents)

InSight(x) ==
  /\ x \notin Misled /\ socket[x] # "closed" /\ link[x] # "closed" => Watches(x)
  /\ socket[x] = "new" => fsm[x] = Anonymous /\ toClient[x] = <<>>
-----------------------------------------------------------------------------
(* Messages are answered once, and a request of the session that is still  *)
(* to be handled waits, unless it has timed out (lost).                    *)
Orderly(x, hs, up, down, lost) ==
  /\ \A i, j \in DOMAIN up : up[i].id = up[j].id => i = j
  /\ \A i \in DOMAIN up, j \in DOMAIN down : ~AnswersTo(x, down[j], up[i].id)
  /\ \A i, j \in DOMAIN down, k \in Nat :
       AnswersTo(x, down[i], k) /\ AnswersTo(x, down[j], k) => i = j
  /\ ~lost => \A i \in DOMAIN up : up[i].body.case \notin FigureMessages =>
                \E r \in hs : r.id = up[i].id

(* The ids of figures were taken, and requests have the fields they need.  *)
Sensible(body) ==
  /\ body.case \in {"createNote", "updateNotePosition", "createImage"} =>
       body.position \in Coordinates
  /\ body.case \in {"createNote", "updateNoteText"} => body.text \in Texts
BodyFresh(body, used) ==
  body.case \in FigureMessages =>
    body.id \in used /\ body.id \in IdsOf(StoreOf(body)) /\ Sensible(body)

Fresh(up, down, store, used) ==
  /\ \A i \in DOMAIN up : BodyFresh(up[i].body, used)
  /\ \A i \in DOMAIN down : down[i].body.type \in FigureTypes => NewsOf(down[i].body).id \in used
  /\ \A kind \in Kinds : \A id \in IdsOf(kind) :
       store[kind][id] # NoTimeline => id \in used

NoteValues  == [position : Coordinates, text : Texts, creatorId : Clients] \cup {NoFigure}
ImageValues == [position : Coordinates, zIndex : Nat] \cup {NoFigure}

(* The figures of the whiteboards; one that was not created has none.      *)
ContentsOK ==
  /\ lines  = [b \in Boards |-> [l \in LineIds |-> lines[b][l]]]
  /\ notes  \in [Boards -> [NoteIds -> NoteValues]]
  /\ images \in [Boards -> [ImageIds -> ImageValues]]
  /\ \A b \in Boards, kind \in Kinds : \A id \in IdsOf(kind) :
       Content(b)[kind][id] # NoFigure => id \in taken /\ host[b] # NoClient

ChannelOK(x) ==
  /\ Orderly(x, handlers[x], toServer[x], toClient[x], x \in gaveUp)
  /\ Fresh(toServer[x], toClient[x], stores[x], taken)

SightOK == ContentsOK /\ \A x \in Clients : ChannelOK(x) /\ InSight(x)
-----------------------------------------------------------------------------
(* What a browser makes of a message: its screen.                          *)

LEMMA FigureTypesAre ==
  ASSUME NEW m, m.type \in FigureTypes
  PROVE  /\ m.type \notin {"error", "success", "joinApproved", "joinDenied", "whiteboardCreated",
                           "whiteboardSessionEnded", "clientWantsToJoin", "userListChanged"}
         /\ NewsOf(m) = Becomes(NewsOf(m).kind, m.id, NewsOf(m).now)
         /\ NewsOf(m).id = m.id /\ NewsOf(m).kind \in Kinds
  BY DEF FigureTypes, NewsOf, Becomes, Kinds

LEMMA FigureCasesAre ==
  ASSUME NEW case \in FigureMessages
  PROVE  case \notin {"clientHello", "createWhiteboardRequest", "joinWhiteboard",
                      "approveOrDenyJoin", "leaveWhiteboard"}
  BY DEF FigureMessages

LEMMA AnswerShows ==
  ASSUME NEW s \in ConnectionState, Online(s), NEW body, NEW m,
         body.case = "joinWhiteboard" /\ m.type = "success" => body.board \in Boards,
         body.case = "createWhiteboardRequest" /\ m.type = "whiteboardCreated" => m.board \in Boards
  PROVE  callback(s, body, m) \in ConnectionState /\ Online(callback(s, body, m))
  <1>1. \/ callback(s, body, m) \in {s, Screen("NO_WHITEBOARD")}
        \/ /\ callback(s, body, m) = On("PENDING_APPROVAL", body.board)
           /\ body.case = "joinWhiteboard" /\ m.type = "success"
        \/ /\ callback(s, body, m) = On("WHITEBOARD_HOST", m.board)
           /\ body.case = "createWhiteboardRequest" /\ m.type = "whiteboardCreated"
    BY DEF callback
  <1>2. \A state, b : On(state, b).state = state /\ Screen(state).state = state
    BY DEF On, Screen
  <1>3. QED
    BY <1>1, <1>2, AreScreens DEF Online

(* Requests have different numbers.                                        *)
Distinct(hs) == \A r, q \in hs : r.id = q.id => r = q

LEMMA OneAsks ==
  ASSUME NEW hs, Distinct(hs), NEW x, NEW d, NEW r \in hs, NEW q \in hs,
         AnswersTo(x, d, r.id), AnswersTo(x, d, q.id)
  PROVE  r = q
  BY DEF Distinct, AnswersTo

LEMMA ReadingFollows ==
  ASSUME NEW s \in ConnectionState, Online(s), NEW x, NEW hs, Distinct(hs), NEW d,
         NEW g \in ClientFSM, Leads(x, hs, d, Shown(s), g)
  PROVE  LET m == d.body
             t == handleMessage(s, m)
         IN  /\ Unasked(x, hs, d) => t \in ConnectionState /\ Online(t) /\ Shown(t) = g
             /\ \A r \in hs :
                  AnswersTo(x, d, r.id) /\ ~Unexpected(t, r.body, m) /\ ~Evicts(t, r.body, m) =>
                    /\ callback(t, r.body, m) \in ConnectionState
                    /\ Online(callback(t, r.body, m)) /\ Shown(callback(t, r.body, m)) = g
  <1> DEFINE m == d.body
             t == handleMessage(s, m)
  <1>1. t \in ConnectionState /\ Online(t)
    BY MessageShows
  <1>2. m.type \in {"error"} \cup FigureTypes => t = s
    BY FigureTypesAre DEF handleMessage
  <1> HIDE DEF m, t
  <1>3. Leads(x, hs, d, Shown(s), g) <=>
          \/ Tells(m, Shown(s), g) /\ (m.type = "whiteboardSessionEnded" \/ Unasked(x, hs, d))
          \/ m.type = "error" /\ Shown(s) = g
          \/ m.type \in FigureTypes /\ Shown(s) = g /\ Member(g) /\ AsksForFigures(x, hs, d)
          \/ \E r \in hs : /\ AnswersTo(x, d, r.id) /\ r.body.case \notin FigureMessages
                           /\ Settles(r.body, m, Shown(s), g)
    BY DEF Leads, m
  <1>4. ASSUME Unasked(x, hs, d) PROVE Shown(t) = g
    <2>1. Tells(m, Shown(s), g) => Shown(t) = g
      BY ReadsNews DEF t
    <2>2. QED
      BY <1>2, <1>3, <1>4, <2>1 DEF Unasked
  <1>5. ASSUME NEW r \in hs, AnswersTo(x, d, r.id), ~Unexpected(t, r.body, m),
               ~Evicts(t, r.body, m)
        PROVE  /\ callback(t, r.body, m) \in ConnectionState
               /\ Online(callback(t, r.body, m)) /\ Shown(callback(t, r.body, m)) = g
    <2>1. CASE m.type \in FigureTypes
      <3>1. ~Tells(m, Shown(s), g) /\ \A body : ~Settles(body, m, Shown(s), g)
        BY <2>1, FigureTypesAre DEF Tells, Settles
      <3>2. Shown(s) = g /\ r.body.case \in FigureMessages
        BY <1>3, <1>5, <2>1, <3>1, FigureTypesAre DEF AsksForFigures
      <3>3. callback(t, r.body, m) = t
        BY <3>2, FigureCasesAre DEF callback
      <3>4. QED
        BY <1>1, <1>2, <2>1, <3>2, <3>3
    <2>2. CASE m.type \notin FigureTypes
      <3>1. \/ Settles(r.body, m, Shown(s), g)
            \/ m.type = "whiteboardSessionEnded" /\ Tells(m, Shown(s), g)
        BY <1>3, <1>5, <2>2, OneAsks DEF Unasked, Settles
      <3>2. Shown(callback(t, r.body, m)) = g
        BY <1>5, <3>1, ReadsAnswer DEF t
      <3>3. /\ r.body.case = "joinWhiteboard" /\ m.type = "success" => r.body.board \in Boards
            /\ r.body.case = "createWhiteboardRequest" /\ m.type = "whiteboardCreated" =>
                 m.board \in Boards
        BY <3>1, StateBoards DEF Settles
      <3>4. QED
        BY <1>1, <3>2, <3>3, AnswerShows
    <2>3. QED
      BY <2>1, <2>2
  <1>6. QED
    BY <1>1, <1>4, <1>5 DEF m, t
-----------------------------------------------------------------------------
(* What it makes of a message: its stores.                                 *)

LEMMA CommittedParts ==
  ASSUME NEW t, NEW S, Timeline(t, S)
  PROVE  /\ \A figure : T!setCommitted(t, figure).committed = figure
         /\ \A id : T!discardPatch(t, id).committed = t.committed
         /\ \A id, diff : T!patched(t, id, diff).committed = t.committed
  <1>1. t = [committed |-> t.committed, patches |-> t.patches]
    BY DEF Timeline
  <1>2. \A a, b : LET w == [committed |-> a, patches |-> b]
                  IN  /\ \A figure : [w EXCEPT !.committed = figure].committed = figure
                      /\ \A q : [w EXCEPT !.patches = q].committed = a
    OBVIOUS
  <1>3. QED
    BY <1>1, <1>2 DEF T!setCommitted, T!discardPatch, T!patched

(* One entry of the store is replaced.                                     *)
LEMMA CommittedPut ==
  ASSUME NEW store, StoreShape(store), NEW k, NEW i, NEW value, NEW kind \in Kinds,
         NEW id \in IdsOf(kind)
  PROVE  CommittedAt(Put(store, k, i, value), kind, id) =
           IF kind = k /\ id = i
           THEN IF value = NoTimeline THEN NoFigure ELSE value.committed
           ELSE CommittedAt(store, kind, id)
  BY EntryIs DEF CommittedAt

LEMMA CommittedByServer ==
  ASSUME NEW requests, NEW store, StoreOK(requests, store), NEW k, NEW i, NEW figure,
         NEW kind \in Kinds, NEW id \in IdsOf(kind)
  PROVE  CommittedAt(setServerState(store, k, i, figure), kind, id) =
           IF kind = k /\ id = i THEN figure ELSE CommittedAt(store, kind, id)
  <1> DEFINE entry == store[k][i]
             value == IF entry # NoTimeline THEN T!setCommitted(entry, figure)
                      ELSE IF figure = NoFigure THEN entry ELSE T!newCommittedTimeline(figure)
  <1>1. setServerState(store, k, i, figure) = Put(store, k, i, value)
    BY DEF setServerState, Put
  <1>2. ASSUME kind = k, id = i
        PROVE  figure = IF value = NoTimeline THEN NoFigure ELSE value.committed
    <2>1. EntryOK(entry, About(requests, kind, id))
      BY <1>2 DEF StoreOK
    <2> HIDE DEF entry
    <2>2. CASE entry # NoTimeline
      <3>1. Timeline(entry, About(requests, kind, id))
        BY <2>1, <2>2 DEF EntryOK
      <3>2. value = T!setCommitted(entry, figure)
        BY <2>2
      <3> HIDE DEF value
      <3>3. value # NoTimeline
        BY <3>1, <3>2, CommittedTimeline, TimelineIsThere
      <3>4. QED
        BY <3>1, <3>2, <3>3, CommittedParts
    <2>3. CASE entry = NoTimeline /\ figure # NoFigure
      <3>1. value = T!newCommittedTimeline(figure)
        BY <2>3
      <3> HIDE DEF value
      <3>2. value # NoTimeline
        BY <3>1, NewTimelines, TimelineIsThere
      <3>3. QED
        BY <3>1, <3>2 DEF T!newCommittedTimeline
    <2>4. QED
      BY <2>2, <2>3
  <1>3. StoreShape(store)
    BY DEF StoreOK
  <1> HIDE DEF value
  <1>4. QED
    BY <1>1, <1>2, <1>3, CommittedPut

LEMMA CommittedByMessage ==
  ASSUME NEW requests, NEW store, StoreOK(requests, store), NEW m,
         NEW kind \in Kinds, NEW id \in IdsOf(kind)
  PROVE  CommittedAt(storeAfterMessage(store, m), kind, id) =
           IF Concerns(m, kind, id) THEN NewsOf(m).now ELSE CommittedAt(store, kind, id)
  <1>1. CASE m.type \notin FigureTypes
    BY <1>1 DEF storeAfterMessage, Concerns, FigureTypes
  <1>2. CASE m.type \in FigureTypes
    <2>1. storeAfterMessage(store, m) =
            setServerState(store, NewsOf(m).kind, NewsOf(m).id, NewsOf(m).now)
      BY <1>2 DEF storeAfterMessage, NewsOf, Becomes, FigureTypes
    <2>2. QED
      BY <1>2, <2>1, CommittedByServer DEF Concerns
  <1>3. QED
    BY <1>1, <1>2

LEMMA CommittedByDiscard ==
  ASSUME NEW requests, NEW store, StoreOK(requests, store), NEW r,
         NEW kind \in Kinds, NEW id \in IdsOf(kind)
  PROVE  CommittedAt(discardPatch(store, r), kind, id) = CommittedAt(store, kind, id)
  <1> DEFINE k == StoreOf(r.body)
             i == r.body.id
             entry == store[k][i]
             value == IF entry = NoTimeline THEN entry ELSE T!discardPatch(entry, r.id)
  <1>1. discardPatch(store, r) = Put(store, k, i, value)
    BY DEF discardPatch, Put
  <1>2. ASSUME kind = k, id = i
        PROVE  CommittedAt(store, kind, id) = IF value = NoTimeline THEN NoFigure ELSE value.committed
    <2>1. EntryOK(entry, About(requests, kind, id))
      BY <1>2 DEF StoreOK
    <2>2. CommittedAt(store, kind, id) = IF entry = NoTimeline THEN NoFigure ELSE entry.committed
      BY <1>2 DEF CommittedAt
    <2> HIDE DEF entry
    <2>3. CASE entry # NoTimeline
      <3>1. Timeline(entry, About(requests, kind, id))
        BY <2>1, <2>3 DEF EntryOK
      <3>2. value = T!discardPatch(entry, r.id)
        BY <2>3
      <3> HIDE DEF value
      <3>3. value # NoTimeline
        BY <3>1, <3>2, DiscardedTimeline, TimelineIsThere
      <3>4. QED
        BY <2>2, <2>3, <3>1, <3>2, <3>3, CommittedParts
    <2>4. QED
      BY <2>2, <2>3
  <1>3. StoreShape(store)
    BY DEF StoreOK
  <1> HIDE DEF value, k, i
  <1>4. QED
    BY <1>1, <1>2, <1>3, CommittedPut

LEMMA NothingCommitted ==
  ASSUME NEW kind \in Kinds, NEW id \in IdsOf(kind)
  PROVE  CommittedAt(NoStore, kind, id) = NoFigure
  BY DEF CommittedAt, NoStore, IdsOf, Kinds

LEMMA CommittedByCallback ==
  ASSUME NEW requests, NEW store, StoreOK(requests, store), NEW r, NEW s, NEW m,
         NEW kind \in Kinds, NEW id \in IdsOf(kind)
  PROVE  CommittedAt(storeAfterCallback(store, s, r, m), kind, id) =
           IF r.body.case \notin FigureMessages /\ ClearsStores(s, r, m) THEN NoFigure
           ELSE CommittedAt(store, kind, id)
  <1>1. CASE r.body.case \in FigureMessages
    <2>1. storeAfterCallback(store, s, r, m) = discardPatch(store, r)
      BY <1>1, FigureCasesAre DEF storeAfterCallback, ClearsStores
    <2>2. QED
      BY <1>1, <2>1, CommittedByDiscard
  <1>2. CASE r.body.case \notin FigureMessages
    BY <1>2, NothingCommitted DEF storeAfterCallback
  <1>3. QED
    BY <1>1, <1>2
-----------------------------------------------------------------------------
(* The browser x in the state s, with store, reads d: they become t and    *)
(* new, and the answer comes when it is expected.                          *)
Reads(x, hs, s, store, d, t, new) ==
  \/ /\ Unasked(x, hs, d)
     /\ t = handleMessage(s, d.body) /\ new = storeAfterMessage(store, d.body)
  \/ \E r \in hs :
       LET u == handleMessage(s, d.body)
       IN  /\ AnswersTo(x, d, r.id) /\ ~Unexpected(u, r.body, d.body) /\ ~Evicts(u, r.body, d.body)
           /\ t = callback(u, r.body, d.body)
           /\ new = storeAfterCallback(storeAfterMessage(store, d.body), u, r, d.body)

LEMMA ReadState ==
  ASSUME NEW s \in ConnectionState, Online(s), NEW x, NEW hs, Distinct(hs), NEW d,
         NEW g \in ClientFSM, Leads(x, hs, d, Shown(s), g), NEW store, NEW t, NEW new,
         Reads(x, hs, s, store, d, t, new)
  PROVE  t \in ConnectionState /\ Online(t) /\ Shown(t) = g
  BY ReadingFollows DEF Reads

LEMMA MembersAre ==
  ASSUME NEW s \in ConnectionState, Online(s), Member(Shown(s))
  PROVE  /\ s.state \in {"WHITEBOARD_USER", "WHITEBOARD_HOST"}
         /\ Shown(s) \notin {Anonymous, NoWhiteboard} /\ \A b \in Boards : Shown(s) # PendingOn(b)
  <1>1. PICK b \in Boards : Shown(s) \in {UserOf(b), HostOf(b)}
    BY DEF Member
  <1>2. On("WHITEBOARD_USER", b).state = "WHITEBOARD_USER"
        /\ On("WHITEBOARD_HOST", b).state = "WHITEBOARD_HOST"
    BY DEF On
  <1>3. QED
    BY <1>1, <1>2, ScreenOf, StatesDiffer

(* Stores that are blank stay so until the browser is a member.            *)
LEMMA ReadingKeepsBlank ==
  ASSUME NEW s \in ConnectionState, Online(s), NEW x, NEW hs, Distinct(hs), NEW d,
         NEW g \in ClientFSM, Leads(x, hs, d, Shown(s), g), NEW store, StoreOK(hs, store),
         NEW t, NEW new, Reads(x, hs, s, store, d, t, new),
         s.state \in Prompted => Blank(store), t.state \in Prompted
  PROVE  Blank(new)
  <1> DEFINE m == d.body
             u == handleMessage(s, m)
  <1>1. t \in ConnectionState /\ Online(t) /\ Shown(t) = g
    BY ReadState
  <1>2. d.body.type \notin FigureTypes
    <2>1. ASSUME d.body.type \in FigureTypes PROVE Member(g)
      BY <2>1, FigureTypesAre DEF Leads, Tells, Settles
    <2>2. QED
      BY <1>1, <2>1, MembersAre DEF Prompted, Unnamed
  <1>3. storeAfterMessage(store, m) = store
    BY <1>2 DEF storeAfterMessage, FigureTypes
  <1>4. /\ u = s \/ s.state = "PENDING_APPROVAL" \/ u.state = "SESSION_ENDED"
        /\ m.type = "success" => u = s
        /\ u.state \in Prompted => s.state \in Prompted
    BY MessageMoves DEF Prompted, Unnamed
  <1>5. CASE Unasked(x, hs, d) /\ t = u /\ new = store
    BY <1>4, <1>5
  <1>6. CASE \E r \in hs : /\ AnswersTo(x, d, r.id) /\ t = callback(u, r.body, m)
                           /\ new = storeAfterCallback(store, u, r, m)
    <2>1. PICK r \in hs : /\ AnswersTo(x, d, r.id) /\ t = callback(u, r.body, m)
                          /\ new = storeAfterCallback(store, u, r, m)
      BY <1>6
    <2>2. ASSUME r.body.case = "clientHello", m.type = "success"
          PROVE  s.state \in Prompted
      <3>1. PICK q \in hs : AnswersTo(x, d, q.id) /\ Settles(q.body, m, Shown(s), g)
        BY <1>2, <2>2 DEF Leads, Tells
      <3>2. q = r
        BY <2>1, <3>1, OneAsks
      <3>3. Shown(s) = Anonymous
        BY <2>2, <3>1, <3>2 DEF Settles
      <3>4. QED
        <4>1. s.state \in {"WHITEBOARD_USER", "WHITEBOARD_HOST", "PENDING_APPROVAL", "SESSION_ENDED"}
                => FALSE
          BY <3>3, Screens, ShownStates, StatesDiffer
        <4>2. QED
          BY <4>1, Screens DEF Online, Prompted, Unnamed
    <2>3. r.body.case = "leaveWhiteboard" \/ s.state \in Prompted
      <3> HIDE DEF u, m
      <3>1. QED
        BY <1>4, <2>1, <2>2, CallbackMoves DEF Prompted, Unnamed
    <2>4. CASE r.body.case = "leaveWhiteboard"
      <3>1. r.body.case \notin FigureMessages /\ ClearsStores(u, r, m)
        BY <2>4, FigureCasesAre DEF ClearsStores
      <3> HIDE DEF u, m
      <3>2. \A kind \in Kinds : \A id \in IdsOf(kind) : CommittedAt(new, kind, id) = NoFigure
        BY <2>1, <3>1, CommittedByCallback
      <3>3. QED
        BY <3>2 DEF Blank
    <2>5. CASE s.state \in Prompted
      <3>1. Blank(store)
        BY <2>5
      <3> HIDE DEF u, m
      <3>2. ASSUME NEW kind \in Kinds, NEW id \in IdsOf(kind)
            PROVE  CommittedAt(new, kind, id) = NoFigure
        <4>1. CommittedAt(store, kind, id) = NoFigure
          BY <3>1 DEF Blank
        <4>2. CASE r.body.case \notin FigureMessages /\ ClearsStores(u, r, m)
          BY <2>1, <4>2, CommittedByCallback
        <4>3. CASE ~(r.body.case \notin FigureMessages /\ ClearsStores(u, r, m))
          BY <2>1, <4>1, <4>3, CommittedByCallback
        <4>4. QED
          BY <4>2, <4>3
      <3>3. QED
        BY <3>2 DEF Blank
    <2>6. QED
      BY <2>3, <2>4, <2>5
  <1>7. QED
    BY <1>3, <1>5, <1>6 DEF Reads

LEMMA ReadingCopies ==
  ASSUME NEW s \in ConnectionState, Online(s), NEW x, NEW hs, Distinct(hs), NEW d,
         NEW g, Shown(s) = g, Member(g), Leads(x, hs, d, g, g), NEW store, StoreOK(hs, store),
         NEW t, NEW new, Reads(x, hs, s, store, d, t, new),
         NEW kind \in Kinds, NEW id \in IdsOf(kind)
  PROVE  CommittedAt(new, kind, id) =
           IF Concerns(d.body, kind, id) THEN NewsOf(d.body).now ELSE CommittedAt(store, kind, id)
  <1> DEFINE m == d.body
             u == handleMessage(s, m)
             between == storeAfterMessage(store, m)
  <1>1. /\ StoreOK(hs, between)
        /\ CommittedAt(between, kind, id) =
             IF Concerns(d.body, kind, id) THEN NewsOf(d.body).now ELSE CommittedAt(store, kind, id)
    BY MessageKept, CommittedByMessage
  <1>2. ASSUME NEW r \in hs, AnswersTo(x, d, r.id), ~Evicts(u, r.body, m),
               r.body.case \notin FigureMessages
        PROVE  ~ClearsStores(u, r, m)
    <2>1. /\ s.state \in {"WHITEBOARD_USER", "WHITEBOARD_HOST"}
          /\ g \notin {Anonymous, NoWhiteboard} /\ \A b \in Boards : g # PendingOn(b)
      BY MembersAre
    <2>2. m.type = "error" \/ Settles(r.body, m, g, g)
      <3>1. ~Tells(m, g, g) \/ ~(m.type = "whiteboardSessionEnded" \/ Unasked(x, hs, d))
        BY <1>2, <2>1 DEF Tells, Unasked
      <3>2. ~AsksForFigures(x, hs, d)
        BY <1>2 DEF AsksForFigures
      <3>3. CASE \E q \in hs : AnswersTo(x, d, q.id) /\ Settles(q.body, m, g, g)
        <4>1. PICK q \in hs : AnswersTo(x, d, q.id) /\ Settles(q.body, m, g, g)
          BY <3>3
        <4>2. q = r
          BY <1>2, <4>1, OneAsks
        <4>3. QED
          BY <4>1, <4>2
      <3>4. QED
        BY <3>1, <3>2, <3>3 DEF Leads
    <2>3. m.type \in {"error", "success", "whiteboardCreated"} => u = s
      BY DEF handleMessage
    <2>4. CASE m.type = "error"
      BY <1>2, <2>1, <2>3, <2>4 DEF Evicts, ClearsStores
    <2>5. CASE Settles(r.body, m, g, g) /\ m.type # "error"
      <3>1. r.body.case # "leaveWhiteboard"
        BY <2>1, <2>5 DEF Settles
      <3>2. m.type = "whiteboardCreated" => u.state # "NO_WHITEBOARD"
        BY <2>1, <2>3
      <3> HIDE DEF u, m
      <3>3. QED
        BY <3>1, <3>2 DEF ClearsStores
    <2>6. QED
      BY <2>2, <2>4, <2>5
  <1>3. CASE Unasked(x, hs, d) /\ new = between
    BY <1>1, <1>3
  <1>4. CASE \E r \in hs : /\ AnswersTo(x, d, r.id) /\ ~Evicts(u, r.body, m)
                           /\ new = storeAfterCallback(between, u, r, m)
    <2>1. PICK r \in hs : /\ AnswersTo(x, d, r.id) /\ ~Evicts(u, r.body, m)
                          /\ new = storeAfterCallback(between, u, r, m)
      BY <1>4
    <2>2. r.body.case \in FigureMessages \/ ~ClearsStores(u, r, m)
      BY <1>2, <2>1
    <2> HIDE DEF u, m, between
    <2>3. CommittedAt(new, kind, id) = CommittedAt(between, kind, id)
      BY <1>1, <2>1, <2>2, CommittedByCallback
    <2>4. QED
      BY <1>1, <2>3
  <1>5. QED
    BY <1>3, <1>4 DEF Reads

(* What a message brings is in the stores.                                 *)
LEMMA ReadingBrings ==
  ASSUME NEW s \in ConnectionState, Online(s), NEW x, NEW hs, Distinct(hs), NEW d,
         NEW g, Member(g), Leads(x, hs, d, Shown(s), g), NEW store, StoreOK(hs, store),
         NEW t, NEW new, Reads(x, hs, s, store, d, t, new),
         s.state \in Prompted => Blank(store),
         NEW kind \in Kinds, NEW id \in IdsOf(kind), NEW fig, Brings(d.body, kind, id, fig)
  PROVE  CommittedAt(new, kind, id) = fig
  <1> DEFINE m == d.body
             u == handleMessage(s, m)
  <1>1. CASE Concerns(m, kind, id) /\ NewsOf(m).now = fig
    <2>1. m.type \in FigureTypes
      BY <1>1 DEF Concerns
    <2>2. Shown(s) = g
      BY <2>1, FigureTypesAre DEF Leads, Tells, Settles
    <2>3. Leads(x, hs, d, g, g)
      BY <2>2
    <2>4. QED
      BY <1>1, <2>2, <2>3, ReadingCopies
  <1>2. CASE m.type = "joinApproved" /\ fig = NoFigure
    <2>1. Unasked(x, hs, d) /\ \E b \in Boards : Shown(s) = PendingOn(b)
      BY <1>2 DEF Leads, Tells, Settles, FigureTypes
    <2>2. s.state = "PENDING_APPROVAL"
      <3>1. \A b \in Boards : On("PENDING_APPROVAL", b).state = "PENDING_APPROVAL"
        BY DEF On
      <3>2. QED
        BY <2>1, <3>1, ScreenOf
    <2>3. new = store
      BY <1>2, <2>1 DEF Reads, Unasked, storeAfterMessage
    <2>4. QED
      BY <1>2, <2>2, <2>3 DEF Blank, Prompted
  <1>3. CASE m.type = "whiteboardCreated" /\ fig = NoFigure
    <2>1. PICK q \in hs : /\ AnswersTo(x, d, q.id) /\ Settles(q.body, m, Shown(s), g)
      BY <1>3 DEF Leads, Tells, FigureTypes
    <2>2. q.body.case = "createWhiteboardRequest"
      BY <1>3, <2>1 DEF Settles
    <2>3. PICK r \in hs : /\ AnswersTo(x, d, r.id) /\ ~Unexpected(u, r.body, m)
                          /\ new = storeAfterCallback(storeAfterMessage(store, m), u, r, m)
      BY <2>1 DEF Reads, Unasked
    <2>4. q = r
      BY <2>1, <2>3, OneAsks
    <2>5. u.state = "NO_WHITEBOARD"
      <3> HIDE DEF u
      <3>1. QED
        BY <1>3, <2>2, <2>3, <2>4 DEF Unexpected
    <2>6. r.body.case \notin FigureMessages /\ ClearsStores(u, r, m)
      <3> HIDE DEF u
      <3>1. QED
        BY <1>3, <2>2, <2>4, <2>5, FigureCasesAre DEF ClearsStores
    <2>7. StoreOK(hs, storeAfterMessage(store, m))
      BY MessageKept
    <2> HIDE DEF u, m
    <2>8. QED
      BY <1>3, <2>3, <2>6, <2>7, CommittedByCallback
  <1>4. QED
    BY <1>1, <1>2, <1>3 DEF Brings
-----------------------------------------------------------------------------
(* Courses.                                                                *)

LEMMA CourseGrows ==
  ASSUME NEW S, NEW x, NEW hs, NEW f, NEW down \in Seq(S), NEW news \in Seq(S),
         NEW g \in ClientFSM, NEW h \in ClientFSM, NEW p, Course(x, hs, f, down, g, p),
         news = <<>> => g = h,
         \A i \in 1..Len(news) : Leads(x, hs, news[i], IF i = 1 THEN g ELSE h, h)
  PROVE  Course(x, hs, f, down \o news, h, Longer(p, down, news, h))
  <1> DEFINE q   == Longer(p, down, news, h)
             all == down \o news
             n   == Len(down)
  <1>1. /\ n \in Nat /\ Len(news) \in Nat /\ Len(all) = n + Len(news)
        /\ \A i \in 1..n : all[i] = down[i]
        /\ \A i \in 1..Len(all) : i > n => i - n \in 1..Len(news) /\ all[i] = news[i - n]
        /\ \A i \in 0..n : q[i] = p[i]
        /\ \A i \in 0..Len(all) : i > n => q[i] = h
    BY LongerParts
  <1>2. q = [i \in 0..Len(all) |-> IF i <= n THEN p[i] ELSE h]
    BY DEF Longer
  <1>3. Len(news) = 0 => news = <<>>
    BY EmptySeq
  <1> HIDE DEF q, all, n
  <1>4. /\ p \in [0..n -> ClientFSM] /\ p[0] = f /\ p[n] = g
        /\ \A i \in 1..n : Leads(x, hs, down[i], p[i - 1], p[i])
    BY DEF Course, n
  <1>5. q \in [0..Len(all) -> ClientFSM]
    BY <1>1, <1>2, <1>4
  <1>6. q[0] = f /\ q[Len(all)] = h
    <2>1. q[0] = f
      BY <1>1, <1>4
    <2>2. CASE Len(news) = 0
      BY <1>1, <1>3, <1>4, <2>2
    <2>3. CASE Len(news) > 0
      BY <1>1, <2>1, <2>3
    <2>4. QED
      BY <1>1, <2>1, <2>2, <2>3
  <1>7. ASSUME NEW i \in 1..Len(all) PROVE Leads(x, hs, all[i], q[i - 1], q[i])
    <2>1. CASE i <= n
      <3>1. all[i] = down[i] /\ q[i - 1] = p[i - 1] /\ q[i] = p[i] /\ i \in 1..n
        BY <1>1, <2>1
      <3>2. QED
        BY <1>4, <3>1
    <2>2. CASE i = n + 1
      <3>1. all[i] = news[1] /\ q[i - 1] = g /\ q[i] = h /\ 1 \in 1..Len(news)
        BY <1>1, <1>4, <2>2
      <3>2. QED
        BY <3>1
    <2>3. CASE i > n + 1
      <3>1. /\ all[i] = news[i - n] /\ q[i - 1] = h /\ q[i] = h
            /\ i - n \in 1..Len(news) /\ i - n # 1
        BY <1>1, <2>3
      <3>2. QED
        BY <3>1
    <2>4. QED
      BY <1>1, <2>1, <2>2, <2>3
  <1>8. QED
    BY <1>5, <1>6, <1>7 DEF Course, q, all

LEMMA CopyStays ==
  ASSUME NEW S, NEW down \in Seq(S), NEW news \in Seq(S), NEW store, NEW p, NEW g,
         NEW kind, NEW id, NEW fig, Copied(down, store, g, p, kind, id, fig),
         \A j \in 1..Len(news) :
           Concerns(news[j].body, kind, id) => NewsOf(news[j].body).now = fig
  PROVE  Copied(down \o news, store, g, Longer(p, down, news, g), kind, id, fig)
  <1> DEFINE all == down \o news
             n   == Len(down)
             q   == Longer(p, down, news, g)
  <1>1. /\ n \in Nat /\ Len(news) \in Nat /\ Len(all) = n + Len(news)
        /\ \A i \in 1..n : all[i] = down[i]
        /\ \A i \in 1..Len(all) : i > n => i - n \in 1..Len(news) /\ all[i] = news[i - n]
    BY LongerParts
  <1>2. PICK i \in 0..n : Place(p, down, g, i) /\ FigureAt(down, store, kind, id, fig, i)
    BY DEF Copied
  <1>3. Place(q, all, g, i)
    BY <1>2, PlaceStays
  <1> HIDE DEF all, n, q
  <1>4. i # 0 => all[i] = down[i]
    BY <1>1, <1>2
  <1>5. ASSUME NEW j \in 1..Len(all), j > i, Concerns(all[j].body, kind, id)
        PROVE  NewsOf(all[j].body).now = fig
    <2>1. CASE j <= n
      BY <1>1, <1>2, <1>5, <2>1 DEF FigureAt, n
    <2>2. CASE j > n
      BY <1>1, <1>5, <2>2
    <2>3. QED
      BY <1>1, <2>1, <2>2
  <1>6. FigureAt(all, store, kind, id, fig, i)
    BY <1>2, <1>4, <1>5 DEF FigureAt
  <1>7. i \in 0..Len(all)
    BY <1>1, <1>2
  <1>8. QED
    BY <1>3, <1>6, <1>7 DEF Copied, all, q

LEMMA CopyIsNew ==
  ASSUME NEW S, NEW down \in Seq(S), NEW news \in Seq(S), NEW store, NEW p, NEW g,
         NEW kind, NEW id, NEW fig, NEW a \in 1..Len(news), Brings(news[a].body, kind, id, fig),
         \A j \in 1..Len(news) :
           Concerns(news[j].body, kind, id) => NewsOf(news[j].body).now = fig
  PROVE  Copied(down \o news, store, g, Longer(p, down, news, g), kind, id, fig)
  <1> DEFINE all == down \o news
             n   == Len(down)
             q   == Longer(p, down, news, g)
  <1>1. /\ n \in Nat /\ Len(news) \in Nat /\ Len(all) = n + Len(news)
        /\ \A i \in 1..Len(all) : i > n => i - n \in 1..Len(news) /\ all[i] = news[i - n]
    BY LongerParts
  <1>2. Place(q, all, g, n + a)
    BY PlaceIsNew
  <1> HIDE DEF all, n, q
  <1>3. n + a \in 1..Len(all) /\ n + a > n /\ (n + a) - n = a /\ n + a # 0
    BY <1>1
  <1>4. all[n + a] = news[a]
    BY <1>1, <1>3
  <1>5. ASSUME NEW j \in 1..Len(all), j > n + a, Concerns(all[j].body, kind, id)
        PROVE  NewsOf(all[j].body).now = fig
    BY <1>1, <1>5
  <1>6. FigureAt(all, store, kind, id, fig, n + a)
    BY <1>3, <1>4, <1>5 DEF FigureAt
  <1>7. n + a \in 0..Len(all)
    BY <1>3
  <1>8. QED
    BY <1>2, <1>6, <1>7 DEF Copied, all, q
-----------------------------------------------------------------------------
(* The requests that wait, and the course.                                 *)

LEMMA LeadsFewer ==
  ASSUME NEW x, NEW hs, NEW left, left \subseteq hs, NEW d, NEW f, NEW g,
         Leads(x, hs, d, f, g),
         \A r \in hs : AnswersTo(x, d, r.id) /\ r.body.case \notin FigureMessages => r \in left
  PROVE  Leads(x, left, d, f, g)
  BY DEF Leads, Unasked, AsksForFigures

LEMMA LeadsMore ==
  ASSUME NEW x, NEW hs, NEW more, hs \subseteq more, NEW d, NEW f, NEW g,
         Leads(x, hs, d, f, g), \A r \in more : AnswersTo(x, d, r.id) => r \in hs
  PROVE  Leads(x, more, d, f, g)
  BY DEF Leads, Unasked, AsksForFigures

(* A request that is answered by the first message is answered by no       *)
(* other one.                                                              *)
LEMMA NotAnsweredAgain ==
  ASSUME NEW x, NEW hs, \A r \in hs : r.id \in Nat, NEW up, NEW down, NEW lost, IsSeq(down),
         Orderly(x, hs, up, down, lost), down # <<>>,
         NEW left, left = hs \ {r \in hs : AnswersTo(x, Head(down), r.id)}
  PROVE  /\ Len(down) \in Nat \ {0} /\ Len(Tail(down)) = Len(down) - 1
         /\ 1 \in 1..Len(down) /\ Head(down) = down[1] /\ left \subseteq hs
         /\ \A j \in 1..Len(Tail(down)) : j + 1 \in 1..Len(down) /\ Tail(down)[j] = down[j + 1]
         /\ \A j \in 1..Len(Tail(down)) : \A r \in hs :
              AnswersTo(x, Tail(down)[j], r.id) => r \in left
  <1>1. PICK S : down \in Seq(S)
    BY DEF IsSeq
  <1>2. /\ DOMAIN down = 1..Len(down) /\ Len(down) \in Nat \ {0} /\ Len(Tail(down)) = Len(down) - 1
        /\ Head(down) = down[1]
        /\ \A j \in 1..Len(Tail(down)) : Tail(down)[j] = down[j + 1]
    BY <1>1, HeadTailProperties
  <1>3. ASSUME NEW j \in 1..Len(Tail(down)), NEW r \in hs, AnswersTo(x, Tail(down)[j], r.id)
        PROVE  r \in left
    <2>1. j + 1 \in DOMAIN down /\ 1 \in DOMAIN down /\ 1 # j + 1 /\ AnswersTo(x, down[j + 1], r.id)
      BY <1>2, <1>3
    <2>2. ~AnswersTo(x, down[1], r.id)
      BY <2>1 DEF Orderly
    <2>3. QED
      BY <1>2, <2>2
  <1>4. left \subseteq hs
    OBVIOUS
  <1>5. \A n \in Nat \ {0} : 1 \in 1..n /\ \A j \in 1..n - 1 : j + 1 \in 1..n
    OBVIOUS
  <1>6. 1 \in 1..Len(down) /\ \A j \in 1..Len(Tail(down)) : j + 1 \in 1..Len(down)
    BY <1>2, <1>5
  <1>7. \A j \in 1..Len(Tail(down)) : \A r \in hs : AnswersTo(x, Tail(down)[j], r.id) => r \in left
    BY <1>3
  <1>8. QED
    BY <1>2, <1>4, <1>6, <1>7, Zenon

LEMMA CourseReads ==
  ASSUME NEW x, NEW hs, \A r \in hs : r.id \in Nat, NEW up, NEW down, NEW lost, IsSeq(down),
         Orderly(x, hs, up, down, lost), down # <<>>,
         NEW left, left = hs \ {r \in hs : AnswersTo(x, Head(down), r.id)},
         NEW f, NEW g, NEW p, Course(x, hs, f, down, g, p)
  PROVE  /\ p[1] \in ClientFSM /\ Leads(x, hs, Head(down), f, p[1])
         /\ Course(x, left, p[1], Tail(down), g, Shorter(p, down))
  <1> DEFINE rest == Tail(down)
             q    == Shorter(p, down)
  <1>1. /\ Len(down) \in Nat \ {0} /\ Len(rest) = Len(down) - 1
        /\ 1 \in 1..Len(down) /\ Head(down) = down[1] /\ left \subseteq hs
        /\ \A j \in 1..Len(rest) : j + 1 \in 1..Len(down) /\ rest[j] = down[j + 1]
        /\ \A j \in 1..Len(rest) : \A r \in hs : AnswersTo(x, rest[j], r.id) => r \in left
    BY NotAnsweredAgain
  <1>2. q = [i \in 0..Len(rest) |-> p[i + 1]]
    BY DEF Shorter
  <1> HIDE DEF rest, q
  <1>3. /\ p \in [0..Len(down) -> ClientFSM] /\ p[0] = f /\ p[Len(down)] = g
        /\ \A i \in 1..Len(down) : Leads(x, hs, down[i], p[i - 1], p[i])
    BY DEF Course
  <1>4. p[1] \in ClientFSM /\ Leads(x, hs, Head(down), f, p[1])
    BY <1>1, <1>3
  <1>5. q \in [0..Len(rest) -> ClientFSM] /\ q[0] = p[1] /\ q[Len(rest)] = g
    BY <1>1, <1>2, <1>3
  <1>6. ASSUME NEW i \in 1..Len(rest) PROVE Leads(x, left, rest[i], q[i - 1], q[i])
    <2>1. q[i - 1] = p[i] /\ q[i] = p[i + 1] /\ i + 1 \in 1..Len(down) /\ rest[i] = down[i + 1]
      BY <1>1, <1>2
    <2>2. Leads(x, hs, rest[i], q[i - 1], q[i])
      BY <1>3, <2>1
    <2>3. QED
      BY <1>1, <2>2, LeadsFewer
  <1>7. QED
    BY <1>4, <1>5, <1>6 DEF Course, rest, q

(* One figure, when the first message is read.                             *)
LEMMA CopyReads ==
  ASSUME NEW down, Len(down) \in Nat \ {0}, Len(Tail(down)) = Len(down) - 1,
         \A j \in 1..Len(Tail(down)) : j + 1 \in 1..Len(down) /\ Tail(down)[j] = down[j + 1],
         NEW m, m = down[1].body,
         NEW store, NEW new, NEW p, NEW g, NEW kind, NEW id, NEW fig,
         Copied(down, store, g, p, kind, id, fig),
         p[0] = g /\ p[1] = g => CommittedAt(new, kind, id) =
           IF Concerns(m, kind, id) THEN NewsOf(m).now ELSE CommittedAt(store, kind, id),
         p[1] = g /\ Brings(m, kind, id, fig) => CommittedAt(new, kind, id) = fig
  PROVE  Copied(Tail(down), new, g, Shorter(p, down), kind, id, fig)
  <1> DEFINE rest == Tail(down)
  <1>1. PICK i \in 0..Len(down) : Place(p, down, g, i) /\ FigureAt(down, store, kind, id, fig, i)
    BY DEF Copied
  <1> DEFINE k == IF i = 0 THEN 0 ELSE i - 1
  <1>2. Place(Shorter(p, down), rest, g, k)
    BY <1>1, PlaceReads
  <1>3. (i = 0 => p[0] = g) /\ (i \in {0, 1} => p[1] = g)
    BY <1>1 DEF Place
  <1>4. 1 \in 1..Len(down)
    OBVIOUS
  <1> HIDE DEF rest
  <1>5. k = 0 => CommittedAt(new, kind, id) = fig
    <2>1. CASE i = 0
      <3>1. CommittedAt(store, kind, id) = fig /\ (Concerns(m, kind, id) => NewsOf(m).now = fig)
        BY <1>1, <1>4, <2>1 DEF FigureAt
      <3>2. QED
        BY <1>3, <2>1, <3>1
    <2>2. CASE i = 1
      <3>1. Brings(m, kind, id, fig)
        BY <1>1, <2>2 DEF FigureAt
      <3>2. QED
        BY <1>3, <2>2, <3>1
    <2>3. QED
      BY <2>1, <2>2
  <1>6. k # 0 => Brings(rest[k].body, kind, id, fig)
    <2>1. SUFFICES ASSUME k # 0 PROVE Brings(rest[k].body, kind, id, fig)
      OBVIOUS
    <2>2. i # 0 /\ k \in 1..Len(rest) /\ k + 1 = i
      BY <2>1 DEF rest
    <2>3. rest[k] = down[i]
      BY <2>2 DEF rest
    <2>4. QED
      BY <1>1, <2>2, <2>3 DEF FigureAt
  <1>7. ASSUME NEW j \in 1..Len(rest), j > k, Concerns(rest[j].body, kind, id)
        PROVE  NewsOf(rest[j].body).now = fig
    <2>1. j + 1 \in 1..Len(down) /\ j + 1 > i /\ rest[j] = down[j + 1]
      BY <1>7 DEF rest
    <2>2. QED
      BY <1>1, <1>7, <2>1 DEF FigureAt
  <1>8. k \in 0..Len(rest)
    BY DEF rest
  <1> HIDE DEF k
  <1>9. FigureAt(rest, new, kind, id, fig, k)
    BY <1>5, <1>6, <1>7 DEF FigureAt
  <1>10. QED
    BY <1>2, <1>8, <1>9 DEF Copied, rest

LEMMA ReadIsSight ==
  ASSUME NEW s \in ConnectionState, Online(s), NEW x, NEW hs, Distinct(hs),
         \A r \in hs : r.id \in Nat, NEW up, NEW down, NEW lost, IsSeq(down),
         Orderly(x, hs, up, down, lost), down # <<>>,
         NEW left, left = hs \ {r \in hs : AnswersTo(x, Head(down), r.id)},
         NEW store, StoreOK(hs, store), s.state \in Prompted => Blank(store),
         NEW t, NEW new, Reads(x, hs, s, store, Head(down), t, new),
         NEW g, NEW all, Watching(x, hs, s, store, down, g, all)
  PROVE  /\ t \in ConnectionState /\ Online(t) /\ (t.state \in Prompted => Blank(new))
         /\ Watching(x, left, t, new, Tail(down), g, all)
  <1>1. PICK p \in [0..Len(down) -> ClientFSM] : Sight(x, hs, s, store, down, g, all, p)
    BY DEF Watching
  <1>2. /\ p[1] \in ClientFSM /\ Leads(x, hs, Head(down), Shown(s), p[1])
        /\ Course(x, left, p[1], Tail(down), g, Shorter(p, down))
    BY <1>1, CourseReads DEF Sight
  <1>3. t \in ConnectionState /\ Online(t) /\ Shown(t) = p[1]
    BY <1>2, ReadState
  <1>4. t.state \in Prompted => Blank(new)
    BY <1>2, ReadingKeepsBlank
  <1>5. /\ Len(down) \in Nat \ {0} /\ Len(Tail(down)) = Len(down) - 1 /\ Head(down) = down[1]
        /\ \A j \in 1..Len(Tail(down)) : j + 1 \in 1..Len(down) /\ Tail(down)[j] = down[j + 1]
    BY NotAnsweredAgain
  <1> DEFINE m == Head(down).body
  <1>6. ASSUME NEW b \in Boards, g \in {UserOf(b), HostOf(b)}, NEW kind \in Kinds,
               NEW id \in IdsOf(kind)
        PROVE  Copied(Tail(down), new, g, Shorter(p, down), kind, id, all[b][kind][id])
    <2>1. Copied(down, store, g, p, kind, id, all[b][kind][id])
      BY <1>1, <1>6 DEF Sight, AllCopied
    <2>2. Member(g)
      BY <1>6 DEF Member
    <2>3. p[0] = Shown(s)
      BY <1>1 DEF Sight, Course
    <2>4. ASSUME p[0] = g, p[1] = g
          PROVE  CommittedAt(new, kind, id) =
                   IF Concerns(m, kind, id) THEN NewsOf(m).now ELSE CommittedAt(store, kind, id)
      <3>1. Leads(x, hs, Head(down), g, g) /\ Shown(s) = g
        BY <1>2, <2>3, <2>4
      <3>2. QED
        BY <2>2, <3>1, ReadingCopies
    <2>5. ASSUME p[1] = g, Brings(m, kind, id, all[b][kind][id])
          PROVE  CommittedAt(new, kind, id) = all[b][kind][id]
      <3>1. Leads(x, hs, Head(down), Shown(s), g)
        BY <1>2, <2>5
      <3>2. PICK fig : fig = all[b][kind][id]
        OBVIOUS
      <3>3. Brings(Head(down).body, kind, id, fig)
        BY <2>5, <3>2
      <3> HIDE DEF m
      <3>4. CommittedAt(new, kind, id) = fig
        <4>1. s \in ConnectionState /\ Online(s) /\ Distinct(hs) /\ StoreOK(hs, store)
          OBVIOUS
        <4>2. Reads(x, hs, s, store, Head(down), t, new)
          OBVIOUS
        <4>3. s.state \in Prompted => Blank(store)
          OBVIOUS
        <4>4. kind \in Kinds /\ id \in IdsOf(kind)
          OBVIOUS
        <4>5. QED
          BY ONLY <2>2, <3>1, <3>3, <4>1, <4>2, <4>3, <4>4, ReadingBrings
      <3>5. QED
        BY <3>2, <3>4
    <2>6. m = down[1].body
      BY <1>5
    <2> HIDE DEF m
    <2>7. QED
      BY <1>5, <2>1, <2>4, <2>5, <2>6, CopyReads
  <1>7. Sight(x, left, t, new, Tail(down), g, all, Shorter(p, down))
    BY <1>2, <1>3, <1>6 DEF Sight, AllCopied
  <1>8. Shorter(p, down) \in [0..Len(Tail(down)) -> ClientFSM]
    BY <1>2 DEF Course
  <1>9. QED
    BY <1>3, <1>4, <1>7, <1>8 DEF Watching

(* Requests that are forgotten, or new, change nothing of what comes.      *)
LEMMA ForgottenIsSight ==
  ASSUME NEW x, NEW hs, NEW left, left \subseteq hs,
         \A r \in hs : r.body.case \notin FigureMessages => r \in left,
         NEW s, NEW store, NEW new,
         \A kind \in Kinds : \A id \in IdsOf(kind) :
           CommittedAt(new, kind, id) = CommittedAt(store, kind, id),
         NEW down, NEW g, NEW all, Watching(x, hs, s, store, down, g, all)
  PROVE  Watching(x, left, s, new, down, g, all)
  <1>1. PICK p \in [0..Len(down) -> ClientFSM] : Sight(x, hs, s, store, down, g, all, p)
    BY DEF Watching
  <1>2. \A d, f, h : Leads(x, hs, d, f, h) => Leads(x, left, d, f, h)
    BY LeadsFewer
  <1>3. Course(x, left, Shown(s), down, g, p)
    BY <1>1, <1>2 DEF Sight, Course
  <1>4. ASSUME NEW kind \in Kinds, NEW id \in IdsOf(kind), NEW fig,
               Copied(down, store, g, p, kind, id, fig)
        PROVE  Copied(down, new, g, p, kind, id, fig)
    BY <1>4 DEF Copied, FigureAt
  <1>5. AllCopied(down, new, g, p, all)
    BY <1>1, <1>4 DEF Sight, AllCopied
  <1>6. QED
    BY <1>3, <1>5 DEF Watching, Sight

LEMMA SentIsSight ==
  ASSUME NEW x, NEW hs, NEW more, hs \subseteq more, NEW down,
         \A i \in 1..Len(down) : \A r \in more : AnswersTo(x, down[i], r.id) => r \in hs,
         NEW s, NEW store, NEW new,
         \A kind \in Kinds : \A id \in IdsOf(kind) :
           CommittedAt(new, kind, id) = CommittedAt(store, kind, id),
         NEW g, NEW all, Watching(x, hs, s, store, down, g, all)
  PROVE  Watching(x, more, s, new, down, g, all)
  <1>1. PICK p \in [0..Len(down) -> ClientFSM] : Sight(x, hs, s, store, down, g, all, p)
    BY DEF Watching
  <1>2. ASSUME NEW i \in 1..Len(down) PROVE Leads(x, more, down[i], p[i - 1], p[i])
    <2>1. Leads(x, hs, down[i], p[i - 1], p[i])
      BY <1>1 DEF Sight, Course
    <2>2. QED
      BY <2>1, LeadsMore
  <1>3. Course(x, more, Shown(s), down, g, p)
    BY <1>1, <1>2 DEF Sight, Course
  <1>4. ASSUME NEW kind \in Kinds, NEW id \in IdsOf(kind), NEW fig,
               Copied(down, store, g, p, kind, id, fig)
        PROVE  Copied(down, new, g, p, kind, id, fig)
    BY <1>4 DEF Copied, FigureAt
  <1>5. AllCopied(down, new, g, p, all)
    BY <1>1, <1>4 DEF Sight, AllCopied
  <1>6. QED
    BY <1>3, <1>5 DEF Watching, Sight

(* What a step of the server adds for one member: nothing else about the   *)
(* figure, and the figure itself unless the member has it.                 *)
TellsOf(news, g, h, was, fig, kind, id) ==
  /\ \A j \in 1..Len(news) : Concerns(news[j].body, kind, id) => NewsOf(news[j].body).now = fig
  /\ \/ g = h /\ was = fig
     \/ \E a \in 1..Len(news) : Brings(news[a].body, kind, id, fig)

LEMMA OneKind ==
  ASSUME NEW s, IsSeq(s), NEW t, IsSeq(t)
  PROVE  \E S : s \in Seq(S) /\ t \in Seq(S)
  <1>1. PICK R : s \in Seq(R)
    BY DEF IsSeq
  <1>2. PICK W : t \in Seq(W)
    BY DEF IsSeq
  <1>3. s \in Seq(R \cup W) /\ t \in Seq(R \cup W)
    BY <1>1, <1>2
  <1>4. QED
    BY <1>3

LEMMA SightGrows ==
  ASSUME NEW x, NEW hs, NEW s, NEW store, NEW down, IsSeq(down), NEW news, IsSeq(news),
         NEW g \in ClientFSM, NEW h \in ClientFSM, NEW all, NEW after,
         Watching(x, hs, s, store, down, g, all),
         news = <<>> => g = h,
         \A i \in 1..Len(news) : Leads(x, hs, news[i], IF i = 1 THEN g ELSE h, h),
         \A b \in Boards : h \in {UserOf(b), HostOf(b)} =>
           \A kind \in Kinds : \A id \in IdsOf(kind) :
             TellsOf(news, g, h, all[b][kind][id], after[b][kind][id], kind, id)
  PROVE  Watching(x, hs, s, store, down \o news, h, after)
  <1>1. PICK p \in [0..Len(down) -> ClientFSM] : Sight(x, hs, s, store, down, g, all, p)
    BY DEF Watching
  <1>2. PICK S : down \in Seq(S) /\ news \in Seq(S)
    BY OneKind
  <1> DEFINE q == Longer(p, down, news, h)
  <1>3. Course(x, hs, Shown(s), down, g, p) /\ AllCopied(down, store, g, p, all)
    BY <1>1 DEF Sight
  <1>4. Course(x, hs, Shown(s), down \o news, h, q)
    BY <1>2, <1>3, CourseGrows
  <1>5. ASSUME NEW b \in Boards, h \in {UserOf(b), HostOf(b)}, NEW kind \in Kinds,
               NEW id \in IdsOf(kind)
        PROVE  Copied(down \o news, store, h, q, kind, id, after[b][kind][id])
    <2>1. TellsOf(news, g, h, all[b][kind][id], after[b][kind][id], kind, id)
      BY <1>5
    <2>2. PICK fig : fig = after[b][kind][id]
      OBVIOUS
    <2>3. \A j \in 1..Len(news) :
            Concerns(news[j].body, kind, id) => NewsOf(news[j].body).now = fig
      BY <2>1, <2>2 DEF TellsOf
    <2>4. CASE g = h /\ all[b][kind][id] = fig
      <3>1. Copied(down, store, h, p, kind, id, fig)
        BY <1>3, <1>5, <2>4 DEF AllCopied
      <3>2. QED
        BY ONLY <1>2, <2>2, <2>3, <3>1, CopyStays
    <2>5. CASE \E a \in 1..Len(news) : Brings(news[a].body, kind, id, fig)
      <3>1. PICK a \in 1..Len(news) : Brings(news[a].body, kind, id, fig)
        BY <2>5
      <3>2. QED
        BY ONLY <1>2, <2>2, <2>3, <3>1, CopyIsNew
    <2>6. QED
      BY <2>1, <2>2, <2>4, <2>5 DEF TellsOf
  <1>6. Sight(x, hs, s, store, down \o news, h, after, q)
    BY <1>4, <1>5 DEF Sight, AllCopied
  <1>7. q \in [0..Len(down \o news) -> ClientFSM]
    BY <1>4 DEF Course
  <1>8. QED
    BY <1>6, <1>7 DEF Watching
-----------------------------------------------------------------------------
(* The server: what a step of it sends to x, of which mine tells whether   *)
(* it handles a message of x, the one with the body.                       *)

AppTells(m, mine, body, f, g) ==
  \/ Tells(m, f, g)
  \/ m.type = "error" /\ f = g
  \/ m.type \in FigureTypes /\ f = g /\ Member(g) /\ (mine /\ m.re => body.case \in FigureMessages)
  \/ mine /\ m.re /\ body.case \notin FigureMessages /\ Settles(body, m, f, g)

AppTrail(x, mine, body) ==
  /\ out'[x] = <<>> => fsm'[x] = fsm[x]
  /\ \A i \in 1..Len(out'[x]) :
       AppTells(out'[x][i], mine, body, IF i = 1 THEN fsm[x] ELSE fsm'[x], fsm'[x])

FigureTold(x, was, fig, kind, id) ==
  /\ \A j \in 1..Len(out'[x]) : Concerns(out'[x][j], kind, id) => NewsOf(out'[x][j]).now = fig
  /\ \/ fsm[x] = fsm'[x] /\ was = fig
     \/ \E a \in 1..Len(out'[x]) : Brings(out'[x][a], kind, id, fig)

FiguresTold(x) ==
  \A b \in Boards : fsm'[x] \in {UserOf(b), HostOf(b)} =>
    \A kind \in Kinds : \A id \in IdsOf(kind) :
      FigureTold(x, Contents[b][kind][id], Contents'[b][kind][id], kind, id)

(* The message that is handled has the number in id, if it is one of x.    *)
Names(x, hs, id, mine, body) ==
  /\ \A r \in hs : r.id \in Nat
  /\ \A k \in Nat : id = <<x, k>> => mine /\ \A r \in hs : r.id = k => r.body = body
  /\ mine /\ body.case \notin FigureMessages => \E r \in hs : id = <<x, r.id>>

LEMMA LeadsFromNews ==
  ASSUME NEW x \in Clients, NEW hs, NEW id, NEW mine, NEW body, Names(x, hs, id, mine, body),
         NEW f, NEW g, NEW d, AppTells(d.body, mine, body, f, g),
         d.body.re => d.causedBy = id, ~d.body.re => d.causedBy = NoMessage
  PROVE  Leads(x, hs, d, f, g)
  <1>1. ASSUME NEW r \in hs, AnswersTo(x, d, r.id)
        PROVE  d.body.re /\ id = <<x, r.id>> /\ mine /\ r.body = body
    <2>1. r.id \in Nat
      BY DEF Names
    <2>2. d.body.re /\ id = <<x, r.id>>
      BY <1>1, <2>1, NoNumber DEF AnswersTo
    <2>3. QED
      BY <2>1, <2>2 DEF Names
  <1>2. CASE Tells(d.body, f, g)
    <2>1. d.body.type = "whiteboardSessionEnded" \/ ~d.body.re
      BY <1>2 DEF Tells
    <2>2. QED
      BY <1>1, <1>2, <2>1 DEF Leads, Unasked
  <1>3. CASE d.body.type = "error" /\ f = g
    BY <1>3 DEF Leads
  <1>4. CASE /\ d.body.type \in FigureTypes /\ f = g /\ Member(g)
             /\ (mine /\ d.body.re => body.case \in FigureMessages)
    BY <1>1, <1>4 DEF Leads, AsksForFigures
  <1>5. CASE mine /\ d.body.re /\ body.case \notin FigureMessages /\ Settles(body, d.body, f, g)
    <2>1. PICK r \in hs : id = <<x, r.id>>
      BY <1>5 DEF Names
    <2>2. AnswersTo(x, d, r.id)
      BY <1>5, <2>1 DEF AnswersTo
    <2>3. r.body = body
      BY <1>1, <2>2
    <2>4. QED
      BY <1>5, <2>2, <2>3 DEF Leads
  <1>6. QED
    BY <1>2, <1>3, <1>4, <1>5 DEF AppTells

LEMMA DeliveredNews ==
  ASSUME NEW x, NEW id, IsSeq(out'[x])
  PROVE  /\ IsSeq(Delivered(x, id)) /\ Len(Delivered(x, id)) = Len(out'[x])
         /\ \A i \in 1..Len(out'[x]) :
              LET d == Delivered(x, id)[i]
              IN  /\ d.body = out'[x][i] /\ (d.body.re => d.causedBy = id)
                  /\ (~d.body.re => d.causedBy = NoMessage)
  <1>1. PICK o : o = out'[x]
    OBVIOUS
  <1> DEFINE f == [i \in 1..Len(o) |->
                    [body |-> o[i], causedBy |-> IF o[i].re THEN id ELSE NoMessage]]
  <1>2. DOMAIN o = 1..Len(o) /\ Len(o) \in Nat
    BY <1>1, SeqParts
  <1>3. Delivered(x, id) = f
    BY <1>1, <1>2 DEF Delivered
  <1>4. \A i \in 1..Len(o) : /\ f[i].body = o[i] /\ (o[i].re => f[i].causedBy = id)
                             /\ (~o[i].re => f[i].causedBy = NoMessage)
    OBVIOUS
  <1>5. f = [i \in 1..Len(o) |-> f[i]]
    OBVIOUS
  <1> HIDE DEF f
  <1>6. IsSeq(f) /\ Len(f) = Len(o)
    BY <1>2, <1>5, ListIsSeq
  <1>7. QED
    BY <1>1, <1>3, <1>4, <1>6

(* What it sends is watched.                                               *)
LEMMA NewsAreWatched ==
  ASSUME NEW x \in Clients, Watches(x), IsSeq(toClient[x]), IsSeq(out'[x]),
         fsm[x] \in ClientFSM, fsm'[x] \in ClientFSM, link[x] # "closed",
         NEW id, Deliver(id), UNCHANGED <<browserVars, stores>>,
         NEW mine, NEW body, Names(x, handlers[x], id, mine, body),
         AppTrail(x, mine, body), FiguresTold(x)
  PROVE  Watches(x)'
  <1>1. PICK g, h, down, news, hs, s, store, all, after :
          /\ g = fsm[x] /\ h = fsm'[x] /\ down = toClient[x] /\ news = Delivered(x, id)
          /\ hs = handlers[x] /\ s = clientState[x] /\ store = stores[x]
          /\ all = Contents /\ after = Contents'
    OBVIOUS
  <1>2. /\ IsSeq(news) /\ Len(news) = Len(out'[x])
        /\ \A i \in 1..Len(news) : /\ news[i].body = out'[x][i]
                                   /\ (news[i].body.re => news[i].causedBy = id)
                                   /\ (~news[i].body.re => news[i].causedBy = NoMessage)
    BY <1>1, DeliveredNews
  <1>3. toClient'[x] = down \o news
    BY <1>1, DeliverAt
  <1>4. news = <<>> => g = h
    <2>1. ASSUME news = <<>> PROVE out'[x] = <<>>
      <3>1. Len(out'[x]) = 0
        BY <1>2, <2>1, OneIsList
      <3>2. PICK S : out'[x] \in Seq(S)
        BY DEF IsSeq
      <3>3. QED
        BY <3>1, <3>2, EmptySeq
    <2>2. QED
      BY <1>1, <2>1 DEF AppTrail
  <1>5. \A i \in 1..Len(news) : Leads(x, hs, news[i], IF i = 1 THEN g ELSE h, h)
    <2> TAKE i \in 1..Len(news)
    <2>1. PICK f : f = IF i = 1 THEN g ELSE h
      OBVIOUS
    <2>2. AppTells(news[i].body, mine, body, f, h)
      BY <1>1, <1>2, <2>1 DEF AppTrail
    <2>3. QED
      BY <1>1, <1>2, <2>1, <2>2, LeadsFromNews
  <1>6. \A b \in Boards : h \in {UserOf(b), HostOf(b)} =>
          \A kind \in Kinds : \A i \in IdsOf(kind) :
            TellsOf(news, g, h, all[b][kind][i], after[b][kind][i], kind, i)
    <2> SUFFICES ASSUME NEW b \in Boards, h \in {UserOf(b), HostOf(b)},
                        NEW kind \in Kinds, NEW i \in IdsOf(kind)
                 PROVE  TellsOf(news, g, h, all[b][kind][i], after[b][kind][i], kind, i)
      OBVIOUS
    <2>1. PICK was, fig : was = all[b][kind][i] /\ fig = after[b][kind][i]
      OBVIOUS
    <2>2. FigureTold(x, was, fig, kind, i)
      BY <1>1, <2>1 DEF FiguresTold
    <2>3. TellsOf(news, g, h, was, fig, kind, i)
      BY <1>1, <1>2, <2>2 DEF FigureTold, TellsOf
    <2>4. QED
      BY <2>1, <2>3
  <1>7. Watching(x, hs, s, store, down \o news, h, after)
    <2>1. g \in ClientFSM /\ h \in ClientFSM /\ IsSeq(down) /\ IsSeq(news)
      BY <1>1, <1>2
    <2>2. Watching(x, hs, s, store, down, g, all)
      BY <1>1 DEF Watches
    <2>3. QED
      BY ONLY <1>4, <1>5, <1>6, <2>1, <2>2, SightGrows
  <1>8. QED
    BY <1>1, <1>3, <1>7 DEF Watches, Ready, browserVars

(* A handler of the session says nothing about figures.                    *)
Opens(x, b) == fsm[x] = NoWhiteboard /\ fsm'[x] = HostOf(b) /\ host[b] = NoClient
Settled(x) ==
  \A b \in Boards : fsm'[x] \in {UserOf(b), HostOf(b)} => fsm'[x] = fsm[x] \/ Opens(x, b)

LEMMA SessionTrail ==
  ASSUME NEW x \in Clients, NEW mine \in BOOLEAN, NEW body, NewsTrail(x, mine, body)
  PROVE  AppTrail(x, mine, body)
  <1>2. ASSUME NEW m, NEW f, NEW g, mine /\ m.re /\ Settles(body, m, f, g)
        PROVE  AppTells(m, mine, body, f, g)
    <2>1. CASE body.case \in FigureMessages
      BY <1>2, <2>1, FigureCasesAre DEF Settles, AppTells
    <2>2. CASE body.case \notin FigureMessages
      BY <1>2, <2>2 DEF AppTells
    <2>3. QED
      BY <2>1, <2>2
  <1>3. ASSUME NEW i \in 1..Len(out'[x])
        PROVE  AppTells(out'[x][i], mine, body, IF i = 1 THEN fsm[x] ELSE fsm'[x], fsm'[x])
    <2>1. PICK f, g : f = (IF i = 1 THEN fsm[x] ELSE fsm'[x]) /\ g = fsm'[x]
      OBVIOUS
    <2>2. \/ Tells(out'[x][i], f, g)
          \/ mine /\ out'[x][i].re /\ Settles(body, out'[x][i], f, g)
      BY <2>1 DEF NewsTrail
    <2>3. AppTells(out'[x][i], mine, body, f, g)
      BY <1>2, <2>2 DEF AppTells
    <2>4. QED
      BY <2>1, <2>3
  <1>4. QED
    BY <1>3 DEF AppTrail, NewsTrail

LEMMA BlankBoards ==
  ASSUME ContentsOK, NEW b \in Boards, host[b] = NoClient, NEW kind \in Kinds, NEW id \in IdsOf(kind)
  PROVE  Contents[b][kind][id] = NoFigure
  BY DEF ContentsOK, Contents

LEMMA SessionFigures ==
  ASSUME ContentsOK, UNCHANGED figureVars, NEW x \in Clients, IsSeq(out'[x]),
         NEW mine \in BOOLEAN, NEW body, NewsTrail(x, mine, body), Settled(x)
  PROVE  FiguresTold(x)
  <1>1. \A i \in 1..Len(out'[x]) : out'[x][i].type \notin FigureTypes
    BY DEF NewsTrail, Tells, Settles, FigureTypes
  <1>2. Contents' = Contents
    BY DEF figureVars, Contents, Content
  <1> SUFFICES ASSUME NEW b \in Boards, fsm'[x] \in {UserOf(b), HostOf(b)},
                      NEW kind \in Kinds, NEW id \in IdsOf(kind)
               PROVE  FigureTold(x, Contents[b][kind][id], Contents'[b][kind][id], kind, id)
    BY DEF FiguresTold
  <1>3. PICK fig : fig = Contents[b][kind][id]
    OBVIOUS
  <1>4. \A j \in 1..Len(out'[x]) : ~Concerns(out'[x][j], kind, id)
    BY <1>1 DEF Concerns
  <1>5. CASE fsm'[x] = fsm[x]
    BY <1>2, <1>3, <1>4, <1>5 DEF FigureTold
  <1>6. CASE Opens(x, b)
    <2>1. fsm'[x] # fsm[x] /\ \A w \in Boards : fsm[x] \notin {PendingOn(w), UserOf(w), HostOf(w)}
      BY <1>6, StatesDiffer DEF Opens
    <2>2. 1 \in 1..Len(out'[x])
      <3>1. out'[x] # <<>>
        BY <2>1 DEF NewsTrail
      <3>2. QED
        BY <3>1, TailIs, SeqParts
    <2>3. \/ Tells(out'[x][1], fsm[x], fsm'[x])
          \/ Settles(body, out'[x][1], fsm[x], fsm'[x])
      BY <2>2 DEF NewsTrail
    <2>4. Settles(body, out'[x][1], fsm[x], fsm'[x])
      BY <2>1, <2>3 DEF Tells
    <2>5. \A w : fsm'[x] # PendingOn(w)
      BY <1>6 DEF Opens, PendingOn, HostOf
    <2>6. fsm'[x] # NoWhiteboard
      BY <1>6, <2>1 DEF Opens
    <2>7. out'[x][1].type = "whiteboardCreated"
      BY <2>1, <2>4, <2>5, <2>6 DEF Settles
    <2>8. fig = NoFigure
      BY <1>3, <1>6, BlankBoards DEF Opens
    <2>9. Brings(out'[x][1], kind, id, fig)
      BY <2>7, <2>8 DEF Brings
    <2>10. QED
      BY <1>2, <1>3, <1>4, <2>2, <2>9 DEF FigureTold
  <1>7. QED
    BY <1>5, <1>6 DEF Settled

(* Who comes to be a member, other than by an approval, has created the    *)
(* whiteboard.                                                             *)
LEMMA HandlerSettles ==
  ASSUME Books, NEW c \in Clients, NEW body, Addressed(body), PlainHandler(c, body),
         NEW x \in Clients
  PROVE  Settled(x)
  <1>1. ASSUME UNCHANGED fsm PROVE Settled(x)
    BY <1>1 DEF Settled
  <1>2. ASSUME NEW y, NEW s, fsm' = [fsm EXCEPT ![y] = s],
               \A b \in Boards : s \notin {UserOf(b), HostOf(b)}
        PROVE  Settled(x)
    BY <1>2 DEF Settled, Books, StateTypes
  <1>3. \A b \in Boards : /\ NoWhiteboard \notin {UserOf(b), HostOf(b)}
                          /\ \A w \in Boards : PendingOn(w) \notin {UserOf(b), HostOf(b)}
    BY StatesDiffer
  <1>4. CASE NotAllowed(c, body.case) \/ NoSuchApplicant(c, body.client)
    BY <1>1, <1>4 DEF NotAllowed, NoSuchApplicant, Answer
  <1>5. CASE ClientHello(c)
    BY <1>2, <1>3, <1>5 DEF ClientHello, Named
  <1>6. CASE \E b \in Boards : CreateWhiteboard(c, b)
    <2>1. PICK w \in Boards : CreateWhiteboard(c, w)
      BY <1>6
    <2>2. fsm[c] = NoWhiteboard
      BY <2>1, Dispatched DEF CreateWhiteboard, Books
    <2>3. fsm' = [fsm EXCEPT ![c] = HostOf(w)] /\ host[w] = NoClient
      BY <2>1 DEF CreateWhiteboard, Hosting
    <2>4. QED
      BY <2>2, <2>3, StatesDiffer DEF Settled, Opens, Books, StateTypes
  <1>7. CASE body.case = "joinWhiteboard" /\ JoinWhiteboard(c, body.board)
    <2>1. body.board \in Boards
      BY <1>7 DEF Addressed
    <2>2. UNCHANGED fsm \/ fsm' = [fsm EXCEPT ![c] = PendingOn(body.board)]
      BY <1>7 DEF JoinWhiteboard, Answer, Applying
    <2>3. QED
      BY <1>1, <1>2, <1>3, <2>1, <2>2
  <1>8. CASE body.case = "approveOrDenyJoin" /\ DenyJoin(c, body.client)
    <2>1. UNCHANGED fsm \/ fsm' = [fsm EXCEPT ![body.client] = NoWhiteboard]
      BY <1>8 DEF DenyJoin, RefuseDecision, Throws, Answer, BackToNoWhiteboard
    <2>2. QED
      BY <1>1, <1>2, <1>3, <2>1
  <1>9. CASE LeaveWhiteboard(c)
    <2>1. CASE DetachClient(c, c)
      BY <1>2, <1>3, <2>1 DEF DetachClient, BackToNoWhiteboard
    <2>2. CASE EndSession(c, c)
      <3>1. fsm'[x] \in {NoWhiteboard, fsm[x]}
        BY <2>2 DEF EndSession, AllSentAway
      <3>2. QED
        BY <1>3, <3>1 DEF Settled
    <2>3. QED
      BY <1>9, <2>1, <2>2 DEF LeaveWhiteboard
  <1>10. QED
    BY <1>4, <1>5, <1>6, <1>7, <1>8, <1>9 DEF PlainHandler

LEMMA SocketSettles ==
  ASSUME Books, NEW c \in Clients, RegisterClient(c) \/ CloseSocket(c), NEW x \in Clients
  PROVE  Settled(x)
  <1>1. \A b \in Boards : NoWhiteboard \notin {UserOf(b), HostOf(b)}
    BY StatesDiffer
  <1>2. fsm'[x] \in {NoWhiteboard, fsm[x]}
    <2>1. CASE RegisterClient(c)
      BY <2>1 DEF RegisterClient
    <2>2. CASE CloseSocket(c)
      BY <2>2 DEF CloseSocket, DetachClient, EndSession, AllSentAway, BackToNoWhiteboard,
                  Books, StateTypes
    <2>3. QED
      BY <2>1, <2>2
  <1>3. QED
    BY <1>1, <1>2 DEF Settled
-----------------------------------------------------------------------------
(* What a newcomer is sent.                                                *)

(* The message about the figure id of the whiteboard b in a bootstrap.     *)
Dumped(b, kind, id) ==
  CASE kind = "line"  -> LineCreatedOrUpdated(id, lines[b][id], FALSE)
    [] kind = "note"  -> NoteCreatedOrUpdated(id, notes[b][id], FALSE)
    [] kind = "image" -> ImageCreated(id, images[b][id], FALSE)
OnBoard(b, kind) == {id \in IdsOf(kind) : Contents[b][kind][id] # NoFigure}

(* s has a message for every figure of the kinds, and no other.            *)
DumpsOf(s, b, kinds) ==
  /\ IsSeq(s)
  /\ \A i \in DOMAIN s : \E kind \in kinds : \E id \in OnBoard(b, kind) : s[i] = Dumped(b, kind, id)
  /\ \A kind \in kinds : \A id \in OnBoard(b, kind) :
       \E i \in DOMAIN s : s[i] = Dumped(b, kind, id)

LEMMA DumpedIs ==
  ASSUME NEW b \in Boards, NEW kind \in Kinds, NEW id
  PROVE  LET m == Dumped(b, kind, id)
         IN  /\ m.type \in FigureTypes /\ ~m.re
             /\ NewsOf(m) = Becomes(kind, id, Contents[b][kind][id])
  BY DEF Dumped, Kinds, FigureTypes, NewsOf, Contents, Content,
         LineCreatedOrUpdated, NoteCreatedOrUpdated, ImageCreated

LEMMA Permutation ==
  ASSUME NEW S, IsFiniteSet(S), NEW s \in SetToSeqs(S)
  PROVE  IsSeq(s) /\ (\A i \in DOMAIN s : s[i] \in S) /\ \A m \in S : \E i \in DOMAIN s : s[i] = m
  <1>1. PICK n \in Nat : n = Cardinality(S)
    BY FS_CardinalityType
  <1>2. s \in [1..n -> S] /\ \A i, j \in 1..n : i # j => s[i] # s[j]
    BY <1>1 DEF SetToSeqs
  <1>3. s \in Injection(1..n, S)
    BY <1>2 DEF Injection, IsInjective
  <1>4. Cardinality(1..n) = n
    BY FS_Interval
  <1>5. s \in Surjection(1..n, S)
    BY <1>1, <1>3, <1>4, FS_Injection
  <1>6. \A m \in S : \E i \in DOMAIN s : s[i] = m
    BY <1>2, <1>5 DEF Surjection
  <1>7. QED
    BY <1>2, <1>6, OrderIs

LEMMA DumpOfKind ==
  ASSUME NEW b \in Boards, NEW kind \in Kinds, IsFiniteSet(IdsOf(kind)),
         NEW s \in SetToSeqs({Dumped(b, kind, id) : id \in OnBoard(b, kind)})
  PROVE  DumpsOf(s, b, {kind})
  <1> DEFINE f == [id \in OnBoard(b, kind) |-> Dumped(b, kind, id)]
             S == {f[id] : id \in OnBoard(b, kind)}
  <1>1. s \in SetToSeqs(S)
    OBVIOUS
  <1>2. IsFiniteSet(OnBoard(b, kind))
    BY FS_Subset DEF OnBoard
  <1>3. \A id \in OnBoard(b, kind) : f[id] = Dumped(b, kind, id)
    OBVIOUS
  <1> HIDE DEF f
  <1>4. IsFiniteSet(S)
    BY <1>2, ImageIsFinite
  <1>5. IsSeq(s) /\ (\A i \in DOMAIN s : s[i] \in S) /\ \A m \in S : \E i \in DOMAIN s : s[i] = m
    <2> HIDE DEF S
    <2>1. QED
      BY <1>1, <1>4, Permutation
  <1>6. \A id \in OnBoard(b, kind) : Dumped(b, kind, id) \in S
    BY <1>3
  <1>7. \A m \in S : \E id \in OnBoard(b, kind) : m = Dumped(b, kind, id)
    BY <1>3
  <1> HIDE DEF S
  <1>8. QED
    BY <1>5, <1>6, <1>7 DEF DumpsOf

LEMMA DumpsJoin ==
  ASSUME NEW b, NEW s, NEW t, NEW some, NEW others, DumpsOf(s, b, some), DumpsOf(t, b, others)
  PROVE  DumpsOf(s \o t, b, some \cup others)
  <1>1. IsSeq(s) /\ IsSeq(t)
    BY DEF DumpsOf
  <1>2. \A i \in DOMAIN t : i + Len(s) \in DOMAIN (s \o t) /\ (s \o t)[i + Len(s)] = t[i]
    <2>1. PICK S : s \in Seq(S) /\ t \in Seq(S)
      BY <1>1, OneKind
    <2>2. QED
      BY <2>1, ConcatProperties
  <1>3. /\ DOMAIN (s \o t) = 1..(Len(s) + Len(t)) /\ IsSeq(s \o t)
        /\ \A i \in 1..Len(s) : (s \o t)[i] = s[i]
        /\ \A i \in (Len(s) + 1)..(Len(s) + Len(t)) : (s \o t)[i] = t[i - Len(s)]
        /\ Len(s) \in Nat /\ Len(t) \in Nat
        /\ DOMAIN s = 1..Len(s) /\ DOMAIN t = 1..Len(t)
    <2>1. PICK S : s \in Seq(S) /\ t \in Seq(S)
      BY <1>1, OneKind
    <2>2. s \o t \in Seq(S) /\ Len(s \o t) = Len(s) + Len(t)
      BY <2>1, ConcatProperties
    <2>3. DOMAIN (s \o t) = 1..(Len(s) + Len(t)) /\ IsSeq(s \o t)
      BY <2>1, <2>2 DEF IsSeq
    <2>4. QED
      BY <2>1, <2>3, ConcatProperties
  <1> DEFINE u == s \o t
  <1>4. ASSUME NEW i \in DOMAIN u
        PROVE  \/ i \in DOMAIN s /\ u[i] = s[i]
               \/ i - Len(s) \in DOMAIN t /\ u[i] = t[i - Len(s)]
    BY <1>3
  <1>5. /\ \A i \in DOMAIN s : i \in DOMAIN u /\ u[i] = s[i]
        /\ \A i \in DOMAIN t : \E j \in DOMAIN u : u[j] = t[i]
    BY <1>2, <1>3
  <1>6. IsSeq(u)
    BY <1>3
  <1> HIDE DEF u
  <1>7. \A i \in DOMAIN u : \E kind \in some \cup others : \E id \in OnBoard(b, kind) : u[i] = Dumped(b, kind, id)
    BY <1>4 DEF DumpsOf
  <1>8. \A kind \in some \cup others : \A id \in OnBoard(b, kind) : \E i \in DOMAIN u : u[i] = Dumped(b, kind, id)
    <2>1. ASSUME NEW kind \in some, NEW id \in OnBoard(b, kind)
          PROVE \E i \in DOMAIN u : u[i] = Dumped(b, kind, id)
      BY <1>5 DEF DumpsOf
    <2>2. ASSUME NEW kind \in others, NEW id \in OnBoard(b, kind)
          PROVE \E i \in DOMAIN u : u[i] = Dumped(b, kind, id)
      <3>1. PICK i \in DOMAIN t : t[i] = Dumped(b, kind, id)
        BY DEF DumpsOf
      <3>2. QED
        BY <1>5, <3>1
    <2>3. QED
      BY <2>1, <2>2
  <1>9. DumpsOf(u, b, some \cup others)
    BY <1>6, <1>7, <1>8 DEF DumpsOf
  <1>10. QED
    BY <1>9 DEF u

LEMMA DumpIsWhole ==
  ASSUME NEW b \in Boards, NEW dump \in Bootstraps(b)
  PROVE  DumpsOf(dump, b, Kinds)
  <1>1. PICK l \in LineDumps(b), n \in NoteDumps(b), i \in ImageDumps(b) : dump = (l \o n) \o i
    BY DEF Bootstraps
  <1>2. /\ OnBoard(b, "line") = Lines(b) /\ OnBoard(b, "note") = Notes(b)
        /\ OnBoard(b, "image") = Images(b)
    BY Ids DEF OnBoard, Lines, Notes, Images, Contents, Content
  <1>3. /\ IsFiniteSet(IdsOf("line")) /\ IsFiniteSet(IdsOf("note")) /\ IsFiniteSet(IdsOf("image"))
        /\ {"line", "note", "image"} \subseteq Kinds /\ Kinds = {"line", "note"} \cup {"image"}
    BY Ids, AppAssumption, ServerAssumption DEF Kinds
  <1>4. DumpsOf(l, b, {"line"})
    BY <1>2, <1>3, DumpOfKind DEF LineDumps, Dumped
  <1>5. DumpsOf(n, b, {"note"})
    BY <1>2, <1>3, DumpOfKind DEF NoteDumps, Dumped
  <1>6. DumpsOf(i, b, {"image"})
    BY <1>2, <1>3, DumpOfKind DEF ImageDumps, Dumped
  <1>7. DumpsOf(l \o n, b, {"line"} \cup {"note"})
    BY <1>4, <1>5, DumpsJoin
  <1>8. DumpsOf((l \o n) \o i, b, ({"line"} \cup {"note"}) \cup {"image"})
    BY <1>6, <1>7, DumpsJoin
  <1>9. Kinds = ({"line"} \cup {"note"}) \cup {"image"}
    BY DEF Kinds
  <1>10. QED
    BY <1>1, <1>8, <1>9

(* The newcomer hears that it was admitted, the members, and the figures.  *)
Admission(h, c, dump) ==
  \E w \in Boards :
    /\ w = fsm[h].board /\ fsm[c] = PendingOn(w) /\ fsm'[c] = UserOf(w) /\ h # c
    /\ \A x \in Clients : x # c => UNCHANGED fsm[x]
    /\ out'[c] = <<Plain("joinApproved", FALSE), TheirList(w)>> \o dump

LEMMA AdmissionMail ==
  ASSUME Books, Books', NEW h \in Clients, NEW c \in Clients, NEW dump, IsSeq(dump),
         ApproveJoin(h, c, dump), socket'[c] = "open"
  PROVE  Admission(h, c, dump)
  <1>0. PICK w \in Boards : w = fsm[h].board
    BY Decidable DEF ApproveJoin, getPendingClient
  <1>1. /\ fsm[h] = HostOf(w) /\ fsm[c] = PendingOn(w) /\ ~ended[w] /\ Admit(h, c, dump)
    BY <1>0, Decidable DEF ApproveJoin, getPendingClient
  <1>2. /\ fsm' = [fsm EXCEPT ![c] = UserOf(w)] /\ UNCHANGED ended
        /\ Emit(h, Only(c, <<Plain("joinApproved", FALSE)>>) ++ CurrentClientList(w)
                     ++ Only(c, dump) ++ Only(h, <<Success>>))
    BY <1>0, <1>1 DEF Admit, Using
  <1>3. fsm'[c] = UserOf(w) /\ \A x \in Clients : x # c => UNCHANGED fsm[x]
    BY <1>2 DEF Books, StateTypes
  <1>4. h # c
    BY <1>1, StatesDiffer
  <1> DEFINE first == Only(c, <<Plain("joinApproved", FALSE)>>)
             list  == CurrentClientList(w)
             more  == Only(c, dump)
             last  == Only(h, <<Success>>)
             all   == first ++ list ++ more ++ last
             two   == <<Plain("joinApproved", FALSE), TheirList(w)>>
  <1>5. first[c] = <<Plain("joinApproved", FALSE)>> /\ last[c] = <<>> /\ more[c] = dump
    <2>1. first[c] = <<Plain("joinApproved", FALSE)>>
      BY OnlyAt
    <2>2. more[c] = dump
      BY OnlyAt
    <2>3. last[c] = <<>>
      BY <1>4, OnlyAt
    <2>4. QED
      BY <2>1, <2>2, <2>3
  <1>6. list[c] = <<TheirList(w)>>
    BY <1>1, <1>2, <1>3, ListAt DEF InBoard
  <1>7. Emit(h, all)
    BY <1>2
  <1>8. first[c] \o list[c] = two
    BY <1>5, <1>6, ShortParts
  <1>9. IsSeq(two)
    <2>1. two \in Seq({Plain("joinApproved", FALSE), TheirList(w)})
      OBVIOUS
    <2>2. QED
      BY <2>1 DEF IsSeq
  <1> HIDE DEF first, list, more, last
  <1>10. all[c] = ((first[c] \o list[c]) \o more[c]) \o last[c]
    BY DEF ++
  <1> HIDE DEF all, two
  <1>11. out'[c] = all[c]
    BY <1>7, EmitAt
  <1>12. (two \o dump) \o <<>> = two \o dump
    <2>1. PICK S : two \in Seq(S) /\ dump \in Seq(S)
      BY <1>9, OneKind
    <2>2. two \o dump \in Seq(S)
      BY <2>1, ConcatProperties
    <2>3. QED
      BY <2>2, ConcatEmptySeq
  <1>13. out'[c] = two \o dump
    BY <1>5, <1>8, <1>10, <1>11, <1>12
  <1>14. QED
    BY <1>0, <1>1, <1>3, <1>4, <1>13 DEF two, Admission

LEMMA NewcomerHears ==
  ASSUME Books, Books', ContentsOK, UNCHANGED figureVars, NEW h \in Clients, NEW c \in Clients,
         NEW dump \in Bootstraps(fsm[h].board), ApproveJoin(h, c, dump), socket'[c] = "open",
         NEW body
  PROVE  h # c /\ AppTrail(c, FALSE, body) /\ FiguresTold(c)
  <1>0. IsSeq(dump)
    BY DumpIsSeq
  <1>1. PICK w \in Boards :
          /\ w = fsm[h].board /\ fsm[c] = PendingOn(w) /\ fsm'[c] = UserOf(w) /\ h # c
          /\ \A x \in Clients : x # c => UNCHANGED fsm[x]
          /\ out'[c] = <<Plain("joinApproved", FALSE), TheirList(w)>> \o dump
    <2>1. Admission(h, c, dump)
      BY <1>0, AdmissionMail
    <2>2. QED
      BY <2>1 DEF Admission
  <1> DEFINE two == <<Plain("joinApproved", FALSE), TheirList(w)>>
  <1>2. two \in Seq({two[1], two[2]}) /\ Len(two) = 2
        /\ two[1] = Plain("joinApproved", FALSE) /\ two[2] = TheirList(w)
    OBVIOUS
  <1>3. PICK f, g, o : f = fsm[c] /\ g = fsm'[c] /\ o = out'[c]
    OBVIOUS
  <1>4. o = two \o dump
    BY <1>1, <1>3
  <1> HIDE DEF two
  <1>5. /\ IsSeq(o) /\ Len(o) = 2 + Len(dump) /\ Len(dump) \in Nat /\ Len(o) \in Nat
        /\ 1 \in 1..Len(o)
        /\ o[1] = Plain("joinApproved", FALSE) /\ o[2] = TheirList(w)
        /\ \A i \in 1..Len(dump) : o[i + 2] = dump[i]
        /\ \A i \in 1..Len(o) : i > 2 => i - 2 \in 1..Len(dump) /\ o[i] = dump[i - 2]
    <2>1. IsSeq(two)
      BY <1>2 DEF IsSeq
    <2>2. PICK S : two \in Seq(S) /\ dump \in Seq(S)
      BY <1>0, <2>1, OneKind
    <2>3. /\ two \o dump \in Seq(S) /\ Len(two \o dump) = Len(two) + Len(dump)
          /\ \A i \in 1..Len(two) + Len(dump) :
               (two \o dump)[i] = IF i <= Len(two) THEN two[i] ELSE dump[i - Len(two)]
      BY <2>2, ConcatProperties
    <2>4. Len(dump) \in Nat
      BY <2>2
    <2>5. /\ Len(o) = 2 + Len(dump) /\ o \in Seq(S)
          /\ \A i \in 1..2 + Len(dump) : o[i] = IF i <= 2 THEN two[i] ELSE dump[i - 2]
      BY <1>2, <1>4, <2>3
    <2>6. \A i \in 1..Len(o) : i > 2 => i - 2 \in 1..Len(dump) /\ o[i] = dump[i - 2]
      BY <2>4, <2>5
    <2>7. \A i \in 1..Len(dump) : o[i + 2] = dump[i]
      <3> TAKE i \in 1..Len(dump)
      <3>1. i + 2 \in 1..2 + Len(dump) /\ ~(i + 2 <= 2) /\ (i + 2) - 2 = i
        BY <2>4
      <3>2. QED
        BY <2>5, <3>1
    <2>8. o[1] = two[1] /\ o[2] = two[2]
      BY <2>4, <2>5
    <2>9. IsSeq(o)
      BY <2>5 DEF IsSeq
    <2>10. QED
      BY <1>2, <2>4, <2>5, <2>6, <2>7, <2>8, <2>9
  <1>6. DumpsOf(dump, w, Kinds) /\ DOMAIN dump = 1..Len(dump)
    BY <1>0, <1>1, DumpIsWhole, SeqParts
  <1>7. Member(g)
    BY <1>1, <1>3 DEF Member
  <1>8. ASSUME NEW m, NEW kind \in Kinds, NEW id, m = Dumped(w, kind, id)
        PROVE  AppTells(m, FALSE, body, g, g)
    BY <1>7, <1>8, DumpedIs DEF AppTells
  <1>9. Tells(o[1], f, g) /\ o[1].type = "joinApproved"
    BY <1>1, <1>3, <1>5 DEF Tells, Plain
  <1>10. Tells(o[2], g, g) /\ o[2].type = "userListChanged"
    BY <1>5, ListTellsNothing
  <1>11. AppTrail(c, FALSE, body)
    <2>1. o # <<>>
      BY <1>5, OneIsList
    <2>2. ASSUME NEW i \in 1..Len(o)
          PROVE  AppTells(o[i], FALSE, body, IF i = 1 THEN f ELSE g, g)
      <3>4. i \in Nat /\ i > 0 /\ (i = 1 \/ i = 2 \/ i > 2)
        BY <1>5
      <3>5. PICK e : e = IF i = 1 THEN f ELSE g
        OBVIOUS
      <3>1. CASE i = 1
        BY <1>9, <3>1, <3>5 DEF AppTells
      <3>2. CASE i = 2
        BY <1>10, <3>2, <3>5 DEF AppTells
      <3>3. CASE i > 2
        <4>1. i - 2 \in DOMAIN dump /\ o[i] = dump[i - 2]
          BY <1>5, <1>6, <3>3
        <4>2. PICK kind \in Kinds : \E id \in OnBoard(w, kind) : dump[i - 2] = Dumped(w, kind, id)
          BY <1>6, <4>1 DEF DumpsOf
        <4>3. AppTells(o[i], FALSE, body, g, g)
          BY <1>8, <4>1, <4>2
        <4>4. e = g
          BY <3>3, <3>4, <3>5
        <4>5. QED
          BY <3>5, <4>3, <4>4
      <3>6. QED
        BY <3>4, <3>1, <3>2, <3>3
    <2>3. QED
      BY <1>3, <2>1, <2>2 DEF AppTrail
  <1>12. FiguresTold(c)
    <2> SUFFICES ASSUME NEW b \in Boards, g \in {UserOf(b), HostOf(b)},
                        NEW kind \in Kinds, NEW id \in IdsOf(kind)
                 PROVE  FigureTold(c, Contents[b][kind][id], Contents'[b][kind][id], kind, id)
      BY <1>3 DEF FiguresTold
    <2>1. b = w
      BY <1>1, <1>3, StatesDiffer
    <2>2. Contents' = Contents
      BY DEF figureVars, Contents, Content
    <2>3. PICK fig : fig = Contents[b][kind][id]
      OBVIOUS
    <2>4. ASSUME NEW j \in 1..Len(o), Concerns(o[j], kind, id) PROVE NewsOf(o[j]).now = fig
      <3>1. o[j].type \in FigureTypes /\ NewsOf(o[j]).kind = kind /\ NewsOf(o[j]).id = id
        BY <2>4 DEF Concerns
      <3>2. j # 1 /\ j # 2
        BY <1>9, <1>10, <3>1, FigureTypesAre
      <3>3. j - 2 \in DOMAIN dump /\ o[j] = dump[j - 2]
        BY <1>5, <1>6, <3>2
      <3>4. PICK k \in Kinds : \E i \in OnBoard(w, k) : o[j] = Dumped(w, k, i)
        BY <1>6, <3>3 DEF DumpsOf
      <3>5. PICK i \in OnBoard(w, k) : o[j] = Dumped(w, k, i)
        BY <3>4
      <3>6. NewsOf(o[j]) = Becomes(k, i, Contents[w][k][i])
        BY <3>5, DumpedIs
      <3>7. k = kind /\ i = id
        BY <3>1, <3>6 DEF Becomes
      <3>8. QED
        BY <2>1, <2>3, <3>6, <3>7 DEF Becomes
    <2>5. \E a \in 1..Len(o) : Brings(o[a], kind, id, fig)
      <3>1. CASE fig = NoFigure
        BY <1>5, <1>9, <3>1 DEF Brings
      <3>2. CASE fig # NoFigure
        <4>1. id \in OnBoard(w, kind)
          BY <2>1, <2>3, <3>2 DEF OnBoard
        <4>2. PICK i \in DOMAIN dump : dump[i] = Dumped(w, kind, id)
          BY <1>6, <4>1 DEF DumpsOf
        <4>3. i + 2 \in 1..Len(o) /\ o[i + 2] = Dumped(w, kind, id)
          BY <1>5, <1>6, <4>2
        <4>4. Brings(Dumped(w, kind, id), kind, id, fig)
          <5>1. /\ Dumped(w, kind, id).type \in FigureTypes
                /\ NewsOf(Dumped(w, kind, id)) = Becomes(kind, id, fig)
            BY <2>1, <2>3, DumpedIs
          <5>2. QED
            BY <5>1 DEF Brings, Concerns, Becomes
        <4>5. QED
          BY <4>3, <4>4
      <3>3. QED
        BY <3>1, <3>2
    <2>6. QED
      BY <1>3, <2>2, <2>3, <2>4, <2>5 DEF FigureTold
  <1>13. QED
    BY <1>1, <1>11, <1>12

(* A handler of the session, and an approval: everybody is told.           *)
EverybodyHears(c, body) ==
  \A x \in Clients : socket'[x] = "open" => AppTrail(x, x = c, body) /\ FiguresTold(x)

LEMMA SessionTells ==
  ASSUME Books, Books', ContentsOK, Posted, UNCHANGED figureVars, NEW c \in Clients, NEW body,
         Addressed(body), PlainHandler(c, body)
  PROVE  EverybodyHears(c, body)
  <1> SUFFICES ASSUME NEW x \in Clients, socket'[x] = "open"
               PROVE  AppTrail(x, x = c, body) /\ FiguresTold(x)
    BY DEF EverybodyHears
  <1>1. Settled(x) /\ IsSeq(out'[x])
    BY HandlerSettles DEF Posted
  <1>2. Approves(c, body, <<>>) => x # body.client \/ <<>> = <<>>
    OBVIOUS
  <1>3. NewsTrail(x, x = c, body)
    BY <1>2, HandlerNews DEF Tidings
  <1>4. QED
    BY <1>1, <1>3, SessionTrail, SessionFigures

LEMMA ApprovalTells ==
  ASSUME Books, Books', ContentsOK, Posted, UNCHANGED figureVars, NEW c \in Clients, NEW body,
         body.case = "approveOrDenyJoin", body.client \in Clients,
         NEW dump \in Bootstraps(fsm[c].board), ApproveJoin(c, body.client, dump)
  PROVE  EverybodyHears(c, body)
  <1> SUFFICES ASSUME NEW x \in Clients, socket'[x] = "open"
               PROVE  AppTrail(x, x = c, body) /\ FiguresTold(x)
    BY DEF EverybodyHears
  <1>1. CASE x = body.client
    <2>1. c # x /\ AppTrail(x, FALSE, body) /\ FiguresTold(x)
      BY <1>1, NewcomerHears
    <2>2. QED
      BY <2>1
  <1>2. CASE x # body.client
    <2>1. NewsTrail(x, x = c, body)
      BY <1>2, AdmitNews DEF Tidings
    <2>2. Settled(x)
      <3>1. PICK b : fsm' = [fsm EXCEPT ![body.client] = UserOf(b)]
        <4>1. BootstrappingApproval(c, body.client)
          BY DEF BootstrappingApproval, ApproveJoin
        <4>2. QED
          BY <4>1, ApprovalPosts
      <3>2. fsm'[x] = fsm[x]
        BY <1>2, <3>1 DEF Books, StateTypes
      <3>3. QED
        BY <3>2 DEF Settled
    <2>3. QED
      BY <2>1, <2>2, SessionTrail, SessionFigures DEF Posted
  <1>3. QED
    BY <1>1, <1>2
-----------------------------------------------------------------------------
(* A handler of figures changes nothing, or the figure of its message.     *)
NoFigureSet(c) ==
  /\ UNCHANGED figureVars
  /\ \A x \in Clients : out'[x] = <<>> \/ (x = c /\ \E m : m.type = "error" /\ out'[x] = <<m>>)

FigureIs(kind, b, id, fig) ==
  CASE kind = "line"  -> lines' = [lines EXCEPT ![b][id] = fig] /\ UNCHANGED <<notes, images>>
    [] kind = "note"  -> notes' = [notes EXCEPT ![b][id] = fig] /\ UNCHANGED <<lines, images>>
    [] kind = "image" -> images' = [images EXCEPT ![b][id] = fig] /\ UNCHANGED <<lines, notes>>

ProperFigure(kind, fig) ==
  (kind = "note" => fig \in NoteValues) /\ (kind = "image" => fig \in ImageValues)

FigureSet(body, b, kind, fig, m) ==
  /\ FigureIs(kind, b, body.id, fig)
  /\ m.type \in FigureTypes /\ m.re /\ NewsOf(m) = Becomes(kind, body.id, fig)
  /\ \A x \in Clients : out'[x] = IF socket'[x] = "open" /\ InBoard(x, b) THEN <<m>> ELSE <<>>
  /\ ContentsOK /\ Sensible(body) /\ body.id \in IdsOf(kind) => ProperFigure(kind, fig)

LEMMA DrawerIs ==
  ASSUME Books, NEW c \in Clients, NEW case \in FigureMessages, Dispatch(c, case)
  PROVE  LET b == fsm[c].board
         IN  b \in Boards /\ InBoard(c, b) /\ ~ended[b] /\ host[b] # NoClient
  <1>1. fsm[c] \in ClientFSM
    BY DEF Books, StateTypes
  <1>2. fsm[c].state \in {"ANONYMOUS", "NO_WHITEBOARD", "PENDING_APPROVAL", "USER", "HOST"}
    BY <1>1, States
  <1>3. fsm[c].state \in {"USER", "HOST"}
    BY <1>2 DEF Dispatch, ALLOWED_MESSAGES, FigureMessages
  <1>4. fsm[c].board \in Boards /\ InBoard(c, fsm[c].board)
    BY <1>1, <1>3, States DEF InBoard
  <1>5. QED
    BY <1>4 DEF Books, MembershipAgrees, Unopened

LEMMA MulticastAt ==
  ASSUME Books, NEW c \in Clients, NEW b \in Boards, b = fsm[c].board, ~ended[b], NEW m,
         Multicast(c, m), NEW x \in Clients
  PROVE  out'[x] = IF socket'[x] = "open" /\ InBoard(x, b) THEN <<m>> ELSE <<>>
  <1>1. clients[b][x] = IF InBoard(x, b) THEN 1 ELSE 0
    BY DEF Books, MembershipAgrees
  <1>2. PICK all : all = ToAll(clients[b], m)
    OBVIOUS
  <1>3. all[x] = IF InBoard(x, b) THEN <<m>> ELSE <<>>
    BY <1>1, <1>2, CopiesAt
  <1>4. out'[x] = IF socket'[x] = "open" THEN all[x] ELSE <<>>
    BY <1>2 DEF Multicast, Emit
  <1>5. QED
    BY <1>3, <1>4

LEMMA RefusedAt ==
  ASSUME NEW c \in Clients, UNCHANGED figureVars, NEW m, m.type = "error", Emit(c, Only(c, <<m>>))
  PROVE  NoFigureSet(c)
  <1>1. PICK all : all = Only(c, <<m>>)
    OBVIOUS
  <1>2. \A x \in Clients : all[x] = IF x = c THEN <<m>> ELSE <<>>
    BY <1>1, OnlyAt
  <1>3. \A x \in Clients : out'[x] \in {all[x], <<>>}
    BY <1>1 DEF Emit
  <1>4. QED
    BY <1>2, <1>3 DEF NoFigureSet

LEMMA NothingAt ==
  ASSUME NEW c \in Clients, UNCHANGED figureVars, Emit(c, Only(c, <<>>))
  PROVE  NoFigureSet(c)
  <1>1. PICK all : all = Only(c, <<>>)
    OBVIOUS
  <1>2. \A x \in Clients : all[x] = <<>>
    BY <1>1, OnlyAt
  <1>3. \A x \in Clients : out'[x] \in {all[x], <<>>}
    BY <1>1 DEF Emit
  <1>4. QED
    BY <1>2, <1>3 DEF NoFigureSet

LEMMA RefusalAt ==
  ASSUME NEW c \in Clients, NEW reason, Refuse(c, reason)
  PROVE  NoFigureSet(c)
  BY RefusedAt DEF Refuse, Error

FigureHandled(c, body) ==
  \/ NoFigureSet(c)
  \/ \E fig, m : FigureSet(body, fsm[c].board, StoreOf(body), fig, m)

LEMMA SetIsHandled ==
  ASSUME Books, NEW c \in Clients, NEW body, NEW b \in Boards, b = fsm[c].board, ~ended[b],
         NEW fig, NEW m, FigureIs(StoreOf(body), b, body.id, fig), Multicast(c, m),
         m.type \in FigureTypes, m.re, NewsOf(m) = Becomes(StoreOf(body), body.id, fig),
         ContentsOK /\ Sensible(body) /\ body.id \in IdsOf(StoreOf(body))
           => ProperFigure(StoreOf(body), fig)
  PROVE  FigureHandled(c, body)
  <1>1. FigureSet(body, b, StoreOf(body), fig, m)
    BY MulticastAt DEF FigureSet
  <1>2. QED
    BY <1>1 DEF FigureHandled

LEMMA FiguresAreProper ==
  ASSUME ContentsOK, NEW b \in Boards, NEW id, NEW c \in Clients
  PROVE  /\ \A position \in Coordinates, text \in Texts : Note(position, text, c) \in NoteValues
         /\ \A text \in Texts : id \in NoteIds /\ notes[b][id] # NoFigure =>
              WithText(notes[b][id], text, c) \in NoteValues
         /\ \A position \in Coordinates : id \in NoteIds /\ notes[b][id] # NoFigure =>
              MovedTo(notes[b][id], position) \in NoteValues
         /\ \A position \in Coordinates : Img(position, NextZIndex(b)) \in ImageValues
         /\ NoFigure \in NoteValues
  <1>1. NextZIndex(b) \in Nat
    <2>1. IsFiniteSet({i \in ImageIds : images[b][i] # NoFigure})
      BY ServerAssumption, FS_Subset
    <2>2. QED
      BY <2>1, FS_CardinalityType DEF NextZIndex
  <1>2. id \in NoteIds /\ notes[b][id] # NoFigure =>
          notes[b][id] \in [position : Coordinates, text : Texts, creatorId : Clients]
    BY DEF ContentsOK, NoteValues
  <1>3. QED
    BY <1>1, <1>2 DEF NoteValues, ImageValues, Note, WithText, MovedTo, Img

LEMMA StoresAre ==
  ASSUME NEW body
  PROVE  /\ body.case \in {"createNote", "updateNoteText", "updateNotePosition", "deleteNote"} =>
              StoreOf(body) = "note"
         /\ body.case \in {"createLine", "addPointsToLine", "removePointsFromLine", "deleteLine"} =>
              StoreOf(body) = "line"
         /\ body.case = "createImage" => StoreOf(body) = "image"
  BY DEF StoreOf

LEMMA LineHandled ==
  ASSUME Books, NEW c \in Clients, NEW body, NEW b \in Boards, b = fsm[c].board, ~ended[b],
         StoreOf(body) = "line", NEW points,
         StoreLine(c, body.id, points) \/
           (points = NoFigure /\ SetLine(c, body.id, points) /\ Multicast(c, LineDeleted(body.id)))
  PROVE  FigureHandled(c, body)
  <1>1. FigureIs("line", b, body.id, points)
    BY DEF FigureIs, StoreLine, SetLine
  <1>2. \E m : /\ Multicast(c, m) /\ m.type \in FigureTypes /\ m.re
               /\ NewsOf(m) = Becomes("line", body.id, points)
    BY DEF StoreLine, LineCreatedOrUpdated, LineDeleted, FigureTypes, NewsOf
  <1>3. ProperFigure("line", points)
    BY DEF ProperFigure
  <1>4. QED
    BY <1>1, <1>2, <1>3, SetIsHandled

LEMMA NoteHandled ==
  ASSUME Books, NEW c \in Clients, NEW body, NEW b \in Boards, b = fsm[c].board, ~ended[b],
         StoreOf(body) = "note", NEW note,
         ContentsOK /\ Sensible(body) /\ body.id \in NoteIds => note \in NoteValues,
         StoreNote(c, body.id, note) \/
           (note = NoFigure /\ SetNote(c, body.id, note) /\ Multicast(c, NoteDeleted(body.id)))
  PROVE  FigureHandled(c, body)
  <1>1. FigureIs("note", b, body.id, note)
    BY DEF FigureIs, StoreNote, SetNote
  <1>2. \E m : /\ Multicast(c, m) /\ m.type \in FigureTypes /\ m.re
               /\ NewsOf(m) = Becomes("note", body.id, note)
    BY DEF StoreNote, NoteCreatedOrUpdated, NoteDeleted, FigureTypes, NewsOf
  <1>3. ContentsOK /\ Sensible(body) /\ body.id \in IdsOf("note") => ProperFigure("note", note)
    BY Ids DEF ProperFigure
  <1>4. QED
    BY <1>1, <1>2, <1>3, SetIsHandled

LEMMA FigureHandlerIs ==
  ASSUME Books, NEW c \in Clients, NEW body, FigureHandler(c, body)
  PROVE  /\ FigureHandled(c, body) /\ body.case \in FigureMessages
         /\ UNCHANGED <<socket, fsm, boardVars>>
         /\ \E b \in Boards : b = fsm[c].board /\ InBoard(c, b) /\ host[b] # NoClient
  <1>1. body.case \in FigureMessages /\ UNCHANGED <<socket, fsm, boardVars>>
    BY FigurePosts
  <1>2. Dispatch(c, body.case)
    BY DEF FigureHandler, CreateLine, AddPointsToLine, RemovePointsFromLine, DeleteLine, CreateNote,
           UpdateNoteText, UpdateNotePosition, DeleteNote, CreateImage, Operation
  <1>3. PICK b \in Boards : b = fsm[c].board /\ InBoard(c, b) /\ ~ended[b] /\ host[b] # NoClient
    BY <1>1, <1>2, DrawerIs
  <1>4. ASSUME body.case = "createLine" /\ CreateLine(c, body.id, body.points) PROVE FigureHandled(c, body)
    BY <1>3, <1>4, StoresAre, LineHandled, RefusalAt DEF CreateLine, Operation, FigureHandled
  <1>5. ASSUME body.case = "addPointsToLine" /\ AddPointsToLine(c, body.id, body.points) PROVE FigureHandled(c, body)
    BY <1>3, <1>5, StoresAre, LineHandled, RefusalAt DEF AddPointsToLine, Operation, FigureHandled
  <1>6. ASSUME body.case = "removePointsFromLine" /\ RemovePointsFromLine(c, body.id, body.points) PROVE FigureHandled(c, body)
    BY <1>3, <1>6, StoresAre, LineHandled, RefusalAt, NothingAt
       DEF RemovePointsFromLine, Operation, FigureHandled
  <1>7. ASSUME body.case = "deleteLine" /\ DeleteLine(c, body.id) PROVE FigureHandled(c, body)
    BY <1>3, <1>7, StoresAre, LineHandled, RefusalAt DEF DeleteLine, Operation, FigureHandled
  <1>8. ASSUME body.case = "createNote" /\ CreateNote(c, body.id, body.position, body.text) PROVE FigureHandled(c, body)
    <2>1. ContentsOK /\ Sensible(body) /\ body.id \in NoteIds =>
            Note(body.position, body.text, c) \in NoteValues
      BY <1>3, <1>8, FiguresAreProper DEF Sensible
    <2>2. QED
      BY <1>3, <1>8, <2>1, StoresAre, NoteHandled, RefusalAt DEF CreateNote, Operation, FigureHandled
  <1>9. ASSUME body.case = "updateNoteText" /\ UpdateNoteText(c, body.id, body.text) PROVE FigureHandled(c, body)
    <2>1. ContentsOK /\ Sensible(body) /\ body.id \in NoteIds /\ notes[b][body.id] # NoFigure =>
            WithText(notes[b][body.id], body.text, c) \in NoteValues
      BY <1>3, <1>9, FiguresAreProper DEF Sensible
    <2>2. QED
      BY <1>3, <1>9, <2>1, StoresAre, NoteHandled, RefusalAt DEF UpdateNoteText, Operation, FigureHandled
  <1>10. ASSUME body.case = "updateNotePosition" /\ UpdateNotePosition(c, body.id, body.position) PROVE FigureHandled(c, body)
    <2>1. ContentsOK /\ Sensible(body) /\ body.id \in NoteIds /\ notes[b][body.id] # NoFigure =>
            MovedTo(notes[b][body.id], body.position) \in NoteValues
      BY <1>3, <1>10, FiguresAreProper DEF Sensible
    <2>2. QED
      BY <1>3, <1>10, <2>1, StoresAre, NoteHandled, RefusalAt
         DEF UpdateNotePosition, Operation, FigureHandled
  <1>11. ASSUME body.case = "deleteNote" /\ DeleteNote(c, body.id) PROVE FigureHandled(c, body)
    BY <1>3, <1>11, StoresAre, NoteHandled, RefusalAt, FiguresAreProper
       DEF DeleteNote, Operation, FigureHandled
  <1>12. ASSUME body.case = "createImage" /\ CreateImage(c, body.id, body.position) PROVE FigureHandled(c, body)
    <2>1. ContentsOK /\ Sensible(body) => Img(body.position, NextZIndex(b)) \in ImageValues
      BY <1>3, <1>12, FiguresAreProper DEF Sensible
    <2>2. PICK img : img = Img(body.position, NextZIndex(b))
      OBVIOUS
    <2>3. CASE /\ images' = [images EXCEPT ![b][body.id] = img] /\ UNCHANGED <<lines, notes>>
               /\ Multicast(c, ImageCreated(body.id, img, TRUE))
      <3>1. FigureIs("image", b, body.id, img)
        BY <2>3 DEF FigureIs
      <3>2. \E m : /\ Multicast(c, m) /\ m.type \in FigureTypes /\ m.re
                   /\ NewsOf(m) = Becomes("image", body.id, img)
        BY <2>3 DEF ImageCreated, FigureTypes, NewsOf
      <3>3. ContentsOK /\ Sensible(body) /\ body.id \in IdsOf("image") => ProperFigure("image", img)
        BY <2>1, <2>2 DEF ProperFigure
      <3>4. StoreOf(body) = "image"
        BY <1>12, StoresAre
      <3>5. QED
        BY <1>3, <3>1, <3>2, <3>3, <3>4, SetIsHandled
    <2>4. CASE \E reason : Refuse(c, reason)
      BY <2>4, RefusalAt DEF FigureHandled
    <2>5. QED
      BY <1>3, <1>12, <2>2, <2>3, <2>4 DEF CreateImage, Operation
  <1>13. FigureHandled(c, body)
    BY <1>4, <1>5, <1>6, <1>7, <1>8, <1>9, <1>10, <1>11, <1>12 DEF FigureHandler
  <1>14. QED
    BY <1>1, <1>3, <1>13

LEMMA ContentsAfter ==
  ASSUME ContentsOK, NEW b \in Boards, NEW kind \in Kinds, NEW id, NEW fig,
         FigureIs(kind, b, id, fig), NEW w \in Boards, NEW k \in Kinds, NEW i \in IdsOf(k)
  PROVE  Contents'[w][k][i] = IF w = b /\ k = kind /\ i = id THEN fig ELSE Contents[w][k][i]
  <1>1. /\ Contents[w][k][i] = CASE k = "line" -> lines[w][i] [] k = "note" -> notes[w][i]
                                 [] k = "image" -> images[w][i]
        /\ Contents'[w][k][i] = CASE k = "line" -> lines'[w][i] [] k = "note" -> notes'[w][i]
                                 [] k = "image" -> images'[w][i]
    BY DEF Contents, Content, Kinds
  <1>2. /\ k = "line" => i \in LineIds
        /\ k = "note" => i \in NoteIds
        /\ k = "image" => i \in ImageIds
    BY Ids
  <1>3. CASE kind = "line"
    <2>1. lines' = [lines EXCEPT ![b][id] = fig] /\ UNCHANGED <<notes, images>>
      BY <1>3 DEF FigureIs
    <2>2. k = "line" => lines'[w][i] = IF w = b /\ i = id THEN fig ELSE lines[w][i]
      BY <1>2, <2>1 DEF ContentsOK
    <2>3. QED
      BY <1>1, <1>3, <2>1, <2>2 DEF Kinds
  <1>4. CASE kind = "note"
    <2>1. notes' = [notes EXCEPT ![b][id] = fig] /\ UNCHANGED <<lines, images>>
      BY <1>4 DEF FigureIs
    <2>2. k = "note" => notes'[w][i] = IF w = b /\ i = id THEN fig ELSE notes[w][i]
      BY <1>2, <2>1 DEF ContentsOK
    <2>3. QED
      BY <1>1, <1>4, <2>1, <2>2 DEF Kinds
  <1>5. CASE kind = "image"
    <2>1. images' = [images EXCEPT ![b][id] = fig] /\ UNCHANGED <<lines, notes>>
      BY <1>5 DEF FigureIs
    <2>2. k = "image" => images'[w][i] = IF w = b /\ i = id THEN fig ELSE images[w][i]
      BY <1>2, <2>1 DEF ContentsOK
    <2>3. QED
      BY <1>1, <1>5, <2>1, <2>2 DEF Kinds
  <1>6. QED
    BY <1>3, <1>4, <1>5 DEF Kinds

LEMMA ContentsKept ==
  ASSUME ContentsOK, NEW b \in Boards, NEW kind \in Kinds, NEW id, NEW fig,
         FigureIs(kind, b, id, fig), id \in IdsOf(kind) => ProperFigure(kind, fig),
         fig # NoFigure => id \in taken, host[b] # NoClient, UNCHANGED <<taken, host>>
  PROVE  ContentsOK'
  <1>1. lines' = [w \in Boards |-> [l \in LineIds |-> lines'[w][l]]]
    BY DEF ContentsOK, FigureIs, Kinds
  <1>2. notes' \in [Boards -> [NoteIds -> NoteValues]]
    <2>1. notes \in [Boards -> [NoteIds -> NoteValues]]
      BY DEF ContentsOK
    <2>2. CASE kind # "note"
      BY <2>1, <2>2 DEF FigureIs, Kinds
    <2>3. CASE kind = "note"
      <3>1. notes' = [notes EXCEPT ![b][id] = fig]
        BY <2>3 DEF FigureIs
      <3>2. id \in NoteIds => fig \in NoteValues
        BY <2>3, Ids DEF ProperFigure
      <3>3. [notes[b] EXCEPT ![id] = fig] \in [NoteIds -> NoteValues]
        BY <2>1, <3>2
      <3>4. QED
        BY <2>1, <3>1, <3>3
    <2>4. QED
      BY <2>2, <2>3
  <1>3. images' \in [Boards -> [ImageIds -> ImageValues]]
    <2>1. images \in [Boards -> [ImageIds -> ImageValues]]
      BY DEF ContentsOK
    <2>2. CASE kind # "image"
      BY <2>1, <2>2 DEF FigureIs, Kinds
    <2>3. CASE kind = "image"
      <3>1. images' = [images EXCEPT ![b][id] = fig]
        BY <2>3 DEF FigureIs
      <3>2. id \in ImageIds => fig \in ImageValues
        BY <2>3, Ids DEF ProperFigure
      <3>3. [images[b] EXCEPT ![id] = fig] \in [ImageIds -> ImageValues]
        BY <2>1, <3>2
      <3>4. QED
        BY <2>1, <3>1, <3>3
    <2>4. QED
      BY <2>2, <2>3
  <1>4. ASSUME NEW w \in Boards, NEW k \in Kinds, NEW i \in IdsOf(k), Contents'[w][k][i] # NoFigure
        PROVE  i \in taken' /\ host'[w] # NoClient
    <2>1. Contents'[w][k][i] = IF w = b /\ k = kind /\ i = id THEN fig ELSE Contents[w][k][i]
      BY ContentsAfter
    <2>2. Contents[w][k][i] # NoFigure => i \in taken /\ host[w] # NoClient
      BY DEF ContentsOK, Contents
    <2>3. QED
      BY <1>4, <2>1, <2>2
  <1>5. \A w \in Boards : Content(w)' = Contents'[w]
    BY DEF Contents
  <1>6. QED
    BY <1>1, <1>2, <1>3, <1>4, <1>5 DEF ContentsOK

LEMMA StoreIsKind ==
  ASSUME NEW body, body.case \in FigureMessages
  PROVE  StoreOf(body) \in Kinds
  BY DEF StoreOf, Kinds, FigureMessages

LEMMA FigureTells ==
  ASSUME Books, ContentsOK, NEW c \in Clients, NEW body, FigureHandler(c, body)
  PROVE  EverybodyHears(c, body)
  <1> SUFFICES ASSUME NEW x \in Clients, socket'[x] = "open"
               PROVE  AppTrail(x, x = c, body) /\ FiguresTold(x)
    BY DEF EverybodyHears
  <1>1. PICK b \in Boards : b = fsm[c].board
    BY FigureHandlerIs
  <1>2. FigureHandled(c, body) /\ body.case \in FigureMessages /\ fsm'[x] = fsm[x]
    BY FigureHandlerIs
  <1>3. PICK g, o : g = fsm[x] /\ g = fsm'[x] /\ o = out'[x]
    BY <1>2
  <1>4. CASE NoFigureSet(c)
    <2>1. o = <<>> \/ \E m : m.type = "error" /\ o = <<m>>
      BY <1>3, <1>4 DEF NoFigureSet
    <2>2. \A i \in 1..Len(o) : o[i].type = "error"
      BY <2>1, OneIsList
    <2>3. AppTrail(x, x = c, body)
      BY <1>3, <2>2 DEF AppTrail, AppTells
    <2>4. \A i \in 1..Len(o) : \A kind, id : ~Concerns(o[i], kind, id)
      BY <2>2 DEF Concerns, FigureTypes
    <2>5. Contents' = Contents
      BY <1>4 DEF NoFigureSet, figureVars, Contents, Content
    <2>6. FiguresTold(x)
      BY <1>3, <2>4, <2>5 DEF FiguresTold, FigureTold
    <2>7. QED
      BY <2>3, <2>6
  <1>5. ASSUME NEW fig, NEW m, FigureSet(body, b, StoreOf(body), fig, m)
        PROVE  AppTrail(x, x = c, body) /\ FiguresTold(x)
    <2>1. PICK kind \in Kinds : kind = StoreOf(body)
      BY <1>2, StoreIsKind
    <2>2. PICK id : id = body.id
      OBVIOUS
    <2>3. /\ FigureIs(kind, b, id, fig) /\ m.type \in FigureTypes
          /\ NewsOf(m) = Becomes(kind, id, fig)
      BY <1>5, <2>1, <2>2 DEF FigureSet
    <2>4. o = IF InBoard(x, b) THEN <<m>> ELSE <<>>
      BY <1>3, <1>5 DEF FigureSet
    <2>5. \A i \in 1..Len(o) : InBoard(x, b) /\ o[i] = m
      BY <2>4, OneIsList
    <2>6. AppTrail(x, x = c, body)
      <3>1. InBoard(x, b) => Member(g)
        BY <1>3 DEF InBoard, Member
      <3>2. QED
        BY <1>2, <1>3, <2>3, <2>5, <3>1 DEF AppTrail, AppTells
    <2>7. FiguresTold(x)
      <3> SUFFICES ASSUME NEW w \in Boards, fsm'[x] \in {UserOf(w), HostOf(w)},
                          NEW k \in Kinds, NEW i \in IdsOf(k)
                   PROVE  FigureTold(x, Contents[w][k][i], Contents'[w][k][i], k, i)
        BY DEF FiguresTold
      <3>1. InBoard(x, w)
        BY <1>2 DEF InBoard
      <3>2. PICK was, now : was = Contents[w][k][i] /\ now = Contents'[w][k][i]
        OBVIOUS
      <3>3. now = IF w = b /\ k = kind /\ i = id THEN fig ELSE was
        BY <2>3, <3>2, ContentsAfter
      <3>4. Concerns(m, k, i) <=> k = kind /\ i = id
        BY <2>3 DEF Concerns, Becomes
      <3>5. \A j \in 1..Len(o) : Concerns(o[j], k, i) => NewsOf(o[j]).now = now
        <4>1. InBoard(x, b) => w = b
          BY <3>1, InOneBoard
        <4>2. QED
          BY <2>3, <2>5, <3>3, <3>4, <4>1 DEF Becomes
      <3>6. was = now \/ \E a \in 1..Len(o) : Brings(o[a], k, i, now)
        <4>1. CASE w = b /\ k = kind /\ i = id
          <5>1. o = <<m>>
            BY <2>4, <3>1, <4>1
          <5>2. Brings(m, k, i, now)
            BY <2>3, <3>3, <3>4, <4>1 DEF Brings, Becomes
          <5>3. 1 \in 1..Len(o) /\ o[1] = m
            BY <5>1, OneIsList
          <5>4. QED
            BY <5>2, <5>3
        <4>2. QED
          BY <3>3, <4>1
      <3>7. QED
        BY <1>3, <3>2, <3>5, <3>6 DEF FigureTold
    <2>8. QED
      BY <2>6, <2>7
  <1>6. QED
    BY <1>1, <1>2, <1>4, <1>5 DEF FigureHandled
-----------------------------------------------------------------------------
(* The handler of a request, whichever it is: everybody is told.           *)

(* Nobody is told anything before its socket is open, and a whiteboard     *)
(* once created stays so.                                                  *)
Reticent ==
  /\ \A x \in Clients : socket'[x] # "open" => out'[x] = <<>>
  /\ \A x \in Clients : socket[x] = "new" /\ fsm[x] = Anonymous => fsm'[x] = Anonymous
  /\ \A b \in Boards : host[b] # NoClient => host'[b] # NoClient

LEMMA HostsStay ==
  ASSUME Books, NEW c \in Clients,
         PlainStep(c) \/ \E y, dump : ApproveJoin(c, y, dump), NEW b \in Boards, host[b] # NoClient
  PROVE  host'[b] # NoClient
  <1> USE DEF Books, StateTypes
  <1>1. CASE \/ RegisterClient(c) \/ ClientHello(c)
             \/ \E case \in ClientToServerCase : NotAllowed(c, case)
             \/ \E y \in Clients : NoSuchApplicant(c, y)
    BY <1>1 DEF RegisterClient, ClientHello, NotAllowed, NoSuchApplicant, Answer, boardVars
  <1>2. ASSUME NEW w \in Boards, CreateWhiteboard(c, w) \/ JoinWhiteboard(c, w)
        PROVE  host'[b] # NoClient
    BY <1>2 DEF CreateWhiteboard, Hosting, addWhiteboard, JoinWhiteboard, WithApplicant, Answer, boardVars
  <1>3. ASSUME NEW y, NEW dump, DenyJoin(c, y) \/ ApproveJoin(c, y, dump)
        PROVE  host'[b] # NoClient
    BY <1>3 DEF DenyJoin, ApproveJoin, Admit, RefuseDecision, Throws, Answer, boardVars
  <1>4. CASE LeaveWhiteboard(c) \/ CloseSocket(c)
    BY <1>4 DEF LeaveWhiteboard, CloseSocket, DetachClient, EndSession, boardVars
  <1>5. QED
    BY <1>1, <1>2, <1>3, <1>4 DEF PlainStep

LEMMA PlainIsReticent ==
  ASSUME Books, NEW c \in Clients, PlainStep(c), socket[c] = "new" => UNCHANGED fsm
  PROVE  Reticent
  <1>1. ServerStep(c)
    BY DEF ServerStep
  <1>2. \A x \in Clients : socket'[x] # "open" => out'[x] = <<>>
    BY <1>1, OnlyOpenHear
  <1>3. \A x \in Clients : socket[x] = "new" /\ fsm[x] = Anonymous => fsm'[x] = Anonymous
    BY <1>1, AnonymousStays
  <1>4. QED
    BY <1>2, <1>3, HostsStay DEF Reticent

LEMMA ApprovalIsReticent ==
  ASSUME Books, NEW h \in Clients, NEW c \in Clients, NEW dump, ApproveJoin(h, c, dump)
  PROVE  Reticent
  <1>1. /\ fsm[h].board \in Boards /\ fsm[c] = PendingOn(fsm[h].board)
        /\ fsm' = [fsm EXCEPT ![c] = UserOf(fsm[h].board)]
    BY Decidable DEF ApproveJoin, getPendingClient, Admit, Using
  <1>2. Admit(h, c, dump)
    BY Decidable DEF ApproveJoin, getPendingClient
  <1>3. \A x \in Clients : socket'[x] # "open" => out'[x] = <<>>
    BY <1>2 DEF Admit, Emit
  <1>4. \A x \in Clients : fsm[x] = Anonymous => fsm'[x] = Anonymous
    <2>1. PendingOn(fsm[h].board) # Anonymous
      BY <1>1, StatesDiffer
    <2>2. QED
      BY <1>1, <2>1
  <1>5. QED
    BY <1>3, <1>4, HostsStay DEF Reticent

LEMMA FigureIsReticent ==
  ASSUME Books, NEW c \in Clients, NEW body, FigureHandler(c, body)
  PROVE  Reticent
  <1>1. FigureHandled(c, body) /\ UNCHANGED <<socket, fsm, boardVars>> /\ socket[c] = "open"
    <2>1. socket[c] = "open"
      BY DEF FigureHandler, CreateLine, AddPointsToLine, RemovePointsFromLine, DeleteLine,
             CreateNote, UpdateNoteText, UpdateNotePosition, DeleteNote, CreateImage,
             Operation, Dispatch
    <2>2. QED
      BY <2>1, FigureHandlerIs
  <1>2. UNCHANGED host
    BY <1>1 DEF boardVars
  <1>3. \A x \in Clients : socket'[x] # "open" => out'[x] = <<>>
    BY <1>1 DEF FigureHandled, NoFigureSet, FigureSet
  <1>4. QED
    BY <1>1, <1>2, <1>3 DEF Reticent

LEMMA HandlersAreReticent ==
  ASSUME Books, NEW c \in Clients, NEW body, BodyOK(body), PlainHandler(c, body)
  PROVE  Reticent /\ socket[c] = "open" /\ UNCHANGED socket
  <1>1. PlainStep(c)
    BY PlainHandlerIs
  <1>2. socket[c] = "open"
    BY DEF PlainHandler, NotAllowed, ClientHello, CreateWhiteboard, JoinWhiteboard,
           NoSuchApplicant, DenyJoin, LeaveWhiteboard, Dispatch
  <1>3. UNCHANGED socket
    BY DEF PlainHandler, NotAllowed, ClientHello, CreateWhiteboard, JoinWhiteboard,
           NoSuchApplicant, DenyJoin, RefuseDecision, Throws, LeaveWhiteboard, Answer
  <1>4. QED
    BY <1>1, <1>2, <1>3, PlainIsReticent

(* The figures that the handler of body sets were taken.                   *)
LEMMA ContentsStay ==
  ASSUME ContentsOK, UNCHANGED <<figureVars, taken>>, Reticent
  PROVE  ContentsOK'
  <1>1. \A b \in Boards : Content(b)' = Content(b)
    BY DEF figureVars, Content
  <1>2. \A b \in Boards, kind \in Kinds : \A id \in IdsOf(kind) :
          Content(b)'[kind][id] # NoFigure => id \in taken' /\ host'[b] # NoClient
    BY <1>1 DEF ContentsOK, Reticent
  <1>3. QED
    BY <1>2 DEF ContentsOK, figureVars

LEMMA HandledBody ==
  ASSUME BrowsersOK, NEW c \in Clients, toServer[c] # <<>>
  PROVE  BodyOK(Head(toServer[c]).body)
  <1>1. Mailbox(c, handlers[c], sent[c], toServer[c], toClient[c], fsm[c])
    BY DEF BrowsersOK, BrowserOK
  <1>2. toServer[c] # <<>>
    OBVIOUS
  <1>3. QED
    BY ONLY <1>1, <1>2, MailIsHandled

LEMMA HandledIs ==
  ASSUME BrowsersOK, ContentsOK, NEW c \in Clients, HandleFigure(c),
         NEW body, body = Head(toServer[c]).body, BodyFresh(body, taken)
  PROVE  /\ Posted /\ Books' /\ Reticent /\ UNCHANGED socket /\ socket[c] = "open"
         /\ EverybodyHears(c, body) /\ ContentsOK'
  <1>1. BodyOK(body)
    BY HandledBody DEF HandleFigure
  <1>2. Posted /\ Books' /\ Books
    BY <1>1, HandlingIs DEF BrowsersOK
  <1>3. UNCHANGED taken
    BY DEF HandleFigure
  <1>4. Addressed(body)
    BY <1>1 DEF Addressed, BodyOK
  <1>5. CASE PlainHandler(c, body) /\ UNCHANGED figureVars
    <2>1. Reticent /\ socket[c] = "open" /\ UNCHANGED socket
      BY <1>1, <1>2, <1>5, HandlersAreReticent
    <2>2. EverybodyHears(c, body)
      BY <1>2, <1>4, <1>5, SessionTells
    <2>3. QED
      BY <1>2, <1>3, <1>5, <2>1, <2>2, ContentsStay
  <1>6. CASE body.case = "approveOrDenyJoin" /\ BootstrappingApproval(c, body.client)
    <2>1. PICK dump \in Bootstraps(fsm[c].board) : ApproveJoin(c, body.client, dump)
      BY <1>6 DEF BootstrappingApproval
    <2>2. body.client \in Clients /\ UNCHANGED figureVars /\ socket[c] = "open"
      BY <1>4, <1>6 DEF Addressed, BootstrappingApproval, Dispatch
    <2>3. UNCHANGED socket
      BY <1>2, <1>6, <2>2, ApprovalPosts
    <2>4. Reticent
      BY <1>2, <2>1, <2>2, ApprovalIsReticent
    <2>5. EverybodyHears(c, body)
      BY <1>2, <1>6, <2>1, <2>2, ApprovalTells
    <2>6. QED
      BY <1>2, <1>3, <2>2, <2>3, <2>4, <2>5, ContentsStay
  <1>7. CASE FigureHandler(c, body)
    <2>1. /\ FigureHandled(c, body) /\ body.case \in FigureMessages
          /\ UNCHANGED <<socket, fsm, boardVars>>
          /\ \E b \in Boards : b = fsm[c].board /\ InBoard(c, b) /\ host[b] # NoClient
      BY <1>2, <1>7, FigureHandlerIs
    <2>2. Reticent
      BY <1>2, <1>7, FigureIsReticent
    <2>3. EverybodyHears(c, body)
      BY <1>2, <1>7, FigureTells
    <2>4. socket[c] = "open"
      BY <1>7 DEF FigureHandler, CreateLine, AddPointsToLine, RemovePointsFromLine, DeleteLine,
             CreateNote, UpdateNoteText, UpdateNotePosition, DeleteNote, CreateImage,
             Operation, Dispatch
    <2>5. ContentsOK'
      <3>1. CASE NoFigureSet(c)
        BY <1>3, <2>2, <3>1, ContentsStay DEF NoFigureSet
      <3>2. ASSUME NEW fig, NEW m, FigureSet(body, fsm[c].board, StoreOf(body), fig, m)
            PROVE  ContentsOK'
        <4>1. PICK b \in Boards : b = fsm[c].board /\ host[b] # NoClient
          BY <2>1
        <4>2. PICK kind \in Kinds : kind = StoreOf(body)
          BY <2>1, StoreIsKind
        <4>3. PICK id : id = body.id /\ id \in taken /\ Sensible(body)
          BY <2>1 DEF BodyFresh
        <4>4. FigureIs(kind, b, id, fig) /\ (id \in IdsOf(kind) => ProperFigure(kind, fig))
          BY <3>2, <4>1, <4>2, <4>3 DEF FigureSet
        <4>5. UNCHANGED <<taken, host>>
          BY <1>3, <2>1 DEF boardVars
        <4>6. QED
          BY <4>1, <4>3, <4>4, <4>5, ContentsKept
      <3>3. QED
        BY <2>1, <3>1, <3>2 DEF FigureHandled
    <2>6. QED
      BY <1>2, <2>1, <2>2, <2>3, <2>4, <2>5
  <1>8. QED
    BY <1>5, <1>6, <1>7 DEF HandleFigure
-----------------------------------------------------------------------------
(* The steps of the server keep everybody watching.                        *)

LEMMA RestingHears ==
  ASSUME Reticent, NEW x \in Clients, socket'[x] # "open", socket[x] = "new", fsm[x] = Anonymous,
         NEW mine, NEW body
  PROVE  fsm'[x] = Anonymous /\ out'[x] = <<>> /\ AppTrail(x, mine, body) /\ FiguresTold(x)
  <1>1. fsm'[x] = Anonymous /\ out'[x] = <<>>
    BY DEF Reticent
  <1>2. \A b \in Boards : fsm'[x] \notin {UserOf(b), HostOf(b)}
    BY <1>1, StatesDiffer
  <1>3. AppTrail(x, mine, body)
    BY <1>1, OneIsList DEF AppTrail
  <1>4. QED
    BY <1>1, <1>2, <1>3 DEF FiguresTold

(* What is said of the browsers when the server steps.                     *)
LEMMA ServerStepSight ==
  ASSUME BrowsersOK, SightOK, Posted, Books', Reticent, NEW id, Deliver(id),
         UNCHANGED <<browserVars, stores>>, NEW c, NEW body,
         \A x \in Clients : socket'[x] # "closed" => socket[x] # "closed",
         \A x \in Clients : socket'[x] = "new" => socket[x] = "new",
         \A x \in Clients : socket'[x] = "open" => AppTrail(x, x = c, body) /\ FiguresTold(x),
         \A x \in Clients \ Misled : Names(x, handlers[x], id, x = c, body)
  PROVE  \A x \in Clients : InSight(x)'
  <1> SUFFICES ASSUME NEW x \in Clients PROVE InSight(x)'
    OBVIOUS
  <1>1. InSight(x) /\ IsSeq(out'[x]) /\ IsSeq(toClient[x])
    BY DEF SightOK, Posted, BrowsersOK, BrowserOK, Mailbox, DownOK
  <1>2. /\ fsm[x] \in ClientFSM /\ fsm'[x] \in ClientFSM
        /\ socket'[x] \in {"new", "open", "closed"}
    BY DEF BrowsersOK, Books, StateTypes
  <1>3. UNCHANGED <<link, Misled>>
    BY DEF browserVars, Misled
  <1>4. ASSUME x \notin Misled', socket'[x] # "closed", link'[x] # "closed"
        PROVE  Watches(x)'
    <2>1. Watches(x) /\ x \notin Misled /\ link[x] # "closed"
      BY <1>1, <1>3, <1>4 DEF InSight
    <2>2. PICK mine : mine = (x = c)
      OBVIOUS
    <2>3. Names(x, handlers[x], id, mine, body)
      BY <2>1, <2>2
    <2>4. AppTrail(x, mine, body) /\ FiguresTold(x)
      <3>1. CASE socket'[x] = "open"
        BY <2>2, <3>1
      <3>2. CASE socket'[x] = "new"
        <4>1. socket[x] = "new" /\ fsm[x] = Anonymous
          BY <1>1, <3>2 DEF InSight
        <4>2. QED
          BY <3>2, <4>1, RestingHears
      <3>3. QED
        BY <1>2, <1>4, <3>1, <3>2
    <2>5. QED
      BY <1>1, <1>2, <2>1, <2>3, <2>4, NewsAreWatched
  <1>5. ASSUME socket'[x] = "new" PROVE fsm'[x] = Anonymous /\ toClient'[x] = <<>>
    <2>1. socket[x] = "new" /\ fsm[x] = Anonymous /\ toClient[x] = <<>>
      BY <1>1, <1>5 DEF InSight
    <2>2. fsm'[x] = Anonymous /\ out'[x] = <<>>
      BY <1>5, <2>1, RestingHears
    <2>3. QED
      BY <2>1, <2>2, NothingDelivered
  <1>6. QED
    BY <1>4, <1>5 DEF InSight

LEMMA HandledSight ==
  ASSUME BrowsersOK, SightOK, NEW c \in Clients, HandleFigure(c)
  PROVE  ContentsOK' /\ \A x \in Clients : InSight(x)'
  <1>1. PICK up : up = toServer[c]
    OBVIOUS
  <1>2. PICK body : body = Head(up).body
    OBVIOUS
  <1>3. PICK id : id = <<c, Head(up).id>>
    OBVIOUS
  <1>4. up # <<>> /\ Deliver(id) /\ UNCHANGED <<browserVars, stores>>
    BY <1>1, <1>3 DEF HandleFigure, Handled
  <1>5. IsSeq(up) /\ 1 \in DOMAIN up /\ Head(up) = up[1]
    <2>1. IsSeq(up)
      BY <1>1 DEF BrowsersOK, BrowserOK, Mailbox, UpOK
    <2>2. QED
      BY <1>4, <2>1, TailIs
  <1>6. BodyFresh(body, taken)
    BY <1>1, <1>2, <1>5 DEF SightOK, ChannelOK, Fresh
  <1>7. /\ Posted /\ Books' /\ Reticent /\ UNCHANGED socket
        /\ EverybodyHears(c, body) /\ ContentsOK'
    <2>1. ContentsOK
      BY DEF SightOK
    <2>2. body = Head(toServer[c]).body
      BY <1>1, <1>2
    <2>3. QED
      BY <1>6, <2>1, <2>2, HandledIs
  <1>8. ASSUME NEW x \in Clients \ Misled PROVE Names(x, handlers[x], id, x = c, body)
    <2>1. \A r \in handlers[x] : r.id \in Nat
      BY DEF BrowsersOK, StoresOK, RequestsOK
    <2>2. \A r \in handlers[c] : r.id = Head(up).id => r.body = body
      BY <1>1, <1>2, <1>5 DEF BrowsersOK, BrowserOK, Mailbox, UpOK
    <2>3. x = c /\ body.case \notin FigureMessages => \E r \in handlers[x] : id = <<x, r.id>>
      BY <1>1, <1>2, <1>3, <1>5 DEF SightOK, ChannelOK, Orderly, Misled
    <2>4. QED
      BY <1>3, <2>1, <2>2, <2>3 DEF Names
  <1>9. \A x \in Clients : InSight(x)'
    BY <1>4, <1>7, <1>8, ServerStepSight DEF EverybodyHears
  <1>10. QED
    BY <1>7, <1>9

LEMMA SocketSight ==
  ASSUME BrowsersOK, SightOK, NEW c \in Clients, SocketStep(c)
  PROVE  ContentsOK' /\ Posted /\ \A x \in Clients : InSight(x)'
  <1>1. /\ RegisterClient(c) \/ CloseSocket(c)
        /\ Deliver(NoMessage) /\ UNCHANGED <<browserVars, stores, figureVars, taken>>
    BY DEF SocketStep, SocketEvent
  <1>2. PlainStep(c) /\ Books /\ Books'
    BY <1>1, SocketKeepsMail DEF PlainStep, BrowsersOK
  <1>3. Posted
    BY <1>2, PlainStepSendsMail, MailIsPosted DEF MailSent
  <1>4. Reticent
    <2>1. socket[c] = "new" => UNCHANGED fsm
      BY <1>1 DEF RegisterClient, CloseSocket
    <2>2. QED
      BY <1>2, <2>1, PlainIsReticent
  <1>5. ContentsOK /\ ContentsOK'
    BY <1>1, <1>4, ContentsStay DEF SightOK
  <1>6. \A x \in Clients : /\ socket'[x] # "closed" => socket[x] # "closed"
                           /\ socket'[x] = "new" => socket[x] = "new"
    BY <1>1, <1>2 DEF RegisterClient, CloseSocket, Books, StateTypes
  <1>7. PICK body : body = Body("clientHello")
    OBVIOUS
  <1>8. \A x \in Clients : FALSE = (x = NoClient)
    BY SessionAssumption
  <1>9. ASSUME NEW x \in Clients, socket'[x] = "open"
        PROVE  AppTrail(x, x = NoClient, body) /\ FiguresTold(x)
    <2>1. NewsTrail(x, FALSE, body)
      BY <1>1, <1>2, <1>9, SocketNews DEF Tidings
    <2>2. Settled(x) /\ IsSeq(out'[x])
      BY <1>1, <1>2, <1>3, SocketSettles DEF Posted
    <2>3. FALSE \in BOOLEAN
      OBVIOUS
    <2>4. AppTrail(x, FALSE, body) /\ FiguresTold(x)
      BY <1>1, <1>5, <2>1, <2>2, <2>3, SessionTrail, SessionFigures
    <2>5. QED
      BY <1>8, <2>4
  <1>10. \A x \in Clients \ Misled : Names(x, handlers[x], NoMessage, x = NoClient, body)
    <2>1. \A x \in Clients : \A r \in handlers[x] : r.id \in Nat
      BY DEF BrowsersOK, StoresOK, RequestsOK
    <2>2. QED
      BY <1>8, <2>1, NoNumber DEF Names
  <1>11. \A x \in Clients : InSight(x)'
    BY <1>1, <1>2, <1>3, <1>4, <1>6, <1>9, <1>10, ServerStepSight
  <1>12. QED
    BY <1>3, <1>5, <1>11
-----------------------------------------------------------------------------
(* What a step of the server hands out answers one request, and tells of   *)
(* figures whose ids were taken.                                           *)
AnswersOnce(s) == \A i, j \in DOMAIN s : s[i].re /\ s[j].re => i = j
Familiar(x) ==
  \A i \in DOMAIN out'[x] : out'[x][i].type \in FigureTypes => NewsOf(out'[x][i]).id \in taken

LEMMA SessionIsFamiliar ==
  ASSUME NEW x, IsSeq(out'[x]), NEW mine \in BOOLEAN, NEW body, NewsTrail(x, mine, body)
  PROVE  Familiar(x)
  <1>1. DOMAIN out'[x] = 1..Len(out'[x])
    BY SeqParts
  <1>2. \A i \in 1..Len(out'[x]) : out'[x][i].type \notin FigureTypes
    BY DEF NewsTrail, Tells, Settles, FigureTypes
  <1>3. QED
    BY <1>1, <1>2 DEF Familiar

LEMMA SilenceIsFamiliar ==
  ASSUME NEW x, out'[x] = <<>>
  PROVE  Familiar(x)
  BY OneIsList DEF Familiar

LEMMA DumpIsFamiliar ==
  ASSUME Books, Books', ContentsOK, NEW h \in Clients, NEW c \in Clients,
         NEW dump \in Bootstraps(fsm[h].board), ApproveJoin(h, c, dump), socket'[c] = "open"
  PROVE  Familiar(c)
  <1>1. IsSeq(dump)
    BY DumpIsSeq
  <1>2. PICK w \in Boards : w = fsm[h].board /\ out'[c] = <<Plain("joinApproved", FALSE), TheirList(w)>> \o dump
    <2>1. Admission(h, c, dump)
      BY <1>1, AdmissionMail
    <2>2. QED
      BY <2>1 DEF Admission
  <1>3. DumpsOf(dump, w, Kinds)
    BY <1>2, DumpIsWhole
  <1>4. PICK two : two = <<Plain("joinApproved", FALSE), TheirList(w)>>
    OBVIOUS
  <1>5. IsSeq(two) /\ DOMAIN two = 1..2
    <2>1. two \in Seq({Plain("joinApproved", FALSE), TheirList(w)}) /\ Len(two) = 2
      BY <1>4
    <2>2. QED
      BY <2>1 DEF IsSeq
  <1>6. \A i \in DOMAIN two : two[i].type \notin FigureTypes
    <2>1. two[1] = Plain("joinApproved", FALSE) /\ two[2] = TheirList(w)
      BY <1>4
    <2>2. QED
      BY <1>5, <2>1, ListTellsNothing DEF Plain, FigureTypes
  <1>7. PICK o : o = out'[c] /\ o = two \o dump
    BY <1>2, <1>4
  <1>8. \A i \in DOMAIN o : \/ i \in DOMAIN two /\ o[i] = two[i]
                            \/ i - Len(two) \in DOMAIN dump /\ o[i] = dump[i - Len(two)]
    <2>1. \A i \in DOMAIN (two \o dump) :
            \/ i \in DOMAIN two /\ (two \o dump)[i] = two[i]
            \/ i - Len(two) \in DOMAIN dump /\ (two \o dump)[i] = dump[i - Len(two)]
      BY <1>1, <1>5, ConcatIs
    <2>2. QED
      BY <1>7, <2>1
  <1>9. \A i \in DOMAIN dump : NewsOf(dump[i]).id \in taken
    <2> SUFFICES ASSUME NEW i \in DOMAIN dump PROVE NewsOf(dump[i]).id \in taken
      OBVIOUS
    <2>1. PICK kind \in Kinds : \E id \in OnBoard(w, kind) : dump[i] = Dumped(w, kind, id)
      BY <1>3 DEF DumpsOf
    <2>2. PICK id \in OnBoard(w, kind) : dump[i] = Dumped(w, kind, id)
      BY <2>1
    <2>3. NewsOf(dump[i]).id = id
      BY <2>2, DumpedIs DEF Becomes
    <2>4. id \in taken
      BY <2>2 DEF OnBoard, ContentsOK, Contents
    <2>5. QED
      BY <2>3, <2>4
  <1>10. QED
    BY <1>6, <1>7, <1>8, <1>9 DEF Familiar

LEMMA HandlerAnswersOnce ==
  ASSUME Books, Books', NEW c \in Clients, NEW body, BodyOK(body), PlainHandler(c, body)
  PROVE  AnswersOnce(out'[c])
  <1>1. PlainStep(c)
    BY PlainHandlerIs
  <1>2. requester' = c
    BY DEF PlainHandler, NotAllowed, ClientHello, CreateWhiteboard, JoinWhiteboard, NoSuchApplicant,
           DenyJoin, RefuseDecision, Throws, LeaveWhiteboard, DetachClient, EndSession, Answer, Emit
  <1>3. QED
    BY <1>1, <1>2, PlainStepAnswers, SessionAssumption DEF Answered, Once, AnswersOnce

LEMMA HandledNews ==
  ASSUME BrowsersOK, ContentsOK, NEW c \in Clients, HandleFigure(c),
         NEW body, body = Head(toServer[c]).body, BodyFresh(body, taken)
  PROVE  AnswersOnce(out'[c]) /\ \A x \in Clients : Familiar(x)
  <1>1. BodyOK(body)
    BY HandledBody DEF HandleFigure
  <1>2. Posted /\ Books' /\ Reticent /\ Books
    BY HandledIs DEF BrowsersOK
  <1>3. Addressed(body)
    BY <1>1 DEF Addressed, BodyOK
  <1>4. CASE PlainHandler(c, body)
    <2>1. AnswersOnce(out'[c])
      BY <1>1, <1>2, <1>4, HandlerAnswersOnce
    <2>2. ASSUME NEW x \in Clients PROVE Familiar(x)
      <3>1. CASE socket'[x] = "open"
        <4>1. Approves(c, body, <<>>) => x # body.client \/ <<>> = <<>>
          OBVIOUS
        <4>2. NewsTrail(x, x = c, body)
          BY <1>2, <1>3, <1>4, <3>1, <4>1, HandlerNews DEF Tidings
        <4>3. QED
          BY <1>2, <4>2, SessionIsFamiliar DEF Posted
      <3>2. CASE socket'[x] # "open"
        BY <1>2, <3>2, SilenceIsFamiliar DEF Reticent
      <3>3. QED
        BY <3>1, <3>2
    <2>3. QED
      BY <2>1, <2>2
  <1>5. CASE body.case = "approveOrDenyJoin" /\ BootstrappingApproval(c, body.client)
    <2>1. PICK dump \in Bootstraps(fsm[c].board) : ApproveJoin(c, body.client, dump)
      BY <1>5 DEF BootstrappingApproval
    <2>2. body.client \in Clients
      BY <1>3, <1>5 DEF Addressed
    <2>3. AnswersOnce(out'[c])
      BY <1>2, <2>1, <2>2, DecisionsAnswer DEF Answered, Once, AnswersOnce
    <2>4. ASSUME NEW x \in Clients PROVE Familiar(x)
      <3>1. CASE socket'[x] # "open"
        BY <1>2, <3>1, SilenceIsFamiliar DEF Reticent
      <3>2. CASE socket'[x] = "open" /\ x = body.client
        BY <1>2, <2>1, <3>2, DumpIsFamiliar
      <3>3. CASE socket'[x] = "open" /\ x # body.client
        <4>1. NewsTrail(x, x = c, body)
          BY <1>2, <1>5, <2>1, <2>2, <3>3, AdmitNews DEF Tidings
        <4>2. QED
          BY <1>2, <4>1, SessionIsFamiliar DEF Posted
      <3>4. QED
        BY <3>1, <3>2, <3>3
    <2>5. QED
      BY <2>3, <2>4
  <1>6. CASE FigureHandler(c, body)
    <2>1. FigureHandled(c, body) /\ body.case \in FigureMessages
      BY <1>2, <1>6, FigureHandlerIs
    <2>2. CASE NoFigureSet(c)
      <3>1. \A x \in Clients : out'[x] = <<>> \/ \E m : m.type = "error" /\ out'[x] = <<m>>
        BY <2>2 DEF NoFigureSet
      <3>2. AnswersOnce(out'[c])
        BY <3>1, OneIsList DEF AnswersOnce
      <3>3. \A x \in Clients : Familiar(x)
        BY <3>1, OneIsList DEF Familiar, FigureTypes
      <3>4. QED
        BY <3>2, <3>3
    <2>3. ASSUME NEW fig, NEW m, FigureSet(body, fsm[c].board, StoreOf(body), fig, m)
          PROVE  AnswersOnce(out'[c]) /\ \A x \in Clients : Familiar(x)
      <3>1. \A x \in Clients : out'[x] = <<>> \/ out'[x] = <<m>>
        BY <2>3 DEF FigureSet
      <3>2. NewsOf(m).id \in taken
        BY <2>1, <2>3 DEF FigureSet, Becomes, BodyFresh
      <3>3. AnswersOnce(out'[c])
        BY <3>1, OneIsList DEF AnswersOnce
      <3>4. \A x \in Clients : Familiar(x)
        BY <3>1, <3>2, OneIsList DEF Familiar
      <3>5. QED
        BY <3>3, <3>4
    <2>4. QED
      BY <2>1, <2>2, <2>3 DEF FigureHandled
  <1>7. QED
    BY <1>4, <1>5, <1>6 DEF HandleFigure
-----------------------------------------------------------------------------
(* The channels of a browser stay orderly when the server steps.           *)

(* Of up, rest is what is left behind its first d letters.                 *)
LaterPart(rest, up, d) ==
  \A i \in DOMAIN rest : i \in Nat /\ i > 0 /\ i + d \in DOMAIN up /\ rest[i] = up[i + d]

LEMMA OrderlyHears ==
  ASSUME NEW x, NEW hs, NEW up, NEW down, NEW lost, Orderly(x, hs, up, down, lost),
         \A i \in DOMAIN up : up[i].id \in Nat, NEW d \in Nat, NEW rest, LaterPart(rest, up, d),
         IsSeq(down), NEW news, IsSeq(news),
         \A j \in DOMAIN news : \A k \in Nat :
           AnswersTo(x, news[j], k) => d \in DOMAIN up /\ k = up[d].id,
         \A i, j \in DOMAIN news, k \in Nat :
           AnswersTo(x, news[i], k) /\ AnswersTo(x, news[j], k) => i = j
  PROVE  Orderly(x, hs, rest, down \o news, lost) /\ Orderly(x, hs, rest, <<>>, lost)
  <1>1. \A i, j \in DOMAIN up : up[i].id = up[j].id => i = j
    BY DEF Orderly
  <1>2. \A i \in DOMAIN up, j \in DOMAIN down : ~AnswersTo(x, down[j], up[i].id)
    BY DEF Orderly
  <1>3. \A i, j \in DOMAIN down, k \in Nat :
          AnswersTo(x, down[i], k) /\ AnswersTo(x, down[j], k) => i = j
    BY DEF Orderly
  <1>4. \A i \in DOMAIN rest : i \in Nat /\ i > 0 /\ i + d \in DOMAIN up /\ rest[i] = up[i + d]
    BY DEF LaterPart
  <1>5. \A i, j \in DOMAIN rest : rest[i].id = rest[j].id => i = j
    BY <1>1, <1>4
  <1>6. ~lost => \A i \in DOMAIN rest : rest[i].body.case \notin FigureMessages =>
                   \E r \in hs : r.id = rest[i].id
    BY <1>4 DEF Orderly
  <1>7. PICK o : o = down \o news
    OBVIOUS
  <1>8. \A i \in DOMAIN o :
          \/ i \in DOMAIN down /\ o[i] = down[i]
          \/ /\ i - Len(down) \in DOMAIN news /\ o[i] = news[i - Len(down)]
             /\ i \in Nat /\ Len(down) \in Nat
    <2>1. \A i \in DOMAIN (down \o news) :
            \/ i \in DOMAIN down /\ (down \o news)[i] = down[i]
            \/ /\ i - Len(down) \in DOMAIN news /\ (down \o news)[i] = news[i - Len(down)]
               /\ i \in Nat /\ Len(down) \in Nat
      BY ConcatIs
    <2>2. QED
      BY <1>7, <2>1
  <1>9. \A i \in DOMAIN rest, j \in DOMAIN news : ~AnswersTo(x, news[j], rest[i].id)
    <2> SUFFICES ASSUME NEW i \in DOMAIN rest, NEW j \in DOMAIN news,
                        AnswersTo(x, news[j], rest[i].id)
                 PROVE  FALSE
      OBVIOUS
    <2>1. i \in Nat /\ i > 0 /\ i + d \in DOMAIN up /\ rest[i].id = up[i + d].id
          /\ rest[i].id \in Nat
      BY <1>4
    <2>2. d \in DOMAIN up /\ up[i + d].id = up[d].id
      BY <2>1
    <2>3. i + d = d
      BY <1>1, <2>1, <2>2
    <2>4. QED
      BY <2>1, <2>3
  <1>10. \A i \in DOMAIN rest, j \in DOMAIN o : ~AnswersTo(x, o[j], rest[i].id)
    BY <1>2, <1>4, <1>8, <1>9
  <1>11. \A i \in DOMAIN down, j \in DOMAIN news, k \in Nat :
           ~(AnswersTo(x, down[i], k) /\ AnswersTo(x, news[j], k))
    BY <1>2
  <1>12. ASSUME NEW i \in DOMAIN o, NEW j \in DOMAIN o, NEW k \in Nat,
                AnswersTo(x, o[i], k), AnswersTo(x, o[j], k)
         PROVE  i = j
    <2>1. CASE i \in DOMAIN down /\ o[i] = down[i] /\ j \in DOMAIN down /\ o[j] = down[j]
      BY <1>3, <1>12, <2>1
    <2>2. CASE /\ i - Len(down) \in DOMAIN news /\ o[i] = news[i - Len(down)]
               /\ j - Len(down) \in DOMAIN news /\ o[j] = news[j - Len(down)]
               /\ i \in Nat /\ j \in Nat /\ Len(down) \in Nat
      <3>1. i - Len(down) = j - Len(down)
        BY <1>12, <2>2
      <3>2. QED
        BY <2>2, <3>1
    <2>3. QED
      BY <1>8, <1>11, <1>12, <2>1, <2>2
  <1>13. Orderly(x, hs, rest, o, lost)
    BY <1>5, <1>6, <1>10, <1>12 DEF Orderly
  <1>14. Orderly(x, hs, rest, <<>>, lost)
    BY <1>5, <1>6, OneIsList DEF Orderly
  <1>15. QED
    BY <1>7, <1>13, <1>14

LEMMA FreshHears ==
  ASSUME NEW up, NEW down, NEW store, NEW used, Fresh(up, down, store, used),
         NEW d \in Nat, NEW rest, LaterPart(rest, up, d), IsSeq(down), NEW news, IsSeq(news),
         \A i \in DOMAIN news : news[i].body.type \in FigureTypes => NewsOf(news[i].body).id \in used
  PROVE  Fresh(rest, down \o news, store, used) /\ Fresh(rest, <<>>, store, used)
  <1>1. \A i \in DOMAIN rest : BodyFresh(rest[i].body, used)
    BY DEF Fresh, LaterPart
  <1>2. \A i \in DOMAIN (down \o news) :
          \/ i \in DOMAIN down /\ (down \o news)[i] = down[i]
          \/ i - Len(down) \in DOMAIN news /\ (down \o news)[i] = news[i - Len(down)]
    BY ConcatIs
  <1>3. \A i \in DOMAIN (down \o news) :
          (down \o news)[i].body.type \in FigureTypes => NewsOf((down \o news)[i].body).id \in used
    BY <1>2 DEF Fresh
  <1>4. QED
    BY <1>1, <1>3, OneIsList DEF Fresh

LEMMA Parts ==
  ASSUME NEW up, IsSeq(up)
  PROVE  /\ LaterPart(up, up, 0) /\ \A d \in Nat : LaterPart(<<>>, up, d)
         /\ up # <<>> => LaterPart(Tail(up), up, 1)
  <1>1. LaterPart(up, up, 0)
    <2>1. DOMAIN up = 1..Len(up) /\ Len(up) \in Nat
      BY SeqParts
    <2>2. \A i \in DOMAIN up : i \in Nat /\ i > 0 /\ i + 0 = i
      BY <2>1
    <2>3. QED
      BY <2>2 DEF LaterPart
  <1>2. \A d \in Nat : LaterPart(<<>>, up, d)
    BY OneIsList DEF LaterPart
  <1>3. up # <<>> => LaterPart(Tail(up), up, 1)
    BY TailIs DEF LaterPart
  <1>4. QED
    BY <1>1, <1>2, <1>3

(* The channels of x after a step of the server that hands out news.       *)
LEMMA ChannelHears ==
  ASSUME BrowsersOK, SightOK, NEW x \in Clients, Posted, Familiar(x), NEW id, Deliver(id),
         UNCHANGED <<browserVars, stores, taken>>, NEW d \in Nat,
         LaterPart(toServer'[x], toServer[x], d), AnswersOnce(out'[x]) \/ \A k \in Nat : id # <<x, k>>,
         \A k \in Nat : id = <<x, k>> => d \in DOMAIN toServer[x] /\ k = toServer[x][d].id
  PROVE  ChannelOK(x)'
  <1>1. PICK hs, up, down, lost : /\ hs = handlers[x] /\ up = toServer[x] /\ down = toClient[x]
                                  /\ lost = (x \in gaveUp)
    OBVIOUS
  <1>2. PICK rest, news : rest = toServer'[x] /\ news = Delivered(x, id)
    OBVIOUS
  <1>3. PICK store, used : store = stores[x] /\ used = taken
    OBVIOUS
  <1>4. /\ Orderly(x, hs, up, down, lost) /\ Fresh(up, down, store, used)
        /\ \A i \in DOMAIN up : up[i].id \in Nat
        /\ LaterPart(rest, up, d) /\ IsSeq(down)
    BY <1>1, <1>2, <1>3 DEF SightOK, ChannelOK, BrowsersOK, BrowserOK, Mailbox, UpOK, DownOK
  <1>5. IsSeq(out'[x])
    BY DEF Posted
  <1>6. /\ IsSeq(news) /\ Len(news) = Len(out'[x])
        /\ \A i \in 1..Len(out'[x]) :
             /\ news[i].body = out'[x][i] /\ (out'[x][i].re => news[i].causedBy = id)
             /\ (~out'[x][i].re => news[i].causedBy = NoMessage)
    BY <1>2, <1>5, DeliveredNews
  <1>7. DOMAIN out'[x] = 1..Len(out'[x]) /\ DOMAIN news = 1..Len(out'[x])
    <2>1. DOMAIN news = 1..Len(news)
      BY <1>6, SeqParts
    <2>2. QED
      BY <1>5, <1>6, <2>1, SeqParts
  <1>8. \A j \in DOMAIN news : \A k \in Nat : AnswersTo(x, news[j], k) => out'[x][j].re /\ id = <<x, k>>
    BY <1>6, <1>7, NoNumber DEF AnswersTo
  <1>9. \A j \in DOMAIN news : \A k \in Nat : AnswersTo(x, news[j], k) => d \in DOMAIN up /\ k = up[d].id
    BY <1>1, <1>8
  <1>10. \A i, j \in DOMAIN news, k \in Nat :
           AnswersTo(x, news[i], k) /\ AnswersTo(x, news[j], k) => i = j
    BY <1>7, <1>8 DEF AnswersOnce
  <1>11. Orderly(x, hs, rest, down \o news, lost) /\ Orderly(x, hs, rest, <<>>, lost)
    BY <1>4, <1>6, <1>9, <1>10, OrderlyHears
  <1>12. \A i \in DOMAIN news : news[i].body.type \in FigureTypes => NewsOf(news[i].body).id \in used
    BY <1>3, <1>6, <1>7 DEF Familiar
  <1>13. Fresh(rest, down \o news, store, used) /\ Fresh(rest, <<>>, store, used)
    BY <1>4, <1>6, <1>12, FreshHears
  <1>14. toClient'[x] = <<>> \/ toClient'[x] = down \o news
    BY <1>1, <1>2, DeliverAt
  <1>15. /\ hs = handlers'[x] /\ lost = (x \in gaveUp') /\ store = stores'[x] /\ used = taken'
         /\ rest = toServer'[x]
    BY <1>1, <1>2, <1>3 DEF browserVars
  <1>16. QED
    BY <1>11, <1>13, <1>14, <1>15 DEF ChannelOK

LEMMA HandlingKeepsSight ==
  ASSUME BrowsersOK, SightOK, NEW c \in Clients, HandleFigure(c)
  PROVE  SightOK'
  <1>1. ContentsOK' /\ \A x \in Clients : InSight(x)'
    BY HandledSight
  <1>2. PICK up : up = toServer[c]
    OBVIOUS
  <1>3. PICK id : id = <<c, Head(up).id>>
    OBVIOUS
  <1>4. /\ up # <<>> /\ Deliver(id) /\ UNCHANGED <<browserVars, stores, taken>>
        /\ toServer' = [toServer EXCEPT ![c] = Tail(up)]
    BY <1>2, <1>3 DEF HandleFigure, Handled
  <1>5. IsSeq(up) /\ 1 \in DOMAIN up /\ Head(up) = up[1]
    <2>1. IsSeq(up)
      BY <1>2 DEF BrowsersOK, BrowserOK, Mailbox, UpOK
    <2>2. QED
      BY <1>4, <2>1, TailIs
  <1>6. Posted /\ AnswersOnce(out'[c]) /\ \A x \in Clients : Familiar(x)
    <2>1. PICK body : body = Head(toServer[c]).body
      OBVIOUS
    <2>2. BodyFresh(body, taken)
      BY <1>2, <1>5, <2>1 DEF SightOK, ChannelOK, Fresh
    <2>3. ContentsOK
      BY DEF SightOK
    <2>4. QED
      BY <2>1, <2>2, <2>3, HandledIs, HandledNews
  <1>7. ASSUME NEW x \in Clients PROVE ChannelOK(x)'
    <2>1. CASE x = c
      <3>1. toServer'[x] = Tail(up) /\ toServer[x] = up
        BY <1>2, <1>4, <2>1 DEF BrowsersOK, MailDomains
      <3>2. LaterPart(toServer'[x], toServer[x], 1) /\ 1 \in Nat
        BY <1>4, <1>5, <3>1, Parts
      <3>3. \A k \in Nat : id = <<x, k>> => 1 \in DOMAIN toServer[x] /\ k = toServer[x][1].id
        BY <1>3, <1>5, <3>1
      <3>4. AnswersOnce(out'[x])
        BY <1>6, <2>1
      <3>5. QED
        BY <1>4, <1>6, <3>2, <3>3, <3>4, ChannelHears
    <2>2. CASE x # c
      <3>1. toServer'[x] = toServer[x] /\ IsSeq(toServer[x])
        BY <1>4, <2>2 DEF BrowsersOK, MailDomains, BrowserOK, Mailbox, UpOK
      <3>2. LaterPart(toServer'[x], toServer[x], 0) /\ 0 \in Nat
        BY <3>1, Parts
      <3>3. \A k \in Nat : id # <<x, k>>
        BY <1>3, <2>2
      <3>4. QED
        BY <1>4, <1>6, <3>2, <3>3, ChannelHears
    <2>3. QED
      BY <2>1, <2>2
  <1>8. QED
    BY <1>1, <1>7 DEF SightOK

LEMMA SocketKeepsSight ==
  ASSUME BrowsersOK, SightOK, NEW c \in Clients, SocketStep(c)
  PROVE  SightOK'
  <1>1. ContentsOK' /\ Posted /\ \A x \in Clients : InSight(x)'
    BY SocketSight
  <1>2. /\ RegisterClient(c) \/ CloseSocket(c)
        /\ Deliver(NoMessage) /\ UNCHANGED <<browserVars, stores, taken>>
        /\ toServer' = [toServer EXCEPT ![c] = <<>>]
    BY DEF SocketStep, SocketEvent
  <1>3. PlainStep(c) /\ Books /\ Books'
    BY <1>2, SocketKeepsMail DEF PlainStep, BrowsersOK
  <1>4. ASSUME NEW x \in Clients PROVE ChannelOK(x)'
    <2>1. Familiar(x)
      <3>1. CASE socket'[x] = "open"
        <4>1. NewsTrail(x, FALSE, Body("clientHello")) /\ FALSE \in BOOLEAN
          BY <1>2, <1>3, <3>1, SocketNews DEF Tidings
        <4>2. QED
          BY <1>1, <4>1, SessionIsFamiliar DEF Posted
      <3>2. CASE socket'[x] # "open"
        <4>1. ServerStep(c)
          BY <1>3 DEF ServerStep
        <4>2. QED
          BY <3>2, <4>1, OnlyOpenHear, SilenceIsFamiliar
      <3>3. QED
        BY <3>1, <3>2
    <2>2. IsSeq(toServer[x]) /\ (toServer'[x] = toServer[x] \/ toServer'[x] = <<>>)
      BY <1>2 DEF BrowsersOK, MailDomains, BrowserOK, Mailbox, UpOK
    <2>3. LaterPart(toServer'[x], toServer[x], 0) /\ 0 \in Nat
      BY <2>2, Parts
    <2>4. \A k \in Nat : NoMessage # <<x, k>>
      BY NoNumber
    <2>5. QED
      BY <1>1, <1>2, <2>1, <2>3, <2>4, ChannelHears
  <1>5. QED
    BY <1>1, <1>4 DEF SightOK
-----------------------------------------------------------------------------
(* A browser steps, and the server and the other browsers do not.          *)

LEMMA FreshLater ==
  ASSUME NEW up, NEW down, NEW store, NEW used, Fresh(up, down, store, used),
         NEW more, used \subseteq more
  PROVE  Fresh(up, down, store, more)
  BY DEF Fresh, BodyFresh

OthersStill(c) ==
  \A x \in Clients : x # c =>
    /\ handlers'[x] = handlers[x] /\ stores'[x] = stores[x] /\ link'[x] = link[x]
    /\ clientState'[x] = clientState[x]
    /\ toServer'[x] = toServer[x] /\ toClient'[x] = toClient[x]

(* The histories of what went wrong, and the ids, only grow.               *)
Grows ==
  /\ gaveUp \subseteq gaveUp' /\ astray \subseteq astray' /\ evicted \subseteq evicted'
  /\ taken \subseteq taken'

LEMMA ContentsRest ==
  ASSUME ContentsOK, UNCHANGED figureVars, ServerIdle, taken \subseteq taken'
  PROVE  ContentsOK' /\ Contents' = Contents
  <1>1. \A b \in Boards : Content(b)' = Content(b)
    BY DEF figureVars, Content
  <1>2. Contents' = Contents
    BY <1>1 DEF Contents
  <1>3. UNCHANGED host
    BY DEF ServerIdle, boardVars
  <1>4. \A b \in Boards, kind \in Kinds : \A id \in IdsOf(kind) :
          Content(b)'[kind][id] # NoFigure => id \in taken' /\ host'[b] # NoClient
    BY <1>1, <1>3 DEF ContentsOK
  <1>5. QED
    BY <1>2, <1>4 DEF ContentsOK, figureVars

LEMMA OneSight ==
  ASSUME SightOK, ServerIdle, UNCHANGED figureVars, Grows, NEW c \in Clients,
         OthersStill(c), ChannelOK(c)', InSight(c)'
  PROVE  SightOK'
  <1>1. ContentsOK' /\ Contents' = Contents /\ UNCHANGED <<socket, fsm>>
    BY ContentsRest DEF SightOK, Grows, ServerIdle
  <1>2. ASSUME NEW x \in Clients, x # c PROVE ChannelOK(x)' /\ InSight(x)'
    <2>1. /\ handlers'[x] = handlers[x] /\ stores'[x] = stores[x] /\ link'[x] = link[x]
          /\ clientState'[x] = clientState[x]
          /\ toServer'[x] = toServer[x] /\ toClient'[x] = toClient[x]
      BY <1>2 DEF OthersStill
    <2>2. ChannelOK(x) /\ InSight(x)
      BY DEF SightOK
    <2>3. Fresh(toServer[x], toClient[x], stores[x], taken')
      BY <2>2, FreshLater DEF ChannelOK, Grows
    <2>4. Orderly(x, handlers[x], toServer[x], toClient[x], x \in gaveUp')
      BY <2>2 DEF ChannelOK, Orderly, Grows
    <2>5. ChannelOK(x)'
      BY <2>1, <2>3, <2>4 DEF ChannelOK
    <2>6. x \notin Misled' => x \notin Misled
      BY DEF Grows, Misled
    <2>7. Watches(x) => Watches(x)'
      BY <1>1, <2>1 DEF Watches, Ready
    <2>8. QED
      BY <1>1, <2>1, <2>2, <2>5, <2>6, <2>7 DEF InSight
  <1>3. QED
    BY <1>1, <1>2 DEF SightOK

(* What reading, forgetting, losing and sending do to the order of mail.   *)
LEMMA OrderlyReads ==
  ASSUME NEW x, NEW hs, \A r \in hs : r.id \in Nat, NEW up, NEW down, IsSeq(down), down # <<>>,
         NEW lost, Orderly(x, hs, up, down, lost), NEW left,
         left = hs \ {r \in hs : AnswersTo(x, Head(down), r.id)}
  PROVE  Orderly(x, left, up, Tail(down), lost)
  <1>1. /\ 1 \in DOMAIN down /\ Head(down) = down[1]
        /\ \A i \in DOMAIN Tail(down) : i + 1 \in DOMAIN down /\ Tail(down)[i] = down[i + 1]
                                        /\ i \in Nat /\ i > 0
    BY TailIs
  <1>2. \A i \in DOMAIN up, j \in DOMAIN Tail(down) : ~AnswersTo(x, Tail(down)[j], up[i].id)
    BY <1>1 DEF Orderly
  <1>3. \A i, j \in DOMAIN Tail(down), k \in Nat :
          AnswersTo(x, Tail(down)[i], k) /\ AnswersTo(x, Tail(down)[j], k) => i = j
    BY <1>1 DEF Orderly
  <1>4. \A i \in DOMAIN up, r \in hs : r.id = up[i].id => r \in left
    BY <1>1 DEF Orderly
  <1>5. ~lost => \A i \in DOMAIN up : up[i].body.case \notin FigureMessages =>
                    \E r \in left : r.id = up[i].id
    BY <1>4 DEF Orderly
  <1>6. QED
    BY <1>2, <1>3, <1>5 DEF Orderly

LEMMA OrderlyForgets ==
  ASSUME NEW x, NEW hs, NEW n, NEW up, UpOK(hs, n, up), NEW down, NEW lost,
         Orderly(x, hs, up, down, lost), NEW q \in hs
  PROVE  /\ q.body.case \in FigureMessages => Orderly(x, hs \ {q}, up, down, lost)
         /\ Orderly(x, hs \ {q}, up, down, TRUE)
  <1>1. ASSUME q.body.case \in FigureMessages, ~lost, NEW i \in DOMAIN up,
               up[i].body.case \notin FigureMessages
        PROVE  \E r \in hs \ {q} : r.id = up[i].id
    <2>1. PICK r \in hs : r.id = up[i].id
      BY <1>1 DEF Orderly
    <2>2. r # q
      BY <1>1, <2>1 DEF UpOK
    <2>3. QED
      BY <2>1, <2>2
  <1>2. QED
    BY <1>1 DEF Orderly

LEMMA OrderlyLoses ==
  ASSUME NEW x, NEW hs, NEW up, NEW down, NEW lost, Orderly(x, hs, up, down, lost)
  PROVE  Orderly(x, hs, up, <<>>, lost)
  BY OneIsList DEF Orderly

LEMMA FreshReads ==
  ASSUME NEW up, NEW down, IsSeq(down), down # <<>>, NEW store, NEW used,
         Fresh(up, down, store, used), NEW new,
         \A kind \in Kinds : \A id \in IdsOf(kind) :
           new[kind][id] # NoTimeline =>
             \/ store[kind][id] # NoTimeline
             \/ Concerns(Head(down).body, kind, id)
  PROVE  Fresh(up, Tail(down), new, used)
  <1>1. /\ 1 \in DOMAIN down /\ Head(down) = down[1]
        /\ \A i \in DOMAIN Tail(down) : i + 1 \in DOMAIN down /\ Tail(down)[i] = down[i + 1]
    BY TailIs
  <1>2. \A kind \in Kinds : \A id \in IdsOf(kind) :
          Concerns(Head(down).body, kind, id) => id \in used
    BY <1>1 DEF Fresh, Concerns
  <1>3. QED
    BY <1>1, <1>2 DEF Fresh

LEMMA FreshLoses ==
  ASSUME NEW up, NEW down, NEW store, NEW used, Fresh(up, down, store, used), NEW new,
         \A kind \in Kinds : \A id \in IdsOf(kind) :
           new[kind][id] # NoTimeline => store[kind][id] # NoTimeline
  PROVE  Fresh(up, down, new, used) /\ Fresh(up, <<>>, new, used)
  BY OneIsList DEF Fresh
-----------------------------------------------------------------------------
(* New requests: their ids are greater than all that were given before.    *)
SentSafely(c, before, old, up, down, bodies, k, more, lost) ==
  /\ Orderly(c, more, up, down, lost)
  /\ \A i \in 1..Len(down) : \A r \in more : AnswersTo(c, down[i], r.id) => r \in before
  /\ \A i \in DOMAIN up : \/ i \in DOMAIN old /\ up[i] = old[i]
                          \/ \E j \in 1..k : up[i].body = bodies[j]

LEMMA OrderlySends ==
  ASSUME NEW c, NEW hs, NEW n \in Nat, NEW up, NEW down, NEW lost,
         UpOK(hs, n, up), DownOK(c, n, down), Orderly(c, hs, up, down, lost),
         NEW bodies, NEW k \in Nat, NEW more, hs \subseteq more, MoreWait(hs, n, bodies, k, more),
         \A i \in 1..k : [id |-> n + i, body |-> bodies[i]] \in more,
         NEW messages, Numbered(n, bodies, k, messages)
  PROVE  /\ SentSafely(c, hs, up, up, down, bodies, k, more, lost)
         /\ SentSafely(c, hs, up, up \o messages, down, bodies, k, more, lost)
  <1>0. /\ IsSeq(up) /\ IsSeq(down) /\ IsSeq(messages) /\ DOMAIN messages = 1..k
        /\ DOMAIN down = 1..Len(down)
    BY SeqParts DEF UpOK, DownOK, Numbered
  <1>1. \A i \in DOMAIN up : up[i].id \in Nat /\ up[i].id <= n
    BY DEF UpOK
  <1>2. \A i \in DOMAIN down : \A m \in Nat : AnswersTo(c, down[i], m) => m <= n
    BY DEF DownOK, AnswersTo
  <1>3. \A i \in 1..k : messages[i].id = n + i /\ messages[i].body = bodies[i] /\ messages[i] \in more
    BY DEF Numbered
  <1>4. \A i \in DOMAIN down : \A r \in more : AnswersTo(c, down[i], r.id) => r \in hs
    <2> SUFFICES ASSUME NEW i \in DOMAIN down, NEW r \in more, AnswersTo(c, down[i], r.id), r \notin hs
                 PROVE  FALSE
      OBVIOUS
    <2>1. PICK j \in 1..k : r.id = n + j
      BY DEF MoreWait
    <2>2. r.id \in Nat /\ ~(r.id <= n)
      BY <2>1
    <2>3. QED
      BY <1>2, <2>2
  <1>5. Orderly(c, more, up, down, lost)
    BY DEF Orderly
  <1>6. PICK all : all = up \o messages
    OBVIOUS
  <1>7. \A i \in DOMAIN all :
          \/ i \in DOMAIN up /\ all[i] = up[i]
          \/ i - Len(up) \in 1..k /\ all[i] = messages[i - Len(up)] /\ i \in Nat
    <2>1. \A i \in DOMAIN (up \o messages) :
            \/ i \in DOMAIN up /\ (up \o messages)[i] = up[i]
            \/ /\ i - Len(up) \in DOMAIN messages /\ (up \o messages)[i] = messages[i - Len(up)]
               /\ i > Len(up) /\ i \in Nat
      BY <1>0, ConcatIs
    <2>2. QED
      BY <1>0, <1>6, <2>1
  <1>8. Len(up) \in Nat /\ DOMAIN up = 1..Len(up)
    BY <1>0, SeqParts
  <1>9. \A i, j \in DOMAIN all : all[i].id = all[j].id => i = j
    <2> SUFFICES ASSUME NEW i \in DOMAIN all, NEW j \in DOMAIN all, all[i].id = all[j].id PROVE i = j
      OBVIOUS
    <2>1. ASSUME NEW v \in DOMAIN all, ~(v \in DOMAIN up /\ all[v] = up[v])
          PROVE  /\ v \in Nat /\ v - Len(up) \in 1..k
                 /\ all[v].id = n + (v - Len(up)) /\ all[v].id > n
      <3>1. v \in Nat /\ v - Len(up) \in 1..k /\ all[v] = messages[v - Len(up)]
        BY <1>7, <2>1
      <3>2. all[v].id = n + (v - Len(up))
        BY <1>3, <3>1
      <3>3. QED
        BY <1>8, <3>1, <3>2
    <2>2. CASE i \in DOMAIN up /\ all[i] = up[i] /\ j \in DOMAIN up /\ all[j] = up[j]
      BY <2>2 DEF Orderly
    <2>3. CASE i \in DOMAIN up /\ all[i] = up[i] /\ ~(j \in DOMAIN up /\ all[j] = up[j])
      BY <1>1, <2>1, <2>3
    <2>4. CASE j \in DOMAIN up /\ all[j] = up[j] /\ ~(i \in DOMAIN up /\ all[i] = up[i])
      BY <1>1, <2>1, <2>4
    <2>5. CASE ~(i \in DOMAIN up /\ all[i] = up[i]) /\ ~(j \in DOMAIN up /\ all[j] = up[j])
      BY <1>8, <2>1, <2>5
    <2>6. QED
      BY <2>2, <2>3, <2>4, <2>5
  <1>10. \A i \in DOMAIN all, j \in DOMAIN down : ~AnswersTo(c, down[j], all[i].id)
    <2> SUFFICES ASSUME NEW i \in DOMAIN all, NEW j \in DOMAIN down, AnswersTo(c, down[j], all[i].id)
                 PROVE  FALSE
      OBVIOUS
    <2>1. CASE i \in DOMAIN up /\ all[i] = up[i]
      BY <2>1 DEF Orderly
    <2>2. CASE i - Len(up) \in 1..k /\ all[i] = messages[i - Len(up)]
      <3>1. all[i].id \in Nat /\ ~(all[i].id <= n)
        BY <1>3, <2>2
      <3>2. QED
        BY <1>2, <3>1
    <2>3. QED
      BY <1>7, <2>1, <2>2
  <1>11. ~lost => \A i \in DOMAIN all : all[i].body.case \notin FigureMessages =>
                     \E r \in more : r.id = all[i].id
    BY <1>3, <1>7 DEF Orderly
  <1>12. Orderly(c, more, all, down, lost)
    BY <1>9, <1>10, <1>11 DEF Orderly
  <1>13. \A i \in DOMAIN all : \/ i \in DOMAIN up /\ all[i] = up[i]
                               \/ \E j \in 1..k : all[i].body = bodies[j]
    BY <1>3, <1>7
  <1>14. SentSafely(c, hs, up, all, down, bodies, k, more, lost)
    BY <1>0, <1>4, <1>12, <1>13 DEF SentSafely
  <1>15. SentSafely(c, hs, up, up, down, bodies, k, more, lost)
    BY <1>0, <1>4, <1>5 DEF SentSafely
  <1>16. QED
    BY <1>6, <1>14, <1>15

LEMMA SendingIsSafe ==
  ASSUME StoresOK, MailDomains, NEW c \in Clients, NEW before, before \subseteq handlers[c],
         NEW bodies, NEW k \in Nat, DOMAIN bodies = 1..k, Len(bodies) = k,
         SendAll(c, before, bodies), NEW down, UpOK(before, sent[c], toServer[c]),
         DownOK(c, sent[c], down), NEW lost, Orderly(c, before, toServer[c], down, lost)
  PROVE  /\ SentSafely(c, before, toServer[c], toServer'[c], down, bodies, k, handlers'[c], lost)
         /\ before \subseteq handlers'[c]
         /\ \A x \in Clients : x # c => handlers'[x] = handlers[x] /\ toServer'[x] = toServer[x]
  <1> DEFINE n == sent[c]
             up == toServer[c]
             messages == [i \in DOMAIN bodies |-> [id |-> n + i, body |-> bodies[i]]]
  <1>1. PICK more : SentAs(c, before, bodies, k, more)
    BY SentRequests
  <1>2. n \in Nat
    BY DEF StoresOK
  <1>3. Numbered(n, bodies, k, messages)
    <2>1. messages = [i \in 1..k |-> messages[i]]
      OBVIOUS
    <2>2. \A i \in 1..k : messages[i] = [id |-> n + i, body |-> bodies[i]]
      OBVIOUS
    <2> HIDE DEF messages
    <2>3. QED
      BY <2>1, <2>2, ListIsSeq DEF Numbered
  <1>4. \/ toServer' = [toServer EXCEPT ![c] = @ \o messages]
        \/ toServer' = toServer
    BY DEF SendAll
  <1>5. /\ toServer'[c] = up \o messages \/ toServer'[c] = up
        /\ \A x \in Clients : x # c => toServer'[x] = toServer[x]
    BY <1>4 DEF MailDomains
  <1>6. /\ MoreWait(before, n, bodies, k, more) /\ before \subseteq more
        /\ \A i \in 1..k : [id |-> n + i, body |-> bodies[i]] \in more
    BY <1>1 DEF SentAs, MoreWait
  <1>7. handlers'[c] = more /\ \A x \in Clients : x # c => handlers'[x] = handlers[x]
    BY <1>1 DEF SentAs, StoresOK
  <1>8. /\ SentSafely(c, before, up, up, down, bodies, k, more, lost)
        /\ SentSafely(c, before, up, up \o messages, down, bodies, k, more, lost)
    <2>1. UpOK(before, n, up) /\ DownOK(c, n, down) /\ Orderly(c, before, up, down, lost)
      OBVIOUS
    <2> HIDE DEF messages, n, up
    <2>2. QED
      BY ONLY <1>2, <1>3, <1>6, <2>1, k \in Nat, OrderlySends
  <1> HIDE DEF messages
  <1>9. QED
    BY <1>5, <1>6, <1>7, <1>8

LEMMA FreshSends ==
  ASSUME NEW c, NEW before, NEW old, NEW up, NEW down, NEW bodies, NEW k, NEW more, NEW lost,
         SentSafely(c, before, old, up, down, bodies, k, more, lost),
         NEW store, NEW used, Fresh(old, down, store, used),
         NEW later, used \subseteq later, \A j \in 1..k : BodyFresh(bodies[j], later), NEW new,
         \A kind \in Kinds : \A id \in IdsOf(kind) :
           new[kind][id] # NoTimeline => store[kind][id] # NoTimeline \/ id \in later
  PROVE  Fresh(up, down, new, later)
  <1>1. Fresh(old, down, store, later)
    BY FreshLater
  <1>2. \A i \in DOMAIN up : BodyFresh(up[i].body, later)
    BY <1>1 DEF SentSafely, Fresh, BodyFresh
  <1>3. QED
    BY <1>1, <1>2 DEF Fresh
-----------------------------------------------------------------------------
(* The steps of a browser keep everybody watching.                         *)

(* What is expected of the browser that steps.                             *)
LEMMA StillInSight ==
  ASSUME ContentsOK, ServerIdle, UNCHANGED figureVars, Grows, NEW c \in Clients,
         c \notin Misled' /\ socket[c] # "closed" /\ link'[c] # "closed" =>
           /\ Ready(c)'
           /\ Watching(c, handlers'[c], clientState'[c], stores'[c], toClient'[c], fsm[c], Contents),
         InSight(c), toClient[c] = <<>> => toClient'[c] = <<>>
  PROVE  InSight(c)'
  <1>1. Contents' = Contents /\ UNCHANGED <<socket, fsm>>
    BY ContentsRest DEF Grows, ServerIdle
  <1>2. c \notin Misled' /\ socket'[c] # "closed" /\ link'[c] # "closed" => Watches(c)'
    BY <1>1 DEF Watches
  <1>3. QED
    BY <1>1, <1>2 DEF InSight

LEMMA BlankAgain ==
  ASSUME NEW store, NEW new,
         \A kind \in Kinds : \A id \in IdsOf(kind) :
           CommittedAt(new, kind, id) = CommittedAt(store, kind, id), Blank(store)
  PROVE  Blank(new)
  BY DEF Blank

(* A patch changes nothing of what a store has from the server.            *)
SameCopies(store, new, used) ==
  \A kind \in Kinds : \A id \in IdsOf(kind) :
    /\ CommittedAt(new, kind, id) = CommittedAt(store, kind, id)
    /\ new[kind][id] # NoTimeline => store[kind][id] # NoTimeline \/ id \in used

(* The browser sends k requests, and its store becomes new.                *)
Presses(c, bodies, k, new) ==
  /\ DOMAIN bodies = 1..k /\ Len(bodies) = k /\ PressAll(c, bodies)
  /\ UNCHANGED figureVars /\ taken \subseteq taken' /\ \A j \in 1..k : BodyFresh(bodies[j], taken')
  /\ stores' = [stores EXCEPT ![c] = new] /\ SameCopies(stores[c], new, taken')

LEMMA PressingKeepsSight ==
  ASSUME BrowsersOK, SightOK, NEW c \in Clients, NEW bodies, NEW k \in Nat, NEW new,
         Presses(c, bodies, k, new)
  PROVE  SightOK'
  <1>0. /\ DOMAIN bodies = 1..k /\ Len(bodies) = k /\ PressAll(c, bodies)
        /\ UNCHANGED figureVars /\ taken \subseteq taken' /\ \A j \in 1..k : BodyFresh(bodies[j], taken')
        /\ stores' = [stores EXCEPT ![c] = new]
        /\ \A kind \in Kinds : \A id \in IdsOf(kind) :
             /\ CommittedAt(new, kind, id) = CommittedAt(stores[c], kind, id)
             /\ new[kind][id] # NoTimeline => stores[c][kind][id] # NoTimeline \/ id \in taken'
    BY DEF Presses, SameCopies
  <1> USE <1>0
  <1>1. /\ SendAll(c, handlers[c], bodies) /\ ServerIdle
        /\ UNCHANGED <<link, clientState, gaveUp, astray, evicted, toClient>>
    BY DEF PressAll
  <1>2. StoresOK /\ MailDomains /\ UpOK(handlers[c], sent[c], toServer[c]) /\ DownOK(c, sent[c], toClient[c])
    BY DEF BrowsersOK, BrowserOK, Mailbox
  <1>3. PICK lost : lost = (c \in gaveUp)
    OBVIOUS
  <1>4. Orderly(c, handlers[c], toServer[c], toClient[c], lost) /\ Fresh(toServer[c], toClient[c], stores[c], taken)
    BY <1>3 DEF SightOK, ChannelOK
  <1>5. /\ SentSafely(c, handlers[c], toServer[c], toServer'[c], toClient[c], bodies, k, handlers'[c], lost)
        /\ handlers[c] \subseteq handlers'[c]
        /\ \A x \in Clients : x # c => handlers'[x] = handlers[x] /\ toServer'[x] = toServer[x]
    <2>1. handlers[c] \subseteq handlers[c]
      OBVIOUS
    <2>2. QED
      BY <1>1, <1>2, <1>4, <2>1, SendingIsSafe
  <1>6. stores'[c] = new /\ \A x \in Clients : x # c => stores'[x] = stores[x]
    BY <1>2 DEF StoresOK
  <1>7. Grows /\ OthersStill(c)
    BY <1>1, <1>5, <1>6 DEF Grows, OthersStill
  <1>8. Fresh(toServer'[c], toClient[c], new, taken')
    BY <1>4, <1>5, FreshSends
  <1>9. ChannelOK(c)'
    BY <1>1, <1>3, <1>5, <1>6, <1>8 DEF ChannelOK, SentSafely
  <1>10. ASSUME c \notin Misled', socket[c] # "closed", link'[c] # "closed"
         PROVE  /\ Ready(c)'
                /\ Watching(c, handlers'[c], clientState'[c], stores'[c], toClient'[c], fsm[c], Contents)
    <2>1. Watches(c)
      BY <1>1, <1>10 DEF SightOK, InSight, Misled
    <2>2. Ready(c)'
      BY <1>1, <1>6, <2>1, BlankAgain DEF Watches, Ready
    <2>3. Watching(c, handlers'[c], clientState[c], new, toClient[c], fsm[c], Contents)
      <3>1. Watching(c, handlers[c], clientState[c], stores[c], toClient[c], fsm[c], Contents)
        BY <2>1 DEF Watches
      <3>2. \A i \in 1..Len(toClient[c]) : \A r \in handlers'[c] :
              AnswersTo(c, toClient[c][i], r.id) => r \in handlers[c]
        BY <1>5 DEF SentSafely
      <3>3. QED
        BY <1>5, <3>1, <3>2, SentIsSight
    <2>4. QED
      BY <1>1, <1>6, <2>2, <2>3
  <1>11. InSight(c)'
    BY <1>1, <1>7, <1>10, StillInSight DEF SightOK
  <1>12. QED
    BY <1>1, <1>7, <1>9, <1>11, OneSight

LEMMA OnePressIsPressing ==
  ASSUME BrowsersOK, SightOK, NEW c \in Clients, NEW body, body.case \notin FigureMessages,
         PressAll(c, <<body>>), UNCHANGED <<figureVars, taken, stores>>
  PROVE  \E bodies, new : \E k \in Nat : Presses(c, bodies, k, new)
  <1> DEFINE bodies == <<body>>
  <1>1. /\ DOMAIN bodies = 1..1 /\ Len(bodies) = 1 /\ 1 \in Nat
        /\ \A i \in 1..1 : bodies[i] = body
    OBVIOUS
  <1>2. PressAll(c, bodies)
    OBVIOUS
  <1> HIDE DEF bodies
  <1>3. \A j \in 1..1 : BodyFresh(bodies[j], taken')
    BY <1>1 DEF BodyFresh
  <1>4. stores' = [stores EXCEPT ![c] = stores[c]]
    BY DEF BrowsersOK, StoresOK
  <1>5. SameCopies(stores[c], stores[c], taken')
    BY DEF SameCopies
  <1>6. Presses(c, bodies, 1, stores[c])
    BY <1>1, <1>2, <1>3, <1>4, <1>5 DEF Presses
  <1>7. QED
    BY <1>1, <1>6

LEMMA OnePressKeepsSight ==
  ASSUME BrowsersOK, SightOK, NEW c \in Clients, NEW body, body.case \notin FigureMessages,
         PressAll(c, <<body>>), UNCHANGED <<figureVars, taken, stores>>
  PROVE  SightOK'
  <1>1. PICK bodies, new : \E k \in Nat : Presses(c, bodies, k, new)
    BY OnePressIsPressing
  <1>2. PICK k \in Nat : Presses(c, bodies, k, new)
    BY <1>1
  <1>3. QED
    BY <1>2, PressingKeepsSight

(* Nobody looks at the store of a browser that is not in a whiteboard.     *)
LEMMA StoreIsMoot ==
  ASSUME NEW x, NEW hs, NEW s, NEW t, Shown(t) = Shown(s), ~Member(Shown(s)), NEW store, NEW new,
         NEW down, NEW g, NEW all, Watching(x, hs, s, store, down, g, all)
  PROVE  Watching(x, hs, t, new, down, g, all)
  <1>1. PICK p \in [0..Len(down) -> ClientFSM] : Sight(x, hs, s, store, down, g, all, p)
    BY DEF Watching
  <1>2. Course(x, hs, Shown(t), down, g, p) /\ p[0] = Shown(s)
    BY <1>1 DEF Sight, Course
  <1>3. ASSUME NEW b \in Boards, g \in {UserOf(b), HostOf(b)}, NEW kind \in Kinds, NEW id \in IdsOf(kind)
        PROVE  Copied(down, new, g, p, kind, id, all[b][kind][id])
    <2>1. Copied(down, store, g, p, kind, id, all[b][kind][id])
      BY <1>1, <1>3 DEF Sight, AllCopied
    <2>2. PICK i \in 0..Len(down) : Place(p, down, g, i) /\ FigureAt(down, store, kind, id, all[b][kind][id], i)
      BY <2>1 DEF Copied
    <2>3. i # 0
      <3>1. i = 0 => p[0] = g
        BY <2>2 DEF Place
      <3>2. QED
        BY <1>2, <1>3, <3>1 DEF Member
    <2>4. FigureAt(down, new, kind, id, all[b][kind][id], i)
      BY <2>2, <2>3 DEF FigureAt
    <2>5. QED
      BY <2>2, <2>4 DEF Copied
  <1>4. Sight(x, hs, t, new, down, g, all, p)
    BY <1>2, <1>3 DEF Sight, AllCopied
  <1>5. QED
    BY <1>4 DEF Watching

(* Timelines that a step makes.                                            *)
LEMMA NoNewTimelines ==
  ASSUME NEW requests, NEW store, StoreOK(requests, store), NEW kind \in Kinds, NEW id \in IdsOf(kind)
  PROVE  /\ NoStore[kind][id] = NoTimeline
         /\ \A r : discardPatch(store, r)[kind][id] # NoTimeline => store[kind][id] # NoTimeline
         /\ \A s, r, m : storeAfterCallback(store, s, r, m)[kind][id] # NoTimeline =>
              store[kind][id] # NoTimeline
         /\ \A m : storeAfterMessage(store, m)[kind][id] # NoTimeline =>
              store[kind][id] # NoTimeline \/ Concerns(m, kind, id)
  <1>1. NoStore[kind][id] = NoTimeline
    BY DEF NoStore, IdsOf, Kinds
  <1>2. StoreShape(store)
    BY DEF StoreOK
  <1>3. ASSUME NEW r, discardPatch(store, r)[kind][id] # NoTimeline PROVE store[kind][id] # NoTimeline
    <2> DEFINE k == StoreOf(r.body)
               i == r.body.id
               entry == store[k][i]
               value == IF entry = NoTimeline THEN entry ELSE T!discardPatch(entry, r.id)
    <2>1. discardPatch(store, r) = Put(store, k, i, value)
      BY DEF discardPatch, Put
    <2>2. kind = k /\ id = i /\ store[kind][id] = NoTimeline => value = NoTimeline
      OBVIOUS
    <2> HIDE DEF value, k, i
    <2>3. Put(store, k, i, value)[kind][id] = IF kind = k /\ id = i THEN value ELSE store[kind][id]
      BY <1>2, EntryIs
    <2>4. QED
      BY <1>3, <2>1, <2>2, <2>3
  <1>4. ASSUME NEW s, NEW r, NEW m, storeAfterCallback(store, s, r, m)[kind][id] # NoTimeline
        PROVE  store[kind][id] # NoTimeline
    BY <1>1, <1>3, <1>4 DEF storeAfterCallback
  <1>5. ASSUME NEW k, NEW i, NEW figure, setServerState(store, k, i, figure)[kind][id] # NoTimeline,
               ~(kind = k /\ id = i)
        PROVE  store[kind][id] # NoTimeline
    <2> DEFINE entry == store[k][i]
               value == IF entry # NoTimeline THEN T!setCommitted(entry, figure)
                        ELSE IF figure = NoFigure THEN entry ELSE T!newCommittedTimeline(figure)
    <2>1. setServerState(store, k, i, figure) = Put(store, k, i, value)
      BY DEF setServerState, Put
    <2> HIDE DEF value
    <2>2. Put(store, k, i, value)[kind][id] = store[kind][id]
      BY <1>2, <1>5, EntryIs
    <2>3. QED
      BY <1>5, <2>1, <2>2
  <1>6. ASSUME NEW m, storeAfterMessage(store, m)[kind][id] # NoTimeline
        PROVE  store[kind][id] # NoTimeline \/ Concerns(m, kind, id)
    <2>1. CASE m.type \notin FigureTypes
      BY <1>6, <2>1 DEF storeAfterMessage, FigureTypes
    <2>2. CASE m.type \in FigureTypes
      <3>1. storeAfterMessage(store, m) =
              setServerState(store, NewsOf(m).kind, NewsOf(m).id, NewsOf(m).now)
        BY <2>2 DEF storeAfterMessage, NewsOf, Becomes, FigureTypes
      <3>2. QED
        BY <1>5, <1>6, <2>2, <3>1 DEF Concerns
    <2>3. QED
      BY <2>1, <2>2
  <1>7. QED
    BY <1>1, <1>3, <1>4, <1>6

(* A browser whose store nobody looks at.                                  *)
LEMMA MootKeepsSight ==
  ASSUME BrowsersOK, SightOK, ServerIdle, UNCHANGED <<figureVars, taken>>, Grows,
         NEW c \in Clients, OthersStill(c), UNCHANGED <<toServer, toClient, gaveUp>>,
         handlers'[c] = handlers[c], link[c] # "closed",
         NEW t, clientState'[c] = t, t \in ConnectionState, Online(t),
         Shown(t) = Shown(clientState[c]), ~Member(Shown(t)),
         Blank(stores'[c]) \/ (UNCHANGED stores[c] /\ clientState[c].state \in Prompted),
         \A kind \in Kinds : \A id \in IdsOf(kind) :
           stores'[c][kind][id] # NoTimeline => stores[c][kind][id] # NoTimeline
  PROVE  SightOK'
  <1>1. Fresh(toServer[c], toClient[c], stores'[c], taken) /\ ChannelOK(c)
    BY FreshLoses DEF SightOK, ChannelOK
  <1>2. ChannelOK(c)'
    BY <1>1 DEF ChannelOK
  <1>3. ASSUME c \notin Misled', socket[c] # "closed"
        PROVE  /\ Ready(c)'
               /\ Watching(c, handlers'[c], clientState'[c], stores'[c], toClient'[c], fsm[c], Contents)
    <2>1. Watches(c)
      BY <1>3 DEF SightOK, InSight, Misled, Grows
    <2>2. Ready(c)'
      BY <2>1 DEF Watches, Ready
    <2>3. Watching(c, handlers[c], clientState[c], stores[c], toClient[c], fsm[c], Contents)
      BY <2>1 DEF Watches
    <2>4. Watching(c, handlers[c], t, stores'[c], toClient[c], fsm[c], Contents)
      BY <2>3, StoreIsMoot
    <2>5. QED
      BY <2>2, <2>4
  <1>4. InSight(c)'
    BY <1>3, StillInSight DEF SightOK
  <1>5. QED
    BY <1>2, <1>4, OneSight

LEMMA NobodysMember ==
  ~Member(Anonymous) /\ ~Member(NoWhiteboard)
  BY StatesDiffer DEF Member

LEMMA ExitKeepsSight ==
  ASSUME BrowsersOK, SightOK, NEW c \in Clients, exitEndedSession(c),
         stores' = [stores EXCEPT ![c] = NoStore], UNCHANGED <<figureVars, taken>>
  PROVE  SightOK'
  <1>1. /\ clientState[c].state = "SESSION_ENDED"
        /\ clientState' = [clientState EXCEPT ![c] = Screen("NO_WHITEBOARD")]
        /\ ServerIdle
        /\ UNCHANGED <<link, handlers, gaveUp, astray, evicted, toServer, toClient>>
    BY DEF exitEndedSession, channelVars
  <1>2. StoresOK /\ MailDomains
    BY DEF BrowsersOK
  <1>3. PICK t : t = Screen("NO_WHITEBOARD")
    OBVIOUS
  <1>4. t \in ConnectionState /\ t.state = "NO_WHITEBOARD" /\ Online(t)
    BY <1>3, AreScreens DEF Screen, On, Online
  <1>5. stores'[c] = NoStore /\ clientState'[c] = t /\ OthersStill(c)
    BY <1>1, <1>2, <1>3 DEF StoresOK, MailDomains, OthersStill
  <1>6. Grows
    BY <1>1 DEF Grows
  <1>7. Blank(NoStore)
    BY NothingCommitted DEF Blank
  <1>8. \A kind \in Kinds : \A id \in IdsOf(kind) : NoStore[kind][id] = NoTimeline
    BY <1>2, NoNewTimelines DEF StoresOK
  <1>9. CASE link[c] = "closed" \/ c \in Misled \/ socket[c] = "closed"
    <2>1. InSight(c)'
      <3>1. c \in Misled' \/ socket[c] = "closed" \/ link'[c] = "closed"
        BY <1>1, <1>9 DEF Misled
      <3>2. QED
        BY <1>1, <1>6, <3>1, StillInSight DEF SightOK
    <2>2. Fresh(toServer[c], toClient[c], NoStore, taken)
      BY <1>8, FreshLoses DEF SightOK, ChannelOK
    <2>3. ChannelOK(c)'
      BY <1>1, <1>5, <2>2 DEF SightOK, ChannelOK
    <2>4. QED
      BY <1>1, <1>5, <1>6, <2>1, <2>3, OneSight
  <1>10. CASE link[c] # "closed" /\ c \notin Misled /\ socket[c] # "closed"
    <2>1. clientState[c] \in ConnectionState
      BY <1>10 DEF SightOK, InSight, Watches, Ready
    <2>2. Shown(clientState[c]) = NoWhiteboard /\ Shown(t) = NoWhiteboard
      BY <1>1, <1>4, <2>1, ShownStates
    <2>3. ~Member(Shown(t))
      BY <2>2, NobodysMember
    <2>4. QED
      BY <1>1, <1>4, <1>5, <1>6, <1>7, <1>8, <1>10, <2>2, <2>3, MootKeepsSight
  <1>11. QED
    BY <1>9, <1>10

LEMMA ButtonsAsk ==
  ASSUME NEW c \in Clients, SessionAction(c)
  PROVE  /\ \/ exitEndedSession(c) /\ stores' = [stores EXCEPT ![c] = NoStore]
            \/ /\ UNCHANGED stores
               /\ \E body : body.case \notin FigureMessages /\ PressAll(c, <<body>>)
         /\ UNCHANGED <<figureVars, taken>>
  <1>1. \/ exitEndedSession(c) /\ stores' = [stores EXCEPT ![c] = NoStore]
        \/ /\ UNCHANGED stores
           /\ \E body : body.case \notin FigureMessages /\ PressAll(c, <<body>>)
    <2> DEFINE Asks == \E body : body.case \notin FigureMessages /\ PressAll(c, <<body>>)
    <2>1. setUsername(c) => Asks
      BY DEF setUsername, Press, Body, FigureMessages
    <2>2. createWhiteboard(c) => Asks
      BY DEF createWhiteboard, Press, Body, FigureMessages
    <2>3. leaveWhiteboard(c) => Asks
      BY DEF leaveWhiteboard, Press, Body, FigureMessages
    <2>4. ASSUME NEW b \in Boards, joinWhiteboard(c, b) PROVE Asks
      BY <2>4 DEF joinWhiteboard, Press, JoinBody, FigureMessages
    <2>5. ASSUME NEW x \in Clients, approveOrDenyUser(c, x) PROVE Asks
      <3>1. \A admit : DecisionBody(x, admit).case \notin FigureMessages
        BY DEF DecisionBody, FigureMessages
      <3>2. QED
        BY <2>5, <3>1 DEF approveOrDenyUser, Press
    <2>6. QED
      BY <2>1, <2>2, <2>3, <2>4, <2>5 DEF SessionAction
  <1>2. UNCHANGED <<figureVars, taken>>
    BY DEF SessionAction
  <1>3. QED
    BY <1>1, <1>2

LEMMA ButtonsKeepSight ==
  ASSUME BrowsersOK, SightOK, NEW c \in Clients, SessionAction(c)
  PROVE  SightOK'
  BY ButtonsAsk, ExitKeepsSight, OnePressKeepsSight

LEMMA ConnectedKeepsSight ==
  ASSUME BrowsersOK, SightOK, NEW c \in Clients, Connected(c), UNCHANGED <<figureVars, stores, taken>>
  PROVE  SightOK'
  <1>1. /\ link[c] = "connecting"
        /\ clientState' = [clientState EXCEPT ![c] = Screen("ANONYMOUS")]
        /\ link' = [link EXCEPT ![c] = "open"] /\ ServerIdle
        /\ UNCHANGED <<handlers, gaveUp, astray, evicted, toServer, toClient>>
    BY DEF Connected, channelVars
  <1>2. MailDomains /\ clientState[c].state \in Unnamed
    BY <1>1 DEF BrowsersOK, BrowserOK
  <1>3. PICK t : t = Screen("ANONYMOUS")
    OBVIOUS
  <1>4. t \in ConnectionState /\ t.state = "ANONYMOUS" /\ Online(t)
    BY <1>3, AreScreens DEF Screen, On, Online
  <1>5. clientState'[c] = t /\ OthersStill(c) /\ Grows
    BY <1>1, <1>2, <1>3 DEF MailDomains, OthersStill, Grows
  <1>6. CASE c \in Misled \/ socket[c] = "closed"
    <2>1. c \in Misled' \/ socket[c] = "closed"
      BY <1>1, <1>6 DEF Misled
    <2>2. InSight(c)'
      BY <1>1, <1>5, <2>1, StillInSight DEF SightOK
    <2>3. ChannelOK(c)'
      BY <1>1 DEF SightOK, ChannelOK
    <2>4. QED
      BY <1>1, <1>5, <2>2, <2>3, OneSight
  <1>7. CASE c \notin Misled /\ socket[c] # "closed"
    <2>1. clientState[c] \in ConnectionState
      BY <1>1, <1>7 DEF SightOK, InSight, Watches, Ready
    <2>2. Shown(clientState[c]) = Anonymous /\ Shown(t) = Anonymous
      BY <1>2, <1>4, <2>1, ShownStates DEF Unnamed
    <2>3. ~Member(Shown(t)) /\ clientState[c].state \in Prompted
      BY <1>2, <2>2, NobodysMember DEF Prompted
    <2>4. QED
      BY <1>1, <1>4, <1>5, <2>2, <2>3, MootKeepsSight
  <1>8. QED
    BY <1>6, <1>7

LEMMA DisconnectedKeepsSight ==
  ASSUME BrowsersOK, SightOK, NEW c \in Clients, Disconnected(c),
         UNCHANGED <<figureVars, stores, taken>>
  PROVE  SightOK'
  <1>1. /\ link' = [link EXCEPT ![c] = "closed"] /\ ServerIdle
        /\ clientState' = [clientState EXCEPT ![c] = Screen("DISCONNECTED")]
        /\ toClient' = [toClient EXCEPT ![c] = <<>>]
        /\ UNCHANGED <<handlers, gaveUp, astray, evicted, toServer>>
    BY DEF Disconnected
  <1>2. MailDomains
    BY DEF BrowsersOK
  <1>3. link'[c] = "closed" /\ toClient'[c] = <<>> /\ OthersStill(c) /\ Grows
    BY <1>1, <1>2 DEF MailDomains, OthersStill, Grows
  <1>4. InSight(c)'
    BY <1>1, <1>3, StillInSight DEF SightOK
  <1>5. ChannelOK(c)'
    <2>1. Orderly(c, handlers[c], toServer[c], <<>>, c \in gaveUp)
      BY OrderlyLoses DEF SightOK, ChannelOK
    <2>2. Fresh(toServer[c], <<>>, stores[c], taken)
      BY FreshLoses DEF SightOK, ChannelOK
    <2>3. QED
      BY <1>1, <1>3, <2>1, <2>2 DEF ChannelOK
  <1>6. QED
    BY <1>1, <1>3, <1>4, <1>5, OneSight

LEMMA TimeOutKeepsSight ==
  ASSUME BrowsersOK, SightOK, NEW c \in Clients, TimeOutFigure(c)
  PROVE  SightOK'
  <1>1. PICK r \in handlers[c] :
          /\ handlers' = [handlers EXCEPT ![c] = @ \ {r}]
          /\ clientState' = [clientState EXCEPT ![c] = callback(@, r.body, Timeout)]
          /\ gaveUp' = IF r.body.case \in FigureMessages THEN gaveUp ELSE gaveUp \cup {c}
          /\ ServerIdle /\ UNCHANGED <<link, astray, evicted, toServer, toClient>>
    BY DEF TimeOutFigure, TimeOut, channelVars
  <1>2. StoresOK /\ MailDomains /\ UpOK(handlers[c], sent[c], toServer[c])
    BY DEF BrowsersOK, BrowserOK, Mailbox
  <1>3. PICK left : left = handlers[c] \ {r}
    OBVIOUS
  <1>4. /\ handlers'[c] = left /\ clientState'[c] = callback(clientState[c], r.body, Timeout)
        /\ \A x \in Clients : x # c => handlers'[x] = handlers[x] /\ clientState'[x] = clientState[x]
    BY <1>1, <1>2, <1>3 DEF StoresOK, MailDomains
  <1>5. PICK new : new = storeAfterCallback(stores[c], clientState[c], r, Timeout)
    OBVIOUS
  <1>6. stores' = [stores EXCEPT ![c] = new] /\ UNCHANGED <<figureVars, taken>>
    <2>1. \A q \in handlers[c] \ handlers'[c] : q = r
      BY <1>3, <1>4
    <2>2. PICK q \in handlers[c] \ handlers'[c] :
            stores' = [stores EXCEPT ![c] = storeAfterCallback(@, clientState[c], q, Timeout)]
      BY DEF TimeOutFigure
    <2>3. UNCHANGED <<figureVars, taken>>
      BY DEF TimeOutFigure
    <2>4. QED
      BY <1>2, <1>5, <2>1, <2>2, <2>3 DEF StoresOK
  <1>7. stores'[c] = new /\ OthersStill(c) /\ Grows
    BY <1>1, <1>2, <1>4, <1>6 DEF StoresOK, OthersStill, Grows
  <1>8. StoreOK(handlers[c], stores[c])
    BY <1>2 DEF StoresOK
  <1>9. \A kind \in Kinds : \A id \in IdsOf(kind) :
          new[kind][id] # NoTimeline => stores[c][kind][id] # NoTimeline
    BY <1>5, <1>8, NoNewTimelines
  <1>10. ChannelOK(c)'
    <2>1. Fresh(toServer[c], toClient[c], new, taken)
      BY <1>9, FreshLoses DEF SightOK, ChannelOK
    <2>2. PICK lost : lost = (c \in gaveUp)
      OBVIOUS
    <2>3. Orderly(c, handlers[c], toServer[c], toClient[c], lost)
      BY <2>2 DEF SightOK, ChannelOK
    <2>4. /\ r.body.case \in FigureMessages => Orderly(c, left, toServer[c], toClient[c], lost)
          /\ Orderly(c, left, toServer[c], toClient[c], TRUE)
      BY <1>2, <1>3, <2>3, OrderlyForgets
    <2>5. \/ r.body.case \in FigureMessages /\ (c \in gaveUp') = lost
          \/ (c \in gaveUp') = TRUE
      BY <1>1, <2>2
    <2>6. Orderly(c, left, toServer[c], toClient[c], c \in gaveUp')
      BY <2>4, <2>5
    <2>7. QED
      BY <1>1, <1>4, <1>6, <1>7, <2>1, <2>6 DEF ChannelOK
  <1>11. ASSUME c \notin Misled', socket[c] # "closed", link'[c] # "closed"
         PROVE  /\ Ready(c)'
                /\ Watching(c, handlers'[c], clientState'[c], stores'[c], toClient'[c], fsm[c], Contents)
    <2>1. r.body.case \in FigureMessages /\ Watches(c)
      BY <1>1, <1>11 DEF SightOK, InSight, Misled
    <2>2. clientState'[c] = clientState[c]
      BY <1>4, <2>1, FigureCasesAre DEF callback
    <2>3. new = discardPatch(stores[c], r)
      BY <1>5, <2>1, FigureCasesAre DEF storeAfterCallback, ClearsStores
    <2>4. \A kind \in Kinds : \A id \in IdsOf(kind) :
            CommittedAt(new, kind, id) = CommittedAt(stores[c], kind, id)
      BY <1>8, <2>3, CommittedByDiscard
    <2>5. Ready(c)'
      BY <1>1, <1>7, <2>1, <2>2, <2>4, BlankAgain DEF Watches, Ready
    <2>6. Watching(c, handlers[c], clientState[c], stores[c], toClient[c], fsm[c], Contents)
      BY <2>1 DEF Watches
    <2>7. left \subseteq handlers[c] /\ \A q \in handlers[c] : q.body.case \notin FigureMessages => q \in left
      BY <1>3, <2>1
    <2>8. Watching(c, left, clientState[c], new, toClient[c], fsm[c], Contents)
      BY <2>4, <2>6, <2>7, ForgottenIsSight
    <2>9. QED
      BY <1>1, <1>4, <1>7, <2>2, <2>5, <2>8
  <1>12. InSight(c)'
    BY <1>1, <1>6, <1>7, <1>11, StillInSight DEF SightOK
  <1>13. QED
    BY <1>1, <1>6, <1>7, <1>10, <1>12, OneSight

(* Receiving is reading what the first message says, unless something goes *)
(* wrong for good.                                                         *)
LEMMA ReceiveReads ==
  ASSUME BrowsersOK, NEW c \in Clients, ReceiveFigure(c)
  PROVE  /\ ServerIdle /\ link[c] = "open" /\ UNCHANGED <<link, gaveUp, figureVars, taken>>
         /\ toClient[c] # <<>> /\ toClient'[c] = Tail(toClient[c])
         /\ Grows
         /\ \A x \in Clients : x # c => /\ clientState'[x] = clientState[x] /\ toClient'[x] = toClient[x]
                                        /\ stores'[x] = stores[x]
         /\ c \notin Misled' =>
              Reads(c, handlers[c], clientState[c], stores[c], Head(toClient[c]), clientState'[c], stores'[c])
         /\ \A kind \in Kinds : \A id \in IdsOf(kind) :
              stores'[c][kind][id] # NoTimeline =>
                \/ stores[c][kind][id] # NoTimeline
                \/ Concerns(Head(toClient[c]).body, kind, id)
  <1> DEFINE m == Head(toClient[c]).body
             s == clientState[c]
             store == stores[c]
             d == Head(toClient[c])
  <1>1. Receive(c) /\ StoresOK /\ MailDomains
    BY DEF ReceiveFigure, BrowsersOK
  <1>2. /\ ServerIdle /\ link[c] = "open" /\ UNCHANGED link /\ toClient[c] # <<>>
        /\ toClient' = [toClient EXCEPT ![c] = Tail(toClient[c])]
        /\ \A x \in Clients : x # c => clientState'[x] = clientState[x]
    BY ReceiveIs
  <1>3. UNCHANGED <<gaveUp, figureVars, taken>>
    BY <1>1 DEF Receive, ReceiveFigure
  <1>4. /\ toClient'[c] = Tail(toClient[c])
        /\ \A x \in Clients : x # c => toClient'[x] = toClient[x]
    BY <1>1, <1>2 DEF MailDomains
  <1>5. \A x \in Clients : x # c => stores'[x] = stores[x]
    BY <1>1, ReceiveKept
  <1>6. \A r \in handlers[c] : r \in Caused(c) <=> AnswersTo(c, d, r.id)
    BY DEF Caused, AnswersTo
  <1>7. Caused(c) \subseteq handlers[c] /\ \A r \in Caused(c) : Caused(c) = {r}
    BY <1>1, OneIsCaused DEF Caused
  <1>8. StoreOK(handlers[c], store)
    BY <1>1 DEF StoresOK
  <1>9. ASSUME Caused(c) = {}
        PROVE  /\ clientState'[c] = handleMessage(s, m) /\ stores'[c] = storeAfterMessage(store, m)
               /\ UNCHANGED <<astray, evicted>>
    <2>1. clientState'[c] = handleMessage(s, m)
      BY <1>9, ReceiveIs
    <2>2. UNCHANGED <<astray, evicted>>
      BY <1>1, <1>9 DEF Receive
    <2>3. stores' = [stores EXCEPT ![c] = storeAfterMessage(@, m)]
      BY <1>9 DEF ReceiveFigure
    <2>4. QED
      BY <1>1, <2>1, <2>2, <2>3 DEF StoresOK
  <1>10. ASSUME NEW r \in Caused(c)
         PROVE  LET u == handleMessage(s, m)
                IN  /\ clientState'[c] = callback(u, r.body, m)
                    /\ stores'[c] = storeAfterCallback(storeAfterMessage(store, m), u, r, m)
                    /\ astray' = IF Unexpected(u, r.body, m) THEN astray \cup {c} ELSE astray
                    /\ evicted' = IF Evicts(u, r.body, m) THEN evicted \cup {c} ELSE evicted
    <2>1. \A q \in Caused(c) : q = r
      BY <1>7
    <2>2. clientState'[c] = callback(handleMessage(s, m), r.body, m)
      BY <2>1, ReceiveIs
    <2>3. PICK q \in Caused(c) :
            /\ astray' = IF Unexpected(handleMessage(clientState[c], m), q.body, m)
                         THEN astray \cup {c} ELSE astray
            /\ evicted' = IF Evicts(handleMessage(clientState[c], m), q.body, m)
                          THEN evicted \cup {c} ELSE evicted
      BY <1>1, <1>10 DEF Receive
    <2>4. PICK q2 \in Caused(c) :
            stores' = [stores EXCEPT ![c] =
                storeAfterCallback(storeAfterMessage(@, m), handleMessage(clientState[c], m), q2, m)]
      BY <1>10 DEF ReceiveFigure
    <2>5. q = r /\ q2 = r
      BY <2>1
    <2> HIDE DEF m
    <2>6. QED
      BY <1>1, <2>2, <2>3, <2>4, <2>5 DEF StoresOK
  <1> HIDE DEF m, s, store
  <1>11. Grows
    <2>1. astray \subseteq astray' /\ evicted \subseteq evicted'
      BY <1>9, <1>10
    <2>2. QED
      BY <1>3, <2>1 DEF Grows
  <1>12. d.body = m
    BY DEF m
  <1> HIDE DEF d
  <1>13. ASSUME c \notin Misled'
         PROVE  Reads(c, handlers[c], s, store, d, clientState'[c], stores'[c])
    <2>1. c \notin astray' /\ c \notin evicted'
      BY <1>13 DEF Misled
    <2>2. CASE Caused(c) = {}
      BY <1>6, <1>9, <1>12, <2>2 DEF Reads, Unasked
    <2>3. ASSUME NEW r \in Caused(c)
          PROVE  Reads(c, handlers[c], s, store, d, clientState'[c], stores'[c])
      <3>1. ~Unexpected(handleMessage(s, m), r.body, m) /\ ~Evicts(handleMessage(s, m), r.body, m)
        BY <1>10, <2>1
      <3>2. AnswersTo(c, d, r.id) /\ r \in handlers[c]
        BY <1>6, <1>7
      <3>3. QED
        BY <1>10, <1>12, <3>1, <3>2 DEF Reads
    <2>4. QED
      BY <2>2, <2>3
  <1>14. ASSUME NEW kind \in Kinds, NEW id \in IdsOf(kind), stores'[c][kind][id] # NoTimeline
         PROVE  store[kind][id] # NoTimeline \/ Concerns(m, kind, id)
    <2>1. StoreOK(handlers[c], storeAfterMessage(store, m))
      BY <1>8, MessageKept
    <2>2. storeAfterMessage(store, m)[kind][id] # NoTimeline
      BY <1>9, <1>10, <1>14, <2>1, NoNewTimelines
    <2>3. QED
      BY <1>8, <2>2, NoNewTimelines
  <1>15. QED
    BY <1>2, <1>3, <1>4, <1>5, <1>11, <1>13, <1>14 DEF m, s, store, d

LEMMA FewerOK ==
  ASSUME NEW c, NEW hs, NEW n, NEW up, UpOK(hs, n, up), NEW left, left \subseteq hs,
         NEW down, DownOK(c, n, down), down # <<>>
  PROVE  UpOK(left, n, up) /\ DownOK(c, n, Tail(down))
  <1>1. UpOK(left, n, up)
    BY DEF UpOK
  <1>2. IsSeq(Tail(down)) /\ \A i \in DOMAIN Tail(down) : i + 1 \in DOMAIN down /\ Tail(down)[i] = down[i + 1]
    BY TailIs DEF DownOK
  <1>3. QED
    BY <1>1, <1>2 DEF DownOK

(* The handlers that wait after a message was read, and the mail.          *)
LEMMA ReadMail ==
  ASSUME BrowsersOK, NEW c \in Clients, ReceiveFigure(c), NEW lost,
         NEW rest, rest = Tail(toClient[c]), NEW left, left = handlers[c] \ Caused(c),
         Orderly(c, left, toServer[c], rest, lost), NEW store,
         Fresh(toServer[c], rest, store, taken)
  PROVE  /\ Orderly(c, handlers'[c], toServer'[c], rest, lost)
         /\ Fresh(toServer'[c], rest, store, taken) /\ left \subseteq handlers'[c]
         /\ \A i \in 1..Len(rest) : \A r \in handlers'[c] : AnswersTo(c, rest[i], r.id) => r \in left
         /\ \A x \in Clients : x # c => handlers'[x] = handlers[x] /\ toServer'[x] = toServer[x]
  <1>1. /\ StoresOK /\ MailDomains /\ Receive(c) /\ toClient[c] # <<>>
        /\ UpOK(handlers[c], sent[c], toServer[c]) /\ DownOK(c, sent[c], toClient[c])
    BY DEF BrowsersOK, BrowserOK, Mailbox, ReceiveFigure, Receive
  <1>2. left \subseteq handlers[c] /\ UpOK(left, sent[c], toServer[c]) /\ DownOK(c, sent[c], rest)
    BY <1>1, FewerOK
  <1>3. \/ /\ handlers' = [handlers EXCEPT ![c] = left]
           /\ UNCHANGED <<sent, toServer>>
        \/ \E b \in Boards : SendAll(c, left, <<JoinBody(b)>>)
    BY <1>1 DEF Receive
  <1>4. CASE handlers' = [handlers EXCEPT ![c] = left] /\ UNCHANGED <<sent, toServer>>
    <2>1. handlers'[c] = left /\ \A x \in Clients : x # c => handlers'[x] = handlers[x]
      BY <1>1, <1>4 DEF StoresOK
    <2>2. QED
      BY <1>4, <2>1
  <1>5. ASSUME NEW b \in Boards, SendAll(c, left, <<JoinBody(b)>>)
        PROVE  /\ SentSafely(c, left, toServer[c], toServer'[c], rest, <<JoinBody(b)>>, 1, handlers'[c], lost)
               /\ left \subseteq handlers'[c] /\ BodyFresh(<<JoinBody(b)>>[1], taken)
               /\ \A x \in Clients : x # c => handlers'[x] = handlers[x] /\ toServer'[x] = toServer[x]
    <2> DEFINE bodies == <<JoinBody(b)>>
    <2>1. DOMAIN bodies = 1..1 /\ Len(bodies) = 1 /\ 1 \in Nat /\ bodies[1] = JoinBody(b)
      OBVIOUS
    <2>2. SendAll(c, left, bodies)
      BY <1>5
    <2>3. BodyFresh(bodies[1], taken)
      BY <2>1 DEF BodyFresh, JoinBody, FigureMessages
    <2> HIDE DEF bodies
    <2>4. /\ SentSafely(c, left, toServer[c], toServer'[c], rest, bodies, 1, handlers'[c], lost)
          /\ left \subseteq handlers'[c]
          /\ \A x \in Clients : x # c => handlers'[x] = handlers[x] /\ toServer'[x] = toServer[x]
      <3>1. Orderly(c, left, toServer[c], rest, lost) /\ 1 \in Nat
        OBVIOUS
      <3>2. StoresOK /\ MailDomains /\ c \in Clients
        BY <1>1
      <3>3. QED
        BY ONLY <1>2, <2>1, <2>2, <3>1, <3>2, SendingIsSafe
    <2>5. QED
      BY <2>3, <2>4 DEF bodies
  <1>6. ASSUME NEW b \in Boards, SendAll(c, left, <<JoinBody(b)>>)
        PROVE  /\ Orderly(c, handlers'[c], toServer'[c], rest, lost)
               /\ \A i \in 1..Len(rest) : \A r \in handlers'[c] : AnswersTo(c, rest[i], r.id) => r \in left
               /\ Fresh(toServer'[c], rest, store, taken)
    <2>1. PICK bodies : bodies = <<JoinBody(b)>>
      OBVIOUS
    <2>2. /\ SentSafely(c, left, toServer[c], toServer'[c], rest, bodies, 1, handlers'[c], lost)
          /\ \A j \in 1..1 : BodyFresh(bodies[j], taken)
      <3>0. \A j \in 1..1 : j = 1
        OBVIOUS
      <3>1. BodyFresh(bodies[1], taken) /\ \A j \in 1..1 : j = 1
        <4>1. BodyFresh(<<JoinBody(b)>>[1], taken)
          BY <1>5, <1>6
        <4>2. QED
          BY ONLY <2>1, <3>0, <4>1
      <3>2. SentSafely(c, left, toServer[c], toServer'[c], rest, bodies, 1, handlers'[c], lost)
        BY <1>5, <1>6, <2>1
      <3>3. QED
        BY <3>1, <3>2
    <2>3. /\ taken \subseteq taken
          /\ \A kind \in Kinds : \A id \in IdsOf(kind) :
               store[kind][id] # NoTimeline => store[kind][id] # NoTimeline \/ id \in taken
      OBVIOUS
    <2>4. Fresh(toServer'[c], rest, store, taken)
      BY <2>2, <2>3, FreshSends
    <2>5. QED
      BY <2>2, <2>4 DEF SentSafely
  <1>7. QED
    BY <1>3, <1>4, <1>5, <1>6

LEMMA ReceiveKeepsSight ==
  ASSUME BrowsersOK, SightOK, NEW c \in Clients, ReceiveFigure(c)
  PROVE  SightOK'
  <1>1. /\ ServerIdle /\ link[c] = "open" /\ UNCHANGED <<link, gaveUp, figureVars, taken>>
        /\ toClient[c] # <<>> /\ toClient'[c] = Tail(toClient[c])
        /\ Grows
        /\ \A x \in Clients : x # c => /\ clientState'[x] = clientState[x] /\ toClient'[x] = toClient[x]
                                       /\ stores'[x] = stores[x]
        /\ c \notin Misled' =>
             Reads(c, handlers[c], clientState[c], stores[c], Head(toClient[c]), clientState'[c], stores'[c])
        /\ \A kind \in Kinds : \A id \in IdsOf(kind) :
             stores'[c][kind][id] # NoTimeline =>
               \/ stores[c][kind][id] # NoTimeline
               \/ Concerns(Head(toClient[c]).body, kind, id)
    BY ReceiveReads
  <1>2. PICK down : down = toClient[c]
    OBVIOUS
  <1>3. PICK hs, up : hs = handlers[c] /\ up = toServer[c]
    OBVIOUS
  <1>4. PICK left : left = hs \ {r \in hs : AnswersTo(c, Head(down), r.id)}
    OBVIOUS
  <1>5. left = handlers[c] \ Caused(c)
    BY <1>2, <1>3, <1>4 DEF Caused, AnswersTo
  <1>6. PICK lost : lost = (c \in gaveUp)
    OBVIOUS
  <1>7. PICK store, new : store = stores[c] /\ new = stores'[c]
    OBVIOUS
  <1>8. /\ IsSeq(down) /\ down # <<>> /\ StoreOK(hs, store) /\ Distinct(hs)
        /\ \A r \in hs : r.id \in Nat
    BY <1>1, <1>2, <1>3, <1>7
       DEF BrowsersOK, BrowserOK, Mailbox, DownOK, StoresOK, RequestsOK, Distinct
  <1>9. Orderly(c, hs, up, down, lost) /\ Fresh(up, down, store, taken)
    BY <1>2, <1>3, <1>6, <1>7 DEF SightOK, ChannelOK
  <1>10. Orderly(c, left, up, Tail(down), lost)
    BY <1>4, <1>8, <1>9, OrderlyReads
  <1>11. Fresh(up, Tail(down), new, taken)
    BY <1>1, <1>2, <1>7, <1>8, <1>9, FreshReads
  <1>12. PICK rest : rest = Tail(down)
    OBVIOUS
  <1>13. /\ Orderly(c, handlers'[c], toServer'[c], rest, lost)
         /\ Fresh(toServer'[c], rest, new, taken) /\ left \subseteq handlers'[c]
         /\ \A i \in 1..Len(rest) : \A r \in handlers'[c] : AnswersTo(c, rest[i], r.id) => r \in left
         /\ \A x \in Clients : x # c => handlers'[x] = handlers[x] /\ toServer'[x] = toServer[x]
    <2>1. rest = Tail(toClient[c]) /\ Orderly(c, left, toServer[c], rest, lost)
          /\ Fresh(toServer[c], rest, new, taken)
      BY <1>2, <1>3, <1>10, <1>11, <1>12
    <2>2. QED
      BY <1>5, <2>1, ReadMail
  <1>14. ChannelOK(c)'
    BY <1>1, <1>2, <1>6, <1>7, <1>12, <1>13 DEF ChannelOK
  <1>15. OthersStill(c)
    BY <1>1, <1>13 DEF OthersStill
  <1>16. ASSUME c \notin Misled', socket[c] # "closed", link'[c] # "closed"
         PROVE  /\ Ready(c)'
                /\ Watching(c, handlers'[c], clientState'[c], stores'[c], toClient'[c], fsm[c], Contents)
    <2>1. Watches(c)
      BY <1>1, <1>16 DEF SightOK, InSight, Misled, Grows
    <2>2. PICK s, t : s = clientState[c] /\ t = clientState'[c]
      OBVIOUS
    <2>3. /\ s \in ConnectionState /\ Online(s) /\ (s.state \in Prompted => Blank(store))
          /\ Watching(c, hs, s, store, down, fsm[c], Contents)
      BY <1>1, <1>2, <1>3, <1>7, <2>1, <2>2 DEF Watches, Ready
    <2>4. Reads(c, hs, s, store, Head(down), t, new)
      BY <1>1, <1>2, <1>3, <1>7, <1>16, <2>2
    <2>5. /\ t \in ConnectionState /\ Online(t) /\ (t.state \in Prompted => Blank(new))
          /\ Watching(c, left, t, new, Tail(down), fsm[c], Contents)
      BY <1>4, <1>8, <1>9, <2>3, <2>4, ReadIsSight
    <2>6. Watching(c, handlers'[c], t, new, rest, fsm[c], Contents)
      <3>1. Watching(c, left, t, new, rest, fsm[c], Contents)
        BY <1>12, <2>5
      <3>2. \A kind \in Kinds : \A id \in IdsOf(kind) :
              CommittedAt(new, kind, id) = CommittedAt(new, kind, id)
        OBVIOUS
      <3>3. QED
        BY <1>13, <3>1, <3>2, SentIsSight
    <2>7. Ready(c)'
      BY <1>7, <2>2, <2>5 DEF Ready
    <2>8. QED
      BY <1>1, <1>2, <1>7, <1>12, <2>2, <2>6, <2>7
  <1>17. InSight(c)'
    BY <1>1, <1>15, <1>16, StillInSight DEF SightOK
  <1>18. QED
    BY <1>1, <1>14, <1>15, <1>17, OneSight
-----------------------------------------------------------------------------
(* Changes of figures.                                                     *)

(* No store has a timeline for an id that is to be used for a new figure.  *)
Unheard(store, id) ==
  \A kind \in Kinds : id \in IdsOf(kind) => store[kind][id] = NoTimeline

LEMMA PatchIsLocal ==
  ASSUME NEW requests, NEW store, StoreOK(requests, store), NEW body, Patchable(store, body),
         NEW id, NEW diff, NEW used, Creates(body) => Unheard(store, body.id) /\ body.id \in used
  PROVE  SameCopies(store, Patched(store, id, body, diff), used)
  <1> DEFINE k == StoreOf(body)
             i == body.id
             entry == store[k][i]
             value == IF Creates(body) THEN T!newLocalTimeline(id, diff)
                      ELSE T!patched(entry, id, diff)
             new == Put(store, k, i, value)
  <1>1. Patched(store, id, body, diff) = new
    BY DEF Patched, Put
  <1>2. StoreShape(store)
    BY DEF StoreOK
  <1>3. ASSUME k \in Kinds, i \in IdsOf(k)
        PROVE  /\ (IF value = NoTimeline THEN NoFigure ELSE value.committed) = CommittedAt(store, k, i)
               /\ entry # NoTimeline \/ i \in used
    <2>1. CASE Creates(body)
      <3>1. entry = NoTimeline /\ i \in used
        BY <1>3, <2>1 DEF Unheard
      <3>2. value = T!newLocalTimeline(id, diff)
        BY <2>1
      <3>3. T!newLocalTimeline(id, diff).committed = NoFigure
        BY DEF T!newLocalTimeline
      <3> HIDE DEF value, entry, k, i
      <3>4. CommittedAt(store, k, i) = NoFigure
        BY <3>1 DEF CommittedAt, entry
      <3>5. QED
        BY <3>1, <3>2, <3>3, <3>4
    <2>2. CASE ~Creates(body)
      <3>1. entry # NoTimeline
        BY <2>2 DEF Patchable, HasTimeline
      <3>2. PICK ids : ids = About(requests, k, i)
        OBVIOUS
      <3>3. Timeline(entry, ids)
        BY <1>3, <3>1, <3>2 DEF StoreOK, EntryOK
      <3>4. value = T!patched(entry, id, diff)
        BY <2>2
      <3> HIDE DEF value, entry, k, i
      <3>5. value.committed = entry.committed /\ value # NoTimeline
        <4>1. Timeline(value, ids \cup {id})
          BY <3>3, <3>4, PatchedTimeline
        <4>2. value # NoTimeline
          BY <4>1, TimelineIsThere
        <4>3. value.committed = entry.committed
          BY <3>3, <3>4, CommittedParts
        <4>4. QED
          BY <4>2, <4>3
      <3>6. QED
        BY <3>1, <3>5 DEF CommittedAt, entry
    <2>3. QED
      BY <2>1, <2>2
  <1> HIDE DEF value
  <1>4. ASSUME NEW kind \in Kinds, NEW x \in IdsOf(kind)
        PROVE  /\ CommittedAt(new, kind, x) = CommittedAt(store, kind, x)
               /\ new[kind][x] # NoTimeline => store[kind][x] # NoTimeline \/ x \in used
    <2> HIDE DEF k, i
    <2>1. CommittedAt(new, kind, x) =
            IF kind = k /\ x = i THEN IF value = NoTimeline THEN NoFigure ELSE value.committed
            ELSE CommittedAt(store, kind, x)
      BY <1>2, CommittedPut
    <2>2. new[kind][x] = IF kind = k /\ x = i THEN value ELSE store[kind][x]
      BY <1>2, EntryIs
    <2>3. CASE kind = k /\ x = i
      <3>1. /\ (IF value = NoTimeline THEN NoFigure ELSE value.committed) = CommittedAt(store, k, i)
            /\ store[k][i] # NoTimeline \/ i \in used
        BY <1>3, <2>3
      <3>2. QED
        BY <2>1, <2>3, <3>1
    <2>4. CASE ~(kind = k /\ x = i)
      BY <2>1, <2>2, <2>4
    <2>5. QED
      BY <2>3, <2>4
  <1> HIDE DEF new
  <1>5. QED
    BY <1>1, <1>4 DEF SameCopies

(* A new figure comes alone; other changes come several at a time.         *)
LEMMA PatchesAreLocal ==
  ASSUME NEW requests, NEW store, StoreOK(requests, store),
         NEW first, NEW bodies, NEW diffs, NEW k \in Nat, DOMAIN bodies = 1..k,
         \A i \in 1..k : Patchable(store, bodies[i]),
         NEW used,
         \A i \in 1..k : Creates(bodies[i]) =>
           k = 1 /\ Unheard(store, bodies[i].id) /\ bodies[i].id \in used
  PROVE  SameCopies(store, PatchedAll(store, first, bodies, diffs), used)
  <1>0. k \in Nat /\ DOMAIN bodies = 1..k
    OBVIOUS
  <1>1. PICK g : /\ g[0] = store
                 /\ \A n \in Nat : n < k =>
                      g[n + 1] = Patched(g[n], first + (n + 1), bodies[n + 1], diffs[n + 1])
                 /\ PatchedAll(store, first, bodies, diffs) = g[k]
    BY ONLY <1>0, PatchedByStep
  <1>2. PICK more : more = requests \cup {[id |-> first + i, body |-> bodies[i]] : i \in 1..k}
    OBVIOUS
  <1> DEFINE Fine(n) == /\ StoreOK(more, g[n]) /\ Keeps(store, g[n])
                        /\ SameCopies(store, g[n], used)
             N == {n \in Nat : n <= k => Fine(n)}
  <1>3. 0 \in N
    <2>1. StoreOK(more, store) /\ Keeps(store, store) /\ SameCopies(store, store, used)
      BY <1>2, MoreRequests DEF Keeps, SameCopies
    <2>2. QED
      BY <1>1, <2>1
  <1>4. ASSUME NEW n \in Nat, n \in N PROVE n + 1 \in N
    <2> SUFFICES ASSUME n + 1 <= k PROVE Fine(n + 1)
      OBVIOUS
    <2> DEFINE body == bodies[n + 1]
               id == first + (n + 1)
    <2>1. StoreOK(more, g[n]) /\ Keeps(store, g[n]) /\ SameCopies(store, g[n], used)
      BY <1>4
    <2>2. g[n + 1] = Patched(g[n], id, body, diffs[n + 1])
      BY <1>1
    <2>3. n + 1 \in 1..k
      OBVIOUS
    <2>4. /\ Patchable(store, body) /\ [id |-> id, body |-> body] \in more
          /\ Creates(body) => k = 1 /\ Unheard(store, body.id) /\ body.id \in used
      BY <1>2, <2>3
    <2>5. Creates(body) => g[n] = store
      BY <1>1, <2>4
    <2> HIDE DEF body, N, id
    <2>6. /\ body.case \in FigureMessages
          /\ Creates(body) \/ HasTimeline(g[n], body)
      BY <2>1, <2>4 DEF Patchable, HasTimeline, Keeps
    <2>7. more \subseteq more
      OBVIOUS
    <2>8. Creates(body) \/ g[n][StoreOf(body)][body.id] # NoTimeline
      BY <2>6 DEF HasTimeline
    <2>9. StoreOK(more, g[n + 1]) /\ Keeps(g[n], g[n + 1])
      BY <2>1, <2>2, <2>4, <2>6, <2>7, <2>8, PatchKept
    <2>10. SameCopies(g[n], g[n + 1], used)
      <3>1. Patchable(g[n], body)
        BY <2>6 DEF Patchable
      <3>2. Creates(body) => Unheard(g[n], body.id) /\ body.id \in used
        BY <2>4, <2>5
      <3>3. QED
        BY <2>1, <2>2, <3>1, <3>2, PatchIsLocal
    <2>11. SameCopies(store, g[n + 1], used)
      BY <2>1, <2>10 DEF SameCopies
    <2>12. Keeps(store, g[n + 1])
      BY <2>1, <2>9 DEF Keeps
    <2>13. QED
      BY <2>9, <2>11, <2>12
  <1> HIDE DEF N
  <1>5. Nat \subseteq N
    BY <1>3, <1>4, ByInduction
  <1>6. Fine(k)
    BY <1>5 DEF N
  <1>7. QED
    BY <1>1, <1>6

(* What the user does to figures: changes of some that have a timeline, or *)
(* a new one with an id that nobody has.                                   *)
MayBeMade(c, body, k) ==
  /\ Patchable(stores[c], body) /\ Sensible(body)
  /\ Creates(body) => /\ k = 1 /\ body.id \notin taken /\ body.id \in taken'
                      /\ body.id \in IdsOf(StoreOf(body))
Draws(c) ==
  \E bodies, diffs : \E k \in Nat :
    /\ DOMAIN bodies = 1..k /\ Len(bodies) = k /\ Change(c, bodies, diffs)
    /\ taken \subseteq taken' /\ \A j \in 1..k : MayBeMade(c, bodies[j], k)

LEMMA DrawingIsPressing ==
  ASSUME BrowsersOK, SightOK, NEW c \in Clients, Draws(c)
  PROVE  \E bodies, new : \E k \in Nat : Presses(c, bodies, k, new)
  <1>1. PICK bodies, diffs :
          \E k \in Nat :
            /\ DOMAIN bodies = 1..k /\ Len(bodies) = k /\ Change(c, bodies, diffs)
            /\ taken \subseteq taken' /\ \A j \in 1..k : MayBeMade(c, bodies[j], k)
    BY DEF Draws
  <1>2. PICK k \in Nat :
          /\ DOMAIN bodies = 1..k /\ Len(bodies) = k /\ Change(c, bodies, diffs)
          /\ taken \subseteq taken' /\ \A j \in 1..k : MayBeMade(c, bodies[j], k)
    BY <1>1
  <1>3. PICK new : new = PatchedAll(stores[c], sent[c], bodies, diffs)
    OBVIOUS
  <1>4. /\ PressAll(c, bodies) /\ UNCHANGED figureVars
        /\ stores' = [stores EXCEPT ![c] = new]
    BY <1>2, <1>3 DEF Change, BrowsersOK, StoresOK
  <1>5. StoreOK(handlers[c], stores[c])
    BY DEF BrowsersOK, StoresOK
  <1>6. \A kind \in Kinds : \A id \in IdsOf(kind) : stores[c][kind][id] # NoTimeline => id \in taken
    BY DEF SightOK, ChannelOK, Fresh
  <1>7. \A id : id \notin taken => Unheard(stores[c], id)
    BY <1>6 DEF Unheard
  <1>8. /\ \A j \in 1..k : Patchable(stores[c], bodies[j])
        /\ \A j \in 1..k : Creates(bodies[j]) =>
             k = 1 /\ Unheard(stores[c], bodies[j].id) /\ bodies[j].id \in taken'
    BY <1>2, <1>7 DEF MayBeMade
  <1>9. PICK used : used = taken'
    OBVIOUS
  <1>10. SameCopies(stores[c], new, used)
    BY <1>2, <1>3, <1>5, <1>8, <1>9, PatchesAreLocal
  <1>11. \A j \in 1..k : BodyFresh(bodies[j], taken')
    <2>1. ASSUME NEW j \in 1..k
          PROVE  /\ bodies[j].id \in taken' /\ bodies[j].id \in IdsOf(StoreOf(bodies[j]))
                 /\ Sensible(bodies[j])
      <3>1. MayBeMade(c, bodies[j], k)
        BY <1>2, <2>1
      <3>2. CASE Creates(bodies[j])
        BY <3>1, <3>2 DEF MayBeMade
      <3>3. CASE ~Creates(bodies[j])
        BY <1>2, <1>6, <3>1, <3>3 DEF MayBeMade, Patchable, HasTimeline
      <3>4. QED
        BY <3>2, <3>3
    <2>2. QED
      BY <2>1 DEF BodyFresh
  <1>12. Presses(c, bodies, k, new)
    BY <1>2, <1>4, <1>9, <1>10, <1>11 DEF Presses
  <1>13. QED
    BY <1>12

LEMMA DrawingKeepsSight ==
  ASSUME BrowsersOK, SightOK, NEW c \in Clients, Draws(c)
  PROVE  SightOK'
  <1>1. PICK bodies, new : \E k \in Nat : Presses(c, bodies, k, new)
    BY DrawingIsPressing
  <1>2. PICK k \in Nat : Presses(c, bodies, k, new)
    BY <1>1
  <1>3. QED
    BY <1>2, PressingKeepsSight

LEMMA OneDraws ==
  ASSUME NEW c, NEW body, NEW diffs, Change(c, <<body>>, diffs), taken \subseteq taken',
         MayBeMade(c, body, 1)
  PROVE  Draws(c)
  <1> DEFINE bodies == <<body>>
  <1>1. /\ DOMAIN bodies = 1..1 /\ Len(bodies) = 1 /\ 1 \in Nat
        /\ \A i \in 1..1 : bodies[i] = body
    OBVIOUS
  <1>2. Change(c, bodies, diffs)
    OBVIOUS
  <1> HIDE DEF bodies
  <1>3. \A j \in 1..1 : MayBeMade(c, bodies[j], 1)
    BY <1>1
  <1>4. QED
    BY <1>1, <1>2, <1>3 DEF Draws

(* The notes and images that the user adds or changes.                     *)
LEMMA AddingDraws ==
  ASSUME NEW c, AddFigure(c)
  PROVE  Draws(c)
  <1>1. ASSUME NEW body, NEW id, body.id = id, Sensible(body), Invent(id), ChangeOne(c, body),
               body.case \in {"createNote", "createImage"}, id \in IdsOf(StoreOf(body))
        PROVE  Draws(c)
    <2>1. Change(c, <<body>>, <<DiffOf(sent[c] + 1, body)>>)
      BY <1>1 DEF ChangeOne
    <2>2. Patchable(stores[c], body)
      BY <1>1 DEF Patchable, Creates, FigureMessages
    <2>3. id \notin taken /\ id \in taken' /\ taken \subseteq taken'
      BY <1>1 DEF Invent
    <2>4. MayBeMade(c, body, 1)
      BY <1>1, <2>2, <2>3 DEF MayBeMade
    <2>5. QED
      BY <2>1, <2>3, <2>4, OneDraws
  <1>2. ASSUME NEW n \in NoteIds, NEW position \in Coordinates, NEW text \in Texts,
               addNote(c, n, position, text)
        PROVE  Draws(c)
    <2> DEFINE body == NewNoteBody(n, position, text)
    <2>1. /\ body.id = n /\ Sensible(body) /\ body.case \in {"createNote", "createImage"}
      BY DEF NewNoteBody, Sensible
    <2>2. Invent(n) /\ ChangeOne(c, body) /\ n \in IdsOf(StoreOf(body))
      BY <1>2, Ids DEF addNote, NewNoteBody, StoreOf
    <2> HIDE DEF body
    <2>3. QED
      BY <1>1, <2>1, <2>2
  <1>3. ASSUME NEW i \in ImageIds, NEW position \in Coordinates, addImage(c, i, position)
        PROVE  Draws(c)
    <2> DEFINE body == NewImageBody(i, position)
    <2>1. /\ body.id = i /\ Sensible(body) /\ body.case \in {"createNote", "createImage"}
      BY DEF NewImageBody, Sensible
    <2>2. Invent(i) /\ ChangeOne(c, body) /\ i \in IdsOf(StoreOf(body))
      BY <1>3, Ids DEF addImage, NewImageBody, StoreOf
    <2> HIDE DEF body
    <2>3. QED
      BY <1>1, <2>1, <2>2
  <1>4. QED
    BY <1>2, <1>3 DEF AddFigure

LEMMA ChangingDraws ==
  ASSUME NEW c, NEW n \in NoteIds, ShownNote(c, n) # NoFigure, changeNote(c, n)
  PROVE  Draws(c)
  <1>1. stores[c].note[n] # NoTimeline
    BY ShownIsKnown DEF ShownNote
  <1>2. PICK body : /\ ChangeOne(c, body) /\ body.id = n /\ Sensible(body)
                    /\ body.case \in {"updateNoteText", "updateNotePosition", "deleteNote"}
    <2>1. ASSUME NEW text \in Texts, ChangeOne(c, TextBody(n, text))
          PROVE  \E body : /\ ChangeOne(c, body) /\ body.id = n /\ Sensible(body)
                           /\ body.case \in {"updateNoteText", "updateNotePosition", "deleteNote"}
      BY <2>1 DEF TextBody, Sensible
    <2>2. ASSUME NEW position \in Coordinates, ChangeOne(c, PositionBody(n, position))
          PROVE  \E body : /\ ChangeOne(c, body) /\ body.id = n /\ Sensible(body)
                           /\ body.case \in {"updateNoteText", "updateNotePosition", "deleteNote"}
      BY <2>2 DEF PositionBody, Sensible
    <2>3. ASSUME ChangeOne(c, DeleteNoteBody(n))
          PROVE  \E body : /\ ChangeOne(c, body) /\ body.id = n /\ Sensible(body)
                           /\ body.case \in {"updateNoteText", "updateNotePosition", "deleteNote"}
      BY <2>3 DEF DeleteNoteBody, Sensible
    <2>4. QED
      BY <2>1, <2>2, <2>3 DEF changeNote
  <1>3. StoreOf(body) = "note" /\ ~Creates(body)
    BY <1>2 DEF StoreOf, Creates
  <1>4. Patchable(stores[c], body)
    BY <1>1, <1>2, <1>3, Ids DEF Patchable, HasTimeline, Kinds, FigureMessages
  <1>5. MayBeMade(c, body, 1)
    BY <1>2, <1>3, <1>4 DEF MayBeMade
  <1>6. Change(c, <<body>>, <<DiffOf(sent[c] + 1, body)>>) /\ taken \subseteq taken'
    BY <1>2 DEF ChangeOne, changeNote
  <1>7. QED
    BY <1>5, <1>6, OneDraws

LEMMA FigureActionDraws ==
  ASSUME NEW c, FigureAction(c)
  PROVE  Draws(c)
  BY AddingDraws, ChangingDraws DEF FigureAction
-----------------------------------------------------------------------------
(* A step of the pen changes nothing but the pen, or changes lines.        *)
PenWaits == UNCHANGED appVars

LEMMA LineMayBeMade ==
  ASSUME NEW c, NEW k, NEW body, body.id \in LineIds, Has(stores[c], body.id),
         body.case \in {"addPointsToLine", "removePointsFromLine", "deleteLine"}
  PROVE  MayBeMade(c, body, k)
  <1>1. ~Creates(body) /\ Sensible(body)
    BY DEF Creates, Sensible
  <1>2. Patchable(stores[c], body)
    BY LineBodyOK
  <1>3. QED
    BY <1>1, <1>2 DEF MayBeMade

LEMMA LinesDraw ==
  ASSUME NEW c, NEW bodies, NEW diffs, NEW k \in Nat, DOMAIN bodies = 1..k, Len(bodies) = k,
         \A i \in 1..k : MayBeMade(c, bodies[i], k), ChangeLines(c, bodies, diffs)
  PROVE  PenWaits \/ Draws(c)
  <1>1. CASE bodies = <<>>
    BY <1>1 DEF ChangeLines, PenWaits
  <1>2. CASE bodies # <<>>
    <2>1. Change(c, bodies, diffs) /\ taken \subseteq taken'
      BY <1>2 DEF ChangeLines
    <2>2. QED
      BY <2>1 DEF Draws
  <1>3. QED
    BY <1>1, <1>2

LEMMA EachLineDraws ==
  ASSUME NEW c, NEW some \in SUBSET LineIds, \A l \in some : Has(stores[c], l),
         NEW order \in SetToSeqs(some),
         NEW case \in {"addPointsToLine", "removePointsFromLine"}, NEW points, NEW diffs,
         ChangeLines(c, [i \in DOMAIN order |-> PointsBody(case, order[i], points[i])], diffs)
  PROVE  PenWaits \/ Draws(c)
  <1> DEFINE bodies == [i \in DOMAIN order |-> PointsBody(case, order[i], points[i])]
  <1>1. IsFiniteSet(some)
    BY AppAssumption, FS_Subset
  <1>2. PICK n \in Nat : order \in [1..n -> some] /\ DOMAIN order = 1..n
    BY <1>1, OrderIs
  <1>3. bodies = [i \in 1..n |-> bodies[i]] /\ DOMAIN bodies = 1..n
    BY <1>2
  <1>4. ASSUME NEW i \in 1..n PROVE MayBeMade(c, bodies[i], n)
    <2>1. bodies[i] = PointsBody(case, order[i], points[i]) /\ order[i] \in some
      BY <1>2, <1>4
    <2> DEFINE body == bodies[i]
    <2>2. body.id = order[i] /\ body.case = case
      BY <2>1 DEF PointsBody
    <2> HIDE DEF bodies, body
    <2>3. body.id \in LineIds /\ Has(stores[c], body.id)
      BY <2>1, <2>2
    <2>4. MayBeMade(c, body, n)
      BY <2>2, <2>3, LineMayBeMade
    <2>5. QED
      BY <2>4 DEF body
  <1>5. ChangeLines(c, bodies, diffs)
    OBVIOUS
  <1> HIDE DEF bodies
  <1>6. Len(bodies) = n
    BY <1>3, ListIsSeq
  <1>7. QED
    BY <1>3, <1>4, <1>5, <1>6, LinesDraw

LEMMA OneLine ==
  ASSUME NEW c, NEW body, MayBeMade(c, body, 1), NEW diffs, ChangeLines(c, <<body>>, diffs)
  PROVE  PenWaits \/ Draws(c)
  <1>1. Change(c, <<body>>, diffs) /\ taken \subseteq taken'
    <2>1. <<body>> # <<>>
      OBVIOUS
    <2>2. QED
      BY <2>1 DEF ChangeLines
  <1>2. QED
    BY <1>1, OneDraws

LEMMA FlushingDraws ==
  ASSUME NEW c, CachedOK(cached[c], stores[c]), NEW ctx, ContextOK(ctx, stores[c], taken),
         flush(c, ctx)
  PROVE  PenWaits \/ Draws(c)
  <1>1. CASE ctx.status = "IDLE" /\ UNCHANGED <<appVars, cached>>
    BY <1>1 DEF PenWaits
  <1>2. CASE FlushDrawing(c, ctx)
    <2> DEFINE body == PointsBody("addPointsToLine", ctx.line, G!lineToMessage(ctx.buffer))
    <2>1. /\ ctx.status = "DRAWING" /\ Change(c, <<body>>, <<T!AddPoints({})>>)
          /\ taken \subseteq taken'
      BY <1>2 DEF FlushDrawing
    <2>2. ctx.line \in LineIds /\ Has(stores[c], ctx.line)
      BY <2>1, ContextIs
    <2>3. body.id = ctx.line /\ body.case = "addPointsToLine"
      BY DEF PointsBody
    <2> HIDE DEF body
    <2>4. MayBeMade(c, body, 1)
      BY <2>2, <2>3, LineMayBeMade
    <2>5. QED
      BY <2>1, <2>4, OneDraws
  <1>3. CASE FlushErasing(c, ctx)
    <2> DEFINE some == {l \in LineIds : Met(c, ctx, l) # {}}
    <2>1. PICK order \in SetToSeqs(some) :
            ChangeLines(c,
              [i \in DOMAIN order |-> PointsBody("removePointsFromLine", order[i],
                                                 G!lineToMessage(Met(c, ctx, order[i])))],
              [i \in DOMAIN order |-> T!RemovePoints(Met(c, ctx, order[i]))])
      BY <1>3 DEF FlushErasing
    <2> DEFINE points == [i \in DOMAIN order |-> G!lineToMessage(Met(c, ctx, order[i]))]
               diffs == [i \in DOMAIN order |-> T!RemovePoints(Met(c, ctx, order[i]))]
    <2>2. [i \in DOMAIN order |-> PointsBody("removePointsFromLine", order[i],
                                             G!lineToMessage(Met(c, ctx, order[i])))]
            = [i \in DOMAIN order |-> PointsBody("removePointsFromLine", order[i], points[i])]
      OBVIOUS
    <2>3. ChangeLines(c, [i \in DOMAIN order |->
                            PointsBody("removePointsFromLine", order[i], points[i])], diffs)
      BY <2>1, <2>2
    <2>4. \A l \in some : Has(stores[c], l)
      BY MetIsKnown
    <2>5. some \in SUBSET LineIds
      OBVIOUS
    <2> HIDE DEF some, points, diffs
    <2>6. QED
      BY <2>3, <2>4, <2>5, EachLineDraws
  <1>4. QED
    BY <1>1, <1>2, <1>3 DEF flush

LEMMA UndoingDraws ==
  ASSUME NEW c, NEW action, ActionOK(action, stores[c]), undoDraw(c, action) \/ undoErase(c, action)
  PROVE  PenWaits \/ Draws(c)
  <1>1. CASE undoDraw(c, action)
    <2> DEFINE body == DeleteLineBody(action.line)
    <2>1. action.type = "DRAWN_LINE" /\ ChangeLines(c, <<body>>, <<T!LineDeletion>>)
      BY <1>1 DEF undoDraw
    <2>2. \A modified : Erased(modified).type = "ERASED"
      BY DEF Erased
    <2>3. PICK l \in LineIds : action = DrawnLine(l) /\ Has(stores[c], l)
      BY <2>1, <2>2 DEF ActionOK
    <2>4. body.id = l /\ body.case = "deleteLine"
      BY <2>3 DEF DeleteLineBody, DrawnLine
    <2> HIDE DEF body
    <2>5. MayBeMade(c, body, 1)
      BY <2>3, <2>4, LineMayBeMade
    <2>6. QED
      BY <2>1, <2>5, OneLine
  <1>2. CASE undoErase(c, action)
    <2> DEFINE some == {l \in LineIds : action.lines[l] # {}}
    <2>1. /\ action.type = "ERASED"
          /\ \E order \in SetToSeqs(some) :
               ChangeLines(c,
                 [i \in DOMAIN order |-> PointsBody("addPointsToLine", order[i],
                                                    G!lineToMessage(action.lines[order[i]]))],
                 [i \in DOMAIN order |-> T!AddPoints(action.lines[order[i]])])
      BY <1>2 DEF undoErase
    <2>2. PICK order \in SetToSeqs(some) :
               ChangeLines(c,
                 [i \in DOMAIN order |-> PointsBody("addPointsToLine", order[i],
                                                    G!lineToMessage(action.lines[order[i]]))],
                 [i \in DOMAIN order |-> T!AddPoints(action.lines[order[i]])])
      BY <2>1
    <2> DEFINE points == [i \in DOMAIN order |-> G!lineToMessage(action.lines[order[i]])]
               diffs == [i \in DOMAIN order |-> T!AddPoints(action.lines[order[i]])]
    <2>3. [i \in DOMAIN order |-> PointsBody("addPointsToLine", order[i],
                                             G!lineToMessage(action.lines[order[i]]))]
            = [i \in DOMAIN order |-> PointsBody("addPointsToLine", order[i], points[i])]
      OBVIOUS
    <2>4. ChangeLines(c, [i \in DOMAIN order |->
                            PointsBody("addPointsToLine", order[i], points[i])], diffs)
      BY <2>2, <2>3
    <2>5. \A l : DrawnLine(l).type = "DRAWN_LINE"
      BY DEF DrawnLine
    <2>6. PICK modified : action = Erased(modified) /\ AllHave(stores[c], modified)
      BY <2>1, <2>5 DEF ActionOK
    <2>7. \A l \in some : Has(stores[c], l)
      BY <2>6 DEF Erased, AllHave
    <2>8. some \in SUBSET LineIds
      OBVIOUS
    <2> HIDE DEF some, points, diffs
    <2>9. QED
      BY <2>4, <2>7, <2>8, EachLineDraws
  <1>3. QED
    BY <1>1, <1>2

LEMMA PenStepDraws ==
  ASSUME PensOK, NEW c \in Clients, PenStep(c)
  PROVE  PenWaits \/ Draws(c)
  <1>1. /\ ContextOK(context[c], stores[c], taken) /\ CachedOK(cached[c], stores[c])
        /\ HistoryOK(history[c], stores[c])
    BY DEF PensOK, PenOK
  <1>2. ASSUME NEW p, EraseDown(c, p) PROVE PenWaits
    BY <1>2 DEF EraseDown, PenWaits
  <1>3. ASSUME NEW p, onPointerMove(c, p) PROVE PenWaits \/ Draws(c)
    <2>1. PICK ctx : ctx = deriveStateFromNewPosition(context[c], p)
      OBVIOUS
    <2>2. ContextOK(ctx, stores[c], taken)
      BY <1>1, <2>1, DerivedOK
    <2>3. flush(c, ctx) \/ PenWaits
      BY <1>3, <2>1 DEF onPointerMove, PenWaits
    <2>4. QED
      BY <1>1, <2>2, <2>3, FlushingDraws
  <1>4. ASSUME NEW p, onPointerUp(c, p) PROVE PenWaits \/ Draws(c)
    <2>1. PICK ctx : ctx = deriveStateFromNewPosition(context[c], p)
      OBVIOUS
    <2>2. ContextOK(ctx, stores[c], taken)
      BY <1>1, <2>1, DerivedOK
    <2>3. flush(c, ctx)
      BY <1>4, <2>1 DEF onPointerUp
    <2>4. QED
      BY <1>1, <2>2, <2>3, FlushingDraws
  <1>5. ASSUME ThrottleTimer(c) PROVE PenWaits \/ Draws(c)
    BY <1>1, <1>5, FlushingDraws DEF ThrottleTimer
  <1>6. ASSUME undo(c) PROVE PenWaits \/ Draws(c)
    <2>1. /\ history[c] # <<>>
          /\ undoDraw(c, Last(history[c])) \/ undoErase(c, Last(history[c]))
      BY <1>6 DEF undo
    <2>2. ActionOK(Last(history[c]), stores[c])
      BY <1>1, <2>1, HistoryParts
    <2>3. QED
      BY <2>1, <2>2, UndoingDraws
  <1>7. ASSUME NEW p, NEW l \in LineIds, DrawDown(c, l, p) PROVE Draws(c)
    <2> DEFINE body == PointsBody("createLine", l, {p})
    <2>1. Invent(l) /\ Change(c, <<body>>, <<T!AddPoints({p})>>)
      BY <1>7 DEF DrawDown
    <2>2. body.id = l /\ body.case = "createLine"
      BY DEF PointsBody
    <2> HIDE DEF body
    <2>3. l \notin taken /\ l \in taken' /\ taken \subseteq taken'
      BY <2>1 DEF Invent
    <2>4. Patchable(stores[c], body) /\ Sensible(body)
      BY <2>2, LineBodyOK DEF Sensible
    <2>5. body.id \in IdsOf(StoreOf(body))
      BY <1>7, <2>2, Ids DEF StoreOf
    <2>6. MayBeMade(c, body, 1)
      BY <2>2, <2>3, <2>4, <2>5 DEF MayBeMade
    <2>7. QED
      BY <2>1, <2>3, <2>6, OneDraws
  <1>8. QED
    BY <1>2, <1>3, <1>4, <1>5, <1>6, <1>7 DEF PenStep
-----------------------------------------------------------------------------
(* The invariant in every execution.                                       *)
LEMMA SightStays ==
  ASSUME SightOK, UNCHANGED appVars
  PROVE  SightOK'
  <1>1. /\ UNCHANGED figureVars /\ UNCHANGED <<stores, taken, socket, fsm, host>>
        /\ UNCHANGED <<link, clientState, handlers, gaveUp, astray, evicted, toServer, toClient>>
    BY DEF appVars, clientVars, sessionVars, browserVars, channelVars, boardVars
  <1>2. \A b \in Boards : Content(b)' = Content(b)
    BY <1>1 DEF figureVars, Content
  <1>3. Contents' = Contents
    BY <1>2 DEF Contents
  <1>4. ContentsOK'
    BY <1>1, <1>2 DEF SightOK, ContentsOK, figureVars
  <1>5. ASSUME NEW x \in Clients PROVE ChannelOK(x)' /\ InSight(x)'
    <2>1. ChannelOK(x) /\ InSight(x)
      BY DEF SightOK
    <2>2. ChannelOK(x)'
      BY <1>1, <2>1 DEF ChannelOK
    <2>3. Misled' = Misled
      BY <1>1 DEF Misled
    <2>4. Watches(x) => Watches(x)'
      BY <1>1, <1>3 DEF Watches, Ready
    <2>5. InSight(x)'
      BY <1>1, <2>1, <2>3, <2>4 DEF InSight
    <2>6. QED
      BY <2>2, <2>5
  <1>6. QED
    BY <1>4, <1>5 DEF SightOK

LEMMA AppStepKeepsSight ==
  ASSUME BrowsersOK, SightOK, NEW c \in Clients, FigureAction(c) \/ AppStep(c)
  PROVE  SightOK'
  <1>1. ASSUME FigureAction(c) PROVE SightOK'
    BY <1>1, FigureActionDraws, DrawingKeepsSight
  <1>2. ASSUME ConnectionEvent(c) PROVE SightOK'
    <2>1. Connected(c) \/ Disconnected(c)
      BY <1>2 DEF ConnectionEvent
    <2>2. UNCHANGED <<figureVars, stores, taken>>
      BY <1>2 DEF ConnectionEvent
    <2>3. QED
      BY <2>1, <2>2, ConnectedKeepsSight, DisconnectedKeepsSight
  <1>3. ASSUME SessionAction(c) \/ ReceiveFigure(c) \/ TimeOutFigure(c)
        PROVE  SightOK'
    BY <1>3, ButtonsKeepSight, ReceiveKeepsSight, TimeOutKeepsSight
  <1>4. ASSUME HandleFigure(c) \/ SocketStep(c)
        PROVE  SightOK'
    BY <1>4, HandlingKeepsSight, SocketKeepsSight
  <1>5. QED
    BY <1>1, <1>2, <1>3, <1>4 DEF AppStep

LEMMA EmptyCopies == Blank(NoStore)
  <1>1. \A kind \in Kinds : \A id \in IdsOf(kind) : NoStore[kind][id] = NoTimeline
    BY DEF NoStore, IdsOf, Kinds
  <1>2. QED
    BY <1>1 DEF Blank, CommittedAt

LEMMA NothingIsWatched ==
  ASSUME NEW x, NEW s, Shown(s) = Anonymous, NEW store, NEW all
  PROVE  Watching(x, {}, s, store, <<>>, Anonymous, all)
  <1>1. PICK p : p = [i \in 0..0 |-> Anonymous]
    OBVIOUS
  <1>2. p \in [0..0 -> ClientFSM] /\ p[0] = Anonymous
    BY <1>1 DEF ClientFSM
  <1>3. Len(<<>>) = 0 /\ 1..0 = {}
    OBVIOUS
  <1>4. Course(x, {}, Shown(s), <<>>, Anonymous, p)
    BY <1>2, <1>3 DEF Course
  <1>5. AllCopied(<<>>, store, Anonymous, p, all)
    BY NobodysMember DEF AllCopied, Member
  <1>6. QED
    BY <1>2, <1>3, <1>4, <1>5 DEF Watching, Sight

LEMMA InitSight == AppInit => SightOK
  <1> SUFFICES ASSUME AppInit PROVE SightOK
    OBVIOUS
  <1>1. /\ socket = [c \in Clients |-> "new"] /\ fsm = [c \in Clients |-> Anonymous]
        /\ link = [c \in Clients |-> "connecting"]
        /\ clientState = [c \in Clients |-> Screen("CONNECTING")]
        /\ handlers = [c \in Clients |-> {}]
        /\ toServer = [c \in Clients |-> <<>>] /\ toClient = [c \in Clients |-> <<>>]
        /\ stores = [c \in Clients |-> NoStore]
    BY DEF AppInit, ClientInit, BrowsersAreNew, Init
  <1>2. /\ lines  = [b \in Boards |-> [l \in LineIds  |-> NoFigure]]
        /\ notes  = [b \in Boards |-> [n \in NoteIds  |-> NoFigure]]
        /\ images = [b \in Boards |-> [i \in ImageIds |-> NoFigure]]
    BY DEF AppInit, ServerInit
  <1>3. ContentsOK
    <2>1. lines = [b \in Boards |-> [l \in LineIds |-> lines[b][l]]]
      BY <1>2
    <2>2. /\ notes  \in [Boards -> [NoteIds -> NoteValues]]
          /\ images \in [Boards -> [ImageIds -> ImageValues]]
      BY <1>2 DEF NoteValues, ImageValues
    <2>3. ASSUME NEW b \in Boards, NEW kind \in Kinds, NEW id \in IdsOf(kind)
          PROVE  Content(b)[kind][id] = NoFigure
      <3>1. CASE kind = "note"
        BY <1>2, <2>3, <3>1, Ids DEF Content
      <3>2. CASE kind = "line"
        BY <1>2, <2>3, <3>2, Ids DEF Content
      <3>3. CASE kind = "image"
        BY <1>2, <2>3, <3>3, Ids DEF Content
      <3>4. QED
        BY <3>1, <3>2, <3>3 DEF Kinds
    <2>4. QED
      BY <2>1, <2>2, <2>3 DEF ContentsOK
  <1>4. ASSUME NEW x \in Clients PROVE ChannelOK(x) /\ InSight(x)
    <2>1. Orderly(x, {}, <<>>, <<>>, x \in gaveUp)
      BY DEF Orderly
    <2>2. Fresh(<<>>, <<>>, NoStore, taken)
      <3>1. \A kind \in Kinds : \A id \in IdsOf(kind) : NoStore[kind][id] = NoTimeline
        BY DEF NoStore, IdsOf, Kinds
      <3>2. QED
        BY <3>1 DEF Fresh
    <2>3. PICK s : s = Screen("CONNECTING")
      OBVIOUS
    <2>4. s.state = "CONNECTING" /\ s \in ConnectionState
      BY <2>3, AreScreens DEF Screen, On
    <2>5. Shown(s) = Anonymous
      BY <2>4, ShownStates
    <2>6. Watching(x, {}, s, NoStore, <<>>, Anonymous, Contents)
      BY <2>5, NothingIsWatched
    <2>7. clientState[x] = s /\ link[x] = "connecting" /\ stores[x] = NoStore
      BY <1>1, <2>3
    <2>8. Ready(x)
      BY <2>4, <2>7, EmptyCopies DEF Ready
    <2>9. Watches(x)
      BY <1>1, <2>6, <2>7, <2>8 DEF Watches
    <2>10. InSight(x)
      BY <1>1, <2>9 DEF InSight
    <2>11. ChannelOK(x)
      BY <1>1, <2>1, <2>2 DEF ChannelOK
    <2>12. QED
      BY <2>10, <2>11
  <1>5. QED
    BY <1>3, <1>4 DEF SightOK

LEMMA SightAlwaysOK == AppSpec => [](BrowsersOK /\ SightOK)
  <1>1. AppInit => BrowsersOK /\ SightOK
    BY InitMail, InitSight
  <1>2. BrowsersOK /\ SightOK /\ [AppNext]_appVars => (BrowsersOK /\ SightOK)'
    <2>1. ASSUME BrowsersOK, SightOK, NEW c \in Clients, FigureAction(c) \/ AppStep(c)
          PROVE  BrowsersOK' /\ SightOK'
      BY <2>1, AppKeepsMail, AppStepKeepsSight
    <2>2. ASSUME BrowsersOK, SightOK, UNCHANGED appVars
          PROVE  BrowsersOK' /\ SightOK'
      BY <2>2, BrowsersStay, SightStays
    <2>3. QED
      BY <2>1, <2>2 DEF AppNext
  <1>3. QED
    BY <1>1, <1>2, PTL DEF AppSpec

LEMMA SightWhileDrawing == DrawingSpec => [](PensOK /\ SightOK)
  <1>1. AppInit /\ DrawingInit => PensOK /\ SightOK
    BY InitPens, InitSight
  <1>2. PensOK /\ SightOK /\ [DrawingNext]_drawingVars => (PensOK /\ SightOK)'
    <2>1. ASSUME PensOK, SightOK, NEW c \in Clients, PenStep(c)
          PROVE  PensOK' /\ SightOK'
      <3>1. PensOK' /\ BrowsersOK
        BY <2>1, PenStepKeepsPens DEF PensOK
      <3>2. PenWaits \/ Draws(c)
        BY <2>1, PenStepDraws
      <3>3. QED
        BY <2>1, <3>1, <3>2, SightStays, DrawingKeepsSight DEF PenWaits
    <2>2. ASSUME PensOK, SightOK, NEW c \in Clients, AppAction(c)
          PROVE  PensOK' /\ SightOK'
      <3>1. FigureAction(c) \/ AppStep(c)
        BY <2>2 DEF AppAction
      <3>2. BrowsersOK
        BY <2>2 DEF PensOK
      <3>3. QED
        BY <2>2, <3>1, <3>2, AppKeepsPens, AppStepKeepsSight
    <2>3. ASSUME PensOK, SightOK, UNCHANGED drawingVars
          PROVE  PensOK' /\ SightOK'
      <3>1. UNCHANGED appVars
        BY <2>3 DEF drawingVars
      <3>2. QED
        BY <2>3, <3>1, PensStay, SightStays
    <2>4. QED
      BY <2>1, <2>2, <2>3 DEF DrawingNext
  <1>3. QED
    BY <1>1, <1>2, PTL DEF DrawingSpec
-----------------------------------------------------------------------------
(* What is shown when no patch is left is what the server sent.            *)
LEMMA NoPatches ==
  ASSUME NEW t, Timeline(t, {})
  PROVE  /\ t = [committed |-> t.committed, patches |-> <<>>]
         /\ T!Diffs(t) = <<>>
  <1>1. PICK D : t.patches \in Seq([id : {}, diff : D])
    BY DEF Timeline
  <1>2. t.patches = <<>>
    <2>1. [id : {}, diff : D] = {}
      OBVIOUS
    <2>2. QED
      BY <1>1, <2>1
  <1>3. t = [committed |-> t.committed, patches |-> t.patches]
    BY DEF Timeline
  <1>4. T!Diffs(t) = <<>>
    BY <1>2 DEF T!Diffs
  <1>5. QED
    BY <1>2, <1>3, <1>4

LEMMA OneChange ==
  ASSUME NEW t, Timeline(t, {}), NEW known
  PROVE  /\ t.committed = NoFigure => T!Changes(t, known) = <<>>
         /\ t.committed # NoFigure => T!Changes(t, known) = <<known>>
  <1>1. T!Diffs(t) = <<>>
    BY NoPatches
  <1>2. <<>> \o <<>> = <<>> /\ <<known>> \o <<>> = <<known>>
    OBVIOUS
  <1>3. QED
    BY <1>1, <1>2 DEF T!Changes

LEMMA OneWord ==
  ASSUME NEW known, NEW changes, changes = <<known>>, NEW field, known[field] # Undefined
  PROVE  T!Field(changes, {1}, field) = known[field]
  <1>1. changes[1] = known
    OBVIOUS
  <1>2. {i \in {1} : changes[i][field] # Undefined} = {1}
    BY <1>1
  <1>3. T!Newest({1}) = 1
    <2>1. \E i \in {1} : \A j \in {1} : j <= i
      OBVIOUS
    <2>2. QED
      BY <2>1 DEF T!Newest
  <1>4. QED
    BY <1>1, <1>2, <1>3 DEF T!Field

LEMMA NoWord ==
  ASSUME NEW changes, NEW field
  PROVE  T!Field(changes, {}, field) = Undefined
  BY DEF T!Field

LEMMA SettledNote ==
  ASSUME NEW t, Timeline(t, {}), t.committed \in NoteValues
  PROVE  T!getEffectiveNote(t) = t.committed
  <1> DEFINE note == t.committed
             known == T!DiffOfNote(note)
             changes == T!Changes(t, known)
  <1>1. CASE note = NoFigure
    <2>1. changes = <<>>
      BY <1>1, OneChange
    <2> HIDE DEF changes
    <2>2. T!SinceDeletion(changes) = {}
      BY <2>1 DEF T!SinceDeletion
    <2>3. T!Field(changes, T!SinceDeletion(changes), "position") = Undefined
      BY <2>2, NoWord
    <2>4. T!getEffectiveNote(t) = NoFigure
      BY <2>3 DEF T!getEffectiveNote, changes
    <2>5. QED
      BY <1>1, <2>4
  <1>2. CASE note # NoFigure
    <2>1. changes = <<known>>
      BY <1>2, OneChange
    <2>2. note \in [position : Coordinates, text : Texts, creatorId : Clients]
      BY <1>2 DEF NoteValues
    <2>3. /\ known.position = note.position /\ known.text = note.text /\ ~known.deleted
          /\ known.position # Undefined /\ known.text # Undefined
      BY <2>2, AppAssumption DEF T!DiffOfNote, T!NoteDiff
    <2> HIDE DEF changes, known
    <2>4. T!SinceDeletion(changes) = {1}
      <3>1. DOMAIN changes = {1} /\ changes[1] = known
        BY <2>1
      <3>2. QED
        BY <2>3, <3>1 DEF T!SinceDeletion
    <2>5. /\ T!Field(changes, {1}, "position") = note.position
          /\ T!Field(changes, {1}, "text") = note.text
      <3>1. known["position"] # Undefined /\ known["text"] # Undefined
        BY <2>3
      <3>2. QED
        BY <2>1, <2>3, <3>1, OneWord
    <2>6. T!getEffectiveNote(t) =
            [position |-> note.position, text |-> note.text, creatorId |-> note.creatorId]
      BY <1>2, <2>3, <2>4, <2>5 DEF T!getEffectiveNote, changes, known
    <2>7. QED
      BY <2>2, <2>6
  <1>3. QED
    BY <1>1, <1>2

LEMMA SettledImage ==
  ASSUME NEW t, Timeline(t, {}), t.committed \in ImageValues
  PROVE  T!getEffectiveImg(t) = t.committed
  <1> DEFINE img == t.committed
             known == T!DiffOfImg(img)
             changes == T!Changes(t, known)
  <1>1. CASE img = NoFigure
    <2>1. changes = <<>>
      BY <1>1, OneChange
    <2> HIDE DEF changes
    <2>2. T!Field(changes, DOMAIN changes, "position") = Undefined
      BY <2>1, NoWord
    <2>3. T!getEffectiveImg(t) = NoFigure
      BY <2>2 DEF T!getEffectiveImg, changes
    <2>4. QED
      BY <1>1, <2>3
  <1>2. CASE img # NoFigure
    <2>1. changes = <<known>>
      BY <1>2, OneChange
    <2>2. img \in [position : Coordinates, zIndex : Nat]
      BY <1>2 DEF ImageValues
    <2>3. /\ known.position = img.position /\ known.zIndex = img.zIndex
          /\ known.position # Undefined /\ known.zIndex # Undefined
      BY <2>2, AppAssumption DEF T!DiffOfImg, T!ImgDiff
    <2> HIDE DEF changes, known
    <2>4. DOMAIN changes = {1}
      BY <2>1
    <2>5. /\ T!Field(changes, {1}, "position") = img.position
          /\ T!Field(changes, {1}, "zIndex") = img.zIndex
      <3>1. known["position"] # Undefined /\ known["zIndex"] # Undefined
        BY <2>3
      <3>2. QED
        BY <2>1, <2>3, <3>1, OneWord
    <2>6. T!getEffectiveImg(t) = [position |-> img.position, zIndex |-> img.zIndex]
      BY <2>3, <2>4, <2>5 DEF T!getEffectiveImg, T!ImgDiff, changes, known
    <2>7. QED
      BY <2>2, <2>6
  <1>3. QED
    BY <1>1, <1>2

LEMMA SettledLine ==
  ASSUME NEW t, Timeline(t, {})
  PROVE  Ink(T!getEffectiveLine(t)) = Ink(t.committed)
  <1> DEFINE base == IF t.committed = NoFigure THEN {} ELSE t.committed
             diffs == T!Diffs(t)
  <1>1. diffs = <<>>
    BY NoPatches
  <1> HIDE DEF diffs
  <1>2. DOMAIN diffs = {}
    BY <1>1
  <1>3. T!FoldLeft(T!Draw, base, diffs) = base
    <2> DEFINE Step(g, s) ==
                 IF s = {} THEN base ELSE LET n == Max(s) IN T!Draw(g[s \ {n}], diffs[n])
               F == CHOOSE g : g = [s \in SUBSET DOMAIN diffs |-> Step(g, s)]
    <2>1. T!FoldLeft(T!Draw, base, diffs) = F[DOMAIN diffs]
      BY DEF T!FoldLeft, T!MapThenFoldSet, T!Max, Max
    <2>2. \E g : g = [s \in SUBSET DOMAIN diffs |-> Step(g, s)]
      <3>1. [s \in {{}} |-> base] = [s \in SUBSET DOMAIN diffs |-> Step([r \in {{}} |-> base], s)]
        BY <1>2
      <3>2. QED
        BY <3>1
    <2>3. F = [s \in SUBSET DOMAIN diffs |-> Step(F, s)]
      BY <2>2
    <2> HIDE DEF F
    <2>4. QED
      BY <1>2, <2>1, <2>3
  <1>4. T!getEffectiveLine(t) = base
    BY <1>2, <1>3 DEF T!getEffectiveLine, diffs
  <1>5. QED
    BY <1>4 DEF Ink

(* A browser to which nothing is on its way has what the server has.       *)
LEMMA NothingIsMissing ==
  ASSUME NEW x, NEW hs, NEW s, NEW store, NEW down, NEW g, NEW all,
         Watching(x, hs, s, store, down, g, all), down = <<>>
  PROVE  \A b \in Boards : g = UserOf(b) \/ g = HostOf(b) =>
           \A kind \in Kinds : \A id \in IdsOf(kind) :
             CommittedAt(store, kind, id) = all[b][kind][id]
  <1> SUFFICES ASSUME NEW b \in Boards, g \in {UserOf(b), HostOf(b)}, NEW kind \in Kinds,
                      NEW id \in IdsOf(kind)
               PROVE  CommittedAt(store, kind, id) = all[b][kind][id]
    OBVIOUS
  <1>1. PICK p \in [0..Len(down) -> ClientFSM] : AllCopied(down, store, g, p, all)
    BY DEF Watching, Sight
  <1>2. Copied(down, store, g, p, kind, id, all[b][kind][id])
    BY <1>1 DEF AllCopied
  <1>3. 0..Len(down) = {0}
    OBVIOUS
  <1>4. FigureAt(down, store, kind, id, all[b][kind][id], 0)
    BY <1>2, <1>3 DEF Copied
  <1>5. QED
    BY <1>4 DEF FigureAt

LEMMA SettledEntry ==
  ASSUME NEW store, StoreOK({}, store), NEW kind \in Kinds, NEW id \in IdsOf(kind),
         store[kind][id] # NoTimeline
  PROVE  Timeline(store[kind][id], {}) /\ CommittedAt(store, kind, id) = store[kind][id].committed
  <1>1. About({}, kind, id) = {}
    BY DEF About
  <1>2. EntryOK(store[kind][id], {})
    BY <1>1 DEF StoreOK
  <1>3. QED
    BY <1>2 DEF EntryOK, CommittedAt

LEMMA SettledStore ==
  ASSUME BrowsersOK, SightOK, NEW b \in Boards, NEW c \in Clients, Follows(c, b), Quiet(c),
         handlers[c] = {}
  PROVE  /\ StoreOK({}, stores[c])
         /\ \A kind \in Kinds : \A id \in IdsOf(kind) :
              CommittedAt(stores[c], kind, id) = Content(b)[kind][id]
  <1>1. StoreOK({}, stores[c])
    BY DEF BrowsersOK, StoresOK
  <1>2. /\ toClient[c] = <<>> /\ socket[c] # "closed" /\ link[c] # "closed" /\ c \notin Misled
        /\ fsm[c] \in {UserOf(b), HostOf(b)}
    BY DEF Quiet, Follows, Linked, InBoard
  <1>3. Watches(c)
    BY <1>2 DEF SightOK, InSight
  <1>4. PICK g, all : g = fsm[c] /\ all = Contents
    OBVIOUS
  <1>5. Watching(c, {}, clientState[c], stores[c], toClient[c], g, all)
    BY <1>2, <1>3, <1>4 DEF Watches
  <1>6. all[b] = Content(b) /\ (g = UserOf(b) \/ g = HostOf(b))
    BY <1>2, <1>4 DEF Contents
  <1>7. ASSUME NEW kind \in Kinds, NEW id \in IdsOf(kind)
        PROVE  CommittedAt(stores[c], kind, id) = Content(b)[kind][id]
    <2>1. CommittedAt(stores[c], kind, id) = all[b][kind][id]
      BY <1>2, <1>5, <1>6, NothingIsMissing
    <2>2. QED
      BY <1>6, <2>1
  <1>8. QED
    BY <1>1, <1>7

LEMMA SightConverges ==
  ASSUME BrowsersOK, SightOK
  PROVE  Converged
  <1> SUFFICES ASSUME NEW b \in Boards, NEW c \in Clients, Follows(c, b), Quiet(c), handlers[c] = {}
               PROVE  /\ \A n \in NoteIds  : ShownNote(c, n) = notes[b][n]
                      /\ \A i \in ImageIds : ShownImage(c, i) = images[b][i]
                      /\ \A l \in LineIds  : Ink(ShownLine(c, l)) = Ink(lines[b][l])
    BY DEF Converged
  <1>1. PICK store : store = stores[c]
    OBVIOUS
  <1>2. /\ StoreOK({}, store)
        /\ \A kind \in Kinds : \A id \in IdsOf(kind) :
             CommittedAt(store, kind, id) = Content(b)[kind][id]
    BY <1>1, SettledStore
  <1>3. ASSUME NEW n \in NoteIds PROVE ShownNote(c, n) = notes[b][n]
    <2>1. n \in IdsOf("note") /\ "note" \in Kinds
      BY Ids DEF Kinds
    <2>2. CommittedAt(store, "note", n) = notes[b][n]
      BY <1>2, <2>1 DEF Content
    <2>3. notes[b][n] \in NoteValues
      BY DEF SightOK, ContentsOK
    <2>4. CASE store["note"][n] = NoTimeline
      BY <1>1, <2>2, <2>4 DEF ShownNote, getEffectiveNote, CommittedAt
    <2>5. CASE store["note"][n] # NoTimeline
      <3>1. Timeline(store["note"][n], {}) /\ store["note"][n].committed = notes[b][n]
        BY <1>2, <2>1, <2>2, <2>5, SettledEntry
      <3>2. T!getEffectiveNote(store["note"][n]) = notes[b][n]
        BY <2>3, <3>1, SettledNote
      <3>3. QED
        BY <1>1, <2>5, <3>2 DEF ShownNote, getEffectiveNote
    <2>6. QED
      BY <2>4, <2>5
  <1>4. ASSUME NEW i \in ImageIds PROVE ShownImage(c, i) = images[b][i]
    <2>1. i \in IdsOf("image") /\ "image" \in Kinds
      BY Ids DEF Kinds
    <2>2. CommittedAt(store, "image", i) = images[b][i]
      BY <1>2, <2>1 DEF Content
    <2>3. images[b][i] \in ImageValues
      BY DEF SightOK, ContentsOK
    <2>4. CASE store["image"][i] = NoTimeline
      BY <1>1, <2>2, <2>4 DEF ShownImage, getEffectiveImg, CommittedAt
    <2>5. CASE store["image"][i] # NoTimeline
      <3>1. Timeline(store["image"][i], {}) /\ store["image"][i].committed = images[b][i]
        BY <1>2, <2>1, <2>2, <2>5, SettledEntry
      <3>2. T!getEffectiveImg(store["image"][i]) = images[b][i]
        BY <2>3, <3>1, SettledImage
      <3>3. QED
        BY <1>1, <2>5, <3>2 DEF ShownImage, getEffectiveImg
    <2>6. QED
      BY <2>4, <2>5
  <1>5. ASSUME NEW l \in LineIds PROVE Ink(ShownLine(c, l)) = Ink(lines[b][l])
    <2>1. l \in IdsOf("line") /\ "line" \in Kinds
      BY Ids DEF Kinds
    <2>2. CommittedAt(store, "line", l) = lines[b][l]
      BY <1>2, <2>1 DEF Content
    <2>3. CASE store["line"][l] = NoTimeline
      BY <1>1, <2>2, <2>3 DEF ShownLine, getEffectiveLine, CommittedAt
    <2>4. CASE store["line"][l] # NoTimeline
      <3>1. Timeline(store["line"][l], {}) /\ store["line"][l].committed = lines[b][l]
        BY <1>2, <2>1, <2>2, <2>4, SettledEntry
      <3>2. Ink(T!getEffectiveLine(store["line"][l])) = Ink(lines[b][l])
        BY <3>1, SettledLine
      <3>3. QED
        BY <1>1, <2>4, <3>2 DEF ShownLine, getEffectiveLine
    <2>5. QED
      BY <2>3, <2>4
  <1>6. QED
    BY <1>3, <1>4, <1>5

(* Convergence, for any number of browsers, whiteboards, figures and       *)
(* requests: when nothing is on its way to or from a member of a           *)
(* whiteboard and none of its requests waits, it shows the figures of the  *)
(* whiteboard that the server stores, whoever changed what in which order, *)
(* whatever was refused or timed out, and whenever it joined.              *)
THEOREM AlwaysConverged == AppSpec => []Converged
  BY SightConverges, SightAlwaysOK, PTL

(* The same while users draw, erase and undo.                              *)
THEOREM AlwaysConvergedWhileDrawing == DrawingSpec => []Converged
  <1>1. PensOK /\ SightOK => Converged
    BY SightConverges DEF PensOK
  <1>2. QED
    BY <1>1, SightWhileDrawing, PTL
-----------------------------------------------------------------------------
(* The news are found from the first message on.                           *)
LEMMA NotedByStep ==
  ASSUME NEW S, NEW s \in Seq(S)
  PROVE  \E g : /\ g[0] = <<>>
                /\ \A n \in Nat : n < Len(s) => g[n + 1] = Noted(g[n], s[n + 1])
                /\ News(s) = g[Len(s)]
  <1> DEFINE Step(g, t) == IF t = {} THEN <<>> ELSE LET n == Max(t) IN Noted(g[t \ {n}], s[n])
             Fun(n, g) == g = [t \in SUBSET (1..n) |-> Step(g, t)]
             F == CHOOSE g : g = [t \in SUBSET DOMAIN s |-> Step(g, t)]
  <1>1. News(s) = F[DOMAIN s]
    BY DEF News, FoldLeft, MapThenFoldSet
  <1>2. DOMAIN s = 1..Len(s) /\ Len(s) \in Nat
    OBVIOUS
  <1>3. \A n \in Nat : \E g : Fun(n, g)
    <2> DEFINE Good == {n \in Nat : \E g : Fun(n, g)}
    <2>1. 0 \in Good
      <3>1. Fun(0, [t \in SUBSET (1..0) |-> <<>>])
        OBVIOUS
      <3>2. QED
        BY <3>1
    <2>2. ASSUME NEW n \in Nat, n \in Good PROVE n + 1 \in Good
      <3>1. PICK g : Fun(n, g)
        BY <2>2
      <3> DEFINE h == [t \in SUBSET (1..(n + 1)) |-> IF n + 1 \in t THEN Step(g, t) ELSE g[t]]
      <3>2. ASSUME NEW t \in SUBSET (1..(n + 1)) PROVE h[t] = Step(h, t)
        <4>1. CASE n + 1 \in t
          <5>1. Max(t) = n + 1
            <6>1. t \subseteq Int /\ \A m \in t : m <= n + 1
              OBVIOUS
            <6>2. QED
              BY <4>1, <6>1, MaxIs
          <5>2. t \ {n + 1} \in SUBSET (1..(n + 1)) /\ n + 1 \notin t \ {n + 1}
            OBVIOUS
          <5>3. h[t] = Step(g, t) /\ h[t \ {n + 1}] = g[t \ {n + 1}]
            BY <4>1, <5>2
          <5>4. QED
            BY <4>1, <5>1, <5>3
        <4>2. CASE n + 1 \notin t
          <5>1. t \in SUBSET (1..n)
            BY <4>2
          <5>2. h[t] = g[t] /\ g[t] = Step(g, t)
            BY <3>1, <4>2, <5>1
          <5>3. \A m : h[t \ {m}] = g[t \ {m}]
            BY <4>2
          <5>4. QED
            BY <5>2, <5>3
        <4>3. QED
          BY <4>1, <4>2
      <3>3. Fun(n + 1, h)
        BY <3>2
      <3> HIDE DEF h, Fun
      <3>4. QED
        BY <3>3
    <2> HIDE DEF Good
    <2>3. Nat \subseteq Good
      BY <2>1, <2>2, ByInduction
    <2>4. QED
      BY <2>3 DEF Good
  <1>4. \A t \in SUBSET (1..Len(s)) : F[t] = Step(F, t)
    <2>1. Fun(Len(s), F)
      BY <1>2, <1>3
    <2>2. QED
      BY <2>1
  <1> HIDE DEF F
  <1> DEFINE g == [n \in Nat |-> F[1..n]]
  <1>5. g[0] = <<>>
    <2>1. F[{}] = <<>>
      BY <1>4
    <2>2. g[0] = F[{}]
      <3>1. 1..0 = {}
        OBVIOUS
      <3>2. QED
        BY <3>1
    <2>3. QED
      BY <2>1, <2>2
  <1>6. ASSUME NEW n \in Nat, n < Len(s) PROVE g[n + 1] = Noted(g[n], s[n + 1])
    <2> DEFINE t == 1..(n + 1)
    <2>1. t \in SUBSET (1..Len(s)) /\ t # {} /\ Max(t) = n + 1 /\ t \ {n + 1} = 1..n
      <3>1. t \in SUBSET (1..Len(s))
        BY <1>2, <1>6
      <3>2. n + 1 \in t
        OBVIOUS
      <3>3. QED
        BY <3>1, <3>2, MaxOfRange
    <2>2. g[n] = F[1..n] /\ g[n + 1] = F[t]
      OBVIOUS
    <2> HIDE DEF t, g
    <2>3. F[t] = Step(F, t)
      BY <1>4, <2>1
    <2>4. QED
      BY <2>1, <2>2, <2>3
  <1>7. News(s) = g[Len(s)]
    BY <1>1, <1>2
  <1> HIDE DEF g
  <1>8. QED
    BY <1>5, <1>6, <1>7

Heard(copy, news) == Copies!FoldLeft(Copies!Applied, copy, news)

(* They are heard from the first on.                                       *)
LEMMA HeardByStep ==
  ASSUME NEW S, NEW s \in Seq(S), NEW base
  PROVE  \E g : /\ g[0] = base
                /\ \A n \in Nat : n < Len(s) => g[n + 1] = Copies!Applied(g[n], s[n + 1])
                /\ Heard(base, s) = g[Len(s)]
  <1> DEFINE Step(g, t) == IF t = {} THEN base ELSE LET n == Max(t) IN Copies!Applied(g[t \ {n}], s[n])
             Fun(n, g) == g = [t \in SUBSET (1..n) |-> Step(g, t)]
             F == CHOOSE g : g = [t \in SUBSET DOMAIN s |-> Step(g, t)]
  <1>1. Heard(base, s) = F[DOMAIN s]
    BY DEF Heard, Copies!FoldLeft, Copies!MapThenFoldSet, Copies!Max, Max
  <1>2. DOMAIN s = 1..Len(s) /\ Len(s) \in Nat
    OBVIOUS
  <1>3. \A n \in Nat : \E g : Fun(n, g)
    <2> DEFINE Good == {n \in Nat : \E g : Fun(n, g)}
    <2>1. 0 \in Good
      <3>1. Fun(0, [t \in SUBSET (1..0) |-> base])
        OBVIOUS
      <3>2. QED
        BY <3>1
    <2>2. ASSUME NEW n \in Nat, n \in Good PROVE n + 1 \in Good
      <3>1. PICK g : Fun(n, g)
        BY <2>2
      <3> DEFINE h == [t \in SUBSET (1..(n + 1)) |-> IF n + 1 \in t THEN Step(g, t) ELSE g[t]]
      <3>2. ASSUME NEW t \in SUBSET (1..(n + 1)) PROVE h[t] = Step(h, t)
        <4>1. CASE n + 1 \in t
          <5>1. Max(t) = n + 1
            <6>1. t \subseteq Int /\ \A m \in t : m <= n + 1
              OBVIOUS
            <6>2. QED
              BY <4>1, <6>1, MaxIs
          <5>2. t \ {n + 1} \in SUBSET (1..(n + 1)) /\ n + 1 \notin t \ {n + 1}
            OBVIOUS
          <5>3. h[t] = Step(g, t) /\ h[t \ {n + 1}] = g[t \ {n + 1}]
            BY <4>1, <5>2
          <5>4. QED
            BY <4>1, <5>1, <5>3
        <4>2. CASE n + 1 \notin t
          <5>1. t \in SUBSET (1..n)
            BY <4>2
          <5>2. h[t] = g[t] /\ g[t] = Step(g, t)
            BY <3>1, <4>2, <5>1
          <5>3. \A m : h[t \ {m}] = g[t \ {m}]
            BY <4>2
          <5>4. QED
            BY <5>2, <5>3
        <4>3. QED
          BY <4>1, <4>2
      <3>3. Fun(n + 1, h)
        BY <3>2
      <3> HIDE DEF h, Fun
      <3>4. QED
        BY <3>3
    <2> HIDE DEF Good
    <2>3. Nat \subseteq Good
      BY <2>1, <2>2, ByInduction
    <2>4. QED
      BY <2>3 DEF Good
  <1>4. \A t \in SUBSET (1..Len(s)) : F[t] = Step(F, t)
    <2>1. Fun(Len(s), F)
      BY <1>2, <1>3
    <2>2. QED
      BY <2>1
  <1> HIDE DEF F
  <1> DEFINE g == [n \in Nat |-> F[1..n]]
  <1>5. g[0] = base
    <2>1. F[{}] = base
      BY <1>4
    <2>2. g[0] = F[{}]
      <3>1. 1..0 = {}
        OBVIOUS
      <3>2. QED
        BY <3>1
    <2>3. QED
      BY <2>1, <2>2
  <1>6. ASSUME NEW n \in Nat, n < Len(s) PROVE g[n + 1] = Copies!Applied(g[n], s[n + 1])
    <2> DEFINE t == 1..(n + 1)
    <2>1. t \in SUBSET (1..Len(s)) /\ t # {} /\ Max(t) = n + 1 /\ t \ {n + 1} = 1..n
      <3>1. t \in SUBSET (1..Len(s))
        BY <1>2, <1>6
      <3>2. n + 1 \in t
        OBVIOUS
      <3>3. QED
        BY <3>1, <3>2, MaxOfRange
    <2>2. g[n] = F[1..n] /\ g[n + 1] = F[t]
      OBVIOUS
    <2> HIDE DEF t, g
    <2>3. F[t] = Step(F, t)
      BY <1>4, <2>1
    <2>4. QED
      BY <2>1, <2>2, <2>3
  <1>7. Heard(base, s) = g[Len(s)]
    BY <1>1, <1>2
  <1> HIDE DEF g
  <1>8. QED
    BY <1>5, <1>6, <1>7

WordsOf(S) == {NewsOf(m.body) : m \in S}

LEMMA NewsAreSeq ==
  ASSUME NEW S, NEW s \in Seq(S), NEW g, g[0] = <<>>,
         \A n \in Nat : n < Len(s) => g[n + 1] = Noted(g[n], s[n + 1])
  PROVE  \A n \in 0..Len(s) : g[n] \in Seq(WordsOf(S))
  <1> DEFINE N == {n \in Nat : n <= Len(s) => g[n] \in Seq(WordsOf(S))}
  <1>1. Len(s) \in Nat
    OBVIOUS
  <1>2. 0 \in N
    BY EmptySeq
  <1>3. ASSUME NEW n \in Nat, n \in N PROVE n + 1 \in N
    <2> SUFFICES ASSUME n + 1 <= Len(s) PROVE g[n + 1] \in Seq(WordsOf(S))
      OBVIOUS
    <2>1. n < Len(s) /\ n + 1 \in 1..Len(s)
      BY <1>1
    <2>2. g[n] \in Seq(WordsOf(S)) /\ s[n + 1] \in S
      BY <1>1, <1>3, <2>1
    <2>3. NewsOf(s[n + 1].body) \in WordsOf(S)
      BY <2>2 DEF WordsOf
    <2>4. Noted(g[n], s[n + 1]) \in Seq(WordsOf(S))
      BY <2>2, <2>3 DEF Noted
    <2>5. QED
      BY <2>1, <2>4
  <1> HIDE DEF N
  <1>4. Nat \subseteq N
    BY <1>2, <1>3, ByInduction
  <1>5. QED
    BY <1>1, <1>4 DEF N

(* What is told later are later news.                                      *)
LEMMA NewsJoin ==
  ASSUME NEW S, NEW s \in Seq(S), NEW t \in Seq(S)
  PROVE  News(s \o t) = News(s) \o News(t)
  <1>1. PICK g : /\ g[0] = <<>>
                 /\ \A n \in Nat : n < Len(s \o t) => g[n + 1] = Noted(g[n], (s \o t)[n + 1])
                 /\ News(s \o t) = g[Len(s \o t)]
    <2>1. s \o t \in Seq(S)
      OBVIOUS
    <2>2. QED
      BY <2>1, NotedByStep
  <1>2. PICK h : /\ h[0] = <<>>
                 /\ \A n \in Nat : n < Len(s) => h[n + 1] = Noted(h[n], s[n + 1])
                 /\ News(s) = h[Len(s)]
    BY NotedByStep
  <1>3. PICK k : /\ k[0] = <<>>
                 /\ \A n \in Nat : n < Len(t) => k[n + 1] = Noted(k[n], t[n + 1])
                 /\ News(t) = k[Len(t)]
    BY NotedByStep
  <1>4. /\ Len(s) \in Nat /\ Len(t) \in Nat /\ Len(s \o t) = Len(s) + Len(t)
        /\ \A n \in Nat : n < Len(s) => (s \o t)[n + 1] = s[n + 1]
        /\ \A n \in Nat : n < Len(t) => (s \o t)[Len(s) + n + 1] = t[n + 1]
    OBVIOUS
  <1>5. /\ \A n \in 0..Len(s) : h[n] \in Seq(WordsOf(S))
        /\ \A n \in 0..Len(t) : k[n] \in Seq(WordsOf(S))
    BY <1>2, <1>3, NewsAreSeq
  <1>6. PICK a, b, all : a = Len(s) /\ b = Len(t) /\ all = s \o t
    OBVIOUS
  <1> DEFINE N == {n \in Nat : n <= a => g[n] = h[n]}
             P(n) == n <= b => g[a + n] = h[a] \o k[n]
  <1>7. 0 \in N /\ \A n \in Nat : n \in N => n + 1 \in N
    <2>1. 0 \in N
      BY <1>1, <1>2
    <2>2. ASSUME NEW n \in Nat, n \in N, n + 1 <= a PROVE g[n + 1] = h[n + 1]
      <3>1. n < a /\ n < Len(all) /\ g[n] = h[n] /\ all[n + 1] = s[n + 1]
        BY <1>4, <1>6, <2>2
      <3>2. QED
        BY <1>1, <1>2, <1>6, <3>1
    <2>3. QED
      BY <2>1, <2>2
  <1> HIDE DEF N
  <1>8. Nat \subseteq N
    BY <1>7, ByInduction
  <1>9. g[a] = h[a]
    BY <1>4, <1>6, <1>8 DEF N
  <1>10. h[a] \in Seq(WordsOf(S))
    BY <1>4, <1>5, <1>6
  <1>11. P(0)
    <2>1. a + 0 = a /\ h[a] \o <<>> = h[a]
      <3>1. a \in Nat
        BY <1>4, <1>6
      <3>2. QED
        BY <1>10, <3>1, ConcatEmptySeq
    <2>2. QED
      BY <1>3, <1>9, <2>1
  <1>12. ASSUME NEW n \in Nat, P(n) PROVE P(n + 1)
    <2> SUFFICES ASSUME n + 1 <= b PROVE g[a + (n + 1)] = h[a] \o k[n + 1]
      OBVIOUS
    <2>1. n < b /\ a + n \in Nat /\ a + n < Len(all) /\ a + (n + 1) = (a + n) + 1 /\ n \in 0..Len(t)
      BY <1>4, <1>6
    <2>2. all[(a + n) + 1] = t[n + 1]
      BY <1>4, <1>6, <2>1
    <2>3. g[a + n] = h[a] \o k[n]
      <3>1. n <= b
        BY <1>4, <1>6
      <3>2. QED
        BY <1>12, <3>1
    <2>4. g[(a + n) + 1] = Noted(h[a] \o k[n], t[n + 1]) /\ k[n + 1] = Noted(k[n], t[n + 1])
      BY <1>1, <1>3, <1>6, <2>1, <2>2, <2>3
    <2>5. k[n] \in Seq(WordsOf(S)) /\ NewsOf(t[n + 1].body) \in WordsOf(S)
      <3>1. t[n + 1] \in S
        BY <1>4, <1>6, <2>1
      <3>2. QED
        BY <1>5, <2>1, <3>1 DEF WordsOf
    <2>6. Noted(h[a] \o k[n], t[n + 1]) = h[a] \o Noted(k[n], t[n + 1])
      <3>1. PICK e : e = NewsOf(t[n + 1].body)
        OBVIOUS
      <3>2. PICK W : W = WordsOf(S)
        OBVIOUS
      <3>3. PICK u : u = <<e>>
        OBVIOUS
      <3>4. h[a] \o k[n] \in Seq(W) /\ e \in W /\ u \in Seq(W)
        BY <1>10, <2>5, <3>1, <3>2, <3>3
      <3>5. Append(h[a] \o k[n], e) = (h[a] \o k[n]) \o u /\ Append(k[n], e) = k[n] \o u
        BY <2>5, <3>2, <3>3, <3>4, AppendIsConcat
      <3>6. (h[a] \o k[n]) \o u = h[a] \o (k[n] \o u)
        <4>1. \A o, p, q \in Seq(W) : (o \o p) \o q = o \o (p \o q)
          BY ConcatAssociative
        <4>2. h[a] \in Seq(W) /\ k[n] \in Seq(W)
          BY <1>10, <2>5, <3>2
        <4>3. QED
          BY <3>4, <4>1, <4>2, Zenon
      <3>7. QED
        BY <3>1, <3>5, <3>6 DEF Noted
    <2>7. QED
      BY <2>1, <2>4, <2>6
  <1> HIDE DEF P
  <1>13. P(b)
    <2> DEFINE M == {n \in Nat : P(n)}
    <2>1. 0 \in M /\ \A n \in Nat : n \in M => n + 1 \in M
      BY <1>11, <1>12
    <2> HIDE DEF M
    <2>2. Nat \subseteq M
      BY <2>1, ByInduction
    <2>3. b \in M
      BY <1>4, <1>6, <2>2
    <2>4. QED
      BY <2>3 DEF M
  <1>14. g[a + b] = h[a] \o k[b]
    <2>1. b <= b
      BY <1>4, <1>6
    <2>2. QED
      BY <1>13, <2>1 DEF P
  <1>15. QED
    BY <1>1, <1>2, <1>3, <1>4, <1>6, <1>14

LEMMA NothingNoted ==
  ASSUME NEW S, NEW s \in Seq(S), \A i \in 1..Len(s) : s[i].body.type \notin FigureTypes
  PROVE  News(s) = <<>>
  <1>1. \E g : /\ g[0] = <<>>
               /\ \A n \in Nat : n < Len(s) => g[n + 1] = Noted(g[n], s[n + 1])
               /\ News(s) = g[Len(s)]
    BY NotedByStep
  <1>2. PICK g : (g[0] = <<>> /\ News(s) = g[Len(s)])
                 /\ (\A n \in Nat : n < Len(s) => g[n + 1] = Noted(g[n], s[n + 1]))
    BY <1>1
  <1>3. Len(s) \in Nat
    OBVIOUS
  <1> DEFINE N == {n \in Nat : n <= Len(s) => g[n] = <<>>}
  <1>4. 0 \in N
    BY <1>2
  <1>5. ASSUME NEW n \in Nat, n \in N PROVE n + 1 \in N
    <2> SUFFICES ASSUME n + 1 <= Len(s) PROVE g[n + 1] = <<>>
      OBVIOUS
    <2>1. n < Len(s) /\ n + 1 \in 1..Len(s) /\ g[n] = <<>>
      BY <1>3, <1>5
    <2>2. QED
      BY <1>2, <2>1 DEF Noted
  <1> HIDE DEF N
  <1>6. Nat \subseteq N
    BY <1>4, <1>5, ByInduction
  <1>7. Len(s) \in N
    BY <1>3, <1>6
  <1>8. g[Len(s)] = <<>>
    BY <1>3, <1>7 DEF N
  <1>9. QED
    BY <1>2, <1>8

LEMMA OneNews ==
  ASSUME NEW d
  PROVE  News(<<d>>) = IF d.body.type \in FigureTypes THEN <<NewsOf(d.body)>> ELSE <<>>
  <1>1. PICK s : s = <<d>>
    OBVIOUS
  <1>2. s \in Seq({d}) /\ Len(s) = 1 /\ s[0 + 1] = d
    BY <1>1
  <1>3. PICK g : /\ g[0] = <<>>
                 /\ \A n \in Nat : n < Len(s) => g[n + 1] = Noted(g[n], s[n + 1])
                 /\ News(s) = g[Len(s)]
    BY <1>2, NotedByStep
  <1>4. g[0 + 1] = Noted(<<>>, d) /\ News(s) = g[1]
    BY <1>2, <1>3
  <1>5. \A e : Append(<<>>, e) = <<e>>
    OBVIOUS
  <1>6. QED
    BY <1>1, <1>4, <1>5 DEF Noted

LEMMA NewsRead ==
  ASSUME NEW down, IsSeq(down), down # <<>>
  PROVE  News(down) = News(<<Head(down)>>) \o News(Tail(down))
  <1>1. PICK S : down \in Seq(S)
    BY DEF IsSeq
  <1>2. /\ Head(down) \in S /\ Tail(down) \in Seq(S) /\ down = <<Head(down)>> \o Tail(down)
        /\ <<Head(down)>> \in Seq(S)
    BY <1>1
  <1>3. PICK s, t : s = <<Head(down)>> /\ t = Tail(down)
    OBVIOUS
  <1>4. News(s \o t) = News(s) \o News(t)
    BY <1>2, <1>3, NewsJoin
  <1>5. QED
    BY <1>2, <1>3, <1>4

(* What is heard last is applied last.                                     *)
LEMMA HeardLast ==
  ASSUME NEW W, NEW q \in Seq(W), NEW w \in W, NEW copy
  PROVE  Heard(copy, <<>>) = copy /\ Heard(copy, Append(q, w)) = Copies!Applied(Heard(copy, q), w)
  <1>1. Heard(copy, <<>>) = copy
    <2>1. PICK none : none = <<>>
      OBVIOUS
    <2>2. none \in Seq(W) /\ Len(none) = 0
      BY <2>1
    <2>3. PICK g : /\ g[0] = copy
                   /\ \A n \in Nat : n < Len(none) => g[n + 1] = Copies!Applied(g[n], none[n + 1])
                   /\ Heard(copy, none) = g[Len(none)]
      BY <2>2, HeardByStep
    <2>4. QED
      BY <2>1, <2>2, <2>3
  <1>2. PICK g : /\ g[0] = copy
                 /\ \A n \in Nat : n < Len(q) => g[n + 1] = Copies!Applied(g[n], q[n + 1])
                 /\ Heard(copy, q) = g[Len(q)]
    BY HeardByStep
  <1>3. PICK all : all = Append(q, w)
    OBVIOUS
  <1>4. /\ all \in Seq(W) /\ Len(q) \in Nat /\ Len(all) = Len(q) + 1 /\ all[Len(q) + 1] = w
        /\ \A n \in Nat : n < Len(q) => all[n + 1] = q[n + 1]
    BY <1>3
  <1>5. PICK h : /\ h[0] = copy
                 /\ \A n \in Nat : n < Len(all) => h[n + 1] = Copies!Applied(h[n], all[n + 1])
                 /\ Heard(copy, all) = h[Len(all)]
    BY <1>4, HeardByStep
  <1> DEFINE N == {n \in Nat : n <= Len(q) => h[n] = g[n]}
  <1>6. 0 \in N
    BY <1>2, <1>5
  <1>7. ASSUME NEW n \in Nat, n \in N PROVE n + 1 \in N
    <2> SUFFICES ASSUME n + 1 <= Len(q) PROVE h[n + 1] = g[n + 1]
      OBVIOUS
    <2>1. n < Len(q) /\ n < Len(all) /\ h[n] = g[n]
      BY <1>4, <1>7
    <2>2. h[n + 1] = Copies!Applied(h[n], all[n + 1]) /\ all[n + 1] = q[n + 1]
      BY <1>4, <1>5, <2>1
    <2>3. QED
      BY <1>2, <2>1, <2>2
  <1> HIDE DEF N
  <1>8. Nat \subseteq N
    BY <1>6, <1>7, ByInduction
  <1>9. h[Len(q)] = g[Len(q)]
    BY <1>4, <1>8 DEF N
  <1>10. h[Len(q) + 1] = Copies!Applied(h[Len(q)], w)
    <2>1. Len(q) < Len(all)
      BY <1>4
    <2>2. QED
      BY <1>4, <1>5, <2>1
  <1>11. QED
    BY <1>1, <1>2, <1>3, <1>4, <1>5, <1>9, <1>10

LEMMA AppliedIs ==
  ASSUME NEW copy, StoreShape(copy), NEW w
  PROVE  /\ StoreShape(Copies!Applied(copy, w))
         /\ \A kind \in Kinds : \A id \in IdsOf(kind) :
              Copies!Applied(copy, w)[kind][id] =
                IF kind = w.kind /\ id = w.id THEN w.now ELSE copy[kind][id]
  <1>1. Copies!Applied(copy, w) = Put(copy, w.kind, w.id, w.now)
    BY DEF Copies!Applied, Put
  <1>2. QED
    BY <1>1, EntryIs

(* A copy gets what the messages on their way to it bring: the place of    *)
(* FigureAt is the message that does.                                      *)
LEMMA HearingFigures ==
  ASSUME NEW down, IsSeq(down),
         \A i \in 1..Len(down) : down[i].body.type \notin {"joinApproved", "whiteboardCreated"},
         NEW store, NEW copy, StoreShape(copy),
         \A kind \in Kinds : \A id \in IdsOf(kind) : copy[kind][id] = CommittedAt(store, kind, id)
  PROVE  /\ StoreShape(Heard(copy, News(down)))
         /\ \A kind \in Kinds : \A id \in IdsOf(kind) : \A fig : \A i \in 0..Len(down) :
              FigureAt(down, store, kind, id, fig, i) => Heard(copy, News(down))[kind][id] = fig
  <1>1. PICK S : down \in Seq(S)
    BY DEF IsSeq
  <1>2. PICK g : /\ g[0] = <<>>
                 /\ \A n \in Nat : n < Len(down) => g[n + 1] = Noted(g[n], down[n + 1])
                 /\ News(down) = g[Len(down)]
    BY <1>1, NotedByStep
  <1>3. \A n \in 0..Len(down) : g[n] \in Seq(WordsOf(S))
    BY <1>1, <1>2, NewsAreSeq
  <1>4. Len(down) \in Nat /\ \A n \in 1..Len(down) : down[n] \in S
    BY <1>1
  <1> DEFINE H(n) == Heard(copy, g[n])
             Right(n) ==
               /\ StoreShape(H(n))
               /\ \A kind \in Kinds : \A id \in IdsOf(kind) : \A fig : \A i \in 0..Len(down) :
                    i <= n /\ FigureAt(down, store, kind, id, fig, i) => H(n)[kind][id] = fig
  <1>5. Right(0)
    <2>1. H(0) = copy
      <3>1. <<>> \in Seq({1}) /\ 1 \in {1}
        OBVIOUS
      <3>2. QED
        BY <1>2, <3>1, HeardLast
    <2>2. \A i \in 0..Len(down) : i <= 0 => i = 0
      BY <1>4
    <2> HIDE DEF H
    <2>3. QED
      BY <2>1, <2>2 DEF FigureAt
  <1>6. ASSUME NEW n \in Nat, n < Len(down), Right(n) PROVE Right(n + 1)
    <2>1. n + 1 \in 1..Len(down) /\ n \in 0..Len(down)
      BY <1>4, <1>6
    <2>2. PICK m : m = down[n + 1].body
      OBVIOUS
    <2>3. /\ StoreShape(H(n + 1))
          /\ \A kind \in Kinds : \A id \in IdsOf(kind) :
               H(n + 1)[kind][id] = IF Concerns(m, kind, id) THEN NewsOf(m).now ELSE H(n)[kind][id]
      <3>1. CASE m.type \in FigureTypes
        <4>1. g[n + 1] = Append(g[n], NewsOf(m)) /\ g[n] \in Seq(WordsOf(S)) /\ NewsOf(m) \in WordsOf(S)
          BY <1>2, <1>3, <1>4, <1>6, <2>1, <2>2, <3>1 DEF Noted, WordsOf
        <4>2. H(n + 1) = Copies!Applied(H(n), NewsOf(m))
          BY <4>1, HeardLast
        <4>3. StoreShape(H(n))
          BY <1>6
        <4> HIDE DEF H
        <4>4. /\ StoreShape(H(n + 1))
              /\ \A kind \in Kinds : \A id \in IdsOf(kind) :
                   H(n + 1)[kind][id] =
                     IF kind = NewsOf(m).kind /\ id = NewsOf(m).id THEN NewsOf(m).now ELSE H(n)[kind][id]
          <5>1. \A u, w : StoreShape(u) => StoreShape(Copies!Applied(u, w))
            BY AppliedIs
          <5>2. \A u, w : StoreShape(u) =>
                  \A kind \in Kinds : \A id \in IdsOf(kind) :
                    Copies!Applied(u, w)[kind][id] =
                      IF kind = w.kind /\ id = w.id THEN w.now ELSE u[kind][id]
            BY AppliedIs
          <5>3. PICK u, v, w : u = H(n) /\ v = H(n + 1) /\ w = NewsOf(m)
            OBVIOUS
          <5>4. StoreShape(u) /\ v = Copies!Applied(u, w)
            BY <4>2, <4>3, <5>3
          <5>5. StoreShape(v)
            BY <5>1, <5>4
          <5>6. ASSUME NEW kind \in Kinds, NEW id \in IdsOf(kind)
                PROVE  v[kind][id] = IF kind = w.kind /\ id = w.id THEN w.now ELSE u[kind][id]
            BY <5>2, <5>4
          <5>7. QED
            BY <5>3, <5>5, <5>6
        <4>5. \A kind, id : Concerns(m, kind, id) <=> kind = NewsOf(m).kind /\ id = NewsOf(m).id
          BY <3>1 DEF Concerns
        <4>6. QED
          BY <4>4, <4>5
      <3>2. CASE m.type \notin FigureTypes
        <4>1. g[n + 1] = g[n]
          BY <1>2, <1>6, <2>2, <3>2 DEF Noted
        <4>2. H(n + 1) = H(n) /\ StoreShape(H(n))
          BY <1>6, <4>1
        <4> HIDE DEF H
        <4>3. QED
          BY <3>2, <4>2 DEF Concerns
      <3>3. QED
        BY <3>1, <3>2
    <2> HIDE DEF H
    <2>4. ASSUME NEW kind \in Kinds, NEW id \in IdsOf(kind), NEW fig, NEW i \in 0..Len(down),
                 i <= n + 1, FigureAt(down, store, kind, id, fig, i)
          PROVE  H(n + 1)[kind][id] = fig
      <3>1. CASE i = n + 1
        <4>1. Concerns(m, kind, id) /\ NewsOf(m).now = fig
          BY <2>1, <2>2, <2>4, <3>1 DEF FigureAt, Brings
        <4>2. QED
          BY <2>3, <4>1
      <3>2. CASE i # n + 1
        <4>1. i <= n /\ n + 1 > i
          BY <1>4, <2>4, <3>2
        <4>2. H(n)[kind][id] = fig
          BY <1>6, <2>4, <4>1
        <4>3. Concerns(m, kind, id) => NewsOf(m).now = fig
          BY <2>1, <2>2, <2>4, <4>1 DEF FigureAt
        <4>4. QED
          BY <2>3, <4>2, <4>3
      <3>3. QED
        BY <3>1, <3>2
    <2>5. QED
      BY <2>3, <2>4
  <1> HIDE DEF Right
  <1>7. Right(Len(down))
    <2> DEFINE N == {n \in Nat : n <= Len(down) => Right(n)}
    <2>1. 0 \in N
      BY <1>5
    <2>2. ASSUME NEW n \in Nat, n \in N PROVE n + 1 \in N
      <3>1. n + 1 <= Len(down) => n < Len(down) /\ n <= Len(down)
        BY <1>4
      <3>2. QED
        BY <1>6, <2>2, <3>1
    <2> HIDE DEF N
    <2>3. Nat \subseteq N
      BY <2>1, <2>2, ByInduction
    <2>4. QED
      BY <1>4, <2>3 DEF N
  <1>8. \A i \in 0..Len(down) : i <= Len(down)
    BY <1>4
  <1>9. QED
    BY <1>2, <1>7, <1>8 DEF Right

LEMMA CommittedIs ==
  ASSUME NEW store, StoreShape(store)
  PROVE  /\ StoreShape(Committed(store))
         /\ \A kind \in Kinds : \A id \in IdsOf(kind) :
              Committed(store)[kind][id] = CommittedAt(store, kind, id)
  <1>1. DOMAIN store = Kinds /\ \A kind \in Kinds : DOMAIN store[kind] = IdsOf(kind)
    BY DEF StoreShape
  <1>2. Committed(store) = [kind \in Kinds |-> [id \in IdsOf(kind) |-> CommittedAt(store, kind, id)]]
    BY <1>1 DEF Committed, CommittedAt
  <1>3. QED
    BY <1>2 DEF StoreShape

LEMMA SameEntries ==
  ASSUME NEW a, NEW b, StoreShape(a), StoreShape(b),
         \A kind \in Kinds : \A id \in IdsOf(kind) : a[kind][id] = b[kind][id]
  PROVE  a = b
  <1>1. ASSUME NEW kind \in Kinds PROVE a[kind] = b[kind]
    <2>1. a[kind] = [id \in IdsOf(kind) |-> a[kind][id]] /\ b[kind] = [id \in IdsOf(kind) |-> b[kind][id]]
      BY DEF StoreShape
    <2>2. QED
      BY <2>1
  <1>2. a = [kind \in Kinds |-> a[kind]] /\ b = [kind \in Kinds |-> b[kind]]
    BY DEF StoreShape
  <1>3. QED
    BY <1>1, <1>2

LEMMA ContentShape ==
  ASSUME ContentsOK, NEW b \in Boards
  PROVE  StoreShape(Content(b))
  <1>1. DOMAIN Content(b) = Kinds /\ Content(b) = [kind \in {"note", "image", "line"} |-> Content(b)[kind]]
    BY DEF Content, Kinds
  <1>2. /\ Content(b)["note"] = [n \in NoteIds |-> notes[b][n]]
        /\ Content(b)["image"] = [i \in ImageIds |-> images[b][i]]
        /\ Content(b)["line"] = [l \in LineIds |-> lines[b][l]]
    BY DEF Content, ContentsOK
  <1>3. Kinds = {"note", "image", "line"}
    BY DEF Kinds
  <1>4. \A kind \in Kinds : Content(b)[kind] = [id \in IdsOf(kind) |-> Content(b)[kind][id]]
    BY <1>2, <1>3, Ids
  <1>5. QED
    BY <1>1, <1>3, <1>4 DEF StoreShape

(* Whoever listens is a member and knows it.                               *)
LEMMA ListenerIs ==
  ASSUME BrowsersOK, SightOK, NEW x \in Clients, Listens(x)
  PROVE  /\ \E b \in Boards : /\ b = fsm[x].board /\ fsm[x] \in {UserOf(b), HostOf(b)}
                              /\ Shown(clientState[x]) \in {UserOf(b), HostOf(b)}
                              /\ clientState[x] \in {On("WHITEBOARD_USER", b), On("WHITEBOARD_HOST", b)}
         /\ x \notin Misled /\ socket[x] = "open" /\ link[x] = "open" /\ Watches(x)
         /\ clientState[x] \in ConnectionState /\ Online(clientState[x])
         /\ IsSeq(toClient[x]) /\ StoreOK(handlers[x], stores[x])
         /\ \A i \in 1..Len(toClient[x]) :
              toClient[x][i].body.type \notin {"joinApproved", "whiteboardCreated"}
  <1>1. PICK b \in Boards : /\ clientState[x] \in {On("WHITEBOARD_USER", b), On("WHITEBOARD_HOST", b)}
                            /\ Follows(x, b)
    BY DEF Listens
  <1>2. /\ fsm[x] \in {UserOf(b), HostOf(b)} /\ x \notin Misled /\ link[x] = "open" /\ socket[x] = "open"
    BY <1>1 DEF Follows, InBoard, Linked
  <1>3. b = fsm[x].board
    BY <1>2 DEF UserOf, HostOf
  <1>4. Shown(clientState[x]) \in {UserOf(b), HostOf(b)}
    BY <1>1 DEF Shown, ServerStateOf, On
  <1>5. Watches(x)
    BY <1>2 DEF SightOK, InSight
  <1>6. clientState[x] \in ConnectionState /\ Online(clientState[x])
    BY <1>2, <1>5 DEF Watches, Ready
  <1>7. IsSeq(toClient[x]) /\ StoreOK(handlers[x], stores[x])
    BY DEF BrowsersOK, BrowserOK, Mailbox, DownOK, StoresOK
  <1>8. DOMAIN toClient[x] = 1..Len(toClient[x])
    BY <1>7 DEF IsSeq
  <1>9. \A i \in 1..Len(toClient[x]) : toClient[x][i].body.type \notin {"joinApproved", "whiteboardCreated"}
    BY <1>8 DEF Listens, BeingAdmitted
  <1>10. QED
    BY <1>1, <1>2, <1>3, <1>4, <1>5, <1>6, <1>7, <1>9

(* Its copy becomes right with its news.                                   *)
LEMMA ListenerIsRight ==
  ASSUME BrowsersOK, SightOK, NEW x \in Clients, Listens(x)
  PROVE  fsm[x].board \in Boards /\ Heard(Committed(stores[x]), News(toClient[x])) = Content(fsm[x].board)
  <1>1. PICK b \in Boards : b = fsm[x].board /\ fsm[x] \in {UserOf(b), HostOf(b)}
    BY ListenerIs
  <1>2. PICK down, store, g, all : down = toClient[x] /\ store = stores[x] /\ g = fsm[x] /\ all = Contents
    OBVIOUS
  <1>3. /\ Watches(x) /\ IsSeq(down) /\ StoreShape(store)
        /\ \A i \in 1..Len(down) : down[i].body.type \notin {"joinApproved", "whiteboardCreated"}
    BY <1>2, ListenerIs DEF StoreOK
  <1>4. PICK p : AllCopied(down, store, g, p, all)
    BY <1>2, <1>3 DEF Watches, Watching, Sight
  <1>5. g \in {UserOf(b), HostOf(b)}
    BY <1>1, <1>2
  <1>6. PICK copy : copy = Committed(store)
    OBVIOUS
  <1>7. /\ StoreShape(copy)
        /\ \A kind \in Kinds : \A id \in IdsOf(kind) : copy[kind][id] = CommittedAt(store, kind, id)
    BY <1>3, <1>6, CommittedIs
  <1>8. /\ StoreShape(Heard(copy, News(down)))
        /\ \A kind \in Kinds : \A id \in IdsOf(kind) : \A fig : \A i \in 0..Len(down) :
             FigureAt(down, store, kind, id, fig, i) => Heard(copy, News(down))[kind][id] = fig
    BY <1>3, <1>7, HearingFigures
  <1>9. ASSUME NEW kind \in Kinds, NEW id \in IdsOf(kind)
        PROVE  Heard(copy, News(down))[kind][id] = all[b][kind][id]
    <2>1. Copied(down, store, g, p, kind, id, all[b][kind][id])
      BY <1>4, <1>5 DEF AllCopied
    <2>2. PICK i \in 0..Len(down) : FigureAt(down, store, kind, id, all[b][kind][id], i)
      BY <2>1 DEF Copied
    <2>3. QED
      BY <1>8, <2>2
  <1>10. all[b] = Content(b)
    BY <1>2 DEF Contents
  <1>11. StoreShape(Content(b))
    BY ContentShape DEF SightOK
  <1>12. Heard(copy, News(down)) = Content(b)
    BY <1>8, <1>9, <1>10, <1>11, SameEntries
  <1>13. QED
    BY <1>1, <1>2, <1>6, <1>12

-----------------------------------------------------------------------------
(* Members that come have the right copy with the news that they are told, *)
(* by the invariant; so only who stays can go wrong.                       *)

ReadersRight ==
  \A x \in Clients : Listens(x) =>
    /\ fsm[x].board \in Boards
    /\ Heard(Committed(stores[x]), News(toClient[x])) = Content(fsm[x].board)

LEMMA ReadersAreRight == BrowsersOK /\ SightOK => ReadersRight
  BY ListenerIsRight DEF ReadersRight

LEMMA ReadersStayRight == BrowsersOK' /\ SightOK' => ReadersRight'
  <1>1. (BrowsersOK /\ SightOK => ReadersRight)'
    BY ReadersAreRight, PTL
  <1>2. QED
    BY <1>1

ReaderSame(x) ==
  /\ fsm'[x].board = fsm[x].board /\ News(toClient'[x]) = News(toClient[x])
  /\ Committed(stores'[x]) = Committed(stores[x])

LEMMA ComingAndGoing ==
  ASSUME BrowsersOK', SightOK', NEW x \in Clients, Listens(x) /\ Listens(x)' => ReaderSame(x)
  PROVE  Copies!Stays(x) \/ Copies!Goes(x) \/ Copies!Comes(x)
  <1>1. CASE ~Listens(x)'
    BY <1>1 DEF Copies!Goes, Reader
  <1>2. CASE Listens(x)' /\ Listens(x)
    BY <1>2 DEF Copies!Stays, Reader, ReaderSame
  <1>3. CASE Listens(x)' /\ ~Listens(x)
    <2>1. ReadersRight'
      BY ReadersStayRight
    <2>2. /\ fsm'[x].board \in Boards
          /\ Heard(Committed(stores'[x]), News(toClient'[x])) = Content(fsm[x].board)'
      BY <1>3, <2>1 DEF ReadersRight
    <2>3. Reader(x)' = [board |-> fsm'[x].board, news |-> News(toClient'[x]), copy |-> Committed(stores'[x])]
      BY <1>3 DEF Reader
    <2>4. Copies!WillBeRight(Reader(x))'
      BY <2>2, <2>3 DEF Copies!WillBeRight, Heard, Content
    <2>5. QED
      BY <1>3, <2>4 DEF Copies!Comes, Reader
  <1>4. QED
    BY <1>1, <1>2, <1>3

LEMMA AllComeAndGo ==
  ASSUME BrowsersOK', SightOK', Contents' = Contents,
         \A x \in Clients : Listens(x) /\ Listens(x)' => ReaderSame(x)
  PROVE  Copies!Next
  <1>1. \A x \in Clients : Copies!Stays(x) \/ Copies!Goes(x) \/ Copies!Comes(x)
    BY ComingAndGoing
  <1>2. QED
    BY <1>1 DEF Copies!Next, Copies!ComeAndGo, Contents

-----------------------------------------------------------------------------
(* A step of a browser, of which others hear nothing yet.                  *)

LEMMA SameCommitted ==
  ASSUME NEW a, NEW b, StoreShape(a), StoreShape(b),
         \A kind \in Kinds : \A id \in IdsOf(kind) : CommittedAt(a, kind, id) = CommittedAt(b, kind, id)
  PROVE  Committed(a) = Committed(b)
  <1>1. /\ StoreShape(Committed(a)) /\ StoreShape(Committed(b))
        /\ \A kind \in Kinds : \A id \in IdsOf(kind) :
             Committed(a)[kind][id] = CommittedAt(a, kind, id) /\ Committed(b)[kind][id] = CommittedAt(b, kind, id)
    BY CommittedIs
  <1>2. PICK u, v : u = Committed(a) /\ v = Committed(b)
    OBVIOUS
  <1>3. \A kind \in Kinds : \A id \in IdsOf(kind) : u[kind][id] = v[kind][id]
    BY <1>1, <1>2
  <1>4. u = v
    BY <1>1, <1>2, <1>3, SameEntries
  <1>5. QED
    BY <1>2, <1>4

LEMMA ShapesAre ==
  ASSUME BrowsersOK, NEW x \in Clients
  PROVE  StoreShape(stores[x])
  BY DEF BrowsersOK, StoresOK, StoreOK

LEMMA ShapesStay == BrowsersOK' => \A x \in Clients : StoreShape(stores[x])'
  <1>1. BrowsersOK => \A x \in Clients : StoreShape(stores[x])
    BY ShapesAre
  <1>2. (BrowsersOK => \A x \in Clients : StoreShape(stores[x]))'
    BY <1>1, PTL
  <1>3. QED
    BY <1>2

LEMMA SameReader ==
  ASSUME BrowsersOK, BrowsersOK', ServerIdle, NEW c \in Clients, toClient'[c] = toClient[c],
         \A kind \in Kinds : \A id \in IdsOf(kind) :
           CommittedAt(stores'[c], kind, id) = CommittedAt(stores[c], kind, id)
  PROVE  ReaderSame(c)
  <1>1. StoreShape(stores[c]) /\ StoreShape(stores'[c])
    BY ShapesAre, ShapesStay DEF StoreShape
  <1>2. Committed(stores'[c]) = Committed(stores[c])
    BY <1>1, SameCommitted
  <1>3. QED
    BY <1>2 DEF ReaderSame, ServerIdle

Unaware(c) ==
  \A x \in Clients : x # c => stores'[x] = stores[x] /\ toClient'[x] = toClient[x]

LEMMA QuietStep ==
  ASSUME SightOK, BrowsersOK', SightOK', ServerIdle, UNCHANGED figureVars, taken \subseteq taken',
         NEW c \in Clients, Unaware(c), Listens(c) /\ Listens(c)' => ReaderSame(c)
  PROVE  Copies!Next
  <1>1. Contents' = Contents
    BY ContentsRest DEF SightOK
  <1>2. ASSUME NEW x \in Clients, x # c PROVE ReaderSame(x)
    BY <1>2 DEF Unaware, ReaderSame, ServerIdle
  <1>3. \A x \in Clients : Listens(x) /\ Listens(x)' => ReaderSame(x)
    BY <1>2
  <1>4. QED
    BY <1>1, <1>3, AllComeAndGo

LEMMA PressingIsQuiet ==
  ASSUME BrowsersOK, SightOK, BrowsersOK', SightOK', NEW c \in Clients, NEW bodies, NEW k \in Nat,
         NEW new, Presses(c, bodies, k, new)
  PROVE  Copies!Next
  <1>0. /\ PressAll(c, bodies) /\ UNCHANGED figureVars /\ taken \subseteq taken'
        /\ stores' = [stores EXCEPT ![c] = new]
        /\ \A kind \in Kinds : \A id \in IdsOf(kind) :
             CommittedAt(new, kind, id) = CommittedAt(stores[c], kind, id)
    BY DEF Presses, SameCopies
  <1>1. ServerIdle /\ UNCHANGED toClient
    BY <1>0 DEF PressAll
  <1>2. stores'[c] = new /\ Unaware(c)
    BY <1>0, <1>1 DEF BrowsersOK, StoresOK, Unaware
  <1>3. ReaderSame(c)
    BY <1>0, <1>1, <1>2, SameReader
  <1>4. QED
    BY <1>0, <1>1, <1>2, <1>3, QuietStep

LEMMA DrawingIsQuiet ==
  ASSUME BrowsersOK, SightOK, BrowsersOK', SightOK', NEW c \in Clients, Draws(c)
  PROVE  Copies!Next
  <1>1. PICK bodies, new : \E k \in Nat : Presses(c, bodies, k, new)
    BY DrawingIsPressing
  <1>2. PICK k \in Nat : Presses(c, bodies, k, new)
    BY <1>1
  <1>3. QED
    BY <1>2, PressingIsQuiet

(* Whoever leaves an ended session is shown no whiteboard any more, nor is *)
(* one whose link is new or gone.                                          *)
ListenersShow ==
  \A x \in Clients : Listens(x) => /\ clientState[x].state \in {"WHITEBOARD_USER", "WHITEBOARD_HOST"}
                                   /\ Member(Shown(clientState[x]))
                                   /\ link[x] = "open" /\ x \notin Misled

LEMMA WhoListens == ListenersShow
  BY DEF ListenersShow, Listens, On, Follows, Linked, Member, Shown, ServerStateOf

LEMMA WhoWillListen == ListenersShow'
  BY WhoListens, PTL

LEMMA ButtonsAreQuiet ==
  ASSUME BrowsersOK, SightOK, BrowsersOK', SightOK', NEW c \in Clients, SessionAction(c)
  PROVE  Copies!Next
  <1>1. CASE exitEndedSession(c) /\ stores' = [stores EXCEPT ![c] = NoStore]
    <2>1. /\ clientState' = [clientState EXCEPT ![c] = Screen("NO_WHITEBOARD")]
          /\ ServerIdle /\ UNCHANGED toClient
      BY <1>1 DEF exitEndedSession, channelVars
    <2>2. Unaware(c) /\ clientState'[c] = Screen("NO_WHITEBOARD")
      BY <1>1, <2>1 DEF BrowsersOK, StoresOK, MailDomains, Unaware
    <2>3. ~Listens(c)'
      BY <2>2, WhoWillListen DEF ListenersShow, Screen, On
    <2>4. UNCHANGED <<figureVars, taken>>
      BY ButtonsAsk
    <2>5. QED
      BY <2>1, <2>2, <2>3, <2>4, QuietStep
  <1>2. CASE /\ UNCHANGED stores
             /\ \E body : body.case \notin FigureMessages /\ PressAll(c, <<body>>)
    <2>1. UNCHANGED <<figureVars, taken>>
      BY ButtonsAsk
    <2>2. PICK bodies, new : \E k \in Nat : Presses(c, bodies, k, new)
      BY <1>2, <2>1, OnePressIsPressing
    <2>3. PICK k \in Nat : Presses(c, bodies, k, new)
      BY <2>2
    <2>4. QED
      BY <2>3, PressingIsQuiet
  <1>3. QED
    BY <1>1, <1>2, ButtonsAsk

LEMMA LinkIsQuiet ==
  ASSUME BrowsersOK, SightOK, BrowsersOK', SightOK', NEW c \in Clients, ConnectionEvent(c)
  PROVE  Copies!Next
  <1>1. UNCHANGED <<figureVars, stores, taken>>
    BY DEF ConnectionEvent
  <1>2. MailDomains
    BY DEF BrowsersOK
  <1>3. CASE Connected(c)
    <2>1. /\ clientState' = [clientState EXCEPT ![c] = Screen("ANONYMOUS")]
          /\ link' = [link EXCEPT ![c] = "open"] /\ ServerIdle
          /\ UNCHANGED toClient
      BY <1>3 DEF Connected, channelVars
    <2>2. Unaware(c) /\ clientState'[c] = Screen("ANONYMOUS")
      BY <1>1, <1>2, <2>1 DEF MailDomains, Unaware
    <2>3. ~Listens(c)'
      BY <2>2, WhoWillListen DEF ListenersShow, Screen, On
    <2>4. QED
      BY <1>1, <2>1, <2>2, <2>3, QuietStep
  <1>4. CASE Disconnected(c)
    <2>1. /\ link' = [link EXCEPT ![c] = "closed"] /\ ServerIdle
          /\ clientState' = [clientState EXCEPT ![c] = Screen("DISCONNECTED")]
          /\ toClient' = [toClient EXCEPT ![c] = <<>>]
      BY <1>4 DEF Disconnected
    <2>2. Unaware(c) /\ link'[c] = "closed"
      BY <1>1, <1>2, <2>1 DEF MailDomains, Unaware
    <2>3. ~Listens(c)'
      BY <2>2, WhoWillListen DEF ListenersShow
    <2>4. QED
      BY <1>1, <2>1, <2>2, <2>3, QuietStep
  <1>5. QED
    BY <1>3, <1>4 DEF ConnectionEvent

(* A timeout takes a patch away, or the browser is out of step after it.   *)
LEMMA TimeOutIsQuiet ==
  ASSUME BrowsersOK, SightOK, BrowsersOK', SightOK', NEW c \in Clients, TimeOutFigure(c)
  PROVE  Copies!Next
  <1>1. PICK r \in handlers[c] :
          /\ handlers' = [handlers EXCEPT ![c] = @ \ {r}]
          /\ clientState' = [clientState EXCEPT ![c] = callback(@, r.body, Timeout)]
          /\ gaveUp' = IF r.body.case \in FigureMessages THEN gaveUp ELSE gaveUp \cup {c}
          /\ ServerIdle /\ UNCHANGED toClient
    BY DEF TimeOutFigure, TimeOut, channelVars
  <1>2. StoresOK /\ MailDomains
    BY DEF BrowsersOK
  <1>3. \A q \in handlers[c] \ handlers'[c] : q = r
    BY <1>1, <1>2 DEF StoresOK, MailDomains
  <1>4. /\ stores' = [stores EXCEPT ![c] = storeAfterCallback(@, clientState[c], r, Timeout)]
        /\ UNCHANGED <<figureVars, taken>>
    BY <1>3 DEF TimeOutFigure
  <1>5. PICK new : new = storeAfterCallback(stores[c], clientState[c], r, Timeout)
    OBVIOUS
  <1>6. stores'[c] = new /\ Unaware(c)
    BY <1>1, <1>2, <1>4, <1>5 DEF StoresOK, MailDomains, Unaware
  <1>7. CASE r.body.case \in FigureMessages
    <2>1. new = discardPatch(stores[c], r)
      BY <1>5, <1>7, FigureCasesAre DEF storeAfterCallback, ClearsStores
    <2>2. StoreOK(handlers[c], stores[c])
      BY <1>2 DEF StoresOK
    <2>3. \A kind \in Kinds : \A id \in IdsOf(kind) :
            CommittedAt(new, kind, id) = CommittedAt(stores[c], kind, id)
      BY <2>1, <2>2, CommittedByDiscard
    <2>4. ReaderSame(c)
      BY <1>1, <1>6, <2>3, SameReader
    <2>5. QED
      BY <1>1, <1>4, <1>6, <2>4, QuietStep
  <1>8. CASE r.body.case \notin FigureMessages
    <2>1. c \in Misled'
      BY <1>1, <1>8 DEF Misled
    <2>2. ~Listens(c)'
      BY <2>1, WhoWillListen DEF ListenersShow
    <2>3. QED
      BY <1>1, <1>4, <1>6, <2>2, QuietStep
  <1>9. QED
    BY <1>7, <1>8

LEMMA StillnessIsQuiet ==
  ASSUME UNCHANGED appVars
  PROVE  UNCHANGED Copies!replicaVars
  <1>1. /\ UNCHANGED figureVars /\ UNCHANGED <<stores, socket, fsm>>
        /\ UNCHANGED <<link, clientState, gaveUp, astray, evicted, toClient>>
    BY DEF appVars, clientVars, sessionVars, browserVars, channelVars
  <1>2. \A b \in Boards : Content(b)' = Content(b)
    BY <1>1 DEF figureVars, Content
  <1>3. ASSUME NEW x \in Clients PROVE Reader(x)' = Reader(x)
    <2>1. Listens(x)' <=> Listens(x)
      BY <1>1 DEF Listens, Follows, InBoard, Linked, Misled, BeingAdmitted
    <2>2. CASE Listens(x)
      BY <1>1, <2>1, <2>2 DEF Reader
    <2>3. CASE ~Listens(x)
      BY <2>1, <2>3 DEF Reader
    <2>4. QED
      BY <2>2, <2>3
  <1>4. QED
    BY <1>2, <1>3 DEF Copies!replicaVars

-----------------------------------------------------------------------------
(* A browser reads a message.                                              *)

LEMMA NewsIsSeq ==
  ASSUME NEW down, IsSeq(down)
  PROVE  \E W : News(down) \in Seq(W)
  <1>1. PICK S : down \in Seq(S)
    BY DEF IsSeq
  <1>2. PICK g : /\ g[0] = <<>>
                 /\ \A n \in Nat : n < Len(down) => g[n + 1] = Noted(g[n], down[n + 1])
                 /\ News(down) = g[Len(down)]
    BY <1>1, NotedByStep
  <1>3. Len(down) \in 0..Len(down)
    BY <1>1
  <1>4. QED
    BY <1>1, <1>2, <1>3, NewsAreSeq

LEMMA NewsOfHead ==
  ASSUME NEW down, IsSeq(down), down # <<>>, NEW d, d = Head(down)
  PROVE  /\ d.body.type \notin FigureTypes => News(Tail(down)) = News(down)
         /\ d.body.type \in FigureTypes =>
              /\ News(down) # <<>> /\ Head(News(down)) = NewsOf(d.body)
              /\ Tail(News(down)) = News(Tail(down))
  <1>1. IsSeq(Tail(down))
    BY DEF IsSeq
  <1>2. PICK q : q = News(Tail(down))
    OBVIOUS
  <1>3. PICK W : q \in Seq(W)
    BY <1>1, <1>2, NewsIsSeq
  <1>4. News(down) = News(<<d>>) \o q
    BY <1>2, NewsRead
  <1>5. CASE d.body.type \notin FigureTypes
    <2>1. News(down) = <<>> \o q
      BY <1>4, <1>5, OneNews
    <2>2. QED
      BY <1>2, <1>3, <1>5, <2>1
  <1>6. CASE d.body.type \in FigureTypes
    <2>1. PICK w : w = NewsOf(d.body)
      OBVIOUS
    <2>2. News(down) = <<w>> \o q
      BY <1>4, <1>6, <2>1, OneNews
    <2>3. q \in Seq(W \cup {w}) /\ w \in W \cup {w}
      BY <1>3
    <2>4. <<w>> \o q # <<>> /\ Head(<<w>> \o q) = w /\ Tail(<<w>> \o q) = q
      BY <2>3
    <2>5. QED
      BY <1>2, <1>6, <2>1, <2>2, <2>4
  <1>7. QED
    BY <1>5, <1>6

(* A member that remains one stays where it is.                            *)
LEMMA MembersRemain ==
  ASSUME NEW s \in ConnectionState, Online(s), Member(Shown(s)),
         NEW t \in ConnectionState, Online(t), Member(Shown(t)),
         NEW x, NEW hs, NEW d, Leads(x, hs, d, Shown(s), Shown(t))
  PROVE  Shown(s) = Shown(t)
  <1>1. PICK f, g : f = Shown(s) /\ g = Shown(t)
    OBVIOUS
  <1>2. f # Anonymous /\ f # NoWhiteboard /\ g # NoWhiteboard /\ \A b \in Boards : f # PendingOn(b)
    BY <1>1, MembersAre
  <1>3. Tells(d.body, f, g) => f = g
    BY <1>2 DEF Tells
  <1>4. \A r \in hs : Settles(r.body, d.body, f, g) => f = g
    BY <1>2 DEF Settles
  <1>5. QED
    BY <1>1, <1>3, <1>4 DEF Leads

(* What has become of the copy of a member that has read a message.        *)
LEMMA ReadersCopy ==
  ASSUME BrowsersOK, SightOK, BrowsersOK', SightOK', NEW c \in Clients, ReceiveFigure(c),
         Listens(c), Listens(c)'
  PROVE  LET d == Head(toClient[c])
         IN  \A kind \in Kinds : \A id \in IdsOf(kind) :
               CommittedAt(stores'[c], kind, id) =
                 IF Concerns(d.body, kind, id) THEN NewsOf(d.body).now
                 ELSE CommittedAt(stores[c], kind, id)
  <1>1. PICK s, t : s = clientState[c] /\ t = clientState'[c]
    OBVIOUS
  <1>2. PICK store, new : store = stores[c] /\ new = stores'[c]
    OBVIOUS
  <1>3. PICK down, hs, up : down = toClient[c] /\ hs = handlers[c] /\ up = toServer[c]
    OBVIOUS
  <1>4. PICK d : d = Head(down)
    OBVIOUS
  <1>5. PICK lost : lost = (c \in gaveUp)
    OBVIOUS
  <1>6. PICK left : left = hs \ {r \in hs : AnswersTo(c, Head(down), r.id)}
    OBVIOUS
  <1>7. /\ s \in ConnectionState /\ Online(s) /\ Member(Shown(s)) /\ Watches(c)
    BY <1>1, ListenerIs DEF Member
  <1>8. c \notin Misled' /\ Member(Shown(t))
    BY <1>1, WhoWillListen DEF ListenersShow
  <1>9. Reads(c, hs, s, store, d, t, new) /\ down # <<>>
    BY <1>1, <1>2, <1>3, <1>4, <1>8, ReceiveReads
  <1>10. /\ IsSeq(down) /\ StoreOK(hs, store) /\ Distinct(hs) /\ \A r \in hs : r.id \in Nat
    BY <1>2, <1>3 DEF BrowsersOK, BrowserOK, Mailbox, DownOK, StoresOK, RequestsOK, Distinct
  <1>11. Orderly(c, hs, up, down, lost)
    BY <1>3, <1>5 DEF SightOK, ChannelOK
  <1>12. PICK p : Course(c, hs, Shown(s), down, fsm[c], p)
    BY <1>1, <1>3, <1>7 DEF Watches, Watching, Sight
  <1>13. p[1] \in ClientFSM /\ Leads(c, hs, d, Shown(s), p[1])
    BY <1>4, <1>6, <1>9, <1>10, <1>11, <1>12, CourseReads
  <1>14. t \in ConnectionState /\ Online(t) /\ Shown(t) = p[1]
    BY <1>7, <1>9, <1>10, <1>13, ReadState
  <1>15. Shown(s) = Shown(t)
    BY <1>7, <1>8, <1>13, <1>14, MembersRemain
  <1>16. PICK g : g = Shown(s)
    OBVIOUS
  <1>17. Member(g) /\ Leads(c, hs, d, g, g)
    BY <1>7, <1>13, <1>14, <1>15, <1>16
  <1>18. \A kind \in Kinds : \A id \in IdsOf(kind) :
           CommittedAt(new, kind, id) =
             IF Concerns(d.body, kind, id) THEN NewsOf(d.body).now ELSE CommittedAt(store, kind, id)
    BY <1>7, <1>9, <1>10, <1>16, <1>17, ReadingCopies
  <1>19. QED
    BY <1>2, <1>3, <1>4, <1>18

LEMMA NewNews ==
  ASSUME NEW b, NEW news, NEW copy, NEW later, NEW r, r = [board |-> b, news |-> news, copy |-> copy],
         NEW q, q = [board |-> b, news |-> later, copy |-> copy]
  PROVE  [r EXCEPT !.news = later] = q
  <1>1. DOMAIN r = DOMAIN q
    OBVIOUS
  <1>2. \A f \in DOMAIN r : [r EXCEPT !.news = later][f] = q[f]
    OBVIOUS
  <1>3. QED
    BY <1>1, <1>2

LEMMA HearingOne ==
  ASSUME NEW c \in Clients, NEW b, NEW news, NEW copy, NEW later, NEW new, b # NoBoard,
         Reader(c) = [board |-> b, news |-> news, copy |-> copy],
         Reader(c)' = [board |-> b, news |-> later, copy |-> new],
         news # <<>>, later = Tail(news), new = Copies!Applied(copy, Head(news)),
         \A x \in Clients : x # c => Reader(x)' = Reader(x), Contents' = Contents
  PROVE  Copies!Next
  <1>1. PICK r : r = Reader(c)
    OBVIOUS
  <1>2. r.board = b /\ r.news = news /\ r.copy = copy
    BY <1>1
  <1>3. r # NoReader
    BY <1>2 DEF NoReader
  <1>4. Reader(c)' = [[r EXCEPT !.copy = Copies!Applied(r.copy, Head(r.news))] EXCEPT !.news = Tail(r.news)]
    <2>1. PICK s : s = [r EXCEPT !.copy = new]
      OBVIOUS
    <2>2. PICK t : t = [board |-> b, news |-> news, copy |-> new]
      OBVIOUS
    <2>3. DOMAIN r = DOMAIN t /\ \A f \in DOMAIN r : s[f] = t[f]
      BY <1>1, <2>1, <2>2
    <2>4. s = t
      BY <1>1, <2>1, <2>2, <2>3
    <2>5. PICK u : u = [board |-> b, news |-> later, copy |-> new]
      OBVIOUS
    <2>6. [t EXCEPT !.news = later] = u
      BY ONLY <2>2, <2>5, NewNews
    <2>7. QED
      BY <1>2, <2>1, <2>4, <2>5, <2>6
  <1>5. PICK rs : rs = [x \in Clients |-> Reader(x)]
    OBVIOUS
  <1>6. rs[c] = r
    BY <1>1, <1>5
  <1>7. [x \in Clients |-> Reader(x)]' =
          [rs EXCEPT ![c].copy = Copies!Applied(@, Head(rs[c].news)), ![c].news = Tail(@)]
    BY <1>4, <1>5, <1>6
  <1>8. rs[c] # NoReader /\ rs[c].news # <<>>
    BY <1>2, <1>3, <1>6
  <1>9. Copies!Hear(c)
    BY <1>5, <1>7, <1>8 DEF Copies!Hear, Contents
  <1>10. QED
    BY <1>9 DEF Copies!Next

LEMMA ReceivingHears ==
  ASSUME BrowsersOK, SightOK, BrowsersOK', SightOK', NEW c \in Clients, ReceiveFigure(c)
  PROVE  Copies!Next
  <1>1. /\ ServerIdle /\ UNCHANGED <<link, gaveUp, figureVars, taken>>
        /\ toClient[c] # <<>> /\ toClient'[c] = Tail(toClient[c])
        /\ \A x \in Clients : x # c => /\ clientState'[x] = clientState[x] /\ toClient'[x] = toClient[x]
                                       /\ stores'[x] = stores[x]
    BY ReceiveReads
  <1>2. PICK d : d = Head(toClient[c])
    OBVIOUS
  <1>3. Unaware(c)
    BY <1>1 DEF Unaware
  <1>4. IsSeq(toClient[c]) /\ StoreShape(stores[c]) /\ StoreShape(stores'[c])
    BY ShapesAre, ShapesStay DEF BrowsersOK, BrowserOK, Mailbox, DownOK, StoreShape
  <1>5. CASE ~Listens(c) \/ ~Listens(c)'
    BY <1>1, <1>3, <1>5, QuietStep
  <1>6. CASE Listens(c) /\ Listens(c)'
    <2>1. \A kind \in Kinds : \A id \in IdsOf(kind) :
            CommittedAt(stores'[c], kind, id) =
              IF Concerns(d.body, kind, id) THEN NewsOf(d.body).now ELSE CommittedAt(stores[c], kind, id)
      BY <1>2, <1>6, ReadersCopy
    <2>2. CASE d.body.type \notin FigureTypes
      <3>1. News(toClient'[c]) = News(toClient[c])
        BY <1>1, <1>2, <1>4, <2>2, NewsOfHead
      <3>2. Committed(stores'[c]) = Committed(stores[c])
        BY <1>4, <2>1, <2>2, SameCommitted DEF Concerns
      <3>3. ReaderSame(c)
        BY <1>1, <3>1, <3>2 DEF ReaderSame, ServerIdle
      <3>4. QED
        BY <1>1, <1>3, <3>3, QuietStep
    <2>3. CASE d.body.type \in FigureTypes
      <3>1. PICK news, copy, later, new : /\ news = News(toClient[c]) /\ copy = Committed(stores[c])
                                          /\ later = News(toClient'[c]) /\ new = Committed(stores'[c])
        OBVIOUS
      <3>2. PICK w : w = NewsOf(d.body)
        OBVIOUS
      <3>3. news # <<>> /\ Head(news) = w /\ later = Tail(news)
        BY <1>1, <1>2, <1>4, <2>3, <3>1, <3>2, NewsOfHead
      <3>4. /\ StoreShape(copy) /\ StoreShape(new)
            /\ \A kind \in Kinds : \A id \in IdsOf(kind) :
                 /\ copy[kind][id] = CommittedAt(stores[c], kind, id)
                 /\ new[kind][id] = CommittedAt(stores'[c], kind, id)
        BY <1>4, <3>1, CommittedIs
      <3>5. /\ StoreShape(Copies!Applied(copy, w))
            /\ \A kind \in Kinds : \A id \in IdsOf(kind) :
                 Copies!Applied(copy, w)[kind][id] =
                   IF kind = w.kind /\ id = w.id THEN w.now ELSE copy[kind][id]
        BY <3>4, AppliedIs
      <3>6. PICK heard : heard = Copies!Applied(copy, w)
        OBVIOUS
      <3>7. \A kind \in Kinds : \A id \in IdsOf(kind) : new[kind][id] = heard[kind][id]
        BY <2>1, <2>3, <3>2, <3>4, <3>5, <3>6 DEF Concerns
      <3>8. new = heard
        BY <3>4, <3>5, <3>6, <3>7, SameEntries
      <3>9. PICK b : b = fsm[c].board
        OBVIOUS
      <3>10. b # NoBoard
        BY <1>6, <3>9, ListenerIs, SessionAssumption
      <3>11. /\ Reader(c) = [board |-> b, news |-> news, copy |-> copy]
             /\ Reader(c)' = [board |-> b, news |-> later, copy |-> new]
        BY <1>1, <1>6, <3>1, <3>9 DEF Reader, ServerIdle
      <3>12. ASSUME NEW x \in Clients, x # c PROVE Reader(x)' = Reader(x)
        <4>1. x \in Misled' <=> x \in Misled
          <5>1. /\ astray' = astray \/ astray' = astray \cup {c}
                /\ evicted' = evicted \/ evicted' = evicted \cup {c}
            BY DEF ReceiveFigure, Receive
          <5>2. QED
            BY <1>1, <3>12, <5>1 DEF Misled
        <4>2. /\ clientState'[x] = clientState[x] /\ toClient'[x] = toClient[x] /\ stores'[x] = stores[x]
              /\ UNCHANGED <<link, socket, fsm>>
          BY <1>1, <3>12 DEF ServerIdle
        <4>3. Listens(x)' <=> Listens(x)
          BY <4>1, <4>2 DEF Listens, Follows, InBoard, Linked, BeingAdmitted
        <4>4. CASE Listens(x)
          BY <4>2, <4>3, <4>4 DEF Reader
        <4>5. CASE ~Listens(x)
          BY <4>3, <4>5 DEF Reader
        <4>6. QED
          BY <4>4, <4>5
      <3>13. Contents' = Contents
        BY <1>1, ContentsRest DEF SightOK
      <3>14. QED
        BY <3>3, <3>6, <3>8, <3>10, <3>11, <3>12, <3>13, HearingOne
    <2>4. QED
      BY <2>2, <2>3
  <1>7. QED
    BY <1>5, <1>6

-----------------------------------------------------------------------------
(* The server steps, and says nothing of figures.                          *)

Muted(x) == \A i \in 1..Len(out'[x]) : out'[x][i].type \notin FigureTypes

LEMMA SessionIsMuted ==
  ASSUME NEW x, NEW mine, NEW body, NewsTrail(x, mine, body)
  PROVE  Muted(x)
  BY DEF Muted, NewsTrail, Tells, Settles, FigureTypes

LEMMA MutedNews ==
  ASSUME BrowsersOK, NEW x \in Clients, Posted, Muted(x), NEW id, Deliver(id), link[x] = "open"
  PROVE  News(toClient'[x]) = News(toClient[x])
  <1>1. PICK down, news : down = toClient[x] /\ news = Delivered(x, id)
    OBVIOUS
  <1>2. toClient'[x] = down \o news
    BY <1>1, DeliverAt
  <1>3. /\ IsSeq(news) /\ Len(news) = Len(out'[x])
        /\ \A i \in 1..Len(news) : news[i].body = out'[x][i]
    BY <1>1, DeliveredNews DEF Posted
  <1>4. IsSeq(down)
    BY <1>1 DEF BrowsersOK, BrowserOK, Mailbox, DownOK
  <1>5. PICK S : down \in Seq(S) /\ news \in Seq(S)
    BY <1>3, <1>4, OneKind
  <1>6. News(news) = <<>>
    BY <1>3, <1>5, NothingNoted DEF Muted
  <1>7. News(down \o news) = News(down) \o <<>>
    BY <1>5, <1>6, NewsJoin
  <1>8. PICK W : News(down) \in Seq(W)
    BY <1>4, NewsIsSeq
  <1>9. News(down) \o <<>> = News(down)
    BY <1>8
  <1>10. QED
    BY <1>1, <1>2, <1>7, <1>9

(* Its screen says of which whiteboard a listener hears.                   *)
ListenersAgree ==
  \A x \in Clients : Listens(x) => fsm[x].board = clientState[x].board /\ link[x] = "open"

LEMMA WhoAgrees == ListenersAgree
  BY DEF ListenersAgree, Listens, On, Follows, Linked, InBoard, UserOf, HostOf

LEMMA WhoWillAgree == ListenersAgree'
  BY WhoAgrees, PTL

LEMMA SilentServer ==
  ASSUME BrowsersOK, SightOK, BrowsersOK', SightOK', Posted, NEW id, Deliver(id),
         UNCHANGED <<browserVars, stores, figureVars>>,
         \A x \in Clients : Listens(x) /\ Listens(x)' => Muted(x)
  PROVE  Copies!Next
  <1>1. \A b \in Boards : Content(b)' = Content(b)
    BY DEF figureVars, Content
  <1>2. Contents' = Contents
    BY <1>1 DEF Contents
  <1>3. UNCHANGED clientState
    BY DEF browserVars
  <1>4. ASSUME NEW x \in Clients, Listens(x), Listens(x)' PROVE ReaderSame(x)
    <2>1. fsm[x].board = fsm'[x].board
      BY <1>3, <1>4, WhoAgrees, WhoWillAgree DEF ListenersAgree
    <2>2. link[x] = "open"
      BY <1>4, WhoAgrees DEF ListenersAgree
    <2>3. News(toClient'[x]) = News(toClient[x])
      BY <1>4, <2>2, MutedNews
    <2>4. QED
      BY <2>1, <2>3 DEF ReaderSame
  <1>5. QED
    BY <1>2, <1>4, AllComeAndGo

LEMMA SocketIsSilent ==
  ASSUME BrowsersOK, SightOK, BrowsersOK', SightOK', NEW c \in Clients, SocketStep(c)
  PROVE  Copies!Next
  <1>1. /\ RegisterClient(c) \/ CloseSocket(c)
        /\ Deliver(NoMessage) /\ UNCHANGED <<browserVars, stores, figureVars>>
    BY DEF SocketStep, SocketEvent
  <1>2. Books /\ Books' /\ Posted
    BY SocketSight DEF BrowsersOK
  <1>3. ASSUME NEW x \in Clients, Listens(x)' PROVE Muted(x)
    <2>1. socket'[x] = "open"
      BY <1>3 DEF Listens, Follows, Linked
    <2>2. NewsTrail(x, FALSE, Body("clientHello"))
      BY <1>1, <1>2, <2>1, SocketNews DEF Tidings
    <2>3. QED
      BY <2>2, SessionIsMuted
  <1>4. QED
    BY <1>1, <1>2, <1>3, SilentServer

-----------------------------------------------------------------------------
(* The server changes a figure, and all members will hear of it.           *)

(* x's reader takes the news n if it reads the board b, and else stays.     *)
Learns(x, b, n) ==
  Reader(x)' = IF Reader(x) = NoReader \/ Reader(x).board # b THEN Reader(x)
               ELSE [Reader(x) EXCEPT !.news = Append(@, n)]

LEMMA TellingAll ==
  ASSUME NEW b \in Boards, NEW kind \in Kinds, NEW id \in IdsOf(kind), NEW fig,
         Contents' = [Contents EXCEPT ![b][kind][id] = fig], Contents'[b][kind][id] = fig,
         \A x \in Clients : Learns(x, b, Becomes(kind, id, fig))
  PROVE  Copies!Next
  <1>1. Copies!Change(b, kind, id)
    <2>1. PICK rs : rs = [x \in Clients |-> Reader(x)]
      OBVIOUS
    <2>2. \A x \in Clients : Reader(x)' =
            IF rs[x] = NoReader \/ rs[x].board # b THEN rs[x]
            ELSE [rs[x] EXCEPT !.news = Append(@, Becomes(kind, id, fig))]
      BY <2>1 DEF Learns
    <2>3. [x \in Clients |-> Reader(x)]' =
            [x \in Clients |->
               IF rs[x] = NoReader \/ rs[x].board # b THEN rs[x]
               ELSE [rs[x] EXCEPT !.news = Append(@, Becomes(kind, id, fig))]]
      BY <2>2
    <2>4. QED
      BY <2>1, <2>3 DEF Copies!Change, Contents, Becomes
  <1>2. PICK f : f = <<kind, id>>
    OBVIOUS
  <1>3. f \in ({"note"} \X NoteIds) \cup ({"image"} \X ImageIds) \cup ({"line"} \X LineIds)
    BY <1>2 DEF Kinds, IdsOf, NoStore
  <1>4. Copies!Change(b, f[1], f[2])
    BY <1>1, <1>2
  <1>5. QED
    BY <1>3, <1>4 DEF Copies!Next

ContentsShaped == \A w \in Boards : StoreShape(Contents[w])

LEMMA ContentsAreShaped == ContentsOK => ContentsShaped
  BY ContentShape DEF ContentsShaped, Contents

LEMMA ContentsStayShaped == ContentsOK' => ContentsShaped'
  BY ContentsAreShaped, PTL

LEMMA OneContentIs ==
  ASSUME ContentsOK, ContentsOK', NEW b \in Boards, NEW kind \in Kinds, NEW id \in IdsOf(kind), NEW fig,
         FigureIs(kind, b, id, fig)
  PROVE  Contents' = [Contents EXCEPT ![b][kind][id] = fig] /\ Contents'[b][kind][id] = fig
  <1>1. \A w \in Boards : \A k \in Kinds : \A i \in IdsOf(k) :
          Contents'[w][k][i] = IF w = b /\ k = kind /\ i = id THEN fig ELSE Contents[w][k][i]
    BY ContentsAfter
  <1>2. \A w \in Boards : StoreShape(Contents[w])
    BY ContentsAreShaped DEF ContentsShaped
  <1>3. \A w \in Boards : StoreShape(Contents'[w])
    BY ContentsStayShaped DEF ContentsShaped, StoreShape
  <1>4. PICK f, g : f = Contents /\ g = Contents'
    OBVIOUS
  <1>5. f = [w \in Boards |-> f[w]] /\ g = [w \in Boards |-> g[w]]
    BY <1>4 DEF Contents
  <1>6. g[b] = Put(f[b], kind, id, fig)
    <2>1. PICK u, v : u = g[b] /\ v = Put(f[b], kind, id, fig)
      OBVIOUS
    <2>2. StoreShape(v) /\ \A k \in Kinds : \A i \in IdsOf(k) :
            v[k][i] = IF k = kind /\ i = id THEN fig ELSE f[b][k][i]
      BY <1>2, <1>4, <2>1, EntryIs
    <2>3. StoreShape(u) /\ \A k \in Kinds : \A i \in IdsOf(k) : u[k][i] = v[k][i]
      BY <1>1, <1>3, <1>4, <2>1, <2>2
    <2>4. u = v
      BY <2>2, <2>3, SameEntries
    <2>5. QED
      BY <2>1, <2>4
  <1>7. \A w \in Boards : w # b => g[w] = f[w]
    <2> SUFFICES ASSUME NEW w \in Boards, w # b PROVE g[w] = f[w]
      OBVIOUS
    <2>1. PICK u, v : u = g[w] /\ v = f[w]
      OBVIOUS
    <2>2. StoreShape(u) /\ StoreShape(v) /\ \A k \in Kinds : \A i \in IdsOf(k) : u[k][i] = v[k][i]
      BY <1>1, <1>2, <1>3, <1>4, <2>1
    <2>3. u = v
      BY <2>2, SameEntries
    <2>4. QED
      BY <2>1, <2>3
  <1>8. g = [f EXCEPT ![b] = Put(f[b], kind, id, fig)]
    BY <1>5, <1>6, <1>7
  <1>9. QED
    BY <1>1, <1>4, <1>8 DEF Put

LEMMA MembersHear ==
  ASSUME BrowsersOK, Posted, UNCHANGED <<socket, fsm, browserVars, stores>>, NEW id, Deliver(id),
         NEW x \in Clients, NEW b \in Boards, NEW m, m.type \in FigureTypes,
         out'[x] = IF socket'[x] = "open" /\ InBoard(x, b) THEN <<m>> ELSE <<>>
  PROVE  /\ Listens(x)' <=> Listens(x)
         /\ Listens(x) => News(toClient'[x]) =
              IF fsm[x].board = b THEN Append(News(toClient[x]), NewsOf(m)) ELSE News(toClient[x])
  <1>1. PICK down, news : down = toClient[x] /\ news = Delivered(x, id)
    OBVIOUS
  <1>2. IsSeq(down) /\ DOMAIN down = 1..Len(down) /\ Len(down) \in Nat
    BY <1>1, SeqParts DEF BrowsersOK, BrowserOK, Mailbox, DownOK
  <1>3. /\ IsSeq(news) /\ Len(news) = Len(out'[x])
        /\ \A i \in 1..Len(out'[x]) : news[i].body = out'[x][i]
    BY <1>1, DeliveredNews DEF Posted
  <1>4. PICK S : down \in Seq(S) /\ news \in Seq(S)
    BY <1>2, <1>3, OneKind
  <1>5. link[x] = "open" => toClient'[x] = down \o news
    BY <1>1, DeliverAt
  <1>6. \A i \in 1..Len(out'[x]) : out'[x][i] = m
    BY OneIsList
  <1>7. link[x] = "open" => (BeingAdmitted(x)' <=> BeingAdmitted(x))
    <2> SUFFICES ASSUME link[x] = "open" PROVE BeingAdmitted(x)' <=> BeingAdmitted(x)
      OBVIOUS
    <2>1. PICK both : both = down \o news
      OBVIOUS
    <2>2. /\ \A i \in DOMAIN down : i \in DOMAIN both /\ both[i] = down[i]
          /\ \A i \in DOMAIN both : \/ i \in DOMAIN down /\ both[i] = down[i]
                                   \/ \E j \in DOMAIN news : both[i] = news[j]
      <3>1. /\ \A i \in DOMAIN down : i \in DOMAIN (down \o news) /\ (down \o news)[i] = down[i]
            /\ \A i \in DOMAIN (down \o news) :
                 \/ i \in DOMAIN down /\ (down \o news)[i] = down[i]
                 \/ i - Len(down) \in DOMAIN news /\ (down \o news)[i] = news[i - Len(down)]
        BY <1>2, <1>3, ConcatIs
      <3>2. QED
        BY <2>1, <3>1
    <2>3. \A j \in DOMAIN news : news[j].body = m
      BY <1>3, <1>6, SeqParts
    <2>4. m.type \notin {"joinApproved", "whiteboardCreated"}
      BY FigureTypesAre
    <2>5. toClient'[x] = both /\ toClient[x] = down
      BY <1>1, <1>5, <2>1
    <2>6. QED
      BY <2>2, <2>3, <2>4, <2>5 DEF BeingAdmitted
  <1>8. Listens(x)' <=> Listens(x)
    BY <1>7 DEF Listens, Follows, Linked, InBoard, Misled, browserVars
  <1>9. ASSUME Listens(x)
        PROVE  News(toClient'[x]) =
                 IF fsm[x].board = b THEN Append(News(down), NewsOf(m)) ELSE News(down)
    <2>1. PICK w \in Boards : w = fsm[x].board /\ InBoard(x, w) /\ socket[x] = "open" /\ link[x] = "open"
      BY <1>9 DEF Listens, Follows, Linked, InBoard, UserOf, HostOf
    <2>2. InBoard(x, b) <=> w = b
      BY <2>1, InOneBoard
    <2>3. PICK W : News(down) \in Seq(W)
      BY <1>2, NewsIsSeq
    <2>4. News(down \o news) = News(down) \o News(news)
      BY <1>4, NewsJoin
    <2>5. CASE w = b
      <3>1. out'[x] = <<m>>
        BY <2>1, <2>2, <2>5
      <3>2. Len(news) = 1 /\ news[1].body = m
        BY <1>3, <3>1, OneIsList
      <3>3. PICK d : d = news[1]
        OBVIOUS
      <3>4. news = <<d>>
        BY <1>4, <3>2, <3>3
      <3>5. News(news) = <<NewsOf(m)>>
        BY <3>2, <3>3, <3>4, OneNews
      <3>6. News(down) \o <<NewsOf(m)>> = Append(News(down), NewsOf(m))
        <4>1. PICK q, v : q = News(down) /\ v = NewsOf(m)
          OBVIOUS
        <4>2. q \in Seq(W \cup {v}) /\ v \in W \cup {v}
          BY <2>3, <4>1
        <4>3. q \o <<v>> = Append(q, v)
          BY <4>2
        <4>4. QED
          BY <4>1, <4>3
      <3>7. QED
        BY <1>5, <2>1, <2>4, <2>5, <3>5, <3>6
    <2>6. CASE w # b
      <3>1. out'[x] = <<>>
        BY <2>1, <2>2, <2>6
      <3>2. Muted(x)
        <4>1. \A i \in 1..0 : FALSE
          OBVIOUS
        <4>2. 1..Len(out'[x]) = 1..0
          BY <3>1
        <4>3. QED
          BY <4>1, <4>2 DEF Muted
      <3>3. QED
        BY <1>1, <2>1, <2>6, <3>2, MutedNews
    <2>7. QED
      BY <2>5, <2>6
  <1>10. QED
    BY <1>1, <1>8, <1>9

LEMMA SettingTells ==
  ASSUME BrowsersOK, SightOK, BrowsersOK', SightOK', Posted, NEW id, Deliver(id),
         UNCHANGED <<socket, fsm, browserVars, stores>>,
         NEW b \in Boards, NEW body, body.id \in IdsOf(StoreOf(body)), NEW kind \in Kinds,
         kind = StoreOf(body), NEW fig, NEW m, FigureSet(body, b, kind, fig, m)
  PROVE  Copies!Next
  <1>1. PICK i : i = body.id
    OBVIOUS
  <1>2. i \in IdsOf(kind) /\ FigureIs(kind, b, i, fig)
    BY <1>1 DEF FigureSet
  <1>3. Contents' = [Contents EXCEPT ![b][kind][i] = fig] /\ Contents'[b][kind][i] = fig
    BY <1>2, OneContentIs DEF SightOK
  <1>4. /\ m.type \in FigureTypes /\ NewsOf(m) = Becomes(kind, i, fig)
        /\ \A x \in Clients : out'[x] = IF socket'[x] = "open" /\ InBoard(x, b) THEN <<m>> ELSE <<>>
    BY <1>1 DEF FigureSet
  <1>5. ASSUME NEW x \in Clients
        PROVE  Learns(x, b, Becomes(kind, i, fig))
    <2>1. /\ Listens(x)' <=> Listens(x)
          /\ Listens(x) => News(toClient'[x]) =
               IF fsm[x].board = b THEN Append(News(toClient[x]), NewsOf(m)) ELSE News(toClient[x])
      BY <1>4, MembersHear
    <2>2. CASE ~Listens(x)
      BY <2>1, <2>2 DEF Reader, Learns
    <2>3. CASE Listens(x)
      <3>1. PICK r, w, news, copy, later :
              /\ r = Reader(x) /\ w = fsm[x].board /\ news = News(toClient[x])
              /\ copy = Committed(stores[x]) /\ later = Append(news, Becomes(kind, i, fig))
        OBVIOUS
      <3>2. r = [board |-> w, news |-> news, copy |-> copy]
        BY <2>3, <3>1 DEF Reader
      <3>3. w \in Boards
        BY <2>3, <3>1, ListenerIs
      <3>4. r.board = w /\ r.news = news /\ r # NoReader
        BY <3>2, <3>3, SessionAssumption DEF NoReader
      <3>5. CASE w = b
        <4>1. Reader(x)' = [board |-> w, news |-> later, copy |-> copy]
          BY <1>4, <2>1, <2>3, <3>1, <3>5 DEF Reader
        <4>2. PICK q : q = [board |-> w, news |-> later, copy |-> copy]
          OBVIOUS
        <4>3. [r EXCEPT !.news = later] = q
          BY ONLY <3>2, <4>2, NewNews
        <4>4. QED
          BY <3>1, <3>4, <3>5, <4>1, <4>2, <4>3 DEF Learns
      <3>6. CASE w # b
        <4>1. Reader(x)' = [board |-> w, news |-> news, copy |-> copy]
          BY <2>1, <2>3, <3>1, <3>6 DEF Reader
        <4>2. QED
          BY <3>1, <3>2, <3>4, <3>6, <4>1 DEF Learns
      <3>7. QED
        BY <3>5, <3>6
    <2>4. QED
      BY <2>2, <2>3
  <1>6. QED
    BY <1>2, <1>3, <1>5, TellingAll

LEMMA HandlingTells ==
  ASSUME BrowsersOK, SightOK, BrowsersOK', SightOK', NEW c \in Clients, HandleFigure(c)
  PROVE  Copies!Next
  <1>1. PICK body, id : body = Head(toServer[c]).body /\ id = <<c, Head(toServer[c]).id>>
    OBVIOUS
  <1>2. toServer[c] # <<>> /\ Deliver(id) /\ UNCHANGED <<browserVars, stores>>
    BY <1>1 DEF HandleFigure, Handled
  <1>3. BodyFresh(body, taken)
    <2>1. IsSeq(toServer[c])
      BY DEF BrowsersOK, BrowserOK, Mailbox, UpOK
    <2>2. 1 \in DOMAIN toServer[c] /\ Head(toServer[c]) = toServer[c][1]
      BY <1>2, <2>1, TailIs
    <2>3. QED
      BY <1>1, <2>2 DEF SightOK, ChannelOK, Fresh
  <1>4. BodyOK(body)
    BY <1>1, <1>2, HandledBody
  <1>5. Posted /\ Books /\ Books'
    BY <1>1, <1>3, HandledIs DEF SightOK, BrowsersOK
  <1>6. Addressed(body)
    BY <1>4 DEF Addressed, BodyOK
  <1>7. \A x \in Clients : Listens(x)' => socket'[x] = "open"
    BY DEF Listens, Follows, Linked
  <1>8. CASE PlainHandler(c, body) /\ UNCHANGED figureVars
    <2>1. Approves(c, body, <<>>) => \A x \in Clients : x # body.client \/ <<>> = <<>>
      OBVIOUS
    <2>2. \A x \in Clients : socket'[x] = "open" => NewsTrail(x, x = c, body)
      BY <1>5, <1>6, <1>8, <2>1, HandlerNews DEF Tidings
    <2>3. \A x \in Clients : Listens(x)' => Muted(x)
      BY <1>7, <2>2, SessionIsMuted
    <2>4. QED
      BY <1>2, <1>5, <1>8, <2>3, SilentServer
  <1>9. CASE body.case = "approveOrDenyJoin" /\ BootstrappingApproval(c, body.client)
    <2>1. PICK dump \in Bootstraps(fsm[c].board) : ApproveJoin(c, body.client, dump)
      BY <1>9 DEF BootstrappingApproval
    <2>2. body.client \in Clients /\ UNCHANGED figureVars
      BY <1>6, <1>9 DEF Addressed, BootstrappingApproval
    <2>3. ASSUME NEW x \in Clients, Listens(x), Listens(x)' PROVE Muted(x)
      <3>1. CASE x = body.client
        <4>1. PICK w \in Boards : w = fsm[c].board
          BY <1>5, <2>1, <2>2, Decidable DEF ApproveJoin, getPendingClient
        <4>2. fsm[x] = PendingOn(w)
          BY <1>5, <2>1, <2>2, <3>1, <4>1, Decidable DEF ApproveJoin, getPendingClient
        <4>3. QED
          BY <2>3, <4>2, StatesDiffer DEF Listens, Follows, InBoard
      <3>2. CASE x # body.client
        <4>1. NewsTrail(x, x = c, body)
          BY <1>5, <1>7, <1>9, <2>1, <2>2, <2>3, <3>2, AdmitNews DEF Tidings
        <4>2. QED
          BY <4>1, SessionIsMuted
      <3>3. QED
        BY <3>1, <3>2
    <2>4. QED
      BY <1>2, <1>5, <2>2, <2>3, SilentServer
  <1>10. CASE FigureHandler(c, body)
    <2>1. /\ FigureHandled(c, body) /\ body.case \in FigureMessages
          /\ UNCHANGED <<socket, fsm>>
      BY <1>5, <1>10, FigureHandlerIs
    <2>2. PICK b \in Boards : b = fsm[c].board
      BY <1>5, <1>10, FigureHandlerIs
    <2>3. CASE NoFigureSet(c)
      <3>1. \A x \in Clients : Muted(x)
        BY <2>3, OneIsList DEF NoFigureSet, Muted, FigureTypes
      <3>2. UNCHANGED figureVars
        BY <2>3 DEF NoFigureSet
      <3>3. QED
        BY <1>2, <1>5, <3>1, <3>2, SilentServer
    <2>4. ASSUME NEW fig, NEW m, FigureSet(body, b, StoreOf(body), fig, m)
          PROVE  Copies!Next
      <3>1. PICK kind \in Kinds : kind = StoreOf(body)
        BY <2>1, StoreIsKind
      <3>2. body.id \in IdsOf(StoreOf(body))
        BY <1>3, <2>1 DEF BodyFresh
      <3>3. FigureSet(body, b, kind, fig, m)
        BY <2>4, <3>1
      <3>4. QED
        BY <1>2, <1>5, <2>1, <3>1, <3>2, <3>3, SettingTells
    <2>5. QED
      BY <2>1, <2>2, <2>3, <2>4 DEF FigureHandled
  <1>11. QED
    BY <1>1, <1>8, <1>9, <1>10 DEF HandleFigure
-----------------------------------------------------------------------------
(* Every step of the program is one of the replicas.                       *)

LEMMA StepOfReplicas ==
  ASSUME BrowsersOK, SightOK, BrowsersOK', SightOK', NEW c \in Clients, FigureAction(c) \/ AppStep(c)
  PROVE  Copies!Next
  <1>1. CASE FigureAction(c)
    BY <1>1, FigureActionDraws, DrawingIsQuiet
  <1>2. CASE SessionAction(c)
    BY <1>2, ButtonsAreQuiet
  <1>3. CASE ConnectionEvent(c)
    BY <1>3, LinkIsQuiet
  <1>4. CASE ReceiveFigure(c)
    BY <1>4, ReceivingHears
  <1>5. CASE TimeOutFigure(c)
    BY <1>5, TimeOutIsQuiet
  <1>6. CASE HandleFigure(c)
    BY <1>6, HandlingTells
  <1>7. CASE SocketStep(c)
    BY <1>7, SocketIsSilent
  <1>8. QED
    BY <1>1, <1>2, <1>3, <1>4, <1>5, <1>6, <1>7 DEF AppStep

-----------------------------------------------------------------------------
(* At the start nothing is drawn, and nobody is a member of anything.      *)

LEMMA NobodyReads ==
  ASSUME NEW c \in Clients, clientState[c] = Screen("CONNECTING")
  PROVE  Reader(c) = NoReader
  <1>1. PICK s : s = clientState[c]
    OBVIOUS
  <1>2. s.state = "CONNECTING"
    BY <1>1 DEF Screen, On
  <1>3. \A b \in Boards : s # On("WHITEBOARD_USER", b) /\ s # On("WHITEBOARD_HOST", b)
    BY <1>2 DEF On
  <1>4. QED
    BY <1>1, <1>3 DEF Reader, Listens

LEMMA NothingIsDrawn ==
  ASSUME ContentsOK, NEW b \in Boards,
         \A kind \in Kinds : \A id \in IdsOf(kind) : Content(b)[kind][id] = NoFigure
  PROVE  Content(b) = Committed(NoStore)
  <1>1. StoreShape(NoStore)
    <2>1. NoStore = [kind \in Kinds |-> [id \in IdsOf(kind) |-> NoStore[kind][id]]]
      BY DEF NoStore, Kinds, IdsOf
    <2>2. QED
      BY <2>1 DEF StoreShape
  <1>2. \A kind \in Kinds : \A id \in IdsOf(kind) : Committed(NoStore)[kind][id] = NoFigure
    BY <1>1, CommittedIs, NothingCommitted
  <1>3. StoreShape(Committed(NoStore)) /\ StoreShape(Content(b))
    BY <1>1, CommittedIs, ContentShape
  <1>4. QED
    BY <1>2, <1>3, SameEntries

LEMMA InitReplicas == AppInit => Copies!Init
  <1> SUFFICES ASSUME AppInit PROVE Copies!Init
    OBVIOUS
  <1>1. \A c \in Clients : clientState[c] = Screen("CONNECTING")
    BY DEF AppInit, ClientInit, BrowsersAreNew, Init
  <1>2. /\ lines  = [b \in Boards |-> [l \in LineIds  |-> NoFigure]]
        /\ notes  = [b \in Boards |-> [n \in NoteIds  |-> NoFigure]]
        /\ images = [b \in Boards |-> [i \in ImageIds |-> NoFigure]]
    BY DEF AppInit, ServerInit
  <1>3. ContentsOK
    BY InitSight DEF SightOK
  <1>4. ASSUME NEW b \in Boards PROVE Content(b) = Committed(NoStore)
    <2>1. ASSUME NEW kind \in Kinds, NEW id \in IdsOf(kind)
          PROVE  Content(b)[kind][id] = NoFigure
      <3>1. CASE kind = "note"
        BY <1>2, <2>1, <3>1, Ids DEF Content
      <3>2. CASE kind = "line"
        BY <1>2, <2>1, <3>2, Ids DEF Content
      <3>3. CASE kind = "image"
        BY <1>2, <2>1, <3>3, Ids DEF Content
      <3>4. QED
        BY <3>1, <3>2, <3>3 DEF Kinds
    <2>2. QED
      BY <1>3, <2>1, NothingIsDrawn
  <1>5. [b \in Boards |-> Content(b)] = [b \in Boards |-> Committed(NoStore)]
    BY <1>4
  <1>6. \A c \in Clients : [x \in Clients |-> Reader(x)][c] = NoReader
    BY <1>1, NobodyReads
  <1>7. QED
    BY <1>5, <1>6 DEF Copies!Init
-----------------------------------------------------------------------------
(* Browsers and server implement Replicas for any number of browsers,      *)
(* whiteboards, figures and requests: what the server stores changes one   *)
(* figure at a time, every member is told each change once, in this order, *)
(* and whoever is admitted while others draw is told enough to have the    *)
(* same whiteboard once it has read what was sent.                         *)
THEOREM AppImplementsReplicas == AppSpec => ImplementsReplicas
  <1>1. AppInit => Copies!Init
    BY InitReplicas
  <1>2. (BrowsersOK /\ SightOK) /\ (BrowsersOK /\ SightOK)' /\ [AppNext]_appVars
          => [Copies!Next]_(Copies!replicaVars)
    <2>1. ASSUME BrowsersOK, SightOK, BrowsersOK', SightOK', NEW c \in Clients, FigureAction(c) \/ AppStep(c)
          PROVE  Copies!Next
      BY <2>1, StepOfReplicas
    <2>2. ASSUME UNCHANGED appVars
          PROVE  UNCHANGED Copies!replicaVars
      BY <2>2, StillnessIsQuiet
    <2>3. QED
      BY <2>1, <2>2 DEF AppNext
  <1>3. QED
    BY <1>1, <1>2, SightAlwaysOK, PTL DEF AppSpec, ImplementsReplicas, Copies!Spec

(* The same while users draw, erase and undo: a gesture that sends many    *)
(* requests at once, and what the browser shows before the answers, leave  *)
(* what it knows of the whiteboard as it is.                               *)
THEOREM DrawingImplementsReplicas == DrawingSpec => ImplementsReplicas
  <1>1. AppInit /\ DrawingInit => Copies!Init
    BY InitReplicas
  <1>2. (PensOK /\ SightOK) /\ (PensOK /\ SightOK)' /\ [DrawingNext]_drawingVars
          => [Copies!Next]_(Copies!replicaVars)
    <2> SUFFICES ASSUME PensOK, SightOK, PensOK', SightOK', [DrawingNext]_drawingVars
                 PROVE  Copies!Next \/ UNCHANGED Copies!replicaVars
      OBVIOUS
    <2>1. BrowsersOK /\ BrowsersOK'
      BY DEF PensOK
    <2>2. ASSUME NEW c \in Clients, PenStep(c)
          PROVE  Copies!Next \/ UNCHANGED Copies!replicaVars
      <3>1. PenWaits \/ Draws(c)
        BY <2>2, PenStepDraws
      <3>2. QED
        BY <2>1, <3>1, StillnessIsQuiet, DrawingIsQuiet DEF PenWaits
    <2>3. ASSUME NEW c \in Clients, AppAction(c)
          PROVE  Copies!Next
      BY <2>1, <2>3, StepOfReplicas DEF AppAction
    <2>4. ASSUME UNCHANGED drawingVars
          PROVE  UNCHANGED Copies!replicaVars
      BY <2>4, StillnessIsQuiet DEF drawingVars
    <2>5. QED
      BY <2>2, <2>3, <2>4 DEF DrawingNext
  <1>3. QED
    BY <1>1, <1>2, SightWhileDrawing, PTL DEF DrawingSpec, ImplementsReplicas, Copies!Spec
=============================================================================
