------------------------------ MODULE AppProofs -------------------------------
(***************************************************************************)
(* The stores of a browser, for every set of browsers, figures and         *)
(* requests: a patch lives as long as the request that it was made with,   *)
(* and the screen and the pen only name figures that have a timeline.      *)
(***************************************************************************)
EXTENDS Screen, Drawing, PatchProofs
-----------------------------------------------------------------------------
(* Several patches at once are made one after the other.                   *)
LEMMA PatchedByStep ==
  ASSUME NEW store, NEW first, NEW bodies, NEW diffs, NEW k \in Nat, DOMAIN bodies = 1..k
  PROVE  \E g : /\ g[0] = store
                /\ \A n \in Nat : n < k =>
                     g[n + 1] = Patched(g[n], first + (n + 1), bodies[n + 1], diffs[n + 1])
                /\ PatchedAll(store, first, bodies, diffs) = g[k]
  <1> DEFINE s == [i \in DOMAIN bodies |-> i]
             Step(g, t) ==
               IF t = {} THEN store
               ELSE LET n == Max(t)
                    IN  Patched(g[t \ {n}], first + s[n], bodies[s[n]], diffs[s[n]])
             Fun(n, g) == g = [t \in SUBSET (1..n) |-> Step(g, t)]
             F == CHOOSE g : g = [t \in SUBSET DOMAIN s |-> Step(g, t)]
  <1>1. PatchedAll(store, first, bodies, diffs) = F[DOMAIN s]
    BY DEF PatchedAll, FoldLeft, MapThenFoldSet
  <1>2. DOMAIN s = 1..k /\ \A i \in 1..k : s[i] = i
    OBVIOUS
  <1> HIDE DEF s
  <1>3. \A n \in Nat : \E g : Fun(n, g)
    <2> DEFINE N == {n \in Nat : \E g : Fun(n, g)}
    <2>1. 0 \in N
      <3>1. Fun(0, [t \in SUBSET (1..0) |-> store])
        OBVIOUS
      <3>2. QED
        BY <3>1
    <2>2. ASSUME NEW n \in Nat, n \in N PROVE n + 1 \in N
      <3>1. PICK g : Fun(n, g)
        BY <2>2
      <3> DEFINE h == [t \in SUBSET (1..(n + 1)) |-> IF n + 1 \in t THEN Step(g, t) ELSE g[t]]
      <3>2. ASSUME NEW t \in SUBSET (1..(n + 1)) PROVE h[t] = Step(h, t)
        <4>1. CASE n + 1 \in t
          <5>1. Max(t) = n + 1
            <6>1. t \subseteq Int /\ \A m \in t : m <= n + 1
              OBVIOUS
            <6>2. QED
              BY <4>1, <6>1, MaxIs
          <5>2. t \ {n + 1} \in SUBSET (1..(n + 1)) /\ n + 1 \notin t \ {n + 1}
            OBVIOUS
          <5>3. h[t] = Step(g, t) /\ h[t \ {n + 1}] = g[t \ {n + 1}]
            BY <4>1, <5>2
          <5>4. QED
            BY <4>1, <5>1, <5>3
        <4>2. CASE n + 1 \notin t
          <5>1. t \in SUBSET (1..n)
            BY <4>2
          <5>2. h[t] = g[t] /\ g[t] = Step(g, t)
            BY <3>1, <4>2, <5>1
          <5>3. \A m : h[t \ {m}] = g[t \ {m}]
            BY <4>2
          <5>4. QED
            BY <5>2, <5>3
        <4>3. QED
          BY <4>1, <4>2
      <3>3. Fun(n + 1, h)
        BY <3>2
      <3> HIDE DEF h, Fun
      <3>4. QED
        BY <3>3
    <2> HIDE DEF N
    <2>3. Nat \subseteq N
      BY <2>1, <2>2, ByInduction
    <2>4. QED
      BY <2>3 DEF N
  <1>4. \A t \in SUBSET (1..k) : F[t] = Step(F, t)
    <2>1. Fun(k, F)
      <3> HIDE DEF Step
      <3>1. PICK g : Fun(k, g)
        BY <1>3
      <3>2. DOMAIN s = 1..k
        BY <1>2
      <3>3. QED
        BY <3>1, <3>2
    <2>2. QED
      BY <2>1
  <1> HIDE DEF F
  <1> DEFINE g == [n \in Nat |-> F[1..n]]
  <1>5. g[0] = store
    <2>1. F[{}] = store
      BY <1>4
    <2>2. g[0] = F[{}]
      <3>1. 1..0 = {}
        OBVIOUS
      <3>2. QED
        BY <3>1
    <2>3. QED
      BY <2>1, <2>2
  <1>6. ASSUME NEW n \in Nat, n < k
        PROVE  g[n + 1] = Patched(g[n], first + (n + 1), bodies[n + 1], diffs[n + 1])
    <2> DEFINE t == 1..(n + 1)
    <2>1. t \in SUBSET (1..k) /\ t # {} /\ Max(t) = n + 1 /\ t \ {n + 1} = 1..n
      <3>1. t \in SUBSET (1..k)
        BY <1>2, <1>6
      <3>2. n + 1 \in t
        OBVIOUS
      <3>3. QED
        BY <3>1, <3>2, MaxOfRange
    <2>2. g[n] = F[1..n] /\ g[n + 1] = F[t]
      OBVIOUS
    <2> HIDE DEF t, g
    <2>3. F[t] = Step(F, t)
      BY <1>4, <2>1
    <2>4. s[n + 1] = n + 1
      BY <1>2, <1>6
    <2>5. QED
      BY <2>1, <2>2, <2>3, <2>4
  <1>7. PatchedAll(store, first, bodies, diffs) = g[k]
    BY <1>1, <1>2
  <1> HIDE DEF g
  <1>8. \A n \in Nat : n < k =>
          g[n + 1] = Patched(g[n], first + (n + 1), bodies[n + 1], diffs[n + 1])
    BY <1>6
  <1>9. QED
    BY <1>5, <1>7, <1>8
-----------------------------------------------------------------------------
(* Timelines.                                                              *)

(* A timeline whose patches have ids of S.                                 *)
Timeline(t, S) ==
  /\ t = [committed |-> t.committed, patches |-> t.patches]
  /\ \E D : t.patches \in Seq([id : S, diff : D])

LEMMA TimelineIs ==
  ASSUME NEW c, NEW S, NEW D, NEW w, w \in Seq([id : S, diff : D])
  PROVE  Timeline([committed |-> c, patches |-> w], S)
  <1> DEFINE A == Seq([id : S, diff : D])
             r == [committed |-> c, patches |-> w]
  <1>1. r = [committed |-> r.committed, patches |-> r.patches] /\ r.patches = w
    OBVIOUS
  <1> HIDE DEF r
  <1>2. r.patches \in A
    BY <1>1
  <1>3. Timeline(r, S)
    BY <1>1, <1>2, Zenon DEF Timeline
  <1>4. QED
    BY <1>3 DEF r

LEMMA TimelineIsThere ==
  ASSUME NEW t, NEW S, Timeline(t, S)
  PROVE  t # NoTimeline
  <1> DEFINE r == [committed |-> t.committed, patches |-> t.patches]
  <1>1. DOMAIN r = {"committed", "patches"} /\ DOMAIN NoTimeline = {"missing"}
    BY DEF NoTimeline
  <1>2. t = r
    BY DEF Timeline
  <1> HIDE DEF r
  <1>3. QED
    BY <1>1, <1>2

LEMMA MoreIds ==
  ASSUME NEW t, NEW S, Timeline(t, S), NEW R, S \subseteq R
  PROVE  Timeline(t, R)
  <1>1. PICK D : t.patches \in Seq([id : S, diff : D])
    BY DEF Timeline
  <1>2. \A s \in Seq([id : S, diff : D]) : s \in Seq([id : R, diff : D])
    <2>1. [id : S, diff : D] \subseteq [id : R, diff : D]
      OBVIOUS
    <2> DEFINE A == [id : S, diff : D]
               B == [id : R, diff : D]
    <2> HIDE DEF A, B
    <2>2. A \subseteq B
      BY <2>1 DEF A, B
    <2>3. \A s \in Seq(A) : s \in Seq(B)
      BY <2>2
    <2>4. QED
      BY <2>3 DEF A, B
  <1>3. QED
    BY <1>1, <1>2 DEF Timeline

LEMMA NewTimelines ==
  ASSUME NEW S
  PROVE  /\ \A figure : Timeline(T!newCommittedTimeline(figure), S)
         /\ \A id \in S : \A diff : Timeline(T!newLocalTimeline(id, diff), S)
  <1>1. ASSUME NEW figure PROVE Timeline(T!newCommittedTimeline(figure), S)
    <2> DEFINE A == [id : S, diff : {}]
    <2>1. <<>> \in Seq(A)
      <3> HIDE DEF A
      <3>1. QED
        OBVIOUS
    <2>2. QED
      BY <2>1, TimelineIs DEF T!newCommittedTimeline
  <1>2. ASSUME NEW id \in S, NEW diff PROVE Timeline(T!newLocalTimeline(id, diff), S)
    <2> DEFINE A == [id : S, diff : {diff}]
               p == [id |-> id, diff |-> diff]
    <2>1. p \in A
      OBVIOUS
    <2>2. <<p>> \in Seq(A)
      <3> HIDE DEF A, p
      <3>1. QED
        BY <2>1
    <2>3. T!newLocalTimeline(id, diff) = [committed |-> NoFigure, patches |-> <<p>>]
      BY DEF T!newLocalTimeline, T!newPatch
    <2> HIDE DEF p
    <2>4. QED
      BY <2>2, <2>3, TimelineIs
  <1>3. QED
    BY <1>1, <1>2

LEMMA CommittedTimeline ==
  ASSUME NEW t, NEW S, Timeline(t, S), NEW figure
  PROVE  Timeline(T!setCommitted(t, figure), S)
  <1>1. T!setCommitted(t, figure) = [committed |-> figure, patches |-> t.patches]
    <2> DEFINE r == [committed |-> t.committed, patches |-> t.patches]
    <2>1. [r EXCEPT !.committed = figure] = [committed |-> figure, patches |-> t.patches]
      OBVIOUS
    <2>2. t = r
      BY DEF Timeline
    <2> HIDE DEF r
    <2>3. QED
      BY <2>1, <2>2 DEF T!setCommitted
  <1>2. PICK D : t.patches \in Seq([id : S, diff : D])
    BY DEF Timeline
  <1>3. QED
    BY <1>1, <1>2, TimelineIs

LEMMA PatchedTimeline ==
  ASSUME NEW t, NEW S, Timeline(t, S), NEW id, NEW diff
  PROVE  Timeline(T!patched(t, id, diff), S \cup {id})
  <1> DEFINE p == [id |-> id, diff |-> diff]
  <1>1. PICK D : t.patches \in Seq([id : S, diff : D])
    BY DEF Timeline
  <1>2. T!patched(t, id, diff) = [committed |-> t.committed, patches |-> Append(t.patches, p)]
    <2> DEFINE r == [committed |-> t.committed, patches |-> t.patches]
    <2>1. [r EXCEPT !.patches = Append(@, p)]
            = [committed |-> t.committed, patches |-> Append(t.patches, p)]
      <3>1. \A u, v, w : [[committed |-> u, patches |-> v] EXCEPT !.patches = w]
                         = [committed |-> u, patches |-> w]
        OBVIOUS
      <3>2. r.patches = t.patches
        OBVIOUS
      <3> HIDE DEF p
      <3>3. QED
        BY <3>1, <3>2
    <2>2. t = r
      BY DEF Timeline
    <2>3. T!patched(t, id, diff) = [t EXCEPT !.patches = Append(@, p)]
      BY DEF T!patched, T!newPatch
    <2> HIDE DEF r, p
    <2>4. QED
      BY <2>1, <2>2, <2>3
  <1> DEFINE A == [id : S, diff : D]
             B == [id : S \cup {id}, diff : D \cup {diff}]
  <1>3. A \subseteq B /\ p \in B
    OBVIOUS
  <1> HIDE DEF A, B, p
  <1>4. Append(t.patches, p) \in Seq(B)
    <2>1. t.patches \in Seq(A)
      BY <1>1 DEF A
    <2>2. t.patches \in Seq(B)
      BY <1>3, <2>1
    <2>3. QED
      BY <1>3, <2>2
  <1> DEFINE R == S \cup {id}
             E == D \cup {diff}
             w == Append(t.patches, p)
  <1>5. w \in Seq([id : R, diff : E])
    BY <1>4 DEF B
  <1>6. T!patched(t, id, diff) = [committed |-> t.committed, patches |-> w]
    BY <1>2
  <1> HIDE DEF R, E, w
  <1>7. Timeline([committed |-> t.committed, patches |-> w], R)
    BY <1>5, TimelineIs
  <1>8. QED
    BY <1>6, <1>7 DEF R

(* A patch that is discarded is gone.                                      *)
LEMMA DiscardedTimeline ==
  ASSUME NEW t, NEW S, Timeline(t, S), NEW id
  PROVE  Timeline(T!discardPatch(t, id), S \ {id})
  <1>1. PICK D : t.patches \in Seq([id : S, diff : D])
    BY DEF Timeline
  <1> DEFINE A == [id : S, diff : D]
             B == [id : S \ {id}, diff : D]
             w == Without(t.patches, id)
  <1>2. \A p \in A : p.id # id => p \in B
    OBVIOUS
  <1> HIDE DEF A, B
  <1>3. w \in Seq(B)
    <2>1. t.patches \in Seq(A)
      BY <1>1 DEF A
    <2>2. QED
      BY <1>2, <2>1, WithoutDrops
  <1>4. T!discardPatch(t, id) = [committed |-> t.committed, patches |-> w]
    <2> DEFINE r == [committed |-> t.committed, patches |-> t.patches]
    <2>1. T!Without(t.patches, id) = w
      BY DEF T!Without, Without, T!FoldLeft, FoldLeft, T!MapThenFoldSet, MapThenFoldSet,
             T!Max, Max
    <2> HIDE DEF w
    <2>2. [r EXCEPT !.patches = T!Without(@, id)] = [committed |-> t.committed, patches |-> w]
      BY <2>1
    <2>3. t = r
      BY DEF Timeline
    <2> HIDE DEF r
    <2>4. QED
      BY <2>2, <2>3 DEF T!discardPatch
  <1> HIDE DEF w
  <1>5. QED
    BY <1>3, <1>4, TimelineIs DEF B
-----------------------------------------------------------------------------
(* Stores.                                                                 *)

IdsOf(kind) == DOMAIN NoStore[kind]

StoreShape(store) ==
  /\ store = [kind \in Kinds |-> store[kind]]
  /\ \A kind \in Kinds : store[kind] = [id \in IdsOf(kind) |-> store[kind][id]]

(* The ids of the requests among these that change a figure.               *)
About(requests, kind, id) ==
  {r.id : r \in {q \in requests : /\ q.body.case \in FigureMessages
                                  /\ StoreOf(q.body) = kind /\ q.body.id = id}}

(* Every patch of a figure was made with one of the requests, which is     *)
(* about this figure.                                                      *)
EntryOK(entry, ids) == entry = NoTimeline \/ Timeline(entry, ids)
StoreOK(requests, store) ==
  /\ StoreShape(store)
  /\ \A kind \in Kinds : \A id \in IdsOf(kind) :
       EntryOK(store[kind][id], About(requests, kind, id))

(* A figure that had a timeline has one.                                   *)
Keeps(store, new) ==
  \A kind \in Kinds : \A id \in IdsOf(kind) :
    store[kind][id] # NoTimeline => new[kind][id] # NoTimeline

(* The store with another entry for a figure.                              *)
Put(store, kind, id, value) == [store EXCEPT ![kind][id] = value]

LEMMA EntryIs ==
  ASSUME NEW store, StoreShape(store), NEW kind, NEW id, NEW value
  PROVE  /\ StoreShape(Put(store, kind, id, value))
         /\ \A k \in Kinds : \A i \in IdsOf(k) :
              Put(store, kind, id, value)[k][i]
                = IF k = kind /\ i = id THEN value ELSE store[k][i]
  <1> DEFINE new == Put(store, kind, id, value)
  <1>1. new = [k \in Kinds |-> IF k = kind THEN [store[k] EXCEPT ![id] = value] ELSE store[k]]
    BY DEF StoreShape, Put
  <1> HIDE DEF new
  <1>2. ASSUME NEW k \in Kinds
        PROVE  new[k] = [i \in IdsOf(k) |-> IF k = kind /\ i = id THEN value ELSE store[k][i]]
    <2>1. store[k] = [i \in IdsOf(k) |-> store[k][i]]
      BY DEF StoreShape
    <2>2. CASE k = kind
      <3>1. new[k] = [store[k] EXCEPT ![id] = value]
        BY <1>1, <2>2
      <3>2. QED
        BY <2>1, <2>2, <3>1
    <2>3. CASE k # kind
      BY <1>1, <2>1, <2>3
    <2>4. QED
      BY <2>2, <2>3
  <1>3. \A k \in Kinds : \A i \in IdsOf(k) :
          new[k][i] = IF k = kind /\ i = id THEN value ELSE store[k][i]
    BY <1>2
  <1>4. new = [k \in Kinds |-> new[k]]
    BY <1>1
  <1>5. \A k \in Kinds : new[k] = [i \in IdsOf(k) |-> new[k][i]]
    BY <1>2
  <1>6. StoreShape(new)
    BY <1>4, <1>5 DEF StoreShape
  <1>7. QED
    BY <1>3, <1>6 DEF new

LEMMA MoreRequests ==
  ASSUME NEW requests, NEW more, requests \subseteq more, NEW store, StoreOK(requests, store)
  PROVE  StoreOK(more, store)
  <1>1. ASSUME NEW kind, NEW id PROVE About(requests, kind, id) \subseteq About(more, kind, id)
    BY DEF About
  <1>2. QED
    BY <1>1, MoreIds DEF StoreOK, EntryOK

(* What a store is made to know of one figure.                             *)
LEMMA EntryKept ==
  ASSUME NEW requests, NEW store, StoreOK(requests, store), NEW kind, NEW id, NEW value,
         NEW more, requests \subseteq more,
         kind \in Kinds /\ id \in IdsOf(kind) =>
           EntryOK(value, About(more, kind, id))
  PROVE  /\ StoreOK(more, Put(store, kind, id, value))
         /\ (kind \in Kinds /\ id \in IdsOf(kind) /\ store[kind][id] # NoTimeline
               => value # NoTimeline)
            => Keeps(store, Put(store, kind, id, value))
  <1> DEFINE new == Put(store, kind, id, value)
  <1>0. StoreShape(store)
    BY DEF StoreOK
  <1>1. /\ StoreShape(new)
        /\ \A k \in Kinds : \A i \in IdsOf(k) :
             new[k][i] = IF k = kind /\ i = id THEN value ELSE store[k][i]
    BY <1>0, EntryIs
  <1> HIDE DEF new
  <1>2. StoreOK(more, store)
    BY MoreRequests
  <1>3. StoreOK(more, new)
    BY <1>1, <1>2 DEF StoreOK
  <1>4. ASSUME kind \in Kinds /\ id \in IdsOf(kind) /\ store[kind][id] # NoTimeline
                 => value # NoTimeline
        PROVE  Keeps(store, new)
    BY <1>1, <1>4 DEF Keeps
  <1>5. QED
    BY <1>3, <1>4 DEF new

LEMMA NoStoreOK == \A requests : StoreOK(requests, NoStore)
  <1>1. NoStore = [kind \in Kinds |-> NoStore[kind]]
    BY DEF NoStore, Kinds
  <1>2. \A kind \in Kinds : NoStore[kind] = [id \in IdsOf(kind) |-> NoTimeline]
    BY DEF NoStore, Kinds, IdsOf
  <1>3. \A kind \in Kinds : \A id \in IdsOf(kind) : NoStore[kind][id] = NoTimeline
    BY <1>2
  <1>4. StoreShape(NoStore)
    BY <1>1, <1>2, <1>3 DEF StoreShape
  <1>5. QED
    BY <1>3, <1>4 DEF StoreOK, EntryOK

(* The server's state of a figure leaves its patches alone.                *)
LEMMA ServerStateKept ==
  ASSUME NEW requests, NEW store, StoreOK(requests, store), NEW kind, NEW id, NEW figure
  PROVE  /\ StoreOK(requests, setServerState(store, kind, id, figure))
         /\ Keeps(store, setServerState(store, kind, id, figure))
  <1> DEFINE entry == store[kind][id]
             value == IF entry # NoTimeline THEN T!setCommitted(entry, figure)
                      ELSE IF figure = NoFigure THEN entry ELSE T!newCommittedTimeline(figure)
             ids == About(requests, kind, id)
  <1>1. setServerState(store, kind, id, figure) = Put(store, kind, id, value)
    BY DEF setServerState, Put
  <1>2. ASSUME kind \in Kinds, id \in IdsOf(kind)
        PROVE  EntryOK(value, ids) /\ (entry # NoTimeline => value # NoTimeline)
    <2>1. EntryOK(entry, ids)
      BY <1>2 DEF StoreOK
    <2> HIDE DEF entry, ids
    <2>2. CASE entry # NoTimeline
      <3>1. Timeline(T!setCommitted(entry, figure), ids)
        BY <2>1, <2>2, CommittedTimeline DEF EntryOK
      <3>2. QED
        BY <2>2, <3>1, TimelineIsThere DEF EntryOK
    <2>3. CASE entry = NoTimeline
      BY <2>3, NewTimelines DEF EntryOK
    <2>4. QED
      BY <2>2, <2>3
  <1> HIDE DEF value
  <1>3. requests \subseteq requests
    OBVIOUS
  <1>4. /\ StoreOK(requests, Put(store, kind, id, value))
        /\ Keeps(store, Put(store, kind, id, value))
    BY <1>2, <1>3, EntryKept
  <1>5. QED
    BY <1>1, <1>4

LEMMA MessageKept ==
  ASSUME NEW requests, NEW store, StoreOK(requests, store), NEW m
  PROVE  /\ StoreOK(requests, storeAfterMessage(store, m))
         /\ Keeps(store, storeAfterMessage(store, m))
  <1>1. Keeps(store, store)
    BY DEF Keeps
  <1>2. \/ \E kind, id, figure :
             storeAfterMessage(store, m) = setServerState(store, kind, id, figure)
        \/ storeAfterMessage(store, m) = store
    <2>1. CASE m.type = "lineCreatedOrUpdated"
      BY <2>1 DEF storeAfterMessage
    <2>2. CASE m.type = "lineDeleted"
      BY <2>2 DEF storeAfterMessage
    <2>3. CASE m.type = "noteCreatedOrUpdated"
      BY <2>3 DEF storeAfterMessage
    <2>4. CASE m.type = "noteDeleted"
      BY <2>4 DEF storeAfterMessage
    <2>5. CASE m.type = "imageCreated"
      BY <2>5 DEF storeAfterMessage
    <2>6. CASE m.type \notin {"lineCreatedOrUpdated", "lineDeleted", "noteCreatedOrUpdated",
                              "noteDeleted", "imageCreated"}
      BY <2>6 DEF storeAfterMessage
    <2>7. QED
      BY <2>1, <2>2, <2>3, <2>4, <2>5, <2>6
  <1>3. QED
    BY <1>1, <1>2, ServerStateKept

(* A request that is over leaves no patch.                                 *)
LEMMA DiscardKept ==
  ASSUME NEW requests, NEW store, StoreOK(requests, store), NEW r \in requests
  PROVE  /\ StoreOK(requests \ {r}, discardPatch(store, r))
         /\ Keeps(store, discardPatch(store, r))
  <1> DEFINE kind == StoreOf(r.body)
             id == r.body.id
             entry == store[kind][id]
             value == IF entry = NoTimeline THEN entry ELSE T!discardPatch(entry, r.id)
             new == Put(store, kind, id, value)
             rest == requests \ {r}
  <1>1. discardPatch(store, r) = new
    BY DEF discardPatch, Put
  <1>2. StoreShape(store)
    BY DEF StoreOK
  <1>3. /\ StoreShape(new)
        /\ \A k \in Kinds : \A i \in IdsOf(k) :
             new[k][i] = IF k = kind /\ i = id THEN value ELSE store[k][i]
    BY <1>2, EntryIs
  <1>4. ASSUME NEW k \in Kinds, NEW i \in IdsOf(k)
        PROVE  /\ EntryOK(new[k][i], About(rest, k, i))
               /\ store[k][i] # NoTimeline => new[k][i] # NoTimeline
    <2>1. EntryOK(store[k][i], About(requests, k, i))
      BY <1>4 DEF StoreOK
    <2>2. CASE k = kind /\ i = id
      <3>1. new[k][i] = value /\ entry = store[k][i]
        BY <1>3, <2>2
      <3>2. CASE entry = NoTimeline
        BY <3>1, <3>2 DEF EntryOK
      <3>3. CASE entry # NoTimeline
        <4>1. value = T!discardPatch(entry, r.id)
          BY <3>3
        <4> HIDE DEF kind, id, entry, value, new
        <4>2. Timeline(entry, About(requests, k, i))
          BY <2>1, <3>1, <3>3 DEF EntryOK
        <4>3. Timeline(value, About(requests, k, i) \ {r.id})
          BY <4>1, <4>2, DiscardedTimeline
        <4>4. About(requests, k, i) \ {r.id} \subseteq About(rest, k, i)
          BY DEF About
        <4>5. Timeline(value, About(rest, k, i))
          BY <4>3, <4>4, MoreIds
        <4>6. QED
          BY <3>1, <4>5, TimelineIsThere DEF EntryOK
      <3>4. QED
        BY <3>2, <3>3
    <2>3. CASE ~(k = kind /\ i = id)
      <3>1. new[k][i] = store[k][i]
        BY <1>3, <2>3
      <3>2. About(requests, k, i) \subseteq About(rest, k, i)
        BY <2>3 DEF About
      <3> HIDE DEF new, rest
      <3>3. QED
        BY <2>1, <3>1, <3>2, MoreIds DEF EntryOK
    <2>4. QED
      BY <2>2, <2>3
  <1> HIDE DEF kind, id, value, new
  <1>5. QED
    BY <1>1, <1>3, <1>4 DEF StoreOK, Keeps

(* A request that is over and not about a figure was the reason of no      *)
(* patch.                                                                  *)
LEMMA CallbackKept ==
  ASSUME NEW requests, NEW store, StoreOK(requests, store), NEW r \in requests, NEW s, NEW m
  PROVE  /\ StoreOK(requests \ {r}, storeAfterCallback(store, s, r, m))
         /\ \/ Keeps(store, storeAfterCallback(store, s, r, m))
            \/ /\ r.body.case \notin FigureMessages /\ ClearsStores(s, r, m)
               /\ storeAfterCallback(store, s, r, m) = NoStore
  <1>1. CASE r.body.case \in FigureMessages
    <2>1. storeAfterCallback(store, s, r, m) = discardPatch(store, r)
      BY <1>1 DEF storeAfterCallback, ClearsStores, FigureMessages
    <2>2. QED
      BY <2>1, DiscardKept
  <1>2. CASE r.body.case \notin FigureMessages /\ ClearsStores(s, r, m)
    <2>1. storeAfterCallback(store, s, r, m) = NoStore
      BY <1>2 DEF storeAfterCallback
    <2>2. QED
      BY <1>2, <2>1, NoStoreOK
  <1>3. CASE r.body.case \notin FigureMessages /\ ~ClearsStores(s, r, m)
    <2>1. storeAfterCallback(store, s, r, m) = store
      BY <1>3 DEF storeAfterCallback
    <2>2. \A kind, id : About(requests, kind, id) = About(requests \ {r}, kind, id)
      BY <1>3 DEF About
    <2>3. StoreOK(requests \ {r}, store)
      BY <2>2 DEF StoreOK
    <2>4. QED
      BY <2>1, <2>3 DEF Keeps
  <1>4. QED
    BY <1>1, <1>2, <1>3

(* A new patch, and the request that it is made with.                      *)
LEMMA PatchKept ==
  ASSUME NEW requests, NEW store, StoreOK(requests, store), NEW id, NEW body, NEW diff,
         body.case \in FigureMessages,
         Creates(body) \/ store[StoreOf(body)][body.id] # NoTimeline,
         NEW more, requests \subseteq more, [id |-> id, body |-> body] \in more
  PROVE  /\ StoreOK(more, Patched(store, id, body, diff))
         /\ Keeps(store, Patched(store, id, body, diff))
  <1> DEFINE kind == StoreOf(body)
             entry == store[kind][body.id]
             value == IF Creates(body) THEN T!newLocalTimeline(id, diff)
                      ELSE T!patched(entry, id, diff)
             ids == About(more, kind, body.id)
  <1>1. Patched(store, id, body, diff) = Put(store, kind, body.id, value)
    BY DEF Patched, Put
  <1>2. id \in ids
    <2> DEFINE r == [id |-> id, body |-> body]
    <2>1. r.id = id /\ r.body = body
      OBVIOUS
    <2> HIDE DEF r
    <2>2. r \in more
      BY DEF r
    <2>3. QED
      BY <2>1, <2>2 DEF About
  <1>3. ASSUME kind \in Kinds, body.id \in IdsOf(kind)
        PROVE  Timeline(value, ids)
    <2>1. CASE Creates(body)
      <3>1. value = T!newLocalTimeline(id, diff)
        BY <2>1
      <3> HIDE DEF value, ids
      <3>2. QED
        BY <1>2, <3>1, NewTimelines
    <2>2. CASE ~Creates(body)
      <3>1. value = T!patched(entry, id, diff) /\ entry # NoTimeline
        BY <2>2
      <3> DEFINE old == About(requests, kind, body.id)
      <3>2. EntryOK(entry, old)
        BY <1>3 DEF StoreOK
      <3>3. old \cup {id} \subseteq ids
        BY <1>2 DEF About
      <3> HIDE DEF value, ids, entry, old
      <3>4. Timeline(value, old \cup {id})
        BY <3>1, <3>2, PatchedTimeline DEF EntryOK
      <3>5. QED
        BY <3>3, <3>4, MoreIds
    <2>3. QED
      BY <2>1, <2>2
  <1> HIDE DEF value
  <1>4. /\ kind \in Kinds /\ body.id \in IdsOf(kind) =>
             EntryOK(value, About(more, kind, body.id))
        /\ kind \in Kinds /\ body.id \in IdsOf(kind) => value # NoTimeline
    BY <1>3, TimelineIsThere DEF EntryOK
  <1>5. /\ StoreOK(more, Put(store, kind, body.id, value))
        /\ Keeps(store, Put(store, kind, body.id, value))
    <2> HIDE DEF kind
    <2>1. QED
      BY <1>4, EntryKept
  <1>6. QED
    BY <1>1, <1>5

(* A request that may be made: the figure is new or has a timeline.        *)
HasTimeline(store, body) ==
  /\ StoreOf(body) \in Kinds /\ body.id \in IdsOf(StoreOf(body))
  /\ store[StoreOf(body)][body.id] # NoTimeline
Patchable(store, body) ==
  body.case \in FigureMessages /\ (Creates(body) \/ HasTimeline(store, body))

LEMMA PatchesKept ==
  ASSUME NEW requests, NEW store, StoreOK(requests, store),
         NEW first, NEW bodies, NEW diffs, NEW k \in Nat, DOMAIN bodies = 1..k,
         \A i \in 1..k : Patchable(store, bodies[i]),
         NEW more, requests \subseteq more,
         \A i \in 1..k : [id |-> first + i, body |-> bodies[i]] \in more
  PROVE  /\ StoreOK(more, PatchedAll(store, first, bodies, diffs))
         /\ Keeps(store, PatchedAll(store, first, bodies, diffs))
  <1>1. PICK g : /\ g[0] = store
                 /\ \A n \in Nat : n < k =>
                      g[n + 1] = Patched(g[n], first + (n + 1), bodies[n + 1], diffs[n + 1])
                 /\ PatchedAll(store, first, bodies, diffs) = g[k]
    BY ONLY PatchedByStep, k \in Nat, DOMAIN bodies = 1..k
  <1> DEFINE N == {n \in Nat : n <= k => StoreOK(more, g[n]) /\ Keeps(store, g[n])}
  <1>2. 0 \in N
    <2>1. StoreOK(more, store) /\ Keeps(store, store)
      BY MoreRequests DEF Keeps
    <2>2. QED
      BY <1>1, <2>1
  <1>3. ASSUME NEW n \in Nat, n \in N PROVE n + 1 \in N
    <2> SUFFICES ASSUME n + 1 <= k PROVE StoreOK(more, g[n + 1]) /\ Keeps(store, g[n + 1])
      OBVIOUS
    <2> DEFINE body == bodies[n + 1]
    <2>1. StoreOK(more, g[n]) /\ Keeps(store, g[n])
      BY <1>3
    <2>2. g[n + 1] = Patched(g[n], first + (n + 1), body, diffs[n + 1])
      BY <1>1
    <2>3. n + 1 \in 1..k
      OBVIOUS
    <2>4. Patchable(store, body) /\ [id |-> first + (n + 1), body |-> body] \in more
      BY <2>3
    <2> HIDE DEF body, N
    <2>5. body.case \in FigureMessages
      BY <2>4 DEF Patchable
    <2>6. Creates(body) \/ g[n][StoreOf(body)][body.id] # NoTimeline
      BY <2>1, <2>4 DEF Patchable, HasTimeline, Keeps
    <2>7. more \subseteq more
      OBVIOUS
    <2>8. StoreOK(more, g[n + 1]) /\ Keeps(g[n], g[n + 1])
      BY <2>1, <2>2, <2>4, <2>5, <2>6, <2>7, PatchKept
    <2>9. QED
      BY <2>1, <2>8 DEF Keeps
  <1> HIDE DEF N
  <1>4. Nat \subseteq N
    BY <1>2, <1>3, ByInduction
  <1>5. StoreOK(more, g[k]) /\ Keeps(store, g[k])
    BY <1>4 DEF N
  <1>6. QED
    BY <1>1, <1>5
-----------------------------------------------------------------------------
(* The stores and the requests of the browsers.                            *)

(* The requests that wait have different numbers, none greater than n.     *)
RequestsOK(requests, n) ==
  /\ \A r \in requests : r.id \in Nat /\ r.id <= n
  /\ \A r, q \in requests : r.id = q.id => r = q

StoresOK ==
  /\ stores = [c \in Clients |-> stores[c]] /\ handlers = [c \in Clients |-> handlers[c]]
  /\ sent \in [Clients -> Nat]
  /\ \A c \in Clients : RequestsOK(handlers[c], sent[c]) /\ StoreOK(handlers[c], stores[c])

(* What requests and patches do not care about.                            *)
SameStores == UNCHANGED <<handlers, sent, stores>>
LEMMA StoresStay ==
  ASSUME StoresOK, SameStores
  PROVE  StoresOK'
  BY DEF StoresOK, SameStores

(* A step of one browser.                                                  *)
LEMMA OneStore ==
  ASSUME StoresOK, NEW c \in Clients, NEW requests, NEW n \in Nat, NEW store,
         handlers' = [handlers EXCEPT ![c] = requests], sent' = [sent EXCEPT ![c] = n],
         stores' = [stores EXCEPT ![c] = store],
         RequestsOK(requests, n), StoreOK(requests, store)
  PROVE  StoresOK'
  <1>1. /\ stores' = [x \in Clients |-> stores'[x]] /\ handlers' = [x \in Clients |-> handlers'[x]]
        /\ sent' \in [Clients -> Nat]
    BY DEF StoresOK
  <1>2. ASSUME NEW x \in Clients
        PROVE  RequestsOK(handlers'[x], sent'[x]) /\ StoreOK(handlers'[x], stores'[x])
    <2>1. CASE x = c
      <3>1. handlers'[x] = requests /\ sent'[x] = n /\ stores'[x] = store
        BY <2>1 DEF StoresOK
      <3>2. QED
        BY <3>1
    <2>2. CASE x # c
      <3>1. handlers'[x] = handlers[x] /\ sent'[x] = sent[x] /\ stores'[x] = stores[x]
        BY <2>2 DEF StoresOK
      <3>2. QED
        BY <3>1 DEF StoresOK
    <2>3. QED
      BY <2>1, <2>2
  <1>3. QED
    BY <1>1, <1>2 DEF StoresOK

(* Sending, with the numbers that the requests get.                        *)
SentAs(c, before, bodies, k, requests) ==
  /\ handlers' = [handlers EXCEPT ![c] = requests]
  /\ sent' = [sent EXCEPT ![c] = sent[c] + k] /\ sent[c] + k \in Nat
  /\ RequestsOK(requests, sent[c] + k)
  /\ before \subseteq requests
  /\ \A i \in 1..k : [id |-> sent[c] + i, body |-> bodies[i]] \in requests
  /\ \A r \in requests :
       r \in before \/ \E i \in 1..k : r = [id |-> sent[c] + i, body |-> bodies[i]]

LEMMA SentRequests ==
  ASSUME StoresOK, NEW c \in Clients, NEW before, before \subseteq handlers[c],
         NEW bodies, NEW k \in Nat, DOMAIN bodies = 1..k, Len(bodies) = k,
         SendAll(c, before, bodies)
  PROVE  \E requests : SentAs(c, before, bodies, k, requests)
  <1> DEFINE n == sent[c]
             new == {[id |-> n + i, body |-> bodies[i]] : i \in 1..k}
             requests == before \cup new
             messages == [i \in DOMAIN bodies |-> [id |-> sent[c] + i, body |-> bodies[i]]]
  <1>1. n \in Nat /\ RequestsOK(before, n)
    BY DEF StoresOK, RequestsOK
  <1>2. {messages[i] : i \in DOMAIN bodies} = new
    OBVIOUS
  <1>3. handlers' = [handlers EXCEPT ![c] = requests] /\ sent' = [sent EXCEPT ![c] = n + k]
    BY <1>2 DEF SendAll
  <1>4. \A r \in new : \E i \in 1..k : r = [id |-> n + i, body |-> bodies[i]] /\ r.id = n + i
    OBVIOUS
  <1>5. \A i \in 1..k : [id |-> n + i, body |-> bodies[i]] \in new
    OBVIOUS
  <1> HIDE DEF n, new
  <1>6. \A r \in requests : r.id \in Nat /\ r.id <= n + k
    BY <1>1, <1>4 DEF RequestsOK
  <1>7. ASSUME NEW r \in requests, NEW q \in requests, r.id = q.id PROVE r = q
    <2>1. CASE r \in before /\ q \in before
      BY <1>1, <1>7, <2>1 DEF RequestsOK
    <2>2. CASE r \in new /\ q \in new
      <3>1. PICK i \in 1..k : r = [id |-> n + i, body |-> bodies[i]] /\ r.id = n + i
        BY <1>4, <2>2
      <3>2. PICK j \in 1..k : q = [id |-> n + j, body |-> bodies[j]] /\ q.id = n + j
        BY <1>4, <2>2
      <3>3. i = j
        BY <1>1, <1>7, <3>1, <3>2
      <3>4. QED
        BY <3>1, <3>2, <3>3
    <2>3. \A x \in before, y \in new : x.id # y.id
      BY <1>1, <1>4 DEF RequestsOK
    <2>4. QED
      BY <1>7, <2>1, <2>2, <2>3
  <1>8. RequestsOK(requests, n + k)
    BY <1>6, <1>7 DEF RequestsOK
  <1>9. \A r \in requests : r \in before \/
          \E i \in 1..k : r = [id |-> n + i, body |-> bodies[i]]
    BY <1>4
  <1>10. /\ before \subseteq requests
         /\ \A i \in 1..k : [id |-> n + i, body |-> bodies[i]] \in requests
    BY <1>5
  <1>11. n + k \in Nat
    BY <1>1
  <1> HIDE DEF requests
  <1>12. SentAs(c, before, bodies, k, requests)
    BY <1>3, <1>8, <1>9, <1>10, <1>11 DEF n, SentAs
  <1>13. QED
    BY <1>12
-----------------------------------------------------------------------------
(* The steps of App.                                                       *)

LEMMA ChangeKept ==
  ASSUME StoresOK, NEW c \in Clients, NEW bodies, NEW diffs, NEW k \in Nat,
         DOMAIN bodies = 1..k, Len(bodies) = k,
         \A i \in 1..k : Patchable(stores[c], bodies[i]),
         Change(c, bodies, diffs)
  PROVE  /\ StoresOK' /\ Keeps(stores[c], stores'[c])
         /\ \A x \in Clients : x # c => stores'[x] = stores[x]
  <1> DEFINE new == PatchedAll(stores[c], sent[c], bodies, diffs)
  <1>1. SendAll(c, handlers[c], bodies) /\ stores' = [stores EXCEPT ![c] = new]
    BY DEF Change, PressAll
  <1>2. StoreOK(handlers[c], stores[c])
    BY DEF StoresOK
  <1>3. handlers[c] \subseteq handlers[c]
    OBVIOUS
  <1>4. PICK requests : SentAs(c, handlers[c], bodies, k, requests)
    BY <1>1, <1>3, SentRequests
  <1>5. StoreOK(requests, new) /\ Keeps(stores[c], new)
    BY <1>2, <1>4, PatchesKept DEF SentAs
  <1> HIDE DEF new
  <1>6. StoresOK'
    BY <1>1, <1>4, <1>5, OneStore DEF SentAs
  <1>7. stores'[c] = new /\ \A x \in Clients : x # c => stores'[x] = stores[x]
    BY <1>1 DEF StoresOK
  <1>8. QED
    BY <1>5, <1>6, <1>7

LEMMA OneChangeKept ==
  ASSUME StoresOK, NEW c \in Clients, NEW body, Patchable(stores[c], body),
         ChangeOne(c, body)
  PROVE  /\ StoresOK' /\ Keeps(stores[c], stores'[c])
         /\ \A x \in Clients : x # c => stores'[x] = stores[x]
  <1> DEFINE bodies == <<body>>
             diffs == <<DiffOf(sent[c] + 1, body)>>
  <1>1. Change(c, bodies, diffs)
    BY DEF ChangeOne
  <1>2. DOMAIN bodies = 1..1 /\ Len(bodies) = 1 /\ \A i \in 1..1 : bodies[i] = body
    OBVIOUS
  <1> HIDE DEF bodies, diffs
  <1>3. 1 \in Nat /\ \A i \in 1..1 : Patchable(stores[c], bodies[i])
    BY <1>2
  <1>4. QED
    BY <1>1, <1>2, <1>3, ChangeKept

(* Requests that are about no figure.                                      *)
LEMMA AskKept ==
  ASSUME StoresOK, NEW c \in Clients, NEW before, before \subseteq handlers[c],
         NEW body, SendAll(c, before, <<body>>), NEW store, StoreOK(before, store),
         stores' = [stores EXCEPT ![c] = store]
  PROVE  StoresOK'
  <1> DEFINE bodies == <<body>>
  <1>1. DOMAIN bodies = 1..1 /\ Len(bodies) = 1 /\ 1 \in Nat
    OBVIOUS
  <1>2. SendAll(c, before, bodies)
    OBVIOUS
  <1> HIDE DEF bodies
  <1>3. PICK requests : SentAs(c, before, bodies, 1, requests)
    BY <1>1, <1>2, SentRequests
  <1>4. StoreOK(requests, store)
    BY <1>3, MoreRequests DEF SentAs
  <1>5. QED
    BY <1>3, <1>4, OneStore DEF SentAs

LEMMA PressKept ==
  ASSUME StoresOK, NEW c \in Clients, NEW body, Press(c, body), UNCHANGED stores
  PROVE  StoresOK'
  <1>1. SendAll(c, handlers[c], <<body>>) /\ handlers[c] \subseteq handlers[c]
    BY DEF Press, PressAll
  <1>2. StoreOK(handlers[c], stores[c]) /\ stores' = [stores EXCEPT ![c] = stores[c]]
    BY DEF StoresOK
  <1>3. QED
    BY <1>1, <1>2, AskKept

(* The buttons clear the stores when the screen of an ended session is     *)
(* left.                                                                   *)
LEMMA ButtonsKept ==
  ASSUME StoresOK, NEW c \in Clients, SessionAction(c)
  PROVE  /\ StoresOK'
         /\ stores' = stores \/ exitEndedSession(c)
         /\ \A x \in Clients : x # c => stores'[x] = stores[x]
  <1>1. CASE UNCHANGED stores /\ \E body : Press(c, body)
    BY <1>1, PressKept
  <1>2. CASE exitEndedSession(c) /\ stores' = [stores EXCEPT ![c] = NoStore]
    <2>1. handlers' = [handlers EXCEPT ![c] = handlers[c]] /\ sent' = [sent EXCEPT ![c] = sent[c]]
      BY <1>2 DEF exitEndedSession, StoresOK
    <2>2. RequestsOK(handlers[c], sent[c]) /\ sent[c] \in Nat
      BY DEF StoresOK
    <2>3. StoreOK(handlers[c], NoStore)
      BY NoStoreOK
    <2>4. StoresOK'
      BY <1>2, <2>1, <2>2, <2>3, OneStore
    <2>5. QED
      BY <1>2, <2>4 DEF StoresOK
  <1>3. QED
    <2>1. \/ UNCHANGED stores /\ \E body : Press(c, body)
          \/ exitEndedSession(c) /\ stores' = [stores EXCEPT ![c] = NoStore]
      BY DEF SessionAction, setUsername, createWhiteboard, leaveWhiteboard, joinWhiteboard,
             approveOrDenyUser
    <2>2. QED
      BY <1>1, <1>2, <2>1

(* At most one request is answered by a message.                           *)
LEMMA OneIsCaused ==
  ASSUME StoresOK, NEW c \in Clients, NEW r \in Caused(c)
  PROVE  Caused(c) = {r} /\ r \in handlers[c]
  <1>1. \A q \in Caused(c) : q \in handlers[c] /\ q.id = r.id
    BY DEF Caused
  <1>2. QED
    BY <1>1 DEF StoresOK, RequestsOK

(* What is left of a request when a message was taken: nothing, and the    *)
(* stores are cleared only by a callback that does so.                     *)
LEMMA ReceiveKept ==
  ASSUME StoresOK, NEW c \in Clients, ReceiveFigure(c)
  PROVE  LET m == Head(toClient[c]).body
         IN  /\ StoresOK'
             /\ \A x \in Clients : x # c => stores'[x] = stores[x]
             /\ \/ /\ Keeps(stores[c], stores'[c])
                   /\ Keeps(storeAfterMessage(stores[c], m), stores'[c])
                \/ \E r \in Caused(c) : ClearsStores(handleMessage(clientState[c], m), r, m)
  <1> DEFINE m == Head(toClient[c]).body
             s == handleMessage(clientState[c], m)
             between == storeAfterMessage(stores[c], m)
             waiting == handlers[c] \ Caused(c)
  <1>1. StoreOK(handlers[c], stores[c]) /\ RequestsOK(handlers[c], sent[c]) /\ sent[c] \in Nat
    BY DEF StoresOK
  <1>2. StoreOK(handlers[c], between) /\ Keeps(stores[c], between)
    BY <1>1, MessageKept
  <1> HIDE DEF m, s, between
  <1>3. ASSUME NEW store, StoreOK(waiting, store), stores' = [stores EXCEPT ![c] = store]
        PROVE  /\ StoresOK' /\ stores'[c] = store
               /\ \A x \in Clients : x # c => stores'[x] = stores[x]
    <2>1. \/ handlers' = [handlers EXCEPT ![c] = waiting] /\ UNCHANGED sent
          \/ \E b \in Boards : SendAll(c, waiting, <<JoinBody(b)>>)
      BY DEF ReceiveFigure, Receive
    <2>2. waiting \subseteq handlers[c] /\ RequestsOK(waiting, sent[c])
      BY <1>1 DEF RequestsOK
    <2> HIDE DEF waiting
    <2>3. CASE handlers' = [handlers EXCEPT ![c] = waiting] /\ UNCHANGED sent
      <3>1. sent' = [sent EXCEPT ![c] = sent[c]]
        BY <2>3 DEF StoresOK
      <3>2. QED
        BY <1>1, <1>3, <2>2, <2>3, <3>1, OneStore DEF StoresOK
    <2>4. CASE \E b \in Boards : SendAll(c, waiting, <<JoinBody(b)>>)
      BY <1>3, <2>2, <2>4, AskKept DEF StoresOK
    <2>5. QED
      BY <2>1, <2>3, <2>4
  <1>4. CASE Caused(c) = {} /\ stores' = [stores EXCEPT ![c] = between]
    <2>1. waiting = handlers[c]
      BY <1>4
    <2>2. StoreOK(waiting, between) /\ Keeps(between, between)
      BY <1>2, <2>1 DEF Keeps
    <2> HIDE DEF waiting
    <2>3. /\ StoresOK' /\ stores'[c] = between
          /\ \A x \in Clients : x # c => stores'[x] = stores[x]
      BY <1>3, <1>4, <2>2
    <2>4. QED
      BY <1>2, <2>2, <2>3 DEF m, between
  <1>5. ASSUME NEW r \in Caused(c),
               stores' = [stores EXCEPT ![c] = storeAfterCallback(between, s, r, m)]
        PROVE  /\ StoresOK'
               /\ \A x \in Clients : x # c => stores'[x] = stores[x]
               /\ \/ Keeps(stores[c], stores'[c]) /\ Keeps(between, stores'[c])
                  \/ ClearsStores(s, r, m)
    <2> DEFINE new == storeAfterCallback(between, s, r, m)
    <2>1. Caused(c) = {r} /\ r \in handlers[c]
      BY <1>5, OneIsCaused
    <2>2. /\ StoreOK(handlers[c] \ {r}, new)
          /\ Keeps(between, new) \/ ClearsStores(s, r, m)
      BY <1>2, <2>1, CallbackKept
    <2>3. waiting = handlers[c] \ {r}
      BY <2>1
    <2> HIDE DEF waiting, new
    <2>4. /\ StoresOK' /\ stores'[c] = new
          /\ \A x \in Clients : x # c => stores'[x] = stores[x]
      BY <1>3, <1>5, <2>2, <2>3 DEF new
    <2>5. Keeps(between, new) => Keeps(stores[c], new)
      BY <1>2 DEF Keeps
    <2>6. QED
      BY <2>2, <2>4, <2>5
  <1>6. \/ Caused(c) = {} /\ stores' = [stores EXCEPT ![c] = between]
        \/ \E r \in Caused(c) :
             stores' = [stores EXCEPT ![c] = storeAfterCallback(between, s, r, m)]
    BY DEF ReceiveFigure, m, s, between
  <1>7. QED
    BY <1>4, <1>5, <1>6 DEF m, s, between

LEMMA TimeOutKept ==
  ASSUME StoresOK, NEW c \in Clients, TimeOutFigure(c)
  PROVE  /\ StoresOK'
         /\ \A x \in Clients : x # c => stores'[x] = stores[x]
         /\ \E r \in handlers[c] :
              /\ handlers'[c] = handlers[c] \ {r}
              /\ clientState' = [clientState EXCEPT ![c] = callback(@, r.body, Timeout)]
              /\ \/ Keeps(stores[c], stores'[c])
                 \/ ClearsStores(clientState[c], r, Timeout)
  <1>1. PICK r \in handlers[c] :
          /\ handlers' = [handlers EXCEPT ![c] = @ \ {r}]
          /\ clientState' = [clientState EXCEPT ![c] = callback(@, r.body, Timeout)]
          /\ UNCHANGED sent
    BY DEF TimeOutFigure, TimeOut
  <1> DEFINE new == storeAfterCallback(stores[c], clientState[c], r, Timeout)
  <1>2. handlers'[c] = handlers[c] \ {r}
    BY <1>1 DEF StoresOK
  <1>3. stores' = [stores EXCEPT ![c] = new]
    BY <1>2 DEF TimeOutFigure
  <1>4. StoreOK(handlers[c], stores[c]) /\ RequestsOK(handlers[c], sent[c]) /\ sent[c] \in Nat
    BY DEF StoresOK
  <1>5. /\ StoreOK(handlers[c] \ {r}, new)
        /\ Keeps(stores[c], new) \/ ClearsStores(clientState[c], r, Timeout)
    BY <1>4, CallbackKept
  <1> HIDE DEF new
  <1>6. RequestsOK(handlers[c] \ {r}, sent[c])
    BY <1>4 DEF RequestsOK
  <1>7. /\ handlers' = [handlers EXCEPT ![c] = handlers[c] \ {r}]
        /\ sent' = [sent EXCEPT ![c] = sent[c]]
    BY <1>1 DEF StoresOK
  <1>8. StoresOK'
    BY <1>3, <1>4, <1>5, <1>6, <1>7, OneStore
  <1>9. stores'[c] = new /\ \A x \in Clients : x # c => stores'[x] = stores[x]
    BY <1>3 DEF StoresOK
  <1>10. QED
    BY <1>1, <1>2, <1>5, <1>8, <1>9

(* New figures, and changes of notes that have a timeline.                 *)
LEMMA Ids == IdsOf("note") = NoteIds /\ IdsOf("line") = LineIds /\ IdsOf("image") = ImageIds
  BY DEF IdsOf, NoStore

LEMMA AddKept ==
  ASSUME StoresOK, NEW c \in Clients, AddFigure(c)
  PROVE  /\ StoresOK' /\ Keeps(stores[c], stores'[c])
         /\ \A x \in Clients : x # c => stores'[x] = stores[x]
  <1>1. \E body : ChangeOne(c, body) /\ body.case \in {"createNote", "createImage"}
    <2>1. CASE \E n \in NoteIds, position \in Coordinates, text \in Texts :
                 addNote(c, n, position, text)
      BY <2>1 DEF addNote, NewNoteBody
    <2>2. CASE \E i \in ImageIds, position \in Coordinates : addImage(c, i, position)
      BY <2>2 DEF addImage, NewImageBody
    <2>3. QED
      BY <2>1, <2>2 DEF AddFigure
  <1>2. PICK body : ChangeOne(c, body) /\ body.case \in {"createNote", "createImage"}
    BY <1>1
  <1>3. Patchable(stores[c], body)
    BY <1>2 DEF Patchable, Creates, FigureMessages
  <1>4. QED
    BY <1>2, <1>3, OneChangeKept

LEMMA ChangeNoteKept ==
  ASSUME StoresOK, NEW c \in Clients, NEW n \in NoteIds, stores[c].note[n] # NoTimeline,
         changeNote(c, n)
  PROVE  /\ StoresOK' /\ Keeps(stores[c], stores'[c])
         /\ \A x \in Clients : x # c => stores'[x] = stores[x]
  <1>1. PICK body : /\ ChangeOne(c, body) /\ body.id = n
                    /\ body.case \in {"updateNoteText", "updateNotePosition", "deleteNote"}
    <2>1. CASE \E text \in Texts : ChangeOne(c, TextBody(n, text))
      BY <2>1 DEF TextBody
    <2>2. CASE \E position \in Coordinates : ChangeOne(c, PositionBody(n, position))
      BY <2>2 DEF PositionBody
    <2>3. CASE ChangeOne(c, DeleteNoteBody(n))
      BY <2>3 DEF DeleteNoteBody
    <2>4. QED
      BY <2>1, <2>2, <2>3 DEF changeNote
  <1>2. StoreOf(body) = "note"
    BY <1>1 DEF StoreOf
  <1>3. Patchable(stores[c], body)
    BY <1>1, <1>2, Ids DEF Patchable, HasTimeline, Kinds, FigureMessages
  <1>4. QED
    BY <1>1, <1>3, OneChangeKept

(* Of a figure that is shown something is known.                           *)
LEMMA ShownIsKnown ==
  ASSUME NEW store, NEW id
  PROVE  /\ getEffectiveNote(store, id) # NoFigure => store.note[id] # NoTimeline
         /\ getEffectiveLine(store, id) # NoFigure => store.line[id] # NoTimeline
  BY DEF getEffectiveNote, getEffectiveLine

LEMMA OtherStepsKeep ==
  ASSUME NEW c \in Clients, ConnectionEvent(c) \/ HandleFigure(c) \/ SocketStep(c)
  PROVE  SameStores
  BY DEF ConnectionEvent, HandleFigure, SocketStep, SameStores, Connected, Disconnected,
         Handled, SocketEvent, browserVars

LEMMA AppStepKept ==
  ASSUME StoresOK, NEW c \in Clients, AppStep(c)
  PROVE  StoresOK'
  <1>1. CASE SessionAction(c)
    BY <1>1, ButtonsKept
  <1>2. CASE ReceiveFigure(c)
    BY <1>2, ReceiveKept
  <1>3. CASE TimeOutFigure(c)
    BY <1>3, TimeOutKept
  <1>4. CASE ConnectionEvent(c) \/ HandleFigure(c) \/ SocketStep(c)
    BY <1>4, OtherStepsKeep, StoresStay
  <1>5. QED
    BY <1>1, <1>2, <1>3, <1>4 DEF AppStep

LEMMA FigureActionKept ==
  ASSUME StoresOK, NEW c \in Clients, FigureAction(c)
  PROVE  /\ StoresOK' /\ Keeps(stores[c], stores'[c])
         /\ \A x \in Clients : x # c => stores'[x] = stores[x]
  <1>1. CASE AddFigure(c)
    BY <1>1, AddKept
  <1>2. CASE \E n \in NoteIds : ShowsBoard(c) /\ ShownNote(c, n) # NoFigure /\ changeNote(c, n)
    <2>1. PICK n \in NoteIds : ShownNote(c, n) # NoFigure /\ changeNote(c, n)
      BY <1>2
    <2>2. stores[c].note[n] # NoTimeline
      BY <2>1, ShownIsKnown DEF ShownNote
    <2>3. QED
      BY <2>1, <2>2, ChangeNoteKept
  <1>3. QED
    BY <1>1, <1>2 DEF FigureAction

LEMMA AppInitStores == AppInit => StoresOK
  <1> SUFFICES ASSUME AppInit PROVE StoresOK
    OBVIOUS
  <1>1. stores = [c \in Clients |-> NoStore] /\ handlers = [c \in Clients |-> {}]
        /\ sent = [c \in Clients |-> 0]
    BY DEF AppInit, ClientInit, BrowsersAreNew
  <1>2. \A c \in Clients : stores[c] = NoStore /\ handlers[c] = {} /\ sent[c] = 0
    BY <1>1
  <1>3. RequestsOK({}, 0)
    BY DEF RequestsOK
  <1>4. /\ stores = [c \in Clients |-> stores[c]] /\ handlers = [c \in Clients |-> handlers[c]]
        /\ sent \in [Clients -> Nat]
    BY <1>1, <1>2
  <1>5. QED
    BY <1>2, <1>3, <1>4, NoStoreOK DEF StoresOK

LEMMA AppNextStores == StoresOK /\ [AppNext]_appVars => StoresOK'
  <1> SUFFICES ASSUME StoresOK, [AppNext]_appVars PROVE StoresOK'
    OBVIOUS
  <1>1. CASE UNCHANGED appVars
    <2>1. SameStores
      BY <1>1 DEF appVars, clientVars, browserVars, SameStores
    <2>2. QED
      BY <2>1, StoresStay
  <1>2. CASE AppNext
    BY <1>2, AppStepKept, FigureActionKept DEF AppNext
  <1>3. QED
    BY <1>1, <1>2

(* The patches of figures wait for their requests.                         *)
LEMMA PatchesOfStores == StoresOK => PatchesWait
  <1> SUFFICES ASSUME StoresOK, NEW c \in Clients, NEW kind \in Kinds,
                      NEW id \in DOMAIN stores[c][kind],
                      stores[c][kind][id] # NoTimeline,
                      NEW k \in DOMAIN stores[c][kind][id].patches
               PROVE  Waits(c, stores[c][kind][id].patches[k].id)
    BY DEF PatchesWait, Kinds
  <1> DEFINE patches == stores[c][kind][id].patches
             ids == About(handlers[c], kind, id)
  <1>1. StoreShape(stores[c])
    BY DEF StoresOK, StoreOK
  <1>2. id \in IdsOf(kind)
    BY <1>1 DEF StoreShape
  <1>3. EntryOK(stores[c][kind][id], ids)
    BY <1>2 DEF StoresOK, StoreOK
  <1>4. PICK D : patches \in Seq([id : ids, diff : D])
    BY <1>3 DEF EntryOK, Timeline
  <1> HIDE DEF patches, ids
  <1>5. patches[k] \in [id : ids, diff : D]
    <2> DEFINE A == [id : ids, diff : D]
    <2>1. patches \in Seq(A) /\ k \in DOMAIN patches
      BY <1>4 DEF patches
    <2> HIDE DEF A
    <2>2. patches[k] \in A
      BY <2>1
    <2>3. QED
      BY <2>2 DEF A
  <1>6. patches[k].id \in ids
    BY <1>5
  <1>7. QED
    BY <1>6 DEF patches, ids, About, Waits

(* Every patch of every timeline belongs to a request that still waits,    *)
(* whose callback is going to discard it: no change that was refused or    *)
(* lost is shown for ever (discardPatch in the controllers).               *)
THEOREM PatchesAlwaysWait == AppSpec => []PatchesWait
  <1>1. AppSpec => []StoresOK
    BY AppInitStores, AppNextStores, PTL DEF AppSpec
  <1>2. QED
    BY <1>1, PatchesOfStores, PTL
-----------------------------------------------------------------------------
(* Screens.                                                                *)

(* An editor is there while a whiteboard is on the screen, and draws only  *)
(* notes of which something is known.                                      *)
EditorOK(c) ==
  /\ {"editor", "copy", "due", "missed", "loading"} \subseteq DOMAIN screen[c]
  /\ DOMAIN screen[c].copy = Kinds
  /\ screen[c].editor = "none" <=> ~ShowsBoard(c)
  /\ screen[c].editor # "none" =>
       \A n \in NoteIds : screen[c].copy.note[n] # NoFigure => stores[c].note[n] # NoTimeline
ScreensOK ==
  /\ DOMAIN clientState = Clients /\ DOMAIN screen = Viewers
  /\ \A c \in Viewers : EditorOK(c)

LEMMA ShowIs ==
  ASSUME NEW editor, NEW store
  PROVE  LET s == Show(editor, Effective(store))
         IN  /\ {"editor", "copy", "due", "missed", "loading"} \subseteq DOMAIN s
             /\ DOMAIN s.copy = Kinds
             /\ s.editor = editor
             /\ \A n \in NoteIds : s.copy.note[n] # NoFigure => store.note[n] # NoTimeline
  <1> DEFINE s == Show(editor, Effective(store))
             e == Effective(store)
  <1>1. DOMAIN e = Kinds /\ e.note = [n \in NoteIds |-> getEffectiveNote(store, n)]
    BY DEF Effective, Kinds
  <1> HIDE DEF e
  <1>2. \A n \in NoteIds : e.note[n] # NoFigure => store.note[n] # NoTimeline
    BY <1>1, ShownIsKnown
  <1>3. /\ {"editor", "copy", "due", "missed", "loading"} \subseteq DOMAIN s
        /\ s.editor = editor /\ s.copy = e
    BY DEF Show, e
  <1>4. QED
    BY <1>1, <1>2, <1>3

(* What is handed out to a component that listens takes the place of what  *)
(* it drew.                                                                *)
LEMMA HandOutIs ==
  ASSUME NEW s, {"editor", "copy", "due", "missed", "loading"} \subseteq DOMAIN s,
         DOMAIN s.copy = Kinds, NEW kinds, NEW new, NEW called, NEW ran
  PROVE  LET h == Served(s, kinds, new, called, ran)
         IN  /\ {"editor", "copy", "due", "missed", "loading"} \subseteq DOMAIN h
             /\ DOMAIN h.copy = Kinds
             /\ h.editor = s.editor
             /\ h.copy.note \in {new.note, s.copy.note}
  <1> DEFINE h == Served(s, kinds, new, called, ran)
             g == HandOut(s, kinds, new)
  <1>1. CASE s.editor # "listening"
    <2>1. g = [s EXCEPT !.missed = @ \cup kinds]
      BY <1>1 DEF HandOut
    <2>2. DOMAIN g = DOMAIN s /\ g.copy = s.copy /\ g.editor = s.editor
      BY <2>1
    <2> HIDE DEF g
    <2>3. DOMAIN h = DOMAIN s /\ h.copy = s.copy /\ h.editor = s.editor
      BY <2>2 DEF g, Served
    <2>4. QED
      BY <2>3
  <1>2. CASE s.editor = "listening"
    <2> DEFINE copy == [k \in Kinds |-> IF k \in kinds THEN new[k] ELSE s.copy[k]]
    <2>1. g = [s EXCEPT !.copy = copy, !.missed = @ \ kinds,
                        !.loading = IF "image" \in kinds THEN renderImages(@, new.image) ELSE @]
      BY <1>2 DEF HandOut
    <2>2. DOMAIN copy = Kinds /\ copy.note \in {new.note, s.copy.note}
      BY DEF Kinds
    <2> HIDE DEF copy
    <2>3. DOMAIN g = DOMAIN s /\ g.copy = copy /\ g.editor = s.editor
      BY <2>1
    <2> HIDE DEF g
    <2>4. DOMAIN h = DOMAIN s /\ h.copy = copy /\ h.editor = s.editor
      BY <2>3 DEF g, Served
    <2>5. QED
      BY <2>2, <2>4
  <1>3. QED
    BY <1>1, <1>2

(* The screen after an event of c, in which no figure that was or is on    *)
(* the way to it lost its timeline.                                        *)
LEMMA Redrawn ==
  ASSUME ScreensOK, NEW c \in Clients, NEW first, NEW second, NEW between,
         Redraw(c, first, between, second),
         DOMAIN clientState' = Clients,
         \A x \in Clients : x # c => stores'[x] = stores[x] /\ clientState'[x] = clientState[x],
         ShowsBoard(c) /\ ShowsBoard(c)' =>
           Keeps(stores[c], stores'[c]) /\ Keeps(between, stores'[c])
  PROVE  ScreensOK'
  <1> DEFINE old == screen[c]
  <1>1. CASE c \notin Viewers
    <2>1. screen' = screen
      BY <1>1 DEF Redraw
    <2>2. QED
      BY <1>1, <2>1, ScreenAssumption DEF ScreensOK, EditorOK, ShowsBoard
  <1>2. CASE c \in Viewers
    <2>1. EditorOK(c)
      BY <1>2 DEF ScreensOK
    <2> SUFFICES ASSUME NEW s, screen' = [screen EXCEPT ![c] = s],
                        {"editor", "copy", "due", "missed", "loading"} \subseteq DOMAIN s,
                        DOMAIN s.copy = Kinds,
                        s.editor = "none" <=> ~ShowsBoard(c)',
                        s.editor # "none" =>
                          \A n \in NoteIds : s.copy.note[n] # NoFigure
                                               => stores'[c].note[n] # NoTimeline
                 PROVE  ScreensOK'
      <3>1. CASE ~ShowsBoard(c)'
        <4>1. screen' = [screen EXCEPT ![c] = NoEditor]
          BY <1>2, <3>1 DEF Redraw
        <4> DEFINE s == NoEditor
        <4>2. /\ {"editor", "copy", "due", "missed", "loading"} \subseteq DOMAIN s
              /\ DOMAIN s.copy = Kinds /\ s.editor = "none"
          BY ShowIs DEF NoEditor
        <4> HIDE DEF s
        <4>3. screen' = [screen EXCEPT ![c] = s]
          BY <4>1 DEF s
        <4>4. QED
          BY <3>1, <4>2, <4>3
      <3>2. CASE ShowsBoard(c)' /\ old.editor = "none"
        <4> DEFINE s == Show("rendered", Effective(stores'[c]))
        <4>1. screen' = [screen EXCEPT ![c] = s]
          BY <1>2, <3>2 DEF Redraw, FirstCopies
        <4>2. /\ {"editor", "copy", "due", "missed", "loading"} \subseteq DOMAIN s
              /\ DOMAIN s.copy = Kinds /\ s.editor = "rendered"
              /\ \A n \in NoteIds : s.copy.note[n] # NoFigure => stores'[c].note[n] # NoTimeline
          BY ShowIs
        <4> HIDE DEF s
        <4>3. QED
          BY <3>2, <4>1, <4>2
      <3>3. CASE ShowsBoard(c)' /\ old.editor # "none"
        <4>1. Update(c, first, between, second)
          BY <1>2, <3>3 DEF Redraw
        <4>2. PICK late \in SUBSET (first \cup second) :
                \E early \in SUBSET ((first \cap second) \ late) :
                  LET new == [k \in Kinds |->
                                Effective(IF k \in early THEN between ELSE stores'[c])[k]]
                  IN  screen' = [screen EXCEPT ![c] =
                        Served(@, late \cup early, new, first \cup second, late)]
          BY <4>1 DEF Update
        <4>3. PICK early \in SUBSET ((first \cap second) \ late) :
                  LET new == [k \in Kinds |->
                                Effective(IF k \in early THEN between ELSE stores'[c])[k]]
                  IN  screen' = [screen EXCEPT ![c] =
                        Served(@, late \cup early, new, first \cup second, late)]
          BY <4>2
        <4> DEFINE new == [k \in Kinds |->
                             Effective(IF k \in early THEN between ELSE stores'[c])[k]]
                   kinds == late \cup early
                   s == Served(old, kinds, new, first \cup second, late)
        <4>4. screen' = [screen EXCEPT ![c] = s]
          BY <4>3
        <4>5. new.note \in {Effective(between).note, Effective(stores'[c]).note}
          BY DEF Kinds
        <4> HIDE DEF new, kinds
        <4>6. /\ {"editor", "copy", "due", "missed", "loading"} \subseteq DOMAIN s
              /\ DOMAIN s.copy = Kinds
              /\ s.editor = old.editor
              /\ s.copy.note \in {new.note, old.copy.note}
          BY <2>1, HandOutIs DEF EditorOK
        <4>7. Keeps(stores[c], stores'[c]) /\ Keeps(between, stores'[c])
          BY <2>1, <3>3 DEF EditorOK
        <4>8. ASSUME NEW n \in NoteIds
              PROVE  /\ old.copy.note[n] # NoFigure => stores'[c].note[n] # NoTimeline
                     /\ Effective(between).note[n] # NoFigure => stores'[c].note[n] # NoTimeline
                     /\ Effective(stores'[c]).note[n] # NoFigure
                          => stores'[c].note[n] # NoTimeline
          <5>1. old.copy.note[n] # NoFigure => stores[c].note[n] # NoTimeline
            BY <2>1, <3>3 DEF EditorOK
          <5>2. \A store : Effective(store).note[n] # NoFigure => store.note[n] # NoTimeline
            BY ShownIsKnown DEF Effective
          <5>3. QED
            BY <4>7, <5>1, <5>2, Ids DEF Keeps, Kinds
        <4> HIDE DEF s
        <4>9. QED
          BY <3>3, <4>4, <4>5, <4>6, <4>8
      <3>4. QED
        BY <3>1, <3>2, <3>3
    <2>2. screen'[c] = s /\ \A x \in Viewers : x # c => screen'[x] = screen[x]
      BY <1>2 DEF ScreensOK
    <2>3. DOMAIN screen' = Viewers
      BY DEF ScreensOK
    <2>4. EditorOK(c)'
      BY <2>2 DEF EditorOK
    <2>5. ASSUME NEW x \in Viewers, x # c PROVE EditorOK(x)'
      <3>1. EditorOK(x) /\ screen'[x] = screen[x] /\ stores'[x] = stores[x]
            /\ clientState'[x] = clientState[x]
        BY <2>2, <2>5, ScreenAssumption DEF ScreensOK
      <3>2. QED
        BY <3>1 DEF EditorOK, ShowsBoard
    <2>6. QED
      BY <2>3, <2>4, <2>5 DEF ScreensOK
  <1>3. QED
    BY <1>1, <1>2

(* Whoever's stores are cleared shows no whiteboard before or after.       *)
LEMMA LeavingIsSeen ==
  ASSUME NEW s, NEW r, NEW m, ClearsStores(s, r, m)
  PROVE  \/ r.body.case = "leaveWhiteboard" /\ callback(s, r.body, m) = Screen("NO_WHITEBOARD")
         \/ s.state = "NO_WHITEBOARD" /\ m.type = "whiteboardCreated"
  BY DEF ClearsStores, callback

(* What the steps of c do to the screens of browsers.                      *)
MovesOne(c) ==
  /\ DOMAIN clientState' = DOMAIN clientState
  /\ \A x \in Clients : x # c => clientState'[x] = clientState[x]

LEMMA ReceiveMoves ==
  ASSUME DOMAIN clientState = Clients, NEW c \in Clients, StoresOK, ReceiveFigure(c)
  PROVE  /\ MovesOne(c)
         /\ \A r \in Caused(c) :
              LET m == Head(toClient[c]).body
              IN  clientState'[c] = callback(handleMessage(clientState[c], m), r.body, m)
  <1> DEFINE m == Head(toClient[c]).body
  <1>1. \/ Caused(c) = {} /\ clientState' = [clientState EXCEPT ![c] = handleMessage(@, m)]
        \/ \E r \in Caused(c) :
             clientState' = [clientState EXCEPT ![c] = callback(handleMessage(@, m), r.body, m)]
    BY DEF ReceiveFigure, Receive
  <1> HIDE DEF m
  <1>2. CASE Caused(c) = {} /\ clientState' = [clientState EXCEPT ![c] = handleMessage(@, m)]
    BY <1>2 DEF MovesOne
  <1>3. ASSUME NEW r \in Caused(c),
               clientState' = [clientState EXCEPT ![c] = callback(handleMessage(@, m), r.body, m)]
        PROVE  /\ MovesOne(c)
               /\ \A q \in Caused(c) :
                    clientState'[c] = callback(handleMessage(clientState[c], m), q.body, m)
    <2>1. \A q \in Caused(c) : q = r
      BY OneIsCaused
    <2>2. MovesOne(c)
      BY <1>3 DEF MovesOne
    <2>3. clientState'[c] = callback(handleMessage(clientState[c], m), r.body, m)
      BY <1>3
    <2>4. QED
      BY <2>1, <2>2, <2>3
  <1>4. QED
    BY <1>1, <1>2, <1>3 DEF m

LEMMA ReceiveClears ==
  ASSUME DOMAIN clientState = Clients, NEW c \in Clients, StoresOK, ReceiveFigure(c),
         ShowsBoard(c), ShowsBoard(c)'
  PROVE  /\ Keeps(stores[c], stores'[c])
         /\ Keeps(storeAfterMessage(stores[c], Head(toClient[c]).body), stores'[c])
  <1> DEFINE m == Head(toClient[c]).body
             s == handleMessage(clientState[c], m)
  <1>1. ASSUME NEW r \in Caused(c), ClearsStores(s, r, m) PROVE FALSE
    <2>1. CASE r.body.case = "leaveWhiteboard" /\ callback(s, r.body, m) = Screen("NO_WHITEBOARD")
      <3>1. clientState'[c] = Screen("NO_WHITEBOARD")
        BY <2>1, ReceiveMoves
      <3>2. QED
        BY <3>1 DEF ShowsBoard, Screen, On
    <2>2. CASE s.state = "NO_WHITEBOARD" /\ m.type = "whiteboardCreated"
      <3>1. s = clientState[c]
        BY <2>2 DEF handleMessage
      <3>2. QED
        BY <2>2, <3>1 DEF ShowsBoard
    <2> HIDE DEF m, s
    <2>3. QED
      BY <1>1, <2>1, <2>2, LeavingIsSeen
  <1>2. QED
    BY <1>1, ReceiveKept

LEMMA TimeOutClears ==
  ASSUME DOMAIN clientState = Clients, NEW c \in Clients, StoresOK, TimeOutFigure(c)
  PROVE  MovesOne(c) /\ (ShowsBoard(c)' => Keeps(stores[c], stores'[c]))
  <1>1. PICK r \in handlers[c] :
              /\ clientState' = [clientState EXCEPT ![c] = callback(@, r.body, Timeout)]
              /\ \/ Keeps(stores[c], stores'[c])
                 \/ ClearsStores(clientState[c], r, Timeout)
    BY TimeOutKept
  <1>2. ASSUME ClearsStores(clientState[c], r, Timeout) PROVE ~ShowsBoard(c)'
    <2>1. Timeout.type # "whiteboardCreated"
      BY DEF Timeout, Plain
    <2>2. callback(clientState[c], r.body, Timeout) = Screen("NO_WHITEBOARD")
      BY <1>2, <2>1, LeavingIsSeen
    <2>3. clientState'[c] = Screen("NO_WHITEBOARD")
      BY <1>1, <2>2
    <2>4. QED
      BY <2>3 DEF ShowsBoard, Screen, On
  <1>3. MovesOne(c)
    BY <1>1 DEF MovesOne
  <1>4. QED
    BY <1>1, <1>2, <1>3

LEMMA ButtonsClear ==
  ASSUME DOMAIN clientState = Clients, NEW c \in Clients, StoresOK, SessionAction(c)
  PROVE  MovesOne(c) /\ (ShowsBoard(c)' => Keeps(stores[c], stores'[c]))
  <1>1. CASE exitEndedSession(c)
    <2>1. clientState' = [clientState EXCEPT ![c] = Screen("NO_WHITEBOARD")]
      BY <1>1 DEF exitEndedSession
    <2>2. QED
      BY <2>1 DEF MovesOne, ShowsBoard, Screen, On
  <1>2. CASE \E body : Press(c, body)
    <2>1. UNCHANGED clientState
      BY <1>2 DEF Press, PressAll
    <2>2. MovesOne(c)
      BY <2>1 DEF MovesOne
    <2>3. CASE stores' = stores
      BY <2>2, <2>3 DEF Keeps
    <2>4. CASE exitEndedSession(c)
      BY <1>1, <2>4
    <2>5. QED
      BY <2>3, <2>4, ButtonsKept
  <1>3. exitEndedSession(c) \/ \E body : Press(c, body)
    BY DEF SessionAction, setUsername, createWhiteboard, leaveWhiteboard, joinWhiteboard,
           approveOrDenyUser
  <1>4. QED
    BY <1>1, <1>2, <1>3

LEMMA ConnectionClears ==
  ASSUME DOMAIN clientState = Clients, NEW c \in Clients, ConnectionEvent(c)
  PROVE  MovesOne(c) /\ stores' = stores /\ ~ShowsBoard(c)'
  <1>1. /\ stores' = stores
        /\ \/ clientState' = [clientState EXCEPT ![c] = Screen("ANONYMOUS")]
           \/ clientState' = [clientState EXCEPT ![c] = Screen("DISCONNECTED")]
    BY DEF ConnectionEvent, Connected, Disconnected
  <1>2. QED
    BY <1>1 DEF MovesOne, ShowsBoard, Screen, On

LEMMA EditMoves ==
  ASSUME NEW c \in Clients,
         FigureAction(c) \/ AddFigure(c) \/ \E n \in NoteIds : changeNote(c, n)
  PROVE  UNCHANGED clientState
  <1>1. CASE \E body : ChangeOne(c, body)
    BY <1>1 DEF ChangeOne, Change, PressAll
  <1>2. QED
    BY <1>1 DEF FigureAction, AddFigure, addNote, addImage, changeNote

(* The steps of Screen.                                                    *)
LEMMA EditKeepsScreens ==
  ASSUME StoresOK, ScreensOK, NEW c \in Clients, Edit(c)
  PROVE  StoresOK' /\ ScreensOK'
  <1>1. /\ StoresOK' /\ Keeps(stores[c], stores'[c])
        /\ \A x \in Clients : x # c => stores'[x] = stores[x]
        /\ UNCHANGED clientState
    <2>1. CASE AddFigure(c)
      BY <2>1, AddKept, EditMoves
    <2>2. CASE changeShownNote(c)
      <3>1. PICK n \in NoteIds :
              /\ IF c \in Viewers THEN screen[c].copy.note[n] # NoFigure
                 ELSE ShownNote(c, n) # NoFigure
              /\ changeNote(c, n)
        BY <2>2 DEF changeShownNote
      <3>2. stores[c].note[n] # NoTimeline
        <4>1. CASE c \in Viewers
          BY <2>2, <3>1, <4>1 DEF ScreensOK, EditorOK, changeShownNote
        <4>2. CASE c \notin Viewers
          BY <3>1, <4>2, ShownIsKnown DEF ShownNote
        <4>3. QED
          BY <4>1, <4>2
      <3>3. QED
        BY <3>1, <3>2, ChangeNoteKept, EditMoves
    <2>3. QED
      BY <2>1, <2>2 DEF Edit
  <1>2. Redraw(c, {}, stores[c], Touched(c))
    BY DEF Edit
  <1>3. ScreensOK'
    BY <1>1, <1>2, Redrawn DEF ScreensOK
  <1>4. QED
    BY <1>1, <1>3

LEMMA PressKeepsScreens ==
  ASSUME StoresOK, ScreensOK, NEW c \in Clients, PressButton(c)
  PROVE  StoresOK' /\ ScreensOK'
  <1>1. DOMAIN clientState = Clients /\ Redraw(c, {}, stores[c], {})
    BY DEF ScreensOK, PressButton
  <1>2. /\ StoresOK' /\ MovesOne(c)
        /\ \A x \in Clients : x # c => stores'[x] = stores[x]
        /\ ShowsBoard(c)' => Keeps(stores[c], stores'[c])
    <2>1. CASE SessionAction(c)
      BY <1>1, <2>1, ButtonsKept, ButtonsClear
    <2>2. CASE ConnectionEvent(c)
      BY <1>1, <2>2, ConnectionClears, OtherStepsKeep, StoresStay
    <2>3. QED
      BY <2>1, <2>2 DEF PressButton
  <1>3. ScreensOK'
    BY <1>1, <1>2, Redrawn DEF MovesOne
  <1>4. QED
    BY <1>2, <1>3

LEMMA ReceiveKeepsScreens ==
  ASSUME StoresOK, ScreensOK, NEW c \in Clients, ReceiveAndRedraw(c)
  PROVE  StoresOK' /\ ScreensOK'
  <1> DEFINE m == Head(toClient[c]).body
             between == storeAfterMessage(stores[c], m)
             second == UNION {CallbackUpdates(handleMessage(clientState[c], m), r, m)
                                : r \in Caused(c)}
  <1>1. DOMAIN clientState = Clients /\ ReceiveFigure(c)
    BY DEF ScreensOK, ReceiveAndRedraw
  <1>2. Redraw(c, MessageUpdates(m), between, second)
    BY DEF ReceiveAndRedraw
  <1>3. /\ StoresOK' /\ MovesOne(c)
        /\ \A x \in Clients : x # c => stores'[x] = stores[x]
    BY <1>1, ReceiveKept, ReceiveMoves
  <1>4. ShowsBoard(c) /\ ShowsBoard(c)' =>
          Keeps(stores[c], stores'[c]) /\ Keeps(between, stores'[c])
    BY <1>1, ReceiveClears
  <1> HIDE DEF m, between, second
  <1>5. ScreensOK'
    BY <1>1, <1>2, <1>3, <1>4, Redrawn DEF MovesOne
  <1>6. QED
    BY <1>3, <1>5

LEMMA TimeOutKeepsScreens ==
  ASSUME StoresOK, ScreensOK, NEW c \in Clients, TimeOutAndRedraw(c)
  PROVE  StoresOK' /\ ScreensOK'
  <1> DEFINE second == UNION {CallbackUpdates(clientState[c], r, Timeout) :
                                r \in handlers[c] \ handlers'[c]}
  <1>1. DOMAIN clientState = Clients /\ TimeOutFigure(c) /\ Redraw(c, {}, stores[c], second)
    BY DEF ScreensOK, TimeOutAndRedraw
  <1>2. /\ StoresOK' /\ MovesOne(c)
        /\ \A x \in Clients : x # c => stores'[x] = stores[x]
        /\ ShowsBoard(c)' => Keeps(stores[c], stores'[c])
    BY <1>1, TimeOutKept, TimeOutClears
  <1> HIDE DEF second
  <1>3. ScreensOK'
    BY <1>1, <1>2, Redrawn DEF MovesOne
  <1>4. QED
    BY <1>2, <1>3

(* What a screen does by itself hands out what the stores hold.            *)
LEMMA ScreenItself ==
  ASSUME ScreensOK, NEW c \in Viewers, useEffect(c) \/ TrailingCall(c) \/ Paint(c)
  PROVE  ScreensOK'
  <1> DEFINE old == screen[c]
  <1>1. UNCHANGED <<stores, clientState>>
    BY DEF useEffect, TrailingCall, Paint, appVars, clientVars, browserVars
  <1>2. EditorOK(c) /\ DOMAIN screen = Viewers
    BY DEF ScreensOK
  <1> SUFFICES ASSUME NEW s, screen' = [screen EXCEPT ![c] = s],
                      {"editor", "copy", "due", "missed", "loading"} \subseteq DOMAIN s,
                      DOMAIN s.copy = Kinds,
                      s.editor = "none" <=> old.editor = "none",
                      s.copy.note \in {old.copy.note, Effective(stores[c]).note}
               PROVE  ScreensOK'
    <2>1. CASE useEffect(c)
      <3> DEFINE list == renderImages(old.loading, old.copy.image)
                 s == [old EXCEPT !.editor = "listening", !.loading = list]
      <3>1. screen' = [screen EXCEPT ![c] = s] /\ old.editor = "rendered"
        BY <1>2, <2>1 DEF useEffect
      <3>2. DOMAIN s = DOMAIN old /\ s.editor = "listening" /\ s.copy = old.copy
        BY <1>2 DEF EditorOK
      <3> HIDE DEF s, old
      <3>3. QED
        BY <1>2, <3>1, <3>2 DEF EditorOK, old
    <2>2. CASE TrailingCall(c)
      <3>1. PICK k : screen' = [screen EXCEPT ![c] =
                                  Served(@, {k}, Effective(stores[c]), {}, {k})]
        BY <2>2 DEF TrailingCall
      <3> DEFINE s == Served(old, {k}, Effective(stores[c]), {}, {k})
      <3>2. screen' = [screen EXCEPT ![c] = s]
        BY <3>1
      <3>3. /\ {"editor", "copy", "due", "missed", "loading"} \subseteq DOMAIN s
            /\ DOMAIN s.copy = Kinds /\ s.editor = old.editor
            /\ s.copy.note \in {Effective(stores[c]).note, old.copy.note}
        BY <1>2, HandOutIs DEF EditorOK
      <3> HIDE DEF s
      <3>4. QED
        BY <3>2, <3>3
    <2>3. CASE Paint(c)
      <3>1. PICK p, o, l : screen' = [screen EXCEPT ![c].painted = p, ![c].overtaken = o,
                                                    ![c].loading = l]
        BY <2>3 DEF Paint
      <3> DEFINE s == [old EXCEPT !.painted = p, !.overtaken = o, !.loading = l]
      <3>2. screen' = [screen EXCEPT ![c] = s]
        BY <1>2, <3>1
      <3>3. DOMAIN s = DOMAIN old /\ s.editor = old.editor /\ s.copy = old.copy
        BY <1>2 DEF EditorOK
      <3> HIDE DEF s, old
      <3>4. QED
        BY <1>2, <3>2, <3>3 DEF EditorOK, old
    <2>4. QED
      BY <2>1, <2>2, <2>3
  <1>3. screen'[c] = s /\ \A x \in Viewers : x # c => screen'[x] = screen[x]
    BY <1>2
  <1>4. \A n \in NoteIds : Effective(stores[c]).note[n] # NoFigure => stores[c].note[n] # NoTimeline
    BY ShownIsKnown DEF Effective
  <1> HIDE DEF old
  <1>5. EditorOK(c)'
    BY <1>1, <1>2, <1>3, <1>4 DEF EditorOK, ShowsBoard, old
  <1>6. \A x \in Viewers : x # c => EditorOK(x)'
    BY <1>1, <1>3 DEF EditorOK, ShowsBoard, ScreensOK
  <1>7. DOMAIN screen' = Viewers /\ DOMAIN clientState' = Clients
    BY <1>1, <1>2 DEF ScreensOK
  <1>8. QED
    BY <1>5, <1>6, <1>7 DEF ScreensOK

LEMMA ScreenInitOK == ScreenInit => StoresOK /\ ScreensOK
  <1> SUFFICES ASSUME ScreenInit PROVE StoresOK /\ ScreensOK
    OBVIOUS
  <1>1. StoresOK
    BY AppInitStores DEF ScreenInit
  <1>2. clientState = [c \in Clients |-> Screen("CONNECTING")]
    BY DEF ScreenInit, AppInit, ClientInit
  <1>3. \A c \in Clients : ~ShowsBoard(c)
    BY <1>2 DEF ShowsBoard, Screen, On
  <1>4. DOMAIN screen = Viewers /\ \A c \in Viewers : screen[c] = NoEditor
    BY <1>3, ScreenAssumption DEF ScreenInit, ScreensAreNew, NewScreen
  <1>5. LET s == NoEditor
        IN  /\ {"editor", "copy", "due", "missed", "loading"} \subseteq DOMAIN s
            /\ DOMAIN s.copy = Kinds /\ s.editor = "none"
    BY ShowIs DEF NoEditor
  <1>6. \A c \in Viewers : EditorOK(c)
    BY <1>3, <1>4, <1>5, ScreenAssumption DEF EditorOK
  <1>7. QED
    BY <1>1, <1>2, <1>4, <1>6 DEF ScreensOK

LEMMA ScreenNextOK ==
  StoresOK /\ ScreensOK /\ [ScreenNext]_screenVars => StoresOK' /\ ScreensOK'
  <1> SUFFICES ASSUME StoresOK, ScreensOK, [ScreenNext]_screenVars PROVE StoresOK' /\ ScreensOK'
    OBVIOUS
  <1>1. ASSUME SameStores, UNCHANGED <<clientState, screen>> PROVE StoresOK' /\ ScreensOK'
    <2>1. ScreensOK'
      BY <1>1 DEF ScreensOK, EditorOK, ShowsBoard, SameStores
    <2>2. QED
      BY <1>1, <2>1, StoresStay
  <1>2. CASE UNCHANGED screenVars
    BY <1>1, <1>2 DEF screenVars, appVars, clientVars, browserVars, SameStores
  <1>3. ASSUME NEW c \in Clients, Elsewhere(c) PROVE StoresOK' /\ ScreensOK'
    <2>1. UNCHANGED <<clientState, screen>>
      BY <1>3 DEF Elsewhere, HandleFigure, SocketStep, SocketEvent, Handled, browserVars
    <2>2. SameStores
      BY <1>3, OtherStepsKeep DEF Elsewhere
    <2>3. QED
      BY <1>1, <2>1, <2>2
  <1>4. ASSUME NEW c \in Viewers, useEffect(c) \/ TrailingCall(c) \/ Paint(c)
        PROVE  StoresOK' /\ ScreensOK'
    <2>1. SameStores
      BY <1>4 DEF useEffect, TrailingCall, Paint, appVars, clientVars, browserVars, SameStores
    <2>2. QED
      BY <1>4, <2>1, StoresStay, ScreenItself
  <1>5. QED
    BY <1>2, <1>3, <1>4, EditKeepsScreens, PressKeepsScreens, ReceiveKeepsScreens,
       TimeOutKeepsScreens DEF ScreenNext

LEMMA ScreensAlwaysOK == ScreenSpec => [](StoresOK /\ ScreensOK)
  BY ScreenInitOK, ScreenNextOK, PTL DEF ScreenSpec

(* A note that a user can type in, drag or delete is one that the store    *)
(* knows, however late the components follow it and whenever the stores    *)
(* are cleared, so that the controllers of notes never throw.              *)
THEOREM ShownNotesAlwaysHaveTimelines == ScreenSpec => []ShownNotesHaveTimelines
  <1>1. ScreensOK => ShownNotesHaveTimelines
    BY DEF ScreensOK, EditorOK, ShownNotesHaveTimelines
  <1>2. QED
    BY <1>1, ScreensAlwaysOK, PTL

(* The patches wait for their requests in front of screens that lag        *)
(* behind, too.                                                            *)
THEOREM PatchesWaitBehindScreens == ScreenSpec => []PatchesWait
  BY ScreensAlwaysOK, PatchesOfStores, PTL
=============================================================================
