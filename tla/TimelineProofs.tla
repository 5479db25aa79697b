---------------------------- MODULE TimelineProofs -----------------------------
(***************************************************************************)
(* Proofs about timelines with any number of patches: what is shown is the *)
(* patches applied one after the other, and the answer to the oldest patch *)
(* changes nothing of what is shown.                                       *)
(***************************************************************************)
EXTENDS MCTimelines, PatchProofs
-----------------------------------------------------------------------------
(* Folds, one step at a time.                                              *)

(* The changes of a note are applied from the oldest on.                   *)
LEMMA OntoByStep ==
  ASSUME NEW S, NEW s \in Seq(S), NEW base
  PROVE  \E g : /\ g[0] = base
                /\ \A n \in Nat : n < Len(s) =>
                     g[n + 1] = Onto(g[n], s[n + 1])
                /\ FoldLeft(Onto, base, s) = g[Len(s)]
  <1> DEFINE Step(g, t) ==
               IF t = {} THEN base
               ELSE LET n == Max(t) IN Onto(g[t \ {n}], s[n])
             Fun(n, g) == g = [t \in SUBSET (1..n) |-> Step(g, t)]
             F == CHOOSE g : g = [t \in SUBSET DOMAIN s |-> Step(g, t)]
  <1>1. FoldLeft(Onto, base, s) = F[DOMAIN s]
    BY DEF FoldLeft, MapThenFoldSet
  <1>2. DOMAIN s = 1..Len(s) /\ Len(s) \in Nat
    OBVIOUS
  <1>3. \A n \in Nat : \E g : Fun(n, g)
    <2> DEFINE T == {n \in Nat : \E g : Fun(n, g)}
    <2>1. 0 \in T
      <3>1. Fun(0, [t \in SUBSET (1..0) |-> base])
        OBVIOUS
      <3>2. QED
        BY <3>1
    <2>2. ASSUME NEW n \in Nat, n \in T PROVE n + 1 \in T
      <3>1. PICK g : Fun(n, g)
        BY <2>2
      <3> DEFINE h == [t \in SUBSET (1..(n + 1)) |-> IF n + 1 \in t THEN Step(g, t) ELSE g[t]]
      <3>2. ASSUME NEW t \in SUBSET (1..(n + 1)) PROVE h[t] = Step(h, t)
        <4>1. CASE n + 1 \in t
          <5>1. Max(t) = n + 1
            <6>1. t \subseteq Int /\ \A m \in t : m <= n + 1
              OBVIOUS
            <6>2. QED
              BY <4>1, <6>1, MaxIs
          <5>2. t \ {n + 1} \in SUBSET (1..(n + 1)) /\ n + 1 \notin t \ {n + 1}
            OBVIOUS
          <5>3. h[t] = Step(g, t) /\ h[t \ {n + 1}] = g[t \ {n + 1}]
            BY <4>1, <5>2
          <5>4. QED
            BY <4>1, <5>1, <5>3
        <4>2. CASE n + 1 \notin t
          <5>1. t \in SUBSET (1..n)
            BY <4>2
          <5>2. h[t] = g[t] /\ g[t] = Step(g, t)
            BY <3>1, <4>2, <5>1
          <5>3. \A m : h[t \ {m}] = g[t \ {m}]
            BY <4>2
          <5>4. QED
            BY <5>2, <5>3
        <4>3. QED
          BY <4>1, <4>2
      <3>3. Fun(n + 1, h)
        BY <3>2
      <3> HIDE DEF h, Fun
      <3>4. QED
        BY <3>3
    <2> HIDE DEF T
    <2>3. Nat \subseteq T
      BY <2>1, <2>2, ByInduction
    <2>4. QED
      BY <2>3 DEF T
  <1>4. \A t \in SUBSET (1..Len(s)) : F[t] = Step(F, t)
    <2>1. Fun(Len(s), F)
      BY <1>2, <1>3
    <2>2. QED
      BY <2>1
  <1> HIDE DEF F
  <1> DEFINE g == [n \in Nat |-> F[1..n]]
  <1>5. g[0] = base
    <2>1. F[{}] = base
      BY <1>4
    <2>2. g[0] = F[{}]
      <3>1. 1..0 = {}
        OBVIOUS
      <3>2. QED
        BY <3>1
    <2>3. QED
      BY <2>1, <2>2
  <1>6. ASSUME NEW n \in Nat, n < Len(s)
        PROVE  g[n + 1] = Onto(g[n], s[n + 1])
    <2> DEFINE t == 1..(n + 1)
    <2>1. t \in SUBSET (1..Len(s)) /\ t # {} /\ Max(t) = n + 1 /\ t \ {n + 1} = 1..n
      <3>1. t \in SUBSET (1..Len(s))
        BY <1>2, <1>6
      <3>2. n + 1 \in t
        OBVIOUS
      <3>3. QED
        BY <3>1, <3>2, MaxOfRange
    <2>2. g[n] = F[1..n] /\ g[n + 1] = F[t]
      OBVIOUS
    <2> HIDE DEF t, g
    <2>3. F[t] = Step(F, t)
      BY <1>4, <2>1
    <2>4. QED
      BY <2>1, <2>2, <2>3
  <1>7. FoldLeft(Onto, base, s) = g[Len(s)]
    BY <1>1, <1>2
  <1> HIDE DEF g
  <1>8. QED
    BY <1>5, <1>6, <1>7

(* The changes of a line are applied from the oldest on.                   *)
LEMMA DrawByStep ==
  ASSUME NEW S, NEW s \in Seq(S), NEW base
  PROVE  \E g : /\ g[0] = base
                /\ \A n \in Nat : n < Len(s) =>
                     g[n + 1] = Draw(g[n], s[n + 1])
                /\ FoldLeft(Draw, base, s) = g[Len(s)]
  <1> DEFINE Step(g, t) ==
               IF t = {} THEN base
               ELSE LET n == Max(t) IN Draw(g[t \ {n}], s[n])
             Fun(n, g) == g = [t \in SUBSET (1..n) |-> Step(g, t)]
             F == CHOOSE g : g = [t \in SUBSET DOMAIN s |-> Step(g, t)]
  <1>1. FoldLeft(Draw, base, s) = F[DOMAIN s]
    BY DEF FoldLeft, MapThenFoldSet
  <1>2. DOMAIN s = 1..Len(s) /\ Len(s) \in Nat
    OBVIOUS
  <1>3. \A n \in Nat : \E g : Fun(n, g)
    <2> DEFINE T == {n \in Nat : \E g : Fun(n, g)}
    <2>1. 0 \in T
      <3>1. Fun(0, [t \in SUBSET (1..0) |-> base])
        OBVIOUS
      <3>2. QED
        BY <3>1
    <2>2. ASSUME NEW n \in Nat, n \in T PROVE n + 1 \in T
      <3>1. PICK g : Fun(n, g)
        BY <2>2
      <3> DEFINE h == [t \in SUBSET (1..(n + 1)) |-> IF n + 1 \in t THEN Step(g, t) ELSE g[t]]
      <3>2. ASSUME NEW t \in SUBSET (1..(n + 1)) PROVE h[t] = Step(h, t)
        <4>1. CASE n + 1 \in t
          <5>1. Max(t) = n + 1
            <6>1. t \subseteq Int /\ \A m \in t : m <= n + 1
              OBVIOUS
            <6>2. QED
              BY <4>1, <6>1, MaxIs
          <5>2. t \ {n + 1} \in SUBSET (1..(n + 1)) /\ n + 1 \notin t \ {n + 1}
            OBVIOUS
          <5>3. h[t] = Step(g, t) /\ h[t \ {n + 1}] = g[t \ {n + 1}]
            BY <4>1, <5>2
          <5>4. QED
            BY <4>1, <5>1, <5>3
        <4>2. CASE n + 1 \notin t
          <5>1. t \in SUBSET (1..n)
            BY <4>2
          <5>2. h[t] = g[t] /\ g[t] = Step(g, t)
            BY <3>1, <4>2, <5>1
          <5>3. \A m : h[t \ {m}] = g[t \ {m}]
            BY <4>2
          <5>4. QED
            BY <5>2, <5>3
        <4>3. QED
          BY <4>1, <4>2
      <3>3. Fun(n + 1, h)
        BY <3>2
      <3> HIDE DEF h, Fun
      <3>4. QED
        BY <3>3
    <2> HIDE DEF T
    <2>3. Nat \subseteq T
      BY <2>1, <2>2, ByInduction
    <2>4. QED
      BY <2>3 DEF T
  <1>4. \A t \in SUBSET (1..Len(s)) : F[t] = Step(F, t)
    <2>1. Fun(Len(s), F)
      BY <1>2, <1>3
    <2>2. QED
      BY <2>1
  <1> HIDE DEF F
  <1> DEFINE g == [n \in Nat |-> F[1..n]]
  <1>5. g[0] = base
    <2>1. F[{}] = base
      BY <1>4
    <2>2. g[0] = F[{}]
      <3>1. 1..0 = {}
        OBVIOUS
      <3>2. QED
        BY <3>1
    <2>3. QED
      BY <2>1, <2>2
  <1>6. ASSUME NEW n \in Nat, n < Len(s)
        PROVE  g[n + 1] = Draw(g[n], s[n + 1])
    <2> DEFINE t == 1..(n + 1)
    <2>1. t \in SUBSET (1..Len(s)) /\ t # {} /\ Max(t) = n + 1 /\ t \ {n + 1} = 1..n
      <3>1. t \in SUBSET (1..Len(s))
        BY <1>2, <1>6
      <3>2. n + 1 \in t
        OBVIOUS
      <3>3. QED
        BY <3>1, <3>2, MaxOfRange
    <2>2. g[n] = F[1..n] /\ g[n + 1] = F[t]
      OBVIOUS
    <2> HIDE DEF t, g
    <2>3. F[t] = Step(F, t)
      BY <1>4, <2>1
    <2>4. QED
      BY <2>1, <2>2, <2>3
  <1>7. FoldLeft(Draw, base, s) = g[Len(s)]
    BY <1>1, <1>2
  <1> HIDE DEF g
  <1>8. QED
    BY <1>5, <1>6, <1>7
-----------------------------------------------------------------------------
(* Types.                                                                  *)

DiffsOf(k)   == ChangesTo(k) \cup Creations(k)
PatchesOf(k) == [id : Nat, diff : DiffsOf(k)]

(* What is known of a timeline of kind k.                                  *)
WellMade(k, t) ==
  /\ t \in [committed : ServerStates(k), patches : Seq(PatchesOf(k))]
  /\ MadeInOrder(t.patches)
TimelineOK ==
  /\ kind \in {"note", "line", "image"}
  /\ WellMade(kind, timeline)
  /\ made \in Nat
  /\ \A i \in DOMAIN timeline.patches : timeline.patches[i].id <= made

LEMMA StartIsWellMade == TimelineStart => TimelineOK
  <1> SUFFICES ASSUME TimelineStart PROVE TimelineOK
    OBVIOUS
  <1>1. ASSUME NEW s \in ServerStates(kind), timeline = newCommittedTimeline(s), made = 0
        PROVE  WellMade(kind, timeline) /\ timeline.patches = <<>>
    BY <1>1 DEF newCommittedTimeline, WellMade, MadeInOrder
  <1>2. ASSUME NEW d \in Creations(kind), timeline = newLocalTimeline(1, d), made = 1
        PROVE  WellMade(kind, timeline) /\ timeline.patches = <<newPatch(1, d)>>
    <2>1. Null \in ServerStates(kind)
      BY DEF ServerStates
    <2>2. newPatch(1, d) \in PatchesOf(kind)
      BY DEF newPatch, PatchesOf, DiffsOf
    <2>3. QED
      BY <1>2, <2>1, <2>2 DEF newLocalTimeline, WellMade, MadeInOrder
  <1>3. kind \in {"note", "line", "image"}
    BY DEF TimelineStart
  <1>4. CASE \E s \in ServerStates(kind) \ {Null} :
               timeline = newCommittedTimeline(s) /\ made = 0
    BY <1>1, <1>3, <1>4 DEF TimelineOK
  <1>5. CASE \E d \in Creations(kind) : timeline = newLocalTimeline(1, d) /\ made = 1
    <2>1. PICK d \in Creations(kind) : timeline = newLocalTimeline(1, d) /\ made = 1
      BY <1>5
    <2>2. WellMade(kind, timeline) /\ timeline.patches = <<newPatch(1, d)>>
      BY <1>2, <2>1
    <2>3. \A i \in DOMAIN timeline.patches : timeline.patches[i].id <= made
      BY <2>1, <2>2 DEF newPatch
    <2>4. QED
      BY <1>3, <2>1, <2>2, <2>3 DEF TimelineOK
  <1>6. QED
    BY <1>4, <1>5 DEF TimelineStart

(* Another patch comes last.                                               *)
LEMMA PatchedIsWellMade ==
  ASSUME TimelineOK, NEW d \in ChangesTo(kind)
  PROVE  /\ WellMade(kind, patched(timeline, made + 1, d))
         /\ \A i \in DOMAIN patched(timeline, made + 1, d).patches :
              patched(timeline, made + 1, d).patches[i].id <= made + 1
  <1> DEFINE s == timeline.patches
             p == newPatch(made + 1, d)
             w == Append(s, p)
             t == patched(timeline, made + 1, d)
  <1>1. /\ s \in Seq(PatchesOf(kind)) /\ MadeInOrder(s) /\ made \in Nat
        /\ \A i \in DOMAIN s : s[i].id <= made
        /\ timeline \in [committed : ServerStates(kind), patches : Seq(PatchesOf(kind))]
    BY DEF TimelineOK, WellMade
  <1>2. p \in PatchesOf(kind) /\ p.id = made + 1
    BY <1>1 DEF newPatch, PatchesOf, DiffsOf
  <1>3. t = [timeline EXCEPT !.patches = w]
    BY DEF patched
  <1> HIDE DEF s, p, t
  <1>4. /\ w \in Seq(PatchesOf(kind)) /\ Len(w) = Len(s) + 1 /\ w[Len(s) + 1] = p
        /\ \A i \in 1..Len(s) : w[i] = s[i]
        /\ DOMAIN w = 1..(Len(s) + 1) /\ DOMAIN s = 1..Len(s) /\ Len(s) \in Nat
    BY <1>1, <1>2
  <1> HIDE DEF w
  <1>5. \A i \in DOMAIN s : s[i].id \in Nat
    <2>1. \A q \in PatchesOf(kind) : q.id \in Nat
      BY DEF PatchesOf
    <2>2. \A i \in DOMAIN s : s[i] \in PatchesOf(kind)
      BY <1>1
    <2>3. QED
      BY <2>1, <2>2
  <1>6. MadeInOrder(w) /\ \A i \in DOMAIN w : w[i].id <= made + 1
    <2>1. \A i \in DOMAIN w :
            \/ i \in DOMAIN s /\ w[i].id = s[i].id /\ w[i].id \in Nat /\ w[i].id <= made
            \/ i = Len(s) + 1 /\ w[i].id = made + 1
      <3> SUFFICES ASSUME NEW i \in DOMAIN w, i # Len(s) + 1
                   PROVE  i \in DOMAIN s /\ w[i] = s[i]
        BY <1>1, <1>2, <1>4, <1>5
      <3>1. QED
        BY <1>4
    <2>2. \A i \in DOMAIN w : w[i].id <= made + 1
      BY <1>1, <2>1
    <2>3. ASSUME NEW i \in DOMAIN w, NEW j \in DOMAIN w, i < j PROVE w[i].id < w[j].id
      <3>1. i \in DOMAIN s /\ w[i].id = s[i].id /\ w[i].id \in Nat /\ w[i].id <= made
        BY <1>4, <2>1, <2>3
      <3>2. CASE j \in DOMAIN s /\ w[j].id = s[j].id
        BY <1>1, <2>3, <3>1, <3>2 DEF MadeInOrder
      <3>3. CASE w[j].id = made + 1
        BY <1>1, <3>1, <3>3
      <3>4. QED
        BY <2>1, <3>2, <3>3
    <2>4. QED
      BY <2>2, <2>3 DEF MadeInOrder
  <1>7. t \in [committed : ServerStates(kind), patches : Seq(PatchesOf(kind))] /\ t.patches = w
    BY <1>1, <1>3, <1>4
  <1>8. QED
    BY <1>6, <1>7 DEF WellMade, t

LEMMA DiscardedIsWellMade ==
  ASSUME TimelineOK, NEW id
  PROVE  /\ WellMade(kind, discardPatch(timeline, id))
         /\ \A i \in DOMAIN discardPatch(timeline, id).patches :
              discardPatch(timeline, id).patches[i].id <= made
  <1> DEFINE s == timeline.patches
             w == Without(s, id)
             t == discardPatch(timeline, id)
  <1>1. /\ s \in Seq(PatchesOf(kind)) /\ MadeInOrder(s)
        /\ \A i \in DOMAIN s : s[i].id <= made
        /\ timeline \in [committed : ServerStates(kind), patches : Seq(PatchesOf(kind))]
    BY DEF TimelineOK, WellMade
  <1>2. \A p \in PatchesOf(kind) : p.id \in Nat
    BY DEF PatchesOf
  <1>3. t = [timeline EXCEPT !.patches = w]
    BY DEF discardPatch
  <1> HIDE DEF s, t
  <1>4. /\ w \in Seq(PatchesOf(kind)) /\ MadeInOrder(w)
        /\ \A i \in DOMAIN w : \E k \in DOMAIN s : w[i] = s[k]
    BY <1>1, <1>2, WithoutKeeps
  <1> HIDE DEF w
  <1>5. t \in [committed : ServerStates(kind), patches : Seq(PatchesOf(kind))] /\ t.patches = w
    BY <1>1, <1>3, <1>4
  <1>6. QED
    BY <1>1, <1>4, <1>5 DEF WellMade, t

LEMMA NextIsWellMade == TimelineOK /\ [TimelineNext]_timelineVars => TimelineOK'
  <1> SUFFICES ASSUME TimelineOK, [TimelineNext]_timelineVars PROVE TimelineOK'
    OBVIOUS
  <1>1. CASE UNCHANGED timelineVars
    BY <1>1 DEF TimelineOK, WellMade, MadeInOrder, timelineVars
  <1>2. CASE Change /\ UNCHANGED kind
    <2>1. made' = made + 1
      BY <1>2 DEF Change
    <2>2. PICK d \in ChangesTo(kind) : timeline' = patched(timeline, made + 1, d)
      BY <1>2, <2>1 DEF Change
    <2>3. WellMade(kind, timeline') /\ \A i \in DOMAIN timeline'.patches :
                                         timeline'.patches[i].id <= made'
      BY <2>1, <2>2, PatchedIsWellMade
    <2>4. QED
      BY <1>2, <2>1, <2>3 DEF TimelineOK, WellMade
  <1>3. CASE ServerState /\ UNCHANGED kind
    <2>1. PICK s \in ServerStates(kind) : timeline' = setCommitted(timeline, s)
      BY <1>3 DEF ServerState
    <2>2. WellMade(kind, timeline') /\ timeline'.patches = timeline.patches
      BY <2>1 DEF setCommitted, TimelineOK, WellMade
    <2>3. QED
      BY <1>3, <2>2 DEF TimelineOK, WellMade, ServerState
  <1>4. CASE Answered /\ UNCHANGED kind
    <2>1. PICK i \in 1..made : timeline' = discardPatch(timeline, i)
      BY <1>4 DEF Answered
    <2>2. WellMade(kind, timeline') /\ \A j \in DOMAIN timeline'.patches :
                                         timeline'.patches[j].id <= made
      BY <2>1, DiscardedIsWellMade
    <2>3. QED
      BY <1>4, <2>2 DEF TimelineOK, WellMade, Answered
  <1>5. QED
    BY <1>1, <1>2, <1>3, <1>4 DEF TimelineNext

(* However many patches, states of the server and answers came in which    *)
(* order, the patches of a timeline are in the order in which they were    *)
(* made, and what is known of the figure has its type.                     *)
THEOREM TimelinesAreWellMade == TimelineSpec => []TimelineOK
  BY StartIsWellMade, NextIsWellMade, PTL DEF TimelineSpec
-----------------------------------------------------------------------------
(* Notes: the newest change has the last word.                             *)

(* The changes up to the n-th that no deletion follows, and what they say. *)
Since(changes, n) == {i \in 1..n : \A j \in 1..n : changes[j].deleted => j < i}
Word(changes, n, field) == Field(changes, Since(changes, n), field)

LEMMA NewestIs ==
  ASSUME NEW S, S \subseteq Int, NEW n \in S, \A m \in S : m <= n
  PROVE  Newest(S) = n
  <1>1. \A x \in S : (\A y \in S : y <= x) => x = n
    OBVIOUS
  <1>2. QED
    BY <1>1 DEF Newest

LEMMA LastWord ==
  ASSUME NEW changes, NEW n \in Nat, NEW field,
         \A i \in 1..(n + 1) : changes[i].deleted \in BOOLEAN
  PROVE  Word(changes, n + 1, field) =
           IF changes[n + 1].deleted THEN Undefined
           ELSE Over(changes[n + 1][field], Word(changes, n, field))
  <1> DEFINE about(S) == {i \in S : changes[i][field] # Undefined}
             new == Since(changes, n + 1)
             old == Since(changes, n)
  <1>1. CASE changes[n + 1].deleted
    <2>1. new = {}
      BY <1>1 DEF Since
    <2>2. QED
      BY <1>1, <2>1 DEF Word, Field
  <1>2. CASE ~changes[n + 1].deleted
    <2>1. new = old \cup {n + 1}
      BY <1>2 DEF Since
    <2>2. old \subseteq 1..n
      BY DEF Since
    <2>3. CASE changes[n + 1][field] = Undefined
      <3>1. about(new) = about(old)
        BY <2>1, <2>3
      <3>2. QED
        BY <1>2, <2>3, <3>1 DEF Word, Field, Over
    <2>4. CASE changes[n + 1][field] # Undefined
      <3> DEFINE A == about(new)
      <3>1. A \subseteq Int /\ n + 1 \in A /\ \A m \in A : m <= n + 1
        BY <2>1, <2>2, <2>4
      <3>2. Word(changes, n + 1, field) = IF A = {} THEN Undefined ELSE changes[Newest(A)][field]
        BY DEF Word, Field
      <3> HIDE DEF A
      <3>3. Newest(A) = n + 1
        BY <3>1, NewestIs
      <3>4. QED
        BY <1>2, <2>4, <3>1, <3>2, <3>3 DEF Over
    <2>5. QED
      BY <2>3, <2>4
  <1>3. n + 1 \in 1..(n + 1)
    OBVIOUS
  <1>4. QED
    BY <1>1, <1>2, <1>3

Known(t)  == IF t.committed = Null THEN NoteDiff(Undefined, Undefined)
             ELSE DiffOfNote(t.committed)
Whole(t)  == FoldLeft(Onto, Known(t), Diffs(t))
NoteOf(t) == Changes(t, DiffOfNote(t.committed))

(* What a change of a note may say.                                        *)
PlainDiff == [deleted : BOOLEAN, position : Positions \cup {Undefined},
              text : Texts \cup {Undefined}]

LEMMA NoteTypes ==
  /\ DiffsOf("note") \subseteq PlainDiff
  /\ \A s \in ServerStates("note") \ {Null} :
       DiffOfNote(s) \in PlainDiff /\ ~DiffOfNote(s).deleted
  /\ NoteDiff(Undefined, Undefined) \in PlainDiff
  <1>1. /\ \A p \in Positions \cup {Undefined}, x \in Texts \cup {Undefined} :
             NoteDiff(p, x) \in PlainDiff /\ ~NoteDiff(p, x).deleted
        /\ NoteDeletion \in PlainDiff
    BY DEF NoteDiff, NoteDeletion, PlainDiff
  <1>2. DiffsOf("note") = NoteDiffs \cup {NoteDiff(p, t) : p \in Positions, t \in Texts}
    BY DEF DiffsOf, ChangesTo, Creations
  <1>3. \A s \in ServerStates("note") \ {Null} : s.position \in Positions /\ s.text \in Texts
    BY DEF ServerStates
  <1>4. QED
    BY <1>1, <1>2, <1>3 DEF NoteDiffs, DiffOfNote

(* The changes of a note are the known state, if there is one, and the     *)
(* patches.                                                                *)
LEMMA NoteChanges ==
  ASSUME NEW t, WellMade("note", t)
  PROVE  /\ Diffs(t) \in Seq(PlainDiff) /\ NoteOf(t) \in Seq(PlainDiff)
         /\ Known(t) \in PlainDiff
         /\ \E k \in {0, 1} :
              /\ Len(NoteOf(t)) = Len(Diffs(t)) + k
              /\ \A i \in 1..Len(Diffs(t)) : NoteOf(t)[i + k] = Diffs(t)[i]
              /\ k = 0 => Known(t) = NoteDiff(Undefined, Undefined)
              /\ k = 1 => NoteOf(t)[1] = Known(t) /\ ~Known(t).deleted
  <1> DEFINE d == Diffs(t)
             x == DiffOfNote(t.committed)
  <1>1. t.patches \in Seq(PatchesOf("note")) /\ t.committed \in ServerStates("note")
    BY DEF WellMade
  <1>2. d \in Seq(PlainDiff)
    <2>1. \A p \in PatchesOf("note") : p.diff \in PlainDiff
      BY NoteTypes DEF PatchesOf
    <2>2. \A i \in DOMAIN t.patches : t.patches[i].diff \in PlainDiff
      BY <1>1, <2>1
    <2>3. DOMAIN t.patches = 1..Len(t.patches) /\ Len(t.patches) \in Nat
      BY <1>1
    <2>4. QED
      BY <2>2, <2>3 DEF Diffs
  <1> HIDE DEF d
  <1>3. CASE t.committed = Null
    <2>1. NoteOf(t) = <<>> \o d
      BY <1>3 DEF NoteOf, Changes, d
    <2>2. <<>> \o d = d
      BY <1>2
    <2>3. Known(t) = NoteDiff(Undefined, Undefined)
      BY <1>3 DEF Known
    <2> DEFINE k == 0
    <2>4. /\ Len(NoteOf(t)) = Len(d) + k
          /\ \A i \in 1..Len(d) : NoteOf(t)[i + k] = d[i]
      BY <1>2, <2>1, <2>2
    <2>5. QED
      BY <1>2, <2>1, <2>2, <2>3, <2>4, NoteTypes DEF d
  <1>4. CASE t.committed # Null
    <2>1. NoteOf(t) = <<x>> \o d
      BY <1>4 DEF NoteOf, Changes, d
    <2>2. x \in PlainDiff /\ ~x.deleted /\ Known(t) = x
      BY <1>1, <1>4, NoteTypes DEF Known
    <2> HIDE DEF x
    <2>3. <<x>> \o d \in Seq(PlainDiff) /\ Len(<<x>> \o d) = Len(d) + 1
      BY <1>2, <2>2
    <2>4. (<<x>> \o d)[1] = x /\ \A i \in 1..Len(d) : (<<x>> \o d)[i + 1] = d[i]
      BY <1>2, <2>2
    <2>5. QED
      BY <1>2, <2>1, <2>2, <2>3, <2>4 DEF d
  <1>5. QED
    BY <1>3, <1>4

LEMMA WholeIsWord ==
  ASSUME NEW t, WellMade("note", t)
  PROVE  /\ Whole(t) = NoteDiff(Word(NoteOf(t), Len(NoteOf(t)), "position"),
                                Word(NoteOf(t), Len(NoteOf(t)), "text"))
         /\ Whole(t) \in PlainDiff
  <1> DEFINE s   == Diffs(t)
             all == NoteOf(t)
             W(n) == NoteDiff(Word(all, n, "position"), Word(all, n, "text"))
  <1>1. s \in Seq(PlainDiff) /\ all \in Seq(PlainDiff) /\ Known(t) \in PlainDiff
    BY NoteChanges
  <1>2. PICK k \in {0, 1} :
          /\ Len(all) = Len(s) + k
          /\ \A i \in 1..Len(s) : all[i + k] = s[i]
          /\ k = 0 => Known(t) = NoteDiff(Undefined, Undefined)
          /\ k = 1 => all[1] = Known(t) /\ ~Known(t).deleted
    BY NoteChanges
  <1> HIDE DEF all, s
  <1>3. PICK g : /\ g[0] = Known(t)
                 /\ \A n \in Nat : n < Len(s) => g[n + 1] = Onto(g[n], s[n + 1])
                 /\ FoldLeft(Onto, Known(t), s) = g[Len(s)]
    BY <1>1, OntoByStep
  <1>4. Len(s) \in Nat /\ Len(all) \in Nat
    BY <1>1
  <1>5. \A i \in 1..Len(all) : all[i] \in PlainDiff /\ all[i].deleted \in BOOLEAN
    <2>1. \A q \in PlainDiff : q.deleted \in BOOLEAN
      BY DEF PlainDiff
    <2>2. \A i \in 1..Len(all) : all[i] \in PlainDiff
      BY <1>1
    <2>3. QED
      BY <2>1, <2>2
  <1>6. W(0) = NoteDiff(Undefined, Undefined)
    BY DEF Word, Field, Since
  <1>7. ASSUME NEW n \in Nat, n + 1 <= Len(all)
        PROVE  W(n + 1) = Onto(W(n), all[n + 1])
    <2>1. \A i \in 1..(n + 1) : all[i].deleted \in BOOLEAN
      BY <1>4, <1>5, <1>7
    <2>2. \A f : Word(all, n + 1, f) = IF all[n + 1].deleted THEN Undefined
                                       ELSE Over(all[n + 1][f], Word(all, n, f))
      BY <2>1, LastWord
    <2>3. /\ all[n + 1].position = all[n + 1]["position"] /\ all[n + 1].text = all[n + 1]["text"]
          /\ W(n).position = Word(all, n, "position") /\ W(n).text = Word(all, n, "text")
      BY DEF NoteDiff
    <2>4. CASE all[n + 1].deleted
      BY <2>2, <2>4 DEF Onto
    <2>5. CASE ~all[n + 1].deleted
      BY <2>2, <2>3, <2>5 DEF Onto
    <2>6. QED
      BY <2>4, <2>5
  <1> DEFINE T == {n \in Nat : n <= Len(s) => g[n] = W(n + k) /\ g[n] \in PlainDiff}
  <1>8. 0 \in T
    <2>1. CASE k = 0
      BY <1>1, <1>2, <1>3, <1>6, <2>1
    <2>2. CASE k = 1
      <3>1. W(0 + 1) = Onto(W(0), all[0 + 1])
        <4>1. 0 \in Nat /\ 0 + 1 <= Len(all)
          BY <1>2, <1>4, <2>2
        <4> HIDE DEF W
        <4>2. QED
          BY <1>7, <4>1
      <3>2. all[0 + 1] = Known(t) /\ ~Known(t).deleted
        BY <1>2, <2>2
      <3>3. Onto(W(0), Known(t)) = NoteDiff(Known(t).position, Known(t).text)
        BY <1>6, <3>2 DEF Onto, Over, NoteDiff
      <3>4. NoteDiff(Known(t).position, Known(t).text) = Known(t)
        BY <1>1, <3>2 DEF NoteDiff, PlainDiff
      <3>5. QED
        BY <1>1, <1>3, <2>2, <3>1, <3>2, <3>3, <3>4
    <2>3. QED
      BY <2>1, <2>2
  <1>9. ASSUME NEW n \in Nat, n \in T PROVE n + 1 \in T
    <2> SUFFICES ASSUME n + 1 <= Len(s)
                 PROVE  g[n + 1] = W((n + 1) + k) /\ g[n + 1] \in PlainDiff
      OBVIOUS
    <2>1. g[n] = W(n + k) /\ g[n] \in PlainDiff
      BY <1>4, <1>9
    <2>2. g[n + 1] = Onto(g[n], s[n + 1]) /\ all[(n + 1) + k] = s[n + 1] /\ s[n + 1] \in PlainDiff
      BY <1>1, <1>2, <1>3, <1>4
    <2>3. n + k \in Nat /\ (n + k) + 1 = (n + 1) + k /\ (n + k) + 1 <= Len(all)
      BY <1>2, <1>4
    <2>4. W((n + 1) + k) = Onto(W(n + k), all[(n + 1) + k])
      BY <1>7, <2>3
    <2>5. Onto(g[n], s[n + 1]) \in PlainDiff
      BY <2>1, <2>2 DEF Onto, Over, NoteDiff, PlainDiff
    <2> HIDE DEF W
    <2>6. QED
      BY <2>1, <2>2, <2>4, <2>5
  <1> HIDE DEF T
  <1>10. Nat \subseteq T
    BY <1>8, <1>9, ByInduction
  <1>11. Whole(t) = g[Len(s)]
    BY <1>3 DEF Whole, s
  <1>12. g[Len(s)] = W(Len(s) + k) /\ g[Len(s)] \in PlainDiff
    BY <1>4, <1>10 DEF T
  <1>13. QED
    BY <1>2, <1>11, <1>12 DEF all

(* A note is shown if all of it is known, with the last word on each field.*)
LEMMA NoteIsWhole ==
  ASSUME NEW t, WellMade("note", t)
  PROVE  IF Complete(Whole(t))
         THEN getEffectiveNote(t) # Null /\ DiffOfNote(getEffectiveNote(t)) = Whole(t)
         ELSE getEffectiveNote(t) = Null
  <1> DEFINE all == NoteOf(t)
             p == Word(all, Len(all), "position")
             x == Word(all, Len(all), "text")
             c == IF t.committed = Null THEN Undefined ELSE t.committed.creatorId
             n == [position |-> p, text |-> x, creatorId |-> c]
  <1>1. SinceDeletion(all) = Since(all, Len(all))
    <2>1. all \in Seq(PlainDiff)
      BY NoteChanges
    <2>2. DOMAIN all = 1..Len(all)
      BY <2>1
    <2>3. QED
      BY <2>2 DEF SinceDeletion, Since
  <1>2. getEffectiveNote(t) = IF Undefined \in {p, x} THEN Null ELSE n
    BY <1>1 DEF getEffectiveNote, Word, NoteOf
  <1>3. Whole(t) = NoteDiff(p, x) /\ Whole(t) \in PlainDiff
    BY WholeIsWord
  <1>4. c \in {"somebody", Undefined}
    BY DEF WellMade, ServerStates
  <1> HIDE DEF p, x, c
  <1>5. p \in Positions \cup {Undefined} /\ x \in Texts \cup {Undefined}
    BY <1>3 DEF NoteDiff, PlainDiff
  <1>6. Complete(Whole(t)) <=> p # Undefined /\ x # Undefined
    BY <1>3 DEF Complete, NoteDiff
  <1>7. CASE p # Undefined /\ x # Undefined
    <2>1. n # Null
      BY <1>4, <1>5, <1>7, DataAssumption
    <2>2. DiffOfNote(n) = NoteDiff(p, x)
      BY DEF DiffOfNote
    <2>3. QED
      BY <1>2, <1>3, <1>6, <1>7, <2>1, <2>2
  <1>8. CASE p = Undefined \/ x = Undefined
    BY <1>2, <1>6, <1>8
  <1>9. QED
    BY <1>7, <1>8

(* A note is shown as if its patches were applied one after the other, for *)
(* every number of patches.                                                *)
THEOREM NewestAlwaysWins == TimelineSpec => []NewestWins
  <1>1. TimelineOK => NewestWins
    BY NoteIsWhole DEF TimelineOK, NewestWins, Whole, Known
  <1>2. QED
    BY <1>1, TimelinesAreWellMade, PTL
-----------------------------------------------------------------------------
(* Lines: the patches are applied one after the other.                     *)

Base(t)    == IF t.committed = Null THEN {} ELSE t.committed
Drawing(t) == FoldLeft(Draw, Base(t), Diffs(t))

LEMMA DiffsOfPatches ==
  ASSUME NEW k, NEW t, WellMade(k, t)
  PROVE  /\ Diffs(t) \in Seq(DiffsOf(k)) /\ Len(Diffs(t)) = Len(t.patches)
         /\ \A i \in 1..Len(t.patches) : Diffs(t)[i] = t.patches[i].diff
         /\ Len(t.patches) \in Nat /\ DOMAIN t.patches = 1..Len(t.patches)
  <1>1. t.patches \in Seq(PatchesOf(k))
    BY DEF WellMade
  <1>2. \A p \in PatchesOf(k) : p.diff \in DiffsOf(k)
    BY DEF PatchesOf
  <1>3. \A i \in 1..Len(t.patches) : t.patches[i].diff \in DiffsOf(k)
    BY <1>1, <1>2
  <1>4. Len(t.patches) \in Nat /\ DOMAIN t.patches = 1..Len(t.patches)
    BY <1>1
  <1>5. QED
    BY <1>3, <1>4 DEF Diffs

(* A line that no patch deletes is shown as drawn.                         *)
Deleted(t) == \E i \in DOMAIN t.patches : t.patches[i].diff.type = "LINE_DELETED"

LEMMA LineIsDrawn ==
  ASSUME NEW t, WellMade("line", t)
  PROVE  getEffectiveLine(t) = IF Deleted(t) THEN Null ELSE Drawing(t)
  <1>1. (\E i \in DOMAIN Diffs(t) : Diffs(t)[i].type = "LINE_DELETED") <=> Deleted(t)
    BY DiffsOfPatches DEF Deleted
  <1>2. QED
    BY <1>1 DEF getEffectiveLine, Drawing, Base
-----------------------------------------------------------------------------
(* The answer to the oldest patch.                                         *)

(* Folds may begin one step later.                                         *)
LEMMA OntoLater ==
  ASSUME NEW S, NEW s \in Seq(S), s # <<>>, NEW base
  PROVE  FoldLeft(Onto, Onto(base, s[1]), Tail(s)) = FoldLeft(Onto, base, s)
  <1> DEFINE w == Tail(s)
  <1>1. w \in Seq(S) /\ Len(s) = Len(w) + 1 /\ Len(w) \in Nat
        /\ \A i \in 1..Len(w) : w[i] = s[i + 1]
    BY HeadTailProperties
  <1> HIDE DEF w
  <1>2. PICK g : /\ g[0] = base
                 /\ \A n \in Nat : n < Len(s) => g[n + 1] = Onto(g[n], s[n + 1])
                 /\ FoldLeft(Onto, base, s) = g[Len(s)]
    BY OntoByStep
  <1>3. PICK h : /\ h[0] = Onto(base, s[1])
                 /\ \A n \in Nat : n < Len(w) => h[n + 1] = Onto(h[n], w[n + 1])
                 /\ FoldLeft(Onto, Onto(base, s[1]), w) = h[Len(w)]
    BY <1>1, OntoByStep
  <1> DEFINE T == {n \in Nat : n <= Len(w) => h[n] = g[n + 1]}
  <1>4. 0 \in T
    <2>1. g[0 + 1] = Onto(g[0], s[0 + 1])
      BY <1>1, <1>2
    <2>2. h[0] = g[0 + 1]
      BY <1>2, <1>3, <2>1
    <2>3. QED
      BY <2>2
  <1>5. ASSUME NEW n \in Nat, n \in T PROVE n + 1 \in T
    <2> SUFFICES ASSUME n + 1 <= Len(w) PROVE h[n + 1] = g[(n + 1) + 1]
      OBVIOUS
    <2>1. h[n] = g[n + 1] /\ h[n + 1] = Onto(h[n], w[n + 1]) /\ w[n + 1] = s[(n + 1) + 1]
      BY <1>1, <1>3, <1>5
    <2>2. n + 1 \in Nat /\ n + 1 < Len(s)
      BY <1>1
    <2>3. g[(n + 1) + 1] = Onto(g[n + 1], s[(n + 1) + 1])
      BY <1>2, <2>2
    <2>4. QED
      BY <2>1, <2>3
  <1> HIDE DEF T
  <1>6. Nat \subseteq T
    BY <1>4, <1>5, ByInduction
  <1>7. h[Len(w)] = g[Len(w) + 1]
    BY <1>1, <1>6 DEF T
  <1>8. QED
    BY <1>1, <1>2, <1>3, <1>7 DEF w

LEMMA DrawLater ==
  ASSUME NEW S, NEW s \in Seq(S), s # <<>>, NEW base
  PROVE  FoldLeft(Draw, Draw(base, s[1]), Tail(s)) = FoldLeft(Draw, base, s)
  <1> DEFINE w == Tail(s)
  <1>1. w \in Seq(S) /\ Len(s) = Len(w) + 1 /\ Len(w) \in Nat
        /\ \A i \in 1..Len(w) : w[i] = s[i + 1]
    BY HeadTailProperties
  <1> HIDE DEF w
  <1>2. PICK g : /\ g[0] = base
                 /\ \A n \in Nat : n < Len(s) => g[n + 1] = Draw(g[n], s[n + 1])
                 /\ FoldLeft(Draw, base, s) = g[Len(s)]
    BY DrawByStep
  <1>3. PICK h : /\ h[0] = Draw(base, s[1])
                 /\ \A n \in Nat : n < Len(w) => h[n + 1] = Draw(h[n], w[n + 1])
                 /\ FoldLeft(Draw, Draw(base, s[1]), w) = h[Len(w)]
    BY <1>1, DrawByStep
  <1> DEFINE T == {n \in Nat : n <= Len(w) => h[n] = g[n + 1]}
  <1>4. 0 \in T
    <2>1. g[0 + 1] = Draw(g[0], s[0 + 1])
      BY <1>1, <1>2
    <2>2. h[0] = g[0 + 1]
      BY <1>2, <1>3, <2>1
    <2>3. QED
      BY <2>2
  <1>5. ASSUME NEW n \in Nat, n \in T PROVE n + 1 \in T
    <2> SUFFICES ASSUME n + 1 <= Len(w) PROVE h[n + 1] = g[(n + 1) + 1]
      OBVIOUS
    <2>1. h[n] = g[n + 1] /\ h[n + 1] = Draw(h[n], w[n + 1]) /\ w[n + 1] = s[(n + 1) + 1]
      BY <1>1, <1>3, <1>5
    <2>2. n + 1 \in Nat /\ n + 1 < Len(s)
      BY <1>1
    <2>3. g[(n + 1) + 1] = Draw(g[n + 1], s[(n + 1) + 1])
      BY <1>2, <2>2
    <2>4. QED
      BY <2>1, <2>3
  <1> HIDE DEF T
  <1>6. Nat \subseteq T
    BY <1>4, <1>5, ByInduction
  <1>7. h[Len(w)] = g[Len(w) + 1]
    BY <1>1, <1>6 DEF T
  <1>8. QED
    BY <1>1, <1>2, <1>3, <1>7 DEF w

(* The timeline with the new state of the server, without its first patch. *)
Settled(t, s) == discardPatch(setCommitted(t, s), Head(t.patches).id)

LEMMA SettledIs ==
  ASSUME NEW k, NEW t, WellMade(k, t), t.patches # <<>>, NEW s \in ServerStates(k)
  PROVE  /\ Settled(t, s) = [committed |-> s, patches |-> Tail(t.patches)]
         /\ WellMade(k, Settled(t, s))
         /\ Diffs(t) # <<>> /\ Diffs(Settled(t, s)) = Tail(Diffs(t))
         /\ Head(t.patches).diff = Diffs(t)[1] /\ Diffs(t)[1] \in DiffsOf(k)
  <1> DEFINE p == t.patches
             w == Tail(p)
             u == [committed |-> s, patches |-> w]
  <1>1. t \in [committed : ServerStates(k), patches : Seq(PatchesOf(k))] /\ MadeInOrder(p)
    BY DEF WellMade
  <1>2. p \in Seq(PatchesOf(k)) /\ p # <<>> /\ t = [committed |-> t.committed, patches |-> p]
    BY <1>1
  <1>3. \A q \in PatchesOf(k) : q.id \in Nat
    BY DEF PatchesOf
  <1>4. Settled(t, s) = [committed |-> s, patches |-> Without(p, Head(p).id)]
    <2> DEFINE v == setCommitted(t, s)
    <2>1. v = [committed |-> s, patches |-> p]
      BY <1>1 DEF setCommitted
    <2>2. Settled(t, s) = [v EXCEPT !.patches = Without(@, Head(p).id)]
      BY DEF Settled, discardPatch
    <2> HIDE DEF v, p
    <2>3. QED
      BY <2>1, <2>2
  <1> HIDE DEF p
  <1>5. Head(p) = p[1]
    BY <1>2
  <1>6. Without(p, Head(p).id) = w
    BY <1>1, <1>2, <1>3, <1>5, WithoutFirst
  <1>7. /\ w \in Seq(PatchesOf(k)) /\ Len(p) = Len(w) + 1 /\ Len(w) \in Nat
        /\ \A i \in 1..Len(w) : w[i] = p[i + 1]
    BY <1>2, HeadTailProperties
  <1> HIDE DEF w
  <1>8. MadeInOrder(w)
    <2> SUFFICES ASSUME NEW i \in DOMAIN w, NEW j \in DOMAIN w, i < j PROVE w[i].id < w[j].id
      BY DEF MadeInOrder
    <2>1. i \in 1..Len(w) /\ j \in 1..Len(w)
      BY <1>7
    <2>2. i + 1 \in DOMAIN p /\ j + 1 \in DOMAIN p /\ i + 1 < j + 1
      BY <1>2, <1>7, <2>1
    <2>3. p[i + 1].id < p[j + 1].id
      BY <1>1, <2>2 DEF MadeInOrder
    <2>4. QED
      BY <1>7, <2>1, <2>3
  <1>9. WellMade(k, u)
    BY <1>7, <1>8 DEF WellMade
  <1>10. /\ Diffs(t) \in Seq(DiffsOf(k)) /\ Len(Diffs(t)) = Len(p)
         /\ \A i \in 1..Len(p) : Diffs(t)[i] = p[i].diff
    BY DiffsOfPatches DEF p
  <1>11. /\ Diffs(u) \in Seq(DiffsOf(k)) /\ Len(Diffs(u)) = Len(w)
         /\ \A i \in 1..Len(w) : Diffs(u)[i] = w[i].diff
    BY <1>9, DiffsOfPatches
  <1> DEFINE d == Diffs(t)
             e == Diffs(u)
             x == Tail(d)
  <1> HIDE DEF d, e, u
  <1>12. d \in Seq(DiffsOf(k)) /\ e \in Seq(DiffsOf(k)) /\ d # <<>> /\ Len(d) = Len(e) + 1
         /\ \A i \in 1..Len(e) : e[i] = d[i + 1]
    <2>1. Len(p) \in Nat
      BY <1>2
    <2>2. ASSUME NEW i \in 1..Len(w) PROVE e[i] = d[i + 1]
      <3>1. i + 1 \in 1..Len(p)
        BY <1>7
      <3>2. QED
        BY <1>7, <1>10, <1>11, <3>1 DEF d, e
    <2>3. QED
      BY <1>7, <1>10, <1>11, <2>1, <2>2 DEF d, e
  <1>13. x \in Seq(DiffsOf(k)) /\ Len(x) = Len(e) /\ \A i \in 1..Len(e) : x[i] = d[i + 1]
    BY <1>12, HeadTailProperties
  <1>14. x = e
    <2> HIDE DEF x
    <2>1. x = [i \in 1..Len(x) |-> x[i]] /\ e = [i \in 1..Len(e) |-> e[i]]
      BY <1>12, <1>13
    <2>2. QED
      BY <1>12, <1>13, <2>1
  <1>15. Head(p).diff = d[1] /\ d[1] \in DiffsOf(k)
    <2>1. 1 \in 1..Len(p) /\ 1 \in 1..Len(d)
      BY <1>2, <1>10, <1>12 DEF d
    <2>2. QED
      BY <1>5, <1>10, <1>12, <2>1 DEF d
  <1>16. Settled(t, s) = u
    BY <1>4, <1>6 DEF u
  <1>17. QED
    BY <1>9, <1>12, <1>14, <1>15, <1>16 DEF d, e, u, w, p

LEMMA NoteSettles ==
  ASSUME kind = "note", WellMade("note", timeline), timeline.patches # <<>>,
         Accepts(Head(timeline.patches).diff)
  PROVE  Shown(Settled(timeline, Changed(Head(timeline.patches).diff))) = Shown(timeline)
  <1> DEFINE t == timeline
             f == Head(t.patches).diff
             c == Changed(f)
             u == Settled(t, c)
  <1>1. t.committed \in ServerStates("note") /\ t.patches \in Seq(PatchesOf("note"))
    BY DEF WellMade
  <1>2. f \in PlainDiff
    <2>1. Head(t.patches) \in PatchesOf("note")
      BY <1>1
    <2>2. QED
      BY <2>1, NoteTypes DEF PatchesOf
  <1>3. \A s \in ServerStates("note") \ {Null} :
           s \in [position : Positions, text : Texts, creatorId : {"somebody"}]
    BY DEF ServerStates
  <1>4. c = IF f.deleted THEN Null
            ELSE [position |-> Over(f.position, IF t.committed = Null THEN Undefined
                                                ELSE t.committed.position),
                  text |-> Over(f.text, IF t.committed = Null THEN Undefined
                                        ELSE t.committed.text),
                  creatorId |-> "somebody"]
    BY DEF Changed
  <1>5. t.committed = Null => f.position # Undefined /\ f.text # Undefined
    BY DEF Accepts, Complete
  <1> HIDE DEF t, f, c
  <1>6. ~f.deleted => c \in [position : Positions, text : Texts, creatorId : {"somebody"}]
    <2>1. CASE t.committed = Null
      BY <1>2, <1>4, <1>5, <2>1 DEF PlainDiff, Over
    <2>2. CASE t.committed # Null
      BY <1>1, <1>2, <1>3, <1>4, <2>2 DEF PlainDiff, Over
    <2>3. QED
      BY <2>1, <2>2
  <1>7. c \in ServerStates("note") /\ (c = Null <=> f.deleted)
    <2>1. [position : Positions, text : Texts, creatorId : {"somebody"}] \subseteq
             ServerStates("note")
      BY DEF ServerStates
    <2>2. Null \in ServerStates("note")
      BY DEF ServerStates
    <2>3. ~f.deleted => c # Null
      <3>1. \A n \in [position : Positions, text : Texts, creatorId : {"somebody"}] :
               n = [position |-> n.position, text |-> n.text, creatorId |-> "somebody"]
        OBVIOUS
      <3>2. QED
        BY <1>6, <3>1, DataAssumption
    <2>4. QED
      BY <1>4, <1>6, <2>1, <2>2, <2>3
  <1>8. /\ u = [committed |-> c, patches |-> Tail(t.patches)] /\ WellMade("note", u)
        /\ Diffs(t) # <<>> /\ Diffs(u) = Tail(Diffs(t)) /\ f = Diffs(t)[1]
    BY <1>7, SettledIs DEF t, f
  <1>9. Diffs(t) \in Seq(PlainDiff)
    BY NoteChanges DEF t
  <1> HIDE DEF u
  <1>10. Known(u) = Onto(Known(t), f)
    <2>1. u.committed = c
      BY <1>8
    <2>2. CASE f.deleted
      BY <1>7, <2>1, <2>2 DEF Known, Onto
    <2>3. CASE ~f.deleted
      <3>1. Known(u) = NoteDiff(c.position, c.text)
        BY <1>7, <2>1, <2>3 DEF Known, DiffOfNote
      <3>2. /\ Known(t).position = IF t.committed = Null THEN Undefined ELSE t.committed.position
            /\ Known(t).text = IF t.committed = Null THEN Undefined ELSE t.committed.text
        BY DEF Known, DiffOfNote, NoteDiff
      <3>3. c.position = Over(f.position, Known(t).position) /\ c.text = Over(f.text, Known(t).text)
        BY <1>4, <2>3, <3>2
      <3>4. QED
        BY <2>3, <3>1, <3>3 DEF Onto
    <2>4. QED
      BY <2>2, <2>3
  <1>11. Whole(u) = Whole(t)
    BY <1>8, <1>9, <1>10, OntoLater DEF Whole
  <1>12. WellMade("note", t)
    BY DEF t
  <1>13. ASSUME NEW v, WellMade("note", v)
         PROVE  Shown(v) = IF Complete(Whole(v)) THEN Whole(v) ELSE Null
    BY <1>13, NoteIsWhole DEF Shown
  <1>14. Shown(u) = Shown(t)
    BY <1>8, <1>11, <1>12, <1>13
  <1>15. QED
    BY <1>14 DEF t, f, c, u

LEMMA LineSettles ==
  ASSUME kind = "line", WellMade("line", timeline), timeline.patches # <<>>,
         DeletesLast(timeline)
  PROVE  Shown(Settled(timeline, Changed(Head(timeline.patches).diff))) = Shown(timeline)
  <1> DEFINE t == timeline
             p == t.patches
             f == Head(p).diff
             c == Changed(f)
             u == Settled(t, c)
  <1>1. t.committed \in ServerStates("line") /\ p \in Seq(PatchesOf("line"))
    BY DEF WellMade
  <1>2. /\ Len(p) \in Nat /\ DOMAIN p = 1..Len(p) /\ 1 \in 1..Len(p) /\ Head(p) = p[1]
    BY <1>1
  <1>3. \A d \in DiffsOf("line") : /\ d.points \in SUBSET Points
                                   /\ d.type = "LINE_DELETED" <=> d = LineDeletion
    <2>1. ASSUME NEW d \in LineDiffs
          PROVE  d.points \in SUBSET Points /\ (d.type = "LINE_DELETED" <=> d = LineDeletion)
      BY DEF LineDiffs, LineDiff, LineDeletion
    <2>2. DiffsOf("line") \subseteq LineDiffs
      BY DEF DiffsOf, ChangesTo, Creations, LineDiffs, AddPoints
    <2>3. QED
      BY <2>1, <2>2
  <1>4. \A i \in 1..Len(p) : p[i].diff \in DiffsOf("line")
    <2>1. \A q \in PatchesOf("line") : q.diff \in DiffsOf("line")
      BY DEF PatchesOf
    <2>2. QED
      BY <1>1, <2>1
  <1>5. ServerStates("line") = {Null} \cup SUBSET Points
    BY DEF ServerStates
  <1>6. Base(t) \in SUBSET Points
    BY <1>1, <1>5 DEF Base
  <1>7. c = IF f = LineDeletion THEN Null ELSE Draw(Base(t), f)
    BY DEF Changed, Base
  <1>8. \A i \in 1..Len(p) : p[i].diff = LineDeletion => i = Len(p)
    BY <1>2 DEF DeletesLast
  <1> HIDE DEF t, p, f, c
  <1>9. f \in DiffsOf("line") /\ f = p[1].diff
    BY <1>2, <1>4 DEF f
  <1>10. Draw(Base(t), f) \in SUBSET Points
    <2>1. f.points \in SUBSET Points
      BY <1>3, <1>9
    <2>2. QED
      BY <1>6, <2>1 DEF Draw
  <1>11. c \in ServerStates("line")
    BY <1>5, <1>7, <1>10
  <1>12. WellMade("line", t)
    BY DEF t
  <1>13. /\ u = [committed |-> c, patches |-> Tail(p)] /\ WellMade("line", u)
         /\ Diffs(t) # <<>> /\ Diffs(u) = Tail(Diffs(t)) /\ f = Diffs(t)[1]
    BY <1>11, <1>12, SettledIs DEF t, p, f
  <1>14. /\ Tail(p) \in Seq(PatchesOf("line")) /\ Len(p) = Len(Tail(p)) + 1
         /\ \A i \in 1..Len(Tail(p)) : Tail(p)[i] = p[i + 1]
    BY <1>1, <1>2, HeadTailProperties
  <1> DEFINE w == Tail(p)
  <1> HIDE DEF u, w
  <1>15. u.patches = w /\ DOMAIN w = 1..Len(w) /\ Len(w) \in Nat
    BY <1>13, <1>14 DEF w
  <1>16. Deleted(t) <=> \E i \in 1..Len(p) : p[i].diff = LineDeletion
    BY <1>2, <1>3, <1>4 DEF Deleted, p
  <1>17. Deleted(u) <=> \E i \in 1..Len(w) : p[i + 1].diff = LineDeletion
    <2>1. \A i \in 1..Len(w) : i + 1 \in 1..Len(p) /\ w[i] = p[i + 1]
      BY <1>2, <1>14 DEF w
    <2>2. \A i \in 1..Len(w) : w[i].diff.type = "LINE_DELETED" <=> p[i + 1].diff = LineDeletion
      BY <1>3, <1>4, <2>1
    <2>3. QED
      BY <1>15, <2>2 DEF Deleted
  <1>18. /\ getEffectiveLine(t) = IF Deleted(t) THEN Null ELSE Drawing(t)
         /\ getEffectiveLine(u) = IF Deleted(u) THEN Null ELSE Drawing(u)
    BY <1>12, <1>13, LineIsDrawn
  <1>19. /\ Shown(t) = IF Deleted(t) \/ Drawing(t) = Null THEN {} ELSE Drawing(t)
         /\ Shown(u) = IF Deleted(u) \/ Drawing(u) = Null THEN {} ELSE Drawing(u)
    <2>1. /\ Shown(t) = IF getEffectiveLine(t) = Null THEN {} ELSE getEffectiveLine(t)
          /\ Shown(u) = IF getEffectiveLine(u) = Null THEN {} ELSE getEffectiveLine(u)
      BY DEF Shown
    <2>2. QED
      BY <1>18, <2>1
  <1>20. ASSUME Deleted(t) PROVE Shown(u) = Shown(t)
    <2>1. PICK i \in 1..Len(p) : p[i].diff = LineDeletion
      BY <1>16, <1>20
    <2>2. i = Len(p)
      BY <1>8, <2>1
    <2>3. Shown(t) = {}
      BY <1>19, <1>20
    <2>4. CASE i = 1
      <3>1. c = Null /\ Len(w) = 0
        <4>1. f = LineDeletion /\ Len(p) = 1
          BY <1>9, <2>1, <2>2, <2>4
        <4>2. Len(p) = Len(w) + 1
          BY <1>14 DEF w
        <4>3. QED
          BY <1>7, <1>15, <4>1, <4>2
      <3>2. Base(u) = {} /\ ~Deleted(u)
        BY <1>13, <1>17, <3>1 DEF Base
      <3>3. Diffs(u) = <<>>
        BY <1>15, <3>1 DEF Diffs
      <3>4. Drawing(u) = {}
        <4>1. <<>> \in Seq(DiffsOf("line")) /\ Len(<<>>) = 0
          OBVIOUS
        <4>2. PICK g : /\ g[0] = {}
                       /\ \A n \in Nat : n < Len(<<>>) => g[n + 1] = Draw(g[n], <<>>[n + 1])
                       /\ FoldLeft(Draw, {}, <<>>) = g[Len(<<>>)]
          BY <4>1, DrawByStep, Zenon
        <4>3. FoldLeft(Draw, {}, <<>>) = {}
          BY <4>1, <4>2
        <4>4. QED
          BY <3>2, <3>3, <4>3 DEF Drawing
      <3>5. QED
        BY <1>19, <2>3, <3>2, <3>4
    <2>5. CASE i # 1
      <3>1. i - 1 \in 1..Len(w) /\ (i - 1) + 1 = i
        BY <1>2, <1>14, <1>15, <2>5 DEF w
      <3>2. Deleted(u)
        BY <1>17, <2>1, <3>1
      <3>3. QED
        BY <1>19, <2>3, <3>2
    <2>6. QED
      BY <2>4, <2>5
  <1>21. ASSUME ~Deleted(t) PROVE Shown(u) = Shown(t)
    <2>1. ~Deleted(u)
      <3>1. \A i \in 1..Len(w) : i + 1 \in 1..Len(p)
        BY <1>2, <1>14 DEF w
      <3>2. QED
        BY <1>16, <1>17, <1>21, <3>1
    <2>2. f # LineDeletion
      BY <1>2, <1>9, <1>16, <1>21
    <2>3. Base(u) = Draw(Base(t), f)
      <3>1. u.committed = c /\ c = Draw(Base(t), f)
        BY <1>7, <1>13, <2>2
      <3>2. c # Null
        BY <1>10, <3>1, DataAssumption
      <3>3. QED
        BY <3>1, <3>2 DEF Base
    <2>4. Diffs(t) \in Seq(DiffsOf("line"))
      BY <1>12, DiffsOfPatches
    <2>5. Drawing(u) = Drawing(t)
      BY <1>13, <2>3, <2>4, DrawLater DEF Drawing
    <2>6. QED
      BY <1>19, <1>21, <2>1, <2>5
  <1>22. Shown(u) = Shown(t)
    BY <1>20, <1>21
  <1>23. QED
    BY <1>22 DEF t, p, f, c, u

(* Among some of the first n numbers there is a newest.                    *)
LEMMA NewestExists ==
  ASSUME NEW n \in Nat, NEW S \in SUBSET (1..n), S # {}
  PROVE  Newest(S) \in S
  <1> DEFINE T == {n - m : m \in S}
  <1>1. T \subseteq Nat /\ T # {}
    <2>1. \A m \in S : n - m \in Nat
      OBVIOUS
    <2>2. QED
      BY <2>1
  <1>2. PICK k \in T : \A m \in T : k <= m
    <2> HIDE DEF T
    <2>1. QED
      BY <1>1, LeastNumber
  <1>3. PICK i \in S : k = n - i
    OBVIOUS
  <1>4. ASSUME NEW j \in S PROVE j <= i
    <2>1. n - j \in T
      OBVIOUS
    <2>2. n - i <= n - j
      BY <1>2, <1>3, <2>1
    <2>3. i \in 1..n /\ j \in 1..n
      OBVIOUS
    <2>4. QED
      BY <2>2, <2>3
  <1>5. S \subseteq Int
    OBVIOUS
  <1>6. Newest(S) = i
    BY <1>4, <1>5, NewestIs
  <1>7. QED
    BY <1>6

(* What a change of an image may say, and what is known of an image.       *)
PlainImg == [position : Positions, zIndex : {0, 1, Topmost, Undefined}]
ImgOf(t) == Changes(t, DiffOfImg(t.committed))

LEMMA ImgChanges ==
  ASSUME NEW t, WellMade("image", t)
  PROVE  /\ Diffs(t) \in Seq(PlainImg) /\ ImgOf(t) \in Seq(PlainImg)
         /\ t.committed = Null => ImgOf(t) = Diffs(t)
         /\ t.committed # Null =>
              /\ t.committed.position \in Positions
              /\ Len(ImgOf(t)) = Len(Diffs(t)) + 1
              /\ ImgOf(t)[1].position = t.committed.position
              /\ ImgOf(t)[1].zIndex # Undefined
              /\ \A i \in 1..Len(Diffs(t)) : ImgOf(t)[i + 1] = Diffs(t)[i]
  <1> DEFINE d == Diffs(t)
             x == DiffOfImg(t.committed)
  <1>1. d \in Seq(PlainImg)
    <2>1. DiffsOf("image") \subseteq PlainImg
      BY DEF DiffsOf, ChangesTo, Creations, ImgDiffs, ImgDiff, PlainImg
    <2>2. \A q \in PatchesOf("image") : q.diff \in PlainImg
      BY <2>1 DEF PatchesOf
    <2>3. t.patches \in Seq(PatchesOf("image"))
      BY DEF WellMade
    <2>4. \A i \in DOMAIN t.patches : t.patches[i].diff \in PlainImg
      BY <2>2, <2>3
    <2>5. DOMAIN t.patches = 1..Len(t.patches) /\ Len(t.patches) \in Nat
      BY <2>3
    <2>6. QED
      BY <2>4, <2>5 DEF Diffs
  <1> HIDE DEF d
  <1>2. CASE t.committed = Null
    <2>1. ImgOf(t) = <<>> \o d
      BY <1>2 DEF ImgOf, Changes, d
    <2>2. <<>> \o d = d
      BY <1>1
    <2>3. QED
      BY <1>1, <1>2, <2>1, <2>2 DEF d
  <1>3. CASE t.committed # Null
    <2>1. ImgOf(t) = <<x>> \o d
      BY <1>3 DEF ImgOf, Changes, d
    <2>2. t.committed \in [position : Positions, zIndex : {0, 1}]
      BY <1>3 DEF WellMade, ServerStates
    <2>3. /\ x \in PlainImg /\ x.position = t.committed.position /\ x.zIndex \in {0, 1}
          /\ t.committed.position \in Positions
      BY <2>2 DEF DiffOfImg, ImgDiff, PlainImg
    <2> HIDE DEF x
    <2>4. <<x>> \o d \in Seq(PlainImg) /\ Len(<<x>> \o d) = Len(d) + 1
      BY <1>1, <2>3
    <2>5. (<<x>> \o d)[1] = x /\ \A i \in 1..Len(d) : (<<x>> \o d)[i + 1] = d[i]
      BY <1>1, <2>3
    <2>6. x.zIndex # Undefined
      BY <2>3, DataAssumption
    <2>7. QED
      BY <1>1, <1>3, <2>1, <2>3, <2>4, <2>5, <2>6 DEF d
  <1>4. QED
    BY <1>2, <1>3

(* An image is shown where the newest change puts it, as soon as its place *)
(* in the order is known.                                                  *)
OrderKnown(t) ==
  t.committed # Null \/ \E i \in 1..Len(Diffs(t)) : Diffs(t)[i].zIndex # Undefined
Place(t) ==
  IF Diffs(t) = <<>> THEN t.committed.position ELSE Diffs(t)[Len(Diffs(t))].position

LEMMA ImgIsPlaced ==
  ASSUME NEW t, WellMade("image", t), OrderKnown(t)
  PROVE  getEffectiveImg(t) # Null /\ getEffectiveImg(t).position = Place(t)
  <1> DEFINE s == ImgOf(t)
             d == Diffs(t)
             A == {i \in DOMAIN s : s[i].position # Undefined}
             B == {i \in DOMAIN s : s[i].zIndex # Undefined}
             p == s[Newest(A)].position
             z == s[Newest(B)].zIndex
  <1>1. /\ d \in Seq(PlainImg) /\ s \in Seq(PlainImg)
        /\ t.committed = Null => s = d
        /\ t.committed # Null =>
             /\ Len(s) = Len(d) + 1
             /\ s[1].position = t.committed.position
             /\ s[1].zIndex # Undefined
             /\ \A i \in 1..Len(d) : s[i + 1] = d[i]
    BY ImgChanges
  <1>2. getEffectiveImg(t) =
          LET position == IF A = {} THEN Undefined ELSE p
              zIndex   == IF B = {} THEN Undefined ELSE z
          IN  IF Undefined \in {position, zIndex} THEN Null ELSE ImgDiff(position, zIndex)
    BY DEF getEffectiveImg, Field, ImgOf
  <1>3. t.committed # Null \/ \E i \in 1..Len(d) : d[i].zIndex # Undefined
    BY DEF OrderKnown
  <1>4. Place(t) = IF d = <<>> THEN t.committed.position ELSE d[Len(d)].position
    BY DEF Place
  <1> HIDE DEF s, d, A, B, p, z
  <1>5. Len(s) \in Nat /\ DOMAIN s = 1..Len(s) /\ Len(d) \in Nat
    BY <1>1
  <1>6. \A i \in 1..Len(s) : s[i].position \in Positions /\ s[i].position # Undefined
                             /\ s[i].zIndex \in {0, 1, Topmost, Undefined}
    <2>1. \A q \in PlainImg : /\ q.position \in Positions /\ q.position # Undefined
                              /\ q.zIndex \in {0, 1, Topmost, Undefined}
      BY DataAssumption DEF PlainImg
    <2>2. QED
      BY <1>1, <2>1
  <1>7. B # {} /\ B \in SUBSET (1..Len(s))
    <2>1. CASE t.committed # Null
      <3>1. 1 \in 1..Len(s)
        <4>1. Len(s) = Len(d) + 1
          BY <1>1, <2>1
        <4>2. QED
          BY <1>5, <4>1
      <3>2. QED
        BY <1>1, <1>5, <2>1, <3>1 DEF B
    <2>2. CASE t.committed = Null
      BY <1>1, <1>3, <1>5, <2>2 DEF B
    <2>3. QED
      BY <1>5, <2>1, <2>2 DEF B
  <1>8. Newest(B) \in B
    BY <1>5, <1>7, NewestExists
  <1>9. z # Undefined /\ z \in {0, 1, Topmost}
    BY <1>5, <1>6, <1>8 DEF B, z
  <1>10. A = 1..Len(s) /\ Len(s) \in A
    <2>1. A = 1..Len(s)
      BY <1>5, <1>6 DEF A
    <2>2. Len(s) # 0
      <3>1. PICK i \in B : i \in 1..Len(s)
        BY <1>7
      <3>2. QED
        BY <1>5, <3>1
    <2>3. QED
      BY <1>5, <2>1, <2>2
  <1>11. Newest(A) = Len(s)
    <2>1. A \subseteq Int /\ \A m \in A : m <= Len(s)
      BY <1>5, <1>10
    <2>2. QED
      BY <1>10, <2>1, NewestIs
  <1>12. p = s[Len(s)].position /\ p \in Positions /\ p # Undefined
    BY <1>6, <1>10, <1>11 DEF p
  <1>13. p = Place(t)
    <2>1. CASE t.committed = Null
      <3>1. s = d /\ d # <<>>
        BY <1>1, <1>3, <2>1
      <3>2. QED
        BY <1>4, <1>12, <3>1
    <2>2. CASE t.committed # Null /\ d = <<>>
      BY <1>1, <1>4, <1>12, <2>2
    <2>3. CASE t.committed # Null /\ d # <<>>
      <3>1. Len(d) \in 1..Len(d)
        BY <1>1, <2>3
      <3>2. s[Len(s)] = d[Len(d)]
        BY <1>1, <2>3, <3>1
      <3>3. QED
        BY <1>4, <1>12, <2>3, <3>2
    <2>4. QED
      BY <2>1, <2>2, <2>3
  <1>14. getEffectiveImg(t) = ImgDiff(p, z)
    BY <1>2, <1>7, <1>9, <1>10, <1>12
  <1>15. ImgDiff(p, z) # Null /\ ImgDiff(p, z).position = p
    BY <1>9, <1>12, DataAssumption DEF ImgDiff
  <1>16. QED
    BY <1>13, <1>14, <1>15

LEMMA ImgSettles ==
  ASSUME kind = "image", WellMade("image", timeline), timeline.patches # <<>>,
         Accepts(Head(timeline.patches).diff)
  PROVE  Shown(Settled(timeline, Changed(Head(timeline.patches).diff))) = Shown(timeline)
  <1> DEFINE t == timeline
             f == Head(t.patches).diff
             c == Changed(f)
             u == Settled(t, c)
             d == Diffs(t)
             e == Diffs(u)
  <1>1. t.patches \in Seq(PatchesOf("image"))
    BY DEF WellMade
  <1>2. f \in PlainImg
    <2>1. DiffsOf("image") \subseteq PlainImg
      BY DEF DiffsOf, ChangesTo, Creations, ImgDiffs, ImgDiff, PlainImg
    <2>2. \A q \in PatchesOf("image") : q.diff \in PlainImg
      BY <2>1 DEF PatchesOf
    <2>3. Head(t.patches) \in PatchesOf("image")
      BY <1>1
    <2>4. QED
      BY <2>2, <2>3
  <1>3. c = [position |-> Over(f.position, IF t.committed = Null THEN Undefined
                                           ELSE t.committed.position),
             zIndex   |-> 0]
    BY DEF Changed
  <1>4. t.committed # Null \/ f.zIndex # Undefined
    BY DEF Accepts
  <1>5. WellMade("image", t)
    BY DEF t
  <1> HIDE DEF t, f, c
  <1>6. f.position \in Positions /\ f.position # Undefined
    BY <1>2, DataAssumption DEF PlainImg
  <1>7. c = ImgDiff(f.position, 0)
    BY <1>3, <1>6 DEF Over, ImgDiff
  <1>8. /\ c \in ServerStates("image") /\ c # Null /\ c.position = f.position
    BY <1>6, <1>7, DataAssumption DEF ImgDiff, ServerStates
  <1>9. /\ u = [committed |-> c, patches |-> Tail(t.patches)] /\ WellMade("image", u)
        /\ d # <<>> /\ e = Tail(d) /\ f = d[1]
    BY <1>1, <1>5, <1>8, SettledIs DEF t, f
  <1>10. d \in Seq(PlainImg)
    BY <1>5, ImgChanges
  <1> HIDE DEF u, d, e
  <1>11. Len(d) \in Nat /\ 1 \in 1..Len(d) /\ Len(d) = Len(e) + 1 /\ Len(e) \in Nat
         /\ \A i \in 1..Len(e) : e[i] = d[i + 1]
    BY <1>9, <1>10, HeadTailProperties
  <1>12. OrderKnown(t)
    BY <1>4, <1>9, <1>11 DEF OrderKnown, d
  <1>13. u.committed = c
    BY <1>9
  <1>14. OrderKnown(u)
    BY <1>8, <1>13 DEF OrderKnown
  <1>15. Place(u) = Place(t)
    <2>1. Place(t) = d[Len(d)].position
      BY <1>9 DEF Place, d
    <2>2. Place(u) = IF e = <<>> THEN c.position ELSE e[Len(e)].position
      BY <1>13 DEF Place, e
    <2>3. CASE e = <<>>
      <3>1. Len(d) = 1
        BY <1>11, <2>3
      <3>2. QED
        BY <1>8, <1>9, <2>1, <2>2, <2>3, <3>1
    <2>4. CASE e # <<>>
      <3>1. Len(e) \in 1..Len(e)
        <4>1. e \in Seq(PlainImg)
          BY <1>9, <1>10, HeadTailProperties
        <4>2. QED
          BY <2>4, <4>1
      <3>2. e[Len(e)] = d[Len(d)]
        BY <1>11, <3>1
      <3>3. QED
        BY <2>1, <2>2, <2>4, <3>2
    <2>5. QED
      BY <2>3, <2>4
  <1>16. Shown(t) = Place(t) /\ Shown(u) = Place(u)
    <2>1. /\ getEffectiveImg(t) # Null /\ getEffectiveImg(t).position = Place(t)
          /\ getEffectiveImg(u) # Null /\ getEffectiveImg(u).position = Place(u)
      BY <1>5, <1>9, <1>12, <1>14, ImgIsPlaced
    <2>2. QED
      BY <2>1 DEF Shown
  <1>17. Shown(u) = Shown(t)
    BY <1>15, <1>16
  <1>18. QED
    BY <1>17 DEF t, f, c, u

(* The answer to the oldest change that the user made comes after the      *)
(* figure with this change, and changes nothing of what is shown, whatever *)
(* the figure is and however many changes are still on their way.          *)
THEOREM SettlingIsAlwaysInvisible == TimelineSpec => []SettlingIsInvisible
  <1>1. TimelineOK => SettlingIsInvisible
    <2> SUFFICES ASSUME TimelineOK, timeline.patches # <<>>,
                        kind = "line" => DeletesLast(timeline),
                        Accepts(Head(timeline.patches).diff)
                 PROVE  Shown(Settled(timeline, Changed(Head(timeline.patches).diff)))
                          = Shown(timeline)
      BY DEF SettlingIsInvisible, Settled
    <2>1. kind \in {"note", "line", "image"} /\ WellMade(kind, timeline)
      BY DEF TimelineOK
    <2>2. CASE kind = "note"
      BY <2>1, <2>2, NoteSettles
    <2>3. CASE kind = "line"
      BY <2>1, <2>3, LineSettles
    <2>4. CASE kind = "image"
      BY <2>1, <2>4, ImgSettles
    <2>5. QED
      BY <2>1, <2>2, <2>3, <2>4
  <1>2. QED
    BY <1>1, TimelinesAreWellMade, PTL
=============================================================================
