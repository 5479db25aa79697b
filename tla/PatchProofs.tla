----------------------------- MODULE PatchProofs ------------------------------
(***************************************************************************)
(* What is left of some patches when one is discarded, and what the proofs *)
(* about folds need: induction over the natural numbers with a set in      *)
(* place of a predicate, so that a use of it has no operator to            *)
(* instantiate, and facts about the sets of indices that FoldLeft walks    *)
(* over from the greatest element down.                                    *)
(***************************************************************************)
EXTENDS Patches, SequenceTheorems, WellFoundedInduction, TLAPS

(* A set of numbers has a least one: < is well founded.                    *)
LEMMA LeastNumber ==
  ASSUME NEW T, T \subseteq Nat, T # {}
  PROVE  \E n \in T : \A m \in T : n <= m
  <1> DEFINE Less == {pair \in Nat \X Nat : pair[1] < pair[2]}
  <1>1. IsWellFoundedOn(Less, Nat)
    BY NatLessThanWellFounded DEF OpToRel
  <1>2. \A m, n \in Nat : m < n => <<m, n>> \in Less
    OBVIOUS
  <1> HIDE DEF Less
  <1>3. PICK n \in T : \A m \in T : ~(<<m, n>> \in Less)
    BY <1>1, WFMin
  <1>4. ASSUME NEW m \in T PROVE n <= m
    <2>1. m \in Nat /\ n \in Nat
      OBVIOUS
    <2>2. ~(m < n)
      BY <1>2, <1>3, <2>1
    <2>3. QED
      BY <2>1, <2>2
  <1>5. QED
    BY <1>4

(* Induction: what holds of 0, and of a number after it holds of the one   *)
(* before, holds of all numbers.                                           *)
LEMMA ByInduction ==
  ASSUME NEW T, 0 \in T, \A n \in Nat : n \in T => n + 1 \in T
  PROVE  Nat \subseteq T
  <1> DEFINE Bad == Nat \ T
  <1> SUFFICES ASSUME Bad # {} PROVE FALSE
    OBVIOUS
  <1>1. PICK n \in Bad : \A m \in Bad : n <= m
    BY LeastNumber
  <1>2. n \in Nat /\ n # 0
    OBVIOUS
  <1>3. n - 1 \in Nat /\ ~(n <= n - 1)
    BY <1>2
  <1>4. n - 1 \in T
    BY <1>1, <1>3
  <1>5. (n - 1) + 1 \in T /\ (n - 1) + 1 = n
    BY <1>2, <1>3, <1>4
  <1>6. QED
    BY <1>5

(* The greatest element of a set of numbers, if there is one.              *)
LEMMA MaxIs ==
  ASSUME NEW S, S \subseteq Int, NEW n \in S, \A m \in S : m <= n
  PROVE  Max(S) = n
  <1>1. n \in S /\ \A m \in S : n >= m
    OBVIOUS
  <1>2. \A x \in S : (\A y \in S : x >= y) => x = n
    OBVIOUS
  <1>3. QED
    BY <1>1, <1>2 DEF Max

LEMMA MaxOfRange ==
  ASSUME NEW n \in Nat
  PROVE  Max(1..(n + 1)) = n + 1 /\ (1..(n + 1)) \ {n + 1} = 1..n /\ 1..0 = {}
  <1>1. Max(1..(n + 1)) = n + 1
    <2> DEFINE S == 1..(n + 1)
    <2>1. S \subseteq Int /\ n + 1 \in S /\ \A m \in S : m <= n + 1
      OBVIOUS
    <2> HIDE DEF S
    <2>2. Max(S) = n + 1
      BY <2>1, MaxIs
    <2>3. QED
      BY <2>2 DEF S
  <1>2. QED
    BY <1>1
-----------------------------------------------------------------------------
(* Discarding patches.                                                     *)

(* The patches that stay are found from the oldest on.                     *)
LEMMA WithoutByStep ==
  ASSUME NEW S, NEW s \in Seq(S), NEW id
  PROVE  \E g : /\ g[0] = <<>>
                /\ \A n \in Nat : n < Len(s) =>
                     g[n + 1] = IF s[n + 1].id = id THEN g[n] ELSE Append(g[n], s[n + 1])
                /\ Without(s, id) = g[Len(s)]
  <1> DEFINE Step(g, t) ==
               IF t = {} THEN <<>>
               ELSE LET n == Max(t) IN IF s[n].id = id THEN g[t \ {n}] ELSE Append(g[t \ {n}], s[n])
             Fun(n, g) == g = [t \in SUBSET (1..n) |-> Step(g, t)]
             F == CHOOSE g : g = [t \in SUBSET DOMAIN s |-> Step(g, t)]
  <1>1. Without(s, id) = F[DOMAIN s]
    BY DEF Without, FoldLeft, MapThenFoldSet
  <1>2. DOMAIN s = 1..Len(s) /\ Len(s) \in Nat
    OBVIOUS
  <1>3. \A n \in Nat : \E g : Fun(n, g)
    <2> DEFINE T == {n \in Nat : \E g : Fun(n, g)}
    <2>1. 0 \in T
      <3>1. Fun(0, [t \in SUBSET (1..0) |-> <<>>])
        OBVIOUS
      <3>2. QED
        BY <3>1
    <2>2. ASSUME NEW n \in Nat, n \in T PROVE n + 1 \in T
      <3>1. PICK g : Fun(n, g)
        BY <2>2
      <3> DEFINE h == [t \in SUBSET (1..(n + 1)) |-> IF n + 1 \in t THEN Step(g, t) ELSE g[t]]
      <3>2. ASSUME NEW t \in SUBSET (1..(n + 1)) PROVE h[t] = Step(h, t)
        <4>1. CASE n + 1 \in t
          <5>1. Max(t) = n + 1
            <6>1. t \subseteq Int /\ \A m \in t : m <= n + 1
              OBVIOUS
            <6>2. QED
              BY <4>1, <6>1, MaxIs
          <5>2. t \ {n + 1} \in SUBSET (1..(n + 1)) /\ n + 1 \notin t \ {n + 1}
            OBVIOUS
          <5>3. h[t] = Step(g, t) /\ h[t \ {n + 1}] = g[t \ {n + 1}]
            BY <4>1, <5>2
          <5>4. QED
            BY <4>1, <5>1, <5>3
        <4>2. CASE n + 1 \notin t
          <5>1. t \in SUBSET (1..n)
            BY <4>2
          <5>2. h[t] = g[t] /\ g[t] = Step(g, t)
            BY <3>1, <4>2, <5>1
          <5>3. \A m : h[t \ {m}] = g[t \ {m}]
            BY <4>2
          <5>4. QED
            BY <5>2, <5>3
        <4>3. QED
          BY <4>1, <4>2
      <3>3. Fun(n + 1, h)
        BY <3>2
      <3> HIDE DEF h, Fun
      <3>4. QED
        BY <3>3
    <2> HIDE DEF T
    <2>3. Nat \subseteq T
      BY <2>1, <2>2, ByInduction
    <2>4. QED
      BY <2>3 DEF T
  <1>4. \A t \in SUBSET (1..Len(s)) : F[t] = Step(F, t)
    <2>1. Fun(Len(s), F)
      BY <1>2, <1>3
    <2>2. QED
      BY <2>1
  <1> HIDE DEF F
  <1> DEFINE g == [n \in Nat |-> F[1..n]]
  <1>5. g[0] = <<>>
    <2>1. F[{}] = <<>>
      BY <1>4
    <2>2. g[0] = F[{}]
      <3>1. 1..0 = {}
        OBVIOUS
      <3>2. QED
        BY <3>1
    <2>3. QED
      BY <2>1, <2>2
  <1>6. ASSUME NEW n \in Nat, n < Len(s)
        PROVE  g[n + 1] = IF s[n + 1].id = id THEN g[n] ELSE Append(g[n], s[n + 1])
    <2> DEFINE t == 1..(n + 1)
    <2>1. t \in SUBSET (1..Len(s)) /\ t # {} /\ Max(t) = n + 1 /\ t \ {n + 1} = 1..n
      <3>1. t \in SUBSET (1..Len(s))
        BY <1>2, <1>6
      <3>2. n + 1 \in t
        OBVIOUS
      <3>3. QED
        BY <3>1, <3>2, MaxOfRange
    <2>2. g[n] = F[1..n] /\ g[n + 1] = F[t]
      OBVIOUS
    <2> HIDE DEF t, g
    <2>3. F[t] = Step(F, t)
      BY <1>4, <2>1
    <2>4. QED
      BY <2>1, <2>2, <2>3
  <1>7. Without(s, id) = g[Len(s)]
    BY <1>1, <1>2
  <1> HIDE DEF g
  <1>8. \A n \in Nat : n < Len(s) =>
          g[n + 1] = IF s[n + 1].id = id THEN g[n] ELSE Append(g[n], s[n + 1])
    BY <1>6
  <1>9. QED
    BY <1>5, <1>7, <1>8

(* The patches were made one after the other.                              *)
MadeInOrder(s) == \A i, j \in DOMAIN s : i < j => s[i].id < s[j].id

(* No patch with the id stays, and the others stay in order.               *)
LEMMA WithoutKeeps ==
  ASSUME NEW S, NEW s \in Seq(S), NEW id, \A p \in S : p.id \in Nat, MadeInOrder(s)
  PROVE  /\ Without(s, id) \in Seq(S)
         /\ MadeInOrder(Without(s, id))
         /\ \A i \in DOMAIN Without(s, id) : \E k \in DOMAIN s : Without(s, id)[i] = s[k]
  <1> DEFINE Good(n, w) ==
               /\ w \in Seq(S)
               /\ \A i \in 1..Len(w) : \E k \in 1..n : w[i] = s[k]
               /\ \A i, j \in 1..Len(w) : i < j => w[i].id < w[j].id
  <1>1. PICK g : /\ g[0] = <<>>
                 /\ \A n \in Nat : n < Len(s) =>
                      g[n + 1] = IF s[n + 1].id = id THEN g[n] ELSE Append(g[n], s[n + 1])
                 /\ Without(s, id) = g[Len(s)]
    BY WithoutByStep
  <1>2. Len(s) \in Nat /\ DOMAIN s = 1..Len(s)
    OBVIOUS
  <1> DEFINE T == {n \in Nat : n <= Len(s) => Good(n, g[n])}
  <1>3. 0 \in T
    <2>1. Good(0, <<>>)
      OBVIOUS
    <2>2. QED
      BY <1>1, <2>1
  <1>4. ASSUME NEW n \in Nat, n \in T PROVE n + 1 \in T
    <2> SUFFICES ASSUME n + 1 <= Len(s) PROVE Good(n + 1, g[n + 1])
      OBVIOUS
    <2>1. Good(n, g[n])
      BY <1>2, <1>4
    <2> DEFINE w == g[n]
               p == s[n + 1]
    <2>2. p \in S /\ p.id \in Nat
      OBVIOUS
    <2>3. CASE p.id = id
      <3>1. g[n + 1] = w
        BY <1>1, <1>2, <2>3
      <3>2. QED
        BY <2>1, <3>1
    <2>4. CASE p.id # id
      <3>1. g[n + 1] = Append(w, p)
        <4>1. n < Len(s)
          BY <1>2
        <4>2. g[n + 1] = IF p.id = id THEN w ELSE Append(w, p)
          BY <1>1, <4>1
        <4>3. QED
          BY <2>4, <4>2
      <3>2. ASSUME NEW i \in 1..Len(w) PROVE w[i].id < p.id
        <4>1. PICK k \in 1..n : w[i] = s[k]
          BY <2>1, <3>2
        <4>2. k \in DOMAIN s /\ n + 1 \in DOMAIN s /\ k < n + 1
          BY <1>2
        <4>3. QED
          BY <4>1, <4>2 DEF MadeInOrder
      <3> HIDE DEF w, p
      <3>3. w \in Seq(S) /\ Append(w, p) \in Seq(S) /\ Len(Append(w, p)) = Len(w) + 1
        BY <2>1, <2>2 DEF w
      <3>4. /\ Append(w, p)[Len(w) + 1] = p
            /\ \A i \in 1..Len(w) : Append(w, p)[i] = w[i]
        BY <3>3
      <3>5. \A i \in 1..(Len(w) + 1) : \E k \in 1..(n + 1) : Append(w, p)[i] = s[k]
        <4> TAKE i \in 1..(Len(w) + 1)
        <4>1. CASE i = Len(w) + 1
          BY <3>4, <4>1 DEF p
        <4>2. CASE i \in 1..Len(w)
          <5>1. PICK k \in 1..n : w[i] = s[k]
            BY <2>1, <4>2 DEF w
          <5>2. k \in 1..(n + 1)
            OBVIOUS
          <5>3. QED
            BY <3>4, <4>2, <5>1, <5>2
        <4>3. QED
          BY <3>3, <4>1, <4>2
      <3>6. \A i, j \in 1..(Len(w) + 1) : i < j => Append(w, p)[i].id < Append(w, p)[j].id
        <4> TAKE i, j \in 1..(Len(w) + 1)
        <4> HAVE i < j
        <4>1. i \in 1..Len(w) /\ (j = Len(w) + 1 \/ j \in 1..Len(w))
          BY <3>3
        <4>2. CASE j = Len(w) + 1
          BY <3>2, <3>4, <4>1, <4>2
        <4>3. CASE j \in 1..Len(w)
          <5>1. w[i].id < w[j].id
            BY <2>1, <4>1, <4>3 DEF w
          <5>2. QED
            BY <3>4, <4>1, <4>3, <5>1
        <4>4. QED
          BY <4>1, <4>2, <4>3
      <3>7. QED
        BY <3>1, <3>3, <3>5, <3>6
    <2>5. QED
      BY <2>3, <2>4
  <1> HIDE DEF T
  <1>5. Nat \subseteq T
    BY <1>3, <1>4, ByInduction
  <1>6. Good(Len(s), Without(s, id))
    BY <1>1, <1>2, <1>5 DEF T
  <1>7. DOMAIN Without(s, id) = 1..Len(Without(s, id))
    BY <1>6
  <1>8. QED
    BY <1>2, <1>6, <1>7 DEF MadeInOrder

(* When the oldest patch is discarded the others stay.                     *)
LEMMA WithoutFirst ==
  ASSUME NEW S, NEW s \in Seq(S), \A p \in S : p.id \in Nat, MadeInOrder(s), s # <<>>
  PROVE  Without(s, s[1].id) = Tail(s)
  <1> DEFINE id   == s[1].id
             R(n) == [i \in 1..n |-> s[i + 1]]
  <1>1. PICK g : /\ g[0] = <<>>
                 /\ \A n \in Nat : n < Len(s) =>
                      g[n + 1] = IF s[n + 1].id = id THEN g[n] ELSE Append(g[n], s[n + 1])
                 /\ Without(s, id) = g[Len(s)]
    BY WithoutByStep
  <1>2. Len(s) \in Nat /\ DOMAIN s = 1..Len(s) /\ 1 \in DOMAIN s
    OBVIOUS
  <1> DEFINE T == {n \in Nat : n + 1 <= Len(s) => g[n + 1] = R(n)}
  <1>3. 0 \in T
    <2>1. R(0) = <<>>
      OBVIOUS
    <2>2. g[0 + 1] = g[0]
      <3>1. 0 < Len(s) /\ s[0 + 1].id = id
        BY <1>2
      <3>2. QED
        BY <1>1, <3>1
    <2>3. QED
      BY <1>1, <2>1, <2>2
  <1>4. ASSUME NEW n \in Nat, n \in T PROVE n + 1 \in T
    <2> SUFFICES ASSUME (n + 1) + 1 <= Len(s) PROVE g[(n + 1) + 1] = R(n + 1)
      OBVIOUS
    <2> DEFINE p == s[(n + 1) + 1]
    <2>1. g[n + 1] = R(n)
      BY <1>2, <1>4
    <2>2. p.id # id
      <3>1. (n + 1) + 1 \in DOMAIN s /\ 1 < (n + 1) + 1
        BY <1>2
      <3>2. s[1].id < p.id
        BY <1>2, <3>1 DEF MadeInOrder
      <3>3. s[1].id \in Nat
        BY <1>2
      <3>4. QED
        BY <3>2, <3>3
    <2>3. g[(n + 1) + 1] = Append(R(n), p)
      <3>1. n + 1 \in Nat /\ n + 1 < Len(s)
        BY <1>2
      <3>2. g[(n + 1) + 1] = IF p.id = id THEN g[n + 1] ELSE Append(g[n + 1], p)
        BY <1>1, <3>1
      <3> HIDE DEF p, id, R
      <3>3. QED
        BY <2>1, <2>2, <3>2
    <2>4. R(n) \in Seq(S) /\ Len(R(n)) = n /\ p \in S
      BY <1>2
    <2>5. Append(R(n), p) = R(n + 1)
      BY <2>4
    <2>6. QED
      BY <2>3, <2>5
  <1> HIDE DEF T
  <1>5. Nat \subseteq T
    BY <1>3, <1>4, ByInduction
  <1>6. PICK n \in Nat : Len(s) = n + 1
    <2>1. Len(s) - 1 \in Nat /\ Len(s) = (Len(s) - 1) + 1
      BY <1>2
    <2>2. QED
      BY <2>1
  <1>7. g[n + 1] = R(n)
    BY <1>5, <1>6 DEF T
  <1>8. Tail(s) = R(n)
    <2> DEFINE w == Tail(s)
    <2>1. w \in Seq(S) /\ Len(w) = n /\ \A i \in 1..n : w[i] = s[i + 1]
      BY <1>2, <1>6, HeadTailProperties
    <2> HIDE DEF w
    <2>2. w = [i \in 1..n |-> w[i]]
      BY <2>1
    <2>3. w = R(n)
      BY <2>1, <2>2
    <2>4. QED
      BY <2>3 DEF w
  <1>9. QED
    BY <1>1, <1>6, <1>7, <1>8

(* Nothing but the patches with the id is gone.                            *)
LEMMA WithoutDrops ==
  ASSUME NEW S, NEW s \in Seq(S), NEW id, NEW R, \A p \in S : p.id # id => p \in R
  PROVE  Without(s, id) \in Seq(R)
  <1>1. PICK g : /\ g[0] = <<>>
                 /\ \A n \in Nat : n < Len(s) =>
                      g[n + 1] = IF s[n + 1].id = id THEN g[n] ELSE Append(g[n], s[n + 1])
                 /\ Without(s, id) = g[Len(s)]
    BY WithoutByStep
  <1> DEFINE T == {n \in Nat : n <= Len(s) => g[n] \in Seq(R)}
  <1>2. 0 \in T
    <2>1. <<>> \in Seq(R)
      OBVIOUS
    <2>2. QED
      BY <1>1, <2>1
  <1>3. ASSUME NEW n \in Nat, n \in T PROVE n + 1 \in T
    <2> SUFFICES ASSUME n + 1 <= Len(s) PROVE g[n + 1] \in Seq(R)
      OBVIOUS
    <2>1. n < Len(s) /\ n + 1 \in 1..Len(s) /\ s[n + 1] \in S /\ g[n] \in Seq(R)
      BY <1>3
    <2>2. g[n + 1] = IF s[n + 1].id = id THEN g[n] ELSE Append(g[n], s[n + 1])
      BY <1>1, <2>1
    <2>3. QED
      BY <2>1, <2>2
  <1> HIDE DEF T
  <1>4. Nat \subseteq T
    BY <1>2, <1>3, ByInduction
  <1>5. Len(s) \in Nat
    OBVIOUS
  <1>6. QED
    BY <1>1, <1>4, <1>5 DEF T
=============================================================================
