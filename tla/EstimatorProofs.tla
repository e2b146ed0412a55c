-------------------------- MODULE EstimatorProofs ---------------------------
(***************************************************************************)
(* A round's recommendation is computed from exactly the first captures of *)
(* the rolling window, and its verdict is sound, for every grid of ef      *)
(* values, target, window and sequence of parts.                           *)
(***************************************************************************)
EXTENDS Estimator, DataLemmas

-----------------------------------------------------------------------------
(* The choice of ef.                                                       *)

\* select_ef picks the least ef of the grid whose train evidence clears.
LEMMA SelectedIsLeast ==
    ASSUME NEW pop, SelectEf(pop).ok
    PROVE  /\ SelectEf(pop).ef \in Efs
           /\ ClearsTrain(pop, SelectEf(pop).ef)
           /\ \A e \in Efs : e < SelectEf(pop).ef => ~ClearsTrain(pop, e)
<1> DEFINE top == EfGrid[Len(EfGrid)]
           S == {e \in Efs : ClearsTrain(pop, e)}
<1>1. top \in Efs /\ Efs \subseteq Nat
  BY GridAssumption DEF Efs, ToSet
<1>2. ClearsTrain(pop, top) /\ SelectEf(pop) = [ef |-> Min(S), ok |-> TRUE]
  BY DEF SelectEf
<1>3. S \in SUBSET Nat /\ S # {}
  BY <1>1, <1>2
<1>4. Min(S) \in S /\ \A x \in S : Min(S) <= x
  <2> HIDE DEF S
  <2> QED
    BY <1>3, MinIsLeast
<1>5. SelectEf(pop).ef = Min(S)
  BY <1>2
<1>6. ASSUME NEW e \in Efs, e < Min(S) PROVE ~ClearsTrain(pop, e)
  <2>1. e \in Nat /\ Min(S) \in Nat /\ ~(Min(S) <= e)
    <3> HIDE DEF S
    <3>1. e \in Nat /\ Min(S) \in Nat
      BY <1>1, <1>3, <1>4
    <3> QED
      BY <1>6, <3>1
  <2> QED
    BY <1>4, <2>1
<1> QED
  BY <1>4, <1>5, <1>6

\* A round replaces the recommendation only by the least ef of the grid that
\* cleared on the train vectors and cleared again on the test vectors, which
\* have no train vector among them (aggregate, select_ef,
\* select_and_validate), for every grid, target and population.
THEOREM FreshIsEarnedHolds == EstimatorSpec => FreshIsEarned
<1>1. ASSUME [EstimatorNext]_estimator, roundEnd' # roundEnd, effective' # effective
      PROVE  LET pop == Population
                 t == Test(pop)
             IN  /\ ~abort
                 /\ effective' \in Efs
                 /\ ClearsTrain(pop, effective')
                 /\ \A e \in Efs : e < effective' => ~ClearsTrain(pop, e)
                 /\ t \cap Train(pop) = {}
                 /\ Clears(Cardinality(t), Successes(t, effective'), Approval)
  <2> DEFINE pop == Population
             t == Test(pop)
  <2>1. Aggregate
    BY <1>1 DEF EstimatorNext, AddSample, estimator
  <2>2. /\ ~Insufficient(pop) /\ Approved(pop)
        /\ effective' = SelectEf(pop).ef
    BY <1>1, <2>1 DEF Aggregate, EffectiveRecommendation
  <2>3. ~abort
    BY <2>2 DEF Insufficient
  <2>4. /\ SelectEf(pop).ok
        /\ Clears(Cardinality(t), Successes(t, SelectEf(pop).ef), Approval)
    BY <2>2 DEF Approved
  <2>5. t \cap Train(pop) = {}
    BY DEF Test
  <2> HIDE DEF pop
  <2>6. /\ SelectEf(pop).ef \in Efs
        /\ ClearsTrain(pop, SelectEf(pop).ef)
        /\ \A e \in Efs : e < SelectEf(pop).ef => ~ClearsTrain(pop, e)
    BY <2>4, SelectedIsLeast
  <2>7. /\ ~abort
        /\ effective' \in Efs
        /\ ClearsTrain(pop, effective')
        /\ \A e \in Efs : e < effective' => ~ClearsTrain(pop, e)
        /\ t \cap Train(pop) = {}
        /\ Clears(Cardinality(t), Successes(t, effective'), Approval)
    BY <2>2, <2>3, <2>4, <2>5, <2>6, Zenon
  <2> QED
    BY <2>7, Zenon DEF pop
<1> QED
  BY <1>1, PTL DEF EstimatorSpec, FreshIsEarned

-----------------------------------------------------------------------------
(* The population.                                                         *)

\* Samples are told apart by their part and their place in it.
Placed(P) ==
    /\ \A s \in P : s.part \in Int /\ s.index \in Int
    /\ \A s, t \in P : s.part = t.part /\ s.index = t.index => s = t

\* K has the first sample of every vector of P, and no other.
Firsts(K, P) ==
    /\ K \subseteq P
    /\ \A t \in P : \E k \in K : k.hash = t.hash /\ ~Earlier(t, k)
    /\ \A k, l \in K : k.hash = l.hash => k = l

\* One turn of the deduplication keeps the first samples.
LEMMA KeepsFirst ==
    ASSUME NEW K, NEW P, NEW s, Firsts(K, P), Placed(P \cup {s})
    PROVE  Firsts(KeepFirst(K, s), P \cup {s})
<1> DEFINE same == {t \in K : t.hash = s.hash}
<1>0. /\ K \subseteq P
      /\ \A t \in P : \E k \in K : k.hash = t.hash /\ ~Earlier(t, k)
      /\ \A k, l \in K : k.hash = l.hash => k = l
  BY DEF Firsts
<1>1. \A x, y, z \in P \cup {s} : Earlier(x, y) /\ Earlier(y, z) => Earlier(x, z)
  BY DEF Placed, Earlier
<1>2. \A x \in P \cup {s} : ~Earlier(x, x)
  BY DEF Placed, Earlier
<1>3. CASE same = {}
  <2>1. KeepFirst(K, s) = K \cup {s}
    BY <1>3 DEF KeepFirst
  <2>2. \A k \in K : k.hash # s.hash
    BY <1>3
  <2> QED
    BY <1>0, <1>2, <2>1, <2>2 DEF Firsts
<1>4. CASE same # {}
  <2>1. PICK k \in K : k.hash = s.hash
    BY <1>4
  <2>2. same = {k}
    BY <1>0, <2>1
  <2>3. CASE Earlier(s, k)
    <3>1. KeepFirst(K, s) = (K \ {k}) \cup {s}
      BY <2>2, <2>3, Zenon DEF KeepFirst
    <3>2. ASSUME NEW t \in P \cup {s}
          PROVE  \E l \in (K \ {k}) \cup {s} : l.hash = t.hash /\ ~Earlier(t, l)
      <4>1. CASE t = s
        BY <1>2, <4>1
      <4>2. CASE t # s /\ t.hash = s.hash
        <5>1. t \in P /\ ~Earlier(t, k)
          BY <1>0, <2>1, <4>2
        <5>2. ~Earlier(t, s)
          BY <1>0, <1>1, <2>1, <2>3, <5>1
        <5> QED
          BY <4>2, <5>2
      <4>3. CASE t # s /\ t.hash # s.hash
        <5>1. PICK l \in K : l.hash = t.hash /\ ~Earlier(t, l)
          BY <1>0, <4>3
        <5>2. l # k
          BY <2>1, <4>3, <5>1
        <5> QED
          BY <5>1, <5>2
      <4> QED
        BY <4>1, <4>2, <4>3
    <3>3. \A l, m \in (K \ {k}) \cup {s} : l.hash = m.hash => l = m
      BY <1>0, <2>1
    <3> QED
      BY <1>0, <3>1, <3>2, <3>3 DEF Firsts
  <2>4. CASE ~Earlier(s, k)
    <3>1. KeepFirst(K, s) = K
      BY <2>2, <2>4, Zenon DEF KeepFirst
    <3> QED
      BY <1>0, <2>1, <2>4, <3>1 DEF Firsts
  <2> QED
    BY <2>3, <2>4
<1> QED
  BY <1>3, <1>4

\* The first samples of the vectors are the samples that none precedes.
LEMMA FirstsAreFirst ==
    ASSUME NEW K, NEW P, Firsts(K, P), Placed(P)
    PROVE  K = {s \in P : \A t \in P : t.hash = s.hash => ~Earlier(t, s)}
<1>1. ASSUME NEW s \in K PROVE s \in P /\ \A t \in P : t.hash = s.hash => ~Earlier(t, s)
  BY DEF Firsts
<1>2. ASSUME NEW s \in P, \A t \in P : t.hash = s.hash => ~Earlier(t, s)
      PROVE  s \in K
  <2>1. PICK k \in K : k.hash = s.hash /\ ~Earlier(s, k)
    BY DEF Firsts
  <2>2. k \in P /\ ~Earlier(k, s)
    BY <1>2, <2>1 DEF Firsts
  <2>3. k = s
    BY <2>1, <2>2 DEF Placed, Earlier
  <2> QED
    BY <2>3
<1> QED
  BY <1>1, <1>2

\* Deduplicate is the last of the sets that its loop keeps.
LEMMA DeduplicateFirsts ==
    ASSUME NEW T, NEW samples \in Seq(T), Placed(ToSet(samples))
    PROVE  Firsts(Deduplicate(samples), ToSet(samples))
<1> DEFINE n == Len(samples)
           kept[i \in 0 .. n] ==
               IF i = 0 THEN {} ELSE KeepFirst(kept[i - 1], samples[i])
           A == SUBSET T
           step == [x \in A \X (1 .. n) |-> KeepFirst(x[1], samples[x[2]])]
<1>0. n \in Nat /\ \A i \in 1 .. n : samples[i] \in T
  OBVIOUS
<1>1. \A x \in A, i \in 1 .. n : KeepFirst(x, samples[i]) \in A
  BY <1>0 DEF KeepFirst
<1>2. step \in [A \X (1 .. n) -> A]
  <2> HIDE DEF A, n
  <2> QED
    BY <1>1
<1>3. \A y \in A, i \in 1 .. n : step[<<y, i>>] = KeepFirst(y, samples[i])
  <2> HIDE DEF A, n
  <2> QED
    OBVIOUS
<1>4. BoundedRecursion(A, {}, n, step)
  <2> HIDE DEF step
  <2> QED
    BY <1>0, <1>2 DEF BoundedRecursion
<1> HIDE DEF step
<1>5. PICK g : SolvesUpTo(g, A, {}, n, step)
  <2> HIDE DEF A, n
  <2> QED
    BY <1>4, BoundedRecursionSolved
<1>6. /\ g \in [0 .. n -> A] /\ g[0] = {}
      /\ \A i \in 1 .. n : g[i] = KeepFirst(g[i - 1], samples[i])
  <2>1. g \in [0 .. n -> A] /\ g[0] = {}
    BY <1>5 DEF SolvesUpTo
  <2>2. ASSUME NEW i \in 1 .. n PROVE g[i] = KeepFirst(g[i - 1], samples[i])
    <3>1. g[i] = step[<<g[i - 1], i>>]
      BY <1>5 DEF SolvesUpTo
    <3>2. g[i - 1] \in A
      BY <1>0, <2>1
    <3> HIDE DEF A, n
    <3> QED
      BY <1>3, <3>1, <3>2
  <2> QED
    BY <2>1, <2>2
<1>7. g = [i \in 0 .. n |-> IF i = 0 THEN {} ELSE KeepFirst(g[i - 1], samples[i])]
  <2> DEFINE h == [i \in 0 .. n |-> IF i = 0 THEN {} ELSE KeepFirst(g[i - 1], samples[i])]
  <2>1. \A i \in 0 .. n : g[i] = h[i]
    BY <1>0, <1>6
  <2>2. g = [i \in 0 .. n |-> g[i]]
    BY <1>6
  <2> HIDE DEF n
  <2> QED
    BY <2>1, <2>2
<1>8. kept = [i \in 0 .. n |-> IF i = 0 THEN {} ELSE KeepFirst(kept[i - 1], samples[i])]
  <2> HIDE DEF n
  <2> QED
    BY <1>7
<1> HIDE DEF kept
<1>9. kept[0] = {} /\ \A i \in 1 .. n : kept[i] = KeepFirst(kept[i - 1], samples[i])
  BY <1>0, <1>8
<1> DEFINE seen(i) == {samples[j] : j \in 1 .. i}
           S == {i \in 0 .. n : Firsts(kept[i], seen(i))}
<1>10. 0 \in S
  <2>1. seen(0) = {}
    OBVIOUS
  <2> QED
    BY <1>0, <1>9, <2>1 DEF Firsts
<1>11. ASSUME NEW i \in 0 .. (n - 1), i \in S PROVE i + 1 \in S
  <2>1. seen(i + 1) = seen(i) \cup {samples[i + 1]}
    BY <1>0
  <2>2. Placed(seen(i + 1))
    <3>1. seen(i + 1) \subseteq ToSet(samples)
      BY <1>0 DEF ToSet
    <3> QED
      BY <3>1, Zenon DEF Placed
  <2>3. kept[i + 1] = KeepFirst(kept[i], samples[i + 1])
    BY <1>0, <1>9
  <2>4. Firsts(kept[i], seen(i)) /\ i + 1 \in 0 .. n
    BY <1>0, <1>11
  <2> HIDE DEF seen
  <2>5. Firsts(kept[i + 1], seen(i + 1))
    BY <2>1, <2>2, <2>3, <2>4, KeepsFirst
  <2> QED
    BY <2>4, <2>5
<1>12. 0 .. n \subseteq S
  <2> HIDE DEF S, n
  <2> QED
    BY <1>0, <1>10, <1>11, IntervalInduction
<1>13. Firsts(kept[n], seen(n))
  <2>1. n \in S
    <3> HIDE DEF S, n
    <3> QED
      BY <1>0, <1>12
  <2> QED
    BY <2>1
<1>14. seen(n) = ToSet(samples)
  BY <1>0 DEF ToSet
<1>15. Deduplicate(samples) = kept[n]
  BY DEF Deduplicate, kept
<1> QED
  BY <1>13, <1>14, <1>15

\* A sample as it was measured.
MeasuredSample == [hash : Hashes, recall : [Efs -> Answers]]

\* The inductive invariant: the parts' samples have their shapes, and rounds
\* end on window boundaries, no earlier than a whole rolling window.
EstimatorInv ==
    /\ rows \in [Ulids -> Seq(MeasuredSample)]
    /\ roundEnd \in Nat /\ roundEnd >= Duration
    /\ \E q \in Nat : roundEnd = q * Width

\* A multiple, as a product.
LEMMA Multiple ==
    ASSUME NEW w \in Nat \ {0}, NEW n \in Nat
    PROVE  n % w = 0 <=> \E q \in Nat : n = q * w
<1>1. n = w * (n \div w) + (n % w)
  OBVIOUS
<1>3. n \div w \in Int /\ n \div w >= 0
  OBVIOUS
<1>4. ASSUME n % w = 0 PROVE \E q \in Nat : n = q * w
  <2>1. PICK q \in Nat : q = n \div w
    BY <1>3
  <2> QED
    BY <1>1, <1>4, <2>1
<1>2. ASSUME NEW q \in Nat, n = q * w PROVE n % w = 0
  BY <1>2
<1> QED
  BY <1>2, <1>4

\* The inductive invariant holds in every state.
LEMMA EstimatorInvHolds == EstimatorSpec => []EstimatorInv
<1>1. EstimatorInit => EstimatorInv
  <2>1. << >> \in Seq(MeasuredSample)
    OBVIOUS
  <2> QED
    <3>1. \E q \in Nat : Duration = q * Width
      BY ScopeAssumption, Multiple
    <3>2. Duration \in Nat /\ Duration >= Duration
      BY ScopeAssumption
    <3> HIDE DEF MeasuredSample
    <3> QED
      BY <2>1, <3>1, <3>2 DEF EstimatorInit, EstimatorInv
<1>2. EstimatorInv /\ [EstimatorNext]_estimator => EstimatorInv'
  <2> SUFFICES ASSUME EstimatorInv, [EstimatorNext]_estimator PROVE EstimatorInv'
    OBVIOUS
  <2>1. ASSUME NEW u \in Ulids, NEW h \in Hashes, NEW r \in [Efs -> Answers],
               AddSample(u, h, r)
        PROVE  EstimatorInv'
    <3>1. [hash |-> h, recall |-> r] \in MeasuredSample
      BY DEF MeasuredSample
    <3>2. rows[u] \in Seq(MeasuredSample)
      BY DEF EstimatorInv
    <3>3. Append(rows[u], [hash |-> h, recall |-> r]) \in Seq(MeasuredSample)
      <4> HIDE DEF MeasuredSample
      <4> QED
        BY <3>1, <3>2, AppendProperties
    <3>4. rows' \in [Ulids -> Seq(MeasuredSample)]
      BY <2>1, <3>3 DEF AddSample, EstimatorInv
    <3> QED
      BY <2>1, <3>4 DEF AddSample, EstimatorInv
  <2>2. CASE Aggregate
    <3>1. roundEnd' = roundEnd + Width /\ rows' = rows
      BY <2>2 DEF Aggregate
    <3>2. \E q \in Nat : roundEnd' = q * Width
      <4>1. PICK q \in Nat : roundEnd = q * Width
        BY DEF EstimatorInv
      <4>2. roundEnd + Width = (q + 1) * Width /\ q + 1 \in Nat
        BY <4>1, ScopeAssumption
      <4> QED
        BY <3>1, <4>2
    <3>3. roundEnd' \in Nat /\ roundEnd' >= Duration
      BY <3>1, ScopeAssumption DEF EstimatorInv
    <3> QED
      BY <3>1, <3>2, <3>3 DEF EstimatorInv
  <2>3. CASE UNCHANGED estimator
    BY <2>3 DEF EstimatorInv, estimator
  <2> QED
    BY <2>1, <2>2, <2>3 DEF EstimatorNext
<1> QED
  BY <1>1, <1>2, PTL DEF EstimatorSpec

\* The samples of the parts in scope are what is read, each told apart by its
\* part and its place.
LEMMA ReadSamples ==
    ASSUME EstimatorInv
    PROVE  /\ \E T : Read(roundEnd) \in Seq(T)
           /\ \A z : z \in ToSet(Read(roundEnd))
                       <=> \E u \in InScopeParts(roundEnd) :
                             \E i \in DOMAIN rows[u] : z = SampleOf(u, i)
           /\ Placed(ToSet(Read(roundEnd)))
<1> DEFINE part(u) == IF u \in InScopeParts(roundEnd)
                      THEN [i \in DOMAIN rows[u] |-> SampleOf(u, i)] ELSE << >>
           seqs == [u \in Ulids |-> part(u)]
           T == UNION {{SampleOf(u, i) : i \in DOMAIN rows[u]} : u \in Ulids}
<1>1. PICK n \in Nat : Ulids = 1 .. n
  BY ScopeAssumption, FS_CardinalityType
<1>2. \A u \in Ulids : \E m \in Nat : DOMAIN rows[u] = 1 .. m
  <2> SUFFICES ASSUME NEW u \in Ulids PROVE \E m \in Nat : DOMAIN rows[u] = 1 .. m
    OBVIOUS
  <2>1. rows[u] \in Seq(MeasuredSample)
    BY DEF EstimatorInv
  <2>2. DOMAIN rows[u] = 1 .. Len(rows[u]) /\ Len(rows[u]) \in Nat
    <3> HIDE DEF MeasuredSample
    <3> QED
      BY <2>1
  <2> QED
    BY <2>2
<1>3. ASSUME NEW u \in Ulids PROVE part(u) \in Seq(T)
  <2>1. PICK m \in Nat : DOMAIN rows[u] = 1 .. m
    BY <1>2
  <2>2. \A i \in 1 .. m : SampleOf(u, i) \in T
    BY <2>1
  <2> HIDE DEF T
  <2>3. [i \in 1 .. m |-> SampleOf(u, i)] \in Seq(T)
    BY <2>2, IsASeq
  <2>4. << >> \in Seq(T)
    OBVIOUS
  <2> QED
    BY <2>1, <2>3, <2>4
<1> HIDE DEF T
<1>4. seqs \in [1 .. n -> Seq(T)] /\ \A u \in 1 .. n : seqs[u] = part(u)
  <2> HIDE DEF part
  <2>1. seqs = [u \in 1 .. n |-> part(u)] /\ \A u \in 1 .. n : part(u) \in Seq(T)
    BY <1>1, <1>3
  <2> HIDE DEF seqs
  <2> QED
    BY <2>1
<1>5. Read(roundEnd) = FlattenSeq(seqs)
  BY Zenon DEF Read
<1> HIDE DEF seqs
<1>6. /\ Read(roundEnd) \in Seq(T)
      /\ \A z : z \in ToSet(Read(roundEnd)) <=> \E j \in 1 .. n : z \in ToSet(seqs[j])
  BY <1>4, <1>5, FlattenedSet
<1>7. ASSUME NEW u \in Ulids, NEW z
      PROVE  z \in ToSet(part(u)) <=>
               /\ u \in InScopeParts(roundEnd)
               /\ \E i \in DOMAIN rows[u] : z = SampleOf(u, i)
  <2>1. CASE u \in InScopeParts(roundEnd)
    <3>1. part(u) = [i \in DOMAIN rows[u] |-> SampleOf(u, i)]
      BY <2>1
    <3>2. ToSet(part(u)) = {SampleOf(u, i) : i \in DOMAIN rows[u]}
      BY <3>1 DEF ToSet
    <3> QED
      BY <2>1, <3>2, Zenon
  <2>2. CASE u \notin InScopeParts(roundEnd)
    <3>1. part(u) = << >>
      BY <2>2
    <3>2. ToSet(<< >>) = {}
      BY DEF ToSet
    <3> QED
      BY <2>2, <3>1, <3>2, Zenon
  <2> QED
    BY <2>1, <2>2
<1>8. InScopeParts(roundEnd) \subseteq Ulids
  BY DEF InScopeParts
<1> HIDE DEF part
<1>9. \A z : z \in ToSet(Read(roundEnd))
                <=> \E u \in InScopeParts(roundEnd) :
                      \E i \in DOMAIN rows[u] : z = SampleOf(u, i)
  <2>1. \A u : u \in 1 .. n <=> u \in Ulids
    BY <1>1
  <2>2. \A u \in Ulids : seqs[u] = part(u)
    BY <1>1, <1>4
  <2>3. ASSUME NEW z PROVE z \in ToSet(Read(roundEnd))
                <=> \E u \in Ulids : /\ u \in InScopeParts(roundEnd)
                                     /\ \E i \in DOMAIN rows[u] : z = SampleOf(u, i)
    <3>1. z \in ToSet(Read(roundEnd)) <=> \E u \in Ulids : z \in ToSet(seqs[u])
      BY <1>6, <2>1, Zenon
    <3>2. \A u \in Ulids : z \in ToSet(seqs[u]) <=> z \in ToSet(part(u))
      BY <2>2
    <3>3. z \in ToSet(Read(roundEnd)) <=> \E u \in Ulids : z \in ToSet(part(u))
      BY <3>1, <3>2, Zenon
    <3> QED
      BY <1>7, <3>3, Zenon
  <2> QED
    BY <1>8, <2>3, Zenon
<1>10. Placed(ToSet(Read(roundEnd)))
  <2>1. ASSUME NEW s \in ToSet(Read(roundEnd))
        PROVE  /\ s.part \in Int /\ s.index \in Int
               /\ s = SampleOf(s.part, s.index)
    <3>1. PICK u \in InScopeParts(roundEnd) : \E i \in DOMAIN rows[u] : s = SampleOf(u, i)
      BY <1>9
    <3>2. PICK i \in DOMAIN rows[u] : s = SampleOf(u, i)
      BY <3>1
    <3>3. u \in Int /\ i \in Int
      BY <1>1, <1>2, <1>8
    <3>4. s.part = u /\ s.index = i
      BY <3>2 DEF SampleOf
    <3> QED
      BY <3>2, <3>3, <3>4
  <2>2. ASSUME NEW s \in ToSet(Read(roundEnd)), NEW t \in ToSet(Read(roundEnd)),
               s.part = t.part, s.index = t.index
        PROVE  s = t
    <3>1. s = SampleOf(s.part, s.index) /\ t = SampleOf(t.part, t.index)
      BY <2>1
    <3>2. SampleOf(s.part, s.index) = SampleOf(t.part, t.index)
      BY <2>2
    <3> QED
      BY <3>1, <3>2
  <2> QED
    BY <2>1, <2>2 DEF Placed
<1> QED
  BY <1>6, <1>9, <1>10, Zenon

\* A sequence has finitely many elements.
LEMMA ListedFinite ==
    ASSUME NEW T, NEW samples \in Seq(T)
    PROVE  IsFiniteSet(ToSet(samples))
<1>1. samples \in Surjection(1 .. Len(samples), ToSet(samples))
  BY DEF Surjection, ToSet
<1>2. IsFiniteSet(1 .. Len(samples))
  BY FS_Interval
<1> QED
  BY <1>1, <1>2, FS_Surjection

\* An order of a finite set is a sequence of all of its elements.
LEMMA OrderListsAll ==
    ASSUME NEW S, IsFiniteSet(S), NEW order \in SetToSeqs(S)
    PROVE  order \in Seq(S) /\ ToSet(order) = S
<1> DEFINE n == Cardinality(S)
<1>1. n \in Nat /\ IsFiniteSet(1 .. n) /\ Cardinality(1 .. n) = n
  BY FS_CardinalityType, FS_Interval
<1>2. /\ order \in [1 .. n -> S]
      /\ \A i, j \in 1 .. n : i # j => order[i] # order[j]
  BY DEF SetToSeqs
<1> HIDE DEF n
<1>3. order \in Injection(1 .. n, S)
  BY <1>2 DEF Injection, IsInjective
<1>4. order \in Surjection(1 .. n, S)
  BY <1>1, <1>3, FS_Injection DEF n
<1>5. \A x \in S : \E i \in 1 .. n : order[i] = x
  BY <1>4 DEF Surjection
<1>6. order \in Seq(S) /\ DOMAIN order = 1 .. n
  BY <1>1, <1>2
<1> QED
  BY <1>2, <1>5, <1>6 DEF ToSet

\* The survivors of the deduplication are the first captures, in whatever
\* order it meets them.
LEMMA FirstCapturesHold == EstimatorInv => SurvivorsAreFirst
<1> DEFINE read == ToSet(Read(roundEnd))
           first == {s \in read : \A t \in read : t.hash = s.hash => ~Earlier(t, s)}
<1> SUFFICES ASSUME EstimatorInv
             PROVE  /\ Population = first
                    /\ \A order \in SetToSeqs(read) : Deduplicate(order) = first
  BY DEF SurvivorsAreFirst
<1>1. PICK T : Read(roundEnd) \in Seq(T)
  BY ReadSamples
<1>2. Placed(read)
  BY ReadSamples
<1>3. Firsts(Deduplicate(Read(roundEnd)), read)
  BY <1>1, <1>2, DeduplicateFirsts
<1>4. Population = first
  BY <1>2, <1>3, FirstsAreFirst DEF Population
<1>5. IsFiniteSet(read)
  BY <1>1, ListedFinite
<1> HIDE DEF read
<1>6. ASSUME NEW order \in SetToSeqs(read) PROVE Deduplicate(order) = first
  <2>1. order \in Seq(read) /\ ToSet(order) = read
    BY <1>5, OrderListsAll
  <2>2. Firsts(Deduplicate(order), read)
    BY <1>2, <2>1, DeduplicateFirsts
  <2> QED
    BY <1>2, <2>2, FirstsAreFirst
<1> QED
  BY <1>4, <1>6

\* Every window of the rolling window, and none else, is in scope.
LEMMA ScopeIsRolling ==
    ASSUME EstimatorInv
    PROVE  /\ InScopeWindowStarts(roundEnd)
                = {roundEnd - k * Width : k \in 1 .. Duration \div Width}
           /\ Duration \div Width \in Nat
<1> DEFINE end == roundEnd
           before[e \in 0 .. end] ==
               IF e - Width < 0 \/ e - Width < end - Duration THEN {}
               ELSE {e - Width} \cup before[e - Width]
           steps(e) == {k \in Nat : k >= 1 /\ k * Width <= e /\ k * Width <= e - end + Duration}
           g == [e \in 0 .. end |-> {e - k * Width : k \in steps(e)}]
<1>1. /\ end \in Nat /\ Width \in Nat /\ Width > 0 /\ Duration \in Nat
      /\ end >= Duration
  BY ScopeAssumption DEF EstimatorInv
<1> HIDE DEF end
<1>2. ASSUME NEW e \in 0 .. end, e - Width < 0 \/ e - Width < end - Duration
      PROVE  g[e] = {}
  <2>1. \A k \in Nat : k >= 1 => k * Width >= Width
    BY <1>1
  <2>2. \A k \in Nat : k * Width \in Nat
    BY <1>1
  <2>3. steps(e) = {}
    BY <1>1, <1>2, <2>1, <2>2
  <2> HIDE DEF steps
  <2> QED
    BY <2>3
<1>3. ASSUME NEW e \in 0 .. end, ~(e - Width < 0 \/ e - Width < end - Duration)
      PROVE  e - Width \in 0 .. end /\ g[e] = {e - Width} \cup g[e - Width]
  <2>1. e - Width \in 0 .. end /\ e \in Nat
    BY <1>1, <1>3
  <2>2. \A k \in Nat : k * Width \in Nat /\ (k + 1) * Width = k * Width + Width
    BY <1>1
  <2>3. 1 \in steps(e)
    BY <1>1, <1>3, <2>1
  <2>4. ASSUME NEW k \in steps(e - Width)
        PROVE  k + 1 \in steps(e) /\ e - (k + 1) * Width = (e - Width) - k * Width
    <3>1. PICK p \in Nat : p = k * Width
      BY <2>2
    <3>2. (k + 1) * Width = p + Width
      BY <2>2, <3>1
    <3> QED
      BY <1>1, <2>1, <3>1, <3>2
  <2>5. ASSUME NEW k \in steps(e), k # 1
        PROVE  k - 1 \in steps(e - Width) /\ e - k * Width = (e - Width) - (k - 1) * Width
    <3>0. k - 1 \in Nat /\ (k - 1) + 1 = k /\ k - 1 >= 1
      BY <2>5
    <3>1. PICK p \in Nat : p = (k - 1) * Width
      BY <2>2, <3>0
    <3>2. k * Width = p + Width
      BY <2>2, <3>0, <3>1
    <3> QED
      BY <1>1, <2>1, <3>0, <3>1, <3>2
  <2>6. 1 * Width = Width
    BY <1>1
  <2> HIDE DEF steps
  <2>7. /\ g[e] = {e - k * Width : k \in steps(e)}
        /\ g[e - Width] = {(e - Width) - k * Width : k \in steps(e - Width)}
    BY <2>1
  <2> HIDE DEF g
  <2>8. e - Width \in g[e]
    BY <2>3, <2>6, <2>7
  <2>9. \A x \in g[e - Width] : x \in g[e]
    BY <2>4, <2>7
  <2>10. \A x \in g[e] : x = e - Width \/ x \in g[e - Width]
    <3> SUFFICES ASSUME NEW k \in steps(e), e - k * Width # e - Width
                 PROVE  e - k * Width \in g[e - Width]
      BY <2>7
    <3>1. k # 1
      BY <2>6
    <3> QED
      BY <2>5, <2>7, <3>1
  <2> QED
    BY <2>1, <2>8, <2>9, <2>10
<1> HIDE DEF steps
<1>4. g = [e \in 0 .. end |-> IF e - Width < 0 \/ e - Width < end - Duration THEN {}
                              ELSE {e - Width} \cup g[e - Width]]
  <2> DEFINE h == [e \in 0 .. end |->
                     IF e - Width < 0 \/ e - Width < end - Duration THEN {}
                     ELSE {e - Width} \cup g[e - Width]]
  <2>1. ASSUME NEW e \in 0 .. end PROVE g[e] = h[e]
    <3> HIDE DEF g
    <3> QED
      BY <1>2, <1>3
  <2>2. g = [e \in 0 .. end |-> g[e]] /\ h = [e \in 0 .. end |-> h[e]]
    OBVIOUS
  <2> HIDE DEF g, h
  <2>3. g = h
    BY <2>1, <2>2
  <2> QED
    BY <2>3 DEF h
<1>5. before = [e \in 0 .. end |-> IF e - Width < 0 \/ e - Width < end - Duration THEN {}
                                   ELSE {e - Width} \cup before[e - Width]]
  <2> HIDE DEF g
  <2> QED
    BY <1>4
<1>6. InScopeWindowStarts(roundEnd) = before[end]
  BY DEF InScopeWindowStarts, end
<1>7. /\ \A e \in 0 .. end : e - Width < 0 \/ e - Width < end - Duration => before[e] = {}
      /\ \A e \in 0 .. end : ~(e - Width < 0 \/ e - Width < end - Duration) =>
            before[e] = {e - Width} \cup before[e - Width]
  <2> HIDE DEF before
  <2> QED
    BY <1>5
<1> HIDE DEF before, g
<1> DEFINE S == {n \in 0 .. end : \A e \in 0 .. n : before[e] = g[e]}
<1>8. 0 \in S
  <2>1. before[0] = {} /\ g[0] = {}
    BY <1>1, <1>2, <1>7
  <2>2. \A e \in 0 .. 0 : e = 0
    OBVIOUS
  <2> QED
    BY <1>1, <2>1, <2>2
<1>9. ASSUME NEW n \in 0 .. (end - 1), n \in S PROVE n + 1 \in S
  <2>0. n + 1 \in 0 .. end /\ n \in Nat
    BY <1>1
  <2>1. before[n + 1] = g[n + 1]
    <3>0. PICK e \in 0 .. end : e = n + 1
      BY <2>0
    <3>1. CASE e - Width < 0 \/ e - Width < end - Duration
      BY <1>2, <1>7, <3>0, <3>1
    <3>2. CASE ~(e - Width < 0 \/ e - Width < end - Duration)
      <4>1. e - Width \in 0 .. n
        BY <1>1, <2>0, <3>0, <3>2
      <4>2. before[e - Width] = g[e - Width]
        BY <1>9, <4>1
      <4>3. /\ before[e] = {e - Width} \cup before[e - Width]
            /\ g[e] = {e - Width} \cup g[e - Width]
        BY <1>3, <1>7, <3>2
      <4> QED
        BY <3>0, <4>2, <4>3
    <3> QED
      BY <3>1, <3>2
  <2>2. \A e \in 0 .. n + 1 : e \in 0 .. n \/ e = n + 1
    BY <2>0
  <2> QED
    BY <1>9, <2>0, <2>1, <2>2
<1>10. 0 .. end \subseteq S
  <2> HIDE DEF S
  <2> QED
    BY <1>1, <1>8, <1>9, IntervalInduction
<1>11. before[end] = g[end]
  <2>1. end \in S
    <3> HIDE DEF S
    <3> QED
      BY <1>1, <1>10
  <2>2. end \in 0 .. end
    BY <1>1
  <2> QED
    BY <2>1, <2>2
<1>12. PICK d \in Nat : Duration = d * Width
  BY ScopeAssumption, Multiple
<1>13. Duration \div Width = d
  BY <1>1, <1>12
<1>14. \A k : k \in steps(end) <=> k \in 1 .. d
  <2>1. \A k \in Nat : k * Width <= d * Width <=> k <= d
    BY <1>1
  <2>2. \A k \in Nat : k * Width \in Nat
    BY <1>1
  <2>3. end - end + Duration = d * Width
    BY <1>1, <1>12
  <2>4. ASSUME NEW k \in Nat PROVE k \in steps(end) <=> k >= 1 /\ k <= d
    <3>1. PICK p \in Nat : p = k * Width
      BY <2>2
    <3>2. p <= Duration <=> k <= d
      BY <1>12, <2>1, <3>1
    <3>3. p <= end /\ p <= end - end + Duration <=> p <= Duration
      BY <1>1, <3>1
    <3>4. k \in steps(end) <=> k >= 1 /\ p <= end /\ p <= end - end + Duration
      BY <3>1 DEF steps
    <3> QED
      BY <3>2, <3>3, <3>4
  <2>5. \A k : k \in steps(end) => k \in Nat
    BY DEF steps
  <2> QED
    BY <2>4, <2>5
<1>15. steps(end) = 1 .. d
  BY <1>14
<1>16. g[end] = {end - k * Width : k \in 1 .. d}
  <2>1. end \in 0 .. end
    BY <1>1
  <2> QED
    BY <1>15, <2>1 DEF g
<1> QED
  BY <1>6, <1>11, <1>13, <1>16 DEF end

\* A round's scope is the windows of its rolling window.
LEMMA WindowsInScopeHold == EstimatorInv => WindowsInScope
<1> SUFFICES ASSUME EstimatorInv PROVE WindowsInScope
  OBVIOUS
<1> DEFINE starts == InScopeWindowStarts(roundEnd)
<1>1. /\ Width \in Nat /\ Width > 0 /\ Duration \in Nat
      /\ roundEnd \in Nat /\ roundEnd >= Duration
  BY ScopeAssumption DEF EstimatorInv
<1>2. PICK d \in Nat : Duration = d * Width
  BY ScopeAssumption, Multiple
<1>3. Duration \div Width = d
  BY <1>1, <1>2
<1>4. PICK q \in Nat : roundEnd = q * Width
  BY DEF EstimatorInv
<1>5. starts = {roundEnd - k * Width : k \in 1 .. d}
  BY <1>3, ScopeIsRolling
<1>6. \A k \in Nat : k * Width \in Nat /\ (k <= d => k * Width <= d * Width)
                     /\ (k >= 1 => Width <= k * Width)
  BY <1>1
<1>7. ASSUME NEW k \in 1 .. d
      PROVE  LET s == roundEnd - k * Width
             IN  /\ s \in 0 .. roundEnd /\ s % Width = 0 /\ s >= roundEnd - Duration
                 /\ s + Width <= roundEnd
  <2>0. k \in Nat /\ k >= 1 /\ k <= d
    OBVIOUS
  <2>1. PICK p \in Nat : p = k * Width
    BY <1>6, <2>0
  <2>2. p <= Duration /\ Width <= p
    BY <1>2, <1>6, <2>0, <2>1
  <2>3. d <= q
    BY <1>1, <1>2, <1>4
  <2>4. roundEnd - p = (q - k) * Width /\ q - k \in Nat
    BY <1>1, <1>4, <2>0, <2>1, <2>3
  <2>5. roundEnd - p \in Nat /\ (roundEnd - p) % Width = 0
    BY <1>1, <2>2, <2>4, Multiple
  <2> QED
    BY <1>1, <2>1, <2>2, <2>5
<1>8. ASSUME NEW s \in 0 .. roundEnd, s % Width = 0, s >= roundEnd - Duration,
             s + Width <= roundEnd
      PROVE  s \in starts
  <2>1. PICK j \in Nat : s = j * Width
    <3>1. s \in Nat /\ Width \in Nat \ {0}
      BY <1>1
    <3>2. \E j \in Nat : s = j * Width
      BY <1>8, <3>1, Multiple
    <3> QED
      BY <3>2
  <2>2. roundEnd - s = (q - j) * Width /\ q - j \in Int
    BY <1>1, <1>4, <2>1
  <2>3. q - j >= 1
    <3>1. ASSUME q - j <= 0 PROVE (q - j) * Width <= 0
      BY <1>1, <2>2, <3>1
    <3>2. ~((q - j) * Width <= 0)
      BY <1>1, <1>8, <2>2
    <3> QED
      BY <2>2, <3>1, <3>2
  <2>4. q - j <= d
    <3>1. (q - j) * Width <= d * Width
      BY <1>1, <1>2, <1>8, <2>2
    <3>2. q - j \in Nat
      BY <2>2, <2>3
    <3> QED
      BY <1>1, <3>1, <3>2
  <2>5. q - j \in 1 .. d /\ s = roundEnd - (q - j) * Width
    <3>1. PICK p \in Int : p = (q - j) * Width
      BY <1>1, <2>2
    <3>2. s = roundEnd - p
      BY <1>1, <2>2, <3>1
    <3> QED
      BY <2>2, <2>3, <2>4, <3>1, <3>2
  <2> QED
    BY <1>5, <2>5
<1> DEFINE exact == {s \in 0 .. roundEnd : s % Width = 0 /\ s >= roundEnd - Duration
                                           /\ s + Width <= roundEnd}
<1>9. starts = exact
  <2>1. \A s \in starts : s \in exact
    <3> HIDE DEF starts
    <3> QED
      BY <1>5, <1>7
  <2>2. \A s \in exact : s \in starts
    BY <1>8
  <2>3. \A s : s \in starts <=> s \in exact
    <3> HIDE DEF starts, exact
    <3> QED
      BY <2>1, <2>2
  <2> QED
    BY <2>3
<1> HIDE DEF starts, exact
<1>10. IsFiniteSet(starts) /\ Cardinality(starts) = d
  <2> DEFINE f == [k \in 1 .. d |-> roundEnd - k * Width]
  <2>1. \A k, l \in 1 .. d : f[k] = f[l] => k = l
    <3> SUFFICES ASSUME NEW k \in 1 .. d, NEW l \in 1 .. d,
                        roundEnd - k * Width = roundEnd - l * Width
                 PROVE  k = l
      OBVIOUS
    <3>1. k * Width = l * Width
      BY <1>1
    <3> QED
      BY <1>1, <3>1
  <2>2. f \in [1 .. d -> starts] /\ \A s \in starts : \E k \in 1 .. d : f[k] = s
    BY <1>5
  <2> HIDE DEF f
  <2>3. f \in Bijection(1 .. d, starts)
    BY <2>1, <2>2 DEF Bijection, Injection, IsInjective, Surjection
  <2>4. ExistsBijection(1 .. d, starts)
    BY <2>3 DEF ExistsBijection
  <2>5. IsFiniteSet(1 .. d) /\ Cardinality(1 .. d) = d
    BY FS_Interval
  <2> QED
    BY <2>4, <2>5, FS_Bijection
<1>11. WindowsWithParts(roundEnd) <= Cardinality(starts)
  BY <1>10, FS_Subset DEF WindowsWithParts, starts
<1> QED
  BY <1>3, <1>9, <1>10, <1>11 DEF WindowsInScope, starts, exact

\* The population of every round is the first capture of each vector in the
\* windows of its rolling scope (in_scope_window_starts,
\* deduplicate_samples), whatever the number of parts and samples, their
\* order and the rounds before.
THEOREM PopulationExact == EstimatorSpec => []PopulationIsExact
<1>1. EstimatorInv => PopulationIsExact
  BY FirstCapturesHold, WindowsInScopeHold DEF PopulationIsExact
<1> QED
  BY <1>1, EstimatorInvHolds, PTL

-----------------------------------------------------------------------------
(* The verdict.                                                            *)

\* Factorials are positive.
LEMMA FactorialType == \A n \in Nat : factorial[n] \in Nat \ {0}
<1> DEFINE A == Nat \ {0}
           step == [x \in A \X Nat |-> IF x[2] = 0 THEN 1 ELSE x[2] * x[1]]
<1>1. step \in [A \X Nat -> A] /\ 1 \in A
  OBVIOUS
<1>2. \A y \in A, n \in Nat : step[<<y, n>>] = IF n = 0 THEN 1 ELSE n * y
  OBVIOUS
<1> HIDE DEF step
<1>3. PICK g \in [Nat -> A] :
        g[0] = 1 /\ \A n \in Nat : g[n + 1] = step[<<g[n], n + 1>>]
  <2> HIDE DEF A
  <2>1. Recursion(A, 1, step)
    BY <1>1 DEF Recursion
  <2>2. PICK g : Solves(g, A, 1, step)
    BY <2>1, RecursionSolved
  <2> QED
    BY <2>2 DEF Solves
<1>4. ASSUME NEW n \in Nat PROVE g[n] = IF n = 0 THEN 1 ELSE n * g[n - 1]
  <2>1. CASE n = 0
    BY <1>3, <2>1
  <2>2. CASE n # 0
    <3>1. n - 1 \in Nat /\ (n - 1) + 1 = n /\ g[n - 1] \in A
      BY <2>2
    <3>2. g[n] = step[<<g[n - 1], n>>]
      BY <1>3, <3>1
    <3> HIDE DEF A
    <3> QED
      BY <1>2, <2>2, <3>1, <3>2
  <2> QED
    BY <2>1, <2>2
<1>5. g = [n \in Nat |-> IF n = 0 THEN 1 ELSE n * g[n - 1]]
  BY <1>4
<1>6. factorial = [n \in Nat |-> IF n = 0 THEN 1 ELSE n * factorial[n - 1]]
  BY <1>5 DEF factorial
<1>7. \A n \in Nat : factorial[n] = IF n = 0 THEN 1 ELSE n * factorial[n - 1]
  BY <1>6
<1> DEFINE S == {n \in Nat : factorial[n] \in A}
<1>8. 0 \in S
  BY <1>7
<1>9. ASSUME NEW n \in Nat, n \in S PROVE n + 1 \in S
  <2>1. factorial[n + 1] = (n + 1) * factorial[n]
    BY <1>7
  <2>2. PICK y \in A : y = factorial[n]
    BY <1>9
  <2>3. (n + 1) * y \in A
    OBVIOUS
  <2> QED
    BY <2>1, <2>2, <2>3
<1>10. Nat \subseteq S
  <2> HIDE DEF S
  <2> QED
    BY <1>8, <1>9, NatSetInduction
<1> QED
  BY <1>10

\* Powers of a natural number are natural numbers.
LEMMA PowersType == ASSUME NEW b \in Nat PROVE \A n \in Nat : Powers(b)[n] \in Nat
<1> DEFINE A == Nat
           step == [x \in A \X Nat |-> b * x[1]]
           pow[i \in Nat] == IF i = 0 THEN 1 ELSE b * pow[i - 1]
<1>1. step \in [A \X Nat -> A] /\ 1 \in A
  OBVIOUS
<1>2. \A y \in A, n \in Nat : step[<<y, n>>] = b * y
  OBVIOUS
<1> HIDE DEF step
<1>3. PICK g \in [Nat -> A] :
        g[0] = 1 /\ \A n \in Nat : g[n + 1] = step[<<g[n], n + 1>>]
  <2> HIDE DEF A
  <2>1. Recursion(A, 1, step)
    BY <1>1 DEF Recursion
  <2>2. PICK g : Solves(g, A, 1, step)
    BY <2>1, RecursionSolved
  <2> QED
    BY <2>2 DEF Solves
<1>4. ASSUME NEW n \in Nat PROVE g[n] = IF n = 0 THEN 1 ELSE b * g[n - 1]
  <2>1. CASE n = 0
    BY <1>3, <2>1
  <2>2. CASE n # 0
    <3>1. n - 1 \in Nat /\ (n - 1) + 1 = n /\ g[n - 1] \in A
      BY <2>2
    <3> QED
      BY <1>2, <1>3, <2>2, <3>1
  <2> QED
    BY <2>1, <2>2
<1>5. g = [n \in Nat |-> IF n = 0 THEN 1 ELSE b * g[n - 1]]
  BY <1>4
<1>6. pow = [n \in Nat |-> IF n = 0 THEN 1 ELSE b * pow[n - 1]]
  BY <1>5
<1>7. Powers(b) = pow
  BY DEF Powers
<1> HIDE DEF pow
<1>8. \A n \in Nat : pow[n] = IF n = 0 THEN 1 ELSE b * pow[n - 1]
  BY <1>6
<1> DEFINE S == {n \in Nat : pow[n] \in Nat}
<1>9. 0 \in S
  BY <1>8
<1>10. ASSUME NEW n \in Nat, n \in S PROVE n + 1 \in S
  <2>1. pow[n + 1] = b * pow[n] /\ pow[n] \in Nat
    BY <1>8, <1>10
  <2> QED
    BY <2>1
<1>11. Nat \subseteq S
  <2> HIDE DEF S
  <2> QED
    BY <1>9, <1>10, NatSetInduction
<1> QED
  BY <1>7, <1>11

\* More successes never mean less confidence.
LEMMA ConfidenceGrows ==
    ASSUME NEW n \in Nat
    PROVE  \A m \in 0 .. n : /\ Confidence(n, m) \in Nat
                             /\ Confidence(n, m) <= Confidence(n, n)
<1> DEFINE term(j) == choose(n + 1, j) * Powers(Num)[j] * Powers(Den - Num)[n + 1 - j]
           sum[j \in 0 .. n] == IF j = 0 THEN term(0) ELSE sum[j - 1] + term(j)
<1>1. ASSUME NEW j \in 0 .. n PROVE term(j) \in Nat
  <2>1. j \in Nat /\ n + 1 \in Nat /\ n + 1 - j \in Nat
    OBVIOUS
  <2>2. Powers(Num)[j] \in Nat /\ Powers(Den - Num)[n + 1 - j] \in Nat
    BY <2>1, PowersType, TargetAssumption
  <2>3. choose(n + 1, j) \in Nat
    <3>1. /\ factorial[n + 1] \in Nat
          /\ factorial[j] \in Nat \ {0} /\ factorial[n + 1 - j] \in Nat \ {0}
      BY <2>1, FactorialType
    <3>2. PICK k \in Nat \ {0} : k = factorial[j] * factorial[n + 1 - j]
      BY <3>1
    <3>3. factorial[n + 1] \div k \in Nat
      BY <3>1
    <3> QED
      BY <3>2, <3>3 DEF choose
  <2>4. \A x, y, z \in Nat : x * y * z \in Nat
    OBVIOUS
  <2> QED
    BY <2>2, <2>3, <2>4
<1> HIDE DEF term
<1> DEFINE step == [x \in Nat \X (1 .. n) |-> x[1] + term(x[2])]
<1>2. step \in [Nat \X (1 .. n) -> Nat]
  <2>1. \A i \in 1 .. n : i \in 0 .. n
    OBVIOUS
  <2> QED
    BY <1>1, <2>1
<1>3. \A y \in Nat, i \in 1 .. n : step[<<y, i>>] = y + term(i)
  OBVIOUS
<1> HIDE DEF step
<1>4. term(0) \in Nat
  BY <1>1
<1>5. BoundedRecursion(Nat, term(0), n, step)
  BY <1>2, <1>4 DEF BoundedRecursion
<1>6. PICK g : SolvesUpTo(g, Nat, term(0), n, step)
  BY <1>5, BoundedRecursionSolved
<1>7. /\ g \in [0 .. n -> Nat] /\ g[0] = term(0)
      /\ \A i \in 1 .. n : g[i] = step[<<g[i - 1], i>>]
  BY <1>6 DEF SolvesUpTo
<1>8. ASSUME NEW j \in 0 .. n
      PROVE  g[j] = IF j = 0 THEN term(0) ELSE g[j - 1] + term(j)
  <2>1. CASE j = 0
    BY <1>7, <2>1
  <2>2. CASE j # 0
    <3>1. j \in 1 .. n /\ j - 1 \in 0 .. n /\ g[j - 1] \in Nat
      BY <1>7, <2>2
    <3> QED
      BY <1>3, <1>7, <2>2, <3>1
  <2> QED
    BY <2>1, <2>2
<1>9. g = [j \in 0 .. n |-> IF j = 0 THEN term(0) ELSE g[j - 1] + term(j)]
  BY <1>7, <1>8
<1>10. sum = [j \in 0 .. n |-> IF j = 0 THEN term(0) ELSE sum[j - 1] + term(j)]
  BY <1>9
<1>11. \A m : Confidence(n, m) = sum[m]
  BY DEF Confidence, term
<1> HIDE DEF sum
<1>12. sum[0] = term(0) /\ \A j \in 1 .. n : sum[j] = sum[j - 1] + term(j)
  BY <1>10
<1> DEFINE S == {i \in 0 .. n : \A j \in 0 .. i : sum[j] \in Nat /\ sum[j] <= sum[i]}
<1>13. 0 \in S
  BY <1>4, <1>12
<1>14. ASSUME NEW i \in 0 .. (n - 1), i \in S PROVE i + 1 \in S
  <2>1. i + 1 \in 0 .. n /\ i + 1 \in 1 .. n /\ (i + 1) - 1 = i
    OBVIOUS
  <2>2. sum[i + 1] = sum[i] + term(i + 1) /\ term(i + 1) \in Nat /\ sum[i] \in Nat
    <3>1. i \in 0 .. i
      OBVIOUS
    <3> QED
      BY <1>1, <1>12, <1>14, <2>1, <3>1
  <2>3. ASSUME NEW j \in 0 .. i + 1 PROVE sum[j] \in Nat /\ sum[j] <= sum[i + 1]
    <3>1. CASE j = i + 1
      BY <2>2, <3>1
    <3>2. CASE j # i + 1
      <4>1. j \in 0 .. i
        BY <3>2
      <4>2. sum[j] \in Nat /\ sum[j] <= sum[i]
        BY <1>14, <4>1
      <4> QED
        BY <2>2, <4>2
    <3> QED
      BY <3>1, <3>2
  <2> QED
    BY <2>1, <2>2, <2>3
<1>15. 0 .. n \subseteq S
  <2> HIDE DEF S
  <2> QED
    BY <1>13, <1>14, IntervalInduction
<1>16. n \in S
  <2> HIDE DEF S
  <2> QED
    BY <1>15
<1> QED
  BY <1>11, <1>16

\* A split that would not clear its threshold with every sample a success
\* cannot clear it with fewer.
LEMMA ClearsGrows ==
    ASSUME NEW n \in Nat, NEW th \in Nat, NEW m \in 0 .. n, Clears(n, m, th)
    PROVE  Clears(n, n, th)
<1>1. /\ Confidence(n, m) \in Nat /\ Confidence(n, n) \in Nat
      /\ Confidence(n, m) <= Confidence(n, n)
  <2>1. n \in 0 .. n
    OBVIOUS
  <2> QED
    BY <2>1, ConfidenceGrows
<1>2. Powers(Den)[3] \in Nat /\ Powers(Den)[n + 1] \in Nat
  BY PowersType, TargetAssumption
<1>3. PICK a \in Nat : a = Confidence(n, m)
  BY <1>1
<1>4. PICK b \in Nat : b = Confidence(n, n)
  BY <1>1
<1>5. PICK d \in Nat : d = Powers(Den)[3]
  BY <1>2
<1>6. PICK e \in Nat : e = th * Powers(Den)[n + 1]
  BY <1>2
<1>7. a * d >= e /\ a <= b
  BY <1>1, <1>3, <1>4, <1>5, <1>6 DEF Clears
<1>8. a * d <= b * d
  BY <1>7
<1>9. b * d >= e
  BY <1>7, <1>8
<1> QED
  BY <1>4, <1>5, <1>6, <1>9 DEF Clears

\* A population is finite, and so are its two sides.
LEMMA PopulationFinite ==
    ASSUME EstimatorInv
    PROVE  /\ IsFiniteSet(Population)
           /\ IsFiniteSet(Train(Population)) /\ Cardinality(Train(Population)) \in Nat
           /\ IsFiniteSet(Test(Population)) /\ Cardinality(Test(Population)) \in Nat
<1> DEFINE samples == Read(roundEnd)
<1>1. PICK T : samples \in Seq(T)
  BY ReadSamples
<1>2. Population \subseteq ToSet(samples)
  BY FirstCapturesHold DEF SurvivorsAreFirst
<1>3. IsFiniteSet(ToSet(samples))
  BY <1>1, ListedFinite
<1>4. IsFiniteSet(Population)
  BY <1>2, <1>3, FS_Subset
<1>5. Train(Population) \subseteq Population /\ Test(Population) \subseteq Population
  BY DEF Train, Test
<1>6. IsFiniteSet(Train(Population)) /\ IsFiniteSet(Test(Population))
  BY <1>4, <1>5, FS_Subset
<1> QED
  BY <1>4, <1>6, FS_CardinalityType

\* A round short of samples could not have cleared with any answers.
LEMMA HopelessHolds == EstimatorInv => InsufficientIsHopeless
<1> SUFFICES ASSUME EstimatorInv, ~abort, Insufficient(Population)
             PROVE  LET n == Cardinality(Train(Population))
                        t == Cardinality(Test(Population))
                    IN  \/ \A m \in 0 .. n : ~Clears(n, m, Selection)
                        \/ \A m \in 0 .. t : ~Clears(t, m, Approval)
                        \/ n = 0 \/ t = 0
  BY DEF InsufficientIsHopeless
<1> DEFINE n == Cardinality(Train(Population))
           t == Cardinality(Test(Population))
<1>1. n \in Nat /\ t \in Nat
  BY PopulationFinite
<1>2. n = 0 \/ t = 0 \/ ~Clears(n, n, Selection) \/ ~Clears(t, t, Approval)
  BY DEF Insufficient
<1> HIDE DEF n, t
<1>3. ~Clears(n, n, Selection) => \A m \in 0 .. n : ~Clears(n, m, Selection)
  BY <1>1, ClearsGrows, TargetAssumption
<1>4. ~Clears(t, t, Approval) => \A m \in 0 .. t : ~Clears(t, m, Approval)
  BY <1>1, ClearsGrows, TargetAssumption
<1> QED
  BY <1>2, <1>3, <1>4 DEF n, t

\* A round that says the target is unmet could have met it.
LEMMA PossibleHolds == UnmetIsPossible
BY DEF UnmetIsPossible, RoundStatus, Insufficient

\* Every finite set can be listed by ascending value: an element's place is
\* the number of elements that are not after it, ties broken by any listing.
LEMMA SortedListing ==
    ASSUME NEW S, IsFiniteSet(S), NEW v \in [S -> Nat]
    PROVE  \E seq \in SetToSeqs(S) :
              \A i, j \in 1 .. Cardinality(S) : i < j => v[seq[i]] <= v[seq[j]]
<1> DEFINE n == Cardinality(S)
<1>1. n \in Nat /\ IsFiniteSet(1 .. n) /\ Cardinality(1 .. n) = n
  BY FS_CardinalityType, FS_Interval
<1>2. PICK f : f \in Bijection(1 .. n, S)
  BY FS_CardinalityType DEF ExistsBijection
<1>3. /\ f \in [1 .. n -> S]
      /\ \A i, j \in 1 .. n : f[i] = f[j] => i = j
      /\ \A x \in S : \E i \in 1 .. n : f[i] = x
  BY <1>2 DEF Bijection, Injection, IsInjective, Surjection
<1> HIDE DEF n
<1> DEFINE place(x) == CHOOSE i \in 1 .. n : f[i] = x
<1>4. \A x \in S : place(x) \in 1 .. n /\ f[place(x)] = x
  BY <1>3, Zenon
<1> HIDE DEF place
<1>5. \A x \in S : place(x) \in Nat /\ v[x] \in Nat
  BY <1>1, <1>4
<1> DEFINE upto(x) == {y \in S : v[y] < v[x] \/ (v[y] = v[x] /\ place(y) <= place(x))}
<1>6. \A x \in S : upto(x) \subseteq S /\ x \in upto(x)
  BY <1>5
<1>7. \A x \in S : IsFiniteSet(upto(x)) /\ Cardinality(upto(x)) \in 1 .. n
  <2> SUFFICES ASSUME NEW x \in S
               PROVE  IsFiniteSet(upto(x)) /\ Cardinality(upto(x)) \in 1 .. n
    OBVIOUS
  <2>1. upto(x) \in SUBSET S /\ upto(x) # {}
    BY <1>6
  <2> HIDE DEF upto
  <2>2. IsFiniteSet(upto(x)) /\ Cardinality(upto(x)) <= n
    BY <2>1, FS_Subset DEF n
  <2>3. Cardinality(upto(x)) \in Nat /\ Cardinality(upto(x)) # 0
    BY <2>1, <2>2, FS_CardinalityType, FS_EmptySet
  <2> QED
    BY <1>1, <2>2, <2>3
<1>8. ASSUME NEW x \in S, NEW y \in S, x # y, v[x] < v[y] \/ (v[x] = v[y] /\ place(x) <= place(y))
      PROVE  Cardinality(upto(x)) < Cardinality(upto(y))
  <2>1. place(x) # place(y)
    BY <1>4, <1>8
  <2>2. upto(x) \subseteq upto(y)
    BY <1>5, <1>8
  <2>3. y \in upto(y) /\ y \notin upto(x)
    BY <1>5, <1>8, <2>1
  <2> HIDE DEF upto
  <2>4. upto(x) # upto(y) /\ upto(x) \in SUBSET upto(y)
    BY <2>2, <2>3
  <2>5. /\ Cardinality(upto(x)) <= Cardinality(upto(y))
        /\ Cardinality(upto(y)) = Cardinality(upto(x)) => upto(y) = upto(x)
    BY <1>7, <2>4, FS_Subset
  <2>6. Cardinality(upto(x)) \in Int /\ Cardinality(upto(y)) \in Int
    BY <1>7
  <2> QED
    BY <2>4, <2>5, <2>6
<1> DEFINE rank == [x \in S |-> Cardinality(upto(x))]
<1>9. rank \in [S -> 1 .. n] /\ \A x \in S : rank[x] = Cardinality(upto(x))
  <2> HIDE DEF upto
  <2> QED
    BY <1>7
<1> HIDE DEF rank, upto
<1>10. ASSUME NEW x \in S, NEW y \in S, x # y PROVE rank[x] # rank[y]
  <2>1. \/ v[x] < v[y] \/ (v[x] = v[y] /\ place(x) <= place(y))
        \/ v[y] < v[x] \/ (v[y] = v[x] /\ place(y) <= place(x))
    BY <1>5
  <2>2. Cardinality(upto(x)) < Cardinality(upto(y)) \/ Cardinality(upto(y)) < Cardinality(upto(x))
    BY <1>8, <1>10, <2>1
  <2>3. rank[x] \in Int /\ rank[y] \in Int
    BY <1>1, <1>9
  <2> QED
    BY <1>9, <2>2, <2>3
<1>11. \A i \in 1 .. n : \E x \in S : rank[x] = i
  <2>1. rank \in Injection(S, 1 .. n)
    BY <1>9, <1>10 DEF Injection, IsInjective
  <2>2. rank \in Surjection(S, 1 .. n)
    BY <1>1, <2>1, FS_Injection DEF n
  <2> QED
    BY <2>2 DEF Surjection
<1> DEFINE at(i) == CHOOSE x \in S : rank[x] = i
           seq == [i \in 1 .. n |-> at(i)]
<1>12. \A i \in 1 .. n : at(i) \in S /\ rank[at(i)] = i
  BY <1>11, Zenon
<1> HIDE DEF at
<1>13. seq \in [1 .. n -> S] /\ \A i \in 1 .. n : seq[i] = at(i)
  BY <1>12
<1> HIDE DEF seq
<1>14. \A i, j \in 1 .. n : i # j => seq[i] # seq[j]
  BY <1>12, <1>13
<1>15. ASSUME NEW i \in 1 .. n, NEW j \in 1 .. n, i < j PROVE v[seq[i]] <= v[seq[j]]
  <2>0. seq[i] \in S /\ seq[j] \in S /\ rank[seq[i]] = i /\ rank[seq[j]] = j
    BY <1>12, <1>13
  <2>1. i \in Int /\ j \in Int /\ i # j /\ ~(j < i)
    BY <1>1, <1>15
  <2>2. ASSUME v[seq[j]] < v[seq[i]] PROVE FALSE
    <3>1. Cardinality(upto(seq[j])) < Cardinality(upto(seq[i]))
      <4>1. seq[j] # seq[i]
        BY <1>14, <2>1
      <4> QED
        BY <1>8, <2>0, <2>2, <4>1
    <3>2. j < i
      BY <1>9, <2>0, <3>1
    <3> QED
      BY <2>1, <3>2
  <2>3. v[seq[i]] \in Nat /\ v[seq[j]] \in Nat
    BY <2>0
  <2> QED
    BY <2>2, <2>3
<1>16. seq \in SetToSeqs(S)
  BY <1>13, <1>14 DEF SetToSeqs, n
<1> QED
  BY <1>15, <1>16 DEF n

\* A listing puts no more elements into a set than there are places for them.
LEMMA CountByPlace ==
    ASSUME NEW S, IsFiniteSet(S), NEW seq \in SetToSeqs(S),
           NEW A \in SUBSET S, NEW l \in Nat, NEW h \in Nat, l >= 1, l <= h + 1,
           \A i \in 1 .. Cardinality(S) : seq[i] \in A => i \in l .. h
    PROVE  IsFiniteSet(A) /\ Cardinality(A) \in Nat /\ Cardinality(A) <= h - l + 1
<1> DEFINE n == Cardinality(S)
           I == {i \in 1 .. n : seq[i] \in A}
<1>1. n \in Nat /\ IsFiniteSet(1 .. n) /\ Cardinality(1 .. n) = n
  BY FS_CardinalityType, FS_Interval
<1>2. seq \in [1 .. n -> S] /\ \A i, j \in 1 .. n : i # j => seq[i] # seq[j]
  BY DEF SetToSeqs
<1>3. \A x \in S : \E i \in 1 .. n : seq[i] = x
  <2> HIDE DEF n
  <2>1. seq \in Injection(1 .. n, S)
    BY <1>2 DEF Injection, IsInjective
  <2>2. seq \in Surjection(1 .. n, S)
    BY <1>1, <2>1, FS_Injection DEF n
  <2> QED
    BY <2>2 DEF Surjection
<1>4. IsFiniteSet(l .. h) /\ Cardinality(l .. h) = h - l + 1
  <2>1. IsFiniteSet(l .. h) /\ Cardinality(l .. h) = IF l > h THEN 0 ELSE h - l + 1
    BY FS_Interval
  <2> QED
    BY <2>1
<1>5. I \in SUBSET (l .. h)
  OBVIOUS
<1>6. IsFiniteSet(I) /\ Cardinality(I) <= h - l + 1 /\ Cardinality(I) \in Nat
  <2> HIDE DEF I
  <2>1. IsFiniteSet(I) /\ Cardinality(I) <= Cardinality(l .. h)
    BY <1>4, <1>5, FS_Subset
  <2> QED
    BY <1>4, <2>1, FS_CardinalityType
<1> DEFINE f == [i \in I |-> seq[i]]
<1>7. f \in Surjection(I, A)
  <2>1. f \in [I -> A]
    OBVIOUS
  <2>2. \A x \in A : \E i \in I : f[i] = x
    BY <1>3
  <2> HIDE DEF f, I
  <2> QED
    BY <2>1, <2>2 DEF Surjection
<1> HIDE DEF f, I
<1>8. IsFiniteSet(A) /\ Cardinality(A) <= Cardinality(I)
  BY <1>6, <1>7, FS_Surjection
<1>9. Cardinality(A) \in Nat
  BY <1>8, FS_CardinalityType
<1> QED
  BY <1>6, <1>8, <1>9

\* A recall counts keys of the exact answer.
LEMMA RecallType == \A s, ef : Recall(s, ef) \in Nat
<1> SUFFICES ASSUME NEW s, NEW ef PROVE Recall(s, ef) \in Nat
  OBVIOUS
<1> DEFINE found == ToSet(GtKeys) \cap ToSet(s.recall[ef])
<1>1. found \in SUBSET ToSet(GtKeys)
  OBVIOUS
<1>2. Recall(s, ef) = Cardinality(found)
  BY Zenon DEF Recall, RecallAtK
<1> HIDE DEF found
<1>3. IsFiniteSet(found)
  BY <1>1, FS_Subset, TargetAssumption
<1> QED
  BY <1>2, <1>3, FS_CardinalityType

\* The rank of the quantile is inside the sample, and below its end when it
\* is not whole.
LEMMA RankInside ==
    ASSUME NEW n \in Nat, n # 0, NEW d \in Nat, NEW q \in 1 .. d - 1, NEW h \in Nat,
           h = (n - 1) * q, NEW lo \in Int, NEW fr \in Int,
           lo = h \div d, fr = h % d
    PROVE  /\ lo \in 0 .. n - 1 /\ fr \in 0 .. d - 1 /\ h = d * lo + fr
           /\ fr # 0 => lo \in 0 .. n - 2
           /\ lo * d = h - fr /\ (lo + 1) * d = h - fr + d
<1>1. h = d * lo + fr /\ fr \in 0 .. d - 1 /\ lo >= 0
  OBVIOUS
<1>2. h <= (n - 1) * d
  <2>1. n - 1 \in Nat /\ q <= d /\ q \in Nat
    OBVIOUS
  <2>2. \A a, b, c \in Nat : b <= c => a * b <= a * c
    OBVIOUS
  <2> QED
    BY <2>1, <2>2
<1>3. PICK k \in Nat : k = n - 1
  OBVIOUS
<1>4. lo \in Nat /\ d >= 1 /\ h <= k * d
  BY <1>1, <1>2, <1>3
<1>5. \A a, b \in Nat : a >= b + 1 => a * d >= b * d + d
  BY <1>4
<1>6. lo * d = d * lo /\ lo * d \in Nat /\ k * d \in Nat /\ (lo + 1) * d = lo * d + d
  BY <1>4
<1>7. lo <= k
  <2> SUFFICES ASSUME lo >= k + 1 PROVE FALSE
    BY <1>4
  <2>1. lo * d >= k * d + d
    BY <1>4, <1>5
  <2> QED
    BY <1>1, <1>4, <1>6, <2>1
<1>8. ASSUME fr # 0 PROVE lo # k
  <2> SUFFICES ASSUME lo = k PROVE FALSE
    OBVIOUS
  <2>1. lo * d = k * d
    OBVIOUS
  <2> QED
    BY <1>1, <1>4, <1>6, <1>8, <2>1
<1> QED
  BY <1>1, <1>3, <1>4, <1>6, <1>7, <1>8

\* Between the values at two neighbouring ranks.
LEMMA Between ==
    ASSUME NEW d \in Nat, NEW fr \in 0 .. d - 1, NEW a \in Nat, NEW b \in Nat, a <= b
    PROVE  /\ d * a + fr * (b - a) \in Nat
           /\ d * a <= d * a + fr * (b - a)
           /\ d * a + fr * (b - a) <= d * b
<1>1. PICK c \in Nat : c = b - a
  OBVIOUS
<1>2. fr \in Nat /\ fr <= d
  OBVIOUS
<1>3. \A x, y, z \in Nat : x <= y => x * z <= y * z
  OBVIOUS
<1>4. PICK e \in Nat : e = fr * c
  BY <1>2
<1>5. e <= d * c
  BY <1>2, <1>3, <1>4
<1>6. d * b = d * a + d * c /\ d * a \in Nat /\ d * c \in Nat
  BY <1>1
<1> QED
  BY <1>1, <1>4, <1>5, <1>6

\* The published quantile divides the sample at its rank.
LEMMA QuantileHolds == EstimatorInv => QuantileDividesSample
<1> SUFFICES ASSUME EstimatorInv, NEW ef \in Efs, Population # {}
             PROVE  LET pop == Population
                        n == Cardinality(pop)
                        h == (n - 1) * (Den - Num)
                        q == QuantileType7(SortedRecalls(pop, ef), Den - Num, Den)
                    IN  /\ Cardinality({s \in pop : Den * Recall(s, ef) < q}) * Den < h + Den
                        /\ Cardinality({s \in pop : Den * Recall(s, ef) > q})
                             <= n - 1 - h \div Den
  BY Zenon DEF QuantileDividesSample
<1> DEFINE pop == Population
           n == Cardinality(pop)
           h == (n - 1) * (Den - Num)
           r == SortedRecalls(pop, ef)
           q == QuantileType7(r, Den - Num, Den)
           below == {s \in pop : Den * Recall(s, ef) < q}
           above == {s \in pop : Den * Recall(s, ef) > q}
<1>1. IsFiniteSet(pop) /\ pop # {}
  BY PopulationFinite
<1> HIDE DEF pop
<1>2. n \in Nat /\ n # 0
  BY <1>1, FS_CardinalityType, FS_EmptySet
<1> DEFINE Sorted(seq) == \A i, j \in DOMAIN seq :
                             i < j => Recall(seq[i], ef) <= Recall(seq[j], ef)
           sorted == CHOOSE seq \in SetToSeqs(pop) : Sorted(seq)
<1>3. \E seq \in SetToSeqs(pop) : Sorted(seq)
  <2> DEFINE v == [s \in pop |-> Recall(s, ef)]
  <2>1. v \in [pop -> Nat]
    BY RecallType
  <2>2. PICK seq \in SetToSeqs(pop) :
          \A i, j \in 1 .. Cardinality(pop) : i < j => v[seq[i]] <= v[seq[j]]
    <3> HIDE DEF v
    <3> QED
      BY <1>1, <2>1, SortedListing
  <2>3. seq \in [1 .. n -> pop] /\ DOMAIN seq = 1 .. n
    BY DEF SetToSeqs
  <2>4. \A i \in 1 .. n : v[seq[i]] = Recall(seq[i], ef)
    BY <2>3
  <2> QED
    BY <2>2, <2>3, <2>4
<1>4. sorted \in SetToSeqs(pop) /\ Sorted(sorted)
  <2> HIDE DEF Sorted
  <2> QED
    BY <1>3, Zenon
<1>5. r = [i \in DOMAIN sorted |-> Recall(sorted[i], ef)]
  BY Zenon DEF SortedRecalls
<1> HIDE DEF r, sorted
<1>6. sorted \in [1 .. n -> pop] /\ DOMAIN sorted = 1 .. n
  BY <1>4 DEF SetToSeqs
<1>7. \A i \in 1 .. n : r[i] = Recall(sorted[i], ef) /\ r[i] \in Nat
  BY <1>5, <1>6, RecallType
<1>8. r \in Seq(Nat) /\ Len(r) = n
  <2>1. r \in [1 .. n -> Nat]
    BY <1>5, <1>6, RecallType
  <2> HIDE DEF n
  <2>2. r \in Seq(Nat)
    BY <1>2, <2>1
  <2> QED
    BY <1>2, <2>1, <2>2
<1>9. \A i, j \in 1 .. n : i <= j => r[i] <= r[j]
  <2> SUFFICES ASSUME NEW i \in 1 .. n, NEW j \in 1 .. n, i <= j PROVE r[i] <= r[j]
    OBVIOUS
  <2>1. CASE i = j
    BY <1>7, <2>1
  <2>2. CASE i # j
    <3>1. i < j
      BY <1>2, <2>2
    <3>2. Recall(sorted[i], ef) <= Recall(sorted[j], ef)
      BY <1>4, <1>6, <3>1
    <3> QED
      BY <1>7, <3>2
  <2> QED
    BY <2>1, <2>2
<1>10. Den \in Nat /\ Den > 0 /\ Den - Num \in 1 .. Den - 1
  BY TargetAssumption
<1> HIDE DEF n
<1>11. h \in Nat
  <2>1. n - 1 \in Nat /\ Den - Num \in Nat
    BY <1>2, <1>10
  <2> QED
    BY <2>1
<1>12. PICK k \in Nat : k = h
  BY <1>11
<1>13. k = (n - 1) * (Den - Num)
  BY <1>12
<1> HIDE DEF h
<1> DEFINE lo == k \div Den
           fr == k % Den
<1>14. lo \in Int /\ fr \in Int
  BY <1>10
<1>15. /\ lo \in 0 .. n - 1 /\ fr \in 0 .. Den - 1
       /\ fr # 0 => lo \in 0 .. n - 2
       /\ lo * Den = k - fr /\ (lo + 1) * Den = k - fr + Den
  <2>1. PICK p \in 1 .. Den - 1 : p = Den - Num
    BY <1>10
  <2>2. k = (n - 1) * p
    BY <1>13, <2>1
  <2>3. lo = k \div Den /\ fr = k % Den
    OBVIOUS
  <2> HIDE DEF lo, fr
  <2> QED
    BY <1>2, <1>10, <1>14, <2>2, <2>3, RankInside
<1>16. q = IF fr = 0 THEN Den * r[lo + 1]
           ELSE Den * r[lo + 1] + fr * (r[lo + 2] - r[lo + 1])
  BY <1>8, <1>13, Zenon DEF QuantileType7
<1> HIDE DEF lo, fr, q
<1>17. lo + 1 \in 1 .. n
  BY <1>2, <1>15
<1>18. q \in Int /\ Den * r[lo + 1] <= q
  <2>1. CASE fr = 0
    BY <1>7, <1>10, <1>16, <1>17, <2>1
  <2>2. CASE fr # 0
    <3>1. lo + 2 \in 1 .. n /\ lo + 1 <= lo + 2
      BY <1>2, <1>15, <2>2
    <3>2. r[lo + 1] <= r[lo + 2] /\ r[lo + 1] \in Nat /\ r[lo + 2] \in Nat
      BY <1>7, <1>9, <1>17, <3>1
    <3> QED
      BY <1>10, <1>15, <1>16, <2>2, <3>2, Between
  <2> QED
    BY <2>1, <2>2
<1>19. \A x, y \in Nat : Den * x < Den * y => x < y
  BY <1>10
<1>20. Cardinality(above) <= n - 1 - lo
  <2>1. ASSUME NEW i \in 1 .. n, sorted[i] \in above PROVE i \in lo + 2 .. n
    <3>1. Den * r[i] > q
      BY <1>7, <2>1
    <3>2. r[i] \in Nat /\ r[lo + 1] \in Nat
      BY <1>7, <1>17
    <3>3. PICK x \in Nat : x = Den * r[i]
      BY <1>10, <3>2
    <3>4. PICK y \in Nat : y = Den * r[lo + 1]
      BY <1>10, <3>2
    <3>5. y < x
      BY <1>18, <3>1, <3>3, <3>4
    <3>6. r[lo + 1] < r[i]
      BY <1>19, <3>2, <3>3, <3>4, <3>5
    <3>7. ~(r[i] <= r[lo + 1])
      BY <3>2, <3>6
    <3>8. ~(i <= lo + 1)
      BY <1>9, <1>17, <3>7
    <3> QED
      BY <1>2, <1>14, <1>17, <3>8
  <2>2. above \in SUBSET pop /\ lo + 2 \in Nat /\ lo + 2 >= 1 /\ lo + 2 <= n + 1
    BY <1>2, <1>15
  <2> HIDE DEF above
  <2>3. Cardinality(above) \in Nat /\ Cardinality(above) <= n - (lo + 2) + 1
    <3>1. \A i \in 1 .. Cardinality(pop) : sorted[i] \in above => i \in lo + 2 .. n
      BY <2>1 DEF n
    <3> QED
      BY <1>1, <1>2, <1>4, <2>2, <3>1, CountByPlace
  <2> QED
    BY <1>2, <1>14, <2>3
<1>21. Cardinality(below) * Den < k + Den
  <2>1. CASE fr = 0
    <3>1. ASSUME NEW i \in 1 .. n, sorted[i] \in below PROVE i \in 1 .. lo
      <4>1. Den * r[i] < Den * r[lo + 1]
        BY <1>7, <1>16, <2>1, <3>1
      <4>2. r[i] < r[lo + 1] /\ r[i] \in Nat /\ r[lo + 1] \in Nat
        BY <1>7, <1>17, <1>19, <4>1
      <4>3. ~(lo + 1 <= i)
        BY <1>9, <1>17, <4>2
      <4> QED
        BY <1>2, <1>14, <4>3
    <3>2. below \in SUBSET pop /\ lo \in Nat /\ 1 <= lo + 1
      BY <1>2, <1>15
    <3> HIDE DEF below
    <3>3. Cardinality(below) \in Nat /\ Cardinality(below) <= lo - 1 + 1
      <4>1. PICK l \in Nat : l = 1
        OBVIOUS
      <4>2. PICK m \in Nat : m = lo
        BY <3>2
      <4>3. \A i \in 1 .. Cardinality(pop) : sorted[i] \in below => i \in l .. m
        BY <3>1, <4>1, <4>2 DEF n
      <4>4. l >= 1 /\ l <= m + 1
        BY <4>1, <4>2
      <4>5. Cardinality(below) \in Nat /\ Cardinality(below) <= m - l + 1
        BY <1>1, <1>4, <3>2, <4>3, <4>4, CountByPlace
      <4> QED
        BY <4>1, <4>2, <4>5
    <3>4. Cardinality(below) <= lo
      BY <3>2, <3>3
    <3>5. Cardinality(below) * Den <= lo * Den
      BY <1>10, <3>2, <3>3, <3>4
    <3>6. PICK x \in Nat : x = Cardinality(below) * Den
      BY <1>10, <3>3
    <3>7. x <= k
      BY <1>14, <1>15, <2>1, <3>5, <3>6
    <3> QED
      BY <1>10, <3>6, <3>7
  <2>2. CASE fr # 0
    <3>0. /\ lo + 2 \in 1 .. n /\ lo + 1 <= lo + 2
          /\ r[lo + 1] <= r[lo + 2] /\ r[lo + 1] \in Nat /\ r[lo + 2] \in Nat
      <4>1. lo + 2 \in 1 .. n /\ lo + 1 <= lo + 2
        BY <1>2, <1>15, <2>2
      <4> QED
        BY <1>7, <1>9, <1>17, <4>1
    <3>1. q <= Den * r[lo + 2]
      BY <1>10, <1>15, <1>16, <2>2, <3>0, Between
    <3>2. ASSUME NEW i \in 1 .. n, sorted[i] \in below PROVE i \in 1 .. lo + 1
      <4>1. Den * r[i] < q /\ r[i] \in Nat
        BY <1>7, <3>2
      <4>2. PICK x \in Nat : x = Den * r[i]
        BY <1>10, <4>1
      <4>3. PICK y \in Nat : y = Den * r[lo + 2]
        BY <1>10, <3>0
      <4>4. x < y
        BY <1>18, <3>1, <4>1, <4>2, <4>3
      <4>5. r[i] < r[lo + 2]
        BY <1>19, <3>0, <4>1, <4>2, <4>3, <4>4
      <4>6. ~(lo + 2 <= i)
        BY <1>9, <3>0, <4>1, <4>5
      <4> QED
        BY <1>2, <1>14, <4>6
    <3>3. below \in SUBSET pop /\ lo + 1 \in Nat /\ 1 <= (lo + 1) + 1
      BY <1>2, <1>15
    <3> HIDE DEF below
    <3>4. Cardinality(below) \in Nat /\ Cardinality(below) <= (lo + 1) - 1 + 1
      <4>1. PICK l \in Nat : l = 1
        OBVIOUS
      <4>2. PICK m \in Nat : m = lo + 1
        BY <3>3
      <4>3. \A i \in 1 .. Cardinality(pop) : sorted[i] \in below => i \in l .. m
        BY <3>2, <4>1, <4>2 DEF n
      <4>4. l >= 1 /\ l <= m + 1
        BY <4>1, <4>2
      <4>5. Cardinality(below) \in Nat /\ Cardinality(below) <= m - l + 1
        BY <1>1, <1>4, <3>3, <4>3, <4>4, CountByPlace
      <4> QED
        BY <4>1, <4>2, <4>5
    <3>5. Cardinality(below) <= lo + 1
      BY <3>3, <3>4
    <3>6. Cardinality(below) * Den <= (lo + 1) * Den
      BY <1>10, <3>3, <3>4, <3>5
    <3>7. PICK x \in Nat : x = Cardinality(below) * Den
      BY <1>10, <3>4
    <3>8. x <= k - fr + Den /\ fr > 0
      BY <1>10, <1>14, <1>15, <2>2, <3>6, <3>7
    <3> QED
      BY <1>10, <1>14, <3>7, <3>8
  <2> QED
    BY <2>1, <2>2
<1>22. /\ Cardinality(below) * Den < h + Den
       /\ Cardinality(above) <= n - 1 - h \div Den
  BY <1>12, <1>20, <1>21 DEF lo
<1> QED
  BY <1>22 DEF q, r, h, n, pop

\* For every population, percentile and pair of confidences, a round says that
\* samples are insufficient only if no answers could have cleared the
\* confidence, that the target is unmet only if some could have, and the
\* recall quantile it publishes divides the sample at its rank (aggregate,
\* select_ef, quantile_type7).
THEOREM VerdictSound == EstimatorSpec => []VerdictIsSound
<1>1. EstimatorInv => VerdictIsSound
  BY HopelessHolds, PossibleHolds, QuantileHolds DEF VerdictIsSound
<1> QED
  BY <1>1, EstimatorInvHolds, PTL
=============================================================================
