----------------------------- MODULE DataLemmas -----------------------------
(***************************************************************************)
(* Laws of the data the models are built from: byte sums, induction over   *)
(* naturals, functions defined by recursion, and sequences.                *)
(***************************************************************************)
EXTENDS ByteSums, SequencesExt, FiniteSetTheorems, SequenceTheorems,
        WellFoundedInduction, TLAPS

-----------------------------------------------------------------------------
(* Byte sums.                                                              *)

\* Finitely many items of bounded size have finitely many bytes.
LEMMA ByteSumType ==
    ASSUME NEW U, IsFiniteSet(U), NEW m \in Nat, NEW size \in [U -> 1..m],
           NEW S \in SUBSET U
    PROVE  IsFiniteSet(ByteSet(S, size)) /\ ByteSum(S, size) \in Nat
<1>1. IsFiniteSet(1..m)
  BY FS_Interval
<1>2. IsFiniteSet(U \X (1..m))
  BY <1>1, FS_Product
<1>3. ByteSet(S, size) \in SUBSET (U \X (1..m))
  BY DEF ByteSet
<1>4. IsFiniteSet(ByteSet(S, size))
  BY <1>2, <1>3, FS_Subset
<1> QED
  BY <1>4, FS_CardinalityType DEF ByteSum

\* Nothing has no bytes.
LEMMA ByteSumEmpty == \A size : ByteSum({}, size) = 0
<1>1. \A size : ByteSet({}, size) = {}
  BY DEF ByteSet
<1> QED
  BY <1>1, FS_EmptySet DEF ByteSum

\* The bytes of disjoint sets add up.
LEMMA ByteSumDisjoint ==
    ASSUME NEW U, IsFiniteSet(U), NEW m \in Nat, NEW size \in [U -> 1..m],
           NEW S \in SUBSET U, NEW T \in SUBSET U, S \cap T = {}
    PROVE  ByteSum(S \cup T, size) = ByteSum(S, size) + ByteSum(T, size)
<1>1. IsFiniteSet(ByteSet(S, size)) /\ IsFiniteSet(ByteSet(T, size))
  BY ByteSumType
<1>2. ByteSet(S \cup T, size) = ByteSet(S, size) \cup ByteSet(T, size)
  BY DEF ByteSet
<1>3. ByteSet(S, size) \cap ByteSet(T, size) = {}
  BY DEF ByteSet
<1>4. Cardinality(ByteSet(S, size) \cup ByteSet(T, size)) =
        Cardinality(ByteSet(S, size)) + Cardinality(ByteSet(T, size))
          - Cardinality(ByteSet(S, size) \cap ByteSet(T, size))
  BY <1>1, FS_Union
<1>5. Cardinality(ByteSet(S, size) \cap ByteSet(T, size)) = 0
  BY <1>3, FS_EmptySet
<1>6. ByteSum(S, size) \in Nat /\ ByteSum(T, size) \in Nat
  BY ByteSumType
<1>7. ByteSum(S \cup T, size) = ByteSum(S, size) + ByteSum(T, size) - 0
  BY <1>2, <1>4, <1>5, Zenon DEF ByteSum
<1> QED
  BY <1>6, <1>7

\* One item has as many bytes as its size says.
LEMMA ByteSumOne ==
    ASSUME NEW U, NEW m \in Nat, NEW size \in [U -> 1..m], NEW x \in U
    PROVE  ByteSum({x}, size) = size[x]
<1>1. ByteSet({x}, size) = {x} \X (1..size[x])
  BY DEF ByteSet
<1>2. size[x] \in Nat /\ size[x] >= 1
  OBVIOUS
<1>3. IsFiniteSet(1..size[x]) /\ Cardinality(1..size[x]) = size[x]
  BY <1>2, FS_Interval
<1>4. IsFiniteSet({x}) /\ Cardinality({x}) = 1
  BY FS_Singleton
<1>5. Cardinality({x} \X (1..size[x])) = Cardinality({x}) * Cardinality(1..size[x])
  BY <1>3, <1>4, FS_Product
<1>6. ByteSum({x}, size) = 1 * size[x]
  BY <1>1, <1>3, <1>4, <1>5, Zenon DEF ByteSum
<1> QED
  BY <1>2, <1>6

\* Adding an item adds its size.
LEMMA ByteSumAdd ==
    ASSUME NEW U, IsFiniteSet(U), NEW m \in Nat, NEW size \in [U -> 1..m],
           NEW S \in SUBSET U, NEW x \in U \ S
    PROVE  ByteSum(S \cup {x}, size) = ByteSum(S, size) + size[x]
<1>1. {x} \in SUBSET U /\ S \cap {x} = {}
  OBVIOUS
<1>2. ByteSum(S \cup {x}, size) = ByteSum(S, size) + ByteSum({x}, size)
  BY <1>1, ByteSumDisjoint
<1>3. ByteSum({x}, size) = size[x]
  BY ByteSumOne
<1> QED
  BY <1>2, <1>3, Zenon

\* Removing items removes their bytes, and no more than there are.
LEMMA ByteSumRemove ==
    ASSUME NEW U, IsFiniteSet(U), NEW m \in Nat, NEW size \in [U -> 1..m],
           NEW S \in SUBSET U, NEW T \in SUBSET S
    PROVE  /\ ByteSum(S \ T, size) = ByteSum(S, size) - ByteSum(T, size)
           /\ ByteSum(T, size) <= ByteSum(S, size)
<1>1. (S \ T) \cup T = S /\ (S \ T) \cap T = {}
  OBVIOUS
<1>2. S \ T \in SUBSET U /\ T \in SUBSET U
  OBVIOUS
<1>3. ByteSum(S, size) = ByteSum(S \ T, size) + ByteSum(T, size)
  BY <1>1, <1>2, ByteSumDisjoint
<1>4. ByteSum(S \ T, size) \in Nat /\ ByteSum(T, size) \in Nat
  BY <1>2, ByteSumType
<1> QED
  BY <1>3, <1>4

-----------------------------------------------------------------------------
(* Induction and recursion over naturals.  An induction is over a set and  *)
(* not over a predicate, so that no prover has to instantiate an operator. *)

\* A set with 0 that is closed under successor has every natural.
LEMMA NatSetInduction ==
    ASSUME NEW S, 0 \in S, \A n \in Nat : n \in S => n + 1 \in S
    PROVE  Nat \subseteq S
<1> DEFINE R == OpToRel(<, Nat)
           T == Nat \ S
<1>1. IsWellFoundedOn(R, Nat)
  BY NatLessThanWellFounded
<1>2. \A x, y \in Nat : x < y => <<x, y>> \in R
  BY DEF OpToRel
<1> HIDE DEF R
<1>3. SUFFICES ASSUME T # {} PROVE FALSE
  OBVIOUS
<1>4. T \subseteq Nat
  OBVIOUS
<1>5. \E x \in T : \A y \in T : ~(<<y, x>> \in R)
  <2> HIDE DEF T
  <2> QED
    BY <1>1, <1>3, <1>4, WFMin
<1>6. PICK x \in T : \A y \in T : ~(<<y, x>> \in R)
  BY <1>5
<1>7. x \in Nat /\ x # 0 /\ x \notin S
  OBVIOUS
<1>8. x - 1 \in Nat /\ x - 1 < x /\ (x - 1) + 1 = x
  BY <1>7
<1>9. x - 1 \notin T
  BY <1>2, <1>6, <1>7, <1>8
<1> QED
  BY <1>7, <1>8, <1>9

\* Induction up to a bound.
LEMMA IntervalInduction ==
    ASSUME NEW m \in Nat, NEW S, 0 \in S, \A n \in 0..(m - 1) : n \in S => n + 1 \in S
    PROVE  0..m \subseteq S
<1> DEFINE T == {n \in Nat : n <= m => n \in S}
<1>1. 0 \in T /\ \A n \in Nat : n \in T => n + 1 \in T
  OBVIOUS
<1>2. Nat \subseteq T
  <2> HIDE DEF T
  <2> QED
    BY <1>1, NatSetInduction
<1> QED
  BY <1>2


\* Two functions that agree at 0 and are continued alike agree.
LEMMA Unfolding ==
    ASSUME NEW m \in Nat, NEW f, NEW g, f[0] = g[0],
           \A i \in 1 .. m : f[i - 1] = g[i - 1] => f[i] = g[i]
    PROVE  \A i \in 0 .. m : f[i] = g[i]
<1> DEFINE S == {i \in 0 .. m : f[i] = g[i]}
<1>1. 0 \in S
  OBVIOUS
<1>2. ASSUME NEW n \in 0 .. (m - 1), n \in S PROVE n + 1 \in S
  <2>1. n + 1 \in 1 .. m /\ (n + 1) - 1 = n /\ n + 1 \in 0 .. m
    OBVIOUS
  <2> QED
    BY <1>2, <2>1
<1>3. 0 .. m \subseteq S
  <2> HIDE DEF S
  <2> QED
    BY <1>1, <1>2, IntervalInduction
<1> QED
  BY <1>3

\* A recursive definition of a sequence in A, and the sequence it defines.
Recursion(A, a, step) == a \in A /\ step \in [A \X Nat -> A]
Solves(f, A, a, step) ==
    /\ f \in [Nat -> A]
    /\ f[0] = a
    /\ \A n \in Nat : f[n + 1] = step[<<f[n], n + 1>>]

\* Recursion on the naturals defines a function.
LEMMA RecursionSolved ==
    \A A, a, step : Recursion(A, a, step) => \E f : Solves(f, A, a, step)
<1> SUFFICES ASSUME NEW A, NEW a, NEW step, Recursion(A, a, step)
             PROVE  \E f : Solves(f, A, a, step)
  OBVIOUS
<1>0. a \in A /\ step \in [A \X Nat -> A]
  BY DEF Recursion
<1> DEFINE Run(g, n) == /\ g \in [0..n -> A] /\ g[0] = a
                        /\ \A i \in 1..n : g[i] = step[<<g[i - 1], i>>]
           S == {n \in Nat : \E g : Run(g, n)}
<1>1. 0 \in S
  <2>1. Run([i \in 0..0 |-> a], 0)
    BY <1>0
  <2> QED
    BY <2>1
<1>2. ASSUME NEW n \in Nat, n \in S PROVE n + 1 \in S
  <2>1. PICK g : Run(g, n)
    BY <1>2
  <2> DEFINE h == [i \in 0..(n + 1) |->
                     IF i <= n THEN g[i] ELSE step[<<g[n], n + 1>>]]
  <2>2. \A i \in 0..n : h[i] = g[i]
    OBVIOUS
  <2>3. h[n + 1] = step[<<g[n], n + 1>>] /\ g[n] \in A
    BY <2>1
  <2>4. h \in [0..(n + 1) -> A]
    BY <1>0, <2>1, <2>3
  <2> HIDE DEF h
  <2>5. ASSUME NEW i \in 1..(n + 1) PROVE h[i] = step[<<h[i - 1], i>>]
    <3>1. CASE i = n + 1
      <4>1. i - 1 = n /\ h[i - 1] = g[n]
        BY <2>2, <3>1
      <4> QED
        BY <2>3, <3>1, <4>1
    <3>2. CASE i # n + 1
      <4>1. i \in 1..n /\ i \in 0..n /\ i - 1 \in 0..n
        BY <3>2
      <4> QED
        BY <2>1, <2>2, <4>1
    <3> QED
      BY <3>1, <3>2
  <2>6. Run(h, n + 1)
    BY <2>1, <2>2, <2>4, <2>5
  <2>7. n + 1 \in Nat
    OBVIOUS
  <2> HIDE DEF Run
  <2> QED
    BY <2>6, <2>7
<1>3. ASSUME NEW n \in Nat PROVE \E g : Run(g, n)
  <2> HIDE DEF S
  <2>1. Nat \subseteq S
    BY <1>1, <1>2, NatSetInduction
  <2> QED
    BY <2>1 DEF S
<1>4. ASSUME NEW n \in Nat, NEW g, NEW h, Run(g, n), Run(h, n + 1)
      PROVE  h[n] = g[n]
  <2>1. ASSUME NEW i \in 1 .. n, g[i - 1] = h[i - 1] PROVE g[i] = h[i]
    <3>1. i \in 1 .. n + 1
      OBVIOUS
    <3>2. g[i] = step[<<g[i - 1], i>>] /\ h[i] = step[<<h[i - 1], i>>]
      BY <1>4, <3>1
    <3> QED
      BY <2>1, <3>2
  <2>2. g[0] = h[0]
    BY <1>4
  <2>3. \A i \in 0 .. n : g[i] = h[i]
    BY <2>1, <2>2, Unfolding
  <2> QED
    BY <2>3
<1> DEFINE run(n) == CHOOSE g : Run(g, n)
           f == [n \in Nat |-> run(n)[n]]
<1>5. ASSUME NEW n \in Nat PROVE Run(run(n), n)
  <2> HIDE DEF Run
  <2> QED
    BY <1>3
<1> HIDE DEF run
<1>6. f \in [Nat -> A] /\ f[0] = a
  <2>1. ASSUME NEW n \in Nat PROVE run(n)[n] \in A
    <3>1. run(n) \in [0..n -> A]
      BY <1>5
    <3> QED
      BY <3>1
  <2>2. run(0)[0] = a
    BY <1>5
  <2> QED
    BY <2>1, <2>2
<1>7. ASSUME NEW n \in Nat PROVE f[n + 1] = step[<<f[n], n + 1>>]
  <2>1. Run(run(n), n) /\ Run(run(n + 1), n + 1) /\ n + 1 \in 1 .. n + 1
    BY <1>5
  <2>2. run(n + 1)[n] = run(n)[n]
    <3> HIDE DEF Run
    <3> QED
      BY <1>4, <2>1
  <2>3. run(n + 1)[n + 1] = step[<<run(n + 1)[(n + 1) - 1], n + 1>>]
    BY <2>1
  <2>4. (n + 1) - 1 = n /\ n + 1 \in Nat
    OBVIOUS
  <2> QED
    BY <2>2, <2>3, <2>4
<1> HIDE DEF f
<1>8. Solves(f, A, a, step)
  BY <1>6, <1>7 DEF Solves
<1> QED
  BY <1>8

\* The same up to a bound.
BoundedRecursion(A, a, m, step) ==
    a \in A /\ m \in Nat /\ step \in [A \X (1 .. m) -> A]
SolvesUpTo(f, A, a, m, step) ==
    /\ f \in [0 .. m -> A]
    /\ f[0] = a
    /\ \A i \in 1 .. m : f[i] = step[<<f[i - 1], i>>]

\* And so does recursion up to a bound.
LEMMA BoundedRecursionSolved ==
    \A A, a, m, step :
        BoundedRecursion(A, a, m, step) => \E f : SolvesUpTo(f, A, a, m, step)
<1> SUFFICES ASSUME NEW A, NEW a, NEW m, NEW step, BoundedRecursion(A, a, m, step)
             PROVE  \E f : SolvesUpTo(f, A, a, m, step)
  OBVIOUS
<1>0. a \in A /\ m \in Nat /\ step \in [A \X (1 .. m) -> A]
  BY DEF BoundedRecursion
<1> DEFINE more == [x \in A \X Nat |-> IF x[2] \in 1 .. m THEN step[x] ELSE a]
<1>1. more \in [A \X Nat -> A]
  <2> SUFFICES ASSUME NEW x \in A \X Nat, x[2] \in 1 .. m PROVE step[x] \in A
    BY <1>0
  <2>1. x \in A \X (1 .. m)
    OBVIOUS
  <2> QED
    BY <1>0, <2>1
<1>2. \A y \in A, i \in 1 .. m : more[<<y, i>>] = step[<<y, i>>]
  BY <1>0
<1> HIDE DEF more
<1>3. Recursion(A, a, more)
  BY <1>0, <1>1 DEF Recursion
<1>4. PICK g : Solves(g, A, a, more)
  BY <1>3, RecursionSolved
<1>5. /\ g \in [Nat -> A] /\ g[0] = a
      /\ \A n \in Nat : g[n + 1] = more[<<g[n], n + 1>>]
  BY <1>4 DEF Solves
<1> DEFINE f == [i \in 0 .. m |-> g[i]]
<1>6. f \in [0 .. m -> A] /\ f[0] = a
  BY <1>0, <1>5
<1>7. ASSUME NEW i \in 1 .. m PROVE f[i] = step[<<f[i - 1], i>>]
  <2>1. i - 1 \in Nat /\ (i - 1) + 1 = i /\ i \in 0 .. m /\ i - 1 \in 0 .. m
    BY <1>0
  <2>2. g[i] = more[<<g[i - 1], i>>] /\ g[i - 1] \in A
    BY <1>5, <2>1
  <2> QED
    BY <1>2, <2>1, <2>2
<1> HIDE DEF f
<1>8. SolvesUpTo(f, A, a, m, step)
  BY <1>6, <1>7 DEF SolvesUpTo
<1> QED
  BY <1>8

\* A set of naturals that is not empty has a least element.
LEMMA MinIsLeast ==
    ASSUME NEW S \in SUBSET Nat, S # {}
    PROVE  Min(S) \in S /\ \A x \in S : Min(S) <= x
<1> DEFINE R == OpToRel(<, Nat)
<1>1. IsWellFoundedOn(R, Nat)
  BY NatLessThanWellFounded
<1>2. \A x, y \in Nat : x < y => <<x, y>> \in R
  BY DEF OpToRel
<1> HIDE DEF R
<1>3. \E x \in S : \A y \in S : ~(<<y, x>> \in R)
  BY <1>1, WFMin
<1>4. PICK x \in S : \A y \in S : ~(<<y, x>> \in R)
  BY <1>3
<1>5. ASSUME NEW y \in S PROVE x <= y
  <2>1. x \in Nat /\ y \in Nat
    OBVIOUS
  <2>2. ~(y < x)
    BY <1>2, <1>4, <2>1
  <2> QED
    BY <2>1, <2>2
<1>6. \E z \in S : \A y \in S : z =< y
  BY <1>5
<1> DEFINE P(z) == z \in S /\ \A y \in S : z =< y
<1>7. Min(S) = CHOOSE z \in S : \A y \in S : z =< y
  BY DEF Min
<1> QED
  BY <1>6, <1>7

-----------------------------------------------------------------------------
(* Sequences.                                                              *)

\* A concatenation has the members of both sequences.
LEMMA ConcatSet ==
    ASSUME NEW T, NEW x \in Seq(T), NEW y \in Seq(T)
    PROVE  ToSet(x \o y) = ToSet(x) \cup ToSet(y)
<1>1. /\ ToSet(x) = {x[j] : j \in 1 .. Len(x)} /\ Len(x) \in Nat
      /\ ToSet(y) = {y[j] : j \in 1 .. Len(y)} /\ Len(y) \in Nat
  BY DEF ToSet
<1>2. /\ x \o y \in Seq(T) /\ Len(x \o y) = Len(x) + Len(y)
      /\ \A j \in 1 .. Len(x) + Len(y) :
            (x \o y)[j] = IF j <= Len(x) THEN x[j] ELSE y[j - Len(x)]
  BY ConcatProperties
<1>3. ToSet(x \o y) = {(x \o y)[j] : j \in 1 .. Len(x) + Len(y)}
  BY <1>2 DEF ToSet
<1>4. ASSUME NEW j \in 1 .. Len(x) PROVE x[j] \in ToSet(x \o y)
  BY <1>1, <1>2, <1>3
<1>5. ASSUME NEW j \in 1 .. Len(y) PROVE y[j] \in ToSet(x \o y)
  <2>1. /\ j + Len(x) \in 1 .. Len(x) + Len(y) /\ ~(j + Len(x) <= Len(x))
        /\ (j + Len(x)) - Len(x) = j
    BY <1>1
  <2> QED
    BY <1>2, <1>3, <2>1
<1>6. ASSUME NEW j \in 1 .. Len(x) + Len(y)
      PROVE  (x \o y)[j] \in ToSet(x) \cup ToSet(y)
  <2>1. CASE j <= Len(x)
    <3>1. j \in 1 .. Len(x) /\ (x \o y)[j] = x[j]
      BY <1>1, <1>2, <2>1
    <3> QED
      BY <1>1, <3>1
  <2>2. CASE ~(j <= Len(x))
    <3>1. j - Len(x) \in 1 .. Len(y) /\ (x \o y)[j] = y[j - Len(x)]
      BY <1>1, <1>2, <2>2
    <3> QED
      BY <1>1, <3>1
  <2> QED
    BY <2>1, <2>2
<1>7. ToSet(x) \subseteq ToSet(x \o y) /\ ToSet(y) \subseteq ToSet(x \o y)
  BY <1>1, <1>4, <1>5, Zenon
<1>8. ToSet(x \o y) \subseteq ToSet(x) \cup ToSet(y)
  BY <1>3, <1>6, Zenon
<1> QED
  BY <1>7, <1>8

\* The concatenations of the first 0, 1, 2... of n sequences.
Partials(f, n, seqs, T) ==
    /\ f \in [0 .. n -> Seq(T)]
    /\ f[0] = << >>
    /\ \A i \in 1 .. n : f[i] = f[i - 1] \o seqs[i]

\* There is one such list, and the last of it is the whole concatenation.
LEMMA FlattenPartials ==
    ASSUME NEW T, NEW n \in Nat, NEW seqs \in [1 .. n -> Seq(T)]
    PROVE  /\ Len(seqs) = n
           /\ \E f : Partials(f, n, seqs, T) /\ FlattenSeq(seqs) = f[n]
<1>0. Len(seqs) = n
  <2> DEFINE TT == Seq(T)
  <2> HIDE DEF TT
  <2>1. seqs \in [1 .. n -> TT]
    BY DEF TT
  <2>2. seqs \in Seq(TT)
    BY <2>1
  <2> QED
    BY <2>1, <2>2
<1> DEFINE flatten[i \in 1 .. n] == IF i = 1 THEN seqs[i] ELSE flatten[i - 1] \o seqs[i]
           A == Seq(T)
           step == [x \in A \X (1 .. n) |-> x[1] \o seqs[x[2]]]
<1>1. \A x \in A, i \in 1 .. n : x \o seqs[i] \in A
  OBVIOUS
<1>2. step \in [A \X (1 .. n) -> A]
  <2> HIDE DEF A
  <2> QED
    BY <1>1
<1>3. \A y \in A, i \in 1 .. n : step[<<y, i>>] = y \o seqs[i]
  <2> HIDE DEF A
  <2> QED
    OBVIOUS
<1>4. << >> \in A
  OBVIOUS
<1> HIDE DEF step, A
<1>5. BoundedRecursion(A, << >>, n, step)
  BY <1>2, <1>4 DEF BoundedRecursion
<1>6. PICK g : SolvesUpTo(g, A, << >>, n, step)
  BY <1>5, BoundedRecursionSolved
<1>7. g \in [0 .. n -> A] /\ g[0] = << >>
  BY <1>6 DEF SolvesUpTo
<1>8. ASSUME NEW i \in 1 .. n PROVE g[i] = g[i - 1] \o seqs[i]
  <2>1. g[i] = step[<<g[i - 1], i>>]
    BY <1>6 DEF SolvesUpTo
  <2>2. i - 1 \in 0 .. n
    OBVIOUS
  <2>3. g[i - 1] \in A
    BY <1>7, <2>2
  <2> QED
    BY <1>3, <2>1, <2>3
<1>9. Partials(g, n, seqs, T)
  BY <1>7, <1>8 DEF Partials, A
<1>10. CASE n = 0
  <2>1. FlattenSeq(seqs) = seqs
    BY <1>0, <1>10 DEF FlattenSeq
  <2>2. seqs = << >>
    BY <1>10
  <2> QED
    BY <1>0, <1>7, <1>9, <1>10, <2>1, <2>2
<1>11. CASE n # 0
  <2>1. g[1] = seqs[1]
    <3>1. 1 \in 1 .. n /\ 1 - 1 = 0
      BY <1>11
    <3>2. g[1] = << >> \o seqs[1] /\ seqs[1] \in Seq(T)
      BY <1>7, <1>8, <3>1
    <3> QED
      BY <3>2, ConcatEmptySeq
  <2> DEFINE f == [i \in 1 .. n |-> g[i]]
             h == [i \in 1 .. n |-> IF i = 1 THEN seqs[i] ELSE f[i - 1] \o seqs[i]]
  <2>2. ASSUME NEW i \in 1 .. n PROVE f[i] = h[i]
    <3>1. CASE i = 1
      BY <2>1, <3>1
    <3>2. CASE i # 1
      <4>1. i - 1 \in 1 .. n
        BY <3>2
      <4>2. f[i - 1] = g[i - 1] /\ f[i] = g[i]
        BY <4>1
      <4>3. h[i] = f[i - 1] \o seqs[i]
        BY <3>2
      <4> HIDE DEF f, h
      <4> QED
        BY <1>8, <4>2, <4>3
    <3> QED
      BY <3>1, <3>2
  <2>3. f = h
    <3>1. f = [i \in 1 .. n |-> f[i]] /\ h = [i \in 1 .. n |-> h[i]]
      OBVIOUS
    <3> HIDE DEF f, h
    <3> QED
      BY <2>2, <3>1
  <2>4. f = [i \in 1 .. n |-> IF i = 1 THEN seqs[i] ELSE f[i - 1] \o seqs[i]]
    <3> HIDE DEF f
    <3> QED
      BY <2>3
  <2> HIDE DEF f, h
  <2>5. flatten = [i \in 1 .. n |-> IF i = 1 THEN seqs[i] ELSE flatten[i - 1] \o seqs[i]]
    BY <2>4
  <2>6. FlattenSeq(seqs) = flatten[n]
    BY <1>0, <1>11, Zenon DEF FlattenSeq
  <2> HIDE DEF flatten
  <2> DEFINE S == {i \in 0 .. n : i # 0 => flatten[i] = g[i]}
  <2>7. 0 \in S
    OBVIOUS
  <2>8. ASSUME NEW i \in 0 .. (n - 1), i \in S PROVE i + 1 \in S
    <3>1. i + 1 \in 1 .. n /\ (i + 1) - 1 = i
      OBVIOUS
    <3>2. CASE i = 0
      <4>1. i + 1 = 1
        BY <3>2
      <4>2. flatten[1] = seqs[1]
        BY <2>5, <3>1, <4>1
      <4> QED
        BY <2>1, <3>1, <4>1, <4>2
    <3>3. CASE i # 0
      <4>1. flatten[i] = g[i]
        BY <2>8, <3>3
      <4>2. i + 1 # 1
        BY <3>3
      <4>3. flatten[i + 1] = flatten[(i + 1) - 1] \o seqs[i + 1]
        BY <2>5, <3>1, <4>2, Zenon
      <4>4. g[i + 1] = g[(i + 1) - 1] \o seqs[i + 1]
        BY <1>8, <3>1
      <4>5. flatten[i + 1] = g[i + 1]
        BY <3>1, <4>1, <4>3, <4>4
      <4> QED
        BY <3>1, <4>5
    <3> QED
      BY <3>2, <3>3
  <2>9. 0 .. n \subseteq S
    <3> HIDE DEF S
    <3> QED
      BY <2>7, <2>8, IntervalInduction
  <2>10. flatten[n] = g[n]
    BY <1>11, <2>9
  <2> QED
    BY <1>0, <1>9, <2>6, <2>10
<1> QED
  BY <1>10, <1>11

\* The members of the concatenation of sequences are theirs.
LEMMA FlattenedSet ==
    ASSUME NEW T, NEW n \in Nat, NEW seqs \in [1 .. n -> Seq(T)]
    PROVE  /\ FlattenSeq(seqs) \in Seq(T)
           /\ \A z : z \in ToSet(FlattenSeq(seqs))
                       <=> \E j \in 1 .. n : z \in ToSet(seqs[j])
<1>1. PICK f : Partials(f, n, seqs, T) /\ FlattenSeq(seqs) = f[n]
  BY FlattenPartials
<1>2. /\ f \in [0 .. n -> Seq(T)] /\ f[0] = << >>
      /\ \A i \in 1 .. n : f[i] = f[i - 1] \o seqs[i]
  BY <1>1 DEF Partials
<1> DEFINE S == {i \in 0 .. n : \A z : z \in ToSet(f[i])
                                   <=> \E j \in 1 .. i : z \in ToSet(seqs[j])}
<1>3. 0 \in S
  <2>1. ToSet(<< >>) = {}
    BY DEF ToSet
  <2>2. ~ \E j \in 1 .. 0 : TRUE
    OBVIOUS
  <2>3. \A z : z \in ToSet(f[0]) <=> \E j \in 1 .. 0 : z \in ToSet(seqs[j])
    BY <1>2, <2>1, <2>2, Zenon
  <2> QED
    BY <2>3
<1>4. ASSUME NEW i \in 0 .. (n - 1), i \in S PROVE i + 1 \in S
  <2>1. i + 1 \in 1 .. n /\ i + 1 \in 0 .. n /\ (i + 1) - 1 = i /\ i \in 0 .. n
    OBVIOUS
  <2>2. f[i + 1] = f[i] \o seqs[i + 1] /\ f[i] \in Seq(T) /\ seqs[i + 1] \in Seq(T)
    <3>1. f[i + 1] = f[(i + 1) - 1] \o seqs[i + 1]
      BY <1>2, <2>1
    <3>2. f[i] \in Seq(T) /\ seqs[i + 1] \in Seq(T)
      BY <1>2, <2>1
    <3> QED
      BY <2>1, <3>1, <3>2
  <2>3. ToSet(f[i + 1]) = ToSet(f[i]) \cup ToSet(seqs[i + 1])
    BY <2>2, ConcatSet
  <2>4. \A j : j \in 1 .. i + 1 <=> j \in 1 .. i \/ j = i + 1
    OBVIOUS
  <2>5. \A z : z \in ToSet(f[i]) <=> \E j \in 1 .. i : z \in ToSet(seqs[j])
    BY <1>4
  <2>6. \A z : z \in ToSet(f[i + 1]) <=> \E j \in 1 .. i + 1 : z \in ToSet(seqs[j])
    BY <2>3, <2>4, <2>5, Zenon
  <2> QED
    BY <2>1, <2>6
<1>5. 0 .. n \subseteq S
  <2> HIDE DEF S
  <2> QED
    BY <1>3, <1>4, IntervalInduction
<1>6. n \in S
  <2> HIDE DEF S
  <2> QED
    BY <1>5
<1>7. f[n] \in Seq(T)
  BY <1>2
<1> QED
  BY <1>1, <1>6, <1>7, Zenon

\* Where each of the sequences is in the concatenation.
PartPlaces(f, n, seqs) ==
    \A i \in 1 .. n :
        /\ Len(f[i]) = Len(f[i - 1]) + Len(seqs[i]) /\ Len(f[i - 1]) \in Nat
        /\ Len(f[i]) <= Len(f[n])
        /\ \A k \in 1 .. Len(seqs[i]) : f[n][Len(f[i - 1]) + k] = seqs[i][k]

\* Each sequence has its place in the concatenation.
LEMMA PartialPlaces ==
    ASSUME NEW T, NEW n \in Nat, NEW seqs \in [1 .. n -> Seq(T)], NEW f,
           Partials(f, n, seqs, T)
    PROVE  PartPlaces(f, n, seqs)
<1>1. /\ f \in [0 .. n -> Seq(T)] /\ f[0] = << >>
      /\ \A i \in 1 .. n : f[i] = f[i - 1] \o seqs[i]
  BY DEF Partials
<1>2. ASSUME NEW i \in 1 .. n
      PROVE  /\ i - 1 \in 0 .. n /\ i \in 0 .. n
             /\ f[i - 1] \in Seq(T) /\ f[i] \in Seq(T) /\ seqs[i] \in Seq(T)
             /\ Len(f[i - 1]) \in Nat /\ Len(f[i]) \in Nat /\ Len(seqs[i]) \in Nat
             /\ Len(f[i]) = Len(f[i - 1]) + Len(seqs[i])
             /\ \A k \in 1 .. Len(f[i - 1]) : f[i][k] = f[i - 1][k]
             /\ \A k \in 1 .. Len(seqs[i]) : f[i][Len(f[i - 1]) + k] = seqs[i][k]
  <2>1. i - 1 \in 0 .. n /\ i \in 0 .. n
    OBVIOUS
  <2>2. f[i - 1] \in Seq(T) /\ f[i] \in Seq(T) /\ seqs[i] \in Seq(T)
    BY <1>1, <2>1
  <2> DEFINE x == f[i - 1]
             y == seqs[i]
  <2>3. f[i] = x \o y /\ x \in Seq(T) /\ y \in Seq(T)
    BY <1>1, <2>2
  <2> HIDE DEF x, y
  <2>4. /\ Len(x) \in Nat /\ Len(y) \in Nat
        /\ Len(x \o y) = Len(x) + Len(y)
        /\ \A k \in 1 .. Len(x) + Len(y) :
              (x \o y)[k] = IF k <= Len(x) THEN x[k] ELSE y[k - Len(x)]
    BY <2>3, ConcatProperties
  <2>5. \A k \in 1 .. Len(x) : (x \o y)[k] = x[k]
    BY <2>4
  <2>6. ASSUME NEW k \in 1 .. Len(y) PROVE (x \o y)[Len(x) + k] = y[k]
    <3>1. /\ Len(x) + k \in 1 .. Len(x) + Len(y) /\ ~(Len(x) + k <= Len(x))
          /\ (Len(x) + k) - Len(x) = k
      BY <2>4
    <3> QED
      BY <2>4, <3>1
  <2> QED
    BY <2>1, <2>2, <2>3, <2>4, <2>5, <2>6 DEF x, y
<1> DEFINE S == {m \in 0 .. n : \A i \in 0 .. m :
                   /\ Len(f[i]) <= Len(f[m])
                   /\ \A k \in 1 .. Len(f[i]) : f[m][k] = f[i][k]}
<1>3. \A i \in 0 .. n : Len(f[i]) \in Nat
  <2> SUFFICES ASSUME NEW i \in 0 .. n PROVE Len(f[i]) \in Nat
    OBVIOUS
  <2>1. f[i] \in Seq(T)
    BY <1>1
  <2> QED
    BY <2>1
<1>4. 0 \in S
  <2>1. \A i \in 0 .. 0 : i = 0
    OBVIOUS
  <2> QED
    BY <1>3, <2>1
<1>5. ASSUME NEW m \in 0 .. (n - 1), m \in S PROVE m + 1 \in S
  <2>1. m + 1 \in 1 .. n /\ m + 1 \in 0 .. n /\ (m + 1) - 1 = m /\ m \in 0 .. n
    OBVIOUS
  <2>2. /\ Len(f[m + 1]) = Len(f[m]) + Len(seqs[m + 1]) /\ Len(seqs[m + 1]) \in Nat
        /\ \A k \in 1 .. Len(f[m]) : f[m + 1][k] = f[m][k]
    <3>1. PICK j \in 1 .. n : j = m + 1
      BY <2>1
    <3>2. j - 1 = m
      BY <3>1
    <3>3. /\ Len(f[j]) = Len(f[j - 1]) + Len(seqs[j]) /\ Len(seqs[j]) \in Nat
          /\ \A k \in 1 .. Len(f[j - 1]) : f[j][k] = f[j - 1][k]
      BY <1>2
    <3> QED
      BY <3>1, <3>2, <3>3
  <2>3. ASSUME NEW i \in 0 .. m + 1
        PROVE  /\ Len(f[i]) <= Len(f[m + 1])
               /\ \A k \in 1 .. Len(f[i]) : f[m + 1][k] = f[i][k]
    <3>1. CASE i = m + 1
      BY <1>3, <2>1, <3>1
    <3>2. CASE i # m + 1
      <4>1. i \in 0 .. m /\ i \in 0 .. n
        BY <2>1, <3>2
      <4>2. /\ Len(f[i]) <= Len(f[m])
            /\ \A k \in 1 .. Len(f[i]) : f[m][k] = f[i][k]
        BY <1>5, <4>1
      <4>3. Len(f[i]) \in Nat /\ Len(f[m]) \in Nat
        BY <1>3, <2>1, <4>1
      <4>4. \A k \in 1 .. Len(f[i]) : k \in 1 .. Len(f[m])
        BY <4>2, <4>3
      <4>5. Len(f[i]) <= Len(f[m + 1])
        <5>1. PICK a \in Nat : a = Len(f[i])
          BY <4>3
        <5>2. PICK b \in Nat : b = Len(f[m])
          BY <4>3
        <5>3. PICK c \in Nat : c = Len(seqs[m + 1])
          BY <2>2
        <5>4. Len(f[m + 1]) = b + c /\ a <= b
          BY <2>2, <4>2, <5>1, <5>2, <5>3
        <5>5. a <= b + c
          BY <5>4
        <5> QED
          BY <5>1, <5>4, <5>5
      <4> QED
        BY <2>2, <4>2, <4>4, <4>5
    <3> QED
      BY <3>1, <3>2
  <2> QED
    BY <2>1, <2>3
<1>6. 0 .. n \subseteq S
  <2> HIDE DEF S
  <2> QED
    BY <1>4, <1>5, IntervalInduction
<1>7. n \in S
  <2> HIDE DEF S
  <2> QED
    BY <1>6
<1>8. ASSUME NEW i \in 1 .. n
      PROVE  /\ Len(f[i]) <= Len(f[n])
             /\ \A k \in 1 .. Len(seqs[i]) : f[n][Len(f[i - 1]) + k] = seqs[i][k]
  <2>1. /\ Len(f[i]) <= Len(f[n])
        /\ \A k \in 1 .. Len(f[i]) : f[n][k] = f[i][k]
    BY <1>2, <1>7
  <2>2. ASSUME NEW k \in 1 .. Len(seqs[i])
        PROVE  f[n][Len(f[i - 1]) + k] = seqs[i][k]
    <3>1. Len(f[i - 1]) + k \in 1 .. Len(f[i])
      BY <1>2
    <3>2. f[i][Len(f[i - 1]) + k] = seqs[i][k]
      BY <1>2
    <3> QED
      BY <2>1, <3>1, <3>2
  <2> QED
    BY <2>1, <2>2
<1> QED
  BY <1>2, <1>8 DEF PartPlaces

\* One more sequence is concatenated at the end.
LEMMA FlattenAppend ==
    ASSUME NEW T, NEW n \in Nat, NEW seqs \in [1 .. n -> Seq(T)],
           NEW more \in [1 .. n + 1 -> Seq(T)], \A i \in 1 .. n : more[i] = seqs[i]
    PROVE  FlattenSeq(more) = FlattenSeq(seqs) \o more[n + 1]
<1>1. PICK f : Partials(f, n, seqs, T) /\ FlattenSeq(seqs) = f[n]
  BY FlattenPartials
<1>2. PICK g : Partials(g, n + 1, more, T) /\ FlattenSeq(more) = g[n + 1]
  BY FlattenPartials
<1>3. f[0] = << >> /\ \A i \in 1 .. n : f[i] = f[i - 1] \o seqs[i]
  BY <1>1 DEF Partials
<1>4. g[0] = << >> /\ \A i \in 1 .. n + 1 : g[i] = g[i - 1] \o more[i]
  BY <1>2 DEF Partials
<1>5. f[0] = g[0]
  BY <1>3, <1>4
<1> DEFINE S == {i \in 0 .. n : f[i] = g[i]}
<1>6. 0 \in S
  BY <1>5
<1>7. \A i \in 0 .. n : f[i] = g[i]
  <2>1. ASSUME NEW i \in 0 .. (n - 1), i \in S PROVE i + 1 \in S
    <3>1. /\ i + 1 \in 1 .. n + 1 /\ i + 1 \in 1 .. n /\ (i + 1) - 1 = i
          /\ i + 1 \in 0 .. n
      OBVIOUS
    <3>2. /\ f[i + 1] = f[(i + 1) - 1] \o seqs[i + 1]
          /\ g[i + 1] = g[(i + 1) - 1] \o more[i + 1]
      BY <1>3, <1>4, <3>1
    <3> QED
      BY <2>1, <3>1, <3>2
  <2>2. 0 .. n \subseteq S
    <3> HIDE DEF S
    <3> QED
      BY <1>6, <2>1, IntervalInduction
  <2> QED
    BY <2>2
<1>8. n \in 0 .. n /\ n + 1 \in 1 .. n + 1 /\ (n + 1) - 1 = n
  OBVIOUS
<1>9. g[n + 1] = g[(n + 1) - 1] \o more[n + 1]
  BY <1>4, <1>8
<1> QED
  BY <1>1, <1>2, <1>7, <1>8, <1>9
=============================================================================
