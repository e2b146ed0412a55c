-------------------------- MODULE ComponentProofs ---------------------------
(***************************************************************************)
(* Components that share no state with others: the sampler's lazy rollover *)
(* is the eager one, an accepted configuration runs, the daemon keeps its  *)
(* grid and spares the database, and the memory tracker never admits more  *)
(* than its limit, for every value of their parameters.                    *)
(***************************************************************************)
EXTENDS AdaptiveSampler, TunerConfig, TunerDatabase, MemoryTracker,
        DataLemmas

-----------------------------------------------------------------------------
(* The sampler.                                                            *)

\* The powers of two, by recursion.
LEMMA Pow2Law ==
    /\ \A n \in Nat : Pow2[n] \in Nat \ {0}
    /\ Pow2[0] = 1
    /\ \A n \in Nat : Pow2[n + 1] = 2 * Pow2[n]
<1> DEFINE A == Nat \ {0}
           step == [x \in A \X Nat |-> 2 * x[1]]
<1>1. step \in [A \X Nat -> A] /\ 1 \in A
  OBVIOUS
<1>2. \A y \in A, n \in Nat : step[<<y, n>>] = 2 * y
  OBVIOUS
<1>3. PICK g \in [Nat -> A] :
        g[0] = 1 /\ \A n \in Nat : g[n + 1] = step[<<g[n], n + 1>>]
  <2> HIDE DEF A, step
  <2>1. Recursion(A, 1, step)
    BY <1>1 DEF Recursion
  <2>2. PICK g : Solves(g, A, 1, step)
    BY <2>1, RecursionSolved
  <2> QED
    BY <2>2 DEF Solves
<1> HIDE DEF step
<1>4. ASSUME NEW n \in Nat PROVE g[n] = IF n = 0 THEN 1 ELSE 2 * g[n - 1]
  <2>1. CASE n = 0
    BY <1>3, <2>1
  <2>2. CASE n # 0
    <3>1. n - 1 \in Nat /\ (n - 1) + 1 = n /\ g[n - 1] \in A
      BY <2>2
    <3> QED
      BY <1>2, <1>3, <2>2, <3>1
  <2> QED
    BY <2>1, <2>2
<1>5. g = [n \in Nat |-> IF n = 0 THEN 1 ELSE 2 * g[n - 1]]
  BY <1>4
<1>6. Pow2 = [n \in Nat |-> IF n = 0 THEN 1 ELSE 2 * Pow2[n - 1]]
  BY <1>5 DEF Pow2
<1>7. \A n \in Nat : Pow2[n] = IF n = 0 THEN 1 ELSE 2 * Pow2[n - 1]
  BY <1>6
<1>8. Pow2[0] = 1 /\ \A n \in Nat : Pow2[n + 1] = 2 * Pow2[n]
  BY <1>7
<1>9. \A n \in Nat : Pow2[n] \in A
  <2> DEFINE S == {n \in Nat : Pow2[n] \in A}
  <2>1. 0 \in S /\ \A n \in Nat : n \in S => n + 1 \in S
    BY <1>8
  <2>2. Nat \subseteq S
    <3> HIDE DEF S
    <3> QED
      BY <2>1, NatSetInduction
  <2> QED
    BY <2>2
<1> QED
  BY <1>8, <1>9

\* The unit of rates.
LEMMA ScaleType == Scale \in Nat
BY Pow2Law, SamplerAssumption DEF Scale

\* An updated estimate is a number again.
LEMMA UpdateType ==
    ASSUME NEW e \in Nat, NEW c \in Nat
    PROVE  UpdatedRateEstimate(e, c) \in Nat
<1>1. c * Scale \in Nat
  BY ScaleType
<1> HIDE DEF Scale
<1> QED
  BY <1>1 DEF UpdatedRateEstimate

\* The averages of all buckets up to b.
Averages(f, calls, b) ==
    /\ f \in [0 .. b -> Nat]
    /\ f[0] = 0
    /\ \A i \in 1 .. b : f[i] = UpdatedRateEstimate(f[i - 1], calls[i - 1])

\* The average is the last of the averages.
LEMMA AverageSolved ==
    ASSUME NEW calls, NEW b \in Nat, \A i \in 0 .. b - 1 : calls[i] \in Nat
    PROVE  \E f : Averages(f, calls, b) /\ Average(calls, b) = f[b]
<1> DEFINE step == [x \in Nat \X (1 .. b) |->
                      UpdatedRateEstimate(x[1], calls[x[2] - 1])]
           avg[i \in 0 .. b] ==
               IF i = 0 THEN 0 ELSE UpdatedRateEstimate(avg[i - 1], calls[i - 1])
<1>1. \A y \in Nat, i \in 1 .. b :
        step[<<y, i>>] = UpdatedRateEstimate(y, calls[i - 1])
  OBVIOUS
<1>2. step \in [Nat \X (1 .. b) -> Nat]
  <2> SUFFICES ASSUME NEW x \in Nat \X (1 .. b)
               PROVE  UpdatedRateEstimate(x[1], calls[x[2] - 1]) \in Nat
    OBVIOUS
  <2>1. x[1] \in Nat /\ x[2] - 1 \in 0 .. b - 1
    OBVIOUS
  <2> QED
    BY <2>1, UpdateType
<1>3. PICK g : SolvesUpTo(g, Nat, 0, b, step)
  <2> HIDE DEF step
  <2>1. BoundedRecursion(Nat, 0, b, step)
    BY <1>2 DEF BoundedRecursion
  <2> QED
    BY <2>1, BoundedRecursionSolved
<1> HIDE DEF step
<1>4. /\ g \in [0 .. b -> Nat] /\ g[0] = 0
      /\ \A i \in 1 .. b : g[i] = step[<<g[i - 1], i>>]
  BY <1>3 DEF SolvesUpTo
<1>5. ASSUME NEW i \in 1 .. b PROVE g[i] = UpdatedRateEstimate(g[i - 1], calls[i - 1])
  <2>1. i - 1 \in 0 .. b
    OBVIOUS
  <2> QED
    BY <1>1, <1>4, <2>1
<1>6. g = [i \in 0 .. b |-> IF i = 0 THEN 0
                            ELSE UpdatedRateEstimate(g[i - 1], calls[i - 1])]
  BY <1>4, <1>5
<1>7. avg = [i \in 0 .. b |-> IF i = 0 THEN 0
                              ELSE UpdatedRateEstimate(avg[i - 1], calls[i - 1])]
  BY <1>6
<1>8. Average(calls, b) = avg[b]
  BY DEF Average
<1> HIDE DEF avg
<1>9. /\ avg[0] = 0
      /\ \A i \in 1 .. b : avg[i] = UpdatedRateEstimate(avg[i - 1], calls[i - 1])
  BY <1>7
<1>10. \A i \in 0 .. b : avg[i] = g[i]
  <2>1. \A i \in 1 .. b : avg[i - 1] = g[i - 1] => avg[i] = g[i]
    BY <1>5, <1>9
  <2>2. avg[0] = g[0]
    BY <1>4, <1>9
  <2> QED
    BY <2>1, <2>2, Unfolding
<1>11. Averages(g, calls, b)
  BY <1>4, <1>5 DEF Averages
<1>12. Average(calls, b) = g[b]
  BY <1>8, <1>10
<1> QED
  BY <1>11, <1>12

\* The average after a bucket is the last one, updated with its calls; it
\* depends on the calls before the bucket only.
LEMMA AverageLaw ==
    ASSUME NEW calls, NEW b \in Nat, \A i \in 0 .. b : calls[i] \in Nat
    PROVE  /\ Average(calls, 0) = 0
           /\ Average(calls, b) \in Nat
           /\ Average(calls, b + 1) = UpdatedRateEstimate(Average(calls, b), calls[b])
<1>1. PICK f : Averages(f, calls, b) /\ Average(calls, b) = f[b]
  BY AverageSolved
<1>2. PICK g : Averages(g, calls, b + 1) /\ Average(calls, b + 1) = g[b + 1]
  BY AverageSolved
<1>3. PICK h : Averages(h, calls, 0) /\ Average(calls, 0) = h[0]
  BY AverageSolved
<1>4. \A i \in 0 .. b : f[i] = g[i]
  <2>1. f[0] = g[0]
    BY <1>1, <1>2 DEF Averages
  <2>2. ASSUME NEW i \in 1 .. b, f[i - 1] = g[i - 1] PROVE f[i] = g[i]
    <3>1. i \in 1 .. b + 1
      OBVIOUS
    <3> QED
      BY <1>1, <1>2, <2>2, <3>1 DEF Averages
  <2> QED
    BY <2>1, <2>2, Unfolding
<1>5. g[b + 1] = UpdatedRateEstimate(g[b], calls[b])
  <2>1. b + 1 \in 1 .. b + 1 /\ (b + 1) - 1 = b
    OBVIOUS
  <2> QED
    BY <1>2, <2>1 DEF Averages
<1>6. b \in 0 .. b
  OBVIOUS
<1> QED
  BY <1>1, <1>2, <1>3, <1>4, <1>5, <1>6 DEF Averages

\* It depends on the buckets before b alone.
LEMMA AverageOfPrefix ==
    ASSUME NEW c, NEW d, NEW b \in Nat,
           \A i \in 0 .. b - 1 : c[i] \in Nat /\ d[i] = c[i]
    PROVE  Average(d, b) = Average(c, b)
<1>1. PICK f : Averages(f, c, b) /\ Average(c, b) = f[b]
  BY AverageSolved
<1>2. PICK g : Averages(g, d, b) /\ Average(d, b) = g[b]
  BY AverageSolved
<1>3. \A i \in 0 .. b : f[i] = g[i]
  <2>1. f[0] = g[0]
    BY <1>1, <1>2 DEF Averages
  <2>2. ASSUME NEW i \in 1 .. b, f[i - 1] = g[i - 1] PROVE f[i] = g[i]
    <3>1. i - 1 \in 0 .. b - 1
      OBVIOUS
    <3> QED
      BY <1>1, <1>2, <2>2, <3>1 DEF Averages
  <2> QED
    BY <2>1, <2>2, Unfolding
<1> QED
  BY <1>1, <1>2, <1>3

\* What n empty buckets make of an estimate.
Halvings(f, e, n) ==
    /\ f \in [0 .. n -> Nat]
    /\ f[0] = e
    /\ \A i \in 1 .. n : f[i] = f[i - 1] \div 2

\* Updates without calls halve the estimate.
LEMMA ZeroUpdatesSolved ==
    ASSUME NEW e \in Nat, NEW n \in Nat
    PROVE  \E f : Halvings(f, e, n) /\ ZeroUpdates(e, n) = f[n]
<1> DEFINE step == [x \in Nat \X (1 .. n) |-> UpdatedRateEstimate(x[1], 0)]
           after[i \in 0 .. n] ==
               IF i = 0 THEN e ELSE UpdatedRateEstimate(after[i - 1], 0)
<1>1. \A y \in Nat, i \in 1 .. n : step[<<y, i>>] = UpdatedRateEstimate(y, 0)
  OBVIOUS
<1>2. step \in [Nat \X (1 .. n) -> Nat]
  <2> SUFFICES ASSUME NEW x \in Nat \X (1 .. n)
               PROVE  UpdatedRateEstimate(x[1], 0) \in Nat
    OBVIOUS
  <2> QED
    BY UpdateType
<1>3. PICK g : SolvesUpTo(g, Nat, e, n, step)
  <2> HIDE DEF step
  <2>1. BoundedRecursion(Nat, e, n, step)
    BY <1>2 DEF BoundedRecursion
  <2> QED
    BY <2>1, BoundedRecursionSolved
<1> HIDE DEF step
<1>4. /\ g \in [0 .. n -> Nat] /\ g[0] = e
      /\ \A i \in 1 .. n : g[i] = step[<<g[i - 1], i>>]
  BY <1>3 DEF SolvesUpTo
<1>5. ASSUME NEW i \in 1 .. n PROVE g[i] = UpdatedRateEstimate(g[i - 1], 0)
  <2>1. i - 1 \in 0 .. n
    OBVIOUS
  <2> QED
    BY <1>1, <1>4, <2>1
<1>6. g = [i \in 0 .. n |-> IF i = 0 THEN e ELSE UpdatedRateEstimate(g[i - 1], 0)]
  BY <1>4, <1>5
<1>7. after = [i \in 0 .. n |-> IF i = 0 THEN e
                                ELSE UpdatedRateEstimate(after[i - 1], 0)]
  BY <1>6
<1>8. ZeroUpdates(e, n) = after[n]
  BY DEF ZeroUpdates
<1> HIDE DEF after
<1>9. /\ after[0] = e
      /\ \A i \in 1 .. n : after[i] = UpdatedRateEstimate(after[i - 1], 0)
  BY <1>7
<1>10. \A i \in 0 .. n : after[i] = g[i]
  <2>1. \A i \in 1 .. n : after[i - 1] = g[i - 1] => after[i] = g[i]
    BY <1>5, <1>9
  <2>2. after[0] = g[0]
    BY <1>4, <1>9
  <2> QED
    BY <2>1, <2>2, Unfolding
<1>11. \A y \in Nat : UpdatedRateEstimate(y, 0) = y \div 2
  BY ScaleType DEF UpdatedRateEstimate
<1>12. Halvings(g, e, n)
  <2>1. ASSUME NEW i \in 1 .. n PROVE g[i] = g[i - 1] \div 2
    <3>1. g[i - 1] \in Nat
      BY <1>4
    <3> QED
      BY <1>5, <1>11, <3>1
  <2> QED
    BY <1>4, <2>1 DEF Halvings
<1>13. ZeroUpdates(e, n) = g[n]
  BY <1>8, <1>10
<1> QED
  BY <1>12, <1>13

\* Halving keeps estimates in order and brings them closer.
LEMMA HalvingsClose ==
    ASSUME NEW n \in Nat, NEW x \in Nat, NEW y \in Nat, y <= x,
           NEW f, NEW g, Halvings(f, x, n), Halvings(g, y, n)
    PROVE  g[n] <= f[n] /\ f[n] - g[n] <= x - y
<1> DEFINE S == {i \in 0 .. n : g[i] <= f[i] /\ f[i] - g[i] <= x - y}
<1>1. 0 \in S
  BY DEF Halvings
<1>2. ASSUME NEW i \in 0 .. (n - 1), i \in S PROVE i + 1 \in S
  <2>1. i + 1 \in 1 .. n /\ (i + 1) - 1 = i /\ i + 1 \in 0 .. n /\ i \in 0 .. n
    OBVIOUS
  <2>2. f[i + 1] = f[i] \div 2 /\ g[i + 1] = g[i] \div 2
    BY <2>1 DEF Halvings
  <2>3. f[i] \in Nat /\ g[i] \in Nat
    BY <2>1 DEF Halvings
  <2>4. g[i] <= f[i] /\ f[i] - g[i] <= x - y
    BY <1>2
  <2>5. /\ g[i] \div 2 <= f[i] \div 2
        /\ f[i] \div 2 - g[i] \div 2 <= f[i] - g[i]
    BY <2>3, <2>4
  <2>6. g[i + 1] <= f[i + 1] /\ f[i + 1] - g[i + 1] <= x - y
    BY <2>2, <2>3, <2>4, <2>5
  <2> QED
    BY <2>1, <2>6
<1>3. 0 .. n \subseteq S
  <2> HIDE DEF S
  <2> QED
    BY <1>1, <1>2, IntervalInduction
<1> QED
  BY <1>3

\* After n halvings or more no more than a 2^n-th is left.
LEMMA HalvingsShrink ==
    ASSUME NEW n \in Nat, NEW k \in 0 .. n, NEW x \in Nat, NEW f, Halvings(f, x, n)
    PROVE  f[n] * Pow2[k] <= x
<1>1. f \in [0 .. n -> Nat] /\ f[0] = x
  BY DEF Halvings
<1>2. \A i \in Nat : Pow2[i] \in Nat \ {0} /\ Pow2[i + 1] = 2 * Pow2[i]
  BY Pow2Law
<1>3. f[k] * Pow2[k] <= x
  <2> DEFINE S == {i \in 0 .. n : f[i] * Pow2[i] <= x}
  <2>1. 0 \in S
    <3>1. Pow2[0] = 1 /\ f[0] = x /\ 0 \in 0 .. n
      BY <1>1, Pow2Law
    <3>2. f[0] * Pow2[0] <= x
      BY <3>1
    <3> QED
      BY <3>1, <3>2
  <2>2. ASSUME NEW i \in 0 .. (n - 1), i \in S PROVE i + 1 \in S
    <3>1. i + 1 \in 1 .. n /\ (i + 1) - 1 = i /\ i + 1 \in 0 .. n /\ i \in 0 .. n
      OBVIOUS
    <3>2. f[i + 1] = f[i] \div 2
      BY <3>1 DEF Halvings
    <3>3. f[i] \in Nat /\ f[i + 1] \in Nat /\ 2 * f[i + 1] <= f[i]
      BY <1>1, <3>1, <3>2
    <3>4. Pow2[i] \in Nat /\ Pow2[i + 1] = 2 * Pow2[i]
      BY <1>2, <3>1
    <3>5. f[i + 1] * (2 * Pow2[i]) = (2 * f[i + 1]) * Pow2[i]
      BY <3>3, <3>4
    <3>6. (2 * f[i + 1]) * Pow2[i] <= f[i] * Pow2[i]
      BY <3>3, <3>4
    <3>7. f[i] * Pow2[i] <= x
      BY <2>2
    <3>8. f[i + 1] * Pow2[i + 1] <= x
      BY <3>3, <3>4, <3>5, <3>6, <3>7
    <3> QED
      BY <3>1, <3>8
  <2>3. 0 .. n \subseteq S
    <3> HIDE DEF S
    <3> QED
      BY <2>1, <2>2, IntervalInduction
  <2> QED
    BY <2>3
<1>4. f[n] <= f[k]
  <2> DEFINE T == {i \in 0 .. n : i >= k => f[i] <= f[k]}
  <2>1. 0 \in T
    BY <1>1
  <2>2. ASSUME NEW i \in 0 .. (n - 1), i \in T PROVE i + 1 \in T
    <3>1. i + 1 \in 1 .. n /\ (i + 1) - 1 = i /\ i + 1 \in 0 .. n /\ i \in 0 .. n
      OBVIOUS
    <3>2. f[i + 1] = f[i] \div 2
      BY <3>1 DEF Halvings
    <3>3. f[i] \in Nat /\ f[i + 1] \in Nat /\ f[k] \in Nat /\ f[i + 1] <= f[i]
      BY <1>1, <3>1, <3>2
    <3>4. ASSUME i + 1 >= k PROVE f[i + 1] <= f[k]
      <4>1. CASE i >= k
        BY <2>2, <3>3, <4>1
      <4>2. CASE i + 1 = k
        BY <3>3, <4>2
      <4> QED
        BY <3>4, <4>1, <4>2
    <3> QED
      BY <3>1, <3>4
  <2>3. 0 .. n \subseteq T
    <3> HIDE DEF T
    <3> QED
      BY <2>1, <2>2, IntervalInduction
  <2> QED
    BY <2>3
<1>5. f[n] \in Nat /\ f[k] \in Nat /\ Pow2[k] \in Nat
  <2>1. n \in 0 .. n /\ k \in Nat
    OBVIOUS
  <2> QED
    BY <1>1, <1>2, <2>1
<1>6. f[n] * Pow2[k] <= f[k] * Pow2[k] /\ f[n] * Pow2[k] \in Nat /\ f[k] * Pow2[k] \in Nat
  BY <1>4, <1>5
<1> QED
  BY <1>3, <1>6

\* An average of calls that are at most k in a bucket is at most k.
LEMMA AverageBound ==
    ASSUME NEW calls, NEW b \in Nat, NEW k \in Nat,
           \A i \in 0 .. b - 1 : calls[i] \in 0 .. k
    PROVE  Average(calls, b) \in Nat /\ Average(calls, b) <= k * Scale
<1>1. PICK f : Averages(f, calls, b) /\ Average(calls, b) = f[b]
  BY AverageSolved
<1>2. f \in [0 .. b -> Nat] /\ f[0] = 0 /\ Scale \in Nat /\ k * Scale \in Nat
  BY <1>1, ScaleType DEF Averages
<1> DEFINE S == {i \in 0 .. b : f[i] <= k * Scale}
<1>3. 0 \in S
  BY <1>2
<1>4. ASSUME NEW i \in 0 .. (b - 1), i \in S PROVE i + 1 \in S
  <2>1. i + 1 \in 1 .. b /\ (i + 1) - 1 = i /\ i + 1 \in 0 .. b /\ i \in 0 .. b - 1
    OBVIOUS
  <2>2. f[i + 1] = (calls[i] * Scale + f[i]) \div 2
    BY <1>1, <2>1 DEF Averages, UpdatedRateEstimate
  <2>3. calls[i] \in 0 .. k /\ f[i] \in Nat /\ f[i] <= k * Scale
    BY <1>2, <1>4
  <2>4. calls[i] * Scale \in Nat /\ calls[i] * Scale <= k * Scale
    BY <1>2, <2>3
  <2>5. f[i + 1] <= k * Scale
    <3>1. PICK p \in Nat : p = calls[i] * Scale
      BY <2>4
    <3>2. PICK q \in Nat : q = k * Scale
      BY <1>2
    <3> QED
      BY <2>2, <2>3, <2>4, <3>1, <3>2
  <2> QED
    BY <2>1, <2>5
<1>5. 0 .. b \subseteq S
  <2> HIDE DEF S
  <2> QED
    BY <1>3, <1>4, IntervalInduction
<1> QED
  BY <1>1, <1>2, <1>5

\* Buckets without calls halve the average.
LEMMA AverageOfIdle ==
    ASSUME NEW calls, NEW b \in Nat, NEW n \in Nat,
           \A i \in 0 .. b + n - 1 : calls[i] \in Nat,
           \A i \in b .. b + n - 1 : calls[i] = 0
    PROVE  \E f : Halvings(f, Average(calls, b), n) /\ Average(calls, b + n) = f[n]
<1>1. PICK g : Averages(g, calls, b + n) /\ Average(calls, b + n) = g[b + n]
  BY AverageSolved
<1>2. PICK h : Averages(h, calls, b) /\ Average(calls, b) = h[b]
  BY AverageSolved
<1>3. \A i \in 0 .. b : h[i] = g[i]
  <2>1. h[0] = g[0]
    BY <1>1, <1>2 DEF Averages
  <2>2. ASSUME NEW i \in 1 .. b, h[i - 1] = g[i - 1] PROVE h[i] = g[i]
    <3>1. i \in 1 .. b + n
      OBVIOUS
    <3> QED
      BY <1>1, <1>2, <2>2, <3>1 DEF Averages
  <2> QED
    BY <2>1, <2>2, Unfolding
<1>4. g \in [0 .. b + n -> Nat]
  BY <1>1 DEF Averages
<1> DEFINE f == [i \in 0 .. n |-> g[b + i]]
<1>5. f \in [0 .. n -> Nat] /\ f[0] = Average(calls, b) /\ f[n] = g[b + n]
  BY <1>2, <1>3, <1>4
<1>6. ASSUME NEW i \in 1 .. n PROVE f[i] = f[i - 1] \div 2
  <2>1. b + i \in 1 .. b + n /\ (b + i) - 1 \in b .. b + n - 1 /\ (b + i) - 1 = b + (i - 1)
    OBVIOUS
  <2>2. g[b + i] = (calls[(b + i) - 1] * Scale + g[(b + i) - 1]) \div 2
    BY <1>1, <2>1 DEF Averages, UpdatedRateEstimate
  <2>3. calls[(b + i) - 1] = 0 /\ g[(b + i) - 1] \in Nat
    BY <1>4, <2>1
  <2>4. g[b + i] = g[(b + i) - 1] \div 2
    BY <2>2, <2>3, ScaleType
  <2> QED
    BY <2>1, <2>4
<1> HIDE DEF f
<1>7. Halvings(f, Average(calls, b), n)
  BY <1>5, <1>6 DEF Halvings
<1> QED
  BY <1>1, <1>5, <1>7

\* An estimate that is near enough to the average of the buckets before b.
Near(estimate, calls, b) ==
    /\ estimate \in Nat
    /\ estimate <= Average(calls, b)
    /\ (Average(calls, b) - estimate) * Pow2[MaxIdleZeroUpdates + 1]
         <= MaxCalls * Scale

\* Rolling over a bucket with calls and n empty ones keeps it near.
LEMMA RolloverIsNear ==
    ASSUME NEW calls, NEW b \in Nat, NEW n \in Nat, NEW estimate,
           \A i \in 0 .. b + n : calls[i] \in 0 .. MaxCalls,
           \A i \in b + 1 .. b + n : calls[i] = 0,
           Near(estimate, calls, b)
    PROVE  Near(IF n > MaxIdleZeroUpdates THEN 0
                ELSE ZeroUpdates(UpdatedRateEstimate(estimate, calls[b]), n),
                calls, b + 1 + n)
<1> DEFINE P == Pow2[MaxIdleZeroUpdates + 1]
           D == MaxCalls * Scale
           old == Average(calls, b)
           first == Average(calls, b + 1)
           last == Average(calls, b + 1 + n)
           u == UpdatedRateEstimate(estimate, calls[b])
<1>1. P \in Nat /\ P >= 1 /\ D \in Nat /\ MaxIdleZeroUpdates + 1 \in Nat
  BY Pow2Law, ScaleType, SamplerAssumption
<1>2. \A i \in 0 .. b + n : calls[i] \in Nat
  BY SamplerAssumption
<1>3. old \in Nat /\ first = UpdatedRateEstimate(old, calls[b])
  BY <1>2, AverageLaw
<1>4. estimate \in Nat /\ estimate <= old /\ (old - estimate) * P <= D
  BY DEF Near
<1>5. calls[b] \in Nat
  BY <1>2
<1>6. u \in Nat /\ first \in Nat /\ u <= first /\ first - u <= old - estimate
  <2>1. PICK c \in Nat : c = calls[b] * Scale
    BY <1>5, ScaleType
  <2>2. first = (c + old) \div 2 /\ u = (c + estimate) \div 2
    BY <1>3, <2>1 DEF UpdatedRateEstimate
  <2> HIDE DEF first, u, old
  <2> QED
    BY <1>3, <1>4, <2>1, <2>2
<1>7. first <= D
  <2>1. b + 1 \in Nat /\ \A i \in 0 .. (b + 1) - 1 : calls[i] \in 0 .. MaxCalls
    OBVIOUS
  <2> QED
    BY <2>1, AverageBound, SamplerAssumption
<1>8. PICK f : Halvings(f, first, n) /\ last = f[n]
  <2>1. /\ b + 1 \in Nat
        /\ \A i \in 0 .. (b + 1) + n - 1 : calls[i] \in Nat
        /\ \A i \in b + 1 .. (b + 1) + n - 1 : calls[i] = 0
    BY <1>2
  <2> QED
    BY <2>1, AverageOfIdle
<1>9. last \in Nat
  BY <1>8 DEF Halvings
<1>10. CASE n > MaxIdleZeroUpdates
  <2>1. MaxIdleZeroUpdates + 1 \in 0 .. n
    BY <1>10, SamplerAssumption
  <2> HIDE DEF first, last, D, u, old
  <2>2. f[n] * P <= first
    BY <1>6, <1>8, <2>1, HalvingsShrink
  <2>3. (last - 0) * P <= D
    BY <1>1, <1>6, <1>7, <1>8, <1>9, <2>2
  <2> QED
    BY <1>9, <1>10, <2>3 DEF Near, last, D
<1>11. CASE ~(n > MaxIdleZeroUpdates)
  <2> HIDE DEF first, last, D, u, old
  <2>1. PICK g : Halvings(g, u, n) /\ ZeroUpdates(u, n) = g[n]
    BY <1>6, ZeroUpdatesSolved
  <2>2. g[n] \in Nat
    BY <2>1 DEF Halvings
  <2>3. g[n] <= last /\ last - g[n] <= first - u
    BY <1>6, <1>8, <2>1, HalvingsClose
  <2>4. last - g[n] \in Nat /\ old - estimate \in Nat /\ last - g[n] <= old - estimate
    BY <1>3, <1>4, <1>6, <1>9, <2>2, <2>3
  <2> HIDE DEF P
  <2>5. (last - g[n]) * P <= (old - estimate) * P
    BY <1>1, <2>4
  <2>6. (last - g[n]) * P \in Nat /\ (old - estimate) * P \in Nat
    BY <1>1, <2>4
  <2>7. (last - g[n]) * P <= D
    BY <1>1, <1>4, <2>5, <2>6
  <2>8. Near(g[n], calls, b + 1 + n)
    BY <2>2, <2>3, <2>7 DEF Near, last, D, P
  <2> QED
    BY <1>11, <2>1, <2>8 DEF u
<1> QED
  BY <1>10, <1>11

\* The sampler's state when the bucket of the last call is the b-th.
InBucket(b) ==
    /\ bucketStart = born + b * BucketSeconds
    /\ bucketStart <= now
    /\ bucketCount = counts[b]
    /\ \A i \in b + 1 .. Buckets : counts[i] = 0
    /\ Near(rateEstimate, counts, b)

\* The inductive invariant: the state is that of some bucket.
SamplerInv ==
    /\ now \in 0 .. LastSecond /\ born \in Nat /\ known \in BOOLEAN
    /\ counts \in [0 .. Buckets -> 0 .. MaxCalls]
    /\ ~known => rateEstimate = 0 /\ \A i \in 0 .. Buckets : counts[i] = 0
    /\ known => \E b \in 0 .. Buckets : InBucket(b)

\* An estimate of no buckets is exact.
LEMMA EmptyIsNear ==
    ASSUME NEW calls, \A i \in 0 .. 0 : calls[i] \in Nat
    PROVE  Near(0, calls, 0)
<1>1. Average(calls, 0) = 0
  BY AverageLaw
<1>2. MaxCalls * Scale \in Nat /\ Pow2[MaxIdleZeroUpdates + 1] \in Nat
  BY Pow2Law, ScaleType, SamplerAssumption
<1> QED
  BY <1>1, <1>2 DEF Near

\* Where the clock is, seen from bucket b.
LEMMA BucketOfNow ==
    ASSUME SamplerInv, NEW b \in 0 .. Buckets, InBucket(b)
    PROVE  LET passed == (now - bucketStart) \div BucketSeconds
           IN  /\ passed \in Nat
               /\ BucketOf(now) = b + passed
               /\ BucketOf(bucketStart) = b
               /\ (bucketStart - born) % BucketSeconds = 0
               /\ b + passed \in 0 .. Buckets
<1> DEFINE w == BucketSeconds
           passed == (now - bucketStart) \div w
           r == (now - bucketStart) % w
<1>1. w \in Nat /\ w > 0 /\ Buckets \in Nat /\ b \in Nat
  BY SamplerAssumption
<1>2. b * w \in Nat /\ bucketStart = born + b * w /\ born \in Nat /\ now \in Nat
      /\ bucketStart \in Nat /\ now - bucketStart \in Nat /\ now <= Buckets * w
  <2>1. b * w \in Nat /\ Buckets * w \in Nat
    BY <1>1
  <2> QED
    BY <2>1 DEF SamplerInv, InBucket, LastSecond
<1> HIDE DEF w
<1>3. passed \in Nat /\ r \in 0 .. w - 1 /\ now - bucketStart = passed * w + r
  BY <1>1, <1>2
<1> HIDE DEF passed, r
<1>4. now - born = (b + passed) * w + r
  BY <1>1, <1>2, <1>3
<1>5. ((b + passed) * w + r) \div w = b + passed
  BY <1>1, <1>3
<1>6. (b * w + 0) \div w = b /\ (b * w + 0) % w = 0
  BY <1>1
<1>7. bucketStart - born = b * w + 0
  BY <1>2
<1>8. b + passed <= Buckets
  <2> SUFFICES ASSUME b + passed >= Buckets + 1 PROVE FALSE
    BY <1>1, <1>3
  <2>1. (b + passed) * w >= (Buckets + 1) * w
    BY <1>1, <1>3
  <2>2. (Buckets + 1) * w = Buckets * w + w /\ Buckets * w \in Nat
    BY <1>1
  <2> QED
    BY <1>1, <1>2, <1>3, <1>4, <2>1, <2>2
<1>9. BucketOf(now) = b + passed /\ BucketOf(bucketStart) = b
      /\ (bucketStart - born) % w = 0
  BY <1>4, <1>5, <1>6, <1>7 DEF BucketOf, w
<1> QED
  BY <1>1, <1>3, <1>8, <1>9 DEF passed, w

\* Calls in later buckets do not matter.
LEMMA NearOfPrefix ==
    ASSUME NEW b \in Nat, NEW c, NEW d, NEW e, Near(e, c, b),
           \A i \in 0 .. b - 1 : c[i] \in Nat /\ d[i] = c[i]
    PROVE  Near(e, d, b)
<1>1. Average(d, b) = Average(c, b)
  BY AverageOfPrefix
<1> QED
  BY <1>1 DEF Near

\* The invariant holds before the first call.
LEMMA SamplerStart == SamplerInit => SamplerInv
<1> SUFFICES ASSUME SamplerInit PROVE SamplerInv
  OBVIOUS
<1>1. LastSecond \in Nat
  BY SamplerAssumption DEF LastSecond
<1>2. counts \in [0 .. Buckets -> 0 .. MaxCalls]
  BY SamplerAssumption DEF SamplerInit
<1>3. now \in 0 .. LastSecond /\ born \in Nat /\ known = FALSE
  BY <1>1 DEF SamplerInit
<1>4. rateEstimate = 0 /\ \A i \in 0 .. Buckets : counts[i] = 0
  BY DEF SamplerInit
<1> QED
  BY <1>2, <1>3, <1>4 DEF SamplerInv

\* Every step keeps it.
LEMMA SamplerStep == SamplerInv /\ [SamplerNext]_sampler => SamplerInv'
<1> SUFFICES ASSUME SamplerInv, [SamplerNext]_sampler PROVE SamplerInv'
  OBVIOUS
<1>t. /\ now \in 0 .. LastSecond /\ LastSecond \in Nat /\ born \in Nat /\ known \in BOOLEAN
      /\ counts \in [0 .. Buckets -> 0 .. MaxCalls] /\ Buckets \in Nat
      /\ MaxCalls \in Nat /\ MaxCalls >= 1 /\ LastSecond' = LastSecond
  BY SamplerAssumption DEF SamplerInv, LastSecond
<1>1. CASE FirstCall
  <2>1. /\ ~known /\ known' = TRUE /\ born' = now /\ bucketStart' = now
        /\ bucketCount' = 1 /\ counts' = [counts EXCEPT ![0] = 1]
        /\ now' = now /\ rateEstimate' = 0
    BY <1>1 DEF FirstCall, SamplerInv
  <2>2. /\ counts' \in [0 .. Buckets -> 0 .. MaxCalls] /\ counts'[0] = 1
        /\ \A i \in 0 + 1 .. Buckets : counts'[i] = 0
    BY <1>t, <2>1 DEF SamplerInv
  <2>3. Near(0, counts', 0)
    <3>1. \A i \in 0 .. 0 : counts'[i] \in Nat
      BY <2>2
    <3> QED
      BY <3>1, EmptyIsNear
  <2>4. bucketStart' = born' + 0 * BucketSeconds
    BY <1>t, <2>1, SamplerAssumption
  <2>5. InBucket(0)'
    BY <1>t, <2>1, <2>2, <2>3, <2>4 DEF InBucket
  <2>6. 0 \in 0 .. Buckets
    BY <1>t
  <2> QED
    BY <1>t, <2>1, <2>2, <2>5, <2>6 DEF SamplerInv
<1>2. CASE ShouldSample
  <2> DEFINE passed == (now - bucketStart) \div BucketSeconds
  <2>1. PICK b \in 0 .. Buckets : InBucket(b)
    BY <1>2 DEF ShouldSample, SamplerInv
  <2>2. /\ passed \in Nat /\ BucketOf(now) = b + passed
        /\ b + passed \in 0 .. Buckets
    BY <2>1, BucketOfNow
  <2>3. /\ known /\ counts[b + passed] < MaxCalls
        /\ rateEstimate' = RolledEstimate(passed)
        /\ bucketStart' = RolledStart(passed)
        /\ bucketCount' = IF passed <= 0 THEN bucketCount + 1 ELSE 1
        /\ counts' = [counts EXCEPT ![b + passed] = @ + 1]
        /\ now' = now /\ known' = known /\ born' = born
    BY <1>2, <2>2 DEF ShouldSample
  <2>4. PICK e : e = passed
    OBVIOUS
  <2> HIDE DEF passed
  <2>5. e \in Nat /\ b \in Nat /\ b + e \in 0 .. Buckets
    BY <2>2, <2>4
  <2>6. /\ counts' \in [0 .. Buckets -> 0 .. MaxCalls]
        /\ counts'[b + e] = counts[b + e] + 1
        /\ \A i \in 0 .. Buckets : i # b + e => counts'[i] = counts[i]
    BY <1>t, <2>3, <2>4, <2>5
  <2>7. /\ bucketStart = born + b * BucketSeconds /\ bucketStart <= now
        /\ bucketCount = counts[b]
        /\ \A i \in b + 1 .. Buckets : counts[i] = 0
        /\ Near(rateEstimate, counts, b)
    BY <2>1 DEF InBucket
  <2>8. \A i \in b + e + 1 .. Buckets : counts'[i] = 0
    BY <1>t, <2>5, <2>6, <2>7
  <2>9. bucketCount' = counts'[b + e]
    <3>1. CASE e = 0
      BY <2>3, <2>4, <2>5, <2>6, <2>7, <3>1
    <3>2. CASE e # 0
      <4>1. counts[b + e] = 0
        BY <1>t, <2>5, <2>7, <3>2
      <4> QED
        BY <2>3, <2>4, <2>5, <2>6, <3>2, <4>1
    <3> QED
      BY <3>1, <3>2
  <2>10. bucketStart' = born' + (b + e) * BucketSeconds /\ bucketStart' <= now'
    <3>1. BucketSeconds \in Nat /\ BucketSeconds > 0 /\ born \in Nat /\ now \in Nat
      BY <1>t, SamplerAssumption
    <3>2. CASE e = 0
      BY <2>3, <2>4, <2>5, <2>7, <3>1, <3>2 DEF RolledStart
    <3>3. CASE e # 0
      <4>1. bucketStart' = bucketStart + e * BucketSeconds
        BY <2>3, <2>4, <2>5, <3>3 DEF RolledStart
      <4>2. bucketStart \in Nat
        BY <2>5, <2>7, <3>1
      <4>3. e * BucketSeconds <= now - bucketStart
        BY <2>4, <2>5, <2>7, <3>1, <4>2 DEF passed
      <4>4. (b + e) * BucketSeconds = b * BucketSeconds + e * BucketSeconds
            /\ b * BucketSeconds \in Nat /\ e * BucketSeconds \in Nat
        BY <2>5, <3>1
      <4> QED
        BY <2>3, <2>7, <3>1, <4>1, <4>2, <4>3, <4>4
    <3> QED
      BY <3>2, <3>3
  <2>11. \A i \in 0 .. b + e - 1 : counts[i] \in Nat /\ counts'[i] = counts[i]
    BY <1>t, <2>5, <2>6
  <2>12. Near(rateEstimate', counts, b + e)
    <3>1. CASE e = 0
      <4>1. rateEstimate' = rateEstimate /\ b + e = b
        BY <2>3, <2>4, <2>5, <3>1 DEF RolledEstimate
      <4> QED
        BY <2>7, <4>1
    <3>2. CASE e # 0
      <4>1. e - 1 \in Nat /\ b + 1 + (e - 1) = b + e /\ b + (e - 1) \in 0 .. Buckets
        BY <1>t, <2>5, <3>2
      <4>2. rateEstimate' = IF e - 1 > MaxIdleZeroUpdates THEN 0
              ELSE ZeroUpdates(UpdatedRateEstimate(rateEstimate, counts[b]), e - 1)
        BY <2>3, <2>4, <2>5, <2>7, <3>2 DEF RolledEstimate, EmptyBuckets
      <4>3. /\ \A i \in 0 .. b + (e - 1) : counts[i] \in 0 .. MaxCalls
            /\ \A i \in b + 1 .. b + (e - 1) : counts[i] = 0
        BY <1>t, <2>5, <2>7, <4>1
      <4>4. Near(IF e - 1 > MaxIdleZeroUpdates THEN 0
                 ELSE ZeroUpdates(UpdatedRateEstimate(rateEstimate, counts[b]), e - 1),
                 counts, b + 1 + (e - 1))
        BY <2>5, <2>7, <4>1, <4>3, RolloverIsNear
      <4> QED
        BY <4>1, <4>2, <4>4
    <3> QED
      BY <3>1, <3>2
  <2>13. Near(rateEstimate', counts', b + e)
    BY <2>5, <2>11, <2>12, NearOfPrefix
  <2>14. InBucket(b + e)'
    BY <2>8, <2>9, <2>10, <2>13 DEF InBucket
  <2> QED
    BY <1>t, <2>3, <2>5, <2>6, <2>14 DEF SamplerInv
<1>3. CASE ClockTick
  <2>1. now' = now + 1 /\ now' \in 0 .. LastSecond
    BY <1>t, <1>3 DEF ClockTick
  <2>2. UNCHANGED <<known, bucketStart, bucketCount, rateEstimate, born, counts>>
    BY <1>3 DEF ClockTick
  <2>3. ASSUME NEW b \in 0 .. Buckets, InBucket(b) PROVE InBucket(b)'
    <3>1. bucketStart \in Int
      BY <1>t, <2>3, SamplerAssumption DEF InBucket
    <3> QED
      BY <1>t, <2>1, <2>2, <2>3, <3>1 DEF InBucket
  <2> QED
    BY <1>t, <2>1, <2>2, <2>3 DEF SamplerInv
<1>4. CASE UNCHANGED sampler
  BY <1>4 DEF sampler, SamplerInv, InBucket
<1> QED
  BY <1>1, <1>2, <1>3, <1>4 DEF SamplerNext

\* However irregular the calls and however long the pauses, for every bucket
\* width, target and idle cutoff: the buckets stay on the grid of the first
\* call, the estimate that _roll_over_if_needed brings up to date at calls only
\* is the moving average a rollover at every bucket's end would have, up to
\* what the cutoff of idle buckets may lose, and a cohort that never passed the
\* target rate is sampled in full.
THEOREM LazyRollover == SamplerSpec => []LazyRolloverIsExact
<1>1. SamplerInv => LazyRolloverIsExact
  <2> SUFFICES ASSUME SamplerInv, known PROVE LazyRolloverIsExact
    BY DEF LazyRolloverIsExact, BucketsOnGrid, EstimateIsAverage,
           SlowCohortAlwaysSampled
  <2>1. PICK b \in 0 .. Buckets : InBucket(b)
    BY DEF SamplerInv
  <2> DEFINE passed == (now - bucketStart) \div BucketSeconds
  <2>2. /\ passed \in Nat /\ BucketOf(now) = b + passed
        /\ BucketOf(bucketStart) = b
        /\ (bucketStart - born) % BucketSeconds = 0
        /\ b + passed \in 0 .. Buckets
    BY <2>1, BucketOfNow
  <2> HIDE DEF passed
  <2>3. BucketsOnGrid
    BY <2>1, <2>2 DEF BucketsOnGrid, InBucket
  <2>4. EstimateIsAverage
    BY <2>1, <2>2 DEF EstimateIsAverage, InBucket, Near
  <2>5. ASSUME \A i \in 0 .. BucketOf(now) : counts[i] <= Target
        PROVE  AlwaysSampled(rateEstimate)
    <3>1. b \in Nat /\ counts \in [0 .. Buckets -> 0 .. MaxCalls] /\ Buckets \in Nat
      BY SamplerAssumption DEF SamplerInv
    <3>2. \A i \in 0 .. b - 1 : counts[i] \in 0 .. Target
      BY <2>2, <2>5, <3>1, SamplerAssumption
    <3>3. Average(counts, b) \in Nat /\ Average(counts, b) <= Target * Scale
      BY <3>1, <3>2, AverageBound, SamplerAssumption
    <3>4. rateEstimate \in Nat /\ rateEstimate <= Average(counts, b)
      BY <2>1 DEF InBucket, Near
    <3>5. Target * Scale \in Nat
      BY ScaleType, SamplerAssumption
    <3> QED
      BY <3>3, <3>4, <3>5 DEF AlwaysSampled
  <2> QED
    BY <2>3, <2>4, <2>5 DEF LazyRolloverIsExact, SlowCohortAlwaysSampled
<1> QED
  BY <1>1, SamplerStart, SamplerStep, PTL DEF SamplerSpec

-----------------------------------------------------------------------------
(* The configuration.                                                      *)

\* The inductive invariant: what was accepted passes from_raw and is not edited
\* any more, so what a round made of a cohort still follows from raw.
ConfigInv ==
    /\ "budget" \in DOMAIN raw
    /\ "statement_timeout" \in DOMAIN raw["budget"]
    /\ raw["budget"]["statement_timeout"] \in Nat
    /\ verdict = "accepted" => FromRaw(raw)
    /\ projected.result \notin {"unresolved", "invalid"}
    /\ projected.result # "none" =>
          /\ verdict = "accepted"
          /\ projected.result = "runs" <=> ~Overlooked(projected.cohort)

\* A later check refuses a cohort of an accepted configuration only for what
\* startup overlooks.
LEMMA AcceptedIsProjected ==
    ASSUME FromRaw(raw), NEW n \in DOMAIN raw.cohorts
    PROVE  /\ RoundOf(n) \notin {"unresolved", "invalid", "none"}
           /\ RoundOf(n) = "runs" <=> ~Overlooked(n)
<1> DEFINE t == raw.targets[raw.cohorts[n].target]
           c == raw.calibration
           width == raw.storage.window_seconds
<1>1. ForCohort(n)
  BY DEF FromRaw, ValidateCohorts, ForCohort
<1>2. c.ef_search[1] >= t.k
  BY <1>1 DEF FromRaw, ValidateGridAgainstTargets, ForCohort
<1>3. /\ t.k # 0 /\ InHalfOpenUnit(t.value) /\ InOpenUnit(t.percentile)
      /\ InOpenUnit(t.selection_confidence) /\ InOpenUnit(t.approval_confidence)
      /\ t.window \div Second >= width
      /\ (t.window \div Second) % width = 0
  BY <1>1 DEF FromRaw, ValidateTargets, ForCohort
<1>4. /\ c.ef_search # <<>> /\ Increasing(c.ef_search)
      /\ InOpenUnit(c.train_fraction)
      /\ SplitThreshold(c.train_fraction) \in 1 .. SplitBuckets - 1
  BY DEF FromRaw, ValidateCalibration
<1>5. \A i \in DOMAIN c.ef_search : c.ef_search[i] <= MaxEfSearch
  <2>1. \A i \in DOMAIN c.ef_search : c.ef_search[i] \in MinEfSearch .. MaxEfSearch
    BY DEF FromRaw, ValidateCalibration
  <2>2. \A e \in MinEfSearch .. MaxEfSearch : e <= MaxEfSearch
    BY DEF MinEfSearch, MaxEfSearch
  <2> QED
    BY <2>1, <2>2, Zenon
<1>6. c.train_fraction # NaN
  BY <1>4 DEF InOpenUnit, Above
<1>7. width # 0 /\ width % 60 = 0
  BY DEF FromRaw, ValidateStorage
<1>8. AggregationAccepts(t, width, c)
  BY <1>2, <1>3, <1>4, <1>5, <1>6, <1>7 DEF AggregationAccepts
<1>9. Connectable(n) /\ WindowFits(TargetOf(n)) <=> ~Overlooked(n)
  <2>1. raw.indexes[raw.cohorts[n].index].data_source \in DOMAIN raw.data_sources
    BY <1>1 DEF FromRaw, ValidateIndexes, ForCohort
  <2>2. raw.data_sources[raw.indexes[raw.cohorts[n].index].data_source].credentials
          \in {"none", "environment", "not Unicode"}
    BY <2>1 DEF FromRaw, ValidateDataSources
  <2>3. InHalfOpenUnit(raw.budget.db_share)
    BY DEF FromRaw, ValidateBudget
  <2> QED
    BY <2>2, <2>3 DEF Connectable, Overlooked
<1>10. AggregationAccepts(TargetOf(n), width, c)
  BY <1>8 DEF TargetOf
<1> QED
  BY <1>1, <1>9, <1>10 DEF RoundOf

\* The invariant holds for the working configuration.
LEMMA ConfigStart == ConfigInit => ConfigInv
BY ConfigAssumption DEF ConfigInit, ConfigInv

\* Every step keeps it.
LEMMA ConfigStep == ConfigInv /\ [ConfigNext]_tunerConfig => ConfigInv'
<1> SUFFICES ASSUME ConfigInv, [ConfigNext]_tunerConfig PROVE ConfigInv'
  OBVIOUS
<1>1. CASE EditSetting
  <2>1. PICK s \in {"calibration", "storage", "budget"} :
          \E f \in DOMAIN raw[s] : \E v \in FieldValues[f] :
            Edit([raw EXCEPT ![s][f] = v])
    BY <1>1 DEF EditSetting
  <2>2. PICK f \in DOMAIN raw[s] : \E v \in FieldValues[f] :
          Edit([raw EXCEPT ![s][f] = v])
    BY <2>1
  <2>3. PICK v \in FieldValues[f] : Edit([raw EXCEPT ![s][f] = v])
    BY <2>2
  <2>4. raw' = [raw EXCEPT ![s] = [raw[s] EXCEPT ![f] = v]]
    BY <2>3 DEF Edit
  <2>5. CASE s = "budget"
    <3>1. raw'["budget"] = [raw["budget"] EXCEPT ![f] = v]
      BY <2>4, <2>5 DEF ConfigInv
    <3> QED
      BY <2>3, <2>4, <2>5, <3>1, ConfigAssumption DEF ConfigInv, Edit
  <2>6. CASE s # "budget"
    BY <2>3, <2>4, <2>6 DEF ConfigInv, Edit
  <2> QED
    BY <2>5, <2>6
<1>2. ASSUME NEW s \in Maps, NEW m, Edit([raw EXCEPT ![s] = m]) PROVE ConfigInv'
  BY <1>2 DEF ConfigInv, Edit, Maps
<1>3. CASE EditEntry
  <2>1. PICK s \in Maps : \E n \in DOMAIN raw[s] : \E f \in DOMAIN raw[s][n] :
          \E v \in FieldValues[f] : Edit([raw EXCEPT ![s][n][f] = v])
    BY <1>3 DEF EditEntry
  <2>2. PICK n \in DOMAIN raw[s] : \E f \in DOMAIN raw[s][n] :
          \E v \in FieldValues[f] : Edit([raw EXCEPT ![s][n][f] = v])
    BY <2>1
  <2>3. PICK f \in DOMAIN raw[s][n] : \E v \in FieldValues[f] :
          Edit([raw EXCEPT ![s][n][f] = v])
    BY <2>2
  <2>4. PICK v \in FieldValues[f] : Edit([raw EXCEPT ![s][n][f] = v])
    BY <2>3
  <2>5. Edit([raw EXCEPT ![s] = [raw[s] EXCEPT ![n] = [raw[s][n] EXCEPT ![f] = v]]])
    BY <2>4
  <2> QED
    BY <1>2, <2>5
<1>4. CASE RemoveEntry
  BY <1>2, <1>4 DEF RemoveEntry
<1>5. CASE RenameCohort
  <2>1. "cohorts" \in Maps
    BY DEF Maps
  <2> QED
    BY <1>2, <1>5, <2>1 DEF RenameCohort
<1>6. CASE StartTuner
  BY <1>6 DEF StartTuner, ConfigInv
<1>7. CASE \E n \in DOMAIN raw.cohorts : RunCohort(n)
  <2>1. PICK n \in DOMAIN raw.cohorts : RunCohort(n)
    BY <1>7
  <2>2. /\ verdict = "accepted" /\ FromRaw(raw)
        /\ UNCHANGED <<raw, verdict>>
        /\ projected' = [cohort |-> n, result |-> RoundOf(n)]
    BY <2>1 DEF RunCohort, ConfigInv
  <2>3. /\ RoundOf(n) \notin {"unresolved", "invalid", "none"}
        /\ RoundOf(n) = "runs" <=> ~Overlooked(n)
    BY <2>2, AcceptedIsProjected
  <2>4. projected'.cohort = n /\ projected'.result = RoundOf(n)
    BY <2>2
  <2>5. Overlooked(n)' <=> Overlooked(n)
    BY <2>2 DEF Overlooked, TargetOf, WindowFits
  <2>6. projected'.result = "runs" <=> ~Overlooked(projected.cohort)'
    BY <2>2, <2>3, <2>4 DEF Overlooked, TargetOf, WindowFits
  <2> QED
    BY <2>2, <2>3, <2>4, <2>6 DEF ConfigInv
<1>8. CASE UNCHANGED tunerConfig
  BY <1>8 DEF tunerConfig, ConfigInv, Overlooked, TargetOf, WindowFits
<1> QED
  BY <1>1, <1>3, <1>4, <1>5, <1>6, <1>7, <1>8 DEF ConfigNext

\* Whatever the edits, and for every number of them: a round refuses a cohort
\* of a configuration that from_raw accepted (AggregationConfig::for_cohort,
\* in_scope_window_starts, connect, validate_aggregation_config) exactly when
\* its server is malformed, its password is not Unicode or its window reaches
\* back before the epoch; every other later check agrees with startup's.  A
\* statement timeout that was accepted is never sent as 0, which is none.
THEOREM StartupIsFinal == ConfigSpec => []AcceptedRuns
<1>1. ConfigInv => AcceptedRuns
  <2> SUFFICES ASSUME ConfigInv PROVE AcceptedRuns
    OBVIOUS
  <2>1. ASSUME verdict = "accepted"
        PROVE  StatementTimeoutMs(raw.budget.statement_timeout) > 0
    <3>1. raw.budget.statement_timeout \in Nat /\ raw.budget.statement_timeout # 0
      BY <2>1 DEF ConfigInv, FromRaw, ValidateBudget
    <3> HIDE DEF ConfigInv
    <3> QED
      BY <3>1 DEF StatementTimeoutMs, Millisecond
  <2> QED
    BY <2>1 DEF AcceptedRuns, ConfigInv
<1> QED
  BY <1>1, ConfigStart, ConfigStep, PTL DEF ConfigSpec

-----------------------------------------------------------------------------
(* The daemon and its database.                                            *)

USE DatabaseAssumption

\* The shapes of the daemon's state.
Shapes ==
    /\ at \in InFlight \cup {"wait", "connect", "next", "cooldown", "closing",
                             "stopped"}
    /\ cancelled \in BOOLEAN
    /\ session \in {"idle", "open", "capped"} /\ orphan \in Nat
    /\ cool \in Nat /\ elapsed \in Nat /\ debt \in Nat /\ late \in Nat
    /\ untilTick \in Nat /\ sinceTick \in Nat /\ grid \in Nat

\* During a round the ticks since its scheduled start say where on the grid
\* the daemon is; between rounds the ticks left do.
OnGrid ==
    /\ at = "wait" => sinceTick = 0 /\ (grid + untilTick) % Interval = 0
    /\ at \notin {"wait", "closing", "stopped"} => grid = sinceTick % Interval
    /\ grid < Interval

\* Only the operations after BEGIN have a transaction.
OneTransaction == session # "idle" => at \in {"stmt", "commit", "rollback"}

\* Every query is sent under a statement_timeout, and its deadline is running.
QueryCapped ==
    at = "stmt" => /\ stmt \in Nat /\ timer \in 0 .. ClientTimeout
                   /\ stmt > 1 => session # "open"

\* What the connection owes is what the pacer will make it wait, once the unit
\* in flight is charged.
Owed == debt = IF at \in InFlight THEN elapsed * Rest ELSE cool

\* A transaction begun after cancellation is the last thing before closing.
LastOne == late = 0 \/ (late = 1 /\ cancelled /\ at # "cooldown")

\* The inductive invariant.
DInv == /\ Shapes /\ OnGrid /\ OneTransaction /\ QueryCapped /\ AbandonedIsCapped
        /\ Owed /\ LastOne

-----------------------------------------------------------------------------
(* Remainders.                                                             *)

\* A remainder is the only number below the divisor that leaves a multiple.
LEMMA ModUnique ==
    ASSUME NEW n \in Nat \ {0}, NEW a \in Nat, NEW q \in Int, NEW r \in 0 .. n - 1,
           a = q * n + r
    PROVE  a % n = r
<1> DEFINE p == a \div n
           s == a % n
           d == q - p
<1>1. p \in Int /\ s \in 0 .. n - 1 /\ a = p * n + s
  OBVIOUS
<1>2. d \in Int /\ d * n = s - r
  BY <1>1
<1>3. d < 1
  <2> SUFFICES ASSUME d >= 1 PROVE FALSE
    BY <1>2
  <2>1. (d - 1) * n >= 0
    BY <1>2
  <2> QED
    BY <1>1, <1>2, <2>1
<1>4. d > -1
  <2> SUFFICES ASSUME d <= -1 PROVE FALSE
    BY <1>2
  <2>1. (-1 - d) * n >= 0
    BY <1>2
  <2> QED
    BY <1>1, <1>2, <2>1
<1>5. d = 0
  BY <1>2, <1>3, <1>4
<1> QED
  BY <1>1, <1>2, <1>5

\* Taking the divisor away leaves the remainder.
LEMMA ModMinus ==
    ASSUME NEW n \in Nat \ {0}, NEW a \in Nat, a >= n
    PROVE  (a - n) % n = a % n
<1> DEFINE p == a \div n
           r == a % n
<1>1. p \in Int /\ r \in 0 .. n - 1 /\ a = p * n + r
  OBVIOUS
<1>2. a - n = (p - 1) * n + r /\ p - 1 \in Int /\ a - n \in Nat
  BY <1>1
<1> HIDE DEF p
<1> QED
  BY <1>1, <1>2, ModUnique

\* A number below the divisor is its own remainder.
LEMMA ModSmall ==
    ASSUME NEW n \in Nat \ {0}, NEW a \in 0 .. n - 1
    PROVE  a % n = a
<1>1. a = 0 * n + a
  OBVIOUS
<1> QED
  BY <1>1, ModUnique

\* The divisor leaves nothing.
LEMMA ModSelf ==
    ASSUME NEW n \in Nat \ {0}
    PROVE  n % n = 0
<1>1. n = 1 * n + 0 /\ 0 \in 0 .. n - 1
  OBVIOUS
<1> QED
  BY <1>1, ModUnique

\* Counting up by one, modulo n.
LEMMA ModStep ==
    ASSUME NEW n \in Nat \ {0}, NEW a \in Nat
    PROVE  ((a % n) + 1) % n = (a + 1) % n
<1> DEFINE p == a \div n
           r == a % n
<1>1. p \in Int /\ r \in 0 .. n - 1 /\ a = p * n + r
  OBVIOUS
<1> HIDE DEF p, r
<1>2. CASE r + 1 < n
  <2>1. (r + 1) % n = r + 1
    BY <1>1, <1>2, ModSmall
  <2>2. a + 1 = p * n + (r + 1) /\ r + 1 \in 0 .. n - 1
    BY <1>1, <1>2
  <2>3. (a + 1) % n = r + 1
    BY <1>1, <2>2, ModUnique
  <2> QED
    BY <2>1, <2>3 DEF r
<1>3. CASE r + 1 = n
  <2>1. (r + 1) % n = 0
    BY <1>3, ModSelf
  <2>2. a + 1 = (p + 1) * n + 0
    BY <1>1, <1>3
  <2>4. a + 1 \in Nat /\ p + 1 \in Int /\ 0 \in 0 .. n - 1
    BY <1>1
  <2>3. (a + 1) % n = 0
    BY <2>2, <2>4, ModUnique
  <2> QED
    BY <2>1, <2>3 DEF r
<1> QED
  BY <1>1, <1>2, <1>3

\* The wait a round leaves ends on the grid, a whole interval after the last
\* tick that had passed.
LEMMA NextTickLands ==
    ASSUME NEW s \in Nat
    PROVE  /\ NextTick(s) \in Nat
           /\ (s % Interval) + NextTick(s) = Interval
<1>1. s % Interval \in 0 .. Interval - 1
  OBVIOUS
<1>2. CASE s < Interval
  <2>1. s % Interval = s
    BY <1>2, ModSmall
  <2> QED
    BY <1>2, <2>1 DEF NextTick
<1>3. CASE s >= Interval
  <2>1. (s - Interval) % Interval = s % Interval
    BY <1>3, ModMinus
  <2> QED
    BY <1>1, <1>3, <2>1 DEF NextTick
<1> QED
  BY <1>2, <1>3

-----------------------------------------------------------------------------
(* The grid.                                                               *)

\* A tick of the wait moves along the grid and shortens the wait.
LEMMA WaitKeepsGrid ==
    ASSUME NEW g \in Nat, NEW u \in Nat, g < Interval, u > 0,
           (g + u) % Interval = 0
    PROVE  (((g + 1) % Interval) + (u - 1)) % Interval = 0
<1>1. CASE g + 1 < Interval
  <2>1. (g + 1) % Interval = g + 1
    BY <1>1, ModSmall
  <2>2. (g + 1) + (u - 1) = g + u
    OBVIOUS
  <2> QED
    BY <2>1, <2>2
<1>2. CASE g + 1 = Interval
  <2>1. (g + 1) % Interval = 0
    BY <1>2, ModSelf
  <2>2. (g + u) - Interval = 0 + (u - 1) /\ g + u >= Interval /\ g + u \in Nat
    BY <1>2
  <2>3. ((g + u) - Interval) % Interval = (g + u) % Interval
    BY <2>2, ModMinus
  <2> QED
    BY <2>1, <2>2, <2>3
<1> QED
  BY <1>1, <1>2

LEMMA GridKept == DInv /\ DaemonNext => OnGrid'
<1> SUFFICES ASSUME DInv, DaemonNext PROVE OnGrid'
  OBVIOUS
<1> USE DEF DInv, Shapes, OnGrid, link, round, schedule, history
<1>1. CASE at = "wait" /\ Leave
  BY <1>1 DEF Leave
<1>2. CASE at = "next" /\ cancelled /\ Leave
  BY <1>2 DEF Leave
<1>3. CASE CancelledBeforeStart
  BY <1>3 DEF CancelledBeforeStart, Leave
<1>4. CASE StartRound
  <2>1. grid = 0 /\ sinceTick = 0 /\ 0 % Interval = 0
    <3>1. grid % Interval = grid /\ 0 % Interval = 0
      BY ModSmall
    <3> QED
      BY <1>4, <3>1 DEF StartRound
  <2> QED
    BY <1>4, <2>1 DEF StartRound
<1>5. CASE Connects \/ ConnectFails \/ ConnectTimesOut
  BY <1>5 DEF Connects, ConnectFails, ConnectTimesOut, Begun
<1>6. CASE EndRound
  <2>1. grid + NextTick(sinceTick) = Interval
    BY <1>6, NextTickLands DEF EndRound
  <2>2. (grid' + untilTick') % Interval = 0
    BY <1>6, <2>1, ModSelf DEF EndRound
  <2> QED
    BY <1>6, <2>2 DEF EndRound
<1>7. CASE Unavailable \/ MeasureSample \/ BeginTransaction
  BY <1>7 DEF Unavailable, MeasureSample, BeginTransaction, Send
<1>8. CASE OperationLost \/ FinishFails
  BY <1>8 DEF OperationLost, FinishFails, ConnectionLost, Charge, InFlight
<1>9. CASE BeginFails \/ Committed \/ RolledBack
  BY <1>9 DEF BeginFails, Committed, RolledBack, Charge
<1>10. CASE BeginSucceeds \/ StatementSucceeds \/ StatementFails \/ TableSmallerThanK
  BY <1>10 DEF BeginSucceeds, StatementSucceeds, StatementFails,
               TableSmallerThanK, Send
<1>11. CASE Close
  BY <1>11 DEF Close
<1>12. CASE Cancel \/ SocketCloses
  BY <1>12 DEF Cancel, SocketCloses
<1>13. CASE TimePasses
  <2>1. (grid + 1) % Interval \in 0 .. Interval - 1
    OBVIOUS
  <2>2. CASE at = "wait"
    <3>1. untilTick > 0 /\ untilTick' = untilTick - 1 /\ sinceTick' = 0
      BY <1>13, <2>2 DEF TimePasses, Due, Less
    <3>2. (grid' + untilTick') % Interval = 0
      BY <1>13, <2>2, <3>1, WaitKeepsGrid DEF TimePasses
    <3> QED
      BY <1>13, <2>1, <2>2, <3>1, <3>2 DEF TimePasses
  <2>3. CASE at \notin {"wait", "closing", "stopped"}
    <3>1. sinceTick' = sinceTick + 1 /\ grid' = ((sinceTick % Interval) + 1) % Interval
      BY <1>13, <2>3 DEF TimePasses
    <3>2. grid' = sinceTick' % Interval
      BY <3>1, ModStep
    <3> QED
      BY <1>13, <2>1, <2>3, <3>2 DEF TimePasses
  <2>4. CASE at \in {"closing", "stopped"}
    BY <1>13, <2>1, <2>4 DEF TimePasses
  <2> QED
    BY <2>2, <2>3, <2>4
<1>14. CASE Stopped
  BY <1>14 DEF Stopped, daemon
<1> QED
  BY <1>1, <1>2, <1>3, <1>4, <1>5, <1>6, <1>7, <1>8, <1>9, <1>10, <1>11, <1>12,
     <1>13, <1>14
  DEF DaemonNext, Daemon, Server, CancelledWaiting, RoundCancelled

\* An abandoned backend goes on for no longer than its statement_timeout.
LEMMA LostLeaves ==
    ASSUME DInv, ConnectionLost
    PROVE  orphan' \in Nat /\ orphan' <= StatementTimeout
<1>1. PICK n \in LeftOver : orphan' = IF n > orphan THEN n ELSE orphan
  BY DEF ConnectionLost
<1>2. n \in 0 .. StatementTimeout
  <2>1. CASE session = "capped" /\ at = "stmt" /\ stmt > 1
    <3>1. n \in IF Ran < StatementTimeout THEN 0 .. StatementTimeout - Ran ELSE {0}
      BY <1>1, <2>1 DEF LeftOver
    <3>2. Ran \in Nat
      BY <2>1 DEF Ran, DInv, QueryCapped
    <3> QED
      BY <3>1, <3>2
  <2>2. CASE ~(session = "capped" /\ at = "stmt" /\ stmt > 1)
    <3>1. ~(session = "open" /\ at = "stmt" /\ stmt > 1)
      BY DEF DInv, QueryCapped
    <3>2. LeftOver = {0}
      BY <2>2, <3>1 DEF LeftOver
    <3> QED
      BY <1>1, <3>2
  <2> QED
    BY <2>1, <2>2
<1> QED
  BY <1>1, <1>2 DEF DInv, Shapes, AbandonedIsCapped

\* What every action leaves of the shapes.
LEMMA ShapesKept == DInv /\ DaemonNext => Shapes'
<1> SUFFICES ASSUME DInv, DaemonNext PROVE Shapes'
  OBVIOUS
<1> USE DEF DInv, Shapes, InFlight, link, round, schedule, history
<1>1. CASE Leave
  BY <1>1 DEF Leave
<1>2. CASE StartRound
  BY <1>2 DEF StartRound
<1>3. CASE Connects \/ ConnectFails \/ ConnectTimesOut
  BY <1>3 DEF Connects, ConnectFails, ConnectTimesOut, Begun
<1>4. CASE EndRound
  BY <1>4, NextTickLands DEF EndRound
<1>5. CASE Unavailable \/ MeasureSample \/ BeginTransaction
  BY <1>5 DEF Unavailable, MeasureSample, BeginTransaction, Send
<1>6. ASSUME Charge PROVE cool' \in Nat /\ elapsed' \in Nat /\ at' = "next"
  BY <1>6 DEF Charge
<1>7. CASE OperationLost \/ FinishFails
  <2>1. ConnectionLost
    BY <1>7 DEF OperationLost, FinishFails
  <2>2. orphan' \in Nat
    BY <2>1, LostLeaves
  <2> QED
    BY <1>6, <2>1, <2>2 DEF ConnectionLost
<1>8. CASE BeginFails \/ Committed \/ RolledBack
  BY <1>6, <1>8 DEF BeginFails, Committed, RolledBack
<1>9. CASE BeginSucceeds \/ StatementSucceeds \/ StatementFails \/ TableSmallerThanK
  BY <1>9 DEF BeginSucceeds, StatementSucceeds, StatementFails,
              TableSmallerThanK, Send
<1>10. CASE Close \/ Cancel \/ SocketCloses
  BY <1>10 DEF Close, Cancel, SocketCloses
<1>11. CASE TimePasses
  <2>1. (grid + 1) % Interval \in Nat
    OBVIOUS
  <2> QED
    BY <1>11, <2>1 DEF TimePasses, Less
<1>12. CASE Stopped
  BY <1>12 DEF Stopped, daemon
<1> QED
  BY <1>1, <1>2, <1>3, <1>4, <1>5, <1>7, <1>8, <1>9, <1>10, <1>11, <1>12
  DEF DaemonNext, Daemon, Server, CancelledWaiting, RoundCancelled,
      CancelledBeforeStart

-----------------------------------------------------------------------------
(* The transaction, the pacer's debt and the last transaction.             *)

\* A session is open only under the operations after BEGIN: whatever ends the
\* unit of work, COMMIT, ROLLBACK or the loss of the connection ends it too.
LEMMA TransactionKept == DInv /\ DaemonNext => OneTransaction'
<1> SUFFICES ASSUME DInv, DaemonNext PROVE OneTransaction'
  OBVIOUS
<1> USE DEF DInv, Shapes, OneTransaction, InFlight, link, round, schedule, history
<1>1. CASE CancelledWaiting \/ RoundCancelled \/ CancelledBeforeStart
  BY <1>1 DEF CancelledWaiting, RoundCancelled, CancelledBeforeStart, Leave
<1>2. CASE StartRound
  BY <1>2 DEF StartRound
<1>3. CASE Connects \/ ConnectFails \/ ConnectTimesOut
  BY <1>3 DEF Connects, ConnectFails, ConnectTimesOut, Begun
<1>4. CASE EndRound \/ Unavailable \/ MeasureSample \/ BeginTransaction
  BY <1>4 DEF EndRound, Unavailable, MeasureSample, BeginTransaction, Send
<1>5. CASE OperationLost \/ FinishFails
  BY <1>5 DEF OperationLost, FinishFails, ConnectionLost
<1>6. CASE BeginFails \/ Committed \/ RolledBack
  BY <1>6 DEF BeginFails, Committed, RolledBack, Charge
<1>7. CASE BeginSucceeds \/ StatementSucceeds \/ StatementFails \/ TableSmallerThanK
  BY <1>7 DEF BeginSucceeds, StatementSucceeds, StatementFails,
              TableSmallerThanK, Send
<1>8. CASE Close \/ Cancel \/ SocketCloses
  BY <1>8 DEF Close, Cancel, SocketCloses
<1>9. CASE TimePasses
  BY <1>9 DEF TimePasses
<1>10. CASE Stopped
  BY <1>10 DEF Stopped, daemon
<1> QED
  BY <1>1, <1>2, <1>3, <1>4, <1>5, <1>6, <1>7, <1>8, <1>9, <1>10
  DEF DaemonNext, Daemon, Server

\* The first statement sets the statement_timeout of the others, and whatever is
\* abandoned was under it.
LEMMA CapKept == DInv /\ DaemonNext => QueryCapped' /\ AbandonedIsCapped'
<1> SUFFICES ASSUME DInv, DaemonNext PROVE QueryCapped' /\ AbandonedIsCapped'
  OBVIOUS
<1> USE DEF DInv, Shapes, QueryCapped, AbandonedIsCapped, InFlight, link, round,
            schedule, history
<1>1. CASE CancelledWaiting \/ RoundCancelled \/ CancelledBeforeStart
  BY <1>1 DEF CancelledWaiting, RoundCancelled, CancelledBeforeStart, Leave
<1>2. CASE StartRound
  BY <1>2 DEF StartRound
<1>3. CASE Connects \/ ConnectFails \/ ConnectTimesOut
  BY <1>3 DEF Connects, ConnectFails, ConnectTimesOut, Begun
<1>4. CASE EndRound \/ Unavailable \/ MeasureSample \/ BeginTransaction
  BY <1>4 DEF EndRound, Unavailable, MeasureSample, BeginTransaction, Send
<1>5. CASE OperationLost \/ FinishFails
  <2>1. ConnectionLost
    BY <1>5 DEF OperationLost, FinishFails
  <2>2. at' = "next"
    BY <2>1 DEF ConnectionLost, Charge
  <2> QED
    BY <2>1, <2>2, LostLeaves
<1>6. CASE BeginFails \/ Committed \/ RolledBack
  BY <1>6 DEF BeginFails, Committed, RolledBack, Charge
<1>7. CASE BeginSucceeds \/ StatementSucceeds \/ StatementFails \/ TableSmallerThanK
  BY <1>7 DEF BeginSucceeds, StatementSucceeds, StatementFails,
              TableSmallerThanK, Send
<1>8. CASE Close \/ Cancel \/ SocketCloses
  BY <1>8 DEF Close, Cancel, SocketCloses
<1>9. CASE TimePasses
  <2>1. orphan' = IF orphan = 0 THEN 0 ELSE orphan - 1
    BY <1>9 DEF TimePasses, Less
  <2>2. at = "stmt" => timer' = timer - 1 /\ timer # 0
    BY <1>9 DEF TimePasses, Due, Timed
  <2> QED
    BY <1>9, <2>1, <2>2 DEF TimePasses
<1>10. CASE Stopped
  BY <1>10 DEF Stopped, daemon
<1> QED
  BY <1>1, <1>2, <1>3, <1>4, <1>5, <1>6, <1>7, <1>8, <1>9, <1>10
  DEF DaemonNext, Daemon, Server

\* The debt grows with the unit in flight, is charged to the pacer however the
\* unit ends, and is paid tick by tick: a new connection, which has a new
\* pacer, is the only way out of it.
LEMMA DebtKept == DInv /\ DaemonNext => Owed'
<1> SUFFICES ASSUME DInv, DaemonNext PROVE Owed'
  OBVIOUS
<1> USE DEF DInv, Shapes, Owed, InFlight, link, round, schedule, history
<1>1. CASE CancelledWaiting \/ RoundCancelled \/ CancelledBeforeStart
  BY <1>1 DEF CancelledWaiting, RoundCancelled, CancelledBeforeStart, Leave
<1>2. CASE StartRound
  BY <1>2 DEF StartRound
<1>3. CASE Connects \/ ConnectFails \/ ConnectTimesOut
  BY <1>3 DEF Connects, ConnectFails, ConnectTimesOut, Begun
<1>4. CASE EndRound \/ Unavailable \/ MeasureSample
  BY <1>4 DEF EndRound, Unavailable, MeasureSample
<1>5. CASE BeginTransaction
  <2>1. 0 * Rest = 0
    OBVIOUS
  <2> QED
    BY <1>5, <2>1 DEF BeginTransaction, Send
<1>6. CASE OperationLost \/ FinishFails
  BY <1>6 DEF OperationLost, FinishFails, ConnectionLost, Charge
<1>7. CASE BeginFails \/ Committed \/ RolledBack
  BY <1>7 DEF BeginFails, Committed, RolledBack, Charge
<1>8. CASE BeginSucceeds \/ StatementSucceeds \/ StatementFails \/ TableSmallerThanK
  BY <1>8 DEF BeginSucceeds, StatementSucceeds, StatementFails,
              TableSmallerThanK, Send
<1>9. CASE Close \/ Cancel \/ SocketCloses
  BY <1>9 DEF Close, Cancel, SocketCloses
<1>10. CASE TimePasses
  <2>1. (elapsed + 1) * Rest = elapsed * Rest + Rest
    OBVIOUS
  <2> QED
    BY <1>10, <2>1 DEF TimePasses
<1>11. CASE Stopped
  BY <1>11 DEF Stopped, daemon
<1> QED
  BY <1>1, <1>2, <1>3, <1>4, <1>5, <1>6, <1>7, <1>8, <1>9, <1>10, <1>11
  DEF DaemonNext, Daemon, Server

\* The loop looks at the token before it goes to the pacer again, so that a
\* transaction begun too late is followed by none.
LEMMA LastKept == DInv /\ DaemonNext => LastOne'
<1> SUFFICES ASSUME DInv, DaemonNext PROVE LastOne'
  OBVIOUS
<1> USE DEF DInv, Shapes, LastOne, InFlight, link, round, schedule, history
<1>1. CASE CancelledWaiting \/ RoundCancelled \/ CancelledBeforeStart
  BY <1>1 DEF CancelledWaiting, RoundCancelled, CancelledBeforeStart, Leave
<1>2. CASE StartRound
  BY <1>2 DEF StartRound
<1>3. CASE Connects \/ ConnectFails \/ ConnectTimesOut
  BY <1>3 DEF Connects, ConnectFails, ConnectTimesOut, Begun
<1>4. CASE EndRound \/ Unavailable \/ MeasureSample
  BY <1>4 DEF EndRound, Unavailable, MeasureSample
<1>5. CASE BeginTransaction
  BY <1>5 DEF BeginTransaction, Send
<1>6. CASE OperationLost \/ FinishFails
  BY <1>6 DEF OperationLost, FinishFails, ConnectionLost, Charge
<1>7. CASE BeginFails \/ Committed \/ RolledBack
  BY <1>7 DEF BeginFails, Committed, RolledBack, Charge
<1>8. CASE BeginSucceeds \/ StatementSucceeds \/ StatementFails \/ TableSmallerThanK
  BY <1>8 DEF BeginSucceeds, StatementSucceeds, StatementFails,
              TableSmallerThanK, Send
<1>9. CASE Close \/ Cancel \/ SocketCloses
  BY <1>9 DEF Close, Cancel, SocketCloses
<1>10. CASE TimePasses
  BY <1>10 DEF TimePasses
<1>11. CASE Stopped
  BY <1>11 DEF Stopped, daemon
<1> QED
  BY <1>1, <1>2, <1>3, <1>4, <1>5, <1>6, <1>7, <1>8, <1>9, <1>10, <1>11
  DEF DaemonNext, Daemon, Server

-----------------------------------------------------------------------------
\* The inductive invariant holds in every state of the daemon: what the grid,
\* the transaction, the pacer's debt and the last transaction need of each
\* other.
THEOREM DaemonInvariant == DaemonSpec => []DInv
<1>1. DaemonInit => DInv
  <2> SUFFICES ASSUME DaemonInit PROVE DInv
    OBVIOUS
  <2>1. 0 % Interval = 0
    BY ModSmall
  <2>2. Shapes /\ OneTransaction /\ Owed /\ LastOne
    BY DEF DaemonInit, Shapes, OneTransaction, Owed, LastOne, InFlight
  <2>4. QueryCapped /\ AbandonedIsCapped
    BY DEF DaemonInit, QueryCapped, AbandonedIsCapped, InFlight
  <2>3. OnGrid
    BY <2>1 DEF DaemonInit, OnGrid
  <2> QED
    BY <2>2, <2>3, <2>4 DEF DInv
<1>2. DInv /\ [DaemonNext]_daemon => DInv'
  <2>1. CASE DaemonNext
    BY <2>1, GridKept, ShapesKept, TransactionKept, CapKept, DebtKept, LastKept
    DEF DInv
  <2>2. CASE UNCHANGED daemon
    BY <2>2 DEF daemon, link, round, schedule, history, DInv, Shapes, OnGrid,
                OneTransaction, QueryCapped, AbandonedIsCapped, Owed, LastOne
  <2> QED
    BY <2>1, <2>2
<1> QED
  BY <1>1, <1>2, PTL DEF DaemonSpec

\* Rounds start on the grid the first one set, whatever the interval and
\* however many intervals a round overran (daemon.rs: scheduled_tick advances
\* by whole intervals).
THEOREM GridSafe == DaemonSpec => []RoundsOnGrid
<1>1. DInv => RoundsOnGrid
  BY DEF DInv, OnGrid, RoundsOnGrid
<1> QED
  BY <1>1, DaemonInvariant, PTL

\* For every share, timeout and number of statements: no transaction begins
\* before the connection has rested for its earlier ones, none stays open on it
\* while it rests, a backend that is abandoned is under a statement_timeout, and
\* at most one transaction begins after cancellation (pacer.rs, measure.rs,
\* database.rs).
THEOREM DatabaseSafe == DaemonSpec => []DatabaseSpared
<1>1. DInv => NoOpenTransaction
  BY DEF DInv, Shapes, OneTransaction, NoOpenTransaction
<1>2. DInv => ConnectionWithinShare
  <2>1. 0 * Rest = 0
    OBVIOUS
  <2> QED
    BY <2>1 DEF DInv, Shapes, Owed, ConnectionWithinShare, InFlight
<1>3. DInv => CancelStartsAtMostOne
  BY DEF DInv, LastOne, CancelStartsAtMostOne
<1>4. DInv => AbandonedIsCapped
  BY DEF DInv
<1>5. DInv => DatabaseSpared
  BY <1>1, <1>2, <1>3, <1>4 DEF DatabaseSpared
<1> QED
  BY <1>5, DaemonInvariant, PTL

-----------------------------------------------------------------------------
(* The memory tracker.                                                     *)

\* The inductive invariant: a step only needs to know that the counter is
\* exact and has not passed the limit.
IInv == TypeOK /\ CounterIsExact /\ used_bytes <= Limit

USE SlotsAssumption, BytesAssumption, LimitAssumption

\* The bytes of the guards alive are a natural number.
LEMMA HoldingSum ==
    ASSUME TypeOK
    PROVE  Holding \in SUBSET Slots /\ ByteSum(Holding, Bytes) \in Nat
<1>1. Holding \in SUBSET Slots
  BY DEF Holding
<1> QED
  BY <1>1, ByteSumType

\* A reservation adds its slot's bytes to the sum.
LEMMA ReserveAdds ==
    ASSUME TypeOK, NEW s \in Slots, ReserveCas(s)
    PROVE  ByteSum(Holding', Bytes) = ByteSum(Holding, Bytes) + Bytes[s]
<1>1. Holding' = Holding \cup {s} /\ s \in Slots \ Holding
  BY DEF TypeOK, ReserveCas, Goto, Holding
<1>2. Holding \in SUBSET Slots
  BY HoldingSum
<1>3. ByteSum(Holding \cup {s}, Bytes) = ByteSum(Holding, Bytes) + Bytes[s]
  BY <1>1, <1>2, ByteSumAdd
<1> QED
  BY <1>1, <1>3

\* A release takes its slot's bytes out of the sum, which holds them.
LEMMA ReleaseRemoves ==
    ASSUME TypeOK, NEW s \in Slots, ReleaseCas(s)
    PROVE  /\ ByteSum(Holding', Bytes) = ByteSum(Holding, Bytes) - Bytes[s]
           /\ Bytes[s] <= ByteSum(Holding, Bytes)
<1>1. Holding' = Holding \ {s} /\ {s} \in SUBSET Holding
  BY DEF TypeOK, ReleaseCas, Goto, Holding
<1>2. Holding \in SUBSET Slots
  BY HoldingSum
<1>3. /\ ByteSum(Holding \ {s}, Bytes) = ByteSum(Holding, Bytes) - ByteSum({s}, Bytes)
      /\ ByteSum({s}, Bytes) <= ByteSum(Holding, Bytes)
  BY <1>1, <1>2, ByteSumRemove
<1>4. ByteSum({s}, Bytes) = Bytes[s]
  BY ByteSumOne
<1> QED
  BY <1>1, <1>3, <1>4

LEMMA InitInv == Init => IInv
<1> SUFFICES ASSUME Init PROVE IInv
  OBVIOUS
<1>1. TypeOK /\ used_bytes <= Limit
  BY DEF Init, TypeOK
<1>2. Holding = {}
  BY DEF Init, Holding
<1>3. CounterIsExact
  BY <1>2, ByteSumEmpty DEF Init, CounterIsExact
<1> QED
  BY <1>1, <1>3 DEF IInv

LEMMA NextInv == IInv /\ [Next]_vars => IInv'
<1> SUFFICES ASSUME IInv, [Next]_vars PROVE IInv'
  OBVIOUS
<1>1. CASE UNCHANGED vars
  <2>1. Holding' = Holding
    BY <1>1 DEF vars, Holding
  <2> QED
    BY <1>1, <2>1 DEF IInv, TypeOK, CounterIsExact, vars
<1>2. ASSUME NEW s \in Slots, ReserveCas(s) PROVE IInv'
  <2>1. ByteSum(Holding', Bytes) = ByteSum(Holding, Bytes) + Bytes[s]
    BY <1>2, ReserveAdds DEF IInv
  <2>2. TypeOK' /\ used_bytes' <= Limit
    BY <1>2 DEF IInv, TypeOK, ReserveCas, Goto
  <2>3. CounterIsExact'
    BY <1>2, <2>1 DEF IInv, CounterIsExact, ReserveCas
  <2> QED
    BY <2>2, <2>3 DEF IInv
<1>3. ASSUME NEW s \in Slots, ReleaseCas(s) PROVE IInv'
  <2>1. /\ ByteSum(Holding', Bytes) = ByteSum(Holding, Bytes) - Bytes[s]
        /\ Bytes[s] <= ByteSum(Holding, Bytes)
    BY <1>3, ReleaseRemoves DEF IInv
  <2>2. used_bytes' = used_bytes - Bytes[s] /\ used_bytes' \in Nat /\ used_bytes' <= Limit
    BY <1>3, <2>1 DEF IInv, TypeOK, CounterIsExact, ReleaseCas, ReleaseBytes
  <2>3. TypeOK'
    BY <1>3, <2>2 DEF IInv, TypeOK, ReleaseCas, Goto
  <2>4. CounterIsExact'
    BY <2>1, <2>2 DEF IInv, CounterIsExact
  <2> QED
    BY <2>2, <2>3, <2>4 DEF IInv
<1>4. ASSUME NEW s \in Slots,
             Call(s) \/ Load(s) \/ ReturnNone(s) \/ DropGuard(s) \/ CasFails(s)
      PROVE  IInv'
  <2>1. TypeOK' /\ used_bytes' = used_bytes
    BY <1>4 DEF IInv, TypeOK, Call, Load, ReturnNone, DropGuard, CasFails, Goto
  <2>2. Holding' = Holding
    BY <1>4 DEF IInv, TypeOK, Holding, Call, Load, ReturnNone, DropGuard, CasFails, Goto
  <2> QED
    BY <2>1, <2>2 DEF IInv, CounterIsExact
<1> QED
  BY <1>1, <1>2, <1>3, <1>4 DEF Next

\* The tracker's state always has its type.
THEOREM TypeCorrect == Spec => []TypeOK
<1>1. IInv => TypeOK
  BY DEF IInv
<1> QED
  BY <1>1, InitInv, NextInv, PTL DEF Spec

\* The counter is the sum of the live guards' bytes, for any interleaving of
\* any number of try_reserve and release loops.
THEOREM Exact == Spec => []CounterIsExact
<1>1. IInv => CounterIsExact
  BY DEF IInv
<1> QED
  BY <1>1, InitInv, NextInv, PTL DEF Spec

\* Live guards never exceed the limit.
THEOREM TrackerBounded == Spec => []WithinLimit
<1>1. IInv => WithinLimit
  BY DEF IInv, CounterIsExact, WithinLimit
<1> QED
  BY <1>1, InitInv, NextInv, PTL DEF Spec

-----------------------------------------------------------------------------
\* The abstract budget holds exactly the slots whose bytes are counted.
LEMMA HeldIsHolding == TypeOK => Budget!Held = Holding
  BY DEF TypeOK, Budget!Held, Holding, Status

\* ... and counts their bytes in the same way.
LEMMA SameSum == \A S, size : Budget!ByteSum(S, size) = ByteSum(S, size)
  BY Zenon DEF Budget!ByteSum, Budget!ByteSet, Budget!Cardinality,
               ByteSum, ByteSet, Cardinality

LEMMA InitRefines == Init => Budget!Init
  BY DEF Init, Budget!Init, Status

\* An action of slot s leaves the other slots alone.
ActsOn(s) == \A t \in Slots \ {s} : pc'[t] = pc[t] /\ current'[t] = current[t]

\* An action that touches only slot s is the abstract move of that slot.
LEMMA MoveRefines ==
    ASSUME NEW s \in Slots, NEW from, NEW to, ActsOn(s),
           Status(s) = from, Status(s)' = to
    PROVE  Budget!Move(s, from, to)
<1> DEFINE st == [t \in Slots |-> Status(t)]
<1>1. \A t \in Slots \ {s} : Status(t)' = Status(t)
  BY DEF ActsOn, Status
<1>2. st[s] = from
  OBVIOUS
<1>3. st' = [st EXCEPT ![s] = to]
  BY <1>1
<1> QED
  BY <1>2, <1>3 DEF Budget!Move

\* ... or nothing, if its status stays.
LEMMA StutterRefines ==
    ASSUME NEW s \in Slots, ActsOn(s), Status(s)' = Status(s)
    PROVE  [t \in Slots |-> Status(t)]' = [t \in Slots |-> Status(t)]
<1>1. \A t \in Slots \ {s} : Status(t)' = Status(t)
  BY DEF ActsOn, Status
<1> QED
  BY <1>1

\* Every action of the tracker touches one slot.
LEMMA OneSlot ==
    ASSUME TypeOK, NEW s \in Slots,
           \/ Call(s) \/ Load(s) \/ ReturnNone(s) \/ ReserveCas(s)
           \/ DropGuard(s) \/ ReleaseCas(s) \/ CasFails(s)
    PROVE  ActsOn(s)
  BY DEF TypeOK, ActsOn, Goto, Call, Load, ReturnNone, ReserveCas, DropGuard,
         ReleaseCas, CasFails

\* Every step of the loops is a step of the atomic budget or none at all.
LEMMA StepRefines ==
    ASSUME IInv, [Next]_vars
    PROVE  [Budget!Next]_[s \in Slots |-> Status(s)]
<1> DEFINE st == [s \in Slots |-> Status(s)]
<1>0. TypeOK /\ used_bytes = Budget!ByteSum(Budget!Held, Bytes)
  BY HeldIsHolding, SameSum DEF IInv, CounterIsExact
<1>1. CASE UNCHANGED vars
  BY <1>1 DEF vars, Status
<1>2. ASSUME NEW s \in Slots, Call(s) PROVE Budget!Ask(s)
  <2>1. Status(s) = "out" /\ Status(s)' = "asking"
    BY <1>0, <1>2 DEF Call, Goto, Status, TypeOK
  <2> QED
    BY <1>0, <1>2, <2>1, OneSlot, MoveRefines DEF Budget!Ask
<1>3. ASSUME NEW s \in Slots, Load(s) \/ CasFails(s)
      PROVE  Budget!Refuse(s) \/ st' = st
  <2>1. CASE used_bytes + Bytes[s] > Limit /\ pc[s] \in {"load", "reserve"}
    <3>1. Status(s) = "asking" /\ Status(s)' = "refused"
      BY <1>0, <1>3, <2>1 DEF Load, CasFails, Goto, Status, TypeOK
    <3>2. Budget!Move(s, "asking", "refused")
      BY <1>0, <1>3, <3>1, OneSlot, MoveRefines
    <3> QED
      BY <1>0, <2>1, <3>2 DEF Budget!Refuse
  <2>2. CASE ~(used_bytes + Bytes[s] > Limit /\ pc[s] \in {"load", "reserve"})
    <3>1. Status(s)' = Status(s)
      BY <1>0, <1>3, <2>2 DEF Load, CasFails, Goto, Status, TypeOK
    <3> QED
      BY <1>0, <1>3, <3>1, OneSlot, StutterRefines
  <2> QED
    BY <2>1, <2>2
<1>4. ASSUME NEW s \in Slots, ReturnNone(s) PROVE Budget!Return(s)
  <2>1. Status(s) = "refused" /\ Status(s)' = "out"
    BY <1>0, <1>4 DEF ReturnNone, Goto, Status, TypeOK
  <2> QED
    BY <1>0, <1>4, <2>1, OneSlot, MoveRefines DEF Budget!Return
<1>5. ASSUME NEW s \in Slots, ReserveCas(s) PROVE Budget!Grant(s)
  <2>1. Status(s) = "asking" /\ Status(s)' = "held"
    BY <1>0, <1>5 DEF ReserveCas, Goto, Status, TypeOK
  <2>2. Budget!Move(s, "asking", "held")
    BY <1>0, <1>5, <2>1, OneSlot, MoveRefines
  <2>3. Budget!ByteSum(Budget!Held, Bytes) + Bytes[s] <= Limit
    BY <1>0, <1>5 DEF ReserveCas
  <2> QED
    BY <2>2, <2>3 DEF Budget!Grant
<1>6. ASSUME NEW s \in Slots, DropGuard(s) PROVE st' = st
  <2>1. Status(s)' = Status(s)
    BY <1>0, <1>6 DEF DropGuard, Goto, Status, TypeOK
  <2> QED
    BY <1>0, <1>6, <2>1, OneSlot, StutterRefines
<1>7. ASSUME NEW s \in Slots, ReleaseCas(s) PROVE Budget!Release(s)
  <2>1. Status(s) = "held" /\ Status(s)' = "out"
    BY <1>0, <1>7 DEF ReleaseCas, Goto, Status, TypeOK
  <2> QED
    BY <1>0, <1>7, <2>1, OneSlot, MoveRefines DEF Budget!Release
<1> QED
  BY <1>1, <1>2, <1>3, <1>4, <1>5, <1>6, <1>7 DEF Next, Budget!Next

\* The lock-free tracker implements the atomic budget.
THEOREM Refinement == Spec => ImplementsBudget
<1>1. IInv /\ [Next]_vars => [Budget!Next]_[s \in Slots |-> Status(s)]
  BY StepRefines
<1> QED
  BY <1>1, InitInv, NextInv, InitRefines, PTL DEF Spec, ImplementsBudget, Budget!Spec
=============================================================================
