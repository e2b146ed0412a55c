----------------------------- MODULE Estimator ------------------------------
(***************************************************************************)
(* Phase B of a round: from the measured samples of a rolling window to a  *)
(* recommendation.  aggregate() is a pure function; here its input grows   *)
(* sample by sample, over the parts of several windows, and rounds apply   *)
(* it again and again, each carrying the recommendation of the last.       *)
(*                                                                         *)
(* Confidence is exact.  The code's Beta survival function at m successes  *)
(* in n is, for these integer arguments, the probability of at most m      *)
(* successes in n + 1 trials, a fraction over Den^(n+1).                   *)
(***************************************************************************)
EXTENDS Integers, Sequences, SequencesExt, FiniteSetsExt, Combinatorics

CONSTANTS
    Ulids,          \* part ULIDs, numbered in their order
    PartStart,      \* each part's window start
    Width,          \* storage.window_seconds
    Duration,       \* the target's rolling window
    MaxEnd,         \* bound: the last round's end
    Hashes,         \* vector hashes
    TrainHashes,    \* the hashes that is_train_member puts in train
    EfGrid,         \* calibration.ef_search
    Num, Den,       \* the target's percentile, Num / Den
    Selection,      \* selection_confidence and approval_confidence,
    Approval,       \*   in units of 1 / Den^3
    GtKeys,         \* the exact answer to every query
    Answers,        \* what the index may answer
    Value,          \* keys of the exact answer that meet the target
    MaxSamples      \* bound: samples of all parts

\* Startup refuses an empty grid; an ef is an integer of PostgreSQL's range.
ASSUME GridAssumption == EfGrid \in Seq(Nat) /\ EfGrid # <<>>

\* And a rolling window that is not a positive multiple of the window.
ASSUME ScopeAssumption ==
    /\ Width \in Nat \ {0} /\ Duration \in Nat \ {0} /\ Duration % Width = 0
    /\ IsFiniteSet(Ulids) /\ Ulids = 1 .. Cardinality(Ulids)
    /\ PartStart \in [Ulids -> Nat]

\* The percentile and the confidences are inside the unit interval.
ASSUME TargetAssumption ==
    /\ Den \in Nat /\ Num \in 1 .. Den - 1
    /\ Selection \in Nat /\ Approval \in Nat
    /\ IsFiniteSet(ToSet(GtKeys))

VARIABLES
    rows,           \* the parts' measured samples, as read
    roundEnd,
    abort,          \* Phase A was given up
    effective       \* effective ef, 0 when there is none

estimator == <<rows, roundEnd, abort, effective>>

-----------------------------------------------------------------------------
(* Scope and coverage.                                                     *)

(* Back from the end, one window at a time, while the start is in range. *)
InScopeWindowStarts(end) ==
    LET before[e \in 0 .. end] ==
            IF e - Width < 0 \/ e - Width < end - Duration THEN {}
            ELSE {e - Width} \cup before[e - Width]
    IN  before[end]

InScopeParts(end) ==
    {u \in Ulids : /\ PartStart[u] >= end - Duration
                    /\ PartStart[u] + Width <= end}

\* Mutant: parts are counted and not windows.
PartsInWindows(end) == Cardinality(InScopeParts(end))

WindowsWithParts(end) ==
    Cardinality({PartStart[u] : u \in InScopeParts(end)}
                \cap InScopeWindowStarts(end))

-----------------------------------------------------------------------------
(* Population.                                                             *)

(* recall_at_k, times k. *)
RecallAtK(gt, returned) == Cardinality(ToSet(gt) \cap ToSet(returned))

SampleOf(u, i) == [part |-> u, index |-> i, hash |-> rows[u][i].hash,
                   recall |-> rows[u][i].recall]

(* The samples of the parts in scope, part by part. *)
Read(end) ==
    FlattenSeq([u \in Ulids |->
        IF u \in InScopeParts(end)
        THEN [i \in DOMAIN rows[u] |-> SampleOf(u, i)] ELSE <<>>])

Earlier(a, b) ==
    a.part < b.part \/ (a.part = b.part /\ a.index < b.index)

\* Mutant: the survivor of a vector is the first one read.
KeepFirstRead(kept, s) ==
    IF \E t \in kept : t.hash = s.hash THEN kept ELSE kept \cup {s}

(* The survivor of a vector gives way to an earlier sample of it. *)
KeepFirst(kept, s) ==
    LET same == {t \in kept : t.hash = s.hash}
    IN  IF same = {} THEN kept \cup {s}
        ELSE IF \E t \in same : Earlier(s, t)
        THEN (kept \ same) \cup {s} ELSE kept

(* One survivor for each vector. *)
Deduplicate(samples) ==
    LET kept[i \in 0 .. Len(samples)] ==
            IF i = 0 THEN {} ELSE KeepFirst(kept[i - 1], samples[i])
    IN  kept[Len(samples)]

Train(pop) == {s \in pop : s.hash \in TrainHashes}
Test(pop) == pop \ Train(pop)

-----------------------------------------------------------------------------
(* Statistics.                                                             *)

\* b to the power of 0, 1, 2...
Powers(b) == LET pow[i \in Nat] == IF i = 0 THEN 1 ELSE b * pow[i - 1] IN pow

(* compliance_confidence: the numerator, over Den^(n+1). *)
Confidence(n, m) ==
    LET term(j) == choose(n + 1, j) * Powers(Num)[j] * Powers(Den - Num)[n + 1 - j]
        sum[j \in 0 .. n] == IF j = 0 THEN term(0) ELSE sum[j - 1] + term(j)
    IN  sum[m]

\* threshold in units of 1 / Den^3
Clears(n, m, threshold) ==
    Confidence(n, m) * Powers(Den)[3] >= threshold * Powers(Den)[n + 1]

Recall(s, ef) == RecallAtK(GtKeys, s.recall[ef])

Successes(samples, ef) ==
    Cardinality({s \in samples : Recall(s, ef) >= Value})

(* quantile_type7 of a sorted sequence at q / d, times d. *)
QuantileType7(sorted, q, d) ==
    LET h == (Len(sorted) - 1) * q
        lower == h \div d
        fraction == h % d
    IN  IF fraction = 0 THEN d * sorted[lower + 1]
        ELSE d * sorted[lower + 1]
             + fraction * (sorted[lower + 2] - sorted[lower + 1])

SortedRecalls(samples, ef) ==
    LET sorted == CHOOSE seq \in SetToSeqs(samples) :
            \A i, j \in DOMAIN seq : i < j => Recall(seq[i], ef) <= Recall(seq[j], ef)
    IN  [i \in DOMAIN sorted |-> Recall(sorted[i], ef)]

-----------------------------------------------------------------------------
(* Selection.                                                              *)

Efs == ToSet(EfGrid)

ClearsTrain(pop, ef) ==
    Clears(Cardinality(Train(pop)), Successes(Train(pop), ef), Selection)

(* select_ef: the largest ef when it does not clear the threshold. *)
SelectEf(pop) ==
    LET top == EfGrid[Len(EfGrid)]
    IN  IF ~ClearsTrain(pop, top) THEN [ef |-> top, ok |-> FALSE]
        ELSE [ef |-> Min({e \in Efs : ClearsTrain(pop, e)}), ok |-> TRUE]

\* Mutant: the candidate is approved on the samples that chose it.
ApprovedOnTrain(pop) ==
    LET s == SelectEf(pop)
    IN  s.ok /\ Clears(Cardinality(Train(pop)), Successes(Train(pop), s.ef),
                       Approval)

Approved(pop) ==
    LET s == SelectEf(pop)
    IN  s.ok /\ Clears(Cardinality(Test(pop)), Successes(Test(pop), s.ef),
                       Approval)

\* Mutant: both splits are held to the stricter threshold.
InsufficientForSelection(pop) ==
    LET n == Cardinality(Train(pop))
        t == Cardinality(Test(pop))
    IN  \/ abort \/ n = 0 \/ t = 0
        \/ ~Clears(n, n, Selection) \/ ~Clears(t, t, Selection)

(* Even if every sample of a split succeeded it could not clear. *)
Insufficient(pop) ==
    LET n == Cardinality(Train(pop))
        t == Cardinality(Test(pop))
    IN  \/ abort \/ n = 0 \/ t = 0
        \/ ~Clears(n, n, Selection) \/ ~Clears(t, t, Approval)

RoundStatus(pop) ==
    IF Insufficient(pop) THEN "insufficient_samples"
    ELSE IF SelectEf(pop).ok THEN "ok" ELSE "target_unmet"

Population == Deduplicate(Read(roundEnd))

(* effective_recommendation; the previous one's fingerprint matches. *)
EffectiveRecommendation(pop) ==
    IF ~Insufficient(pop) /\ Approved(pop) THEN SelectEf(pop).ef ELSE effective

-----------------------------------------------------------------------------
EstimatorInit ==
    /\ rows = [u \in Ulids |-> <<>>]
    /\ roundEnd = Duration
    /\ abort = FALSE
    /\ effective = 0

Total == MapThenSumSet(LAMBDA u : Len(rows[u]), Ulids)

AddSample(u, h, r) ==
    /\ Total < MaxSamples
    /\ rows' = [rows EXCEPT ![u] = Append(@, [hash |-> h, recall |-> r])]
    /\ UNCHANGED <<roundEnd, abort, effective>>

(* aggregate() of this round; the next ends a window later. *)
Aggregate ==
    /\ roundEnd < MaxEnd
    /\ effective' = EffectiveRecommendation(Population)
    /\ roundEnd' = roundEnd + Width
    /\ abort' \in BOOLEAN
    /\ UNCHANGED rows

EstimatorNext ==
    \/ \E u \in Ulids, h \in Hashes, r \in [Efs -> Answers] : AddSample(u, h, r)
    \/ Aggregate

EstimatorSpec == EstimatorInit /\ [][EstimatorNext]_estimator

-----------------------------------------------------------------------------
(* Every window is in the scope of as many rounds as the rolling window has
   windows, the oldest included, and coverage cannot count more windows than
   there are (the code subtracts the one count from the other). *)
WindowsInScope ==
    /\ InScopeWindowStarts(roundEnd)
         = {s \in 0 .. roundEnd : s % Width = 0 /\ s >= roundEnd - Duration
                                  /\ s + Width <= roundEnd}
    /\ Cardinality(InScopeWindowStarts(roundEnd)) = Duration \div Width
    /\ WindowsWithParts(roundEnd) <= Cardinality(InScopeWindowStarts(roundEnd))

(* A vector is one sample of the population, in whichever parts and however
   often it was captured: its first capture.  deduplicate_samples does not
   rest on the order in which a round reads its parts: any other order of the
   same samples gives the same survivors. *)
SurvivorsAreFirst ==
    LET read == ToSet(Read(roundEnd))
        first == {s \in read : \A t \in read : t.hash = s.hash => ~Earlier(t, s)}
    IN  /\ Population = first
        /\ \A order \in SetToSeqs(read) : Deduplicate(order) = first

(* A round that is short of samples could not have approved any ef, however
   its queries had turned out: it is not a target that was missed. *)
InsufficientIsHopeless ==
    ~abort /\ Insufficient(Population) =>
        LET n == Cardinality(Train(Population))
            t == Cardinality(Test(Population))
        IN  \/ \A m \in 0 .. n : ~Clears(n, m, Selection)
            \/ \A m \in 0 .. t : ~Clears(t, m, Approval)
            \/ n = 0 \/ t = 0

(* And one that says the target is unmet could have: with other answers of
   the index these samples would have sufficed. *)
UnmetIsPossible ==
    RoundStatus(Population) = "target_unmet" =>
        LET n == Cardinality(Train(Population))
            t == Cardinality(Test(Population))
        IN  Clears(n, n, Selection) /\ Clears(t, t, Approval)

(* A new recommendation has evidence from vectors that did not choose it, is
   in the grid, and no smaller ef of the grid had train evidence. *)
FreshIsEarned ==
    [][(roundEnd' # roundEnd /\ effective' # effective) =>
         LET pop == Population
             t == Test(pop)
         IN  /\ ~abort
             /\ effective' \in Efs
             /\ ClearsTrain(pop, effective')
             /\ \A e \in Efs : e < effective' => ~ClearsTrain(pop, e)
             /\ t \cap Train(pop) = {}
             /\ Clears(Cardinality(t), Successes(t, effective'), Approval)
      ]_estimator

(* The published quantile divides the sample: no more observations are below
   it than its rank, rounded up, and no more above it than the rest. *)
QuantileDividesSample ==
    \A ef \in Efs :
        LET pop == Population
            n == Cardinality(pop)
            h == (n - 1) * (Den - Num)
            q == QuantileType7(SortedRecalls(pop, ef), Den - Num, Den)
        IN  pop # {} =>
              /\ Cardinality({s \in pop : Den * Recall(s, ef) < q}) * Den
                   < h + Den
              /\ Cardinality({s \in pop : Den * Recall(s, ef) > q})
                   <= n - 1 - h \div Den

(* The population of a round is the first captures in the windows of its
   scope, in whatever order the samples of its parts are put. *)
PopulationIsExact == WindowsInScope /\ SurvivorsAreFirst

(* A round's status and numbers follow from its population: short of samples
   only when no outcome could have helped, unmet only when one could have, and
   a quantile that divides the sample. *)
VerdictIsSound ==
    InsufficientIsHopeless /\ UnmetIsPossible /\ QuantileDividesSample
=============================================================================
