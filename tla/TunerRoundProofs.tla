-------------------------- MODULE TunerRoundProofs --------------------------
(***************************************************************************)
(* What the tuner keeps and publishes, for any number of cohorts, parts,   *)
(* rounds, faults and restarts, and any changes of the configuration:      *)
(* records are whole, computed from pairs of one measurement, consistent   *)
(* with their own recommendation and in the history first, and no usable   *)
(* measurement is made twice.                                              *)
(***************************************************************************)
EXTENDS TunerRound, WellFoundedInduction, TLAPS

\* Where the process is inside run_cohort_round, in a round, and publishing.
InCohort == {"list", "measure", "truth", "sweep", "previous", "history", "latest"}
InRound == InCohort \cup {"round"}
Publishing == {"history", "latest"}

-----------------------------------------------------------------------------
(* What is said of one record.                                             *)

OnePair(r) == \A u \in r.used : u.truthAt = u.sweepAt /\ SameIndex(u.cfg, r.cfg)

Whole(r) ==
    /\ \A u \in r.used : u.part \in r.listed
    /\ \A u, v \in r.used : u.part = v.part => u = v
    /\ ~r.error => \A p \in r.listed : \E u \in r.used : u.part = p
    /\ r.error => r.verdict = "insufficient_samples"

Consistent(r) ==
    r.effective # None =>
        /\ SameFingerprint(r.effective.cfg, r.cfg)
        /\ r.effective.source <= r.end /\ r.effective.at <= r.at
        /\ ~r.effective.carried => r.effective.at = r.at /\ r.verdict = "ok_approved"

Good(r) == r \in RoundRecords /\ OnePair(r) /\ Whole(r) /\ Consistent(r)

-----------------------------------------------------------------------------
(* The inductive invariant.                                                *)

\* Types, and where the process has what.
Places ==
    /\ clock \in 0..MaxTime /\ rounds \in 0..MaxRounds
    /\ starts \in 0..MaxStarts /\ faults \in 0..MaxFaults
    /\ parts \subseteq Parts
    /\ pc \in InRound \cup {"off", "idle"}
    /\ cancelled \in BOOLEAN /\ db \in {"connected", "unavailable"}
    /\ config = None \/ config \in [Cohorts -> Configs]
    /\ pc # "off" => config \in [Cohorts -> Configs]
    /\ end \in 0..MaxTime /\ todo \subseteq Cohorts
    /\ cohort \in Cohorts \cup {None}
    /\ pc \in InRound => rounds >= 1
    /\ pc \in InCohort => cohort \in Cohorts \ todo

\* The objects of the measurements.
Pairs == truth \in [Parts -> Files] /\ sweep \in [Parts -> Files]

\* The calibrations are records, each of them good.
Calibrations ==
    /\ history = [c \in Cohorts |-> [e \in 0..MaxTime |-> history[c][e]]]
    /\ latest = [c \in Cohorts |-> latest[c]]
    /\ \A c \in Cohorts, e \in 0..MaxTime : history[c][e] # None => Good(history[c][e])
    /\ \A c \in Cohorts : latest[c] # None => Good(latest[c])

\* The cohort's work: what is measured and what is pending make up the list.
Work ==
    /\ listed \subseteq Parts /\ pending \subseteq listed
    /\ abort \in BOOLEAN
    /\ pc \in {"off", "idle", "round", "list"} => listed = {}
    /\ pc \in {"truth", "sweep"} => pending # {}
    /\ pc \in {"previous", "history", "latest"} => pending = {}
    /\ pc \notin {"measure", "previous", "history", "latest"} => ~abort
    /\ abort => pending = {}
    /\ \A p \in listed : PartCohort[p] = cohort
    /\ compatible \subseteq Intermediates
    /\ \A u \in compatible : /\ u.part \in listed \ pending
                             /\ u.truthAt = u.sweepAt
                             /\ SameIndex(u.cfg, config[cohort])
    /\ \A u, v \in compatible : u.part = v.part => u = v
    /\ ~abort => \A p \in listed \ pending : \E u \in compatible : u.part = p

\* A pair this configuration can use.
UsablePair(p, cfg) ==
    truth[p] # None /\ truth[p] = sweep[p] /\ SameIndex(truth[p].cfg, cfg)

\* No part that is pending, or will be when the round comes to its cohort, was
\* measured in this round.
Unmeasured ==
    /\ \A p \in pending : /\ ~UsablePair(p, config[cohort])
                          /\ sweep[p] # None => sweep[p].at < rounds
    /\ \A p \in Parts : sweep[p] # None =>
          /\ sweep[p].at <= rounds
          /\ PartCohort[p] \in todo \/ (pc = "list" /\ PartCohort[p] = cohort)
               => sweep[p].at < rounds

\* Rounds and their ends only go up, and a round comes to a cohort once.
Times ==
    /\ end <= Aligned(clock)
    /\ \A c \in Cohorts : latest[c] # None =>
          /\ latest[c].at <= rounds
          /\ c \in todo \/ (pc \in InCohort /\ c = cohort) => latest[c].at < rounds
          /\ latest[c].end <= Aligned(clock)
          /\ pc \in InRound => latest[c].end <= end

\* Unless its body is unreadable, the previous recommendation is not dropped.
Keeps(r, previous) ==
    /\ "body" \notin FaultKinds
    /\ previous # None /\ previous.effective # None
    /\ SameFingerprint(r.cfg, previous.cfg)
    => r.effective # None

\* The record being published.
Output ==
    /\ pc \notin Publishing => output = None
    /\ pc \in Publishing => /\ Good(output)
                            /\ output.end = end /\ output.at = rounds
                            /\ Keeps(output, latest[cohort])
    /\ pc = "latest" => history[cohort][end] = output

IInv ==
    Places /\ Pairs /\ Calibrations /\ Work /\ Unmeasured /\ Times /\ Output
      /\ HistoryFirst

USE TunerAssumption

-----------------------------------------------------------------------------
(* Operators.                                                              *)

\* A set of numbers that is not empty has its smallest member.
LEMMA MinIsMember ==
    ASSUME NEW S \in SUBSET Nat, S # {}
    PROVE  Min(S) \in S
<1> DEFINE R == OpToRel(<, Nat)
<1>1. IsWellFoundedOn(R, Nat)
  BY NatLessThanWellFounded
<1>2. PICK x \in S : \A y \in S : ~ (<<y, x>> \in R)
  <2> HIDE DEF R
  <2> QED
    BY <1>1, WFMin
<1>3. \A m, n \in Nat : m < n => <<m, n>> \in R
  BY Zenon DEF OpToRel
<1>4. \A y \in S : x <= y
  <2> HIDE DEF R
  <2> TAKE y \in S
  <2>1. x \in Nat /\ y \in Nat
    OBVIOUS
  <2>2. ~(y < x)
    BY <1>2, <1>3, <2>1, Zenon
  <2> QED
    BY <2>1, <2>2
<1> QED
  BY <1>4 DEF Min

\* The window a time lies in starts no later than it.
LEMMA AlignedType ==
    ASSUME NEW t \in Nat
    PROVE  Aligned(t) \in Nat /\ Aligned(t) <= t
<1> DEFINE p == t \div WindowSeconds
           r == t % WindowSeconds
<1>1. p \in Nat /\ r \in 0 .. WindowSeconds - 1 /\ t = p * WindowSeconds + r
  OBVIOUS
<1>2. p * WindowSeconds \in Nat
  BY <1>1
<1> QED
  BY <1>1, <1>2 DEF Aligned

\* Windows start later as time passes.
LEMMA AlignedGrows ==
    ASSUME NEW t \in Nat
    PROVE  Aligned(t) <= Aligned(t + 1)
<1> DEFINE w == WindowSeconds
           p == t \div w
           r == t % w
           q == (t + 1) \div w
           s == (t + 1) % w
<1>1. p \in Int /\ r \in 0 .. w - 1 /\ t = p * w + r
  OBVIOUS
<1>2. q \in Int /\ s \in 0 .. w - 1 /\ t + 1 = q * w + s
  OBVIOUS
<1>3. Aligned(t) = p * w /\ Aligned(t + 1) = q * w
  BY <1>1, <1>2 DEF Aligned
<1> HIDE DEF p, q, r, s
<1>4. p <= q
  <2> SUFFICES ASSUME p >= q + 1 PROVE FALSE
    BY <1>1, <1>2
  <2>1. (p - q - 1) * w >= 0
    BY <1>1, <1>2
  <2>2. (p - q) * w = s - r - 1
    BY <1>1, <1>2
  <2>3. (p - q - 1) * w = (p - q) * w - w
    BY <1>1, <1>2
  <2> QED
    BY <1>1, <1>2, <2>1, <2>2, <2>3
<1>5. (q - p) * w >= 0 /\ (q - p) * w = q * w - p * w
  BY <1>1, <1>2, <1>4
<1> QED
  BY <1>1, <1>2, <1>3, <1>5

\* The part being measured is one of the pending ones.
LEMMA PendingPart ==
    ASSUME Work, pending # {}
    PROVE  Min(pending) \in pending /\ Min(pending) \in Parts
  BY MinIsMember DEF Work

-----------------------------------------------------------------------------
(* Places.                                                                 *)

LEMMA PlacesKept == IInv /\ Next => Places'
<1> SUFFICES ASSUME IInv, Next PROVE Places'
  OBVIOUS
<1> USE DEF IInv, Places, InRound, InCohort, storeVars, cohortVars, roundVars,
            processVars, boundVars
<1>1. CASE Tick
  BY <1>1 DEF Tick
<1>2. ASSUME NEW p \in Parts, PartArrives(p) PROVE Places'
  BY <1>2 DEF PartArrives
<1>3. CASE Start
  BY <1>3 DEF Start, Connects, Fault
<1>4. CASE StartRound
  <2>1. Aligned(clock) \in 0..MaxTime
    BY AlignedType
  <2> QED
    BY <1>4, <2>1 DEF StartRound, Connects, Fault
<1>5. CASE Cancel
  BY <1>5 DEF Cancel
<1>6. CASE ProcessEnds
  <2>1. cancelled' \in BOOLEAN
    BY <1>6, Zenon DEF ProcessEnds
  <2>2. /\ pc' = "off" /\ db' = "unavailable" /\ config' = None
        /\ end' = 0 /\ todo' = {} /\ cohort' = None
        /\ UNCHANGED <<parts, clock, rounds, starts, faults>>
    BY <1>6, Zenon DEF ProcessEnds, LeaveCohort
  <2> QED
    BY <2>1, <2>2
<1>7. CASE NextCohort
  <2>1. Min(todo) \in todo
    BY <1>7, MinIsMember DEF NextCohort
  <2> QED
    BY <1>7, <2>1 DEF NextCohort
<1>8. CASE RoundEnds
  BY <1>8 DEF RoundEnds
<1>9. CASE ReadFails
  BY <1>9 DEF ReadFails, Fault, CohortFails, LeaveCohort
<1>10. CASE List
  BY <1>10 DEF List
<1>11. CASE MeasureCompletes
  BY <1>11 DEF MeasureCompletes
<1>12. CASE TableSmallerThanK
  BY <1>12 DEF TableSmallerThanK
<1>13. CASE ConnectionUnavailable
  BY <1>13 DEF ConnectionUnavailable, Fault, CohortFails, LeaveCohort
<1>14. CASE PutTruth
  BY <1>14 DEF PutTruth
<1>15. CASE PutSweep
  BY <1>15 DEF PutSweep
<1>16. CASE AllMeasured
  BY <1>16 DEF AllMeasured
<1>17. CASE LoadPreviousAndAggregate
  BY <1>17 DEF LoadPreviousAndAggregate, Fault
<1>18. CASE PutHistory
  BY <1>18 DEF PutHistory
<1>19. CASE PutLatest
  BY <1>19 DEF PutLatest, LeaveCohort
<1>20. CASE PutFails
  BY <1>20 DEF PutFails, Fault, CohortFails, LeaveCohort
<1> QED
  BY <1>1, <1>2, <1>3, <1>4, <1>5, <1>6, <1>7, <1>8, <1>9, <1>10, <1>11, <1>12,
     <1>13, <1>14, <1>15, <1>16, <1>17, <1>18, <1>19, <1>20
  DEF Next, RoundStep, Crash, SeesCancellation

-----------------------------------------------------------------------------
(* The store.                                                              *)

\* What the measurement of a part writes is a file.
LEMMA MeasuredType ==
    ASSUME Places, pc \in InCohort
    PROVE  Measured \in Files /\ Measured.cfg = config[cohort] /\ Measured.at = rounds
<1>1. config[cohort] \in Configs /\ rounds \in 1..MaxRounds
  BY DEF Places, InRound, InCohort
<1> QED
  BY <1>1 DEF Measured, Metadata, Files

\* Only the PUTs of a part's pair write measurements, and only the part's own.
LEMMA PairsWritten ==
    ASSUME IInv, Next
    PROVE  \/ UNCHANGED <<truth, sweep>>
           \/ /\ pc = "truth" /\ UNCHANGED sweep
              /\ truth' = [truth EXCEPT ![Min(pending)] = Measured]
           \/ /\ pc = "sweep" /\ UNCHANGED truth
              /\ sweep' = [sweep EXCEPT ![Min(pending)] = Measured]
<1> USE DEF storeVars
<1>1. CASE PutTruth
  BY <1>1 DEF PutTruth
<1>2. CASE PutSweep
  BY <1>2 DEF PutSweep
<1>3. CASE PutFails
  BY <1>3 DEF PutFails
<1>4. CASE Tick \/ Start \/ StartRound \/ Cancel \/ Crash \/ SeesCancellation
  BY <1>4 DEF Tick, Start, StartRound, Cancel, Crash, SeesCancellation, ProcessEnds
<1>5. ASSUME NEW p \in Parts, PartArrives(p) PROVE UNCHANGED <<truth, sweep>>
  BY <1>5 DEF PartArrives
<1>6. CASE NextCohort \/ RoundEnds \/ ReadFails \/ List
  BY <1>6 DEF NextCohort, RoundEnds, ReadFails, List
<1>7. CASE MeasureCompletes \/ TableSmallerThanK \/ ConnectionUnavailable \/ AllMeasured
  BY <1>7 DEF MeasureCompletes, TableSmallerThanK, ConnectionUnavailable, AllMeasured
<1>8. CASE LoadPreviousAndAggregate \/ PutHistory \/ PutLatest
  BY <1>8 DEF LoadPreviousAndAggregate, PutHistory, PutLatest
<1> QED
  BY <1>1, <1>2, <1>3, <1>4, <1>5, <1>6, <1>7, <1>8 DEF Next, RoundStep

LEMMA PairsKept == IInv /\ Next => Pairs'
<1> SUFFICES ASSUME IInv, Next PROVE Pairs'
  OBVIOUS
<1>1. CASE UNCHANGED <<truth, sweep>>
  BY <1>1 DEF IInv, Pairs
<1>2. CASE pc \in {"truth", "sweep"}
  <2>1. Measured \in Files
    BY <1>2, MeasuredType DEF IInv, InCohort
  <2> QED
    BY <2>1, PairsWritten DEF IInv, Pairs
<1> QED
  BY <1>1, <1>2, PairsWritten

\* Only the PUTs of a finished round write calibrations, and only the round's.
LEMMA CalibrationsWritten ==
    ASSUME IInv, Next
    PROVE  \/ UNCHANGED <<history, latest>>
           \/ /\ pc = "history" /\ UNCHANGED latest
              /\ history' = [history EXCEPT ![cohort][end] = output]
           \/ /\ pc = "latest" /\ UNCHANGED history
              /\ latest' = [latest EXCEPT ![cohort] = output]
              /\ pc' = "round"
<1> USE DEF storeVars
<1>1. CASE PutTruth
  BY <1>1 DEF PutTruth
<1>2. CASE PutSweep
  BY <1>2 DEF PutSweep
<1>3. CASE PutFails
  BY <1>3 DEF PutFails, CohortFails
<1>4. CASE Tick \/ Start \/ StartRound \/ Cancel \/ Crash \/ SeesCancellation
  BY <1>4 DEF Tick, Start, StartRound, Cancel, Crash, SeesCancellation, ProcessEnds
<1>5. ASSUME NEW p \in Parts, PartArrives(p) PROVE UNCHANGED <<history, latest>>
  BY <1>5 DEF PartArrives
<1>6. CASE NextCohort \/ RoundEnds \/ ReadFails \/ List
  BY <1>6 DEF NextCohort, RoundEnds, ReadFails, List
<1>7. CASE MeasureCompletes \/ TableSmallerThanK \/ ConnectionUnavailable \/ AllMeasured
  BY <1>7 DEF MeasureCompletes, TableSmallerThanK, ConnectionUnavailable, AllMeasured
<1>8. CASE LoadPreviousAndAggregate \/ PutHistory \/ PutLatest
  BY <1>8 DEF LoadPreviousAndAggregate, PutHistory, PutLatest
<1> QED
  BY <1>1, <1>2, <1>3, <1>4, <1>5, <1>6, <1>7, <1>8 DEF Next, RoundStep

\* The history after the PUT of a round.
LEMMA HistoryWritten ==
    ASSUME Calibrations, cohort \in Cohorts, end \in 0..MaxTime,
           history' = [history EXCEPT ![cohort][end] = output]
    PROVE  /\ history' = [c \in Cohorts |-> [e \in 0..MaxTime |-> history'[c][e]]]
           /\ \A c \in Cohorts, e \in 0..MaxTime :
                 history'[c][e] = IF c = cohort /\ e = end THEN output ELSE history[c][e]
<1> DEFINE H(c) == [e \in 0..MaxTime |-> history[c][e]]
           N(c) == IF c = cohort THEN [H(cohort) EXCEPT ![end] = output] ELSE H(c)
<1>1. history = [c \in Cohorts |-> H(c)]
  BY DEF Calibrations
<1>2. \A c \in Cohorts : history[c] = H(c)
  BY <1>1
<1>3. history' = [c \in Cohorts |-> N(c)]
  <2>1. history' = [history EXCEPT ![cohort] = [history[cohort] EXCEPT ![end] = output]]
    OBVIOUS
  <2>2. DOMAIN history = Cohorts
    BY <1>1
  <2> HIDE DEF H
  <2>3. history' = [c \in Cohorts |-> IF c = cohort
                                      THEN [history[cohort] EXCEPT ![end] = output]
                                      ELSE history[c]]
    BY <2>1, <2>2
  <2> QED
    BY <1>2, <2>3
<1>4. ASSUME NEW c \in Cohorts
      PROVE  N(c) = [e \in 0..MaxTime |-> IF c = cohort /\ e = end THEN output
                                          ELSE history[c][e]]
  OBVIOUS
<1>5. \A c \in Cohorts, e \in 0..MaxTime :
         history'[c][e] = IF c = cohort /\ e = end THEN output ELSE history[c][e]
  <2> HIDE DEF N
  <2> QED
    BY <1>3, <1>4
<1>6. \A c \in Cohorts : N(c) = [e \in 0..MaxTime |-> history'[c][e]]
  <2> HIDE DEF N
  <2> QED
    BY <1>4, <1>5
<1>7. history' = [c \in Cohorts |-> [e \in 0..MaxTime |-> history'[c][e]]]
  <2> DEFINE K(c) == [e \in 0..MaxTime |-> history'[c][e]]
  <2>1. \A c \in Cohorts : N(c) = K(c)
    BY <1>6
  <2> HIDE DEF N, K
  <2>2. history' = [c \in Cohorts |-> K(c)]
    BY <1>3, <2>1
  <2> QED
    BY <2>2 DEF K
<1> HIDE DEF N
<1> QED
  BY <1>5, <1>7

\* latest.json after its PUT.
LEMMA LatestWritten ==
    ASSUME Calibrations, cohort \in Cohorts,
           latest' = [latest EXCEPT ![cohort] = output]
    PROVE  /\ latest' = [c \in Cohorts |-> latest'[c]]
           /\ \A c \in Cohorts : latest'[c] = IF c = cohort THEN output ELSE latest[c]
  BY DEF Calibrations

LEMMA CalibrationsKept == IInv /\ Next => Calibrations'
<1> SUFFICES ASSUME IInv, Next PROVE Calibrations'
  OBVIOUS
<1>1. CASE UNCHANGED <<history, latest>>
  BY <1>1 DEF IInv, Calibrations
<1>2. pc \in Publishing => cohort \in Cohorts /\ end \in 0..MaxTime /\ Good(output)
  BY DEF IInv, Places, Output, Publishing, InCohort
<1>3. CASE /\ pc = "history" /\ UNCHANGED latest
           /\ history' = [history EXCEPT ![cohort][end] = output]
  BY <1>2, <1>3, HistoryWritten DEF IInv, Calibrations, Publishing
<1>4. CASE /\ pc = "latest" /\ UNCHANGED history
           /\ latest' = [latest EXCEPT ![cohort] = output]
  BY <1>2, <1>4, LatestWritten DEF IInv, Calibrations, Publishing
<1> QED
  BY <1>1, <1>3, <1>4, CalibrationsWritten

-----------------------------------------------------------------------------
(* The cohort's work.                                                      *)

\* Outside of a cohort there is no work.
LEMMA NoWork ==
    ASSUME LeaveCohort, pc' \in {"off", "round"}
    PROVE  Work'
<1>1. abort' \in BOOLEAN /\ ~abort'
  BY Zenon DEF LeaveCohort
<1>2. listed' = {} /\ pending' = {} /\ compatible' = {}
  BY Zenon DEF LeaveCohort
<1> QED
  BY <1>1, <1>2 DEF Work

\* A pair that can be used is one measurement for the cohort's index.
LEMMA UsableIntermediate ==
    ASSUME Pairs, NEW p \in Parts, NEW cfg, Usable(p, cfg)
    PROVE  LET i == Intermediate(p, truth[p], sweep[p])
           IN  /\ i \in Intermediates /\ i.part = p
               /\ i.truthAt = i.sweepAt /\ SameIndex(i.cfg, cfg)
<1>1. truth[p] \in [cfg : Configs, at : 1..MaxRounds] /\ truth[p] = sweep[p]
  BY DEF Pairs, Files, Usable, Readable
<1> QED
  BY <1>1 DEF Intermediate, Intermediates, Usable, SameMeasurement, SameIndex

\* So is the pair that was just written.
LEMMA MeasuredIntermediate ==
    ASSUME Places, pc \in InCohort, NEW p \in Parts
    PROVE  LET i == Intermediate(p, Measured, Measured)
           IN  /\ i \in Intermediates /\ i.part = p
               /\ i.truthAt = i.sweepAt /\ SameIndex(i.cfg, config[cohort])
<1>1. config[cohort] \in Configs /\ rounds \in 1..MaxRounds
  BY DEF Places, InRound, InCohort
<1> QED
  BY <1>1 DEF Intermediate, Intermediates, Measured, Metadata, SameIndex

LEMMA WorkKept == IInv /\ Next => Work'
<1> SUFFICES ASSUME IInv, Next PROVE Work'
  OBVIOUS
<1> USE DEF IInv, storeVars, cohortVars, roundVars, processVars, boundVars
<1>1. CASE Tick
  BY <1>1 DEF Tick, Work
<1>2. ASSUME NEW p \in Parts, PartArrives(p) PROVE Work'
  BY <1>2 DEF PartArrives, Work
<1>3. CASE Start
  BY <1>3 DEF Start, Work
<1>4. CASE StartRound
  BY <1>4 DEF StartRound, Work
<1>5. CASE Cancel
  BY <1>5 DEF Cancel, Work
<1>6. CASE ProcessEnds
  BY <1>6, NoWork DEF ProcessEnds
<1>7. CASE NextCohort
  BY <1>7 DEF NextCohort, Work
<1>8. CASE RoundEnds
  BY <1>8 DEF RoundEnds, Work
<1>9. CASE ReadFails \/ ConnectionUnavailable \/ PutFails
  BY <1>9, NoWork DEF ReadFails, ConnectionUnavailable, PutFails, CohortFails
<1>10. CASE List
  <2> DEFINE cfg == config[cohort]
             I(p) == Intermediate(p, truth[p], sweep[p])
             used == {q \in listed' : Usable(q, cfg)}
  <2>1. /\ listed' \subseteq Parts /\ \A p \in listed' : PartCohort[p] = cohort
        /\ pc' = "measure" /\ UNCHANGED <<cohort, config, abort>> /\ ~abort
        /\ abort \in BOOLEAN
    BY <1>10 DEF List, Work, Places
  <2>2. compatible' = {I(p) : p \in used}
    BY <1>10 DEF List
  <2>3. pending' = {p \in listed' : ~Usable(p, cfg)}
    BY <1>10 DEF List
  <2>4. \A p \in used : /\ I(p) \in Intermediates /\ I(p).part = p
                        /\ I(p).truthAt = I(p).sweepAt /\ SameIndex(I(p).cfg, cfg)
    BY <2>1, UsableIntermediate
  <2>5. used = listed' \ pending'
    BY <2>3
  <2> HIDE DEF I, used
  <2>6. compatible' \subseteq Intermediates
    BY <2>2, <2>4
  <2>7. \A u \in compatible' : u.part \in used /\ u.truthAt = u.sweepAt
                               /\ SameIndex(u.cfg, cfg) /\ u = I(u.part)
    BY <2>2, <2>4
  <2>8. \A p \in used : \E u \in compatible' : u.part = p
    BY <2>2, <2>4
  <2> QED
    BY <2>1, <2>3, <2>5, <2>6, <2>7, <2>8 DEF Work
<1>11. CASE MeasureCompletes
  BY <1>11 DEF MeasureCompletes, Work
<1>12. CASE TableSmallerThanK
  <2>1. abort' \in BOOLEAN /\ abort'
    BY <1>12, Zenon DEF TableSmallerThanK
  <2> QED
    BY <1>12, <2>1 DEF TableSmallerThanK, Work
<1>13. CASE PutTruth
  BY <1>13 DEF PutTruth, Work
<1>14. CASE PutSweep
  <2> DEFINE m == Min(pending)
             i == Intermediate(m, Measured, Measured)
  <2>1. m \in pending /\ m \in Parts /\ pc = "sweep"
    BY <1>14, PendingPart DEF PutSweep, Work
  <2>2. /\ i \in Intermediates /\ i.part = m
        /\ i.truthAt = i.sweepAt /\ SameIndex(i.cfg, config[cohort])
    BY <2>1, MeasuredIntermediate DEF InCohort
  <2>3. /\ compatible' = compatible \cup {i} /\ pending' = pending \ {m}
        /\ pc' = "measure" /\ UNCHANGED <<cohort, config, listed, abort>>
    BY <1>14 DEF PutSweep
  <2> HIDE DEF m, i
  <2>4. ~abort /\ \A u \in compatible : u.part # m
    BY <2>1 DEF Work
  <2>5. \A u \in compatible' : /\ u.part \in listed' \ pending'
                               /\ u.truthAt = u.sweepAt
                               /\ SameIndex(u.cfg, config'[cohort'])
    BY <2>1, <2>2, <2>3 DEF Work
  <2>6. \A u, v \in compatible' : u.part = v.part => u = v
    BY <2>2, <2>3, <2>4 DEF Work
  <2>7. \A p \in listed' \ pending' : \E u \in compatible' : u.part = p
    BY <2>2, <2>3, <2>4 DEF Work
  <2>8. /\ listed' \subseteq Parts /\ pending' \subseteq listed' /\ abort' \in BOOLEAN
        /\ ~abort' /\ compatible' \subseteq Intermediates
        /\ \A p \in listed' : PartCohort[p] = cohort'
    BY <2>2, <2>3, <2>4 DEF Work
  <2> QED
    BY <2>3, <2>5, <2>6, <2>7, <2>8 DEF Work
<1>15. CASE AllMeasured
  BY <1>15 DEF AllMeasured, Work
<1>16. CASE LoadPreviousAndAggregate
  BY <1>16 DEF LoadPreviousAndAggregate, Work
<1>17. CASE PutHistory
  BY <1>17 DEF PutHistory, Work
<1>18. CASE PutLatest
  BY <1>18, NoWork DEF PutLatest
<1> QED
  BY <1>1, <1>2, <1>3, <1>4, <1>5, <1>6, <1>7, <1>8, <1>9, <1>10, <1>11, <1>12,
     <1>13, <1>14, <1>15, <1>16, <1>17, <1>18
  DEF Next, RoundStep, Crash, SeesCancellation

-----------------------------------------------------------------------------
(* Measurements are made once.                                             *)

\* When a cohort is left the objects of its pairs may have been written; its
\* turn in this round is over.
LEMMA LeavingMeasures ==
    ASSUME IInv, Next, LeaveCohort, pc' \in {"off", "round"},
           todo' \subseteq todo, UNCHANGED rounds
    PROVE  Unmeasured'
<1>1. pending' = {}
  BY Zenon DEF LeaveCohort
<1>2. ASSUME NEW p \in Parts, sweep'[p] # None
      PROVE  /\ sweep'[p].at <= rounds
             /\ PartCohort[p] \in todo' => sweep'[p].at < rounds
  <2>1. CASE UNCHANGED sweep
    BY <1>2, <2>1 DEF IInv, Unmeasured
  <2>2. CASE pc = "sweep" /\ sweep' = [sweep EXCEPT ![Min(pending)] = Measured]
    <3>1. Min(pending) \in pending /\ Min(pending) \in Parts
      BY <2>2, PendingPart DEF IInv, Work
    <3>a. PartCohort[Min(pending)] = cohort
      BY <3>1 DEF IInv, Work
    <3>b. cohort \notin todo /\ rounds \in Nat
      BY <2>2 DEF IInv, Places, InCohort
    <3>c. Measured.at = rounds
      BY <2>2, MeasuredType DEF IInv, InCohort
    <3>2. PartCohort[Min(pending)] \notin todo /\ Measured.at = rounds
          /\ rounds \in Nat
      BY <3>a, <3>b, <3>c
    <3>3. CASE p = Min(pending)
      BY <2>2, <3>1, <3>2, <3>3 DEF IInv, Pairs
    <3>4. CASE p # Min(pending)
      BY <1>2, <2>2, <3>4 DEF IInv, Pairs, Unmeasured
    <3> QED
      BY <3>3, <3>4
  <2> QED
    BY <2>1, <2>2, PairsWritten
<1> QED
  BY <1>1, <1>2 DEF Unmeasured

LEMMA UnmeasuredKept == IInv /\ Next => Unmeasured'
<1> SUFFICES ASSUME IInv, Next PROVE Unmeasured'
  OBVIOUS
<1> USE DEF IInv, storeVars, cohortVars, roundVars, processVars, boundVars
<1>0. pc \in {"off", "idle", "round"} => pending = {}
  BY DEF Work
<1>t. \A p \in Parts : sweep[p] # None => sweep[p].at \in Nat
  BY DEF Pairs, Files
<1>r. rounds \in Nat
  BY DEF Places
<1>1. CASE Tick
  BY <1>1 DEF Tick, Unmeasured, UsablePair
<1>2. ASSUME NEW p \in Parts, PartArrives(p) PROVE Unmeasured'
  BY <1>2 DEF PartArrives, Unmeasured, UsablePair
<1>3. CASE Start
  BY <1>0, <1>3 DEF Start, Unmeasured, UsablePair
<1>4. CASE StartRound
  <2>1. pending' = {} /\ rounds' = rounds + 1 /\ UNCHANGED sweep
    BY <1>0, <1>4 DEF StartRound
  <2> QED
    BY <1>t, <1>r, <2>1 DEF Unmeasured
<1>5. CASE Cancel
  BY <1>5 DEF Cancel, Unmeasured, UsablePair
<1>6. CASE ProcessEnds
  BY <1>6, LeavingMeasures DEF ProcessEnds
<1>7. CASE NextCohort
  <2>1. Min(todo) \in todo
    BY <1>7, MinIsMember DEF NextCohort, Places
  <2> QED
    BY <1>0, <1>7, <2>1 DEF NextCohort, Unmeasured
<1>8. CASE RoundEnds
  BY <1>8 DEF RoundEnds, Unmeasured, UsablePair
<1>9. CASE ReadFails \/ ConnectionUnavailable \/ PutFails
  BY <1>9, LeavingMeasures DEF ReadFails, ConnectionUnavailable, PutFails, CohortFails
<1>10. CASE List
  <2>1. ASSUME NEW p \in pending'
        PROVE  p \in Parts /\ PartCohort[p] = cohort /\ ~Usable(p, config[cohort])
    BY <1>10 DEF List, Places
  <2>2. UNCHANGED <<cohort, config, truth, sweep, todo, rounds>> /\ pc = "list"
        /\ pc' = "measure"
    BY <1>10 DEF List
  <2>3. ASSUME NEW p \in pending'
        PROVE  /\ ~(UsablePair(p, config[cohort])')
               /\ sweep'[p] # None => sweep'[p].at < rounds'
    BY <2>1, <2>2 DEF Unmeasured, UsablePair, Usable, Readable, SameIndex, SameMeasurement
  <2> QED
    BY <2>2, <2>3 DEF Unmeasured
<1>11. CASE MeasureCompletes
  BY <1>11 DEF MeasureCompletes, Unmeasured, UsablePair
<1>12. CASE TableSmallerThanK
  BY <1>12 DEF TableSmallerThanK, Unmeasured
<1>13. CASE PutTruth
  <2> DEFINE m == Min(pending)
  <2>1. m \in pending /\ m \in Parts /\ pc = "truth"
    BY <1>13, PendingPart DEF PutTruth, Work
  <2>2. Measured.at = rounds
    BY <2>1, MeasuredType DEF InCohort
  <2>3. /\ truth' = [truth EXCEPT ![m] = Measured]
        /\ UNCHANGED <<sweep, pending, cohort, config, todo, rounds>> /\ pc' = "sweep"
    BY <1>13 DEF PutTruth
  <2> HIDE DEF m
  <2>4. \A p \in Parts : truth'[p] = IF p = m THEN Measured ELSE truth[p]
    BY <2>3 DEF Pairs
  <2>5. ASSUME NEW p \in pending PROVE ~(UsablePair(p, config[cohort])')
    <3>1. p \in Parts /\ (sweep[p] # None => sweep[p].at < rounds /\ sweep[p].at \in Nat)
      BY <1>t DEF Unmeasured, Work
    <3>2. CASE p = m
      <4>1. truth'[p] = Measured /\ sweep'[p] = sweep[p]
        BY <2>3, <2>4, <3>1, <3>2
      <4>2. sweep[p] # None => sweep[p] # Measured
        BY <1>r, <2>2, <3>1
      <4> QED
        BY <4>1, <4>2 DEF UsablePair
    <3>3. CASE p # m
      BY <2>3, <2>4, <3>1, <3>3 DEF UsablePair, Unmeasured
    <3> QED
      BY <3>2, <3>3
  <2> QED
    BY <2>1, <2>3, <2>5 DEF Unmeasured
<1>14. CASE PutSweep
  <2> DEFINE m == Min(pending)
  <2>1. m \in pending /\ m \in Parts /\ pc = "sweep"
    BY <1>14, PendingPart DEF PutSweep, Work
  <2>2. Measured.at = rounds /\ PartCohort[m] = cohort /\ cohort \notin todo
    BY <2>1, MeasuredType DEF InCohort, Work, Places
  <2>3. /\ sweep' = [sweep EXCEPT ![m] = Measured] /\ pending' = pending \ {m}
        /\ UNCHANGED <<truth, cohort, config, todo, rounds>> /\ pc' = "measure"
    BY <1>14 DEF PutSweep
  <2> HIDE DEF m
  <2>4. \A p \in Parts : sweep'[p] = IF p = m THEN Measured ELSE sweep[p]
    BY <2>3 DEF Pairs
  <2>5. ASSUME NEW p \in pending'
        PROVE  /\ ~(UsablePair(p, config[cohort])')
               /\ sweep'[p] # None => sweep'[p].at < rounds'
    <3>1. p \in pending /\ p \in Parts /\ p # m
      BY <2>3 DEF Work
    <3>2. sweep'[p] = sweep[p]
      BY <2>4, <3>1
    <3> QED
      BY <2>3, <3>1, <3>2 DEF UsablePair, Unmeasured
  <2>6. ASSUME NEW p \in Parts, sweep'[p] # None
        PROVE  /\ sweep'[p].at <= rounds
               /\ PartCohort[p] \in todo => sweep'[p].at < rounds
    <3>1. CASE p = m
      BY <1>r, <2>2, <2>4, <3>1
    <3>2. CASE p # m
      BY <2>4, <2>6, <3>2 DEF Unmeasured
    <3> QED
      BY <3>1, <3>2
  <2> QED
    BY <2>3, <2>5, <2>6 DEF Unmeasured
<1>15. CASE AllMeasured
  BY <1>15 DEF AllMeasured, Unmeasured, UsablePair
<1>16. CASE LoadPreviousAndAggregate
  BY <1>16 DEF LoadPreviousAndAggregate, Unmeasured, UsablePair
<1>17. CASE PutHistory
  BY <1>17 DEF PutHistory, Unmeasured, UsablePair
<1>18. CASE PutLatest
  BY <1>18, LeavingMeasures DEF PutLatest
<1> QED
  BY <1>1, <1>2, <1>3, <1>4, <1>5, <1>6, <1>7, <1>8, <1>9, <1>10, <1>11, <1>12,
     <1>13, <1>14, <1>15, <1>16, <1>17, <1>18
  DEF Next, RoundStep, Crash, SeesCancellation

-----------------------------------------------------------------------------
(* The aggregated record.                                                  *)

\* A block that may be carried stays a block of the same configuration and
\* round, marked as carried.
LEMMA CarriedBlock ==
    ASSUME NEW b \in Effectives
    PROVE  LET k == [b EXCEPT !.carried = TRUE]
           IN  /\ k \in Effectives /\ k # None /\ k.carried
               /\ k.cfg = b.cfg /\ k.source = b.source /\ k.at = b.at
  BY DEF Effectives

\* What the record's recommendation is, whichever way it came about.
LEMMA EffectiveBlock ==
    ASSUME NEW cfg \in Configs, NEW verdict \in VerdictNames, NEW previous,
           end \in 0..MaxTime, rounds \in 1..MaxRounds,
           previous # None => /\ Good(previous)
                              /\ previous.at <= rounds /\ previous.end <= end
    PROVE  LET b == EffectiveRecommendation(cfg, verdict, previous)
           IN  /\ b \in Effectives \cup {None}
               /\ b # None =>
                     /\ SameFingerprint(b.cfg, cfg)
                     /\ b.source <= end /\ b.at <= rounds
                     /\ ~b.carried => b.at = rounds /\ verdict = "ok_approved"
               /\ /\ previous # None /\ previous.effective # None
                  /\ SameFingerprint(cfg, previous.cfg)
                  => b # None
<1> DEFINE b == EffectiveRecommendation(cfg, verdict, previous)
<1>1. CASE verdict = "ok_approved"
  <2> DEFINE n == [source |-> end, at |-> rounds, cfg |-> cfg, carried |-> FALSE]
  <2>1. b = n
    BY <1>1 DEF EffectiveRecommendation
  <2>2. n \in Effectives /\ n.cfg = cfg /\ n.source = end /\ n.at = rounds
    BY DEF Effectives
  <2> HIDE DEF b, n
  <2>3. b \in Effectives /\ b.cfg = cfg /\ b.source = end /\ b.at = rounds
    BY <2>1, <2>2
  <2>4. SameFingerprint(b.cfg, cfg) /\ b.source <= end /\ b.at <= rounds /\ b # None
    BY <2>3 DEF SameFingerprint
  <2> QED
    BY <1>1, <2>3, <2>4 DEF b
<1>2. CASE /\ verdict # "ok_approved"
           /\ previous # None /\ CarryFingerprintMatches(cfg, previous)
           /\ previous.effective # None
  <2> DEFINE e == previous.effective
             k == [e EXCEPT !.carried = TRUE]
  <2>1. b = k
    BY <1>2 DEF EffectiveRecommendation, Carried
  <2>2. e \in Effectives
    BY <1>2 DEF Good, RoundRecords
  <2>3. k \in Effectives /\ k # None /\ k.carried
        /\ k.cfg = e.cfg /\ k.source = e.source /\ k.at = e.at
    BY <2>2, CarriedBlock
  <2>4. SameFingerprint(e.cfg, previous.cfg) /\ e.source <= previous.end
        /\ e.at <= previous.at
    BY <1>2 DEF Good, Consistent
  <2>5. previous.end \in Nat /\ previous.at \in Nat /\ e.source \in Nat /\ e.at \in Nat
    BY <1>2, <2>2 DEF Good, RoundRecords, Effectives
  <2> HIDE DEF b, k, e
  <2>6. SameFingerprint(b.cfg, cfg)
    BY <1>2, <2>1, <2>3, <2>4 DEF SameFingerprint, CarryFingerprintMatches
  <2>7. b.source <= end /\ b.at <= rounds
    BY <1>2, <2>1, <2>3, <2>4, <2>5
  <2> QED
    BY <2>1, <2>3, <2>6, <2>7 DEF b
<1>3. CASE /\ verdict # "ok_approved"
           /\ ~(/\ previous # None /\ CarryFingerprintMatches(cfg, previous)
                /\ previous.effective # None)
  <2>1. b = None
    BY <1>3 DEF EffectiveRecommendation, Carried
  <2>2. SameFingerprint(cfg, previous.cfg) => CarryFingerprintMatches(cfg, previous)
    BY DEF SameFingerprint, CarryFingerprintMatches
  <2> HIDE DEF b
  <2> QED
    BY <1>3, <2>1, <2>2 DEF b
<1> QED
  BY <1>1, <1>2, <1>3

LEMMA AggregateGood ==
    ASSUME IInv, pc = "previous", NEW verdict \in Verdicts(compatible, abort),
           NEW previous, previous \in {None, latest[cohort]}
    PROVE  LET r == Aggregate(config[cohort], verdict, previous)
           IN  /\ Good(r) /\ r.end = end /\ r.at = rounds
               /\ previous = latest[cohort] => Keeps(r, latest[cohort])
<1> DEFINE cfg == config[cohort]
           b == EffectiveRecommendation(cfg, verdict, previous)
           r == Aggregate(cfg, verdict, previous)
<1>1. cfg \in Configs /\ cohort \in Cohorts /\ end \in 0..MaxTime /\ rounds \in 1..MaxRounds
  BY DEF IInv, Places, InRound, InCohort
<1>2. verdict \in VerdictNames /\ (abort => verdict = "insufficient_samples")
  BY DEF Verdicts, VerdictNames
<1>3. previous # None => /\ Good(previous)
                         /\ previous.at <= rounds /\ previous.end <= end
  BY <1>1 DEF IInv, Calibrations, Times, InRound, InCohort
<1>4. /\ b \in Effectives \cup {None}
      /\ b # None => /\ SameFingerprint(b.cfg, cfg)
                     /\ b.source <= end /\ b.at <= rounds
                     /\ ~b.carried => b.at = rounds /\ verdict = "ok_approved"
      /\ /\ previous # None /\ previous.effective # None
         /\ SameFingerprint(cfg, previous.cfg)
         => b # None
  BY <1>1, <1>2, <1>3, EffectiveBlock
<1>5. r = [end |-> end, at |-> rounds, cfg |-> cfg, listed |-> listed, used |-> compatible,
           error |-> abort, verdict |-> verdict, effective |-> b]
  BY DEF Aggregate
<1> HIDE DEF r, b, cfg
<1>6. /\ r.end = end /\ r.at = rounds /\ r.cfg = cfg /\ r.listed = listed
      /\ r.used = compatible /\ r.error = abort /\ r.verdict = verdict /\ r.effective = b
  BY <1>5
<1>7. r \in RoundRecords
  <2>1. listed \in SUBSET Parts /\ compatible \in SUBSET Intermediates /\ abort \in BOOLEAN
    BY DEF IInv, Work
  <2> QED
    BY <1>1, <1>2, <1>4, <1>5, <2>1 DEF RoundRecords
<1>8. OnePair(r)
  BY <1>6 DEF IInv, Work, OnePair, cfg
<1>9. Whole(r)
  <2>1. pending = {}
    BY DEF IInv, Work
  <2>2. /\ \A u \in compatible : u.part \in listed
        /\ \A u, v \in compatible : u.part = v.part => u = v
        /\ ~abort => \A p \in listed : \E u \in compatible : u.part = p
    BY <2>1 DEF IInv, Work
  <2> QED
    BY <1>2, <1>6, <2>2 DEF Whole
<1>10. Consistent(r)
  BY <1>4, <1>6 DEF Consistent
<1>11. previous = latest[cohort] => Keeps(r, latest[cohort])
  BY <1>4, <1>6 DEF Keeps
<1> QED
  BY <1>6, <1>7, <1>8, <1>9, <1>10, <1>11 DEF Good, r, cfg

-----------------------------------------------------------------------------
(* Times.                                                                  *)

\* The numbers of a record.
LEMMA GoodNumbers ==
    ASSUME NEW r, Good(r)
    PROVE  r.end \in Nat /\ r.at \in Nat /\ r # None
  BY DEF Good, RoundRecords

\* When a cohort is left its latest.json may be the running round's.
LEMMA LeavingTimes ==
    ASSUME IInv, Next, pc' = "round", UNCHANGED <<todo, rounds, end, clock>>,
           pc \in InCohort
    PROVE  Times'
<1>1. cohort \in Cohorts \ todo /\ rounds \in Nat /\ end \in Nat
  BY DEF IInv, Places
<1>2. ASSUME NEW c \in Cohorts, latest'[c] # None
      PROVE  /\ latest'[c].at <= rounds
             /\ c \in todo => latest'[c].at < rounds
             /\ latest'[c].end <= Aligned(clock) /\ latest'[c].end <= end
  <2>1. CASE latest'[c] = latest[c]
    BY <1>2, <2>1 DEF IInv, Times, InRound
  <2>2. CASE c = cohort /\ pc = "latest" /\ latest'[c] = output
    BY <1>1, <2>2 DEF IInv, Times, Output, Publishing
  <2>3. CASE pc = "latest" /\ latest' = [latest EXCEPT ![cohort] = output]
    <3>1. latest'[c] = IF c = cohort THEN output ELSE latest[c]
      BY <1>1, <2>3, LatestWritten DEF IInv
    <3> QED
      BY <2>1, <2>2, <2>3, <3>1
  <2> QED
    BY <2>1, <2>3, CalibrationsWritten
<1>3. (Aligned(clock))' = Aligned(clock)
  BY DEF Aligned
<1>4. end' <= Aligned(clock)'
  BY <1>3 DEF IInv, Times
<1> QED
  BY <1>2, <1>3, <1>4 DEF Times, InCohort

\* Where latest.json stays and no cohort comes into its turn, times stay right
\* as long as the end of the round does.
LEMMA QuietTimes ==
    ASSUME IInv, UNCHANGED <<latest, rounds, clock, todo>>,
           end' = end \/ (end' = 0 /\ pc' \notin InRound),
           pc' \in InRound => pc \in InRound,
           pc' \in InCohort => pc \in InCohort /\ cohort' = cohort
    PROVE  Times'
<1>1. (Aligned(clock))' = Aligned(clock) /\ Aligned(clock) \in Nat
  BY AlignedType DEF Aligned, IInv, Places
<1> QED
  BY <1>1 DEF IInv, Times, InRound

LEMMA TimesKept == IInv /\ Next => Times'
<1> SUFFICES ASSUME IInv, Next PROVE Times'
  OBVIOUS
<1> USE DEF IInv, storeVars, cohortVars, roundVars, processVars, boundVars
<1>a. Aligned(clock) \in Nat /\ clock \in Nat /\ rounds \in Nat /\ end \in Nat
  BY AlignedType DEF Places
<1>n. \A c \in Cohorts : latest[c] # None => latest[c].end \in Nat /\ latest[c].at \in Nat
  BY GoodNumbers DEF Calibrations
<1>1. CASE Tick
  <2>1. Aligned(clock) <= Aligned(clock + 1) /\ Aligned(clock + 1) \in Nat
    BY <1>a, AlignedGrows, AlignedType
  <2>2. Aligned(clock)' = Aligned(clock + 1)
    BY <1>1 DEF Tick, Aligned
  <2>3. UNCHANGED <<latest, rounds, todo, pc, cohort, end>>
    BY <1>1 DEF Tick
  <2> QED
    BY <1>a, <1>n, <2>1, <2>2, <2>3 DEF Times
<1>2. ASSUME NEW p \in Parts, PartArrives(p) PROVE Times'
  BY <1>2, QuietTimes DEF PartArrives
<1>3. CASE Start
  BY <1>3, QuietTimes DEF Start, InRound, InCohort
<1>4. CASE StartRound
  <2>1. Aligned(clock)' = Aligned(clock)
    BY <1>4 DEF StartRound, Aligned
  <2>2. /\ UNCHANGED latest /\ rounds' = rounds + 1 /\ end' = Aligned(clock)
        /\ pc' = "round"
    BY <1>4 DEF StartRound
  <2> QED
    BY <1>a, <1>n, <2>1, <2>2 DEF Times, InCohort
<1>5. CASE Cancel
  BY <1>5, QuietTimes DEF Cancel
<1>6. CASE ProcessEnds
  <2>1. Aligned(clock)' = Aligned(clock)
    BY <1>6 DEF ProcessEnds, Aligned
  <2>2. UNCHANGED <<latest, rounds>> /\ end' = 0 /\ pc' = "off" /\ todo' = {}
    BY <1>6 DEF ProcessEnds
  <2> QED
    BY <1>a, <2>1, <2>2 DEF Times, InRound, InCohort
<1>7. CASE NextCohort
  <2>1. Min(todo) \in todo
    BY <1>7, MinIsMember DEF NextCohort, Places
  <2>2. Aligned(clock)' = Aligned(clock)
    BY <1>7 DEF NextCohort, Aligned
  <2>3. /\ UNCHANGED <<latest, rounds, end>> /\ pc = "round" /\ cohort' \in todo
        /\ todo' \subseteq todo
    BY <1>7, <2>1 DEF NextCohort
  <2> QED
    BY <2>2, <2>3 DEF Times, InRound
<1>8. CASE RoundEnds
  BY <1>8, QuietTimes DEF RoundEnds, InRound, InCohort
<1>9. CASE ReadFails
  BY <1>9, LeavingTimes DEF ReadFails, CohortFails, InCohort
<1>10. CASE ConnectionUnavailable
  BY <1>10, LeavingTimes DEF ConnectionUnavailable, CohortFails, InCohort
<1>11. CASE PutFails
  BY <1>11, LeavingTimes DEF PutFails, CohortFails, InCohort
<1>12. CASE PutLatest
  BY <1>12, LeavingTimes DEF PutLatest, InCohort
<1>13. CASE List \/ MeasureCompletes \/ TableSmallerThanK \/ AllMeasured
  BY <1>13, QuietTimes
  DEF List, MeasureCompletes, TableSmallerThanK, AllMeasured, InRound, InCohort
<1>14. CASE PutTruth \/ PutSweep \/ PutHistory
  BY <1>14, QuietTimes DEF PutTruth, PutSweep, PutHistory, InRound, InCohort
<1>15. CASE LoadPreviousAndAggregate
  BY <1>15, QuietTimes DEF LoadPreviousAndAggregate, InRound, InCohort
<1> QED
  BY <1>1, <1>2, <1>3, <1>4, <1>5, <1>6, <1>7, <1>8, <1>9, <1>10, <1>11, <1>12,
     <1>13, <1>14, <1>15
  DEF Next, RoundStep, Crash, SeesCancellation

-----------------------------------------------------------------------------
(* The record being published, and the history.                            *)

LEMMA OutputKept == IInv /\ Next => Output'
<1> SUFFICES ASSUME IInv, Next PROVE Output'
  OBVIOUS
<1> USE DEF IInv, Publishing, storeVars, cohortVars, roundVars, processVars, boundVars
<1>1. CASE Tick
  BY <1>1 DEF Tick, Output
<1>2. ASSUME NEW p \in Parts, PartArrives(p) PROVE Output'
  BY <1>2 DEF PartArrives, Output
<1>3. CASE Start
  BY <1>3 DEF Start, Output
<1>4. CASE StartRound
  BY <1>4 DEF StartRound, Output
<1>5. CASE Cancel
  BY <1>5 DEF Cancel, Output
<1>6. CASE LeaveCohort /\ pc' \in {"off", "round"}
  BY <1>6 DEF LeaveCohort, Output
<1>7. CASE NextCohort \/ RoundEnds
  BY <1>7 DEF NextCohort, RoundEnds, Output
<1>8. CASE List \/ MeasureCompletes \/ TableSmallerThanK \/ AllMeasured
  BY <1>8 DEF List, MeasureCompletes, TableSmallerThanK, AllMeasured, Output
<1>9. CASE PutTruth \/ PutSweep
  BY <1>9 DEF PutTruth, PutSweep, Output
<1>10. CASE LoadPreviousAndAggregate
  <2>1. PICK verdict \in Verdicts(compatible, abort) :
           \/ output' = Aggregate(config[cohort], verdict, latest[cohort])
           \/ /\ output' = Aggregate(config[cohort], verdict, None)
              /\ "body" \in FaultKinds
    BY <1>10 DEF LoadPreviousAndAggregate, Fault
  <2>2. /\ pc = "previous" /\ pc' = "history"
        /\ UNCHANGED <<latest, cohort, end, rounds>>
    BY <1>10 DEF LoadPreviousAndAggregate
  <2>3. Good(output') /\ output'.end = end /\ output'.at = rounds
    BY <2>1, <2>2, AggregateGood
  <2>4. Keeps(output', latest[cohort])
    <3>1. CASE output' = Aggregate(config[cohort], verdict, latest[cohort])
      BY <2>2, <3>1, AggregateGood
    <3>2. CASE "body" \in FaultKinds
      BY <3>2 DEF Keeps
    <3> QED
      BY <2>1, <3>1, <3>2
  <2> QED
    BY <2>2, <2>3, <2>4 DEF Output
<1>11. CASE PutHistory
  <2>1. /\ pc = "history" /\ pc' = "latest"
        /\ history' = [history EXCEPT ![cohort][end] = output]
        /\ UNCHANGED <<latest, cohort, end, rounds, output>>
    BY <1>11 DEF PutHistory
  <2>2. cohort \in Cohorts /\ end \in 0..MaxTime
    BY <2>1 DEF Places, InCohort
  <2>3. history'[cohort][end] = output
    BY <2>1, <2>2, HistoryWritten
  <2> QED
    BY <2>1, <2>3 DEF Output
<1> QED
  BY <1>1, <1>2, <1>3, <1>4, <1>5, <1>6, <1>7, <1>8, <1>9, <1>10, <1>11
  DEF Next, RoundStep, Crash, SeesCancellation, ProcessEnds, ReadFails,
      ConnectionUnavailable, PutFails, PutLatest, CohortFails

\* The history is written first, and what it has of a round that latest.json
\* names is only ever replaced by a later computation.
LEMMA HistoryFirstKept == IInv /\ Next => HistoryFirst'
<1> SUFFICES ASSUME IInv, Next PROVE HistoryFirst'
  OBVIOUS
<1>1. CASE UNCHANGED <<history, latest>>
  BY <1>1 DEF IInv, HistoryFirst
<1>2. pc \in Publishing =>
         /\ cohort \in Cohorts /\ end \in 0..MaxTime /\ rounds \in Nat
         /\ output.end = end /\ output.at = rounds /\ output # None
  BY GoodNumbers DEF IInv, Places, Output, Publishing, InCohort
<1>n. \A c \in Cohorts : latest[c] # None =>
         latest[c].end \in 0..MaxTime /\ latest[c].at \in Nat
  BY DEF IInv, Calibrations, Good, RoundRecords
<1>3. CASE /\ pc = "history" /\ UNCHANGED latest
           /\ history' = [history EXCEPT ![cohort][end] = output]
  <2> SUFFICES ASSUME NEW c \in Cohorts, latest[c] # None
               PROVE  LET h == history'[c][latest[c].end]
                      IN  /\ h # None /\ h.at >= latest[c].at
                          /\ h.at = latest[c].at => h = latest[c]
    BY <1>3 DEF HistoryFirst
  <2>1. history'[c][latest[c].end] =
          IF c = cohort /\ latest[c].end = end THEN output ELSE history[c][latest[c].end]
    BY <1>2, <1>3, <1>n, HistoryWritten DEF IInv, Publishing
  <2>2. CASE c = cohort /\ latest[c].end = end
    <3>1. latest[c].at < rounds
      BY <1>3, <2>2 DEF IInv, Times, InCohort
    <3> QED
      BY <1>2, <1>3, <1>n, <2>1, <2>2, <3>1 DEF Publishing
  <2>3. CASE ~(c = cohort /\ latest[c].end = end)
    BY <2>1, <2>3 DEF IInv, HistoryFirst
  <2> QED
    BY <2>2, <2>3
<1>4. CASE /\ pc = "latest" /\ UNCHANGED history
           /\ latest' = [latest EXCEPT ![cohort] = output]
  <2>1. \A c \in Cohorts : latest'[c] = IF c = cohort THEN output ELSE latest[c]
    BY <1>2, <1>4, LatestWritten DEF IInv, Publishing
  <2>2. history[cohort][end] = output
    BY <1>4 DEF IInv, Output
  <2> SUFFICES ASSUME NEW c \in Cohorts, latest'[c] # None
               PROVE  LET h == history[c][latest'[c].end]
                      IN  /\ h # None /\ h.at >= latest'[c].at
                          /\ h.at = latest'[c].at => h = latest'[c]
    BY <1>4 DEF HistoryFirst
  <2>3. CASE c = cohort
    <3>1. latest'[c] = output /\ history[c][latest'[c].end] = output
      BY <1>2, <1>4, <2>1, <2>2, <2>3 DEF Publishing
    <3>2. output # None /\ output.at >= output.at
      BY <1>2, <1>4 DEF Publishing
    <3> QED
      BY <3>1, <3>2
  <2>4. CASE c # cohort
    BY <2>1, <2>4 DEF IInv, HistoryFirst
  <2> QED
    BY <2>3, <2>4
<1> QED
  BY <1>1, <1>3, <1>4, CalibrationsWritten

-----------------------------------------------------------------------------
(* The theorems.                                                           *)

LEMMA InitIInv == Init => IInv
<1> SUFFICES ASSUME Init PROVE IInv
  OBVIOUS
<1>1. abort \in BOOLEAN /\ ~abort /\ cancelled \in BOOLEAN
  BY Zenon DEF Init
<1>2. Places
  BY <1>1 DEF Init, Places, InRound, InCohort
<1>3. Pairs
  BY DEF Init, Pairs, Files
<1>4. \A c \in Cohorts : latest[c] = None
  BY DEF Init
<1>5. Calibrations
  <2>1. \A c \in Cohorts : history[c] = [e \in 0..MaxTime |-> None]
    BY DEF Init
  <2>2. \A c \in Cohorts, e \in 0..MaxTime : history[c][e] = None
    BY <2>1
  <2>3. history = [c \in Cohorts |-> [e \in 0..MaxTime |-> history[c][e]]]
    <3> DEFINE K(c) == [e \in 0..MaxTime |-> history[c][e]]
               N == [e \in 0..MaxTime |-> None]
    <3>1. \A c \in Cohorts : K(c) = N
      BY <2>2
    <3>2. history = [c \in Cohorts |-> N]
      BY DEF Init
    <3> HIDE DEF K, N
    <3>3. history = [c \in Cohorts |-> K(c)]
      BY <3>1, <3>2
    <3> QED
      BY <3>3 DEF K
  <2>4. latest = [c \in Cohorts |-> latest[c]]
    BY <1>4 DEF Init
  <2> QED
    BY <1>4, <2>2, <2>3, <2>4 DEF Calibrations
<1>6. Work
  BY <1>1 DEF Init, Work
<1>7. Unmeasured
  BY DEF Init, Unmeasured
<1>8. Times
  BY <1>4, AlignedType DEF Init, Times
<1>9. Output
  BY DEF Init, Output, Publishing
<1>10. HistoryFirst
  BY <1>4 DEF HistoryFirst
<1> QED
  BY <1>2, <1>3, <1>5, <1>6, <1>7, <1>8, <1>9, <1>10 DEF IInv

LEMMA StutterIInv == IInv /\ UNCHANGED vars => IInv'
<1> SUFFICES ASSUME IInv, UNCHANGED vars PROVE IInv'
  OBVIOUS
<1>0. /\ UNCHANGED <<parts, truth, sweep, history, latest>>
      /\ UNCHANGED <<cohort, listed, compatible, pending, abort, output>>
      /\ UNCHANGED <<end, todo, cancelled, db, config>>
      /\ UNCHANGED <<clock, rounds, starts, faults, pc>>
  BY DEF vars, storeVars, cohortVars, roundVars, processVars, boundVars
<1>1. Places' /\ Pairs'
  BY <1>0 DEF IInv, Places, Pairs
<1>2. Calibrations' /\ HistoryFirst'
  BY <1>0 DEF IInv, Calibrations, HistoryFirst
<1>3. Work'
  BY <1>0 DEF IInv, Work
<1>4. Unmeasured'
  BY <1>0 DEF IInv, Unmeasured, UsablePair
<1>5. Times'
  BY <1>0 DEF IInv, Times, Aligned
<1>6. Output'
  BY <1>0 DEF IInv, Output
<1> QED
  BY <1>1, <1>2, <1>3, <1>4, <1>5, <1>6 DEF IInv

\* The inductive invariant holds in every state of the tuner, however often it
\* is cancelled, crashes and starts again with another configuration.
THEOREM TunerInvariant == Spec => []IInv
<1>1. IInv /\ [Next]_vars => IInv'
  BY PlacesKept, PairsKept, CalibrationsKept, WorkKept, UnmeasuredKept, TimesKept,
     OutputKept, HistoryFirstKept, StutterIInv DEF IInv
<1> QED
  BY <1>1, InitIInv, PTL DEF Spec

\* The records in the store are good ones.
LEMMA PublishedGood == IInv => \A r \in Published : Good(r)
  BY DEF IInv, Calibrations, Published, Records

\* The tuner's state and every object in the store keep their types.
THEOREM TypeCorrect == Spec => []TypeOK
<1>1. IInv => TypeOK
  <2> SUFFICES ASSUME IInv PROVE TypeOK
    OBVIOUS
  <2>1. Published \subseteq RoundRecords
    BY PublishedGood DEF Good
  <2>2. output \in RoundRecords \cup {None}
    BY DEF IInv, Output, Good
  <2> QED
    BY <2>1, <2>2 DEF IInv, Places, Pairs, Work, TypeOK, InRound, InCohort
<1> QED
  BY <1>1, TunerInvariant, PTL

\* No crash between the two PUTs of a pair, and no change of the configuration
\* and back, brings two measurements into one record (intermediate.rs compares
\* the metadata of the pair, pipeline.rs the fields that were measured).
THEOREM PairsNotMixed == Spec => []PairsFromOneAttempt
<1>1. IInv => PairsFromOneAttempt
  BY PublishedGood DEF Good, OnePair, PairsFromOneAttempt
<1> QED
  BY <1>1, TunerInvariant, PTL

\* Whatever fails, a record in the store used every part it lists, once, or
\* says that the table was too small (pipeline.rs gives up the cohort before
\* it aggregates).
THEOREM RoundsWhole == Spec => []NoPartialRound
<1>1. IInv => NoPartialRound
  <2> SUFFICES ASSUME IInv, NEW r \in Published
               PROVE  /\ {u.part : u \in r.used} \subseteq r.listed
                      /\ \A u, v \in r.used : u.part = v.part => u = v
                      /\ ~r.error => {u.part : u \in r.used} = r.listed
                      /\ r.error => r.verdict = "insufficient_samples"
    BY DEF NoPartialRound
  <2>1. Whole(r)
    BY PublishedGood DEF Good
  <2> QED
    BY <2>1 DEF Whole
<1> QED
  BY <1>1, TunerInvariant, PTL

\* Over any chain of carried recommendations, what is in effect belongs to the
\* index, grid and target of the record it stands in (aggregate.rs).
THEOREM RecommendationsConsistent == Spec => []EffectiveConsistent
<1>1. IInv => EffectiveConsistent
  BY PublishedGood DEF Good, Consistent, EffectiveConsistent
<1> QED
  BY <1>1, TunerInvariant, PTL

\* latest.json never names a round the history does not have, although any of
\* the two PUTs may fail, or succeed and be reported as failed.
THEOREM HistoryNotBehind == Spec => []HistoryFirst
<1>1. IInv => HistoryFirst
  BY DEF IInv
<1> QED
  BY <1>1, TunerInvariant, PTL

\* A pair the running configuration can use is never written again: a restart
\* redoes no finished measurement.
THEOREM MeasuredOnce == Spec => UsablePairsKept
<1> DEFINE Kept == pc # "off" => \A p \in Parts :
               truth[p] # None /\ truth[p] = sweep[p]
                 /\ SameIndex(truth[p].cfg, config[PartCohort[p]])
               => truth'[p] = truth[p] /\ sweep'[p] = sweep[p]
<1>1. IInv /\ [Next]_vars => [Kept]_vars
  <2> SUFFICES ASSUME IInv, Next, NEW p \in Parts,
                      truth[p] # None, truth[p] = sweep[p],
                      SameIndex(truth[p].cfg, config[PartCohort[p]])
               PROVE  truth'[p] = truth[p] /\ sweep'[p] = sweep[p]
    OBVIOUS
  <2>1. CASE UNCHANGED <<truth, sweep>>
    BY <2>1
  <2>2. CASE pc \in {"truth", "sweep"}
    <3>1. Min(pending) \in pending
      BY <2>2, PendingPart DEF IInv, Work
    <3>2. PartCohort[Min(pending)] = cohort
      BY <3>1 DEF IInv, Work
    <3>3. p # Min(pending)
      BY <3>1, <3>2 DEF IInv, Unmeasured, UsablePair
    <3> QED
      BY <3>3, PairsWritten DEF IInv, Pairs
  <2> QED
    BY <2>1, <2>2, PairsWritten
<1> QED
  BY <1>1, TunerInvariant, PTL DEF Spec, UsablePairsKept

\* While the body of latest.json can be read, a recommendation in effect is
\* replaced or carried and never vanishes: no verdict, failure, cancellation
\* or restart clears it.
THEOREM RecommendationKept ==
    ASSUME "body" \notin FaultKinds
    PROVE  Spec => EffectiveNotLost
<1> DEFINE Kept == \A c \in Cohorts :
               /\ latest[c] # None /\ latest[c].effective # None
               /\ SameFingerprint(latest'[c].cfg, latest[c].cfg)
               => latest'[c].effective # None
<1>1. IInv /\ [Next]_vars => [Kept]_vars
  <2> SUFFICES ASSUME IInv, Next, NEW c \in Cohorts,
                      latest[c] # None, latest[c].effective # None,
                      SameFingerprint(latest'[c].cfg, latest[c].cfg)
               PROVE  latest'[c].effective # None
    OBVIOUS
  <2>1. CASE latest'[c] = latest[c]
    BY <2>1
  <2>2. CASE pc = "latest" /\ latest' = [latest EXCEPT ![cohort] = output]
    <3>1. cohort \in Cohorts /\ Keeps(output, latest[cohort])
      BY <2>2 DEF IInv, Places, Output, Publishing, InCohort
    <3>2. latest'[c] = IF c = cohort THEN output ELSE latest[c]
      BY <2>2, <3>1, LatestWritten DEF IInv
    <3> QED
      BY <2>1, <3>1, <3>2 DEF Keeps
  <2> QED
    BY <2>1, <2>2, CalibrationsWritten
<1> QED
  BY <1>1, TunerInvariant, PTL DEF Spec, EffectiveNotLost
=============================================================================
