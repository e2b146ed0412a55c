--------------------------- MODULE LatestArtifact ---------------------------
(***************************************************************************)
(* calibrations/<cohort>/latest.json, which the tuner replaces and the     *)
(* recommendation server reads: what it can hold, the verdict the server   *)
(* reaches on it, and for how long each verdict has been out of date.      *)
(***************************************************************************)
EXTENDS Integers, FiniteSets

CONSTANTS
    Cohorts,    \* cohort names CohortName::try_from accepts
    Names,      \* what a caller may ask for
    Artifacts,  \* contents latest.json can have, see Artifact
    MaxPublish, \* bound: how often the tuner replaces a latest.json
    Horizon     \* bound: verdicts out of date for longer are all alike

MinEf == 1
MaxEf == 1000
LatestJsonMaxBytes == 2

Absent == [stored |-> FALSE]
NoEf == [kind |-> "none", ef |-> 0]

(***************************************************************************)
(* latest.json as load_effective_ef tells its contents apart; `effective'  *)
(* is null or one number.                                                  *)
(***************************************************************************)
Artifact == [stored: {TRUE}, bytes: Nat, json: BOOLEAN, format_version: Nat,
             own_cohort: BOOLEAN, effective: SUBSET Int]

Found(ef) == [kind |-> "found", ef |-> ef]
Missing == [kind |-> "missing", ef |-> 0]
Defect == [kind |-> "defect", ef |-> 0]

(***************************************************************************)
(* What a lookup concludes from the object it read, its size first.        *)
(***************************************************************************)
TooLarge(a) == a.bytes > LatestJsonMaxBytes
LoadEffectiveEf(a) ==
    CASE a = Absent -> Missing
      [] a # Absent /\ (\/ TooLarge(a) \/ ~a.json
                        \/ a.format_version # 1 \/ ~a.own_cohort) -> Defect
      [] OTHER -> IF a.effective = {} THEN Missing
                  ELSE LET ef == CHOOSE e \in a.effective : TRUE
                       IN  IF ef \in MinEf .. MaxEf THEN Found(ef) ELSE Defect

Verdicts == {LoadEffectiveEf(a) : a \in Artifacts}

ASSUME ArtifactAssumption ==
    /\ Cohorts \subseteq Names /\ IsFiniteSet(Names)
    /\ Artifacts \subseteq Artifact \cup {Absent}
    /\ \A a \in Artifacts \ {Absent} : Cardinality(a.effective) <= 1
    /\ MaxPublish \in Nat /\ Horizon \in Nat

VARIABLES
    store,     \* latest.json of each cohort
    since,     \* history: ticks since a verdict was the stored artifact's
    published  \* how often a latest.json was replaced

world == <<store, since, published>>

(* History starts with artifacts that have always been there. *)
WorldInit ==
    /\ store \in [Cohorts -> Artifacts]
    /\ since = [k \in Cohorts |-> [v \in Verdicts |->
                  IF v = LoadEffectiveEf(store[k]) THEN 0 ELSE Horizon]]
    /\ published = 0

Publish(k, a) ==
    /\ published < MaxPublish /\ a # store[k]
    /\ store' = [store EXCEPT ![k] = a]
    /\ since' = [since EXCEPT ![k][LoadEffectiveEf(a)] = 0]
    /\ published' = published + 1

WorldTick ==
    /\ since' = [k \in Cohorts |-> [v \in Verdicts |->
                   IF v = LoadEffectiveEf(store[k]) THEN 0
                   ELSE IF since[k][v] < Horizon THEN since[k][v] + 1
                        ELSE Horizon]]
    /\ UNCHANGED <<store, published>>

Down(n) == IF n = 0 THEN 0 ELSE n - 1
=============================================================================
