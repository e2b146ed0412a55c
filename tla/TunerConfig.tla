---------------------------- MODULE TunerConfig -----------------------------
(***************************************************************************)
(* The tuner's startup validation, and what later checks of an accepted    *)
(* configuration would refuse.  An operator edits a working configuration; *)
(* the tuner is started on the result, and a round of it projects one      *)
(* cohort at a time.                                                       *)
(*                                                                         *)
(* Fractions are in units of 1 / Whole, durations in tenths of a          *)
(* millisecond; an identifier is its length and whether it holds a NUL.    *)
(***************************************************************************)
EXTENDS CohortNames

CONSTANTS
    BaseConfig,     \* the configuration that is edited
    FieldValues,    \* what the operator may put into a field, by its name
    Malformed,      \* addresses whose server is not host:port
    RoundEnd,       \* seconds from the epoch to the end of the round
    MaxEdits        \* bound: edits

\* A timeout is a Duration: the configuration's field holds a natural number.
ASSUME ConfigAssumption ==
    /\ "budget" \in DOMAIN BaseConfig
    /\ "statement_timeout" \in DOMAIN BaseConfig["budget"]
    /\ BaseConfig["budget"]["statement_timeout"] \in Nat
    /\ FieldValues["statement_timeout"] \subseteq Nat

VARIABLES
    raw,            \* RawConfig
    edits,
    verdict,        \* of from_raw
    projected       \* the cohort a round is at, and what became of it

tunerConfig == <<raw, edits, verdict, projected>>

Whole == 100000
SplitBuckets == 10000
Millisecond == 10
Second == 1000 * Millisecond
MinEfSearch == 1
MaxEfSearch == 1000
IdentifierMaxBytes == 63
NaN == -1

(* f64 comparisons: every one with NaN is false. *)
Above(x, y) == x # NaN /\ x > y
AtMost(x, y) == x # NaN /\ x <= y
Below(x, y) == x # NaN /\ x < y

InOpenUnit(x) == Above(x, 0) /\ Below(x, Whole)
InHalfOpenUnit(x) == Above(x, 0) /\ AtMost(x, Whole)

Increasing(grid) == \A i \in 1 .. Len(grid) - 1 : grid[i] < grid[i + 1]

(* (train_fraction * 10_000).round() *)
SplitThreshold(fraction) ==
    (fraction * SplitBuckets + Whole \div 2) \div Whole

-----------------------------------------------------------------------------
(* Startup.                                                                *)

ValidateCalibration(c) ==
    /\ c.interval # 0
    /\ c.ef_search # <<>>
    /\ Increasing(c.ef_search)
    /\ \A i \in DOMAIN c.ef_search :
          c.ef_search[i] \in MinEfSearch .. MaxEfSearch
    /\ InOpenUnit(c.train_fraction)
    /\ SplitThreshold(c.train_fraction) \in 1 .. SplitBuckets - 1

ValidateStorage(s) == s.window_seconds # 0 /\ s.window_seconds % 60 = 0

ValidateBudget(b) ==
    /\ InHalfOpenUnit(b.db_share)
    /\ b.statement_timeout # 0
    /\ b.client_timeout # 0

(* A data source is the address of a database, its server and its name, and
   credentials.  That a password variable exists is checked (var_os), what is
   in it is not; nor is the form of the server. *)
ValidateDataSources(sources) ==
    /\ \A n \in DOMAIN sources :
          sources[n].credentials \in {"none", "environment", "not Unicode"}
    /\ \A n, m \in DOMAIN sources :
          sources[n].address = sources[m].address => n = m

ValidatePostgresIdentifier(i) ==
    /\ i.bytes # 0
    /\ i.bytes <= IdentifierMaxBytes
    /\ ~i.nul

ValidateIndexes(indexes, sources) ==
    \A n \in DOMAIN indexes :
        /\ indexes[n].data_source \in DOMAIN sources
        /\ \A f \in {"table", "column", "key"} :
              ValidatePostgresIdentifier(indexes[n][f])

\* Mutant: a window need not hold a whole number of storage windows.
ValidateTargetsUnaligned(targets, width) ==
    \A n \in DOMAIN targets :
        LET t == targets[n]
        IN  /\ t.k # 0
            /\ InHalfOpenUnit(t.value)
            /\ InOpenUnit(t.percentile)
            /\ InOpenUnit(t.selection_confidence)
            /\ InOpenUnit(t.approval_confidence)
            /\ t.window \div Second >= width

ValidateTargets(targets, width) ==
    \A n \in DOMAIN targets :
        LET t == targets[n]
        IN  /\ t.k # 0
            /\ InHalfOpenUnit(t.value)
            /\ InOpenUnit(t.percentile)
            /\ InOpenUnit(t.selection_confidence)
            /\ InOpenUnit(t.approval_confidence)
            /\ t.window \div Second >= width
            /\ t.window % Second = 0
            /\ (t.window \div Second) % width = 0

ValidateGridAgainstTargets(grid, targets) ==
    grid # <<>> /\ \A n \in DOMAIN targets : grid[1] >= targets[n].k

ValidateCohorts(cohorts, indexes, targets) ==
    \A n \in DOMAIN cohorts :
        /\ ValidateCohortName(n)
        /\ cohorts[n].index \in DOMAIN indexes
        /\ cohorts[n].target \in DOMAIN targets

(* from_raw: the first check that fails ends it. *)
FromRaw(r) ==
    /\ ValidateCalibration(r.calibration)
    /\ ValidateStorage(r.storage)
    /\ ValidateBudget(r.budget)
    /\ ValidateDataSources(r.data_sources)
    /\ ValidateIndexes(r.indexes, r.data_sources)
    /\ ValidateTargets(r.targets, r.storage.window_seconds)
    /\ ValidateGridAgainstTargets(r.calibration.ef_search, r.targets)
    /\ ValidateCohorts(r.cohorts, r.indexes, r.targets)

-----------------------------------------------------------------------------
(* While the tuner runs.                                                   *)

(* AggregationConfig::for_cohort finds its references. *)
ForCohort(n) ==
    /\ n \in DOMAIN raw.cohorts
    /\ raw.cohorts[n].index \in DOMAIN raw.indexes
    /\ raw.cohorts[n].target \in DOMAIN raw.targets

(* split_threshold and validate_aggregation_config *)
AggregationAccepts(t, width, c) ==
    /\ width # 0 /\ width % 60 = 0
    /\ t.window \div Second >= width
    /\ (t.window \div Second) % width = 0
    /\ t.k # 0
    /\ InHalfOpenUnit(t.value) /\ InOpenUnit(t.percentile)
    /\ InOpenUnit(t.selection_confidence) /\ InOpenUnit(t.approval_confidence)
    /\ c.ef_search # <<>> /\ Increasing(c.ef_search)
    /\ c.ef_search[1] >= t.k
    /\ \A i \in DOMAIN c.ef_search : c.ef_search[i] <= MaxEfSearch
    /\ c.train_fraction # NaN
    /\ SplitThreshold(c.train_fraction) \in 1 .. SplitBuckets - 1

(* in_scope_window_starts: the window reaches back to the epoch at most. *)
WindowFits(t) == t.window \div Second <= RoundEnd

(* connect: the server is parsed, the password read, the pacer made.  A data
   source that fails here is unavailable in every round. *)
Connectable(n) ==
    LET source == raw.data_sources[raw.indexes[raw.cohorts[n].index].data_source]
    IN  /\ source.address \notin Malformed
        /\ source.credentials \in {"none", "environment"}
        /\ InHalfOpenUnit(raw.budget.db_share)

(* statement_timeout_sql rounds up; for PostgreSQL 0 is no timeout. *)
StatementTimeoutMs(timeout) == (timeout + Millisecond - 1) \div Millisecond

(* What a round with a new part makes of cohort n: the first check that fails
   ends it, and the aggregation's come last. *)
TargetOf(n) == raw.targets[raw.cohorts[n].target]

RoundOf(n) ==
    IF ~ForCohort(n) THEN "unresolved"
    ELSE IF ~WindowFits(TargetOf(n)) THEN "underflow"
    ELSE IF ~Connectable(n) THEN "unmeasured"
    ELSE IF AggregationAccepts(TargetOf(n), raw.storage.window_seconds,
                               raw.calibration)
    THEN "runs" ELSE "invalid"

-----------------------------------------------------------------------------
ConfigInit == /\ raw = BaseConfig /\ edits = 0
              /\ verdict = "none"
              /\ projected = [cohort |-> <<>>, result |-> "none"]

Edit(r) == /\ verdict = "none" /\ edits < MaxEdits
           /\ raw' = r /\ edits' = edits + 1
           /\ UNCHANGED <<verdict, projected>>

EditSetting ==
    \E s \in {"calibration", "storage", "budget"} :
      \E f \in DOMAIN raw[s] : \E v \in FieldValues[f] :
        Edit([raw EXCEPT ![s][f] = v])

Maps == {"data_sources", "indexes", "targets", "cohorts"}

EditEntry ==
    \E s \in Maps : \E n \in DOMAIN raw[s] : \E f \in DOMAIN raw[s][n] :
      \E v \in FieldValues[f] : Edit([raw EXCEPT ![s][n][f] = v])

RemoveEntry ==
    \E s \in Maps : \E n \in DOMAIN raw[s] :
      Edit([raw EXCEPT ![s] = [m \in DOMAIN raw[s] \ {n} |-> raw[s][m]]])

RenameCohort ==
    \E n \in DOMAIN raw.cohorts : \E m \in FieldValues["cohort"] :
      Edit([raw EXCEPT !.cohorts =
               [o \in (DOMAIN raw.cohorts \ {n}) \cup {m} |->
                   IF o = m THEN raw.cohorts[n] ELSE raw.cohorts[o]]])

StartTuner == /\ verdict = "none"
              /\ verdict' = IF FromRaw(raw) THEN "accepted" ELSE "refused"
              /\ UNCHANGED <<raw, edits, projected>>

RunCohort(n) == /\ verdict = "accepted" /\ projected.cohort # n
                /\ projected' = [cohort |-> n, result |-> RoundOf(n)]
                /\ UNCHANGED <<raw, edits, verdict>>

ConfigNext == \/ EditSetting \/ EditEntry \/ RemoveEntry \/ RenameCohort
              \/ StartTuner \/ \E n \in DOMAIN raw.cohorts : RunCohort(n)

ConfigSpec == ConfigInit /\ [][ConfigNext]_tunerConfig

-----------------------------------------------------------------------------
(* What startup does not look at: the form of a server, whether a password is
   Unicode, and windows longer than the time since the epoch. *)
Overlooked(n) ==
    LET source == raw.data_sources[raw.indexes[raw.cohorts[n].index].data_source]
    IN  \/ source.address \in Malformed
        \/ source.credentials = "not Unicode"
        \/ ~WindowFits(TargetOf(n))

(* aggregate.rs:37, tuner.rs:122 to 149: only a configuration that did not pass
   startup is found invalid by a round or has a reference that leads nowhere.
   A round refuses a cohort of an accepted one for what startup overlooks, and
   for nothing else: every later check of the same values, in the projection,
   the connection, its pacer and the aggregation, agrees with startup's, also
   for NaN and where values are rounded.  A timeout that was accepted is not
   sent as 0, which is none. *)
AcceptedRuns ==
    /\ projected.result \notin {"unresolved", "invalid"}
    /\ projected.result # "none" =>
          (projected.result = "runs" <=> ~Overlooked(projected.cohort))
    /\ verdict = "accepted"
          => StatementTimeoutMs(raw.budget.statement_timeout) > 0
=============================================================================
