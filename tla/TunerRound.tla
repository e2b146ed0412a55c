----------------------------- MODULE TunerRound -----------------------------
(***************************************************************************)
(* The tuner: rounds that measure the parts of every cohort, keep what was *)
(* measured as a pair of objects per part (truth, sweep), aggregate them   *)
(* and publish the result as round-<ts>.json and latest.json.  The process *)
(* may be cancelled or crash anywhere and start again with another         *)
(* configuration; the store is all that survives.                          *)
(***************************************************************************)
EXTENDS Integers, FiniteSets, FiniteSetsExt

CONSTANTS
    Cohorts,            \* the configured cohorts, numbered in the order of their names
    Parts,              \* the parts collectors will store, numbered in ULID order
    PartCohort,         \* the cohort of a part
    PartWindow,         \* the start of its storage window
    EmptyParts,         \* parts that hold no record (only a count of drops)
    Configs,            \* what a cohort can be configured to
    WindowSeconds,      \* storage.window_seconds
    DurationSeconds,    \* the window of the target
    FaultKinds,         \* what may fail: "store", "body", "database"
    MaxTime, MaxRounds, MaxFaults, MaxStarts,   \* bounds of the model
    None                \* an object that does not exist, an absent value

\* The shapes of what is stored: the metadata of an object of a pair, a
\* measured part, a recommendation and the record of a round.
Files == [cfg : Configs, at : 1..MaxRounds] \cup {None}
Intermediates == [part : Parts, truthAt : 1..MaxRounds, sweepAt : 1..MaxRounds, cfg : Configs]
Effectives == [source : 0..MaxTime, at : 1..MaxRounds, cfg : Configs, carried : BOOLEAN]
VerdictNames == {"insufficient_samples", "target_unmet", "ok_unapproved", "ok_approved"}
RoundRecords ==
    [end : 0..MaxTime, at : 1..MaxRounds, cfg : Configs, listed : SUBSET Parts,
     used : SUBSET Intermediates, error : BOOLEAN, verdict : VerdictNames,
     effective : Effectives \cup {None}]

\* A configuration is seen through the three groups of fields the code
\* compares: index, ef_grid and k; table, column and key; and value,
\* percentile and the two confidences of the target.
ASSUME TunerAssumption ==
    /\ Cohorts \in SUBSET Nat /\ IsFiniteSet(Cohorts)
    /\ Parts \in SUBSET Nat /\ IsFiniteSet(Parts)
    /\ PartCohort \in [Parts -> Cohorts]
    /\ PartWindow \in [Parts -> Nat]
    /\ EmptyParts \in SUBSET Parts
    /\ \A f \in Configs : DOMAIN f = {"shape", "place", "target"}
    /\ WindowSeconds \in Nat \ {0} /\ DurationSeconds \in Nat
    /\ \A p \in Parts : PartWindow[p] % WindowSeconds = 0
    /\ FaultKinds \in SUBSET {"store", "body", "database"}
    /\ MaxTime \in Nat /\ MaxRounds \in Nat /\ MaxFaults \in Nat /\ MaxStarts \in Nat
    /\ DurationSeconds <= MaxTime
    /\ None \notin Effectives /\ None \notin RoundRecords

VARIABLES
    clock,          \* wall clock, in seconds
    parts,          \* cohorts/: the parts stored so far
    truth, sweep,   \* measurements/: metadata of the two objects of each part
    history,        \* calibrations/: round-<ts>.json of each cohort and round end
    latest,         \* calibrations/: latest.json of each cohort
    rounds,         \* rounds started so far: computed_at_us of the running one
    starts, faults, \* starts of the process and faults so far
    pc,             \* where the process is
    cancelled,      \* the CancellationToken
    db,             \* DataSourceRuntime: "connected" or "unavailable"
    config,         \* the configuration the process was started with
    end,            \* round_end of the running round
    todo,           \* cohorts the round has not come to yet
    cohort,         \* the cohort in run_cohort_round
    listed,         \* its source parts
    compatible,     \* its usable intermediates
    pending,        \* its parts left to measure
    abort,          \* phase_a_abort
    output          \* the RoundOutput being published

storeVars == <<parts, truth, sweep, history, latest>>
cohortVars == <<cohort, listed, compatible, pending, abort, output>>
roundVars == <<end, todo>>
processVars == <<cancelled, db, config>>
boundVars == <<clock, rounds, starts, faults>>
vars == <<storeVars, cohortVars, roundVars, processVars, boundVars, pc>>

-----------------------------------------------------------------------------
(* Pure functions.                                                         *)

\* A mutation: a round covers the window that is still open.
AlignedAfter(t) == t - (t % WindowSeconds) + WindowSeconds

\* core window.rs: the start of the window a time lies in.
Aligned(t) == t - (t % WindowSeconds)

\* accounting.rs: the storage windows wholly inside the rolling window.
InScope(roundEnd) ==
    {s \in 0..roundEnd : /\ s % WindowSeconds = 0
                         /\ s >= roundEnd - DurationSeconds
                         /\ s + WindowSeconds <= roundEnd}

\* The metadata of an object of a pair names the configuration and the time
\* of the measurement; computed_at_us is the same for all parts of a round.
Metadata(cfg, at) == [cfg |-> cfg, at |-> at]

\* A mutation: a new target asks for new measurements.
SameConfig(f, g) == f = g

\* The measured fields of a configuration.
SameMeasurement(f, g) == f.shape = g.shape /\ f.place = g.place

\* A mutation: computed_at_us is left out of the comparison.
ReadableAnyTime(t, s) == t # None /\ s # None /\ t.cfg = s.cfg

\* intermediate.rs: a pair can be read only if the metadata agree.
Readable(t, s) == t # None /\ s # None /\ t = s

\* pipeline.rs: a stored pair that this configuration can use.  The metadata
\* of a part's own objects always match it: parts are never rewritten.
Usable(p, cfg) == Readable(truth[p], sweep[p]) /\ SameMeasurement(truth[p].cfg, cfg)

\* An intermediate in memory: the attempts its rows came from.
Intermediate(p, t, s) == [part |-> p, truthAt |-> t.at, sweepAt |-> s.at, cfg |-> s.cfg]

\* A mutation: the target is not compared.
ShapeMatches(cfg, previous) == previous.cfg.shape = cfg.shape

\* aggregate.rs: the previous round was published for the same cohort, index,
\* grid and target.  Each cohort has a latest.json of its own.
CarryFingerprintMatches(cfg, previous) ==
    previous.cfg.shape = cfg.shape /\ previous.cfg.target = cfg.target

\* aggregate.rs: which verdicts the evidence admits.  Without a sample, or
\* after an abort, a round is insufficient; otherwise it is up to the data.
Verdicts(used, aborted) ==
    IF aborted \/ {u.part : u \in used} \subseteq EmptyParts
    THEN {"insufficient_samples"}
    ELSE {"insufficient_samples", "target_unmet", "ok_unapproved", "ok_approved"}

\* The effective block of the previous round, if it may be carried.
Carried(cfg, previous) ==
    IF previous # None /\ CarryFingerprintMatches(cfg, previous) /\ previous.effective # None
    THEN [previous.effective EXCEPT !.carried = TRUE]
    ELSE None

\* A mutation: a target that is not met clears the recommendation.
EffectiveUnlessUnmet(cfg, verdict, previous) ==
    IF verdict = "ok_approved"
    THEN [source |-> end, at |-> rounds, cfg |-> cfg, carried |-> FALSE]
    ELSE IF verdict = "target_unmet" THEN None ELSE Carried(cfg, previous)

\* aggregate.rs: an approved candidate is published; anything else carries
\* the previous block.  recommended_ef and confidence are those computed at
\* `at' for the configuration `cfg'.
EffectiveRecommendation(cfg, verdict, previous) ==
    IF verdict = "ok_approved"
    THEN [source |-> end, at |-> rounds, cfg |-> cfg, carried |-> FALSE]
    ELSE Carried(cfg, previous)

\* aggregate.rs: the round record.
Aggregate(cfg, verdict, previous) ==
    [end |-> end, at |-> rounds, cfg |-> cfg, listed |-> listed, used |-> compatible,
     error |-> abort, verdict |-> verdict,
     effective |-> EffectiveRecommendation(cfg, verdict, previous)]

-----------------------------------------------------------------------------
Init ==
    /\ clock = DurationSeconds
    /\ parts = {}
    /\ truth = [p \in Parts |-> None] /\ sweep = [p \in Parts |-> None]
    /\ history = [c \in Cohorts |-> [e \in 0..MaxTime |-> None]]
    /\ latest = [c \in Cohorts |-> None]
    /\ rounds = 0 /\ starts = 0 /\ faults = 0
    /\ pc = "off" /\ cancelled = FALSE /\ db = "unavailable" /\ config = None
    /\ end = 0 /\ todo = {}
    /\ cohort = None /\ listed = {} /\ compatible = {} /\ pending = {}
    /\ abort = FALSE /\ output = None

\* Time passes.
Tick ==
    /\ clock < MaxTime
    /\ clock' = clock + 1
    /\ UNCHANGED <<storeVars, cohortVars, roundVars, processVars, rounds, starts, faults, pc>>

\* A collector stores a part, during its window or later.
PartArrives(p) ==
    /\ p \notin parts /\ PartWindow[p] <= clock
    /\ parts' = parts \cup {p}
    /\ UNCHANGED <<truth, sweep, history, latest, cohortVars, roundVars, processVars,
                   boundVars, pc>>

\* The bound on faults, and the fault's cost.
Fault(kind) == kind \in FaultKinds /\ faults < MaxFaults /\ faults' = faults + 1

\* Nothing of run_cohort_round stays behind.
LeaveCohort ==
    /\ cohort' = None /\ listed' = {} /\ compatible' = {} /\ pending' = {}
    /\ abort' = FALSE /\ output' = None

\* The process ends, by itself or in a crash; only the store survives.
ProcessEnds ==
    /\ pc' = "off" /\ cancelled' = FALSE /\ db' = "unavailable" /\ config' = None
    /\ end' = 0 /\ todo' = {}
    /\ LeaveCohort
    /\ UNCHANGED <<storeVars, boundVars>>

Crash == pc # "off" /\ ProcessEnds

\* SIGTERM or SIGINT: the token is set, for the process to see when it looks.
Cancel ==
    /\ pc # "off" /\ ~cancelled
    /\ cancelled' = TRUE
    /\ UNCHANGED <<storeVars, cohortVars, roundVars, db, config, boundVars, pc>>

\* A connection attempt, or the discovery that a connection is closed.
Connects ==
    \/ db' = "connected" /\ UNCHANGED faults
    \/ db' = "unavailable" /\ Fault("database")

\* Tuner::start, with any configuration of each cohort.
Start ==
    /\ pc = "off" /\ starts < MaxStarts
    /\ starts' = starts + 1
    /\ config' \in [Cohorts -> Configs]
    /\ Connects
    /\ pc' = "idle"
    /\ UNCHANGED <<storeVars, cohortVars, roundVars, cancelled, clock, rounds>>

-----------------------------------------------------------------------------
(* A round: daemon.rs and tuner.rs.                                        *)

\* A tick of the schedule: closed connections are opened again, once.
StartRound ==
    /\ pc = "idle" /\ ~cancelled /\ rounds < MaxRounds
    /\ rounds' = rounds + 1
    /\ end' = Aligned(clock)
    /\ todo' = Cohorts
    /\ Connects
    /\ pc' = "round"
    /\ UNCHANGED <<storeVars, cohortVars, cancelled, config, clock, starts>>

\* The next cohort, in the order of the names.
NextCohort ==
    /\ pc = "round" /\ ~cancelled /\ todo # {}
    /\ cohort' = Min(todo)
    /\ todo' = todo \ {Min(todo)}
    /\ pc' = "list"
    /\ UNCHANGED <<storeVars, listed, compatible, pending, abort, output, end,
                   processVars, boundVars>>

\* All cohorts are done: the daemon waits for the next tick.
RoundEnds ==
    /\ pc = "round" /\ ~cancelled /\ todo = {}
    /\ pc' = "idle" /\ end' = 0
    /\ UNCHANGED <<storeVars, cohortVars, todo, processVars, boundVars>>

\* Cancellation is seen while waiting, between cohorts, before a part, before
\* a sample's transaction, and before publishing: the daemon ends.
SeesCancellation ==
    /\ pc \in {"idle", "round", "measure"} /\ cancelled
    /\ ProcessEnds

\* An error of run_cohort_round: the round goes on with the next cohort.
CohortFails ==
    /\ pc' = "round"
    /\ LeaveCohort

\* A LIST, a GET or the parsing of a source part fails.
ReadFails ==
    /\ pc \in {"list", "measure", "previous"}
    /\ pc = "measure" => pending # {}
    /\ Fault("store")
    /\ CohortFails
    /\ UNCHANGED <<storeVars, roundVars, processVars, clock, rounds, starts>>

-----------------------------------------------------------------------------
(* A cohort: run_cohort_round.                                             *)

\* Source parts and measurements are listed and every complete pair is read.
\* Only the tuner writes measurements, and two arrivals of parts commute, so
\* that the listings are taken at one instant loses nothing.
List ==
    /\ pc = "list"
    /\ listed' = {p \in parts : PartCohort[p] = cohort /\ PartWindow[p] \in InScope(end)}
    /\ compatible' = {Intermediate(p, truth[p], sweep[p]) :
                         p \in {q \in listed' : Usable(q, config[cohort])}}
    /\ pending' = {p \in listed' : ~Usable(p, config[cohort])}
    /\ pc' = "measure"
    /\ UNCHANGED <<storeVars, cohort, abort, output, roundVars, processVars, boundVars>>

\* measure_prepared_part: every sample of the next part is measured, or found
\* to fail on a connection that works.
MeasureCompletes ==
    /\ pc = "measure" /\ ~cancelled /\ pending # {}
    /\ db = "connected" \/ Min(pending) \in EmptyParts
    /\ pc' = "truth"
    /\ UNCHANGED <<storeVars, cohortVars, roundVars, processVars, boundVars>>

\* The table has fewer than k rows: no part is measured any more.
TableSmallerThanK ==
    /\ pc = "measure" /\ ~cancelled /\ pending # {}
    /\ db = "connected" /\ Min(pending) \notin EmptyParts
    /\ abort' = TRUE /\ pending' = {}
    /\ UNCHANGED <<storeVars, cohort, listed, compatible, output, roundVars, processVars,
                   boundVars, pc>>

\* A mutation: the parts measured so far are published.
ConnectionLossBreaks ==
    /\ pc = "measure" /\ pending # {} /\ Min(pending) \notin EmptyParts
    /\ IF db = "connected" THEN Fault("database") ELSE UNCHANGED faults
    /\ db' = "unavailable"
    /\ pending' = {}
    /\ UNCHANGED <<storeVars, cohort, listed, compatible, abort, output, roundVars,
                   cancelled, config, clock, rounds, starts, pc>>

\* A mutation: the error leaves the loop over the cohorts.
ConnectionLossEndsRound ==
    /\ pc = "measure" /\ pending # {} /\ Min(pending) \notin EmptyParts
    /\ IF db = "connected" THEN Fault("database") ELSE UNCHANGED faults
    /\ db' = "unavailable"
    /\ todo' = {}
    /\ CohortFails
    /\ UNCHANGED <<storeVars, end, cancelled, config, clock, rounds, starts>>

\* The connection is lost, or was: it stays so until the next round, and the
\* cohort is given up.
ConnectionUnavailable ==
    /\ pc = "measure" /\ pending # {} /\ Min(pending) \notin EmptyParts
    /\ IF db = "connected" THEN Fault("database") ELSE UNCHANGED faults
    /\ db' = "unavailable"
    /\ CohortFails
    /\ UNCHANGED <<storeVars, roundVars, cancelled, config, clock, rounds, starts>>

\* What an object of the current part's pair says of itself.
Measured == Metadata(config[cohort], rounds)

PutTruth ==
    /\ pc = "truth"
    /\ truth' = [truth EXCEPT ![Min(pending)] = Measured]
    /\ pc' = "sweep"
    /\ UNCHANGED <<parts, sweep, history, latest, cohortVars, roundVars, processVars, boundVars>>

\* A mutation: the part is not taken off the list.
PutSweepKeepsPart ==
    /\ pc = "sweep"
    /\ sweep' = [sweep EXCEPT ![Min(pending)] = Measured]
    /\ compatible' = compatible \cup {Intermediate(Min(pending), Measured, Measured)}
    /\ pc' = "measure"
    /\ UNCHANGED <<parts, truth, history, latest, cohort, listed, pending, abort, output,
                   roundVars, processVars, boundVars>>

\* With the second object the part is measured.
PutSweep ==
    /\ pc = "sweep"
    /\ sweep' = [sweep EXCEPT ![Min(pending)] = Measured]
    /\ compatible' = compatible \cup {Intermediate(Min(pending), Measured, Measured)}
    /\ pending' = pending \ {Min(pending)}
    /\ pc' = "measure"
    /\ UNCHANGED <<parts, truth, history, latest, cohort, listed, abort, output, roundVars,
                   processVars, boundVars>>

\* Measuring is over and nobody has cancelled.
AllMeasured ==
    /\ pc = "measure" /\ ~cancelled /\ pending = {}
    /\ pc' = "previous"
    /\ UNCHANGED <<storeVars, cohortVars, roundVars, processVars, boundVars>>

\* The previous round is read from latest.json and the round is aggregated.
\* If the body of latest.json cannot be read, there is no previous round.
LoadPreviousAndAggregate ==
    /\ pc = "previous"
    /\ \E verdict \in Verdicts(compatible, abort) :
          \/ /\ output' = Aggregate(config[cohort], verdict, latest[cohort])
             /\ UNCHANGED faults
          \/ /\ latest[cohort] # None
             /\ output' = Aggregate(config[cohort], verdict, None)
             /\ Fault("body")
    /\ pc' = "history"
    /\ UNCHANGED <<storeVars, cohort, listed, compatible, pending, abort, roundVars,
                   processVars, clock, rounds, starts>>

\* A mutation: a failed PUT of the history is ignored.
PutHistoryIgnoresError ==
    /\ pc = "history"
    /\ \/ history' = [history EXCEPT ![cohort][end] = output] /\ UNCHANGED faults
       \/ Fault("store") /\ UNCHANGED history
    /\ pc' = "latest"
    /\ UNCHANGED <<parts, truth, sweep, latest, cohortVars, roundVars, processVars,
                   clock, rounds, starts>>

PutHistory ==
    /\ pc = "history"
    /\ history' = [history EXCEPT ![cohort][end] = output]
    /\ pc' = "latest"
    /\ UNCHANGED <<parts, truth, sweep, latest, cohortVars, roundVars, processVars, boundVars>>

\* With latest.json the cohort is done.
PutLatest ==
    /\ pc = "latest"
    /\ latest' = [latest EXCEPT ![cohort] = output]
    /\ pc' = "round"
    /\ LeaveCohort
    /\ UNCHANGED <<parts, truth, sweep, history, roundVars, processVars, boundVars>>

\* A PUT fails; the object may have been written all the same.
PutFails ==
    /\ Fault("store")
    /\ CohortFails
    /\ \/ pc = "truth" /\ truth' \in {truth, [truth EXCEPT ![Min(pending)] = Measured]}
          /\ UNCHANGED <<sweep, history, latest>>
       \/ pc = "sweep" /\ sweep' \in {sweep, [sweep EXCEPT ![Min(pending)] = Measured]}
          /\ UNCHANGED <<truth, history, latest>>
       \/ pc = "history" /\ history' \in {history, [history EXCEPT ![cohort][end] = output]}
          /\ UNCHANGED <<truth, sweep, latest>>
       \/ pc = "latest" /\ latest' \in {latest, [latest EXCEPT ![cohort] = output]}
          /\ UNCHANGED <<truth, sweep, history>>
    /\ UNCHANGED <<parts, roundVars, processVars, clock, rounds, starts>>

-----------------------------------------------------------------------------
\* Steps of a round.
RoundStep ==
    \/ NextCohort \/ RoundEnds \/ ReadFails \/ List
    \/ MeasureCompletes \/ TableSmallerThanK \/ ConnectionUnavailable
    \/ PutTruth \/ PutSweep \/ AllMeasured \/ LoadPreviousAndAggregate
    \/ PutHistory \/ PutLatest \/ PutFails \/ SeesCancellation

Next ==
    \/ Tick \/ \E p \in Parts : PartArrives(p)
    \/ Start \/ StartRound \/ Cancel \/ Crash
    \/ RoundStep

Spec == Init /\ [][Next]_vars

\* A tokio task that can go on goes on; nothing else is promised.
FairSpec == Spec /\ WF_vars(RoundStep)

-----------------------------------------------------------------------------
(* Properties.                                                             *)

\* What measurements, and what recommendations, must agree on.
SameIndex(f, g) == f.shape = g.shape /\ f.place = g.place
SameFingerprint(f, g) == f.shape = g.shape /\ f.target = g.target

\* The round records in the store.
Records == {history[c][e] : c \in Cohorts, e \in 0..MaxTime} \cup {latest[c] : c \in Cohorts}
Published == Records \ {None}

\* The type of the tuner's state: places of the process, objects in the store.
TypeOK ==
    /\ clock \in 0..MaxTime /\ rounds \in 0..MaxRounds
    /\ starts \in 0..MaxStarts /\ faults \in 0..MaxFaults
    /\ parts \subseteq Parts
    /\ truth \in [Parts -> Files] /\ sweep \in [Parts -> Files]
    /\ Published \subseteq RoundRecords
    /\ pc \in {"off", "idle", "round", "list", "measure", "truth", "sweep",
               "previous", "history", "latest"}
    /\ cancelled \in BOOLEAN /\ db \in {"connected", "unavailable"}
    /\ config = None \/ config \in [Cohorts -> Configs]
    /\ end \in 0..MaxTime /\ todo \subseteq Cohorts
    /\ cohort \in Cohorts \cup {None}
    /\ listed \subseteq Parts /\ pending \subseteq listed
    /\ compatible \subseteq Intermediates /\ abort \in BOOLEAN
    /\ output \in RoundRecords \cup {None}

\* A round is computed from pairs whose two objects were written by one
\* measurement, made for the index, grid, k and table of the round: no crash
\* between the PUTs and no change of configuration and back mixes them.
PairsFromOneAttempt ==
    \A r \in Published : \A u \in r.used :
        u.truthAt = u.sweepAt /\ SameIndex(u.cfg, r.cfg)

\* A lost connection, a failure or a cancellation never publishes a partial
\* round: unless the table was too small, every listed part is used, once.
NoPartialRound ==
    \A r \in Published :
        /\ {u.part : u \in r.used} \subseteq r.listed
        /\ \A u, v \in r.used : u.part = v.part => u = v
        /\ ~r.error => {u.part : u \in r.used} = r.listed
        /\ r.error => r.verdict = "insufficient_samples"

\* tuner-spec.md 2.2: `every published effective is consistent with its own
\* round's top-level fields', over any number of carries, restarts and
\* changes of the configuration.
EffectiveConsistent ==
    \A r \in Published : r.effective # None =>
        /\ SameFingerprint(r.effective.cfg, r.cfg)
        /\ r.effective.source <= r.end /\ r.effective.at <= r.at
        /\ ~r.effective.carried => r.effective.at = r.at /\ r.verdict = "ok_approved"

\* latest.json is never ahead of the history: its round is there, in the
\* same or in a later computation.
HistoryFirst ==
    \A c \in Cohorts : latest[c] # None =>
        LET h == history[c][latest[c].end]
        IN  h # None /\ h.at >= latest[c].at /\ (h.at = latest[c].at => h = latest[c])

\* tuner-spec.md 3.2: a restart resumes `with at most one part of redone
\* work'.  A pair that the running configuration can use is never written
\* again.
UsablePairsKept ==
    [][pc # "off" => \A p \in Parts :
           truth[p] # None /\ truth[p] = sweep[p]
             /\ SameIndex(truth[p].cfg, config[PartCohort[p]])
           => truth'[p] = truth[p] /\ sweep'[p] = sweep[p]]_vars

\* tuner-spec.md 3.2: only a missing or malformed latest.json loses the
\* recommendation.  As long as the fingerprint stays, a recommendation once
\* in effect is replaced by another or carried, and never vanishes.
EffectiveNotLost ==
    [][\A c \in Cohorts :
           /\ latest[c] # None /\ latest[c].effective # None
           /\ SameFingerprint(latest'[c].cfg, latest[c].cfg)
           => latest'[c].effective # None]_vars

\* tuner-spec.md 2.2: `never serve a recommendation calibrated for a
\* different target or index'.  The table, column and key of the index are not
\* compared.
NeverForAnotherIndex ==
    \A c \in Cohorts : latest[c] # None /\ latest[c].effective # None =>
        SameIndex(latest[c].effective.cfg, latest[c].cfg)

\* Every part of a cohort that a round of this end lists is measured.
Cached(c) ==
    \A p \in parts : PartCohort[p] = c /\ PartWindow[p] \in InScope(end) =>
        Usable(p, config[c])

\* A round that has begun ends: no part, retry or failure keeps it running.
RoundsEnd == pc = "round" ~> pc \in {"idle", "off"}

\* tuner-spec.md 3.2: a failure stays in its cohort, and `a fully cached
\* cohort may still aggregate and publish' while the database is lost.  For
\* runs in which the store does not fail.
CachedCohortsPublish ==
    \A c \in Cohorts, n \in 1..MaxRounds :
        (pc = "round" /\ rounds = n /\ c \in todo /\ Cached(c))
          ~> \/ pc = "off" \/ ~Cached(c)
             \/ latest[c] # None /\ latest[c].at = n

=============================================================================
