# VectorSeam: a TLA+ verification project

VectorSeam captures the query vectors an application sends to a vector index,
stores them in an object store, replays samples of them against the database
and recommends a search parameter (`ef_search`) per cohort. This directory
models the program in TLA+, checks it with TLC on small instances, and proves
the most important facts with TLAPS for all values of the constants.

## 1. Inventory

| part | source | state | operations | hard behaviour |
|---|---|---|---|---|
| memory tracker | `crates/vectorseam-collector/src/memory.rs` | one atomic byte counter; guards own a share of it | `try_reserve`, drop of a guard | lock-free loops on many threads |
| readers | `.../reader.rs`, `counters.rs` | the frame in hand; the ledger of dropped frames per cohort | read, stamp, reserve, `try_send`, count a drop | run in parallel with the writer; cut off by shutdown or abort |
| writer | `.../writer.rs`, `time.rs`, `core/window.rs` | open window, per-cohort buffers and drop counts | take a frame, spill a cohort, close a window, PUT a part | awaits PUTs while readers go on; timer against channel; wall clock may be set |
| accept loop | `.../lib.rs`, `runtime/src/lib.rs` | set of reader tasks, shutdown phase | accept, join, drain, signal, abort, await the writer | three timers; a writer that dies |
| recommendation server | `crates/vectorseam-recommendation-server` | two bounded caches, shared lookups, load permits, connections | GET of a recommendation, drain | a shared lookup whose leader is dropped; deadlines; ages that add up |
| tuner round | `crates/seam/src/pipeline.rs`, `tuner.rs` | intermediates and results in the object store | list parts, measure, write truth and sweep, aggregate, write history and latest | crash or failure between two PUTs; late parts; changed configuration |
| tuner aggregation | `aggregate.rs`, `accounting.rs`, `population.rs`, `math.rs` | none: a function of the measured samples and the previous round | scope, deduplicate, split, select, approve, carry | order of the input; boundaries of the confidence |
| tuner daemon and database | `daemon.rs`, `pacer.rs`, `database.rs`, `measure.rs` | next tick, cancellation, a connection with its pacer | run rounds on a schedule, one paced transaction per sample, reconnect, close | overrunning rounds; a server that does not answer; cancellation |
| tuner configuration | `config.rs` | none after startup | validate | checked again, elsewhere, while rounds run |
| codecs and names | `crates/vectorseam-core/src/*.rs`, `python/vectorseam/frame.py` | none | encode and parse frames and segments, object keys, dates | cut and damaged objects; one grammar in two languages |
| SDK capture and sender | `python/vectorseam/vector_capture.py`, `vector_sender.py` | byte-bounded queue, sampler, sender thread, socket | capture, start, stop, reconnect | application threads against the sender thread; `stop` that times out; partial writes |
| SDK recommendation client | `python/vectorseam/recommendation.py` | cache of recommendations | get with fallback | threads sharing a cache without a lock |

The parts meet in three places. The SDK sends frames over a socket to a
reader. Readers hand frames to the writer over a bounded channel and tell it of
dropped frames through a mutex-protected ledger; both use the memory counter.
The writer's parts, the tuner's intermediates and results, and the
recommendation server's reads meet in the object store, where a PUT is atomic
and nothing else is.

What makes each part correct:

* memory tracker: the counter is the sum of the live guards, within the limit,
  and a refusal is justified at some instant of the call;
* readers and writer: every frame received is kept or counted as dropped, once;
  a kept frame is in exactly one part, of its cohort, of a window that is not
  over before the frame arrived; memory stays within the configured bound;
* accept loop: shutdown ends and leaves nothing behind; a dead writer ends the
  daemon;
* tuner rounds: a result never mixes intermediates of two configurations, a
  crash loses at most the current round, a failure stays in its cohort;
* aggregation: the population does not depend on the order of the input, a
  recommendation has evidence from samples that did not choose it;
* daemon: rounds stay on their grid, each connection is used within its share, no
  transaction is left open on it, what is abandoned ends by itself, shutdown ends;
* recommendation server: answers have a bounded age, shutdown ends and spares
  lookups that can still end;
* SDK: the queue's byte count is exact, frames leave whole, in order and once,
  a stopped sender leaves nothing behind, served values have a bounded age;
* codecs, names, configuration: what one side writes or accepts the other reads
  or accepts, and nothing that was cut is taken for whole.

`PROJECT.json` lists the hazards line by line.

## 2. Modules

| module | role |
|---|---|
| `ByteSums` | the bytes of a set of items, defined without recursion so that it can be reasoned about |
| `MemoryBudget` | abstract: a reservation is granted or refused at one instant |
| `MemoryTracker` | the two compare-and-swap loops of `memory.rs`, one step per atomic access |
| `CaptureLog` | abstract: the fate of a frame |
| `Collector` | readers, channel, ledger, writer, accept loop and shutdown, composed |
| `TunerRound` | rounds of the tuner over the object store, with crashes, cancellation and changes of the configuration |
| `TunerDatabase` | the daemon's schedule, one connection, its pacer and the transactions of a round |
| `Estimator` | aggregation of a rolling window, with exact confidences |
| `TunerConfig` | startup validation, and the checks of the same values later, those that startup does not make included |
| `LatestArtifact` | `latest.json` between the tuner, which replaces it, and the server, which judges it |
| `RecommendationServer` | connections, the handler, shared lookups, caches, drain |
| `RecommendationClient` | the SDK's client; its server is what `AnswersFresh` promises |
| `VectorSender` | the SDK's queue, sender thread and streams |
| `AdaptiveSampler` | the SDK's rate estimate for one cohort |
| `SegmentCodec` | a frame from the SDK into a segment, through a store, and to the tuner |
| `CohortNames` | object keys and listings, and what they need of names |
| `NameGrammar` | the grammar of names: the SDK's regular expression and the core library's code, over characters |
| `WindowDates` | dates in the names of windows |
| `MCDatabase` | `TunerDatabase` with a ledger of the time its database is owed, whatever connections are made |
| `MCCollector`, `MCTunerRound`, `MCRecommendationClient` | instances for TLC |
| `MCRecommendation` | the server and the threads of a client, side by side over the same `latest.json` |
| `MCComponents` | the parts that share no state with another, side by side |
| `DataLemmas` | lemmas about byte sums, induction over naturals, functions defined by recursion, and sequences |
| `ComponentProofs` | theorems: the tracker's limit, the grid of rounds and the share of the database, startup validation, the sampler |
| `CollectorProofs` | theorems: types and windows of the collector, frames, memory, the drained exit, and that it implements `CaptureLog` |
| `TunerRoundProofs` | theorems: what the tuner keeps and publishes |
| `EstimatorProofs` | theorems: population, verdict and selection of a round |
| `CodecProofs` | theorems: segments read back, names of cohorts and of windows |
| `RecommendationProofs` | theorems: ages of answers and of served values, the drain, the size of the client's cache |
| `SenderProofs` | theorems: the queue, the streams and the lifecycle of the sender |

### MemoryTracker

A slot is a task that calls `try_reserve`, may get a guard and later drops it;
it can call again. `Load` is the first read of either loop, `ReturnNone` the
refusal, `ReserveCas` and `ReleaseCas` the successful exchanges, `CasFails` a
failed one, which may be spurious because the code uses
`compare_exchange_weak`. The clamp on underflow in `release` is there;
`CounterIsExact` shows it never acts.

### Collector

A frame is an identity with a cohort and a size. Counts are sets of frames:
`ledger` is `pending_cohort_drops`, `drops` is the part of
`received_frame_count` that is not a record, `records` are the buffered records
of all cohorts, and `Of(c, S)` is the slice of one cohort. This makes "counted
twice" visible. A frame rejected by the reader only moves a statistics counter
and is left out. The memory counter is atomic here: that is what
`MemoryTracker` shows.

Reader `c` is at `rpc[c]`: `reading` (the only await), then `stamped`,
`reserved` or `refused`, then after `try_send` back at `reading`, or `full` /
`closed` with the event returned, and `dropFull` / `dropClosed` between counting
the drop and dropping the guard. Steps end where another task can see the
difference.

The writer is at `wpc`: `select` (the top of its loop), `fold`, `pressure`,
`add` (the three parts of `handle_frame` between which a flush may be awaited),
`flush` (cohorts in `todo` remain) and `put` (a part is taken, its guards are
dropped one by one, its PUT is awaited); `goal` says where to go on when the
flush is done. A PUT succeeds, or fails or times out; one that was given up may
still reach the store (`LateLand`). `due` is the sleep of the `select!`: it
counts real time, so setting the wall clock (`ClockSet`) does not move it.

The main task is at `main`: `accepting`, `draining` (first loop of
`drain_connections`), `stopping` (signal sent), `aborting`, `closing` (the last
sender is dropped), `killing` (the writer is aborted), `finished`. The timers
between the phases are not tied to the clock: each may end at any moment.

A dead writer (`WriterDies`) drops what it owns, the receiver included. A
segment that cannot be serialized and a window that cannot be formatted are not
modelled: both need a year or a size outside of what the configuration admits. Nor
is a clock set to before the epoch, for which `close_window` takes the window after
the one it closes.

### TunerRound

The store is modelled as what the objects say of themselves: `truth[p]` and
`sweep[p]` hold the metadata of a part's pair (configuration and
`computed_at_us`), `history` and `latest` hold round records. A configuration is
seen through the three groups of fields the code compares: `shape` (index name,
`ef_grid`, `k`), `place` (table, column, key) and `target` (value, percentile,
confidences). `is_compatible` compares the first two, `carry_fingerprint_matches`
the first and the third. In an effective block, `cfg` and `at` stand for
`recommended_ef` and `confidence`: they say what these were calibrated for and
when.

`pc` follows `run_cohort_round`: `list`, `measure` (top of the loop over
`pending`), `truth` and `sweep` (the PUTs of a part), `previous` (GET of
`latest.json`, aggregation), `history` and `latest` (the PUTs of the round);
around it `round` (the loop over cohorts), `idle` (between ticks) and `off`. All
that lies between two awaits with no durable effect is one step: the samples of
a part are buffered in memory, so a part is measured in one step. A PUT that
reports failure may have written its object. A crash (`Crash`) may come
anywhere, and `Start` picks any configuration. `computed_at_us` is the number of
the round: that two rounds never share a microsecond is an assumption, and so is
that the tuner's clock (`daemon.rs:136`) is not set back: `EffectiveConsistent` orders
records by it. `RoundsEnd` assumes that every operation on the store ends. All
cohorts share one data source, which is the case in which one can harm the other.

### RecommendationServer and RecommendationClient

Both extend `LatestArtifact`: the contents `latest.json` can have, as
`load_effective_ef` tells them apart, the verdict on each, and `since`, a
history of how long ago each verdict was last the stored object's. This is what
"fresh" is measured against.

In the server a connection's task is at `pc[c]`: `head` or `idle` (hyper waits
for a request), `positive`, `negative`, `permit`, `join` (the steps of
`get_ef_search` up to `try_get_with`), `get` and `body` (this request leads the
lookup), `wait` (another one does), `insert`, `respond`. A connection that ends,
for any reason, drops its request with its permit and the lookup it leads; a
waiter then goes back to `try_get_with` (`TryGetWith` covers both) and leads
with a deadline of its own. Failures are handed to the waiters and are not kept.
Deadlines and lifetimes count down with `Tick`, which waits for all steps that
need neither a peer nor the store: these take no time of their own. `Evict`
drops any entry at any time, which is more than the caches do. moka and hyper
are external: the model has what the code relies on. `GracefulClose` also closes a
connection whose first request head is half sent, which hyper leaves to the head's
deadline; the drain's deadline covers that case. A peer that does not read its
response, and the pause after a failed `accept`, are left out.

In the client a thread is at `tpc[t]`: `count` (the size check), `fetch`, `save`,
`return`. Steps end where another thread can see the difference, since the
dictionary has no lock of its own. `ServerAnswers` is the moment the server
answers, `FetchReads` the later one at which the client has the answer: an answer
grows older on its way, and may be lost. `spent` is the time since the thread
read the clock. `urlopen`'s timeout is for each operation on the socket, so a fetch
has no deadline of its own; `MaxFetch` bounds it for TLC and the proofs hold for any.
An entry that was written by a failed fetch is marked `refreshed = FALSE`: the code
does not know it, and such a value may be of any age.

### VectorSender

`wpc[w]` follows `_run` of each sender thread: `loop`, `ensure` (the look at the
current socket), `connect`, `adopt` (the second lock of `_ensure_connected`),
`drain` and `dequeue`, `flush` (the wait), `send`, `finally` (also after an error that is
no `OSError`, `SocketRaises`). `cpc` follows a
`stop()`: the event, the lock, the join, which may time out at once, and the
last close. Writing is byte by byte: `partial` is the length of the unfinished
frame at the end of a stream and `torn` the streams where another frame began
there. Captures are numbered, so the bytes of a row of frames are the `ByteSum`
of the frames in it. Sockets are objects that are used again when nothing refers to them, so
that "the same socket" is told apart from "a socket".

### TunerDatabase

One data source, whose cohorts and samples are counted. `at` follows the daemon:
`wait`, `connect`, `next` (the top of the loops over cohorts and samples),
`cooldown` (the pacer's `select!`), `begin`, `stmt`, `commit`, `rollback` (an
operation is in flight), `closing`, `stopped`. All clocks are relative, so the
state space is finite without a bound on time. `Statements` statements stand
for the settings, the exact query and the sweep; the first is the one that can
find the table too small. `debt` is a history of the idle time owed, counted tick by
tick, against the pacer's sum at the end of a transaction. What is read and
published meanwhile is in `TunerRound`.

The two ends of a connection are separate. `session` is the backend's: idle, open,
or capped, once the transaction has set its `statement_timeout`. A client that gives a
connection up (`ConnectionLost`) drops it and aborts the driver, which tells the
server nothing but that the socket is closed; the backend goes on with its statement
for some time, `orphan`, which the `statement_timeout` bounds if it was set. A socket
may close because the backend ended or only because the way to it did
(`SocketCloses`). A backend whose client vanished while it was idle in a
transaction ends when the server finds the socket closed, which is taken to be at once.

A connection's pacer starts with nothing owed, so `DatabaseSpared` speaks of a
connection. `MCDatabase` adds `backlog`, what is owed to the database whatever
connections used it, for the documented share of the database, which does not hold.

### Estimator

The samples of three parts grow one by one and rounds aggregate them as the
window rolls on. `Confidence` is exact: the regularised incomplete beta function
that the code evaluates is, for its integer arguments, a sum of binomial
terms, kept here as a numerator over `Den^(n+1)` (`Powers`). `KeepFirst` is one
turn of the loop of `deduplicate_samples`. `aggregate` feeds it in `(ulid, index)`
order; the function promises its result for any order, so `PopulationIsExact`
asks for it over every permutation of what was read. `RecallAtK`, `Deduplicate`,
`QuantileType7`, `SelectEf` and `EffectiveRecommendation` keep the names of the
code. `is_train_member` is a set of hashes: which vector is in train is left to
the instance.

### SegmentCodec, CohortNames, NameGrammar, WindowDates, TunerConfig, AdaptiveSampler

In `SegmentCodec` a buffer is a sequence of units, one per fixed field, so the
lengths in it are in units. Frames the SDK's encoder accepts are kept or
dropped, written as a segment, the object is cut anywhere or one unit of it is
damaged, and the tuner prepares and measures what is left. `Scan` is the loop of
`read_segment`, with `NextRecord` its body. The collector's limit on the
length of a frame, which the SDK does not know, is the instance's: all frames are within it. `CohortNames` takes
segments of names as tokens with a length and a kind, and stores and lists objects
of every name up to one segment too long. In `NameGrammar` a name is typed
character by character, and each prefix is put to the SDK's regular expression and to
the core library's checks. `SegmentEnds` is the set of places where a match of one
segment can end, lookaheads included, and `NamePatternMatches` chains them, as the
expression does; `IsValidCohortName` splits the name and checks whole segments, by
bytes. `WindowDates` counts a calendar month by month
and compares `civil_from_days` with it for each day, and `NameAt` names the windows
that start on the last day of each month, whose last one may end in the next. A
time is a day and a second, since TLC's integers do not hold the seconds of the
epoch; `IntoWindowOfEpoch` shows that the remainder is that of their sum. `TunerConfig` starts from a
working configuration and edits up to two fields, each to values on both sides
of its limits, NaN included. `RoundOf` is what a round makes of a cohort: the checks
it shares with startup (`AggregationAccepts`, the pacer's share) and those startup
has no counterpart of, which are the form of a server (`parse_server`), a password
that is not Unicode, and a window that reaches back before the epoch. `AdaptiveSampler` compares the estimate, which calls
bring up to date, with `Average`, which is updated at the end of every bucket.

## 3. Runs

| run | shows | bounds |
|---|---|---|
| `collector` | types, memory, accounting, drained exit | 2 connections, 3 frames in 2 cohorts, channel of 1, one window boundary; caps so that spills, refusals and a full channel all happen |
| `collector_lifecycle` | refinement of `CaptureLog`, windows when the clock is set, shutdown ends, a dead writer ends the daemon | 1 connection, 2 frames of 2 cohorts, one setting of the clock, writer may panic |
| `collector_names` | violation: a record under the wrong window's name | as `collector`, 2 frames |
| `collector_pressure` | violation: memory pressure without a flush | channel of 3, so every drop is for memory |
| `tuner` | no partial round, cached cohorts publish, rounds end | 2 cohorts, one with two parts in a window, the other with one without records, 2 round ends, 2 rounds, up to two failures of the database, parts that arrive late, cancellation at any time |
| `tuner_resume` | pairs of one measurement, effective consistent, history before latest, nothing redone, no recommendation lost | 1 part, 4 rounds, 3 starts, 4 configurations, 2 faults of the store: the fewest that let a configuration change and change back with a PUT missing each time |
| `tuner_carry` | violation: recommendation lost | 1 part, 2 rounds, body of `latest.json` unreadable once |
| `tuner_index` | violation: recommendation of another table | 1 part, 2 starts, 2 configurations |
| `recommendation` | age of answers, the drain, shutdown; age of the values a client returns | server: 3 connections for 1 cohort, 2 permits: a leader, a waiter and a refused request; one replaced artifact; lifetimes 1 and 2, so that an entry can outlive the shared result. Client: 2 threads, 2 names of which one is refused, room for 1, a fetch of up to 2 ticks with a lifetime of 2, so that an entry may be stale when it is stored |
| `sdk_cache` | violation: more cohorts cached than `max_cohorts` | as the client of `recommendation`, with 3 names |
| `database_share` | violation: the database gets less rest than its share after a reconnect | interval 3, both deadlines 2, 1 sample of 2 statements |
| `components` | the parts that share no state with another, one at a time: `active` picks one and the others stay at rest | tracker: 4 slots of 1, 2, 2, 3 bytes under a limit of 5. Codec: 2 records, 1 drop, a cut at every length, every unit damaged to six values. Estimator: 3 parts in 2 windows, 3 samples, 3 hashes, 2 ef values, 3 rounds. Keys: 9 tokens, up to 3 segments, 3 objects. Configuration: 2 edits. Sampler: 5 buckets of 2 s, 3 calls each. Calendar: 1970 to 2109, every day; windows of 42 minutes, which do not divide the day, around the last day of each month. Grammar: every string of up to 5 of 6 characters, one of two bytes, with a marker of two characters, segments of 3 and names of 5. Daemon: interval 5, client deadline 2, statement deadline 3, 2 cohorts of a sample each, 2 statements: a query can be abandoned with time left. Sender: 3 frames of 1, 3 and 1 bytes, a queue of 4, batches of 2, 2 starts, 2 stops from 2 threads, 2 sockets |

Where the parts of a component's promise belong together, a run checks their
conjunction: `SegmentsReadBack` (encoded frames are usable, segments read back,
cuts are refused, accepted objects are covered, records are accounted for),
`PopulationIsExact` (scope, first captures), `VerdictIsSound` (short of samples,
unmet, quantiles), `LazyRolloverIsExact` (grid, average, slow cohorts), `WindowNamesExact` (dates,
order of names), `DatabaseSpared` (no open transaction, the
share, what is abandoned, cancellation),
`DaemonProgresses` (rounds recur, shutdown is obeyed) and `LifecycleClean` (one
sender, no socket left). Each part has a definition and a comment of its own.

Three frames suffice for the accounting properties, which speak of at most two
frames at a time while a third causes the pressure; one boundary suffices for
the window properties, which relate the window of a record to the open one. In
`recommendation` a third connection lets a request join a lookup whose
leader has just been replaced. The sender's second frame does not fit a batch and
is sent alone, and three frames do not fit the queue. The daemon's interval is
shorter than a round can take, so ticks are skipped, and longer than the shortest
one. Selection and approval in the estimator are 7/8 and 6/8 at a percentile of
1/2: two train samples and one test sample suffice, three can be had. The
calendar stops short of the end of its 400-year era, but the last day of the era
before it, 29 February 2000, is in it. Symmetry is used only in runs without
liveness, between the connections of the collector and, in `sdk_cache`, the threads of the client.
`recommendation` has two verdicts, a value and none; that a defect ages like them
is left to the theorem `AnswersAreFresh`.

Fairness. `Collector!FairSpec` assumes what tokio gives: a task that can run is
run, a joined task is reported, a timer ends, and a PUT ends at the latest by
`put_timeout`. Nothing is assumed of clients, of the success of a PUT, of the
clock, or of the writer staying alive. `TunerRound!FairSpec` is fair to the steps
of a round, as the tuner is one task; nothing is assumed of ticks, arrivals, or
the success of anything, and the bounds on rounds, faults and starts only make
runs end. `RecommendationServer` is fair to the steps of the server's own tasks
and to time; peers and the store may never answer. `VectorSender` is fair to the
sender thread: it is scheduled, each of its waits has a timeout, its sends have a deadline, and a
batch is finite. `TunerDatabase` is fair to the daemon's task and to time, and
to nothing of the database server.

Six runs end in a violation, on purpose; each is a disagreement between the
code and `docs/collector-spec.md`, `docs/tuner-spec.md` or the docstrings of
`recommendation.py`, recorded under `findings`.

* `NameNeverLies`: a frame stamped in one window and taken from the channel
  after the timer opened the next one is stored under the next.
  `NoRecordFromTheFuture` is the half that holds.
* `GlobalPressureFlushes`: the writer flushes the largest cohort only when
  `used_bytes >= live_memory_bytes`, but readers are refused as soon as their
  frame does not fit, so the counter usually stops short of the limit.
* `EffectiveNotLost`: `load_previous_round` treats an I/O error while reading the
  body of `latest.json` like a malformed record. The round publishes
  `effective: null` over an intact recommendation. Without that fault the
  property holds (run `tuner_resume`).
* `NeverForAnotherIndex`: the carry check compares the index by name only.
* `BackendWithinShare`: a reconnect makes a new pacer (`database.rs:121`), and what the
  lost connection's transaction owed is forgotten. A server that makes every
  round's connection time out is used without rest at each round's start.
  `ConnectionWithinShare`, a part of `DatabaseSpared`, is the half that holds.
* `CacheWithinMaximum`: threads that check the size of the cache together all pass.
  `CacheBounded`, which is proved, says by how much the maximum can be exceeded.

## 4. Proofs

`ComponentProofs` proves of `MemoryTracker!Spec`, for any finite set of tasks, any sizes and any
limit: the type invariant, `CounterIsExact`, `WithinLimit` (`TrackerBounded`), and
that the tracker implements `MemoryBudget`. The inductive invariant is their conjunction
with `used_bytes <= Limit`: a successful exchange compared against the value
the counter still has, so exactness alone carries the bound.

`CollectorProofs` proves about `Collector!Spec`, for any set of connections, any finite set of frames with any sizes and cohorts,
any configuration that `validate_config` admits, and any behaviour of clients,
clock, store and scheduler (the writer may panic):

| theorem | property | what carries it |
|---|---|---|
| `TypeCorrect` | `TypeOK` | `Control`: a task holds a frame or a part at the places where the code does |
| `NothingFromTheFuture` | `NoRecordFromTheFuture` | `StampedOnce` (a frame that can still be read is nowhere else, so its stamp does not change later) and `InWindow` (what the writer holds is not from a window after the open one, except on the way to that window) |
| `WindowsNotMixed` | `WindowMovesWhenFlushed` | `FlushCovers`: while a whole window is flushed, every cohort with something left is on the list |
| `FramesAccounted` | `FramesAccountedOnce` | `Accounted`: frames lie in exactly one of eleven places, readers and channel slots are distinct, parts disjoint, and `hand` and `batch` are empty when not in use |
| `MemoryExact` | `MemoryIsExact` | `Live`, with `DropsNotHeld`: between counting a drop and dropping the guard the frame is in the ledger *and* its bytes are held, and nothing else holds them |
| `MemoryBounded` | `MemoryWithinGlobal` | `WithinCap`: a buffer is within its cap also after the frame in hand is added, because a spill at `cap` empties that cohort first |
| `ShutdownDrains` | `DrainedAtExit` | `Drained`: once the channel reported its end, no sender is left, so channel and ledger stay empty |
| `LogImplemented` | `ImplementsLog` | `FatesTold` (a frame in one place has the one fate of that place) and `PartCohorts` (all frames of a part are of its cohort) |

Each theorem follows from two inductive invariants: `IInv`, for the first three,
and `AInv` on top of it. There is a lemma per conjunct and group of actions.
For `LogImplemented` the places are grouped by fate (`Pending`, `Kept`, `Dropped`,
the records and drops of the stored and of the failed parts): a reader's step is
a `Receive`, a `Drop` or a stutter, `AddRecord` a `Keep`, the end of a PUT a
`Publish` or a `GiveUp`, the writer's death a `GiveUp` of the part under way with
all that the writer held, and a late part a `Land`; every other step moves
frames only between places of one fate. The
assumptions are the `ASSUME`s of `Collector` (`FramesAssumption`,
`ConfigAssumption`, `NoBatchAssumption`, `BoundsAssumption`), which TLC
evaluates in every run.

`ImplementsBudget` is also checked in the run `components`; the tracker's other
theorems need no run.

`TunerRoundProofs` proves about `TunerRound!Spec`, for any finite sets of
cohorts and parts, any configurations, any number of rounds, faults and starts:

| theorem | property | what carries it |
|---|---|---|
| `TypeCorrect` | `TypeOK` | `Places`, `Pairs`, `Calibrations`, `Work`, `Output`: what is in memory at each place of `run_cohort_round`, and what each object can be |
| `PairsNotMixed` | `PairsFromOneAttempt` | `Work`: what was collected so far comes from pairs of one measurement, of the configuration's index |
| `RoundsWhole` | `NoPartialRound` | `Work`: the parts collected and the parts pending make up the list, each once, unless the cohort was given up |
| `RecommendationsConsistent` | `EffectiveConsistent` | `Calibrations` and `Times`: records only carry what an earlier good record had, and rounds and their ends only go up |
| `HistoryNotBehind` | `HistoryFirst` | `Output`: at the second PUT the history has the record |
| `MeasuredOnce` | `UsablePairsKept` | `Unmeasured`: a pending part has no usable pair, and a sweep of this round belongs to a cohort the round has passed |
| `RecommendationKept` | `EffectiveNotLost` | `Keeps`, in `Output`: the record being published has a recommendation if the one it replaces has one with its fingerprint |

The last one assumes `"body" \notin FaultKinds`, that the body of `latest.json`
can be read; run `tuner_carry` shows that it is false otherwise. The assumptions on
the constants are those of `TunerAssumption`. Two of them are about the model,
not the code: `DurationSeconds <= MaxTime` (the bound on the clock leaves room for
one window of calibration) and that `None` is not itself a record.

`ComponentProofs` also proves `RoundsOnGrid` (`GridSafe`) and `DatabaseSpared`
(`DatabaseSafe`) of `TunerDatabase!DaemonSpec` for every interval, share, timeout
and size of a round. The first needs `OnGrid`: the ticks since the scheduled
start, modulo the interval, are the place on the grid during a round, and the
ticks left to the next are between rounds. It rests on five lemmas about
remainders. The second needs `Owed` (the idle time owed is the unit in flight
times the rest per tick, then the pacer's cooldown), `OneTransaction`,
`QueryCapped` (a query is in flight only after the statement that sets its
`statement_timeout`) and `LastOne`. The rest per tick of use is a whole number, as in the model.

`RecommendationProofs` proves about `RecommendationServer!Spec` and
`RecommendationClient!ClientSpec`, for any connections and threads and all
timeouts and lifetimes:

| theorem | property | what carries it |
|---|---|---|
| `AnswersAreFresh` | `AnswersFresh` | `CacheAges`: the age of a cached verdict plus the lifetime it has left is bounded, for the two caches by the whole sum and for a shared result by the lookup's part of it; `RequestAges`: the same for what a request holds, where the age of what was read plus the time left for the body is within the lookup's timeout |
| `EarlierLookupsEnd` | `DrainCutsNoEarlierLookup` | `Draining`: a lookup that began before shutdown has less time left than the drain; `validate_config` gives the first step |
| `ValuesAreFresh` | `ServedFresh` | `ClientAges`: an answer on its way, or just read, is younger than the server's bound plus the time its call has taken, and a cached value than that bound plus the part of its lifetime that has passed, which is counted from the start of the call |
| `CacheOutgrowsByThreads` | `CacheBounded` | `Room`: cached cohorts and threads that were admitted for a cohort not yet cached are together at most `max_cohorts` plus the threads less one. The bound alone is not inductive: an admitted thread has its place before it caches anything |

All of them also rest on `Ages`: the stored artifact's own verdict has age zero, a
tick adds at most one to any age and a publication adds to none.

`SenderProofs` proves about `VectorSender!SenderSpec`, for any captures, lengths,
limits, callers, starts and stops, `QueueExact` (`QueueCountExact`),
`LifecycleClean` (`LifecycleIsClean`) and `FramesWholeInOrder`
(`FramesLeaveInOrder`). The invariant has two halves. `InOrder`: the frame last
begun, the batch and the queue form one rising row (`Order`), so that frames in
the queue are distinct and taking a prefix takes its bytes (`Accounted`).
`Lifecycle`: only the latest thread can be alive (`OneThread`), a thread's place
says what it holds (`Holdings`), and every open socket is the current one or the
one just connected, its stream ending where that thread is in its frame
(`Streams`). `torn = {}` alone is not inductive: a frame begins on a whole stream
only because a thread that gave a batch up has closed the stream.

`EstimatorProofs`, `CodecProofs` and the rest of `ComponentProofs` are about the
parts that compute. What their recursive functions return is proved for every
input: `DataLemmas` has induction over the naturals in the form of a set without
a least element (`WFMin` of the library), and from it that a function given by its
first value and a step is the one its definition chooses (`RecursionSolved`). Each
recursive definition has a law of its own on top of these (`Pow2Law`, `AverageLaw`,
`ScanReads` and the like), and no later step expands it.

| theorem | property | what carries it |
|---|---|---|
| `FreshIsEarnedHolds` | `FreshIsEarned` | the minimum of a non-empty set of naturals is its least (`MinIsLeast`), and train and test share no sample |
| `PopulationExact` | `PopulationIsExact` | `EstimatorInv` (shapes of the samples; rounds end on window boundaries, a whole rolling window or more after zero) and `Firsts`: after each turn of `deduplicate_samples` the survivors are the first of what was seen, one for each vector. It holds for every order in which the samples are fed, and needs that places `(ulid, index)` are distinct and ordered. The scope of a round is shown to be an arithmetic progression, which gives its size |
| `VerdictSound` | `VerdictIsSound` | a confidence never falls as successes grow (the terms of its sum are not negative), so full success is the best outcome; and the rank argument: in the sorted sequence of recalls, the entries up to `lower` are at most the quantile and the entries after it at least |
| `CodecReadsBack` | `SegmentsReadBack` | `CodecInv`: what was kept parses (`KeptInv`), the object is what was written or a prefix of it or something else (`ObjectInv`), and the samples taken so far are measured or failed (`TakenInv`). `Layout` says where each record lies in a buffer, `ScanReads` that the loop returns exactly these records, for the whole segment and for a prefix; so a prefix has fewer records than its header says. `SamplesCounted` sums the duplicates by their first capture |
| `NamesApart` | `NamesKeptApart` | `NamesInv`: stored objects have valid names. A valid name has no segment that names a window, so the first such segment of a path ends the name |
| `WindowNames` | `WindowNamesExact` | `CalendarInv`: the days counted so far are a closed form of year and month (`FirstDay`), for which the steps of `civil_from_days` are then inverted. Every day has a date and the next day a later one (`NextDate`), so dates rise over any distance, which windows longer than a day need |
| `LazyRollover` | `LazyRolloverIsExact` | `SamplerInv`: the state belongs to one bucket, later ones have no calls, and the estimate is `Near` the average, that is, not above it and at most `MaxCalls * Scale / 2^(MaxIdleZeroUpdates + 1)` below. A rollover preserves `Near` whether it takes the short cut or not |
| `StartupIsFinal` | `AcceptedRuns` | `ConfigInv`: an accepted configuration satisfies `FromRaw` and what a round made of a cohort follows from it. Each later check but the three that `Overlooked` names is implied by one of startup, NaN included |

Their assumptions on the constants are what the code checks before the modelled
part runs, or types:

* `WidthAssumption`: a window is a minute or longer. The tuner's startup asks for more,
  a positive number of whole minutes (`validate_storage`, `config.rs:404`);
* `GridAssumption`, `ScopeAssumption`, `TargetAssumption`: a non-empty grid, a rolling
  window that is a positive multiple of the window, and a percentile strictly between
  0 and 1 (`validate_targets`, `config.rs:520`). Ulids are numbered in their order;
* `UnitsAssumption`: units are numbers and the collector's own cohort name is valid;
* `NamesAssumption`: lengths are numbers, and a part's file name is not a window's;
* `SamplerAssumption`, `ConfigAssumption`: types of the constants. `MaxCalls`, in the
  bound of `LazyRolloverIsExact`, is the most calls in one bucket.

Every invariant and every action property of the passing runs is proved, but for
`GrammarsAgree`.
Model-checked only:

* liveness (`ShutdownCompletes`, `WriterDeathEndsCollector`, `RoundsEnd`,
  `CachedCohortsPublish`, `ServerStops`, `SenderHeedsStop`, `DaemonProgresses`),
  which needs fairness and ENABLED;
* `GrammarsAgree`, over all strings up to a length: what the expression matches is a
  recursion over data;
* the six violations, which are counterexamples.

## 5. Observations without a run

* Startup accepts a server that is not `host:port`, a password that is not Unicode and a
  target window longer than the time since the epoch. With the first two the data source
  is unavailable in every round, with the third every round of the cohort fails.
  `docs/tuner-spec.md:687-715` lists what startup validates, and these are not in the
  list. `AcceptedRuns` says that they are the only values on which the tuner's own later
  checks differ; what PostgreSQL would refuse (a timeout above its own limit, a table
  that is not there) is beyond it.
* A query that the client gave up on is not cancelled (`database.rs:143`), so its backend
  may still run it when the next connection's transaction begins, although
  `docs/tuner-spec.md:919` says "one backend". It ends by the `statement_timeout` at the
  latest: `AbandonedIsCapped`, a part of `DatabaseSpared`.
* A fetch of the client that fails stores what its thread saw before it
  (`recommendation.py:102`): the default, or an older value, may replace one that another
  thread has read meanwhile, for one lifetime. `ServedFresh` leaves such values out; the
  docstring (`recommendation.py:47`) says that the default is served until a cohort is
  read once.
* Very small values of `db_share` overflow the cooldown in `pacer.rs`. These are outside
  of the model's range.
* The collector accepts a window of less than a minute (`config.rs:143`), and windows
  within one minute would share a name; the tuner refuses such a width.
  Years after 9999 have five digits, and names no longer sort as their fields do.
* On a store that is a directory, `calibrations/<cohort>/latest.json` is both an
  object and, for a cohort named `<cohort>/latest.json`, a directory.

## 6. What could follow

The parts are proved one by one. What would add to them is one refinement for the
chain named at the end of section 7, and a model of several data sources in
`TunerRound`.

## 7. Not modelled

* `listener.rs`, `main.rs`, command-line parsing: sockets and arguments, no
  state that outlives startup.
* The text of the SQL, the shuffled order of a sweep, the Parquet layout of
  intermediates, logging and metrics: data whose control is modelled. Reading
  intermediates is modelled by whether a pair is readable and compatible.
* Floating point: confidences are exact fractions, fractions of the configuration
  are integers with a NaN. Rounding in the beta function is not represented.
* Statistics that are only reported: latencies, compliance, coverage beyond its
  count of windows, the fraction of dropped frames.
* NumPy conversions of the SDK, and its probability sampler, which has no state.
* The whole chain from a captured vector to a served value as one model: the
  chain is covered by what each part promises the next (`CaptureLog`,
  `SegmentCodec`, `TunerRound`, `LatestArtifact`, `AnswersFresh`, `ServedFresh`).
* Dashboard, demo, benchmarks, experiments: no core logic.
