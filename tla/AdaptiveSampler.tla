-------------------------- MODULE AdaptiveSampler ---------------------------
(***************************************************************************)
(* The SDK's adaptive sampler, for one cohort.  Calls of should_sample     *)
(* come from any thread and are serialised by the sampler's lock; each     *)
(* rolls the buckets that ended since the last call into the estimate.     *)
(*                                                                         *)
(* Rates are calls per bucket, in units of 1 / Scale.  Every bucket halves *)
(* the estimate once and there are at most Buckets of them, so that the    *)
(* arithmetic is exact.                                                    *)
(***************************************************************************)
EXTENDS Integers

CONSTANTS
    BucketSeconds,      \* _RATE_BUCKET_SECONDS
    MaxIdleZeroUpdates, \* _MAX_IDLE_ZERO_UPDATES
    Target,             \* target rate, in calls per bucket
    Buckets,            \* bound: buckets of a behaviour
    MaxCalls            \* bound: calls in one bucket

ASSUME SamplerAssumption ==
    /\ BucketSeconds \in Nat \ {0} /\ MaxCalls \in Nat \ {0}
    /\ MaxIdleZeroUpdates \in Nat /\ Target \in Nat /\ Buckets \in Nat

VARIABLES
    now,
    known,              \* the cohort has a state
    bucketStart, bucketCount, rateEstimate,
    born,               \* history: when the state was made
    counts              \* history: calls in each bucket since then

sampler == <<now, known, bucketStart, bucketCount, rateEstimate, born, counts>>

Pow2[n \in Nat] == IF n = 0 THEN 1 ELSE 2 * Pow2[n - 1]

Scale == Pow2[Buckets]
LastSecond == Buckets * BucketSeconds
BucketOf(t) == (t - born) \div BucketSeconds

UpdatedRateEstimate(estimate, count) == (count * Scale + estimate) \div 2

ZeroUpdates(estimate, n) ==
    LET after[i \in 0 .. n] ==
            IF i = 0 THEN estimate ELSE UpdatedRateEstimate(after[i - 1], 0)
    IN  after[n]

\* Mutant: the bucket of the last call is also taken for an empty one.
EmptyBucketsAll(elapsed) == elapsed

EmptyBuckets(elapsed) == elapsed - 1

(* _roll_over_if_needed: the estimate after it. *)
RolledEstimate(elapsed) ==
    LET updated == UpdatedRateEstimate(rateEstimate, bucketCount)
    IN  IF elapsed <= 0 THEN rateEstimate
        ELSE IF EmptyBuckets(elapsed) > MaxIdleZeroUpdates THEN 0
        ELSE ZeroUpdates(updated, EmptyBuckets(elapsed))

AlwaysSampled(estimate) == estimate <= Target * Scale

-----------------------------------------------------------------------------
SamplerInit ==
    /\ now = 0 /\ known = FALSE
    /\ bucketStart = 0 /\ bucketCount = 0 /\ rateEstimate = 0
    /\ born = 0 /\ counts = [b \in 0 .. Buckets |-> 0]

FirstCall ==
    /\ ~known
    /\ known' = TRUE /\ born' = now /\ bucketStart' = now /\ bucketCount' = 1
    /\ counts' = [counts EXCEPT ![0] = 1]
    /\ UNCHANGED <<now, rateEstimate>>

RolledStart(elapsed) ==
    IF elapsed <= 0 THEN bucketStart ELSE bucketStart + elapsed * BucketSeconds

ShouldSample ==
    LET elapsed == (now - bucketStart) \div BucketSeconds
    IN  /\ known /\ counts[BucketOf(now)] < MaxCalls
        /\ rateEstimate' = RolledEstimate(elapsed)
        /\ bucketStart' = RolledStart(elapsed)
        /\ bucketCount' = IF elapsed <= 0 THEN bucketCount + 1 ELSE 1
        /\ counts' = [counts EXCEPT ![BucketOf(now)] = @ + 1]
        /\ UNCHANGED <<now, known, born>>

ClockTick == now < LastSecond /\ now' = now + 1
             /\ UNCHANGED <<known, bucketStart, bucketCount, rateEstimate, born,
                            counts>>

SamplerNext == FirstCall \/ ShouldSample \/ ClockTick

SamplerSpec == SamplerInit /\ [][SamplerNext]_sampler

-----------------------------------------------------------------------------
(* The average of the calls in the buckets before b, updated at the end of
   each. *)
Average(calls, b) ==
    LET avg[i \in 0 .. b] ==
            IF i = 0 THEN 0 ELSE UpdatedRateEstimate(avg[i - 1], calls[i - 1])
    IN  avg[b]

(* The estimate, which is only brought up to date by calls, is the moving
   average of the buckets that have ended; the short cut for a long idle time
   never raises it, and loses less than the idle buckets would leave. *)
EstimateIsAverage ==
    known =>
        LET eager == Average(counts, BucketOf(bucketStart))
        IN  /\ rateEstimate <= eager
            /\ (eager - rateEstimate) * Pow2[MaxIdleZeroUpdates + 1]
                 <= MaxCalls * Scale

(* Buckets stay on the grid the first call set, and hold the calls of their
   own time only. *)
BucketsOnGrid ==
    known => /\ (bucketStart - born) % BucketSeconds = 0
             /\ bucketStart <= now
             /\ bucketCount = counts[BucketOf(bucketStart)]

(* A cohort that never passed the target rate is never sampled down. *)
SlowCohortAlwaysSampled ==
    known /\ (\A b \in 0 .. BucketOf(now) : counts[b] <= Target)
        => AlwaysSampled(rateEstimate)

(* However irregular the calls, lazy rollover leaves the state that a rollover
   at the end of each bucket would have left, and a cohort that stays below
   the target rate is sampled in full. *)
LazyRolloverIsExact ==
    BucketsOnGrid /\ EstimateIsAverage /\ SlowCohortAlwaysSampled
=============================================================================
