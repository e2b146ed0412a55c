------------------------ MODULE RecommendationClient ------------------------
(***************************************************************************)
(* The SDK's RecommendationClient.  The threads of one application share   *)
(* one client object and its cache, which no lock protects: the lookup,    *)
(* the size check, the fetch and the assignment of a call interleave with  *)
(* those of other threads.                                                 *)
(*                                                                         *)
(* The server is what RecommendationServer!AnswersFresh promises of it: an *)
(* answer, when it is given, is a verdict that was the artifact's less     *)
(* than AnswerStaleness ticks ago.  It may be on its way for some time, or *)
(* be lost; the server may fail, hang or refuse.                           *)
(***************************************************************************)
EXTENDS LatestArtifact

CONSTANTS
    Threads,         \* application threads
    Asked,           \* names the application asks for
    AnswerStaleness, \* what the server promises about its answers
    MaxCohorts,      \* max_cohorts: entries the cache admits
    ClientTTL,       \* ttl_seconds
    MaxFetch         \* bound: ticks a fetch takes.  timeout_seconds is not
                     \* one: it is for each operation on the socket

ASSUME ClientAssumption ==
    /\ IsFiniteSet(Threads) /\ Threads # {}
    /\ IsFiniteSet(Asked) /\ Asked # {}
    /\ MaxCohorts \in Nat \ {0} /\ ClientTTL \in Nat
    /\ MaxFetch \in Nat \ {0} /\ AnswerStaleness \in Nat

VARIABLES
    tpc,    \* where each thread is in ef_search
    want,   \* the cohort it asks for
    value,  \* the value it would fall back to, then the one it returns
    answer, \* what the server answered it, not yet received
    spent,  \* ticks since it read the clock
    cache   \* self._cache: entries stay for ever, `left' ticks of them fresh

client == <<tpc, want, value, answer, spent, cache>>
clientVars == <<client, world>>

Default == [kind |-> "default", ef |-> 0, refreshed |-> FALSE]
NoAnswer == [kind |-> "no answer", ef |-> 0]
NoEntry == [in |-> FALSE, left |-> 0, value |-> Default]
Fetched(v) == [kind |-> "found", ef |-> v.ef, refreshed |-> TRUE]
Fallback(e) == [e EXCEPT !.refreshed = FALSE]
CachedNames == {n \in Asked : cache[n].in}
AnyName == CHOOSE n \in Asked : TRUE

ClientInit ==
    /\ tpc = [t \in Threads |-> "idle"]
    /\ want = [t \in Threads |-> AnyName]
    /\ value = [t \in Threads |-> Default]
    /\ answer = [t \in Threads |-> NoAnswer]
    /\ spent = [t \in Threads |-> 0]
    /\ cache = [n \in Asked |-> NoEntry]
    /\ WorldInit

(* ef_search: the cached entry and the clock.  A fresh entry is returned, an
   expired one is what the thread falls back to. *)
Look(t, n) ==
    /\ tpc[t] = "idle"
    /\ want' = [want EXCEPT ![t] = n]
    /\ value' = [value EXCEPT ![t] = cache[n].value]
    /\ tpc' = [tpc EXCEPT ![t] = IF cache[n].left > 0 THEN "return"
                                 ELSE IF cache[n].in THEN "fetch" ELSE "count"]
    /\ UNCHANGED <<answer, spent, cache, world>>

\* Mutant: the size is not checked.
CountAdmits(t) ==
    /\ tpc[t] = "count"
    /\ tpc' = [tpc EXCEPT ![t] = "fetch"]
    /\ UNCHANGED <<want, value, answer, spent, cache, world>>

(* The size check, for a cohort that was not cached when it was looked up. *)
Count(t) ==
    /\ tpc[t] = "count"
    /\ tpc' = [tpc EXCEPT ![t] = IF Cardinality(CachedNames) >= MaxCohorts
                                 THEN "return" ELSE "fetch"]
    /\ UNCHANGED <<want, value, answer, spent, cache, world>>

(* The server finds a value. *)
ServerAnswers(t) ==
    \E v \in Verdicts :
    /\ tpc[t] = "fetch" /\ want[t] \in Cohorts /\ answer[t] = NoAnswer
    /\ v.kind = "found" /\ since[want[t]][v] < AnswerStaleness
    /\ answer' = [answer EXCEPT ![t] = v]
    /\ UNCHANGED <<tpc, want, value, spent, cache, world>>

(* _fetch reads it. *)
FetchReads(t) ==
    /\ tpc[t] = "fetch" /\ answer[t] # NoAnswer
    /\ tpc' = [tpc EXCEPT ![t] = "save"]
    /\ value' = [value EXCEPT ![t] = Fetched(answer[t])]
    /\ answer' = [answer EXCEPT ![t] = NoAnswer]
    /\ UNCHANGED <<want, spent, cache, world>>

(* 400: ValueError is raised and nothing cached. *)
FetchRaises(t) ==
    /\ tpc[t] = "fetch" /\ want[t] \notin Cohorts
    /\ tpc' = [tpc EXCEPT ![t] = "idle"]
    /\ value' = [value EXCEPT ![t] = Default]
    /\ want' = [want EXCEPT ![t] = AnyName]
    /\ spent' = [spent EXCEPT ![t] = 0]
    /\ UNCHANGED <<answer, cache, world>>

(* Any other status, no connection, a timeout or an answer that is lost: the
   thread keeps what it falls back to, and will cache it as if it were read. *)
FetchFails(t) ==
    /\ tpc[t] = "fetch"
    /\ tpc' = [tpc EXCEPT ![t] = "save"]
    /\ value' = [value EXCEPT ![t] = Fallback(@)]
    /\ answer' = [answer EXCEPT ![t] = NoAnswer]
    /\ UNCHANGED <<want, spent, cache, world>>

CacheEntry(t, left) == [in |-> TRUE, value |-> value[t], left |-> left]

\* Mutant: the lifetime is counted from after the fetch.
SaveAnew(t) ==
    /\ tpc[t] = "save"
    /\ cache' = [cache EXCEPT ![want[t]] = CacheEntry(t, ClientTTL)]
    /\ tpc' = [tpc EXCEPT ![t] = "return"]
    /\ UNCHANGED <<want, value, answer, spent, world>>

(* The entry is fresh for ttl_seconds counted from before the fetch.  What the
   cache holds by now is overwritten unseen. *)
Save(t) ==
    /\ tpc[t] = "save"
    /\ cache' = [cache EXCEPT ![want[t]] =
                   CacheEntry(t, IF spent[t] < ClientTTL
                                 THEN ClientTTL - spent[t] ELSE 0)]
    /\ tpc' = [tpc EXCEPT ![t] = "return"]
    /\ UNCHANGED <<want, value, answer, spent, world>>

Return(t) ==
    /\ tpc[t] = "return"
    /\ tpc' = [tpc EXCEPT ![t] = "idle"]
    /\ value' = [value EXCEPT ![t] = Default]
    /\ want' = [want EXCEPT ![t] = AnyName]
    /\ spent' = [spent EXCEPT ![t] = 0]
    /\ UNCHANGED <<answer, cache, world>>

(* Only fetches take time. *)
ThreadDue(t) ==
    \/ tpc[t] \in {"count", "save", "return"}
    \/ tpc[t] = "fetch" /\ spent[t] >= MaxFetch

ClientTick ==
    /\ ~ \E t \in Threads : ThreadDue(t)
    /\ WorldTick
    /\ spent' = [t \in Threads |-> IF tpc[t] = "fetch" THEN spent[t] + 1
                                   ELSE spent[t]]
    /\ cache' = [n \in Asked |-> [cache[n] EXCEPT !.left = Down(@)]]
    /\ UNCHANGED <<tpc, want, value, answer>>

ThreadStep(t) ==
    \/ \E n \in Asked : Look(t, n)
    \/ Count(t) \/ ServerAnswers(t) \/ FetchReads(t) \/ FetchRaises(t)
    \/ FetchFails(t) \/ Save(t) \/ Return(t)

ClientNext ==
    \/ \E t \in Threads : ThreadStep(t)
    \/ \E k \in Cohorts, a \in Artifacts : Publish(k, a) /\ UNCHANGED client
    \/ ClientTick

ClientSpec == ClientInit /\ [][ClientNext]_clientVars

-----------------------------------------------------------------------------
(* A value an application is given was published within the server's bound
   and the lifetime the client gives it, or, by the call that fetched it, the
   time that call took, unless a refresh has failed since: whichever thread
   fetched it, and however long its answer was on its way. *)
ServedFresh ==
    \A t \in Threads : tpc[t] = "return" /\ value[t].refreshed =>
        LET age == since[want[t]][Found(value[t].ef)]
        IN  age < AnswerStaleness + ClientTTL \/ age < AnswerStaleness + spent[t]

(* The cache outgrows max_cohorts, but by no more than the threads that check
   its size together. *)
CacheBounded == Cardinality(CachedNames) <= MaxCohorts + Cardinality(Threads) - 1

(* recommendation.py:50, "Maximum number of cohorts ever cached", of a client
   that is safe to read from multiple threads: two of them that check the size
   before either has cached its cohort both pass. *)
CacheWithinMaximum == Cardinality(CachedNames) <= MaxCohorts
=============================================================================
