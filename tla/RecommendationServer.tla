------------------------ MODULE RecommendationServer ------------------------
(***************************************************************************)
(* The recommendation HTTP server.  One task per accepted connection reads *)
(* requests and runs get_ef_search: the positive cache, the negative      *)
(* cache, a load permit that is never waited for, and a lookup of          *)
(* calibrations/<cohort>/latest.json which concurrent requests for one     *)
(* cohort share.  The accept loop ends with a bounded drain.               *)
(*                                                                         *)
(* Time is a Tick.  Deadlines and cache lifetimes count down in ticks, and *)
(* a tick waits for every step the server can take without its peers or    *)
(* the object store: those steps take no time of their own.                *)
(***************************************************************************)
EXTENDS LatestArtifact

CONSTANTS
    Conns,                 \* connection slots: max_connections of them
    MaxConcurrentRequests, \* load permits
    LookupTimeout, RequestHeadTimeout, ShutdownDrainTimeout,
    CacheTTL,              \* lifetime of a cached verdict
    CoalesceTTL            \* lifetime of a shared lookup's result

(* validate_config; max_connections is the number of slots. *)
ValidConfig ==
    /\ Conns # {}
    /\ MaxConcurrentRequests # 0
    /\ LookupTimeout # 0 /\ RequestHeadTimeout # 0 /\ CacheTTL # 0
    /\ LookupTimeout < ShutdownDrainTimeout
    /\ RequestHeadTimeout < ShutdownDrainTimeout

ASSUME ConfigAssumption ==
    /\ IsFiniteSet(Conns) /\ MaxConcurrentRequests \in Nat
    /\ LookupTimeout \in Nat /\ RequestHeadTimeout \in Nat
    /\ ShutdownDrainTimeout \in Nat /\ CacheTTL \in Nat
    /\ CoalesceTTL \in 1 .. CacheTTL
    /\ ValidConfig

BadRequest == [kind |-> "bad_request", ef |-> 0]
Unavailable == [kind |-> "unavailable", ef |-> 0]
Answers == Verdicts \cup {BadRequest, Unavailable}

(***************************************************************************)
(* The age at which a verdict may still be served: it can be read at the   *)
(* start of a lookup, handed on by the shared result, and then cached.     *)
(***************************************************************************)
ServerStaleness == LookupTimeout + CoalesceTTL + CacheTTL

VARIABLES
    phase,     \* serving, draining, aborting or stopped
    drain,     \* ticks left of the drain deadline
    pc,        \* where each connection's task is
    key,       \* the cohort of its request
    got,       \* the verdict or answer its request holds
    timer,     \* ticks left of its head or lookup deadline
    early,     \* connections whose lookup began before shutdown
    pos, neg,  \* recommendations, negative_recommendations
    coal       \* coalesced_loads

server == <<phase, drain, pc, key, got, timer, early, pos, neg, coal>>
vars == <<server, world>>

None == [left |-> 0, v |-> NoEf]
Entry(v, ttl) == [left |-> ttl, v |-> v]
Cached(cache, k) == cache[k].left > 0

Init ==
    /\ phase = "serving" /\ drain = ShutdownDrainTimeout
    /\ pc = [c \in Conns |-> "closed"]
    /\ key = [c \in Conns |-> CHOOSE n \in Names : TRUE]
    /\ got = [c \in Conns |-> NoEf]
    /\ timer = [c \in Conns |-> 0]
    /\ early = {}
    /\ pos = [k \in Cohorts |-> None]
    /\ neg = [k \in Cohorts |-> None]
    /\ coal = [k \in Cohorts |-> None]
    /\ WorldInit

-----------------------------------------------------------------------------
(* Accepting connections and reading request heads.                        *)

Accept(c) ==
    /\ phase = "serving" /\ pc[c] = "closed"
    /\ pc' = [pc EXCEPT ![c] = "head"]
    /\ timer' = [timer EXCEPT ![c] = RequestHeadTimeout]
    /\ UNCHANGED <<phase, drain, key, got, early, pos, neg, coal, world>>

RequestHead(c, n) ==
    /\ \/ pc[c] = "head" /\ phase \in {"serving", "draining"}
       \/ pc[c] = "idle" /\ phase = "serving"
    /\ key' = [key EXCEPT ![c] = n]
    /\ IF n \in Cohorts
       THEN /\ pc' = [pc EXCEPT ![c] = "positive"]
            /\ got' = got
       ELSE /\ pc' = [pc EXCEPT ![c] = "respond"]
            /\ got' = [got EXCEPT ![c] = BadRequest]
    /\ timer' = [timer EXCEPT ![c] = 0]
    /\ UNCHANGED <<phase, drain, early, pos, neg, coal, world>>

(* The end of a task, however it ends: its request is dropped with it, and
   with the request its permit and the lookup it was leading. *)
End(c) ==
    /\ pc' = [pc EXCEPT ![c] = "closed"]
    /\ got' = [got EXCEPT ![c] = NoEf]
    /\ key' = [key EXCEPT ![c] = CHOOSE n \in Names : TRUE]
    /\ timer' = [timer EXCEPT ![c] = 0]
    /\ early' = early \ {c}
    /\ UNCHANGED <<phase, drain, pos, neg, coal, world>>

HeadTimeout(c) == pc[c] = "head" /\ timer[c] = 0 /\ End(c)

PeerCloses(c) == pc[c] # "closed" /\ End(c)

-----------------------------------------------------------------------------
(* get_ef_search.                                                          *)

Answer(c, a) ==
    /\ pc' = [pc EXCEPT ![c] = "respond"]
    /\ got' = [got EXCEPT ![c] = a]
    /\ UNCHANGED <<phase, drain, key, timer, early, pos, neg, coal, world>>

Goto(c, l) ==
    /\ pc' = [pc EXCEPT ![c] = l]
    /\ UNCHANGED <<phase, drain, key, got, timer, early, pos, neg, coal, world>>

Running == phase \in {"serving", "draining"}

\* Mutant: a hit renews the entry (time_to_idle for time_to_live).
GetPositiveSliding(c) ==
    /\ Running /\ pc[c] = "positive"
    /\ IF Cached(pos, key[c])
       THEN /\ pos' = [pos EXCEPT ![key[c]].left = CacheTTL]
            /\ pc' = [pc EXCEPT ![c] = "respond"]
            /\ got' = [got EXCEPT ![c] = pos[key[c]].v]
            /\ UNCHANGED <<phase, drain, key, timer, early, neg, coal, world>>
       ELSE Goto(c, "negative")

GetPositive(c) ==
    /\ Running /\ pc[c] = "positive"
    /\ IF Cached(pos, key[c]) THEN Answer(c, pos[key[c]].v)
                              ELSE Goto(c, "negative")

GetNegative(c) ==
    /\ Running /\ pc[c] = "negative"
    /\ IF Cached(neg, key[c]) THEN Answer(c, neg[key[c]].v)
                              ELSE Goto(c, "permit")

Holders == {c \in Conns : pc[c] \in {"join", "get", "body", "wait", "insert"}}

TryAcquire(c) ==
    /\ Running /\ pc[c] = "permit"
    /\ IF Cardinality(Holders) < MaxConcurrentRequests
       THEN Goto(c, "join") ELSE Answer(c, Unavailable)

Leading(k) == {c \in Conns : pc[c] \in {"get", "body"} /\ key[c] = k}
Waiting(k) == {c \in Conns : pc[c] = "wait" /\ key[c] = k}

\* Mutant: the lookup is given the connection's drain deadline.
TryGetWithDrainDeadline(c) ==
    LET k == key[c] IN
    /\ Running /\ pc[c] = "join" /\ ~Cached(coal, k) /\ Leading(k) = {}
    /\ pc' = [pc EXCEPT ![c] = "get"]
    /\ timer' = [timer EXCEPT ![c] = ShutdownDrainTimeout]
    /\ early' = IF phase = "serving" THEN early \cup {c} ELSE early
    /\ UNCHANGED <<phase, drain, key, got, pos, neg, coal, world>>

(* try_get_with: take the shared result, wait for the request that is
   loading this cohort, or load it.  A waiter whose leader was dropped
   comes back here. *)
TryGetWith(c) ==
    LET k == key[c] IN
    /\ Running
    /\ pc[c] = "join" \/ (pc[c] = "wait" /\ Leading(k) = {})
    /\ \/ /\ Cached(coal, k)
          /\ pc' = [pc EXCEPT ![c] = "insert"]
          /\ got' = [got EXCEPT ![c] = coal[k].v]
          /\ UNCHANGED <<timer, early>>
       \/ /\ ~Cached(coal, k) /\ Leading(k) # {}
          /\ pc' = [pc EXCEPT ![c] = "wait"]
          /\ UNCHANGED <<got, timer, early>>
       \/ /\ ~Cached(coal, k) /\ Leading(k) = {}
          /\ pc' = [pc EXCEPT ![c] = "get"]
          /\ timer' = [timer EXCEPT ![c] = LookupTimeout]
          /\ early' = IF phase = "serving" THEN early \cup {c} ELSE early
          /\ got' = got
    /\ UNCHANGED <<phase, drain, key, pos, neg, coal, world>>

(* The lookup is over: its leader and everyone waiting for it go on. *)
Finish(c, label, v) ==
    LET done == {c} \cup Waiting(key[c]) IN
    /\ pc' = [d \in Conns |-> IF d \in done THEN label ELSE pc[d]]
    /\ got' = [d \in Conns |-> IF d \in done THEN v ELSE got[d]]
    /\ timer' = [timer EXCEPT ![c] = 0]
    /\ early' = early \ {c}

Loaded(c, v) ==
    /\ Finish(c, "insert", v)
    /\ coal' = [coal EXCEPT ![key[c]] = Entry(v, CoalesceTTL)]
    /\ UNCHANGED <<phase, drain, key, pos, neg, world>>

LoadFails(c) ==
    /\ Finish(c, "respond", Unavailable)
    /\ UNCHANGED <<phase, drain, key, pos, neg, coal, world>>

(* load_effective_ef: the GET fixes which version of the object is read; an
   absent or oversized one is judged without its body. *)
StoreGet(c) ==
    LET a == store[key[c]] IN
    /\ Running /\ pc[c] = "get"
    /\ IF a = Absent \/ TooLarge(a)
       THEN Loaded(c, LoadEffectiveEf(a))
       ELSE /\ pc' = [pc EXCEPT ![c] = "body"]
            /\ got' = [got EXCEPT ![c] = LoadEffectiveEf(a)]
            /\ UNCHANGED <<phase, drain, key, timer, early, pos, neg, coal,
                           world>>

BodyRead(c) == Running /\ pc[c] = "body" /\ Loaded(c, got[c])

StoreFails(c) == Running /\ pc[c] \in {"get", "body"} /\ LoadFails(c)

LookupTimesOut(c) ==
    Running /\ pc[c] \in {"get", "body"} /\ timer[c] = 0 /\ LoadFails(c)

Insert(c) ==
    /\ Running /\ pc[c] = "insert"
    /\ IF got[c].kind = "found"
       THEN /\ pos' = [pos EXCEPT ![key[c]] = Entry(got[c], CacheTTL)]
            /\ neg' = neg
       ELSE /\ neg' = [neg EXCEPT ![key[c]] = Entry(got[c], CacheTTL)]
            /\ pos' = pos
    /\ pc' = [pc EXCEPT ![c] = "respond"]
    /\ UNCHANGED <<phase, drain, key, got, timer, early, coal, world>>

(* hyper writes the answer; the connection is kept for another request until
   shutdown turns keep-alive off. *)
Respond(c) ==
    /\ Running /\ pc[c] = "respond"
    /\ IF phase = "serving"
       THEN /\ pc' = [pc EXCEPT ![c] = "idle"]
            /\ got' = [got EXCEPT ![c] = NoEf]
            /\ key' = [key EXCEPT ![c] = CHOOSE n \in Names : TRUE]
            /\ UNCHANGED <<phase, drain, timer, early, pos, neg, coal, world>>
       ELSE End(c)

(* The caches are bounded and shared with cohorts the model does not follow:
   a cache at its capacity may drop any entry. *)
Trimmed(cache) ==
    {cache} \cup {[cache EXCEPT ![k] = None] : k \in Cohorts}

Evict ==
    /\ pos' \in Trimmed(pos) /\ neg' \in Trimmed(neg) /\ coal' \in Trimmed(coal)
    /\ UNCHANGED <<phase, drain, pc, key, got, timer, early, world>>

-----------------------------------------------------------------------------
(* Shutdown.                                                               *)

Shutdown ==
    /\ phase = "serving"
    /\ phase' = "draining"
    /\ UNCHANGED <<drain, pc, key, got, timer, early, pos, neg, coal, world>>

(* graceful_shutdown closes a connection between two requests, and a new one
   that has sent nothing. *)
GracefulClose(c) ==
    phase = "draining" /\ pc[c] \in {"idle", "head"} /\ End(c)

AllClosed == \A c \in Conns : pc[c] = "closed"

DrainTimesOut ==
    /\ phase = "draining" /\ drain = 0 /\ ~AllClosed
    /\ phase' = "aborting"
    /\ UNCHANGED <<drain, pc, key, got, timer, early, pos, neg, coal, world>>

\* Mutant: after the deadline only connections without a request are ended.
AbortIdle(c) == phase = "aborting" /\ pc[c] \in {"idle", "head"} /\ End(c)

Abort(c) == phase = "aborting" /\ pc[c] # "closed" /\ End(c)

Drained ==
    /\ phase \in {"draining", "aborting"} /\ AllClosed
    /\ phase' = "stopped"
    /\ UNCHANGED <<drain, pc, key, got, timer, early, pos, neg, coal, world>>

-----------------------------------------------------------------------------
(* Time, and everything that may happen.                                   *)

Due(c) ==
    \/ pc[c] \in {"positive", "negative", "permit", "join", "insert", "respond"}
    \/ pc[c] = "wait" /\ Leading(key[c]) = {}
    \/ pc[c] \in {"head", "get", "body"} /\ timer[c] = 0
    \/ pc[c] = "idle" /\ phase = "draining"

Aged(cache) == [k \in Cohorts |->
    IF cache[k].left > 1 THEN [cache[k] EXCEPT !.left = @ - 1] ELSE None]

Tick ==
    /\ Running /\ ~ \E c \in Conns : Due(c)
    /\ ~(phase = "draining" /\ (drain = 0 \/ AllClosed))
    /\ drain' = IF phase = "draining" THEN Down(drain) ELSE drain
    /\ timer' = [c \in Conns |-> Down(timer[c])]
    /\ pos' = Aged(pos) /\ neg' = Aged(neg) /\ coal' = Aged(coal)
    /\ WorldTick
    /\ UNCHANGED <<phase, pc, key, got, early>>

(* What the server does on its own. *)
Handle(c) ==
    \/ GetPositive(c) \/ GetNegative(c) \/ TryAcquire(c) \/ TryGetWith(c)
    \/ Insert(c) \/ Respond(c) \/ HeadTimeout(c) \/ LookupTimesOut(c)
    \/ GracefulClose(c) \/ Abort(c)

StoreStep(c) == StoreGet(c) \/ BodyRead(c) \/ StoreFails(c)

PeerStep(c) == Accept(c) \/ PeerCloses(c) \/ \E n \in Names : RequestHead(c, n)

Environment ==
    \/ Evict
    \/ \E k \in Cohorts, a \in Artifacts :
          phase # "stopped" /\ Publish(k, a) /\ UNCHANGED server
    \/ Shutdown

Stop == DrainTimesOut \/ Drained

Stopped == phase = "stopped" /\ UNCHANGED vars

Next ==
    \/ \E c \in Conns : Handle(c) \/ StoreStep(c) \/ PeerStep(c)
    \/ Environment \/ Stop \/ Stopped \/ Tick

(* The tokio runtime polls every task that can go on, and time passes.  The
   object store and the peers owe the server nothing. *)
Fairness ==
    /\ WF_vars(Tick) /\ WF_vars(Stop)
    /\ \A c \in Conns : WF_vars(Handle(c))

Spec == Init /\ [][Next]_vars /\ Fairness

-----------------------------------------------------------------------------
(* An answer of the server was the verdict on the stored artifact less than
   a lookup, a shared result and a cache lifetime ago, whichever of the three
   caches and however many requests it came through. *)
AnswersFresh ==
    \A c \in Conns : pc[c] = "respond" /\ got[c] \in Verdicts =>
        since[key[c]][got[c]] < ServerStaleness

(* The drain cuts off no lookup that began before shutdown: validate_config
   refuses a lookup deadline that the drain does not outlast. *)
DrainCutsNoEarlierLookup == phase = "aborting" => early = {}

(* Whatever its peers and the object store do, serve() returns once it was
   told to shut down. *)
ServerStops == phase = "draining" ~> phase = "stopped"
=============================================================================
