------------------------ MODULE RecommendationProofs ------------------------
(***************************************************************************)
(* How old an answer of the recommendation server and a value of the SDK's *)
(* client can be, whatever the number of connections and threads, the      *)
(* timeouts and lifetimes, and however lookups, caches and publications    *)
(* interleave; that the drain cuts off no earlier lookup; and how far the  *)
(* client's cache can outgrow its limit.                                   *)
(***************************************************************************)
EXTENDS RecommendationServer, RecommendationClient, FiniteSetTheorems, TLAPS

USE ArtifactAssumption, ConfigAssumption DEF ValidConfig

-----------------------------------------------------------------------------
(* The artifacts and their ages.                                           *)

\* The stored artifact's own verdict is not out of date.
Ages ==
    /\ store \in [Cohorts -> Artifacts]
    /\ since \in [Cohorts -> [Verdicts -> Nat]]
    /\ \A k \in Cohorts : since[k][LoadEffectiveEf(store[k])] = 0

\* No verdict gets older than it was by more than what `n' ticks add.
AgesBy(n) == \A k \in Cohorts, v \in Verdicts : since'[k][v] <= since[k][v] + n

-----------------------------------------------------------------------------
(* The server's inductive invariant.                                       *)

Labels == {"closed", "head", "idle", "positive", "negative", "permit", "join",
           "get", "body", "wait", "insert", "respond"}
Asking == {"positive", "negative", "permit", "join", "get", "body", "wait", "insert"}
Entries == [left : Nat, v : Verdicts \cup {NoEf}]

ServerShapes ==
    /\ phase \in {"serving", "draining", "aborting", "stopped"}
    /\ drain \in Nat
    /\ pc \in [Conns -> Labels]
    /\ key = [c \in Conns |-> key[c]]
    /\ got \in [Conns -> Answers \cup {NoEf}]
    /\ timer \in [Conns -> Nat]
    /\ early \subseteq Conns
    /\ pos \in [Cohorts -> Entries] /\ neg \in [Cohorts -> Entries]
    /\ coal \in [Cohorts -> Entries]
    /\ \A c \in Conns : pc[c] \in Asking => key[c] \in Cohorts

\* An entry's verdict is young enough for the lifetime it has left.
EntryAge(e, k, bound) ==
    e.left > 0 => e.v \in Verdicts /\ since[k][e.v] + e.left < bound

\* The ages of what is cached, and of what a request holds.
CacheAges ==
    \A k \in Cohorts : /\ EntryAge(pos[k], k, ServerStaleness)
                       /\ EntryAge(neg[k], k, ServerStaleness)
                       /\ EntryAge(coal[k], k, LookupTimeout + CoalesceTTL + 1)

RequestAges ==
    \A c \in Conns :
        /\ pc[c] = "body" =>
              got[c] \in Verdicts /\ since[key[c]][got[c]] + timer[c] <= LookupTimeout
        /\ pc[c] = "insert" =>
              got[c] \in Verdicts /\ since[key[c]][got[c]] < LookupTimeout + CoalesceTTL
        /\ pc[c] = "respond" /\ got[c] \in Verdicts =>
              key[c] \in Cohorts /\ since[key[c]][got[c]] < ServerStaleness

\* A lookup that began before shutdown has less time left than the drain.
Draining ==
    /\ \A c \in Conns : pc[c] \in {"get", "body"} => timer[c] <= LookupTimeout
    /\ \A c \in early : pc[c] \in {"get", "body"}
    /\ phase = "serving" => drain = ShutdownDrainTimeout
    /\ phase = "draining" => \A c \in early : timer[c] < drain
    /\ phase = "aborting" => early = {}

ServerInv == Ages /\ ServerShapes /\ CacheAges /\ RequestAges /\ Draining

-----------------------------------------------------------------------------
(* Verdicts and ages.                                                      *)

\* What a lookup concludes is never one of the answers a request gets without
\* a lookup.
LEMMA VerdictKinds ==
    /\ \A v \in Verdicts : v.kind \in {"found", "missing", "defect"}
    /\ Unavailable \notin Verdicts /\ BadRequest \notin Verdicts /\ NoEf \notin Verdicts
<1>1. \A a \in Artifacts : LoadEffectiveEf(a).kind \in {"found", "missing", "defect"}
  BY DEF LoadEffectiveEf, Found, Missing, Defect
<1>2. \A v \in Verdicts : v.kind \in {"found", "missing", "defect"}
  BY <1>1 DEF Verdicts
<1> QED
  BY <1>2 DEF Unavailable, BadRequest, NoEf

\* A tick ages a verdict by one, and never the stored artifact's.
LEMMA TickAges ==
    ASSUME Ages, WorldTick
    PROVE  Ages' /\ AgesBy(1)
<1> DEFINE A(k, v) == IF v = LoadEffectiveEf(store[k]) THEN 0
                      ELSE IF since[k][v] < Horizon THEN since[k][v] + 1 ELSE Horizon
<1>1. since' = [k \in Cohorts |-> [v \in Verdicts |-> A(k, v)]] /\ UNCHANGED store
  BY DEF WorldTick
<1>2. \A k \in Cohorts, v \in Verdicts : A(k, v) \in Nat /\ A(k, v) <= since[k][v] + 1
  BY DEF Ages
<1>3. \A k \in Cohorts : /\ LoadEffectiveEf(store[k]) \in Verdicts
                         /\ A(k, LoadEffectiveEf(store[k])) = 0
  BY DEF Ages, Verdicts
<1> HIDE DEF A
<1>4. since' \in [Cohorts -> [Verdicts -> Nat]]
  BY <1>1, <1>2
<1>5. \A k \in Cohorts, v \in Verdicts : since'[k][v] = A(k, v)
  BY <1>1
<1> QED
  BY <1>1, <1>2, <1>3, <1>4, <1>5 DEF Ages, AgesBy

\* A publication makes a verdict new and ages none.
LEMMA PublishAges ==
    ASSUME Ages, NEW k \in Cohorts, NEW a \in Artifacts, Publish(k, a)
    PROVE  Ages' /\ AgesBy(0)
<1> DEFINE l == LoadEffectiveEf(a)
<1>1. l \in Verdicts
  BY DEF Verdicts
<1>2. store' = [store EXCEPT ![k] = a] /\ since' = [since EXCEPT ![k][l] = 0]
  BY DEF Publish
<1> HIDE DEF l
<1>3. since' \in [Cohorts -> [Verdicts -> Nat]]
  BY <1>1, <1>2 DEF Ages
<1>4. \A j \in Cohorts, v \in Verdicts :
         since'[j][v] = IF j = k /\ v = l THEN 0 ELSE since[j][v]
  BY <1>1, <1>2 DEF Ages
<1>5. store' \in [Cohorts -> Artifacts]
  BY <1>2 DEF Ages
<1>6. ASSUME NEW j \in Cohorts PROVE since'[j][LoadEffectiveEf(store'[j])] = 0
  <2>1. CASE j = k
    <3>1. store'[j] = a
      BY <1>2, <2>1 DEF Ages
    <3> QED
      BY <1>1, <1>4, <2>1, <3>1 DEF l
  <2>2. CASE j # k
    <3>1. store'[j] = store[j] /\ LoadEffectiveEf(store[j]) \in Verdicts
      BY <1>2, <2>2 DEF Ages, Verdicts
    <3> QED
      BY <1>4, <2>2, <3>1 DEF Ages
  <2> QED
    BY <2>1, <2>2
<1>7. AgesBy(0)
  BY <1>4 DEF AgesBy, Ages
<1> QED
  BY <1>3, <1>5, <1>6, <1>7 DEF Ages

\* At the start the stored artifacts' verdicts are new.
LEMMA WorldInitAges == WorldInit => Ages
<1> SUFFICES ASSUME WorldInit PROVE Ages
  OBVIOUS
<1>1. \A k \in Cohorts : LoadEffectiveEf(store[k]) \in Verdicts
  BY DEF WorldInit, Verdicts
<1> DEFINE A(k, v) == IF v = LoadEffectiveEf(store[k]) THEN 0 ELSE Horizon
<1>2. since = [k \in Cohorts |-> [v \in Verdicts |-> A(k, v)]]
  BY DEF WorldInit
<1>3. \A k \in Cohorts, v \in Verdicts : A(k, v) \in Nat
  OBVIOUS
<1>4. \A k \in Cohorts : A(k, LoadEffectiveEf(store[k])) = 0
  OBVIOUS
<1> HIDE DEF A
<1>5. \A k \in Cohorts, v \in Verdicts : since[k][v] = A(k, v)
  BY <1>2
<1>6. since \in [Cohorts -> [Verdicts -> Nat]]
  BY <1>2, <1>3
<1> QED
  BY <1>1, <1>4, <1>5, <1>6 DEF Ages, WorldInit

LEMMA WorldStands ==
    ASSUME Ages, UNCHANGED world
    PROVE  Ages'
  BY DEF Ages, world

-----------------------------------------------------------------------------
(* The server's steps.                                                     *)

\* A step that leaves the artifacts and the caches alone keeps their ages.
LEMMA CachesStand ==
    ASSUME ServerInv, UNCHANGED <<pos, neg, coal, world>>
    PROVE  Ages' /\ CacheAges'
<1>1. Ages'
  BY WorldStands DEF ServerInv
<1>2. UNCHANGED since
  BY DEF world
<1> QED
  BY <1>1, <1>2 DEF ServerInv, CacheAges, EntryAge

\* Only the request itself is disturbed by a step of its own connection.
LEMMA AcceptKept ==
    ASSUME ServerInv, NEW c \in Conns, Accept(c)
    PROVE  ServerInv'
<1> USE DEF ServerInv, Accept, world
<1>1. ServerShapes'
  BY DEF ServerShapes, Labels, Asking
<1>2. RequestAges'
  BY DEF ServerShapes, RequestAges
<1>3. Draining'
  BY DEF ServerShapes, Draining
<1> QED
  BY <1>1, <1>2, <1>3, CachesStand

LEMMA RequestHeadKept ==
    ASSUME ServerInv, NEW c \in Conns, NEW n \in Names, RequestHead(c, n)
    PROVE  ServerInv'
<1> USE DEF ServerInv, RequestHead, world
<1>0. pc[c] \in {"head", "idle"} /\ c \notin early
  BY DEF Draining
<1>1. ServerShapes'
  <2>1. got' \in [Conns -> Answers \cup {NoEf}]
    BY DEF ServerShapes, Answers
  <2> QED
    BY <2>1 DEF ServerShapes, Labels, Asking
<1>2. RequestAges'
  BY VerdictKinds DEF ServerShapes, RequestAges
<1>3. Draining'
  BY <1>0 DEF ServerShapes, Draining
<1> QED
  BY <1>1, <1>2, <1>3, CachesStand

LEMMA EndKept ==
    ASSUME ServerInv, NEW c \in Conns, End(c)
    PROVE  ServerInv'
<1> USE DEF ServerInv, End, world
<1>1. ServerShapes'
  BY DEF ServerShapes, Labels, Asking
<1>2. RequestAges'
  BY DEF ServerShapes, RequestAges
<1>3. Draining'
  BY DEF ServerShapes, Draining
<1> QED
  BY <1>1, <1>2, <1>3, CachesStand

\* An answer from a cache, or without a lookup.
LEMMA AnswerKept ==
    ASSUME ServerInv, NEW c \in Conns, NEW a \in Answers, Answer(c, a),
           pc[c] \in {"positive", "negative", "permit"},
           a \in Verdicts => since[key[c]][a] < ServerStaleness
    PROVE  ServerInv'
<1> USE DEF ServerInv, Answer, world
<1>1. ServerShapes'
  BY DEF ServerShapes, Labels, Asking
<1>2. RequestAges'
  BY DEF ServerShapes, RequestAges, Asking
<1>3. Draining'
  BY DEF ServerShapes, Draining
<1> QED
  BY <1>1, <1>2, <1>3, CachesStand

LEMMA GotoKept ==
    ASSUME ServerInv, NEW c \in Conns, NEW l \in {"negative", "permit", "join"}, Goto(c, l),
           pc[c] \in {"positive", "negative", "permit"}
    PROVE  ServerInv'
<1> USE DEF ServerInv, Goto, world
<1>1. ServerShapes'
  BY DEF ServerShapes, Labels, Asking
<1>2. RequestAges'
  BY DEF ServerShapes, RequestAges
<1>3. Draining'
  BY DEF ServerShapes, Draining
<1> QED
  BY <1>1, <1>2, <1>3, CachesStand

\* A verdict in a cache is an answer, and young enough to be one.
LEMMA CachedAnswer ==
    ASSUME ServerInv, NEW k \in Cohorts, NEW e \in Entries, NEW b \in Nat,
           EntryAge(e, k, b), e.left > 0
    PROVE  e.v \in Verdicts /\ e.v \in Answers /\ since[k][e.v] < b
           /\ since[k][e.v] + 1 < b
<1>1. e.v \in Verdicts /\ since[k][e.v] + e.left < b /\ e.left \in Nat
  BY DEF EntryAge, Entries
<1>2. since[k][e.v] \in Nat
  BY <1>1 DEF ServerInv, Ages
<1> QED
  BY <1>1, <1>2 DEF Answers

LEMMA LooksKept ==
    ASSUME ServerInv, NEW c \in Conns, GetPositive(c) \/ GetNegative(c) \/ TryAcquire(c)
    PROVE  ServerInv'
<1>0. ServerStaleness \in Nat
  BY DEF ServerStaleness
<1>1. CASE GetPositive(c)
  <2>1. key[c] \in Cohorts /\ pos[key[c]] \in Entries
    BY <1>1 DEF ServerInv, ServerShapes, Asking, GetPositive
  <2>2. CASE Cached(pos, key[c])
    BY <1>0, <1>1, <2>1, <2>2, CachedAnswer, AnswerKept
    DEF ServerInv, CacheAges, GetPositive, Cached
  <2>3. CASE ~Cached(pos, key[c])
    BY <1>1, <2>3, GotoKept DEF GetPositive
  <2> QED
    BY <2>2, <2>3
<1>2. CASE GetNegative(c)
  <2>1. key[c] \in Cohorts /\ neg[key[c]] \in Entries
    BY <1>2 DEF ServerInv, ServerShapes, Asking, GetNegative
  <2>2. CASE Cached(neg, key[c])
    BY <1>0, <1>2, <2>1, <2>2, CachedAnswer, AnswerKept
    DEF ServerInv, CacheAges, GetNegative, Cached
  <2>3. CASE ~Cached(neg, key[c])
    BY <1>2, <2>3, GotoKept DEF GetNegative
  <2> QED
    BY <2>2, <2>3
<1>3. CASE TryAcquire(c)
  <2>1. Unavailable \in Answers /\ Unavailable \notin Verdicts
    BY VerdictKinds DEF Answers
  <2> QED
    BY <1>3, <2>1, AnswerKept, GotoKept DEF TryAcquire
<1> QED
  BY <1>1, <1>2, <1>3

\* The shared result is handed on, its lookup awaited, or a lookup begun.
LEMMA TryGetWithKept ==
    ASSUME ServerInv, NEW c \in Conns, TryGetWith(c)
    PROVE  ServerInv'
<1> DEFINE k == key[c]
<1> USE DEF ServerInv, world
<1>0. /\ pc[c] \in {"join", "wait"} /\ k \in Cohorts /\ c \notin early
      /\ UNCHANGED <<phase, drain, key, pos, neg, coal, world>>
  BY DEF TryGetWith, ServerShapes, Asking, Draining
<1>1. Ages' /\ CacheAges'
  BY <1>0, CachesStand
<1>2. CASE /\ Cached(coal, k)
           /\ pc' = [pc EXCEPT ![c] = "insert"]
           /\ got' = [got EXCEPT ![c] = coal[k].v]
           /\ UNCHANGED <<timer, early>>
  <2>1. /\ coal[k].v \in Verdicts /\ coal[k].v \in Answers
        /\ since[k][coal[k].v] + 1 < LookupTimeout + CoalesceTTL + 1
    <3>1. LookupTimeout + CoalesceTTL + 1 \in Nat
      OBVIOUS
    <3>2. /\ coal[k] \in Entries /\ coal[k].left > 0
          /\ EntryAge(coal[k], k, LookupTimeout + CoalesceTTL + 1)
      BY <1>0, <1>2 DEF ServerShapes, CacheAges, Cached
    <3> QED
      BY <1>0, <3>1, <3>2, CachedAnswer
  <2>2. since[k][coal[k].v] \in Nat
    BY <1>0, <2>1 DEF Ages
  <2>3. ServerShapes'
    BY <1>0, <1>2, <2>1 DEF ServerShapes, Labels, Asking
  <2>4. RequestAges'
    BY <1>0, <1>2, <2>1, <2>2 DEF ServerShapes, RequestAges
  <2>5. Draining'
    BY <1>0, <1>2 DEF ServerShapes, Draining
  <2> QED
    BY <1>1, <2>3, <2>4, <2>5
<1>3. CASE pc' = [pc EXCEPT ![c] = "wait"] /\ UNCHANGED <<got, timer, early>>
  <2>1. ServerShapes'
    BY <1>0, <1>3 DEF ServerShapes, Labels, Asking
  <2>2. RequestAges'
    BY <1>0, <1>3 DEF ServerShapes, RequestAges
  <2>3. Draining'
    BY <1>0, <1>3 DEF ServerShapes, Draining
  <2> QED
    BY <1>1, <2>1, <2>2, <2>3
<1>4. CASE /\ pc' = [pc EXCEPT ![c] = "get"]
           /\ timer' = [timer EXCEPT ![c] = LookupTimeout]
           /\ early' = IF phase = "serving" THEN early \cup {c} ELSE early
           /\ got' = got /\ Running
  <2>1. ServerShapes'
    BY <1>0, <1>4 DEF ServerShapes, Labels, Asking
  <2>2. RequestAges'
    BY <1>0, <1>4 DEF ServerShapes, RequestAges
  <2>3. Draining'
    BY <1>0, <1>4 DEF ServerShapes, Draining, Running
  <2> QED
    BY <1>1, <2>1, <2>2, <2>3
<1> QED
  BY <1>2, <1>3, <1>4 DEF TryGetWith

\* The leader and its waiters are all asking for the leader's cohort.
LEMMA FinishShapes ==
    ASSUME ServerInv, NEW c \in Conns, pc[c] \in {"get", "body"},
           NEW label \in {"insert", "respond"}, NEW v \in Answers,
           Finish(c, label, v), UNCHANGED <<phase, drain, key>>
    PROVE  /\ \A d \in Conns :
                 \/ /\ pc'[d] = label /\ got'[d] = v /\ key[d] = key[c]
                    /\ pc[d] \in {"get", "body", "wait"} /\ (d # c => pc[d] = "wait")
                 \/ pc'[d] = pc[d] /\ got'[d] = got[d] /\ d # c
           /\ pc' \in [Conns -> Labels] /\ got' \in [Conns -> Answers \cup {NoEf}]
           /\ timer' \in [Conns -> Nat] /\ early' \subseteq Conns
           /\ \A d \in Conns : pc'[d] \in Asking => key[d] \in Cohorts
           /\ Draining'
<1> DEFINE done == {c} \cup Waiting(key[c])
<1>1. /\ pc' = [d \in Conns |-> IF d \in done THEN label ELSE pc[d]]
      /\ got' = [d \in Conns |-> IF d \in done THEN v ELSE got[d]]
      /\ timer' = [timer EXCEPT ![c] = 0] /\ early' = early \ {c}
  BY DEF Finish
<1>2. \A d \in done : key[d] = key[c] /\ pc[d] \in {"get", "body", "wait"}
                      /\ (d # c => pc[d] = "wait")
  BY DEF Waiting
<1>3. c \in done
  OBVIOUS
<1> HIDE DEF done
<1>4. \A d \in Conns :
         \/ /\ pc'[d] = label /\ got'[d] = v /\ key[d] = key[c]
            /\ pc[d] \in {"get", "body", "wait"} /\ (d # c => pc[d] = "wait")
         \/ pc'[d] = pc[d] /\ got'[d] = got[d] /\ d # c
  BY <1>1, <1>2, <1>3
<1>5. pc' \in [Conns -> Labels] /\ got' \in [Conns -> Answers \cup {NoEf}]
      /\ timer' \in [Conns -> Nat] /\ early' \subseteq Conns
  BY <1>1 DEF ServerInv, ServerShapes, Labels
<1>6. \A d \in Conns : pc'[d] \in Asking => key[d] \in Cohorts
  BY <1>4 DEF ServerInv, ServerShapes, Asking
<1>7. \A d \in Conns : timer'[d] = IF d = c THEN 0 ELSE timer[d]
  BY <1>1 DEF ServerInv, ServerShapes
<1>8. Draining'
  <2>1. \A d \in early' : d \in early /\ d # c /\ d \in Conns
    BY <1>1 DEF ServerInv, ServerShapes
  <2>2. \A d \in early' : pc'[d] \in {"get", "body"}
    BY <1>4, <2>1 DEF ServerInv, Draining
  <2>3. \A d \in Conns : pc'[d] \in {"get", "body"} => timer'[d] <= LookupTimeout
    BY <1>4, <1>7 DEF ServerInv, Draining
  <2>4. phase' = "draining" => \A d \in early' : timer'[d] < drain'
    BY <1>7, <2>1 DEF ServerInv, Draining
  <2> QED
    BY <2>1, <2>2, <2>3, <2>4 DEF ServerInv, Draining
<1> QED
  BY <1>4, <1>5, <1>6, <1>8

LEMMA LoadedKept ==
    ASSUME ServerInv, NEW c \in Conns, pc[c] \in {"get", "body"},
           NEW v \in Verdicts, Loaded(c, v), since[key[c]][v] <= LookupTimeout
    PROVE  ServerInv'
<1> DEFINE k == key[c]
<1>0. v \in Answers /\ k \in Cohorts /\ since[k][v] \in Nat
  BY DEF Answers, ServerInv, ServerShapes, Asking, Ages
<1>1. /\ Finish(c, "insert", v)
      /\ coal' = [coal EXCEPT ![k] = Entry(v, CoalesceTTL)]
      /\ UNCHANGED <<phase, drain, key, pos, neg, store, since>>
  BY DEF Loaded, world
<1>2. /\ \A d \in Conns : \/ pc'[d] = "insert" /\ got'[d] = v /\ key[d] = k
                          \/ pc'[d] = pc[d] /\ got'[d] = got[d] /\ d # c
      /\ pc' \in [Conns -> Labels] /\ got' \in [Conns -> Answers \cup {NoEf}]
      /\ timer' \in [Conns -> Nat] /\ early' \subseteq Conns
      /\ \A d \in Conns : pc'[d] \in Asking => key[d] \in Cohorts
      /\ Draining'
  BY <1>0, <1>1, FinishShapes
<1>3. Ages'
  BY WorldStands DEF Loaded, ServerInv
<1>4. Entry(v, CoalesceTTL) \in Entries
  BY DEF Entry, Entries
<1>5. ServerShapes'
  BY <1>0, <1>1, <1>2, <1>4 DEF ServerInv, ServerShapes
<1>6. CacheAges'
  <2>1. EntryAge(Entry(v, CoalesceTTL), k, LookupTimeout + CoalesceTTL + 1)
    BY <1>0 DEF EntryAge, Entry
  <2>2. \A j \in Cohorts : coal'[j] = IF j = k THEN Entry(v, CoalesceTTL) ELSE coal[j]
    BY <1>0, <1>1 DEF ServerInv, ServerShapes
  <2>3. \A j \in Cohorts : EntryAge(coal'[j], j, LookupTimeout + CoalesceTTL + 1)
    BY <2>1, <2>2 DEF ServerInv, CacheAges
  <2> QED
    BY <1>1, <2>3 DEF ServerInv, CacheAges, EntryAge
<1>7. RequestAges'
  <2>1. \A d \in Conns : d # c => timer'[d] = timer[d]
    BY <1>1 DEF Finish, ServerInv, ServerShapes
  <2> SUFFICES ASSUME NEW d \in Conns
               PROVE  /\ pc'[d] = "body" =>
                            /\ got'[d] \in Verdicts
                            /\ since[key[d]][got'[d]] + timer'[d] <= LookupTimeout
                      /\ pc'[d] = "insert" =>
                            /\ got'[d] \in Verdicts
                            /\ since[key[d]][got'[d]] < LookupTimeout + CoalesceTTL
                      /\ pc'[d] = "respond" /\ got'[d] \in Verdicts =>
                            /\ key[d] \in Cohorts
                            /\ since[key[d]][got'[d]] < ServerStaleness
    BY <1>1 DEF RequestAges
  <2>2. CASE pc'[d] = "insert" /\ got'[d] = v /\ key[d] = k
    BY <1>0, <2>2
  <2>3. CASE pc'[d] = pc[d] /\ got'[d] = got[d] /\ d # c
    BY <2>1, <2>3 DEF ServerInv, RequestAges
  <2> QED
    BY <1>2, <2>2, <2>3
<1> QED
  BY <1>2, <1>3, <1>5, <1>6, <1>7 DEF ServerInv

LEMMA LoadFailsKept ==
    ASSUME ServerInv, NEW c \in Conns, pc[c] \in {"get", "body"}, LoadFails(c)
    PROVE  ServerInv'
<1>0. Unavailable \in Answers /\ Unavailable \notin Verdicts
  BY VerdictKinds DEF Answers
<1>1. /\ Finish(c, "respond", Unavailable)
      /\ UNCHANGED <<phase, drain, key, pos, neg, coal, world>> /\ UNCHANGED since
  BY DEF LoadFails, world
<1>2. /\ \A d \in Conns : \/ pc'[d] = "respond" /\ got'[d] = Unavailable
                          \/ pc'[d] = pc[d] /\ got'[d] = got[d] /\ d # c
      /\ pc' \in [Conns -> Labels] /\ got' \in [Conns -> Answers \cup {NoEf}]
      /\ timer' \in [Conns -> Nat] /\ early' \subseteq Conns
      /\ \A d \in Conns : pc'[d] \in Asking => key[d] \in Cohorts
      /\ Draining'
  BY <1>0, <1>1, FinishShapes
<1>3. Ages' /\ CacheAges'
  BY <1>1, CachesStand
<1>4. ServerShapes'
  BY <1>1, <1>2 DEF ServerInv, ServerShapes
<1>5. RequestAges'
  <2>1. \A d \in Conns : d # c => timer'[d] = timer[d]
    BY <1>1 DEF Finish, ServerInv, ServerShapes
  <2> QED
    BY <1>0, <1>1, <1>2, <2>1 DEF ServerInv, RequestAges
<1> QED
  BY <1>2, <1>3, <1>4, <1>5 DEF ServerInv

\* The object is read: the version the GET fixed is the stored one.
LEMMA StoreStepKept ==
    ASSUME ServerInv, NEW c \in Conns, StoreStep(c)
    PROVE  ServerInv'
<1>1. CASE StoreGet(c)
  <2> DEFINE k == key[c]
             v == LoadEffectiveEf(store[k])
  <2>1. k \in Cohorts /\ v \in Verdicts /\ since[k][v] = 0 /\ pc[c] = "get"
    BY <1>1 DEF StoreGet, ServerInv, ServerShapes, Asking, Ages, Verdicts
  <2>2. CASE Loaded(c, v)
    BY <2>1, <2>2, LoadedKept
  <2>3. CASE /\ pc' = [pc EXCEPT ![c] = "body"]
             /\ got' = [got EXCEPT ![c] = v]
             /\ UNCHANGED <<phase, drain, key, timer, early, pos, neg, coal, world>>
    <3> HIDE DEF v
    <3>1. v \in Answers
      BY <2>1 DEF Answers
    <3>2. ServerShapes'
      BY <2>1, <2>3, <3>1 DEF ServerInv, ServerShapes, Labels, Asking
    <3>3. timer[c] <= LookupTimeout /\ timer[c] \in Nat
      BY <2>1 DEF ServerInv, Draining, ServerShapes
    <3>4. RequestAges'
      BY <2>1, <2>3, <3>3 DEF ServerInv, ServerShapes, RequestAges, world
    <3>5. Draining'
      BY <2>1, <2>3 DEF ServerInv, ServerShapes, Draining
    <3> QED
      BY <2>3, <3>2, <3>4, <3>5, CachesStand DEF ServerInv
  <2> QED
    BY <1>1, <2>2, <2>3 DEF StoreGet
<1>2. CASE BodyRead(c)
  <2>1. pc[c] = "body" /\ got[c] \in Verdicts /\ Loaded(c, got[c])
        /\ since[key[c]][got[c]] + timer[c] <= LookupTimeout
    BY <1>2 DEF BodyRead, ServerInv, RequestAges
  <2>2. timer[c] \in Nat /\ since[key[c]][got[c]] \in Nat
    BY <2>1 DEF ServerInv, ServerShapes, Asking, Ages
  <2> QED
    BY <2>1, <2>2, LoadedKept
<1>3. CASE StoreFails(c)
  BY <1>3, LoadFailsKept DEF StoreFails
<1> QED
  BY <1>1, <1>2, <1>3 DEF StoreStep

\* A verdict is cached, or a negative one is.
LEMMA InsertKept ==
    ASSUME ServerInv, NEW c \in Conns, Insert(c)
    PROVE  ServerInv'
<1> DEFINE k == key[c]
           e == Entry(got[c], CacheTTL)
<1>0. /\ pc[c] = "insert" /\ k \in Cohorts /\ got[c] \in Verdicts
      /\ since[k][got[c]] < LookupTimeout + CoalesceTTL
      /\ since[k][got[c]] \in Nat
  BY DEF Insert, ServerInv, ServerShapes, RequestAges, Asking, Ages
<1>1. /\ \/ pos' = [pos EXCEPT ![k] = e] /\ neg' = neg
         \/ neg' = [neg EXCEPT ![k] = e] /\ pos' = pos
      /\ pc' = [pc EXCEPT ![c] = "respond"]
      /\ UNCHANGED <<phase, drain, key, got, timer, early, coal, world>>
      /\ UNCHANGED since
  BY DEF Insert, world
<1>2. e \in Entries /\ EntryAge(e, k, ServerStaleness)
  BY <1>0 DEF Entry, Entries, EntryAge, ServerStaleness
<1> HIDE DEF e
<1>3. Ages'
  BY <1>1, WorldStands DEF ServerInv
<1>4. ServerShapes'
  BY <1>0, <1>1, <1>2 DEF ServerInv, ServerShapes, Labels, Asking
<1>5. CacheAges'
  <2>1. \A j \in Cohorts : /\ pos'[j] \in {pos[j]} \cup (IF j = k THEN {e} ELSE {})
                           /\ neg'[j] \in {neg[j]} \cup (IF j = k THEN {e} ELSE {})
    BY <1>0, <1>1 DEF ServerInv, ServerShapes
  <2>2. \A j \in Cohorts : /\ EntryAge(pos'[j], j, ServerStaleness)
                           /\ EntryAge(neg'[j], j, ServerStaleness)
    BY <1>2, <2>1 DEF ServerInv, CacheAges
  <2> QED
    BY <1>1, <2>2 DEF ServerInv, CacheAges, EntryAge
<1>6. since[k][got[c]] < ServerStaleness
  BY <1>0 DEF ServerStaleness
<1>7. RequestAges'
  BY <1>0, <1>1, <1>6 DEF ServerInv, ServerShapes, RequestAges
<1>8. Draining'
  BY <1>0, <1>1 DEF ServerInv, ServerShapes, Draining
<1> QED
  BY <1>3, <1>4, <1>5, <1>7, <1>8 DEF ServerInv

LEMMA RespondKept ==
    ASSUME ServerInv, NEW c \in Conns, Respond(c)
    PROVE  ServerInv'
<1>1. CASE End(c)
  BY <1>1, EndKept
<1>2. CASE /\ pc[c] = "respond"
           /\ pc' = [pc EXCEPT ![c] = "idle"]
           /\ got' = [got EXCEPT ![c] = NoEf]
           /\ key' = [key EXCEPT ![c] = CHOOSE n \in Names : TRUE]
           /\ UNCHANGED <<phase, drain, timer, early, pos, neg, coal, world>>
  <2> DEFINE n == CHOOSE n \in Names : TRUE
  <2> HIDE DEF n
  <2> USE DEF ServerInv, world
  <2>0. key' = [key EXCEPT ![c] = n]
    BY <1>2 DEF n
  <2>1. ServerShapes'
    BY <1>2, <2>0 DEF ServerShapes, Labels, Asking
  <2>2. RequestAges'
    BY <1>2, <2>0 DEF ServerShapes, RequestAges
  <2>3. Draining'
    BY <1>2 DEF ServerShapes, Draining
  <2> QED
    BY <1>2, <2>1, <2>2, <2>3, CachesStand
<1> QED
  BY <1>1, <1>2 DEF Respond

\* A cache that loses an entry loses nothing else.
LEMMA TrimmedEntries ==
    ASSUME NEW m \in [Cohorts -> Entries], NEW n \in Trimmed(m)
    PROVE  /\ n \in [Cohorts -> Entries]
           /\ \A k \in Cohorts : n[k] = m[k] \/ n[k].left = 0
<1>1. None \in Entries /\ None.left = 0
  BY DEF None, Entries
<1> QED
  BY <1>1 DEF Trimmed

LEMMA EvictKept ==
    ASSUME ServerInv, Evict
    PROVE  ServerInv'
<1>1. UNCHANGED <<phase, drain, pc, key, got, timer, early, store, since>>
  BY DEF Evict, world
<1>2. /\ pos' \in [Cohorts -> Entries] /\ neg' \in [Cohorts -> Entries]
      /\ coal' \in [Cohorts -> Entries]
      /\ \A k \in Cohorts : /\ pos'[k] = pos[k] \/ pos'[k].left = 0
                            /\ neg'[k] = neg[k] \/ neg'[k].left = 0
                            /\ coal'[k] = coal[k] \/ coal'[k].left = 0
  BY TrimmedEntries DEF Evict, ServerInv, ServerShapes
<1>3. Ages'
  BY WorldStands DEF Evict, ServerInv
<1>4. CacheAges'
  BY <1>1, <1>2 DEF ServerInv, CacheAges, EntryAge
<1>5. ServerShapes'
  BY <1>1, <1>2 DEF ServerInv, ServerShapes
<1>6. RequestAges' /\ Draining'
  BY <1>1 DEF ServerInv, RequestAges, Draining
<1> QED
  BY <1>3, <1>4, <1>5, <1>6 DEF ServerInv

\* A publication makes nothing older.
LEMMA PublishKept ==
    ASSUME ServerInv, NEW k \in Cohorts, NEW a \in Artifacts, Publish(k, a),
           UNCHANGED server
    PROVE  ServerInv'
<1>0. UNCHANGED <<phase, drain, pc, key, got, timer, early, pos, neg, coal>>
  BY DEF server
<1>1. Ages' /\ AgesBy(0)
  BY PublishAges DEF ServerInv
<1>2. \A j \in Cohorts, v \in Verdicts :
         since'[j][v] <= since[j][v] /\ since'[j][v] \in Nat /\ since[j][v] \in Nat
  BY <1>1 DEF AgesBy, ServerInv, Ages
<1>3. ASSUME NEW e \in Entries, NEW j \in Cohorts, NEW b \in Nat, EntryAge(e, j, b)
      PROVE  e.left > 0 => e.v \in Verdicts /\ since'[j][e.v] + e.left < b
  BY <1>2, <1>3 DEF EntryAge, Entries
<1>4. ServerStaleness \in Nat /\ LookupTimeout + CoalesceTTL + 1 \in Nat
  BY DEF ServerStaleness
<1>5. CacheAges'
  <2>1. \A j \in Cohorts : pos[j] \in Entries /\ neg[j] \in Entries /\ coal[j] \in Entries
    BY DEF ServerInv, ServerShapes
  <2>2. \A j \in Cohorts : /\ EntryAge(pos[j], j, ServerStaleness)'
                           /\ EntryAge(neg[j], j, ServerStaleness)'
                           /\ EntryAge(coal[j], j, LookupTimeout + CoalesceTTL + 1)'
    BY <1>0, <1>3, <1>4, <2>1 DEF ServerInv, CacheAges, EntryAge, ServerStaleness
  <2> QED
    BY <2>2 DEF CacheAges
<1>6. ServerShapes' /\ Draining'
  BY <1>0 DEF ServerInv, ServerShapes, Draining
<1>7. RequestAges'
  <2>1. \A c \in Conns : pc[c] \in {"body", "insert"} => key[c] \in Cohorts
    BY DEF ServerInv, ServerShapes, Asking
  <2>2. \A c \in Conns : timer[c] \in Nat
    BY DEF ServerInv, ServerShapes
  <2> QED
    BY <1>0, <1>2, <1>4, <2>1, <2>2 DEF ServerInv, RequestAges
<1> QED
  BY <1>1, <1>5, <1>6, <1>7 DEF ServerInv

\* Shutdown begins with more time than any lookup has; the drain's end comes
\* when none of the earlier ones can be left.
LEMMA PhaseKept ==
    ASSUME ServerInv, Shutdown \/ DrainTimesOut \/ Drained
    PROVE  ServerInv'
<1>0. UNCHANGED <<drain, pc, key, got, timer, early, pos, neg, coal, world>>
      /\ UNCHANGED since
  BY DEF Shutdown, DrainTimesOut, Drained, world
<1>1. Ages' /\ CacheAges'
  BY <1>0, CachesStand
<1>2. ServerShapes'
  BY <1>0 DEF ServerInv, ServerShapes, Shutdown, DrainTimesOut, Drained
<1>3. RequestAges'
  BY <1>0 DEF ServerInv, RequestAges
<1>4. \A c \in early : c \in Conns /\ timer[c] \in Nat /\ pc[c] \in {"get", "body"}
  BY DEF ServerInv, ServerShapes, Draining
<1>5. Draining'
  <2>1. CASE Shutdown
    BY <1>0, <1>4, <2>1 DEF ServerInv, Draining, Shutdown
  <2>2. CASE DrainTimesOut
    BY <1>0, <1>4, <2>2 DEF ServerInv, Draining, DrainTimesOut
  <2>3. CASE Drained
    BY <1>0, <2>3 DEF ServerInv, Draining, Drained
  <2> QED
    BY <2>1, <2>2, <2>3
<1> QED
  BY <1>1, <1>2, <1>3, <1>5 DEF ServerInv

\* An entry that stays in a cache for a tick was good for longer.
LEMMA AgedEntries ==
    ASSUME ServerInv, AgesBy(1), Ages',
           NEW m \in [Cohorts -> Entries], NEW b \in Nat,
           \A k \in Cohorts : EntryAge(m[k], k, b)
    PROVE  /\ Aged(m) \in [Cohorts -> Entries]
           /\ \A k \in Cohorts : Aged(m)[k].left > 0 =>
                 Aged(m)[k].v \in Verdicts /\ since'[k][Aged(m)[k].v] + Aged(m)[k].left < b
<1>1. None \in Entries /\ None.left = 0
  BY DEF None, Entries
<1>2. \A k \in Cohorts : m[k].left \in Nat /\ m[k].v \in Verdicts \cup {NoEf}
  BY DEF Entries
<1>3. ASSUME NEW k \in Cohorts, m[k].left > 1
      PROVE  LET e == [m[k] EXCEPT !.left = @ - 1]
             IN  e \in Entries /\ e.left = m[k].left - 1 /\ e.v = m[k].v
  BY <1>3 DEF Entries
<1>4. Aged(m) \in [Cohorts -> Entries]
  BY <1>1, <1>3 DEF Aged
<1>5. ASSUME NEW k \in Cohorts, Aged(m)[k].left > 0
      PROVE  Aged(m)[k].v \in Verdicts /\ since'[k][Aged(m)[k].v] + Aged(m)[k].left < b
  <2> DEFINE e == Aged(m)[k]
             v == m[k].v
  <2>1. m[k].left > 1 /\ e.left = m[k].left - 1 /\ e.v = v
    BY <1>1, <1>2, <1>3, <1>5 DEF Aged
  <2>2. v \in Verdicts /\ since[k][v] + m[k].left < b
    BY <1>2, <2>1 DEF EntryAge
  <2>3. since'[k][v] <= since[k][v] + 1 /\ since'[k][v] \in Nat /\ since[k][v] \in Nat
    BY <2>2 DEF AgesBy, Ages, ServerInv
  <2> HIDE DEF e, v
  <2>4. e.v \in Verdicts /\ since'[k][e.v] + e.left < b
    BY <1>2, <2>1, <2>2, <2>3
  <2> QED
    BY <2>4 DEF e
<1> QED
  BY <1>4, <1>5

\* Nothing a request is about to be answered with waits for a tick.
LEMMA TickKept ==
    ASSUME ServerInv, Tick
    PROVE  ServerInv'
<1>0. /\ UNCHANGED <<phase, pc, key, got, early>>
      /\ timer' = [c \in Conns |-> Down(timer[c])]
      /\ pos' = Aged(pos) /\ neg' = Aged(neg) /\ coal' = Aged(coal)
      /\ drain' = IF phase = "draining" THEN Down(drain) ELSE drain
      /\ phase \in {"serving", "draining"} /\ (phase = "draining" => drain # 0)
  BY DEF Tick, Running
<1>1. \A c \in Conns : pc[c] \notin {"insert", "respond"}
                       /\ (pc[c] \in {"get", "body"} => timer[c] # 0)
  BY DEF Tick, Due
<1>2. Ages' /\ AgesBy(1)
  BY TickAges DEF Tick, ServerInv
<1>3. \A c \in Conns : /\ timer[c] \in Nat
                       /\ timer'[c] = IF timer[c] = 0 THEN 0 ELSE timer[c] - 1
  BY <1>0 DEF ServerInv, ServerShapes, Down
<1>4. ServerStaleness \in Nat /\ LookupTimeout + CoalesceTTL + 1 \in Nat
  BY DEF ServerStaleness
<1>5. /\ pos' \in [Cohorts -> Entries] /\ neg' \in [Cohorts -> Entries]
      /\ coal' \in [Cohorts -> Entries] /\ CacheAges'
  <2>1. /\ pos' \in [Cohorts -> Entries]
        /\ \A k \in Cohorts : EntryAge(pos[k], k, ServerStaleness)'
    BY <1>0, <1>2, <1>4, AgedEntries
    DEF ServerInv, ServerShapes, CacheAges, EntryAge, ServerStaleness
  <2>2. /\ neg' \in [Cohorts -> Entries]
        /\ \A k \in Cohorts : EntryAge(neg[k], k, ServerStaleness)'
    BY <1>0, <1>2, <1>4, AgedEntries
    DEF ServerInv, ServerShapes, CacheAges, EntryAge, ServerStaleness
  <2>3. /\ coal' \in [Cohorts -> Entries]
        /\ \A k \in Cohorts : EntryAge(coal[k], k, LookupTimeout + CoalesceTTL + 1)'
    BY <1>0, <1>2, <1>4, AgedEntries DEF ServerInv, ServerShapes, CacheAges, EntryAge
  <2> QED
    BY <2>1, <2>2, <2>3 DEF CacheAges
<1>6. ServerShapes'
  <2>1. timer' \in [Conns -> Nat] /\ drain' \in Nat
    BY <1>0, <1>3 DEF ServerInv, ServerShapes, Down
  <2> QED
    BY <1>0, <1>5, <2>1 DEF ServerInv, ServerShapes
<1>7. RequestAges'
  <2> SUFFICES ASSUME NEW c \in Conns, pc[c] = "body"
               PROVE  /\ got[c] \in Verdicts
                      /\ since'[key[c]][got[c]] + timer'[c] <= LookupTimeout
    BY <1>0, <1>1 DEF RequestAges
  <2>1. key[c] \in Cohorts /\ got[c] \in Verdicts
        /\ since[key[c]][got[c]] + timer[c] <= LookupTimeout
    BY DEF ServerInv, ServerShapes, RequestAges, Asking
  <2>2. /\ since'[key[c]][got[c]] <= since[key[c]][got[c]] + 1
        /\ since'[key[c]][got[c]] \in Nat /\ since[key[c]][got[c]] \in Nat
    BY <1>2, <2>1 DEF AgesBy, Ages, ServerInv
  <2> QED
    BY <1>1, <1>3, <2>1, <2>2
<1>8. Draining'
  <2>1. \A c \in early : c \in Conns /\ pc[c] \in {"get", "body"}
    BY DEF ServerInv, ServerShapes, Draining
  <2>2. phase = "draining" => \A c \in early : timer'[c] < drain'
    BY <1>0, <1>1, <1>3, <2>1 DEF ServerInv, ServerShapes, Draining, Down
  <2> QED
    BY <1>0, <1>3, <2>1, <2>2 DEF ServerInv, Draining
<1> QED
  BY <1>2, <1>5, <1>6, <1>7, <1>8 DEF ServerInv

-----------------------------------------------------------------------------
(* The server's theorems.                                                  *)

LEMMA ServerInit == Init => ServerInv
<1> SUFFICES ASSUME Init PROVE ServerInv
  OBVIOUS
<1>1. Ages
  BY WorldInitAges DEF Init
<1>2. None \in Entries /\ None.left = 0
  BY DEF None, Entries
<1>3. \A k \in Cohorts : pos[k].left = 0 /\ neg[k].left = 0 /\ coal[k].left = 0
  BY <1>2 DEF Init
<1>4. ServerShapes
  <2> DEFINE n == CHOOSE n \in Names : TRUE
  <2> HIDE DEF n
  <2>1. key = [c \in Conns |-> n]
    BY DEF Init, n
  <2> QED
    BY <1>2, <2>1 DEF Init, ServerShapes, Labels, Asking
<1>5. CacheAges
  BY <1>3 DEF CacheAges, EntryAge
<1>6. RequestAges /\ Draining
  BY DEF Init, RequestAges, Draining
<1> QED
  BY <1>1, <1>4, <1>5, <1>6 DEF ServerInv

LEMMA ServerStep == ServerInv /\ [Next]_vars => ServerInv'
<1> SUFFICES ASSUME ServerInv, [Next]_vars PROVE ServerInv'
  OBVIOUS
<1>1. ASSUME NEW c \in Conns, Handle(c) PROVE ServerInv'
  BY <1>1, LooksKept, TryGetWithKept, InsertKept, RespondKept, EndKept, LoadFailsKept
  DEF Handle, HeadTimeout, LookupTimesOut, GracefulClose, Abort
<1>2. ASSUME NEW c \in Conns, StoreStep(c) PROVE ServerInv'
  BY <1>2, StoreStepKept
<1>3. ASSUME NEW c \in Conns, PeerStep(c) PROVE ServerInv'
  BY <1>3, AcceptKept, RequestHeadKept, EndKept DEF PeerStep, PeerCloses
<1>4. CASE Environment
  BY <1>4, EvictKept, PublishKept, PhaseKept DEF Environment
<1>5. CASE Stop
  BY <1>5, PhaseKept DEF Stop
<1>6. CASE UNCHANGED vars
  <2>1. UNCHANGED <<phase, drain, pc, key, got, timer, early, pos, neg, coal, world>>
        /\ UNCHANGED since
    BY <1>6 DEF vars, server, world
  <2>2. Ages' /\ CacheAges'
    BY <2>1, CachesStand
  <2> QED
    BY <2>1, <2>2 DEF ServerInv, ServerShapes, RequestAges, Draining
<1>7. CASE Tick
  BY <1>7, TickKept
<1> QED
  BY <1>1, <1>2, <1>3, <1>4, <1>5, <1>6, <1>7 DEF Next, Stopped

\* The inductive invariant of the server holds in every state.
THEOREM ServerInvariant == Spec => []ServerInv
  BY ServerInit, ServerStep, PTL DEF Spec

\* Whatever the timeouts and lifetimes, an answer was the stored artifact's
\* verdict less than a lookup, a shared result and a cache lifetime ago
\* (get_ef_search with its three caches, and load_effective_ef).
THEOREM AnswersAreFresh == Spec => []AnswersFresh
<1>1. ServerInv => AnswersFresh
  BY DEF ServerInv, RequestAges, AnswersFresh
<1> QED
  BY <1>1, ServerInvariant, PTL

\* For every configuration validate_config admits, a lookup that began before
\* shutdown is over when the drain's deadline aborts what is left.
THEOREM EarlierLookupsEnd == Spec => []DrainCutsNoEarlierLookup
<1>1. ServerInv => DrainCutsNoEarlierLookup
  BY DEF ServerInv, Draining, DrainCutsNoEarlierLookup
<1> QED
  BY <1>1, ServerInvariant, PTL

-----------------------------------------------------------------------------
(* The client's inductive invariant.                                       *)

USE ClientAssumption

Values == [kind : {"default", "found"}, ef : Int, refreshed : BOOLEAN]
CacheEntries == [in : BOOLEAN, left : Nat, value : Values]

ClientShapes ==
    /\ tpc \in [Threads -> {"idle", "count", "fetch", "save", "return"}]
    /\ want = [t \in Threads |-> want[t]]
    /\ value \in [Threads -> Values]
    /\ answer = [t \in Threads |-> answer[t]]
    /\ spent \in [Threads -> Nat]
    /\ cache \in [Asked -> CacheEntries]
    /\ \A t \in Threads : tpc[t] # "idle" => want[t] \in Asked

\* A value that was read for cohort n is younger than the bound.
Younger(x, n, bound) ==
    x.refreshed => /\ n \in Cohorts /\ Found(x.ef) \in Verdicts
                   /\ since[n][Found(x.ef)] < bound

\* An answer on its way is as old as the server's may be, and the time since
\* the thread that waits for it has read the clock.
Answered(t) ==
    answer[t] # NoAnswer =>
        /\ tpc[t] = "fetch" /\ want[t] \in Cohorts
        /\ answer[t] \in Verdicts /\ answer[t].kind = "found"
        /\ since[want[t]][answer[t]] < AnswerStaleness + spent[t]

\* What a thread has of a cohort is not too old for the place it is at.
ThreadAge(t) ==
    /\ tpc[t] = "count" => ~value[t].refreshed
    /\ tpc[t] = "save" => Younger(value[t], want[t], AnswerStaleness + spent[t])
    /\ tpc[t] = "return" => \/ Younger(value[t], want[t], AnswerStaleness + ClientTTL)
                            \/ Younger(value[t], want[t], AnswerStaleness + spent[t])

\* Nor what the cache has of it, for the time its entry will be fresh.
ClientEntryAge(n) ==
    /\ cache[n].left > 0 =>
           Younger(cache[n].value, n, AnswerStaleness + ClientTTL - cache[n].left)
    /\ ~cache[n].in => ~cache[n].value.refreshed

\* The ages of what the client has, and of what its threads hold.
ClientAges ==
    /\ \A n \in Asked : ClientEntryAge(n)
    /\ \A t \in Threads : Answered(t) /\ ThreadAge(t)

\* Threads that passed the size check for a cohort that is not cached yet.
Admitted == {t \in Threads : tpc[t] \in {"fetch", "save"} /\ ~cache[want[t]].in}

\* Every admitted thread has its place, and one of them came last.
Room ==
    Cardinality(CachedNames) + Cardinality(Admitted)
      <= MaxCohorts + Cardinality(Threads) - 1

ClientInv == Ages /\ ClientShapes /\ ClientAges /\ Room

-----------------------------------------------------------------------------
(* The client's steps.                                                     *)

\* The verdict of a value that was found is the value.
LEMMA FoundVerdict ==
    ASSUME NEW v \in Verdicts, v.kind = "found"
    PROVE  v = Found(v.ef) /\ v.ef \in Int
<1>1. PICK a \in Artifacts : v = LoadEffectiveEf(a)
  BY DEF Verdicts
<1>2. v \in {Missing, Defect} \/ \E ef \in Int : v = Found(ef)
  <2> DEFINE bad == \/ TooLarge(a) \/ ~a.json
                    \/ a.format_version # 1 \/ ~a.own_cohort
             ef == CHOOSE e \in a.effective : TRUE
  <2>1. CASE a = Absent
    BY <1>1, <2>1 DEF LoadEffectiveEf
  <2>2. CASE a # Absent /\ bad
    BY <1>1, <2>2 DEF LoadEffectiveEf
  <2>3. CASE a # Absent /\ ~bad
    <3>1. v = IF a.effective = {} THEN Missing
              ELSE IF ef \in MinEf .. MaxEf THEN Found(ef) ELSE Defect
      BY <1>1, <2>3 DEF LoadEffectiveEf
    <3> HIDE DEF ef
    <3>2. ef \in MinEf .. MaxEf => ef \in Int
      BY DEF MinEf, MaxEf
    <3> QED
      BY <3>1, <3>2
  <2> QED
    BY <2>1, <2>2, <2>3
<1>3. v # Missing /\ v # Defect
  BY DEF Missing, Defect
<1>4. PICK ef \in Int : v = Found(ef)
  BY <1>2, <1>3
<1>5. v.ef = ef
  BY <1>4 DEF Found
<1> QED
  BY <1>4, <1>5

\* The set of cached names and the set of admitted threads are finite.
LEMMA RoomSets ==
    /\ IsFiniteSet(CachedNames) /\ Cardinality(CachedNames) \in Nat
    /\ IsFiniteSet(Admitted) /\ Cardinality(Admitted) \in Nat
    /\ Cardinality(Admitted) <= Cardinality(Threads)
    /\ Cardinality(Threads) \in Nat /\ Cardinality(Threads) >= 1
<1>1. CachedNames \in SUBSET Asked /\ Admitted \in SUBSET Threads
  BY DEF CachedNames, Admitted
<1>2. IsFiniteSet(CachedNames) /\ IsFiniteSet(Admitted)
      /\ Cardinality(Admitted) <= Cardinality(Threads)
  BY <1>1, FS_Subset
<1>3. Cardinality(Threads) \in Nat /\ Cardinality(Threads) # 0
  BY FS_CardinalityType, FS_EmptySet
<1> QED
  BY <1>2, <1>3, FS_CardinalityType

\* As long as no cohort is cached and no thread admitted there is room.
LEMMA RoomKept ==
    ASSUME Room, CachedNames' = CachedNames, Admitted' \subseteq Admitted
    PROVE  Room'
<1>1. Cardinality(Admitted') <= Cardinality(Admitted) /\ Cardinality(Admitted') \in Nat
  BY RoomSets, FS_Subset, FS_CardinalityType
<1> QED
  BY <1>1, RoomSets DEF Room

\* Threads and entries that a step leaves as they are keep their ages.
LEMMA AgesStand ==
    ASSUME ClientInv, UNCHANGED since
    PROVE  /\ \A n \in Asked : cache'[n] = cache[n] => ClientEntryAge(n)'
           /\ \A t \in Threads :
                 /\ tpc'[t] = tpc[t] /\ want'[t] = want[t] /\ value'[t] = value[t]
                 /\ answer'[t] = answer[t] /\ spent'[t] = spent[t]
                 => (Answered(t) /\ ThreadAge(t))'
<1>1. ASSUME NEW x, NEW n, NEW bound, Younger(x, n, bound)
      PROVE  Younger(x, n, bound)'
  BY <1>1 DEF Younger
<1>2. ASSUME NEW n \in Asked, cache'[n] = cache[n] PROVE ClientEntryAge(n)'
  BY <1>1, <1>2 DEF ClientInv, ClientAges, ClientEntryAge
<1>3. ASSUME NEW t \in Threads,
             tpc'[t] = tpc[t], want'[t] = want[t], value'[t] = value[t],
             answer'[t] = answer[t], spent'[t] = spent[t]
      PROVE  (Answered(t) /\ ThreadAge(t))'
  <2>1. Answered(t) /\ ThreadAge(t)
    BY DEF ClientInv, ClientAges
  <2>2. Answered(t)'
    BY <1>3, <2>1 DEF Answered
  <2>3. ThreadAge(t)'
    BY <1>1, <1>3, <2>1 DEF ThreadAge
  <2> QED
    BY <2>2, <2>3
<1> QED
  BY <1>2, <1>3

\* Only a thread that fetches has an answer on its way.
LEMMA NoneAnswered ==
    ASSUME ClientInv, NEW t \in Threads,
           tpc[t] # "fetch" \/ want[t] \notin Cohorts
    PROVE  answer[t] = NoAnswer
BY DEF ClientInv, ClientAges, Answered

\* The cached entry: fresh, expired or absent.
LEMMA LookKept ==
    ASSUME ClientInv, NEW t \in Threads, NEW n \in Asked, Look(t, n)
    PROVE  ClientInv'
<1> DEFINE l == IF cache[n].left > 0 THEN "return"
                ELSE IF cache[n].in THEN "fetch" ELSE "count"
<1>1. /\ want' = [want EXCEPT ![t] = n] /\ value' = [value EXCEPT ![t] = cache[n].value]
      /\ tpc' = [tpc EXCEPT ![t] = l]
      /\ UNCHANGED <<answer, spent, cache, store, since, world>>
      /\ tpc[t] = "idle"
  BY DEF Look, world
<1>2. cache[n].value \in Values /\ cache[n].left \in Nat
  BY DEF ClientInv, ClientShapes, CacheEntries
<1>3. l \in {"idle", "count", "fetch", "save", "return"}
  OBVIOUS
<1>4. l = "count" => ~cache[n].in
  OBVIOUS
<1>5. l = "fetch" => cache[n].in
  OBVIOUS
<1>6. l = "return" => cache[n].left > 0
  OBVIOUS
<1>7. l # "save"
  OBVIOUS
<1> HIDE DEF l
<1>8. Ages'
  BY <1>1, WorldStands DEF ClientInv
<1>9. ClientShapes'
  BY <1>1, <1>2, <1>3 DEF ClientInv, ClientShapes
<1>10. \A s \in Threads : /\ tpc'[s] = IF s = t THEN l ELSE tpc[s]
                          /\ want'[s] = IF s = t THEN n ELSE want[s]
                          /\ value'[s] = IF s = t THEN cache[n].value ELSE value[s]
  BY <1>1 DEF ClientInv, ClientShapes
<1>11. ClientAges'
  <2>1. l = "return" => Younger(cache[n].value, n, AnswerStaleness + ClientTTL)
    <3> SUFFICES ASSUME cache[n].left > 0, cache[n].value.refreshed
                 PROVE  Younger(cache[n].value, n, AnswerStaleness + ClientTTL)
      BY <1>6 DEF Younger
    <3> DEFINE v == Found(cache[n].value.ef)
    <3>1. n \in Cohorts /\ v \in Verdicts
          /\ since[n][v] < AnswerStaleness + ClientTTL - cache[n].left
      BY DEF ClientInv, ClientAges, ClientEntryAge, Younger
    <3>2. since[n][v] \in Nat
      BY <3>1 DEF ClientInv, Ages
    <3> QED
      BY <1>2, <3>1, <3>2 DEF Younger
  <2>2. l = "count" => ~cache[n].value.refreshed
    BY <1>4 DEF ClientInv, ClientAges, ClientEntryAge
  <2>3. Answered(t)'
    BY <1>1, NoneAnswered DEF Answered
  <2>4. ThreadAge(t)'
    BY <1>1, <1>7, <1>10, <2>1, <2>2 DEF ThreadAge, Younger
  <2>5. \A s \in Threads : s # t => (Answered(s) /\ ThreadAge(s))'
    BY <1>1, <1>10, AgesStand
  <2>6. \A m \in Asked : ClientEntryAge(m)'
    BY <1>1, AgesStand
  <2> QED
    BY <2>3, <2>4, <2>5, <2>6 DEF ClientAges
<1>12. Room'
  <2>1. CachedNames' = CachedNames
    BY <1>1 DEF CachedNames
  <2>2. ASSUME NEW s \in Admitted' PROVE s \in Admitted
    <3>1. s \in Threads /\ tpc'[s] \in {"fetch", "save"} /\ ~cache[want'[s]].in
      BY <1>1, <2>2 DEF Admitted
    <3>2. s # t
      BY <1>5, <1>7, <1>10, <3>1
    <3> QED
      BY <1>10, <3>1, <3>2 DEF Admitted
  <2> QED
    BY <2>1, <2>2, RoomKept DEF ClientInv
<1> QED
  BY <1>8, <1>9, <1>11, <1>12 DEF ClientInv

\* The size check admits one thread more than it counts, while the others that
\* were admitted are on their way.
LEMMA CountKept ==
    ASSUME ClientInv, NEW t \in Threads, Count(t)
    PROVE  ClientInv'
<1> DEFINE l == IF Cardinality(CachedNames) >= MaxCohorts THEN "return" ELSE "fetch"
<1>1. /\ tpc' = [tpc EXCEPT ![t] = l]
      /\ UNCHANGED <<want, value, answer, spent, cache, world>>
      /\ UNCHANGED since /\ tpc[t] = "count"
  BY DEF Count, world
<1>2. l \in {"return", "fetch"} /\ (l = "fetch" => Cardinality(CachedNames) < MaxCohorts)
  BY RoomSets
<1> HIDE DEF l
<1>3. Ages'
  BY <1>1, WorldStands DEF ClientInv
<1>4. ClientShapes'
  BY <1>1, <1>2 DEF ClientInv, ClientShapes
<1>5. \A s \in Threads : tpc'[s] = IF s = t THEN l ELSE tpc[s]
  BY <1>1 DEF ClientInv, ClientShapes
<1>6. ClientAges'
  <2>1. Answered(t)'
    BY <1>1, NoneAnswered DEF Answered
  <2>2. ~value[t].refreshed
    BY <1>1 DEF ClientInv, ClientAges, ThreadAge
  <2>3. ThreadAge(t)'
    BY <1>1, <1>2, <1>5, <2>2 DEF ThreadAge, Younger
  <2>4. \A s \in Threads : s # t => (Answered(s) /\ ThreadAge(s))'
    BY <1>1, <1>5, AgesStand
  <2>5. \A m \in Asked : ClientEntryAge(m)'
    BY <1>1, AgesStand
  <2> QED
    BY <2>1, <2>3, <2>4, <2>5 DEF ClientAges
<1>7. Room'
  <2>1. CachedNames' = CachedNames
    BY <1>1 DEF CachedNames
  <2>2. CASE l = "return"
    <3>1. Admitted' \subseteq Admitted
      BY <1>1, <1>5, <2>2 DEF Admitted
    <3> QED
      BY <2>1, <3>1, RoomKept DEF ClientInv
  <2>3. CASE l = "fetch"
    <3>1. Admitted' \in SUBSET Threads
      BY DEF Admitted
    <3>2. Cardinality(Admitted') <= Cardinality(Threads) /\ Cardinality(Admitted') \in Nat
      BY <3>1, FS_Subset, FS_CardinalityType
    <3> QED
      BY <1>2, <2>1, <2>3, <3>2, RoomSets DEF Room
  <2> QED
    BY <1>2, <2>2, <2>3
<1> QED
  BY <1>3, <1>4, <1>6, <1>7 DEF ClientInv

\* An answer is within the server's bound when it is given.
LEMMA AnswersKept ==
    ASSUME ClientInv, NEW t \in Threads, ServerAnswers(t)
    PROVE  ClientInv'
<1>1. PICK v \in Verdicts :
         /\ tpc[t] = "fetch" /\ want[t] \in Cohorts
         /\ v.kind = "found" /\ since[want[t]][v] < AnswerStaleness
         /\ answer' = [answer EXCEPT ![t] = v]
         /\ UNCHANGED <<tpc, want, value, spent, cache, world>>
  BY DEF ServerAnswers
<1>2. UNCHANGED since
  BY <1>1 DEF world
<1>3. Ages'
  BY <1>1, WorldStands DEF ClientInv
<1>4. ClientShapes'
  BY <1>1 DEF ClientInv, ClientShapes
<1>5. \A s \in Threads : answer'[s] = IF s = t THEN v ELSE answer[s]
  BY <1>1 DEF ClientInv, ClientShapes
<1>6. since[want[t]][v] < AnswerStaleness + spent[t]
  <2>1. spent[t] \in Nat /\ since[want[t]][v] \in Nat
    BY <1>1 DEF ClientInv, ClientShapes, Ages
  <2> QED
    BY <1>1, <2>1
<1>7. ClientAges'
  <2>1. Answered(t)'
    BY <1>1, <1>2, <1>5, <1>6 DEF Answered
  <2>2. ThreadAge(t)'
    BY <1>1 DEF ThreadAge
  <2>3. \A s \in Threads : s # t => (Answered(s) /\ ThreadAge(s))'
    BY <1>1, <1>2, <1>5, AgesStand
  <2>4. \A m \in Asked : ClientEntryAge(m)'
    BY <1>1, <1>2, AgesStand
  <2> QED
    BY <2>1, <2>2, <2>3, <2>4 DEF ClientAges
<1>8. Room'
  BY <1>1 DEF ClientInv, Room, CachedNames, Admitted
<1> QED
  BY <1>3, <1>4, <1>7, <1>8 DEF ClientInv

\* A fetch that ends with a value, with an error, or with what the thread had.
LEMMA FetchKept ==
    ASSUME ClientInv, NEW t \in Threads,
           FetchReads(t) \/ FetchFails(t)
    PROVE  ClientInv'
<1>1. PICK x \in Values :
         /\ value' = [value EXCEPT ![t] = x]
         /\ Younger(x, want[t], AnswerStaleness + spent[t])
  <2>1. CASE FetchReads(t)
    <3>1. PICK v : v = answer[t]
      OBVIOUS
    <3>2. /\ want[t] \in Cohorts /\ v \in Verdicts /\ v.kind = "found"
          /\ since[want[t]][v] < AnswerStaleness + spent[t]
      BY <2>1, <3>1 DEF FetchReads, ClientInv, ClientAges, Answered
    <3>3. v = Found(v.ef) /\ v.ef \in Int
      BY <3>2, FoundVerdict
    <3>4. Fetched(v) \in Values /\ Fetched(v).ef = v.ef
      BY <3>3 DEF Fetched, Values
    <3>5. value' = [value EXCEPT ![t] = Fetched(v)]
      BY <2>1, <3>1 DEF FetchReads
    <3> QED
      BY <3>2, <3>3, <3>4, <3>5 DEF Younger
  <2>2. CASE FetchFails(t)
    <3>1. value[t] \in Values
      BY DEF ClientInv, ClientShapes
    <3>2. Fallback(value[t]) \in Values /\ ~Fallback(value[t]).refreshed
      BY <3>1 DEF Fallback, Values
    <3>3. value' = [value EXCEPT ![t] = Fallback(value[t])]
      BY <2>2 DEF FetchFails
    <3> QED
      BY <3>2, <3>3 DEF Younger
  <2> QED
    BY <2>1, <2>2
<1>2. /\ tpc' = [tpc EXCEPT ![t] = "save"] /\ answer' = [answer EXCEPT ![t] = NoAnswer]
      /\ UNCHANGED <<want, spent, cache, world>> /\ UNCHANGED since /\ tpc[t] = "fetch"
  BY DEF FetchReads, FetchFails, world
<1>3. Ages'
  BY <1>2, WorldStands DEF ClientInv
<1>4. ClientShapes'
  BY <1>1, <1>2 DEF ClientInv, ClientShapes
<1>5. \A s \in Threads : /\ tpc'[s] = IF s = t THEN "save" ELSE tpc[s]
                         /\ value'[s] = IF s = t THEN x ELSE value[s]
                         /\ answer'[s] = IF s = t THEN NoAnswer ELSE answer[s]
  BY <1>1, <1>2 DEF ClientInv, ClientShapes
<1>6. ClientAges'
  <2>1. Answered(t)'
    BY <1>5 DEF Answered
  <2>2. ThreadAge(t)'
    BY <1>1, <1>2, <1>5 DEF ThreadAge, Younger
  <2>3. \A s \in Threads : s # t => (Answered(s) /\ ThreadAge(s))'
    BY <1>2, <1>5, AgesStand
  <2>4. \A m \in Asked : ClientEntryAge(m)'
    BY <1>2, AgesStand
  <2> QED
    BY <2>1, <2>2, <2>3, <2>4 DEF ClientAges
<1>7. Room'
  <2>1. CachedNames' = CachedNames /\ Admitted' \subseteq Admitted
    BY <1>2, <1>5 DEF CachedNames, Admitted
  <2> QED
    BY <2>1, RoomKept DEF ClientInv
<1> QED
  BY <1>3, <1>4, <1>6, <1>7 DEF ClientInv

\* A call is over.
LEMMA ReturnKept ==
    ASSUME ClientInv, NEW t \in Threads, FetchRaises(t) \/ Return(t)
    PROVE  ClientInv'
<1> DEFINE n == AnyName
<1> HIDE DEF n
<1>1. /\ tpc' = [tpc EXCEPT ![t] = "idle"] /\ value' = [value EXCEPT ![t] = Default]
      /\ want' = [want EXCEPT ![t] = n] /\ spent' = [spent EXCEPT ![t] = 0]
      /\ UNCHANGED <<answer, cache, world>> /\ UNCHANGED since
      /\ tpc[t] # "fetch" \/ want[t] \notin Cohorts
  BY DEF FetchRaises, Return, world, n
<1>2. Default \in Values
  BY DEF Default, Values
<1>3. Ages'
  BY <1>1, WorldStands DEF ClientInv
<1>4. ClientShapes'
  BY <1>1, <1>2 DEF ClientInv, ClientShapes
<1>5. \A s \in Threads : /\ tpc'[s] = IF s = t THEN "idle" ELSE tpc[s]
                         /\ s # t => /\ value'[s] = value[s] /\ want'[s] = want[s]
                                     /\ spent'[s] = spent[s]
  BY <1>1 DEF ClientInv, ClientShapes
<1>6. ClientAges'
  <2>1. Answered(t)'
    BY <1>1, NoneAnswered DEF Answered
  <2>2. ThreadAge(t)'
    BY <1>5 DEF ThreadAge
  <2>3. \A s \in Threads : s # t => (Answered(s) /\ ThreadAge(s))'
    BY <1>1, <1>5, AgesStand
  <2>4. \A m \in Asked : ClientEntryAge(m)'
    BY <1>1, AgesStand
  <2> QED
    BY <2>1, <2>2, <2>3, <2>4 DEF ClientAges
<1>7. Room'
  <2>1. CachedNames' = CachedNames /\ Admitted' \subseteq Admitted
    BY <1>1, <1>5 DEF CachedNames, Admitted
  <2> QED
    BY <2>1, RoomKept DEF ClientInv
<1> QED
  BY <1>3, <1>4, <1>6, <1>7 DEF ClientInv

\* What a thread caches is as young as a new answer, and its place was counted
\* when the thread was admitted.
LEMMA SaveKept ==
    ASSUME ClientInv, NEW t \in Threads, Save(t)
    PROVE  ClientInv'
<1>0. PICK n, l : n = want[t] /\ l = IF spent[t] < ClientTTL THEN ClientTTL - spent[t] ELSE 0
  OBVIOUS
<1>e. PICK e : e = CacheEntry(t, l)
  OBVIOUS
<1>1. /\ tpc[t] = "save" /\ tpc' = [tpc EXCEPT ![t] = "return"]
      /\ cache' = [cache EXCEPT ![n] = e]
      /\ UNCHANGED <<want, value, answer, spent, world>> /\ UNCHANGED since
  BY <1>0, <1>e DEF Save, world
<1>2. n \in Asked /\ value[t] \in Values /\ spent[t] \in Nat
  BY <1>0, <1>1 DEF ClientInv, ClientShapes
<1>3. l \in Nat /\ (l > 0 => AnswerStaleness + ClientTTL - l = AnswerStaleness + spent[t])
  BY <1>0, <1>2
<1>4. e \in CacheEntries /\ e.in = TRUE /\ e.value = value[t] /\ e.left = l
  BY <1>e, <1>2, <1>3 DEF CacheEntry, CacheEntries
<1>5. Ages'
  BY <1>1, WorldStands DEF ClientInv
<1>6. ClientShapes'
  BY <1>1, <1>2, <1>4 DEF ClientInv, ClientShapes
<1>7. /\ \A s \in Threads : tpc'[s] = IF s = t THEN "return" ELSE tpc[s]
      /\ \A m \in Asked : cache'[m] = IF m = n THEN e ELSE cache[m]
  BY <1>1 DEF ClientInv, ClientShapes
<1>8. ClientAges'
  <2>1. Younger(value[t], n, AnswerStaleness + spent[t])
    BY <1>0, <1>1 DEF ClientInv, ClientAges, ThreadAge
  <2>2. l > 0 => Younger(value[t], n, AnswerStaleness + ClientTTL - l)
    BY <1>3, <2>1
  <2>3. ClientEntryAge(n)'
    <3>1. cache'[n] = e
      BY <1>2, <1>7
    <3>2. l > 0 => Younger(value[t], n, AnswerStaleness + ClientTTL - l)'
      BY <1>1, <2>2 DEF Younger
    <3> QED
      BY <1>1, <1>4, <3>1, <3>2 DEF ClientEntryAge
  <2>4. \A m \in Asked : ClientEntryAge(m)'
    <3>1. \A m \in Asked : m # n => cache'[m] = cache[m]
      BY <1>7
    <3>2. \A m \in Asked : m # n => ClientEntryAge(m)'
      BY <1>1, <3>1, AgesStand, Zenon
    <3> QED
      BY <2>3, <3>2, Zenon
  <2>5. Answered(t)'
    BY <1>1, NoneAnswered DEF Answered
  <2>6. ThreadAge(t)'
    BY <1>0, <1>1, <1>7, <2>1 DEF ThreadAge, Younger
  <2>7. \A s \in Threads : s # t => (Answered(s) /\ ThreadAge(s))'
    BY <1>1, <1>7, AgesStand
  <2> QED
    BY <2>4, <2>5, <2>6, <2>7 DEF ClientAges
<1>9. Room'
  <2>1. CachedNames' = CachedNames \cup {n}
    BY <1>2, <1>4, <1>7 DEF CachedNames
  <2>2. Admitted' \subseteq Admitted \ {t}
    <3>1. ASSUME NEW s \in Threads, tpc'[s] \in {"fetch", "save"}, ~cache'[want[s]].in
          PROVE  s # t /\ tpc[s] \in {"fetch", "save"} /\ ~cache[want[s]].in
      <4>1. s # t /\ tpc[s] \in {"fetch", "save"}
        BY <1>7, <3>1
      <4>2. want[s] \in Asked
        BY <4>1 DEF ClientInv, ClientShapes
      <4> QED
        BY <1>4, <1>7, <3>1, <4>1, <4>2
    <3> QED
      BY <1>1, <3>1 DEF Admitted
  <2>3. CASE cache[n].in
    <3>1. CachedNames' = CachedNames /\ Admitted' \subseteq Admitted
      BY <1>2, <2>1, <2>2, <2>3 DEF CachedNames
    <3> QED
      BY <3>1, RoomKept DEF ClientInv
  <2>4. CASE ~cache[n].in
    <3>1. t \in Admitted /\ n \notin CachedNames
      BY <1>0, <1>1, <2>4 DEF Admitted, CachedNames
    <3>2. Cardinality(CachedNames') = Cardinality(CachedNames) + 1
      BY <2>1, <3>1, RoomSets, FS_AddElement
    <3>3. IsFiniteSet(Admitted \ {t})
          /\ Cardinality(Admitted \ {t}) = Cardinality(Admitted) - 1
      BY <3>1, RoomSets, FS_RemoveElement
    <3>4. Cardinality(Admitted') <= Cardinality(Admitted) - 1
          /\ Cardinality(Admitted') \in Nat
      BY <2>2, <3>3, FS_Subset, FS_CardinalityType
    <3> QED
      BY <3>2, <3>4, RoomSets DEF ClientInv, Room
  <2> QED
    BY <2>3, <2>4
<1> QED
  BY <1>5, <1>6, <1>8, <1>9 DEF ClientInv

\* A publication makes no value older.
LEMMA ClientPublishKept ==
    ASSUME ClientInv, NEW k \in Cohorts, NEW a \in Artifacts, Publish(k, a),
           UNCHANGED client
    PROVE  ClientInv'
<1>1. UNCHANGED <<tpc, want, value, answer, spent, cache>>
  BY DEF client
<1>2. Ages' /\ AgesBy(0)
  BY PublishAges DEF ClientInv
<1>3. \A j \in Cohorts, v \in Verdicts :
         since'[j][v] <= since[j][v] /\ since'[j][v] \in Nat /\ since[j][v] \in Nat
  BY <1>2 DEF AgesBy, ClientInv, Ages
<1>4. ASSUME NEW x, NEW n, NEW b \in Int, Younger(x, n, b)
      PROVE  Younger(x, n, b)'
  BY <1>3, <1>4 DEF Younger
<1>5. /\ \A n \in Asked : cache[n].left \in Nat
      /\ \A t \in Threads : spent[t] \in Nat
  BY DEF ClientInv, ClientShapes, CacheEntries
<1>6. ClientShapes'
  BY <1>1 DEF ClientInv, ClientShapes
<1>7. ClientAges'
  <2>1. ASSUME NEW n \in Asked PROVE ClientEntryAge(n)'
    <3>1. ClientEntryAge(n)
      BY DEF ClientInv, ClientAges
    <3> QED
      BY <1>1, <1>4, <1>5, <3>1 DEF ClientEntryAge
  <2>2. ASSUME NEW t \in Threads PROVE Answered(t)'
    <3>1. Answered(t)
      BY DEF ClientInv, ClientAges
    <3> QED
      BY <1>1, <1>3, <1>5, <3>1 DEF Answered
  <2>3. ASSUME NEW t \in Threads PROVE ThreadAge(t)'
    <3>1. ThreadAge(t)
      BY DEF ClientInv, ClientAges
    <3> QED
      BY <1>1, <1>4, <1>5, <3>1 DEF ThreadAge
  <2> QED
    BY <2>1, <2>2, <2>3 DEF ClientAges
<1>8. Room'
  BY <1>1 DEF ClientInv, Room, CachedNames, Admitted
<1> QED
  BY <1>2, <1>6, <1>7, <1>8 DEF ClientInv

\* Only fetches and cached entries wait for a tick.
LEMMA ClientTickKept ==
    ASSUME ClientInv, ClientTick
    PROVE  ClientInv'
<1>1. /\ UNCHANGED <<tpc, want, value, answer>>
      /\ spent' = [t \in Threads |-> IF tpc[t] = "fetch" THEN spent[t] + 1 ELSE spent[t]]
      /\ cache' = [n \in Asked |-> [cache[n] EXCEPT !.left = Down(@)]]
      /\ \A t \in Threads : tpc[t] \notin {"count", "save", "return"}
  BY DEF ClientTick, ThreadDue
<1>2. Ages' /\ AgesBy(1)
  BY TickAges DEF ClientTick, ClientInv
<1>3. ASSUME NEW n \in Asked
      PROVE  /\ cache'[n] \in CacheEntries /\ cache[n].left \in Nat
             /\ cache'[n].in = cache[n].in /\ cache'[n].value = cache[n].value
             /\ cache'[n].left = IF cache[n].left = 0 THEN 0 ELSE cache[n].left - 1
  <2>1. cache[n] \in CacheEntries
    BY DEF ClientInv, ClientShapes
  <2>2. Down(cache[n].left) \in Nat
        /\ Down(cache[n].left) = IF cache[n].left = 0 THEN 0 ELSE cache[n].left - 1
    BY <2>1 DEF CacheEntries, Down
  <2>3. cache'[n] = [cache[n] EXCEPT !.left = Down(@)]
    BY <1>1
  <2> QED
    BY <2>1, <2>2, <2>3 DEF CacheEntries
<1>4. ClientShapes'
  <2>1. spent' \in [Threads -> Nat]
    BY <1>1 DEF ClientInv, ClientShapes
  <2>2. cache' \in [Asked -> CacheEntries]
    BY <1>1, <1>3
  <2> QED
    BY <1>1, <2>1, <2>2 DEF ClientInv, ClientShapes
<1>5. ClientAges'
  <2>1. ASSUME NEW n \in Asked, cache'[n].left > 0, cache'[n].value.refreshed
        PROVE  /\ n \in Cohorts /\ Found(cache'[n].value.ef) \in Verdicts
               /\ since'[n][Found(cache'[n].value.ef)]
                    < AnswerStaleness + ClientTTL - cache'[n].left
    <3> DEFINE v == Found(cache[n].value.ef)
    <3>1. /\ n \in Cohorts /\ v \in Verdicts
          /\ since[n][v] < AnswerStaleness + ClientTTL - cache[n].left
      BY <1>3, <2>1 DEF ClientInv, ClientAges, ClientEntryAge, Younger
    <3>2. /\ since'[n][v] <= since[n][v] + 1
          /\ since'[n][v] \in Nat /\ since[n][v] \in Nat
      BY <1>2, <3>1 DEF AgesBy, ClientInv, Ages
    <3> QED
      BY <1>3, <2>1, <3>1, <3>2
  <2>2. \A n \in Asked : ~cache'[n].in => ~cache'[n].value.refreshed
    BY <1>3 DEF ClientInv, ClientAges, ClientEntryAge
  <2>3. \A n \in Asked : ClientEntryAge(n)'
    BY <2>1, <2>2 DEF ClientEntryAge, Younger
  <2>4. ASSUME NEW t \in Threads, answer[t] # NoAnswer
        PROVE  since'[want[t]][answer[t]] < AnswerStaleness + spent'[t]
    <3>1. /\ tpc[t] = "fetch" /\ want[t] \in Cohorts /\ answer[t] \in Verdicts
          /\ since[want[t]][answer[t]] < AnswerStaleness + spent[t]
      BY <2>4 DEF ClientInv, ClientAges, Answered
    <3>2. /\ since'[want[t]][answer[t]] <= since[want[t]][answer[t]] + 1
          /\ since'[want[t]][answer[t]] \in Nat /\ since[want[t]][answer[t]] \in Nat
      BY <1>2, <3>1 DEF AgesBy, ClientInv, Ages
    <3>3. spent'[t] = spent[t] + 1 /\ spent[t] \in Nat
      BY <1>1, <3>1 DEF ClientInv, ClientShapes
    <3> QED
      BY <3>1, <3>2, <3>3
  <2>5. \A t \in Threads : Answered(t)'
    BY <1>1, <2>4 DEF ClientInv, ClientAges, Answered
  <2>6. \A t \in Threads : ThreadAge(t)'
    BY <1>1 DEF ThreadAge
  <2> QED
    BY <2>3, <2>5, <2>6 DEF ClientAges
<1>6. Room'
  <2>1. CachedNames' = CachedNames
    BY <1>3 DEF CachedNames
  <2>2. \A t \in Threads : tpc[t] # "idle" => want[t] \in Asked
    BY DEF ClientInv, ClientShapes
  <2>3. Admitted' \subseteq Admitted
    BY <1>1, <1>3, <2>2 DEF Admitted
  <2> QED
    BY <2>1, <2>3, RoomKept DEF ClientInv
<1> QED
  BY <1>2, <1>4, <1>5, <1>6 DEF ClientInv

-----------------------------------------------------------------------------
(* The client's theorems.                                                  *)

LEMMA ClientStart == ClientInit => ClientInv
<1> SUFFICES ASSUME ClientInit PROVE ClientInv
  OBVIOUS
<1>1. Default \in Values /\ Default.refreshed = FALSE
  BY DEF Default, Values
<1>2. NoEntry \in CacheEntries /\ NoEntry.in = FALSE /\ NoEntry.left = 0
      /\ NoEntry.value = Default
  BY <1>1 DEF NoEntry, CacheEntries
<1>3. Ages
  BY WorldInitAges DEF ClientInit
<1>4. ClientShapes
  <2> DEFINE n == AnyName
             no == NoAnswer
  <2> HIDE DEF n, no
  <2>1. want = [t \in Threads |-> n] /\ answer = [t \in Threads |-> no]
    BY DEF ClientInit, n, no
  <2> QED
    BY <1>1, <1>2, <2>1 DEF ClientInit, ClientShapes
<1>5. ClientAges
  BY <1>1, <1>2 DEF ClientInit, ClientAges, ClientEntryAge, Answered, ThreadAge
<1>6. Room
  <2>1. CachedNames = {} /\ Admitted = {}
    BY <1>2 DEF ClientInit, CachedNames, Admitted
  <2> QED
    BY <2>1, RoomSets, FS_EmptySet DEF Room
<1> QED
  BY <1>3, <1>4, <1>5, <1>6 DEF ClientInv

LEMMA ClientStep == ClientInv /\ [ClientNext]_clientVars => ClientInv'
<1> SUFFICES ASSUME ClientInv, [ClientNext]_clientVars PROVE ClientInv'
  OBVIOUS
<1>1. ASSUME NEW t \in Threads, ThreadStep(t) PROVE ClientInv'
  BY <1>1, LookKept, CountKept, AnswersKept, FetchKept, SaveKept, ReturnKept
  DEF ThreadStep
<1>2. ASSUME NEW k \in Cohorts, NEW a \in Artifacts, Publish(k, a), UNCHANGED client
      PROVE  ClientInv'
  BY <1>2, ClientPublishKept
<1>3. CASE ClientTick
  BY <1>3, ClientTickKept
<1>4. CASE UNCHANGED clientVars
  <2>1. UNCHANGED <<tpc, want, value, answer, spent, cache, world>> /\ UNCHANGED since
    BY <1>4 DEF clientVars, client, world
  <2>2. Ages'
    BY <2>1, WorldStands DEF ClientInv
  <2>3. ClientAges'
    BY <2>1, AgesStand DEF ClientAges
  <2> QED
    BY <2>1, <2>2, <2>3 DEF ClientInv, ClientShapes, Room, CachedNames, Admitted
<1> QED
  BY <1>1, <1>2, <1>3, <1>4 DEF ClientNext

\* The inductive invariant of the client holds in every state.
THEOREM ClientInvariant == ClientSpec => []ClientInv
  BY ClientStart, ClientStep, PTL DEF ClientSpec

\* Whatever the lifetimes, the number of threads that share the cache and the
\* time an answer is on its way, a value ef_search returns was published within
\* the server's bound and ttl_seconds, or the time of the call that fetched it,
\* unless its last refresh failed.
THEOREM ValuesAreFresh == ClientSpec => []ServedFresh
<1>1. ClientInv => ServedFresh
  <2> SUFFICES ASSUME ClientInv, NEW t \in Threads, tpc[t] = "return", value[t].refreshed
               PROVE  \/ since[want[t]][Found(value[t].ef)] < AnswerStaleness + ClientTTL
                      \/ since[want[t]][Found(value[t].ef)] < AnswerStaleness + spent[t]
    BY DEF ServedFresh
  <2> QED
    BY DEF ClientInv, ClientAges, ThreadAge, Younger
<1> QED
  BY <1>1, ClientInvariant, PTL

\* The unlocked size check of ef_search lets the cache outgrow max_cohorts by at
\* most the threads that can pass it together, less the one it admits anyway.
THEOREM CacheOutgrowsByThreads == ClientSpec => []CacheBounded
<1>1. ClientInv => CacheBounded
  BY RoomSets DEF ClientInv, Room, CacheBounded
<1> QED
  BY <1>1, ClientInvariant, PTL
=============================================================================
