---------------------------- MODULE MCComponents ----------------------------
(***************************************************************************)
(* The components that share no state with others, side by side: `active'  *)
(* picks one of them for a behaviour, and the others stay in their initial *)
(* states.                                                                 *)
(***************************************************************************)
EXTENDS MemoryTracker, SegmentCodec, Estimator, NameGrammar, TunerConfig,
        AdaptiveSampler, WindowDates, TunerDatabase, VectorSender, TLC

VARIABLE active

-----------------------------------------------------------------------------
(* The memory tracker: slots of sizes 1, 2, 2 and 3 under a limit of 5, so   *)
(* that some of them fit together and others do not.                         *)

CONSTANTS a, b, c, d

MCBytes == (a :> 1) @@ (b :> 2) @@ (c :> 2) @@ (d :> 3)

\* The byte-counting sum is the ordinary sum.
ASSUME SumAssumption ==
    \A S \in SUBSET Slots :
        ByteSum(S, Bytes) = MapThenSumSet(LAMBDA s : Bytes[s], S)

-----------------------------------------------------------------------------
(* The codecs: a name that is empty, one that is not UTF-8 and a good one;   *)
(* vectors of lengths that fit one data type, both or none.                  *)

MCCohort == <<1>>
MCNames == {<<1>>, <<9>>, <<>>}
MCVectors == {<<2>>, <<3>>, <<2, 3>>}

-----------------------------------------------------------------------------
(* The estimator: two parts of one window and one of the next.               *)

MCPartStart == <<0, 0, 2>>
MCEfGrid == <<10, 20>>
MCGtKeys == <<1, 2>>
MCAnswers == {<<1, 2>>, <<1, 1>>}

-----------------------------------------------------------------------------
(* Cohort names: a character of two bytes, an ASCII one that is not allowed,  *)
(* and the marker window=, which w= stands for.                              *)

MCMarker == <<"w", "=">>
MCCharBytes == ("e'" :> 2) @@ [c1 \in Characters |-> 1]

-----------------------------------------------------------------------------
(* Cohort names in paths, and the tuner's configuration.                     *)

MCSegmentBytes == ("" :> 0) @@ ("long" :> 3) @@ (".." :> 2) @@ ("ab" :> 2)
                  @@ ("w0" :> 2) @@ ("w1" :> 2) @@ [s \in Segments |-> 1]

Identifier(n) == [bytes |-> n, nul |-> FALSE]

MCConfig ==
    [calibration |-> [interval |-> 10, ef_search |-> <<20, 40>>,
                      train_fraction |-> 60000],
     storage |-> [window_seconds |-> 60],
     budget |-> [db_share |-> 10000, statement_timeout |-> 50000,
                 client_timeout |-> 100000],
     data_sources |-> [d |-> [address |-> "a1", credentials |-> "none"],
                       e |-> [address |-> "a2", credentials |-> "environment"]],
     indexes |-> [i |-> [data_source |-> "d", table |-> Identifier(4),
                         column |-> Identifier(63), key |-> Identifier(1)]],
     targets |-> [t |-> [k |-> 20, value |-> 90000, percentile |-> 95000,
                         selection_confidence |-> 98000,
                         approval_confidence |-> 90000,
                         window |-> 1200000],
                  u |-> [k |-> 1, value |-> 100000, percentile |-> 1,
                         selection_confidence |-> 50000,
                         approval_confidence |-> 60000,
                         window |-> 600000]],
     cohorts |-> (<<"a">> :> [index |-> "i", target |-> "t"])
              @@ (<<"a", "ab">> :> [index |-> "i", target |-> "u"])]

MCFractions == {NaN, 0, 1, 99999, 100000, 100001}
MCIdentifiers == {Identifier(0), Identifier(64), [bytes |-> 4, nul |-> TRUE]}

\* Each field's limits, and values on both sides of them.
MCFieldValues ==
    [interval |-> {0, 1},
     ef_search |-> {<<>>, <<1>>, <<40, 20>>, <<20, 20>>, <<0, 20>>,
                    <<20, 1001>>, <<1000>>},
     train_fraction |-> {NaN, 0, 4, 5, 99994, 99995, 100000},
     window_seconds |-> {0, 59, 90, 120, 180},
     db_share |-> MCFractions,
     statement_timeout |-> {0, 1, 10, 11}, client_timeout |-> {0, 1},
     address |-> {"a1", "a3", "a4"},
     credentials |-> {"none", "environment", "not Unicode", "missing", "inline"},
     data_source |-> {"d", "e", "f"},
     table |-> MCIdentifiers, column |-> MCIdentifiers, key |-> MCIdentifiers,
     k |-> {0, 20, 21}, value |-> MCFractions, percentile |-> MCFractions,
     selection_confidence |-> MCFractions,
     approval_confidence |-> MCFractions,
     window |-> {0, 600000, 600001, 900000, 1200000, 1800000, 3600000, 7200000},
     index |-> {"j"}, target |-> {"t", "u", "v"},
     cohort |-> {<<"w0">>, <<"a", "">>, <<"ab", "a">>}]

-----------------------------------------------------------------------------
(* The sender: of the frames of lengths 1, 3 and 1 the second is larger than *)
(* a batch, and the queue holds no three.                                    *)

MCFrameBytes == <<1, 3, 1>>

-----------------------------------------------------------------------------
names == <<typed, objects, calendar>>
tuning == <<estimator, tunerConfig, sampler>>
all == <<vars, codec, names, tuning, daemon, sender, active>>

(* A daemon that has stopped. *)
DaemonOff ==
    /\ at = "stopped" /\ cancelled = TRUE
    /\ connected = FALSE /\ live = FALSE /\ session = "idle" /\ orphan = 0
    /\ cool = 0 /\ timer = 0 /\ elapsed = 0 /\ stmt = 0
    /\ cohort = 0 /\ sample = 0 /\ untilTick = 0 /\ sinceTick = 0
    /\ grid = 0 /\ debt = 0 /\ late = 0

ComponentsInit ==
    /\ Init /\ CodecInit /\ EstimatorInit /\ GrammarInit /\ NamesInit
    /\ ConfigInit /\ SamplerInit /\ CalendarInit /\ SenderInit
    /\ active \in {"tracker", "codec", "estimator", "grammar", "names",
                   "config", "sampler", "calendar", "daemon", "sender"}
    /\ IF active = "daemon" THEN DaemonInit ELSE DaemonOff

ComponentsNext ==
    \/ /\ active = "tracker" /\ Next
       /\ UNCHANGED <<codec, names, tuning, daemon, sender, active>>
    \/ /\ active = "codec" /\ CodecNext
       /\ UNCHANGED <<vars, names, tuning, daemon, sender, active>>
    \/ /\ active = "estimator" /\ EstimatorNext
       /\ UNCHANGED <<vars, codec, names, tunerConfig, sampler, daemon,
                      sender, active>>
    \/ /\ active = "grammar" /\ GrammarNext
       /\ UNCHANGED <<vars, codec, objects, calendar, tuning, daemon,
                      sender, active>>
    \/ /\ active = "names" /\ NamesNext
       /\ UNCHANGED <<vars, codec, typed, calendar, tuning, daemon, sender, active>>
    \/ /\ active = "config" /\ ConfigNext
       /\ UNCHANGED <<vars, codec, names, estimator, sampler, daemon,
                      sender, active>>
    \/ /\ active = "sampler" /\ SamplerNext
       /\ UNCHANGED <<vars, codec, names, estimator, tunerConfig, daemon,
                      sender, active>>
    \/ /\ active = "calendar" /\ NextMonth
       /\ UNCHANGED <<vars, codec, typed, objects, tuning, daemon, sender, active>>
    \/ /\ active = "daemon" /\ DaemonNext
       /\ UNCHANGED <<vars, codec, names, tuning, sender, active>>
    \/ /\ active = "sender" /\ SenderNext
       /\ UNCHANGED <<vars, codec, names, tuning, daemon, active>>

\* The daemon's and the sender's fairness ask nothing while they are not active.
ComponentsSpec ==
    /\ ComponentsInit /\ [][ComponentsNext]_all
    /\ DaemonFairness /\ SenderFairness
=============================================================================
