------------------------------ MODULE Collector ------------------------------
(***************************************************************************)
(* The collector daemon: the accept loop and its shutdown (lib.rs), one    *)
(* reader task per connection (reader.rs), the bounded handoff channel and *)
(* the drop ledger (counters.rs), and the single writer task that buffers  *)
(* frames per cohort and flushes them as segment parts (writer.rs).  The   *)
(* tasks run in parallel; a step is the code between two accesses to       *)
(* state another task can see, or between two await points.                *)
(*                                                                         *)
(* A frame is an identity with a cohort and a record size; a count of      *)
(* frames is modelled by the set of the frames counted, so that the same   *)
(* frame cannot be counted twice unnoticed.  A frame the reader rejects    *)
(* (bad magic, bad cohort name) only moves a statistics counter and is not *)
(* modelled.  Reserving and releasing memory is atomic here: that is what  *)
(* MemoryTracker shows of the code's compare-and-swap loops.               *)
(***************************************************************************)
EXTENDS ByteSums, Sequences

CONSTANTS
    Conns,                 \* client connections that may be open at once
    Frames,                \* the frames clients send
    Cohorts,
    CohortOf,              \* CohortOf[f]: the cohort named in frame f
    RecordBytes,           \* RecordBytes[f] = frame.len() + 8
    MaxRecordBytes,        \* max_frame_size + 8
    ChannelCapacity,       \* channel_capacity
    PerCohortMemoryBytes,  \* per_cohort_memory_bytes
    SegmentOverheadBytes,  \* MAX_SEGMENT_OVERHEAD_BYTES
    GlobalMemoryBytes,     \* global_memory_bytes
    MaxConnections,        \* max_connections
    WindowSeconds,         \* window_seconds
    StartTime,             \* when the collector starts
    MaxTime,               \* bound: the last second of the wall clock
    MaxAdjust,             \* bound: how often the wall clock is set
    WriterMayPanic,        \* TRUE: the writer task may die
    NoFrame, NoBatch       \* absent values

\* live_memory_bytes: what is left for frames once the buffer of one
\* serialized segment is set aside.
LiveMemoryBytes ==
    GlobalMemoryBytes - (PerCohortMemoryBytes + SegmentOverheadBytes)

ASSUME FramesAssumption ==
    /\ IsFiniteSet(Frames)
    /\ NoFrame \notin Frames
    /\ CohortOf \in [Frames -> Cohorts]
    /\ MaxRecordBytes \in Nat
    /\ RecordBytes \in [Frames -> 1..MaxRecordBytes]

\* validate_config
ValidConfig ==
    /\ WindowSeconds \in Nat \ {0}
    /\ PerCohortMemoryBytes \in Nat /\ MaxRecordBytes <= PerCohortMemoryBytes
    /\ SegmentOverheadBytes \in Nat
    /\ GlobalMemoryBytes \in Nat /\ MaxRecordBytes <= LiveMemoryBytes
    /\ ChannelCapacity \in Nat \ {0}
    /\ MaxConnections \in Nat \ {0}

ASSUME ConfigAssumption == ValidConfig

ASSUME NoBatchAssumption ==
    NoBatch \notin [cohort : Cohorts, window : Nat, records : SUBSET Frames,
                    drops : SUBSET Frames]

ASSUME BoundsAssumption ==
    MaxTime \in Nat /\ StartTime \in 0..MaxTime /\ MaxAdjust \in Nat

VARIABLES
    now,          \* wall clock, in seconds
    adjusts,      \* how often the clock was set
    main,         \* phase of run_with_listener
    rpc,          \* rpc[c]: where the reader task of connection c is
    rframe,       \* rframe[c]: the frame that reader has in hand
    receiveTime,  \* receiveTime[f]: the second f was stamped
    unread,       \* frames not received yet
    channel,      \* reader-to-writer channel
    used,         \* MemoryTracker.used_bytes
    ledger,       \* pending_cohort_drops: drops the writer has not seen
    wpc,          \* where the writer task is
    due,          \* seconds until the sleep of the writer's select! ends
    hand,         \* the event handle_frame is working on
    current,      \* current_window_start
    records,      \* the buffered records of all cohorts
    drops,        \* the drops counted in received_frame_count, not flushed
    todo,         \* cohorts still to flush
    goal,         \* what the flush is for
    batch,        \* the part being flushed
    unreleased,   \* its records whose memory guard is not dropped yet
    store,        \* parts in the object store
    failed,       \* parts whose PUT failed or timed out
    discarded     \* frames lost with an aborted or panicked writer

clock   == <<now, adjusts>>
readers == <<rpc, rframe, receiveTime, unread>>
buffers == <<hand, current, records, drops>>
flush   == <<todo, goal, batch, unreleased>>
parts   == <<store, failed>>
writer  == <<wpc, due, buffers, flush, parts, discarded>>
vars    == <<clock, main, readers, channel, used, ledger, writer>>

InChannel == {channel[i] : i \in 1..Len(channel)}

\* The slice of a set of frames that belongs to cohort c: a HashMap entry.
Of(c, S) == {f \in S : CohortOf[f] = c}

\* The cohorts with an entry in the writer's `states'.
Keys(S) == {CohortOf[f] : f \in S}

\* aligned_window_start
Aligned(t) == t - (t % WindowSeconds)

\* duration_until_unix_second
Until(t) == IF t <= now THEN 0 ELSE t - now

\* MemoryTracker.release
Released(bytes) == IF bytes > used THEN 0 ELSE used - bytes

\* Reader tasks in the JoinSet, finished ones that are not joined included.
Tasks == {c \in Conns : rpc[c] # "none"}

\* The watch channel holds true from the second drain phase on.
ShutdownSent == main \in {"stopping", "aborting", "closing", "killing", "finished"}

\* writer_tx is dropped after every reader is joined.
SendersGone == main \in {"closing", "killing", "finished"} /\ Tasks = {}

\* Dropping the writer's future drops the receiver: the channel is closed.
ChannelClosed == wpc \in {"done", "dead"}

Init ==
    /\ now = StartTime /\ adjusts = 0
    /\ main = "accepting"
    /\ rpc = [c \in Conns |-> "none"]
    /\ rframe = [c \in Conns |-> NoFrame]
    /\ receiveTime = [f \in Frames |-> 0]
    /\ unread = Frames
    /\ channel = <<>>
    /\ used = 0
    /\ ledger = {}
    /\ wpc = "select"
    /\ hand = NoFrame
    /\ current = Aligned(now)
    /\ due = Until(current + WindowSeconds)
    /\ records = {} /\ drops = {}
    /\ todo = {} /\ goal = "none"
    /\ batch = NoBatch /\ unreleased = {}
    /\ store = {} /\ failed = {}
    /\ discarded = {}

-----------------------------------------------------------------------------
(* The wall clock.  `due' counts real time: setting the clock does not     *)
(* change a sleep that is already running.                                 *)

Tick == /\ now < MaxTime
        /\ now' = now + 1
        /\ due' = IF due > 0 THEN due - 1 ELSE 0
        /\ UNCHANGED <<adjusts, main, readers, channel, used, ledger, wpc,
                       buffers, flush, parts, discarded>>

ClockSet == /\ adjusts < MaxAdjust
            /\ adjusts' = adjusts + 1
            /\ now' \in 0..MaxTime \ {now}
            /\ UNCHANGED <<main, readers, channel, used, ledger, writer>>

-----------------------------------------------------------------------------
(* Reader tasks: handle_connection.                                        *)

RGoto(c, to) == rpc' = [rpc EXCEPT ![c] = to]

\* A whole valid frame is read and stamped.  The select! of
\* read_exact_or_shutdown is not biased: bytes that are ready may win over
\* the shutdown signal.
ReadFrame(c, f) ==
    /\ rpc[c] = "reading"
    /\ f \in unread
    /\ unread' = unread \ {f}
    /\ rframe' = [rframe EXCEPT ![c] = f]
    /\ receiveTime' = [receiveTime EXCEPT ![f] = now]
    /\ RGoto(c, "stamped")
    /\ UNCHANGED <<clock, main, channel, used, ledger, writer>>

\* The peer closes, the read fails, the connection is idle for too long or a
\* frame is oversized: the task returns.
ReaderCloses(c) ==
    /\ rpc[c] = "reading"
    /\ RGoto(c, "done")
    /\ UNCHANGED <<clock, main, rframe, receiveTime, unread, channel, used,
                   ledger, writer>>

\* shutdown.changed() wins the select!.
ReaderSeesShutdown(c) == ShutdownSent /\ ReaderCloses(c)

\* abort_all: the task is dropped at its await point, the read.
ReaderAborted(c) == main = "aborting" /\ ReaderCloses(c)

\* memory.try_reserve
Reserve(c) ==
    /\ rpc[c] = "stamped"
    /\ LET next == used + RecordBytes[rframe[c]]
       IN  IF next > LiveMemoryBytes
           THEN RGoto(c, "refused") /\ UNCHANGED used
           ELSE RGoto(c, "reserved") /\ used' = next
    /\ UNCHANGED <<clock, main, rframe, receiveTime, unread, channel, ledger,
                   writer>>

\* Mutant: the capacity check is off by one.
SendOverfills(c) ==
    /\ rpc[c] = "reserved"
    /\ \/ ChannelClosed /\ RGoto(c, "closed") /\ UNCHANGED <<rframe, channel>>
       \/ /\ ~ChannelClosed /\ Len(channel) > ChannelCapacity
          /\ RGoto(c, "full") /\ UNCHANGED <<rframe, channel>>
       \/ /\ ~ChannelClosed /\ Len(channel) <= ChannelCapacity
          /\ channel' = Append(channel, rframe[c])
          /\ rframe' = [rframe EXCEPT ![c] = NoFrame]
          /\ RGoto(c, "reading")
    /\ UNCHANGED <<clock, main, receiveTime, unread, used, ledger, writer>>

\* tx.try_send: handed off, or Full, or Closed.
TrySend(c) ==
    /\ rpc[c] = "reserved"
    /\ \/ ChannelClosed /\ RGoto(c, "closed") /\ UNCHANGED <<rframe, channel>>
       \/ /\ ~ChannelClosed /\ Len(channel) >= ChannelCapacity
          /\ RGoto(c, "full") /\ UNCHANGED <<rframe, channel>>
       \/ /\ ~ChannelClosed /\ Len(channel) < ChannelCapacity
          /\ channel' = Append(channel, rframe[c])
          /\ rframe' = [rframe EXCEPT ![c] = NoFrame]
          /\ RGoto(c, "reading")
    /\ UNCHANGED <<clock, main, receiveTime, unread, used, ledger, writer>>

\* record_memory_drop: no guard was made.
RecordMemoryDrop(c) ==
    /\ rpc[c] = "refused"
    /\ ledger' = ledger \cup {rframe[c]}
    /\ rframe' = [rframe EXCEPT ![c] = NoFrame]
    /\ RGoto(c, "reading")
    /\ UNCHANGED <<clock, main, receiveTime, unread, channel, used, writer>>

\* record_channel_drop: the event that came back still holds its guard.
RecordChannelDrop(c) ==
    /\ rpc[c] \in {"full", "closed"}
    /\ ledger' = ledger \cup {rframe[c]}
    /\ RGoto(c, IF rpc[c] = "full" THEN "dropFull" ELSE "dropClosed")
    /\ UNCHANGED <<clock, main, rframe, receiveTime, unread, channel, used,
                   writer>>

\* Mutant: the frame that came back is forgotten together with its guard.
LeakEvent(c) ==
    /\ rpc[c] \in {"dropFull", "dropClosed"}
    /\ rframe' = [rframe EXCEPT ![c] = NoFrame]
    /\ RGoto(c, IF rpc[c] = "dropFull" THEN "reading" ELSE "done")
    /\ UNCHANGED <<clock, main, receiveTime, unread, channel, used, ledger,
                   writer>>

\* The event goes out of scope; after Closed the task returns.
DropEvent(c) ==
    /\ rpc[c] \in {"dropFull", "dropClosed"}
    /\ used' = Released(RecordBytes[rframe[c]])
    /\ rframe' = [rframe EXCEPT ![c] = NoFrame]
    /\ RGoto(c, IF rpc[c] = "dropFull" THEN "reading" ELSE "done")
    /\ UNCHANGED <<clock, main, receiveTime, unread, channel, ledger, writer>>

\* What a reader does with a frame it has read: it never awaits in here.
Handoff(c) == \/ Reserve(c) \/ TrySend(c) \/ RecordMemoryDrop(c)
              \/ RecordChannelDrop(c) \/ DropEvent(c)

Reader(c) == \/ \E f \in Frames : ReadFrame(c, f)
             \/ ReaderCloses(c) \/ ReaderSeesShutdown(c) \/ ReaderAborted(c)
             \/ Handoff(c)

-----------------------------------------------------------------------------
(* The writer task: Writer::run.  Its steps end where it touches the       *)
(* channel, the ledger or the memory counter, which readers also use, and  *)
(* where it awaits a PUT.                                                  *)

\* Mutant: the drops are read but not taken out of the ledger.
CopyAllPendingDrops == /\ drops' = drops \cup ledger
                       /\ UNCHANGED ledger

\* take_all_pending_cohort_drops, folded into the per-cohort counts.
FoldAllPendingDrops == /\ drops' = drops \cup ledger
                       /\ ledger' = {}

StartFlush(cohorts, why) == wpc' = "flush" /\ todo' = cohorts /\ goal' = why

\* Back at the top of the loop: a new sleep, until `start' closes.
Select(start) == wpc' = "select" /\ due' = Until(start + WindowSeconds)

\* Mutant: a frame is buffered in whatever window is open.
RecvIgnoresWindow ==
    /\ wpc = "select"
    /\ channel # <<>>
    /\ hand' = Head(channel) /\ channel' = Tail(channel)
    /\ due' = 0
    /\ wpc' = "fold"
    /\ UNCHANGED <<clock, main, readers, used, ledger, current, records, drops,
                   flush, parts, discarded>>

\* Mutant: the cohorts to flush are listed before the drops are folded.
RecvListsCohortsFirst ==
    /\ wpc = "select"
    /\ channel # <<>>
    /\ hand' = Head(channel) /\ channel' = Tail(channel)
    /\ due' = 0
    /\ IF Aligned(receiveTime[Head(channel)]) <= current
       THEN wpc' = "fold" /\ UNCHANGED <<ledger, drops, todo, goal>>
       ELSE FoldAllPendingDrops /\ StartFlush(Keys(records \cup drops), "advance")
    /\ UNCHANGED <<clock, main, readers, used, current, records, batch,
                   unreleased, parts, discarded>>

\* rx.recv() yields an event; advance_to_receive_window first flushes
\* everything when the frame was stamped in a later window.
Recv ==
    /\ wpc = "select"
    /\ channel # <<>>
    /\ hand' = Head(channel) /\ channel' = Tail(channel)
    /\ due' = 0
    /\ IF Aligned(receiveTime[Head(channel)]) <= current
       THEN wpc' = "fold" /\ UNCHANGED <<ledger, drops, todo, goal>>
       ELSE /\ FoldAllPendingDrops
            /\ StartFlush(Keys(records \cup drops \cup ledger), "advance")
    /\ UNCHANGED <<clock, main, readers, used, current, records, batch,
                   unreleased, parts, discarded>>

\* The sleep ends: close_window.
TimerFires ==
    /\ wpc = "select"
    /\ due = 0
    /\ FoldAllPendingDrops
    /\ StartFlush(Keys(records \cup drops \cup ledger), "close")
    /\ UNCHANGED <<clock, main, readers, channel, used, due, hand, current,
                   records, batch, unreleased, parts, discarded>>

\* Mutant: the last flush covers only the cohorts the writer knows of.
RecvNoneSkipsLedger ==
    /\ wpc = "select"
    /\ channel = <<>>
    /\ SendersGone
    /\ StartFlush(Keys(records \cup drops), "final")
    /\ due' = 0
    /\ UNCHANGED <<clock, main, readers, channel, used, ledger, hand, current,
                   records, drops, batch, unreleased, parts, discarded>>

\* rx.recv() yields None: the channel is drained and every sender is gone.
RecvNone ==
    /\ wpc = "select"
    /\ channel = <<>>
    /\ SendersGone
    /\ FoldAllPendingDrops
    /\ StartFlush(Keys(records \cup drops \cup ledger), "final")
    /\ due' = 0
    /\ UNCHANGED <<clock, main, readers, channel, used, hand, current, records,
                   batch, unreleased, parts, discarded>>

\* Mutant: the batch takes the records of all cohorts.
FlushTakesAll(c) ==
    /\ wpc = "flush"
    /\ c \in todo
    /\ todo' = todo \ {c}
    /\ batch' = [cohort |-> c, window |-> current, records |-> records,
                 drops |-> Of(c, drops \cup ledger)]
    /\ unreleased' = records
    /\ records' = {}
    /\ drops' = drops \ Of(c, drops)
    /\ ledger' = ledger \ Of(c, ledger)
    /\ wpc' = "put"
    /\ UNCHANGED <<clock, main, readers, channel, used, due, hand, current,
                   goal, parts, discarded>>

\* flush_cohort up to the serialized segment: the cohort's drops so far are
\* folded in, its state is taken out and becomes a part of the open window.
FlushCohort(c) ==
    /\ wpc = "flush"
    /\ c \in todo
    /\ todo' = todo \ {c}
    /\ batch' = [cohort |-> c, window |-> current, records |-> Of(c, records),
                 drops |-> Of(c, drops \cup ledger)]
    /\ unreleased' = Of(c, records)
    /\ records' = records \ Of(c, records)
    /\ drops' = drops \ Of(c, drops)
    /\ ledger' = ledger \ Of(c, ledger)
    /\ wpc' = "put"
    /\ UNCHANGED <<clock, main, readers, channel, used, due, hand, current,
                   goal, parts, discarded>>

\* drop(records), one guard after the other, before the PUT starts.
ReleaseRecord(f) ==
    /\ wpc = "put"
    /\ f \in unreleased
    /\ unreleased' = unreleased \ {f}
    /\ used' = Released(RecordBytes[f])
    /\ UNCHANGED <<clock, main, readers, channel, ledger, wpc, due, buffers,
                   todo, goal, batch, parts, discarded>>

EndPut == /\ wpc = "put"
          /\ unreleased = {}
          /\ batch' = NoBatch
          /\ wpc' = "flush"
          /\ UNCHANGED <<clock, main, readers, channel, used, ledger, due,
                         buffers, todo, goal, unreleased, discarded>>

PutSucceeds == EndPut /\ store' = store \cup {batch} /\ UNCHANGED failed

\* The PUT fails or runs into put_timeout: counted, never retried.
PutFails == EndPut /\ failed' = failed \cup {batch} /\ UNCHANGED store

\* External: a PUT the collector gave up on reaches the store after all.
LateLand(s) ==
    /\ s \in failed
    /\ failed' = failed \ {s}
    /\ store' = store \cup {s}
    /\ UNCHANGED <<clock, main, readers, channel, used, ledger, wpc, due,
                   buffers, flush, discarded>>

FlushedFor(why) == /\ wpc = "flush" /\ todo = {} /\ goal = why
                   /\ goal' = "none"
                   /\ UNCHANGED <<clock, main, readers, channel, used, ledger,
                                  hand, records, drops, todo, batch,
                                  unreleased, parts, discarded>>

\* The rest of advance_to_receive_window.
AdvanceWindow == /\ FlushedFor("advance")
                 /\ current' = Aligned(receiveTime[hand])
                 /\ wpc' = "fold" /\ UNCHANGED due

\* The rest of close_window.
OpenWindow == /\ FlushedFor("close")
              /\ current' = Aligned(now)
              /\ Select(Aligned(now))

CohortSpilled == FlushedFor("cap") /\ wpc' = "pressure" /\ UNCHANGED <<current, due>>

PressureRelieved == FlushedFor("pressure") /\ wpc' = "add" /\ UNCHANGED <<current, due>>

WriterReturns == FlushedFor("final") /\ wpc' = "done" /\ UNCHANGED <<current, due>>

\* The bytes buffered for cohort c (CohortState.bytes).
BufferedBytes(c) == ByteSum(Of(c, records), RecordBytes)

\* Mutant: the size of the new record is not counted.
ExceedsCapAlready(f) == BufferedBytes(CohortOf[f]) > PerCohortMemoryBytes

\* cohort_would_exceed_cap
ExceedsCap(f) ==
    BufferedBytes(CohortOf[f]) + RecordBytes[f] > PerCohortMemoryBytes

\* handle_frame: fold the cohort's drops, spill the cohort if the frame would
\* take it over its cap.
FoldAndSpill ==
    /\ wpc = "fold"
    /\ drops' = drops \cup Of(CohortOf[hand], ledger)
    /\ ledger' = ledger \ Of(CohortOf[hand], ledger)
    /\ IF ExceedsCap(hand)
       THEN StartFlush({CohortOf[hand]}, "cap")
       ELSE wpc' = "pressure" /\ UNCHANGED <<todo, goal>>
    /\ UNCHANGED <<clock, main, readers, channel, used, due, hand, current,
                   records, batch, unreleased, parts, discarded>>

\* The cohorts flush_largest_cohort may pick: ties are broken by the order of
\* a HashMap.
Largest == {c \in Keys(records) :
                \A d \in Keys(records) : BufferedBytes(d) <= BufferedBytes(c)}

\* handle_frame: global_live_budget_is_full, flush_largest_cohort.
RelievePressure ==
    /\ wpc = "pressure"
    /\ IF used >= LiveMemoryBytes /\ records # {}
       THEN \E c \in Largest : StartFlush({c}, "pressure")
       ELSE wpc' = "add" /\ UNCHANGED <<todo, goal>>
    /\ UNCHANGED <<clock, main, readers, channel, used, ledger, due, buffers,
                   batch, unreleased, parts, discarded>>

AddRecord ==
    /\ wpc = "add"
    /\ records' = records \cup {hand}
    /\ hand' = NoFrame
    /\ Select(current)
    /\ UNCHANGED <<clock, main, readers, channel, used, ledger, current, drops,
                   flush, parts, discarded>>

\* The PUT future exists and may have reached the store.
PutStarted == wpc = "put" /\ unreleased = {}

BatchFrames == IF batch = NoBatch THEN {} ELSE batch.records \cup batch.drops

InHand == {hand} \ {NoFrame}

\* The writer's future is dropped: with it go the receiver and the events it
\* holds, the buffers, the batch, and all their memory guards.  A PUT under
\* way may still land.
WriterDies ==
    /\ wpc' = "dead" /\ due' = 0
    /\ failed' = IF PutStarted THEN failed \cup {batch} ELSE failed
    /\ discarded' = discarded \cup InChannel \cup InHand \cup records \cup drops
                      \cup (IF PutStarted THEN {} ELSE BatchFrames)
    /\ used' = Released(ByteSum(InChannel \cup InHand \cup records \cup unreleased,
                                RecordBytes))
    /\ channel' = <<>>
    /\ hand' = NoFrame /\ records' = {} /\ drops' = {}
    /\ todo' = {} /\ goal' = "none" /\ batch' = NoBatch /\ unreleased' = {}
    /\ UNCHANGED <<clock, readers, ledger, current, store>>

WriterPanics == /\ WriterMayPanic
                /\ wpc \notin {"done", "dead"}
                /\ WriterDies
                /\ UNCHANGED main

\* The abort after WRITER_SHUTDOWN_TIMEOUT takes effect at an await point.
WriterAborted == /\ main = "killing"
                 /\ wpc = "select" \/ PutStarted
                 /\ WriterDies
                 /\ UNCHANGED main

\* The steps the writer takes by itself.
WriterStep ==
    \/ Recv \/ TimerFires \/ RecvNone
    \/ \E c \in Cohorts : FlushCohort(c)
    \/ \E f \in Frames : ReleaseRecord(f)
    \/ PutSucceeds \/ PutFails
    \/ AdvanceWindow \/ OpenWindow \/ CohortSpilled \/ PressureRelieved
    \/ WriterReturns \/ FoldAndSpill \/ RelievePressure \/ AddRecord

-----------------------------------------------------------------------------
(* run_with_listener: the accept loop, drain_connections and the shutdown  *)
(* of the writer task.  Timers are not tied to the wall clock: they may    *)
(* end at any moment.                                                      *)

Phase(from, to) == /\ main = from
                   /\ main' = to
                   /\ UNCHANGED <<clock, readers, channel, used, ledger, writer>>

\* Below max_connections the loop waits for a connection and spawns a reader.
Accept(c) ==
    /\ main = "accepting"
    /\ rpc[c] = "none"
    /\ Cardinality(Tasks) < MaxConnections
    /\ RGoto(c, "reading")
    /\ UNCHANGED <<clock, main, rframe, receiveTime, unread, channel, used,
                   ledger, writer>>

\* Mutant: finished tasks are joined only by the accept loop.
JoinWhileAccepting(c) ==
    /\ main = "accepting"
    /\ rpc[c] = "done"
    /\ RGoto(c, "none")
    /\ UNCHANGED <<clock, main, rframe, receiveTime, unread, channel, used,
                   ledger, writer>>

\* A finished reader task is joined (reap_finished_connections, join_next).
JoinReader(c) ==
    /\ main \in {"accepting", "draining", "stopping", "aborting"}
    /\ rpc[c] = "done"
    /\ RGoto(c, "none")
    /\ UNCHANGED <<clock, main, rframe, receiveTime, unread, channel, used,
                   ledger, writer>>

\* The shutdown future resolves, or the recommendation server stops.
StopAccepting == Phase("accepting", "draining")

\* Mutant: the loop watches the writer only while it is at max_connections.
WriterWatchedWhenFull == /\ wpc \in {"done", "dead"}
                         /\ Cardinality(Tasks) >= MaxConnections
                         /\ Phase("accepting", "draining")

\* writer_handle resolves while the collector should be running.
WriterStopped == wpc \in {"done", "dead"} /\ Phase("accepting", "draining")

\* All readers are joined or CONNECTION_SHUTDOWN_DRAIN_MS have passed:
\* shutdown_tx.send(true).
SendShutdown == Phase("draining", "stopping")

\* The second timer ends first: abort_all.
AbortReaders == Tasks # {} /\ Phase("stopping", "aborting")

\* Every task is joined: drop(writer_tx).
CloseChannel == /\ Tasks = {}
                /\ Phase("stopping", "closing") \/ Phase("aborting", "closing")

\* await_task_shutdown gives up on the writer.
WriterTimeout == wpc \notin {"done", "dead"} /\ Phase("closing", "killing")

\* The writer is joined, by itself or after the abort.
Finish == /\ wpc \in {"done", "dead"}
          /\ Phase("closing", "finished") \/ Phase("killing", "finished")

Shutdown == SendShutdown \/ AbortReaders \/ CloseChannel \/ WriterTimeout \/ Finish

Terminated == main = "finished" /\ UNCHANGED vars

Next ==
    \/ Tick \/ ClockSet
    \/ \E c \in Conns : Accept(c) \/ JoinReader(c) \/ Reader(c)
    \/ StopAccepting \/ WriterStopped \/ Shutdown
    \/ WriterStep \/ WriterPanics \/ WriterAborted
    \/ \E s \in failed : LateLand(s)
    \/ Terminated

Spec == Init /\ [][Next]_vars

\* What tokio's scheduler and timers give: a task that can run runs, a reader
\* notices the shutdown signal or the abort, a timer ends, and a PUT ends at
\* the latest by its timeout.
Fairness ==
    /\ \A c \in Conns : /\ WF_vars(Handoff(c))
                        /\ WF_vars(ReaderSeesShutdown(c))
                        /\ WF_vars(JoinReader(c))
    /\ WF_vars(WriterStopped) /\ WF_vars(Shutdown)
    /\ WF_vars(WriterStep) /\ WF_vars(WriterAborted)

FairSpec == Spec /\ Fairness

-----------------------------------------------------------------------------
Parts == [cohort : Cohorts, window : Nat,
          records : SUBSET Frames, drops : SUBSET Frames]

Holding == {"stamped", "reserved", "refused", "full", "closed", "dropFull", "dropClosed"}

TypeOK ==
    /\ now \in Nat /\ adjusts \in Nat
    /\ main \in {"accepting", "draining", "stopping", "aborting", "closing",
                 "killing", "finished"}
    /\ rpc \in [Conns -> Holding \cup {"none", "reading", "done"}]
    /\ rframe \in [Conns -> Frames \cup {NoFrame}]
    /\ receiveTime \in [Frames -> Nat]
    /\ unread \subseteq Frames
    /\ channel \in Seq(Frames) /\ Len(channel) <= ChannelCapacity
    /\ used \in Nat
    /\ ledger \subseteq Frames
    /\ wpc \in {"select", "flush", "put", "fold", "pressure", "add", "done", "dead"}
    /\ due \in Nat
    /\ hand \in Frames \cup {NoFrame}
    /\ current \in Nat
    /\ records \subseteq Frames /\ drops \subseteq Frames
    /\ todo \subseteq Cohorts
    /\ goal \in {"none", "advance", "close", "cap", "pressure", "final"}
    /\ batch \in Parts \cup {NoBatch}
    /\ unreleased \subseteq Frames
    /\ store \subseteq Parts /\ failed \subseteq Parts
    /\ discarded \subseteq Frames

\* Frames a reader has in hand, not counted as dropped yet.
Reading == {rframe[c] : c \in {d \in Conns : rpc[d] \in Holding \ {"dropFull", "dropClosed"}}}

\* Frames whose reader owns a memory guard.
ReaderGuards == {rframe[c] : c \in {d \in Conns : rpc[d] \in Holding \ {"stamped", "refused"}}}

\* Every frame whose memory guard is alive.
Guarded == ReaderGuards \cup InChannel \cup InHand \cup records \cup unreleased

\* The live budget counts exactly the frames in readers' hands, in the channel
\* and in the writer's buffers: no path through try_send, a spill, a window
\* close or the writer's death leaks a guard or drops one twice.
MemoryIsExact == used = ByteSum(Guarded, RecordBytes)

\* The memory the configuration promises: live frames stay within the live
\* budget and the serialized segment within the slice reserved for it, so
\* both together stay within global_memory_bytes.
MemoryWithinGlobal ==
    /\ used <= LiveMemoryBytes
    /\ batch # NoBatch =>
         /\ ByteSum(batch.records, RecordBytes) <= PerCohortMemoryBytes
         /\ used + ByteSum(batch.records, RecordBytes) + SegmentOverheadBytes
              <= GlobalMemoryBytes

PartFrames(s) == s.records \cup s.drops

InParts(S) == UNION {PartFrames(s) : s \in S}

\* The places a frame can be in.
Places == <<unread, Reading, InChannel, InHand, ledger, records, drops,
            BatchFrames, InParts(store), InParts(failed), discarded>>

\* Every frame is in exactly one place: received frames are kept or counted
\* as dropped, never both and never twice, and no flush, fold of the ledger,
\* failed PUT or shutdown makes one disappear or appear in two parts.
FramesAccountedOnce ==
    /\ LET P == Places
       IN  \A f \in Frames : \E i \in DOMAIN P :
               f \in P[i] /\ \A j \in DOMAIN P : f \in P[j] => j = i
    /\ \A c, d \in Conns : c # d /\ rframe[c] = rframe[d] => rframe[c] = NoFrame
    /\ \A i, j \in 1..Len(channel) : channel[i] = channel[j] => i = j
    /\ \A s, t \in store \cup failed : s # t => PartFrames(s) \cap PartFrames(t) = {}
    /\ \A s \in store \cup failed : s.records \cap s.drops = {}

\* No record lies in a part of a window that had closed before the record was
\* received: a consumer that treats a window as over finds nothing from the
\* future in it, even if the clock is set back.
NoRecordFromTheFuture ==
    \A s \in store \cup failed : \A f \in s.records :
        Aligned(receiveTime[f]) <= s.window

\* collector-spec.md: `The name never lies about which interval the data
\* belongs to'.  A frame stamped just before a window closes and handed over
\* just after it is stored under the next window.
NameNeverLies ==
    \A s \in store : \A f \in s.records : Aligned(receiveTime[f]) = s.window

\* collector-spec.md: `Global pressure flushes the largest cohort'.  With a
\* channel that takes every frame, all drops are for lack of memory; when the
\* writer looks at the budget while a dropped frame still would not fit, it
\* flushes, unless nothing is buffered.
GlobalPressureFlushes ==
    [][wpc = "pressure" /\ wpc' = "add" /\ records # {} =>
           \A f \in ledger \cup drops : used + RecordBytes[f] <= LiveMemoryBytes]_vars

\* After a shutdown in which the writer was not cut off, nothing is left
\* behind: every frame received is in a part (as a record or as a counted
\* drop) or in a PUT that failed, and all memory is given back.
DrainedAtExit ==
    main = "finished" /\ wpc = "done" =>
        /\ channel = <<>> /\ ledger = {} /\ records = {} /\ drops = {}
        /\ used = 0
        /\ Frames = unread \cup InParts(store) \cup InParts(failed)

\* The open window moves only when the buffers and the counted drops of the
\* old one have been flushed: neither a record nor a drop count is carried
\* into another window by the writer.
WindowMovesWhenFlushed ==
    [][current' # current => records = {} /\ drops = {}]_vars

\* Shutdown ends, whatever the clients, the store and the writer do.
ShutdownCompletes == main # "accepting" ~> main = "finished"

\* A writer that dies takes the collector down instead of leaving readers
\* that accept frames for nobody.
WriterDeathEndsCollector == wpc = "dead" ~> main = "finished"

-----------------------------------------------------------------------------
Fate(f) ==
    CASE f \in unread -> "unread"
      [] f \in Reading \cup InChannel \cup InHand -> "received"
      [] f \in records -> "kept"
      [] f \in ledger \cup drops -> "dropped"
      [] f \in BatchFrames -> IF f \in batch.records THEN "kept" ELSE "dropped"
      [] f \in InParts(store) ->
            IF \E s \in store : f \in s.records THEN "stored" ELSE "counted"
      [] f \in InParts(failed) ->
            IF \E s \in failed : f \in s.records THEN "unstored" ELSE "uncounted"
      [] OTHER -> "gone"

Log == INSTANCE CaptureLog WITH fate <- [f \in Frames |-> Fate(f)]

\* The collector implements the capture log.
ImplementsLog == Log!Spec
=============================================================================
