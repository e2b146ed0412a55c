---------------------------- MODULE VectorSender ----------------------------
(***************************************************************************)
(* The SDK's capture path: VectorCaptureProducer, a byte-bounded queue that *)
(* application threads fill without waiting, and VectorSocketSender, whose *)
(* daemon thread drains it into one stream to the collector.  Any thread   *)
(* may call start() and stop(); stop() gives up waiting when its timeout   *)
(* has passed, so a thread that was told to stop may still run when        *)
(* start() is called.                                                      *)
(*                                                                         *)
(* A stream is a row of frames, and sending writes one byte at a time: a   *)
(* send() that wrote more is several such steps, and any of them may be    *)
(* the last.                                                               *)
(***************************************************************************)
EXTENDS ByteSums, Sequences, Functions

CONSTANTS
    Frames,         \* bound: how many captures are tried, numbered in order
    FrameBytes,     \* the encoded length of each
    MaxQueueBytes,  \* max_queue_bytes
    MaxBatchBytes,  \* max_batch_bytes
    MaxStarts,      \* bound: how many sender threads start() makes
    MaxStops,       \* bound: how many times stop() is called
    Callers,        \* threads that call start() and stop()
    Sockets,        \* socket objects; one nobody refers to is used again
    NoSocket        \* None

ASSUME SenderAssumption ==
    /\ Frames \in Nat /\ FrameBytes \in [1 .. Frames -> Nat \ {0}]
    /\ MaxQueueBytes \in Nat \ {0} /\ MaxBatchBytes \in Nat \ {0}
    /\ MaxStarts \in Nat /\ MaxStops \in Nat
    /\ Cardinality(Sockets) >= 2 /\ NoSocket \notin Sockets

Workers == 1 .. MaxStarts

VARIABLES
    queue, queuedBytes,  \* _queue and _queued_bytes
    offered,             \* captures tried so far
    stopEvent,           \* _stop_event
    thread,              \* _thread: the latest sender thread, 0 for None
    sock,                \* _sock
    wpc,                 \* where each sender thread is in _run
    wsock,               \* its local sock
    batch,               \* the frames it holds
    off,                 \* bytes it has sent of the first of them
    open,                \* sockets that are connected and not closed
    partial,             \* bytes of an unfinished frame at a stream's end
    torn,                \* streams where a frame began inside another
    last,                \* history: the last frame any stream began
    cpc,                 \* where each caller is in stop()
    target,              \* the thread its stop() joins
    stops                \* how often stop() was called

producer == <<queue, queuedBytes, offered>>
control == <<stopEvent, thread, cpc, target, stops>>
worker == <<wpc, wsock, batch, off>>
wire == <<open, partial, torn, last>>
sender == <<producer, control, worker, sock, wire>>

SenderInit ==
    /\ queue = <<>> /\ queuedBytes = 0 /\ offered = 0
    /\ stopEvent = FALSE /\ thread = 0 /\ sock = NoSocket
    /\ wpc = [w \in Workers |-> "unborn"]
    /\ wsock = [w \in Workers |-> NoSocket]
    /\ batch = [w \in Workers |-> <<>>]
    /\ off = [w \in Workers |-> 0]
    /\ open = {} /\ partial = [s \in Sockets |-> 0] /\ torn = {} /\ last = 0
    /\ cpc = [c \in Callers |-> "idle"]
    /\ target = [c \in Callers |-> 0]
    /\ stops = 0

(* Captures are numbered, so a frame is in no row of frames twice. *)
FrameLengths(frames) == ByteSum(Range(frames), FrameBytes)

-----------------------------------------------------------------------------
(* The queue.                                                              *)

(* capture_vector: the sampler may skip the capture, a full queue drops it. *)
CaptureVector ==
    /\ offered < Frames
    /\ offered' = offered + 1
    /\ LET f == offered + 1 IN
       \/ UNCHANGED <<queue, queuedBytes>>
       \/ /\ queuedBytes + FrameBytes[f] <= MaxQueueBytes
          /\ queue' = Append(queue, f)
          /\ queuedBytes' = queuedBytes + FrameBytes[f]
    /\ UNCHANGED <<control, worker, sock, wire>>

(* drain: the frames before the first one the budget has no room for. *)
Drained(max) ==
    LET stops_at == {n \in 0 .. Len(queue) :
                       n = Len(queue) \/ FrameLengths(SubSeq(queue, 1, n + 1)) > max}
        n == CHOOSE m \in stops_at : \A k \in stops_at : m <= k
    IN  SubSeq(queue, 1, n)

\* Mutant: the counter is taken down by the budget, not by what was drained.
TakeBudget(frames) ==
    /\ queue' = SubSeq(queue, Len(frames) + 1, Len(queue))
    /\ queuedBytes' = IF frames = <<>> THEN queuedBytes
                      ELSE IF queuedBytes > MaxBatchBytes
                           THEN queuedBytes - MaxBatchBytes ELSE 0

Take(frames) ==
    /\ queue' = SubSeq(queue, Len(frames) + 1, Len(queue))
    /\ queuedBytes' = queuedBytes - FrameLengths(frames)

-----------------------------------------------------------------------------
(* start() and stop().                                                     *)

Alive(w) == w # 0 /\ wpc[w] \notin {"unborn", "dead"}

(* start() while a sender thread is alive returns without doing anything. *)
Start(c) ==
    /\ cpc[c] = "idle" /\ thread < MaxStarts
    /\ ~Alive(thread)
    /\ stopEvent' = FALSE
    /\ thread' = thread + 1
    /\ wpc' = [wpc EXCEPT ![thread + 1] = "loop"]
    /\ UNCHANGED <<producer, cpc, target, stops, wsock, batch, off, sock, wire>>

StopSets(c) ==
    /\ cpc[c] = "idle" /\ stops < MaxStops
    /\ stops' = stops + 1
    /\ stopEvent' = TRUE
    /\ cpc' = [cpc EXCEPT ![c] = "lock"]
    /\ UNCHANGED <<producer, thread, target, worker, sock, wire>>

StopReadsThread(c) ==
    /\ cpc[c] = "lock"
    /\ target' = [target EXCEPT ![c] = thread]
    /\ cpc' = [cpc EXCEPT ![c] = IF thread = 0 THEN "close" ELSE "join"]
    /\ UNCHANGED <<producer, stopEvent, thread, stops, worker, sock, wire>>

(* join() returns when the thread has ended, or its timeout has passed. *)
StopJoins(c) ==
    /\ cpc[c] = "join"
    /\ cpc' = [cpc EXCEPT ![c] = "close"]
    /\ target' = [target EXCEPT ![c] = 0]
    /\ UNCHANGED <<producer, stopEvent, thread, stops, worker, sock, wire>>

(* _close_socket(): whatever socket is current is closed. *)
CloseCurrent ==
    /\ sock' = NoSocket
    /\ open' = open \ {sock}
    /\ UNCHANGED <<partial, torn, last>>

StopCloses(c) ==
    /\ cpc[c] = "close"
    /\ cpc' = [cpc EXCEPT ![c] = "idle"]
    /\ CloseCurrent
    /\ UNCHANGED <<producer, stopEvent, thread, target, stops, worker>>

-----------------------------------------------------------------------------
(* The sender thread.                                                      *)

To(w, l) == wpc' = [wpc EXCEPT ![w] = l]

\* Mutant: the event is looked at only when a socket is connected.
LoopConnectsFirst(w) ==
    /\ wpc[w] = "loop"
    /\ To(w, IF stopEvent /\ sock # NoSocket THEN "finally" ELSE "ensure")
    /\ UNCHANGED <<producer, control, wsock, batch, off, sock, wire>>

Loop(w) ==
    /\ wpc[w] = "loop"
    /\ To(w, IF stopEvent THEN "finally" ELSE "ensure")
    /\ UNCHANGED <<producer, control, wsock, batch, off, sock, wire>>

(* _ensure_connected, up to the release of the lock: the current socket may
   have been closed since the event was looked at. *)
EnsureConnected(w) ==
    /\ wpc[w] = "ensure"
    /\ To(w, IF sock = NoSocket THEN "connect" ELSE "drain")
    /\ wsock' = [wsock EXCEPT ![w] = sock]
    /\ UNCHANGED <<producer, control, batch, off, sock, wire>>

Unused == Sockets \ ({sock} \cup {wsock[w] : w \in Workers})

SocketConnects(w) ==
    /\ wpc[w] = "connect"
    /\ \E s \in Unused :
         /\ wsock' = [wsock EXCEPT ![w] = s]
         /\ open' = open \cup {s}
         /\ partial' = [partial EXCEPT ![s] = 0]
         /\ torn' = torn \ {s}
    /\ To(w, "adopt")
    /\ UNCHANGED <<producer, control, batch, off, sock, last>>

(* The wait before the next attempt ends early when the event is set. *)
SocketFails(w) ==
    /\ wpc[w] = "connect"
    /\ To(w, "loop")
    /\ CloseCurrent
    /\ UNCHANGED <<producer, control, wsock, batch, off>>

(* An error that is no OSError, such as of a host name that cannot be encoded,
   ends the loop. *)
SocketRaises(w) ==
    /\ wpc[w] = "connect"
    /\ To(w, "finally")
    /\ UNCHANGED <<producer, control, wsock, batch, off, sock, wire>>

\* Mutant: a socket that comes too late is forgotten, not closed.
AdoptForgets(w) ==
    /\ wpc[w] = "adopt"
    /\ IF stopEvent
       THEN /\ wsock' = [wsock EXCEPT ![w] = NoSocket]
            /\ To(w, "loop") /\ sock' = sock
       ELSE /\ sock' = wsock[w]
            /\ To(w, "drain") /\ UNCHANGED wsock
    /\ UNCHANGED <<producer, control, batch, off, wire>>

(* The second half of _ensure_connected: a thread that was told to stop
   while it connected gives the socket up. *)
Adopt(w) ==
    /\ wpc[w] = "adopt"
    /\ IF stopEvent
       THEN /\ open' = open \ {wsock[w]}
            /\ wsock' = [wsock EXCEPT ![w] = NoSocket]
            /\ To(w, "loop") /\ sock' = sock
       ELSE /\ sock' = wsock[w]
            /\ To(w, "drain") /\ UNCHANGED <<open, wsock>>
    /\ UNCHANGED <<producer, control, batch, off, partial, torn, last>>

Drain(w) ==
    /\ wpc[w] = "drain"
    /\ LET frames == Drained(MaxBatchBytes) IN
       /\ Take(frames)
       /\ batch' = [batch EXCEPT ![w] = frames]
       /\ To(w, IF frames = <<>> THEN "dequeue" ELSE "flush")
    /\ UNCHANGED <<offered, control, wsock, off, sock, wire>>

(* A frame larger than the batch goes alone. *)
TryDequeue(w) ==
    /\ wpc[w] = "dequeue"
    /\ LET frames == SubSeq(queue, 1, IF queue = <<>> THEN 0 ELSE 1) IN
       /\ Take(frames)
       /\ batch' = [batch EXCEPT ![w] = frames]
       /\ To(w, IF frames = <<>> THEN "loop" ELSE "flush")
    /\ UNCHANGED <<offered, control, wsock, off, sock, wire>>

(* The flush interval: stop() ends the thread and its batch with it. *)
FlushWait(w) ==
    /\ wpc[w] = "flush"
    /\ LET room == MaxBatchBytes - FrameLengths(batch[w])
           more == IF room > 0 THEN Drained(room) ELSE <<>>
       IN  IF stopEvent
           THEN /\ To(w, "finally")
                /\ batch' = [batch EXCEPT ![w] = <<>>]
                /\ UNCHANGED <<queue, queuedBytes>>
           ELSE /\ Take(more)
                /\ batch' = [batch EXCEPT ![w] = @ \o more]
                /\ To(w, "send")
    /\ UNCHANGED <<offered, control, wsock, off, sock, wire>>

(* One more byte.  A closed socket takes none. *)
SendByte(w) ==
    LET s == wsock[w]
        f == Head(batch[w])
        begins == off[w] = 0
        ends == off[w] + 1 = FrameBytes[f]
    IN
    /\ wpc[w] = "send" /\ batch[w] # <<>> /\ s \in open
    /\ off' = [off EXCEPT ![w] = IF ends THEN 0 ELSE off[w] + 1]
    /\ batch' = [batch EXCEPT ![w] = IF ends THEN Tail(@) ELSE @]
    /\ partial' = [partial EXCEPT ![s] = IF ends THEN 0 ELSE off[w] + 1]
    /\ torn' = IF begins /\ partial[s] # 0 THEN torn \cup {s} ELSE torn
    /\ last' = IF begins THEN f ELSE last
    /\ UNCHANGED <<producer, control, wpc, wsock, sock, open>>

SendDone(w) ==
    /\ wpc[w] = "send" /\ batch[w] = <<>>
    /\ To(w, "loop")
    /\ UNCHANGED <<producer, control, wsock, batch, off, sock, wire>>

\* Mutant: after a failed send the socket is kept for the next batch.
SendFailsKeepsSocket(w) ==
    /\ wpc[w] = "send" /\ batch[w] # <<>>
    /\ batch' = [batch EXCEPT ![w] = <<>>]
    /\ off' = [off EXCEPT ![w] = 0]
    /\ To(w, "loop")
    /\ UNCHANGED <<producer, control, wsock, sock, wire>>

(* The event is set, the deadline has passed or send() failed: the batch is
   dropped and its stream given up. *)
SendFails(w) ==
    /\ wpc[w] = "send" /\ batch[w] # <<>>
    /\ batch' = [batch EXCEPT ![w] = <<>>]
    /\ off' = [off EXCEPT ![w] = 0]
    /\ open' = open \ {wsock[w]}
    /\ sock' = IF sock = wsock[w] THEN NoSocket ELSE sock
    /\ To(w, "loop")
    /\ UNCHANGED <<producer, control, wsock, partial, torn, last>>

Finally(w) ==
    /\ wpc[w] = "finally"
    /\ To(w, "dead")
    /\ wsock' = [wsock EXCEPT ![w] = NoSocket]
    /\ CloseCurrent
    /\ UNCHANGED <<producer, control, batch, off>>

(* What the thread does whether or not the collector is there. *)
Run(w) ==
    \/ Loop(w) \/ EnsureConnected(w) \/ SocketFails(w) \/ SocketRaises(w)
    \/ Adopt(w) \/ Drain(w) \/ TryDequeue(w) \/ FlushWait(w) \/ SendDone(w)
    \/ SendFails(w) \/ Finally(w)

StartOrStop(c) ==
    \/ Start(c) \/ StopSets(c) \/ StopReadsThread(c) \/ StopJoins(c)
    \/ StopCloses(c)

SenderNext ==
    \/ CaptureVector
    \/ \E c \in Callers : StartOrStop(c)
    \/ \E w \in Workers : Run(w) \/ SocketConnects(w) \/ SendByte(w)

SenderSpec == SenderInit /\ [][SenderNext]_sender

(* The sender thread is scheduled, each of its waits and its sends has a
   deadline, and a batch is finite: a thread that may go on does. *)
SenderFairness ==
    \A w \in Workers : WF_sender(Run(w) \/ SocketConnects(w) \/ SendByte(w))

FairSenderSpec == SenderSpec /\ SenderFairness

-----------------------------------------------------------------------------
(* The byte count is the queue's, and within max_queue_bytes, however
   captures and drains interleave. *)
QueueExact == queuedBytes = FrameLengths(queue) /\ queuedBytes <= MaxQueueBytes

(* What a collector reads is whole frames, in the order they were captured and
   none twice, across batches, reconnects and restarts of the sender: after a
   partial write a stream is never written again, whichever thread has a hold
   of its socket. *)
FramesWholeInOrder == [](torn = {}) /\ [][last' # last => last' > last]_sender

(* A second sender is never started beside one that is still running, even
   when stop() has given up waiting for it. *)
OneSender == Cardinality({w \in Workers : Alive(w)}) <= 1

(* With no sender alive and no stop() under way every socket is closed. *)
NoSocketLeft ==
    (\A w \in Workers : ~Alive(w)) /\ (\A c \in Callers : cpc[c] = "idle")
        => open = {}

(* start() and stop(), called from any threads in any order, leave neither a
   second sender nor a socket behind. *)
LifecycleClean == OneSender /\ NoSocketLeft

(* A sender that was told to stop ends, wherever it is, unless start() takes
   the signal back. *)
SenderHeedsStop == stopEvent ~> (~stopEvent \/ \A w \in Workers : ~Alive(w))
=============================================================================
