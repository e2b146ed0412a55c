---------------------------- MODULE SenderProofs ----------------------------
(***************************************************************************)
(* What the SDK's capture path keeps for any number of captures, sender    *)
(* threads and callers of start() and stop(): the byte count of the queue, *)
(* the order and wholeness of the frames on every stream, and a clean      *)
(* lifecycle.                                                              *)
(***************************************************************************)
EXTENDS VectorSender, DataLemmas

USE SenderAssumption DEF Workers

-----------------------------------------------------------------------------
(* The inductive invariant.                                                *)

Places == {"loop", "ensure", "connect", "adopt", "drain", "dequeue", "flush", "send",
           "finally"}
Rows == Seq(1 .. Frames)
MaybeSocket == Sockets \cup {NoSocket}

SenderShapes ==
    /\ thread \in 0 .. MaxStarts /\ wpc \in [Workers -> Places \cup {"unborn", "dead"}]
    /\ sock \in MaybeSocket /\ wsock \in [Workers -> MaybeSocket]
    /\ open \subseteq Sockets /\ partial \in [Sockets -> Nat]

\* Only the latest sender thread can be alive.
OneThread ==
    \A w \in Workers : /\ w > thread <=> wpc[w] = "unborn"
                       /\ w < thread => wpc[w] = "dead"

\* What a thread holds at each place.
Holdings ==
    \A w \in Workers :
        /\ wpc[w] \notin {"flush", "send"} => batch[w] = <<>>
        /\ wpc[w] # "send" \/ batch[w] = <<>> => off[w] = 0
        /\ wpc[w] \in {"connect", "adopt"} => sock = NoSocket
        /\ wpc[w] \in {"drain", "dequeue", "flush", "send"} => sock \in {NoSocket, wsock[w]}

\* An open socket is the current one or the one a thread has just connected; its
\* stream ends where the thread that writes it is in its frame.
Streams ==
    /\ \A s \in open : s = sock \/ \E w \in Workers : wpc[w] = "adopt" /\ wsock[w] = s
    /\ (\A w \in Workers : ~Alive(w)) => sock = NoSocket
    /\ \A s \in open, w \in Workers : Alive(w) => partial[s] = off[w]
    /\ torn = {}

Rising(frames) == \A i, j \in 1 .. Len(frames) : i < j => frames[i] < frames[j]

\* A thread's batch is in order, ahead of queue q and not behind frame l, the
\* last that was begun, which is the batch's first when o of its bytes are sent.
BatchInOrder(b, o, q, l) ==
    /\ Rising(b)
    /\ \A i \in 1 .. Len(b) : /\ b[i] <= offered
                              /\ \A j \in 1 .. Len(q) : b[i] < q[j]
                              /\ IF o = 0 THEN l < b[i] ELSE l <= b[i]
    /\ o # 0 => l = Head(b)

\* Frames leave in the order they came: first the one being sent, then the rest
\* of the batch, then the queue.
Order ==
    /\ Rising(queue) /\ last <= offered
    /\ \A j \in 1 .. Len(queue) : last < queue[j] /\ queue[j] <= offered
    /\ \A w \in Workers : BatchInOrder(batch[w], off[w], queue, last)

\* The queue holds only frames that fit.
Accounted ==
    /\ \A i \in 1 .. Len(queue) : FrameBytes[queue[i]] <= MaxQueueBytes
    /\ QueueExact

\* The frames and how far they have come.
InOrder ==
    /\ offered \in 0 .. Frames /\ last \in 0 .. Frames /\ queuedBytes \in Nat
    /\ queue \in Rows /\ batch \in [Workers -> Rows] /\ off \in [Workers -> Nat]
    /\ Order /\ Accounted

\* The threads and their sockets.
Lifecycle == SenderShapes /\ OneThread /\ Holdings /\ Streams

SenderInv == InOrder /\ Lifecycle

-----------------------------------------------------------------------------
(* Rows of frames.                                                         *)

LEMMA Prefix ==
    ASSUME NEW q \in Rows, NEW n \in 0 .. Len(q)
    PROVE  LET p == SubSeq(q, 1, n) IN
           p \in Rows /\ Len(p) = n /\ \A i \in 1 .. n : p[i] = q[i]
<1>1. \A i \in 1 .. n : q[i] \in 1 .. Frames
  BY ElementOfSeq, LenProperties DEF Rows
<1>2. n \in Int /\ 1 \in Int /\ Len(q) \in Nat
  BY LenProperties DEF Rows
<1> DEFINE p == SubSeq(q, 1, n)
<1>3. /\ p \in Seq(1 .. Frames)
      /\ Len(p) = IF 1 <= n THEN n - 1 + 1 ELSE 0
      /\ \A i \in 1 .. n - 1 + 1 : p[i] = q[1 + i - 1]
  BY <1>1, <1>2, SubSeqProperties
<1> HIDE DEF p
<1>4. p \in Rows /\ Len(p) = n /\ \A i \in 1 .. n : p[i] = q[i]
  BY <1>2, <1>3 DEF Rows
<1> QED
  BY <1>4 DEF p

LEMMA Suffix ==
    ASSUME NEW q \in Rows, NEW n \in 0 .. Len(q)
    PROVE  LET p == SubSeq(q, n + 1, Len(q)) IN
           p \in Rows /\ Len(p) = Len(q) - n /\ \A i \in 1 .. Len(q) - n : p[i] = q[n + i]
<1>1. Len(q) \in Nat /\ n \in Nat /\ n <= Len(q)
  BY LenProperties DEF Rows
<1>2. \A i \in n + 1 .. Len(q) : q[i] \in 1 .. Frames
  BY <1>1, ElementOfSeq DEF Rows
<1> DEFINE p == SubSeq(q, n + 1, Len(q))
<1>3. /\ p \in Seq(1 .. Frames)
      /\ Len(p) = IF n + 1 <= Len(q) THEN Len(q) - (n + 1) + 1 ELSE 0
      /\ \A i \in 1 .. Len(q) - (n + 1) + 1 : p[i] = q[n + 1 + i - 1]
  BY <1>1, <1>2, SubSeqProperties
<1> HIDE DEF p
<1>4. /\ p \in Rows /\ Len(p) = Len(q) - n
      /\ \A i \in 1 .. Len(q) - n : p[i] = q[n + i]
  BY <1>1, <1>3 DEF Rows
<1> QED
  BY <1>4 DEF p

LEMMA RowLen ==
    ASSUME NEW q \in Rows
    PROVE  /\ Len(q) \in Nat /\ (Len(q) = 0 <=> q = <<>>)
           /\ \A i \in 1 .. Len(q) : q[i] \in 1 .. Frames
           /\ Range(q) = {q[i] : i \in 1 .. Len(q)}
<1>1. q \in Seq(1 .. Frames)
  BY DEF Rows
<1>2. Len(q) \in Nat /\ (Len(q) = 0 <=> q = <<>>)
  BY <1>1, LenProperties, EmptySeq
<1>3. \A i \in 1 .. Len(q) : q[i] \in 1 .. Frames
  BY <1>1, ElementOfSeq
<1>4. Range(q) = {q[i] : i \in 1 .. Len(q)}
  BY <1>1, RangeEquality
<1> QED
  BY <1>2, <1>3, <1>4

\* A non-empty set of numbers has a least one.
LEMMA Least ==
    ASSUME NEW S \in SUBSET Nat, S # {}
    PROVE  \E x \in S : \A y \in S : x <= y
<1> DEFINE R == OpToRel(<, Nat)
<1>1. IsWellFoundedOn(R, Nat)
  BY NatLessThanWellFounded
<1>2. PICK x \in S : \A y \in S : ~ (<<y, x>> \in R)
  <2> HIDE DEF R
  <2> QED
    BY <1>1, WFMin
<1>3. \A m, n \in Nat : m < n => <<m, n>> \in R
  BY Zenon DEF OpToRel
<1>4. \A y \in S : x <= y
  <2> HIDE DEF R
  <2> TAKE y \in S
  <2>1. x \in Nat /\ y \in Nat
    OBVIOUS
  <2>2. ~(y < x)
    BY <1>2, <1>3, <2>1, Zenon
  <2> QED
    BY <2>1, <2>2
<1> QED
  BY <1>4

\* drain takes frames from the head of the queue.
LEMMA DrainedPrefix ==
    ASSUME queue \in Rows, NEW max
    PROVE  \E n \in 0 .. Len(queue) : Drained(max) = SubSeq(queue, 1, n)
<1> DEFINE S == {n \in 0 .. Len(queue) :
                   n = Len(queue) \/ FrameLengths(SubSeq(queue, 1, n + 1)) > max}
           m == CHOOSE m \in S : \A k \in S : m <= k
<1>1. Len(queue) \in Nat
  BY RowLen
<1>2. S \in SUBSET Nat /\ Len(queue) \in S
  BY <1>1
<1>3. \E x \in S : \A y \in S : x <= y
  <2> HIDE DEF S
  <2> QED
    BY <1>2, Least
<1>4. m \in S
  BY <1>3
<1>5. Drained(max) = SubSeq(queue, 1, m)
  BY DEF Drained
<1> QED
  BY <1>4, <1>5

-----------------------------------------------------------------------------
(* Lengths.                                                                *)

\* The frames that fit in the queue, and their lengths.
Fitting == {f \in 1 .. Frames : FrameBytes[f] <= MaxQueueBytes}
FittingBytes == [f \in Fitting |-> FrameBytes[f]]

LEMMA FittingSums ==
    /\ IsFiniteSet(Fitting) /\ FittingBytes \in [Fitting -> 1 .. MaxQueueBytes]
    /\ \A S \in SUBSET Fitting : ByteSum(S, FrameBytes) = ByteSum(S, FittingBytes)
<1>1. IsFiniteSet(1 .. Frames)
  BY FS_Interval
<1>2. Fitting \in SUBSET (1 .. Frames)
  BY DEF Fitting
<1>3. IsFiniteSet(Fitting)
  BY <1>1, <1>2, FS_Subset
<1>4. \A f \in Fitting : FrameBytes[f] \in 1 .. MaxQueueBytes
  BY DEF Fitting
<1>5. FittingBytes \in [Fitting -> 1 .. MaxQueueBytes]
  BY <1>4 DEF FittingBytes
<1>6. ASSUME NEW S \in SUBSET Fitting
      PROVE  ByteSet(S, FrameBytes) = ByteSet(S, FittingBytes)
  BY DEF FittingBytes, ByteSet
<1> QED
  BY <1>3, <1>5, <1>6 DEF ByteSum

\* A row that is split loses the bytes of what is taken from it.
LEMMA SplitBytes ==
    ASSUME NEW q \in Rows, Rising(q), NEW n \in 0 .. Len(q),
           \A i \in 1 .. Len(q) : FrameBytes[q[i]] <= MaxQueueBytes
    PROVE  LET p == SubSeq(q, 1, n)
               r == SubSeq(q, n + 1, Len(q))
           IN  FrameLengths(r) = FrameLengths(q) - FrameLengths(p) /\ FrameLengths(r) \in Nat /\ FrameLengths(r) <= FrameLengths(q)
<1> DEFINE p == SubSeq(q, 1, n)
           r == SubSeq(q, n + 1, Len(q))
<1>1. p \in Rows /\ Len(p) = n /\ \A i \in 1 .. n : p[i] = q[i]
  BY Prefix
<1>2. r \in Rows /\ Len(r) = Len(q) - n /\ \A i \in 1 .. Len(q) - n : r[i] = q[n + i]
  BY Suffix
<1> HIDE DEF p, r
<1>3. Len(q) \in Nat /\ \A i \in 1 .. Len(q) : q[i] \in 1 .. Frames
  BY RowLen
<1>4. /\ Range(q) = {q[i] : i \in 1 .. Len(q)} /\ Range(p) = {q[i] : i \in 1 .. n}
      /\ Range(r) = {q[n + i] : i \in 1 .. Len(q) - n}
  <2>1. /\ Range(q) = {q[i] : i \in 1 .. Len(q)} /\ Range(p) = {p[i] : i \in 1 .. Len(p)}
        /\ Range(r) = {r[i] : i \in 1 .. Len(r)}
    BY <1>1, <1>2, RowLen
  <2>2. {p[i] : i \in 1 .. Len(p)} = {q[i] : i \in 1 .. n}
    BY <1>1
  <2>3. {r[i] : i \in 1 .. Len(r)} = {q[n + i] : i \in 1 .. Len(q) - n}
    BY <1>2
  <2> QED
    BY <2>1, <2>2, <2>3
<1>5. Range(q) \in SUBSET Fitting /\ Range(p) \in SUBSET Range(q)
  BY <1>3, <1>4 DEF Fitting
<1>6. Range(r) = Range(q) \ Range(p)
  <2>1. ASSUME NEW f \in Range(r) PROVE f \in Range(q) \ Range(p)
    <3>1. PICK i \in 1 .. Len(q) - n : f = q[n + i]
      BY <1>4, <2>1
    <3>2. n + i \in 1 .. Len(q) /\ \A j \in 1 .. n : j \in 1 .. Len(q) /\ j < n + i
      BY <1>3
    <3>3. \A j \in 1 .. n : q[j] < q[n + i] /\ q[j] \in Int /\ q[n + i] \in Int
      BY <1>3, <3>2 DEF Rising
    <3> QED
      BY <1>4, <3>1, <3>2, <3>3
  <2>2. ASSUME NEW f \in Range(q), f \notin Range(p) PROVE f \in Range(r)
    <3>1. PICK i \in 1 .. Len(q) : f = q[i]
      BY <1>4, <2>2
    <3>2. ~(i \in 1 .. n)
      BY <1>4, <2>2, <3>1
    <3>3. i - n \in 1 .. Len(q) - n /\ i = n + (i - n)
      BY <1>3, <3>2
    <3> QED
      BY <1>4, <3>1, <3>3
  <2> QED
    BY <2>1, <2>2
<1>7. /\ ByteSum(Range(r), FittingBytes) =
            ByteSum(Range(q), FittingBytes) - ByteSum(Range(p), FittingBytes)
      /\ ByteSum(Range(r), FittingBytes) \in Nat
      /\ ByteSum(Range(r), FittingBytes) <= ByteSum(Range(q), FittingBytes)
  <2>1. Range(r) \in SUBSET Range(q) /\ Range(r) \in SUBSET Fitting
    BY <1>5, <1>6
  <2> QED
    BY <1>5, <1>6, <2>1, FittingSums, ByteSumType, ByteSumRemove
<1>8. FrameLengths(r) = FrameLengths(q) - FrameLengths(p) /\ FrameLengths(r) \in Nat /\ FrameLengths(r) <= FrameLengths(q)
  <2>1. Range(r) \in SUBSET Fitting /\ Range(p) \in SUBSET Fitting
    BY <1>5, <1>6
  <2> QED
    BY <1>5, <1>7, <2>1, FittingSums DEF FrameLengths
<1> QED
  BY <1>8 DEF p, r

-----------------------------------------------------------------------------
(* The producer's steps and the sender's, as far as frames go.             *)

\* A capture is the latest frame.
LEMMA CaptureInOrder ==
    ASSUME InOrder, CaptureVector
    PROVE  InOrder'
<1> DEFINE f == offered + 1
<1>1. /\ offered < Frames /\ offered' = f
      /\ UNCHANGED <<batch, off, last>>
  BY DEF CaptureVector, worker, wire
<1>2. f \in 1 .. Frames /\ offered \in Nat
  BY <1>1 DEF InOrder
<1> HIDE DEF f
<1>3. f = offered + 1
  BY DEF f
<1>4. Len(queue) \in Nat /\ \A i \in 1 .. Len(queue) : queue[i] \in 1 .. Frames
  BY RowLen DEF InOrder
<1>5. \A w \in Workers : /\ batch[w] \in Rows
                         /\ \A i \in 1 .. Len(batch[w]) : batch[w][i] \in 1 .. Frames
  BY RowLen DEF InOrder
<1>6. CASE UNCHANGED <<queue, queuedBytes>>
  <2>1. last <= f /\ \A j \in 1 .. Len(queue) : queue[j] <= f
    BY <1>2, <1>3, <1>4 DEF InOrder, Order
  <2>2. \A w \in Workers : \A i \in 1 .. Len(batch[w]) : batch[w][i] <= f
    BY <1>2, <1>3, <1>5 DEF InOrder, Order, BatchInOrder
  <2>3. Order'
    BY <1>1, <1>6, <2>1, <2>2 DEF InOrder, Order, Rising, BatchInOrder
  <2> QED
    BY <1>1, <1>2, <1>6, <2>3 DEF InOrder, Accounted, QueueExact, FrameLengths
<1>7. CASE /\ queuedBytes + FrameBytes[f] <= MaxQueueBytes
           /\ queue' = Append(queue, f)
           /\ queuedBytes' = queuedBytes + FrameBytes[f]
  <2> DEFINE q == Append(queue, f)
  <2>1. /\ q \in Rows /\ Len(q) = Len(queue) + 1 /\ q[Len(queue) + 1] = f
        /\ \A i \in 1 .. Len(queue) : q[i] = queue[i]
    BY <1>2, AppendProperties DEF InOrder, Rows
  <2> HIDE DEF q
  <2>2. queue' = q
    BY <1>7 DEF q
  <2>3. \A i \in 1 .. Len(q) : i \in 1 .. Len(queue) \/ i = Len(q)
    BY <1>4, <2>1
  <2>4. FrameBytes[f] \in Nat /\ FrameBytes[f] <= MaxQueueBytes
    BY <1>2, <1>7 DEF InOrder
  <2>5. Rising(q)
    <3> SUFFICES ASSUME NEW i \in 1 .. Len(q), NEW j \in 1 .. Len(q), i < j
                 PROVE  q[i] < q[j]
      BY DEF Rising
    <3>1. i \in 1 .. Len(queue)
      BY <1>4, <2>1
    <3>2. CASE j \in 1 .. Len(queue)
      BY <2>1, <3>1, <3>2 DEF InOrder, Order, Rising
    <3>3. CASE j = Len(q)
      <4>1. queue[i] <= offered
        BY <3>1 DEF InOrder, Order
      <4> QED
        BY <1>2, <1>3, <1>4, <2>1, <3>1, <3>3, <4>1
    <3> QED
      BY <2>3, <3>2, <3>3
  <2>6. Order'
    <3>1. last < f /\ last <= f
      BY <1>2, <1>3 DEF InOrder, Order
    <3>2. ASSUME NEW j \in 1 .. Len(q) PROVE last < q[j] /\ q[j] <= f
      <4>1. CASE j \in 1 .. Len(queue)
        <5>1. last < queue[j] /\ queue[j] <= offered
          BY <4>1 DEF InOrder, Order
        <5>2. q[j] = queue[j] /\ queue[j] \in Int
          BY <1>4, <2>1, <4>1
        <5> QED
          BY <1>2, <1>3, <5>1, <5>2
      <4>2. CASE j = Len(q)
        BY <1>2, <2>1, <3>1, <4>2
      <4> QED
        BY <2>3, <4>1, <4>2
    <3>3. \A w \in Workers : \A i \in 1 .. Len(batch[w]) :
             batch[w][i] <= f /\ batch[w][i] < f
      BY <1>2, <1>3, <1>5 DEF InOrder, Order, BatchInOrder
    <3>4. \A w \in Workers : \A i \in 1 .. Len(batch[w]) : \A j \in 1 .. Len(q) :
             batch[w][i] < q[j]
      BY <2>1, <2>3, <3>3 DEF InOrder, Order, BatchInOrder
    <3>5. \A w \in Workers : BatchInOrder(batch[w], off[w], queue, last)'
      BY <1>1, <2>2, <3>3, <3>4 DEF InOrder, Order, BatchInOrder, Rising
    <3> QED
      BY <1>1, <2>2, <2>5, <3>1, <3>2, <3>5 DEF InOrder, Order, Rising
  <2>7. Accounted'
    <3>1. Range(q) = Range(queue) \cup {f}
      <4>1. Range(q) = {q[i] : i \in 1 .. Len(q)}
        BY <2>1, RowLen
      <4>2. Range(queue) = {queue[i] : i \in 1 .. Len(queue)}
        BY RowLen DEF InOrder
      <4>3. \A i \in 1 .. Len(queue) : i \in 1 .. Len(q)
        BY <1>4, <2>1
      <4>4. Len(q) \in 1 .. Len(q)
        BY <1>4, <2>1
      <4> QED
        BY <2>1, <2>3, <4>1, <4>2, <4>3, <4>4
    <3>2. f \notin Range(queue) /\ Range(queue) \in SUBSET Fitting /\ f \in Fitting
      <4>1. Range(queue) = {queue[i] : i \in 1 .. Len(queue)}
        BY RowLen DEF InOrder
      <4>2. \A i \in 1 .. Len(queue) : queue[i] # f
        BY <1>2, <1>3, <1>4 DEF InOrder, Order
      <4>3. \A i \in 1 .. Len(queue) : queue[i] \in Fitting
        BY <1>4 DEF InOrder, Accounted, Fitting
      <4> QED
        BY <1>2, <2>4, <4>1, <4>2, <4>3 DEF Fitting
    <3>3. ByteSum(Range(queue) \cup {f}, FittingBytes) =
             ByteSum(Range(queue), FittingBytes) + FittingBytes[f]
      BY <3>2, FittingSums, ByteSumAdd
    <3>4. Range(queue) \cup {f} \in SUBSET Fitting
      BY <3>2
    <3>5. FrameLengths(q) = FrameLengths(queue) + FrameBytes[f]
      BY <3>1, <3>2, <3>3, <3>4, FittingSums DEF FrameLengths, FittingBytes
    <3>6. QueueExact'
      BY <1>7, <2>2, <3>5 DEF InOrder, Accounted, QueueExact, FrameLengths
    <3>7. \A i \in 1 .. Len(q) : FrameBytes[q[i]] <= MaxQueueBytes
      BY <2>1, <2>3, <2>4 DEF InOrder, Accounted
    <3> QED
      BY <2>2, <3>6, <3>7 DEF Accounted
  <2>8. queuedBytes' \in Nat
    BY <1>7, <2>4 DEF InOrder
  <2> QED
    BY <1>1, <1>2, <2>1, <2>2, <2>6, <2>7, <2>8 DEF InOrder
<1> QED
  BY <1>6, <1>7 DEF CaptureVector, f

\* Frames that go from the head of the queue to the end of a batch stay in order.
LEMMA MoveInOrder ==
    ASSUME InOrder, NEW w \in Workers, NEW n \in 0 .. Len(queue), off[w] = 0,
           queue' = SubSeq(queue, n + 1, Len(queue)),
           queuedBytes' = queuedBytes - FrameLengths(SubSeq(queue, 1, n)),
           batch' = [batch EXCEPT ![w] = batch[w] \o SubSeq(queue, 1, n)],
           UNCHANGED <<offered, off, last>>
    PROVE  InOrder'
<1> DEFINE p == SubSeq(queue, 1, n)
           r == SubSeq(queue, n + 1, Len(queue))
           b == batch[w]
           c == b \o p
<1>1. p \in Rows /\ Len(p) = n /\ \A i \in 1 .. n : p[i] = queue[i]
  BY Prefix DEF InOrder
<1>2. /\ r \in Rows /\ Len(r) = Len(queue) - n
      /\ \A i \in 1 .. Len(queue) - n : r[i] = queue[n + i]
  BY Suffix DEF InOrder
<1>3. FrameLengths(r) = FrameLengths(queue) - FrameLengths(p) /\ FrameLengths(r) \in Nat /\ FrameLengths(r) <= FrameLengths(queue)
  BY SplitBytes DEF InOrder, Order, Accounted
<1>4. b \in Rows
  BY DEF InOrder
<1> HIDE DEF p, r, b
<1>5. /\ c \in Rows /\ Len(c) = Len(b) + n
      /\ \A i \in 1 .. Len(b) + n : c[i] = IF i <= Len(b) THEN b[i] ELSE p[i - Len(b)]
  <2>1. /\ c \in Seq(1 .. Frames) /\ Len(c) = Len(b) + Len(p)
        /\ \A i \in 1 .. Len(b) + Len(p) :
              c[i] = IF i <= Len(b) THEN b[i] ELSE p[i - Len(b)]
    <3>1. b \in Seq(1 .. Frames) /\ p \in Seq(1 .. Frames)
      BY <1>1, <1>4 DEF Rows
    <3> QED
      BY <3>1, ConcatProperties
  <2> HIDE DEF c
  <2> QED
    BY <1>1, <2>1 DEF Rows
<1> HIDE DEF c
<1>6. /\ queue' = r /\ queuedBytes' = queuedBytes - FrameLengths(p)
      /\ batch' = [batch EXCEPT ![w] = c]
  BY DEF p, r, b, c
<1>7. /\ Len(queue) \in Nat /\ Len(b) \in Nat /\ n \in Nat /\ n <= Len(queue)
      /\ \A i \in 1 .. Len(queue) : queue[i] \in 1 .. Frames
      /\ \A i \in 1 .. Len(b) : b[i] \in 1 .. Frames
  BY <1>4, RowLen DEF InOrder
<1>8. batch' \in [Workers -> Rows]
      /\ \A v \in Workers : batch'[v] = IF v = w THEN c ELSE batch[v]
  BY <1>5, <1>6 DEF InOrder
<1>9. /\ \A i, j \in 1 .. Len(queue) : i < j => queue[i] < queue[j]
      /\ \A j \in 1 .. Len(queue) : last < queue[j] /\ queue[j] <= offered
      /\ \A i, j \in 1 .. Len(b) : i < j => b[i] < b[j]
      /\ \A i \in 1 .. Len(b) : b[i] <= offered /\ last < b[i]
      /\ \A i \in 1 .. Len(b), j \in 1 .. Len(queue) : b[i] < queue[j]
  BY DEF InOrder, Order, BatchInOrder, Rising, b
<1>10. \A j \in 1 .. Len(r) : n + j \in 1 .. Len(queue) /\ r[j] = queue[n + j]
  BY <1>2, <1>7
<1>11. ASSUME NEW i \in 1 .. Len(c)
       PROVE  \/ i \in 1 .. Len(b) /\ c[i] = b[i]
              \/ i - Len(b) \in 1 .. n /\ i - Len(b) \in 1 .. Len(queue)
                 /\ c[i] = queue[i - Len(b)]
  <2>1. CASE i <= Len(b)
    BY <1>5, <1>7, <2>1
  <2>2. CASE i > Len(b)
    <3>1. i - Len(b) \in 1 .. n /\ i - Len(b) \in 1 .. Len(queue)
      BY <1>5, <1>7, <2>2
    <3>2. c[i] = p[i - Len(b)]
      BY <1>5, <1>7, <2>2
    <3> QED
      BY <1>1, <3>1, <3>2
  <2> QED
    BY <1>5, <1>7, <2>1, <2>2
<1>12. Rising(r) /\ \A j \in 1 .. Len(r) : last < r[j] /\ r[j] <= offered
  <2>1. \A i, j \in 1 .. Len(r) : i < j => n + i < n + j
    BY <1>2, <1>7
  <2>2. \A i, j \in 1 .. Len(r) : i < j => r[i] < r[j]
    BY <1>9, <1>10, <2>1
  <2> QED
    BY <1>9, <1>10, <2>2 DEF Rising
<1>13. Rising(c)
  <2> SUFFICES ASSUME NEW i \in 1 .. Len(c), NEW j \in 1 .. Len(c), i < j
               PROVE  c[i] < c[j]
    BY DEF Rising
  <2>1. CASE j \in 1 .. Len(b)
    <3>1. i \in 1 .. Len(b) /\ ~(i - Len(b) \in 1 .. n) /\ ~(j - Len(b) \in 1 .. n)
      BY <1>5, <1>7, <2>1
    <3>2. c[i] = b[i] /\ c[j] = b[j]
      BY <1>11, <3>1
    <3> QED
      BY <1>9, <2>1, <3>1, <3>2
  <2>2. CASE i \in 1 .. Len(b) /\ ~(j \in 1 .. Len(b))
    <3>1. ~(i - Len(b) \in 1 .. n)
      BY <1>7, <2>2
    <3>2. c[i] = b[i] /\ j - Len(b) \in 1 .. Len(queue) /\ c[j] = queue[j - Len(b)]
      BY <1>11, <2>2, <3>1
    <3> QED
      BY <1>9, <2>2, <3>2
  <2>3. CASE ~(i \in 1 .. Len(b))
    <3>1. ~(j \in 1 .. Len(b)) /\ i - Len(b) < j - Len(b)
      BY <1>5, <1>7, <2>3
    <3>2. /\ c[i] = queue[i - Len(b)] /\ i - Len(b) \in 1 .. Len(queue)
          /\ c[j] = queue[j - Len(b)] /\ j - Len(b) \in 1 .. Len(queue)
      BY <1>11, <2>3, <3>1
    <3> QED
      BY <1>9, <3>1, <3>2
  <2> QED
    BY <2>1, <2>2, <2>3
<1>14. ASSUME NEW i \in 1 .. Len(c)
       PROVE  /\ c[i] <= offered /\ last < c[i]
              /\ \A j \in 1 .. Len(r) : c[i] < r[j]
  <2>1. CASE i \in 1 .. Len(b) /\ c[i] = b[i]
    BY <1>9, <1>10, <2>1
  <2>2. CASE /\ i - Len(b) \in 1 .. n /\ i - Len(b) \in 1 .. Len(queue)
             /\ c[i] = queue[i - Len(b)]
    <3>1. \A j \in 1 .. Len(r) : i - Len(b) < n + j
      BY <1>2, <1>7, <2>2
    <3> QED
      BY <1>9, <1>10, <2>2, <3>1
  <2> QED
    BY <1>11, <2>1, <2>2
<1>15. Order'
  <2>1. ASSUME NEW v \in Workers, v # w
        PROVE  BatchInOrder(batch[v], off[v], r, last)
    <3>1. BatchInOrder(batch[v], off[v], queue, last)
      BY DEF InOrder, Order
    <3> QED
      BY <1>10, <3>1 DEF BatchInOrder
  <2>2. BatchInOrder(c, off[w], r, last)
    BY <1>13, <1>14 DEF BatchInOrder
  <2>3. \A v \in Workers : BatchInOrder(batch'[v], off[v], r, last)
    BY <1>8, <2>1, <2>2
  <2>4. \A v \in Workers : BatchInOrder(batch[v], off[v], queue, last)'
    BY <1>6, <2>3 DEF BatchInOrder, Rising
  <2> QED
    BY <1>6, <1>12, <2>4 DEF InOrder, Order, Rising
<1>16. Accounted' /\ queuedBytes' \in Nat
  <2>1. queuedBytes = FrameLengths(queue) /\ queuedBytes <= MaxQueueBytes
    BY DEF InOrder, Accounted, QueueExact
  <2>2. queuedBytes' = FrameLengths(r) /\ queuedBytes' <= MaxQueueBytes /\ queuedBytes' \in Nat
    BY <1>3, <1>6, <2>1 DEF InOrder
  <2>3. \A i \in 1 .. Len(r) : FrameBytes[r[i]] <= MaxQueueBytes
    BY <1>10 DEF InOrder, Accounted
  <2> QED
    BY <1>6, <2>2, <2>3 DEF Accounted, QueueExact, FrameLengths
<1> QED
  BY <1>2, <1>6, <1>8, <1>15, <1>16 DEF InOrder

\* A batch that is dropped leaves the others in order.
LEMMA DropInOrder ==
    ASSUME InOrder, NEW w \in Workers,
           batch' = [batch EXCEPT ![w] = <<>>], off' = [off EXCEPT ![w] = 0],
           UNCHANGED <<producer, last>>
    PROVE  InOrder'
<1>1. <<>> \in Rows /\ Len(<<>>) = 0
  BY EmptySeq DEF Rows
<1>2. batch' \in [Workers -> Rows] /\ off' \in [Workers -> Nat]
  BY <1>1 DEF InOrder
<1>3. \A v \in Workers : /\ batch'[v] = IF v = w THEN <<>> ELSE batch[v]
                         /\ off'[v] = IF v = w THEN 0 ELSE off[v]
  BY DEF InOrder
<1>4. UNCHANGED <<queue, queuedBytes, offered, last>>
  BY DEF producer
<1>5. Order'
  <2>1. BatchInOrder(<<>>, 0, queue, last)
    BY <1>1 DEF BatchInOrder, Rising
  <2>2. \A v \in Workers : BatchInOrder(batch'[v], off'[v], queue, last)
    BY <1>3, <2>1 DEF InOrder, Order
  <2>3. \A v \in Workers : BatchInOrder(batch[v], off[v], queue, last)'
    BY <1>4, <2>2 DEF BatchInOrder, Rising
  <2> QED
    BY <1>4, <2>3 DEF InOrder, Order, Rising
<1> QED
  BY <1>2, <1>4, <1>5 DEF InOrder, Accounted, QueueExact, FrameLengths

LEMMA StandInOrder ==
    ASSUME InOrder, UNCHANGED <<producer, batch, off, last>>
    PROVE  InOrder'
<1>1. UNCHANGED <<queue, queuedBytes, offered, batch, off, last>>
  BY DEF producer
<1>2. Order'
  BY <1>1 DEF InOrder, Order, Rising, BatchInOrder
<1> QED
  BY <1>1, <1>2 DEF InOrder, Accounted, QueueExact, FrameLengths

\* A byte is the next of the frame that was begun last, or the first of a later one.
LEMMA SendInOrder ==
    ASSUME InOrder, NEW w \in Workers, SendByte(w),
           \A v \in Workers : v # w => batch[v] = <<>> /\ off[v] = 0
    PROVE  InOrder' /\ (last' # last => last' > last)
<1> DEFINE b == batch[w]
           f == Head(b)
           ends == off[w] + 1 = FrameBytes[f]
           c == IF ends THEN Tail(b) ELSE b
           o == IF ends THEN 0 ELSE off[w] + 1
<1>1. /\ b # <<>> /\ batch' = [batch EXCEPT ![w] = c] /\ off' = [off EXCEPT ![w] = o]
      /\ last' = (IF off[w] = 0 THEN f ELSE last)
      /\ UNCHANGED <<queue, queuedBytes, offered>>
  BY DEF SendByte, producer
<1>2. b \in Rows /\ off[w] \in Nat /\ BatchInOrder(b, off[w], queue, last)
  BY DEF InOrder, Order
<1>3. Len(b) \in Nat /\ Len(b) >= 1 /\ f = b[1] /\ \A i \in 1 .. Len(b) : b[i] \in 1 .. Frames
  BY <1>1, <1>2, RowLen
<1>4. /\ Tail(b) \in Rows /\ Len(Tail(b)) = Len(b) - 1
      /\ \A i \in 1 .. Len(Tail(b)) : Tail(b)[i] = b[i + 1]
  BY <1>1, <1>2, HeadTailProperties DEF Rows
<1>5. o \in Nat /\ c \in Rows
  BY <1>2, <1>4
<1>6. last' = f /\ f \in 1 .. Frames /\ f <= offered /\ (off[w] = 0 => last < f)
  <2>1. 1 \in 1 .. Len(b)
    BY <1>3
  <2>2. b[1] <= offered /\ (off[w] = 0 => last < b[1]) /\ (off[w] # 0 => last = f)
    BY <1>2, <2>1 DEF BatchInOrder
  <2> QED
    BY <1>1, <1>3, <2>1, <2>2
<1>7. \A j \in 1 .. Len(queue) : f < queue[j]
  <2>1. 1 \in 1 .. Len(b)
    BY <1>3
  <2> QED
    BY <1>2, <1>3, <2>1 DEF BatchInOrder
<1>8. BatchInOrder(c, o, queue, f)
  <2>1. CASE ends
    <3>1. \A i \in 1 .. Len(Tail(b)) : i + 1 \in 1 .. Len(b) /\ 1 \in 1 .. Len(b) /\ 1 < i + 1
      BY <1>3, <1>4
    <3>2. \A i, j \in 1 .. Len(Tail(b)) : i < j => i + 1 < j + 1
      BY <1>3, <1>4
    <3>3. Rising(Tail(b))
      BY <1>2, <1>4, <3>1, <3>2 DEF BatchInOrder, Rising
    <3>4. \A i \in 1 .. Len(Tail(b)) : /\ Tail(b)[i] <= offered /\ f < Tail(b)[i]
                                       /\ \A j \in 1 .. Len(queue) : Tail(b)[i] < queue[j]
      BY <1>2, <1>3, <1>4, <3>1 DEF BatchInOrder, Rising
    <3> HIDE DEF f
    <3> QED
      BY <2>1, <3>3, <3>4 DEF BatchInOrder
  <2>2. CASE ~ends
    <3>1. o # 0 /\ c = b
      BY <1>2, <2>2
    <3>2. \A i \in 1 .. Len(b) : 1 \in 1 .. Len(b) /\ (i = 1 \/ 1 < i)
      BY <1>3
    <3>3. \A i \in 1 .. Len(b) : f <= b[i]
      BY <1>2, <1>3, <3>2 DEF BatchInOrder, Rising
    <3> QED
      BY <1>2, <3>1, <3>3 DEF BatchInOrder
  <2> QED
    BY <2>1, <2>2
<1> HIDE DEF c, o, f
<1>9. \A v \in Workers : /\ batch'[v] = IF v = w THEN c ELSE <<>>
                         /\ off'[v] = IF v = w THEN o ELSE 0
  BY <1>1 DEF InOrder
<1>10. Order'
  <2>1. BatchInOrder(<<>>, 0, queue, f)
    BY EmptySeq DEF BatchInOrder, Rising
  <2>2. \A v \in Workers : BatchInOrder(batch'[v], off'[v], queue, f)
    BY <1>8, <1>9, <2>1
  <2>3. \A v \in Workers : BatchInOrder(batch[v], off[v], queue, last)'
    BY <1>1, <1>6, <2>2 DEF BatchInOrder, Rising
  <2> QED
    BY <1>1, <1>6, <1>7, <2>3 DEF InOrder, Order, Rising
<1>11. batch' \in [Workers -> Rows] /\ off' \in [Workers -> Nat]
  BY <1>1, <1>5 DEF InOrder
<1>12. InOrder'
  BY <1>1, <1>6, <1>10, <1>11 DEF InOrder, Accounted, QueueExact, FrameLengths
<1>13. last' # last => last' > last
  BY <1>1, <1>6 DEF InOrder
<1> QED
  BY <1>12, <1>13

-----------------------------------------------------------------------------
(* The steps, as far as threads and sockets go.                            *)

LEMMA LifecycleStands ==
    ASSUME Lifecycle, UNCHANGED <<thread, worker, sock, wire>>
    PROVE  Lifecycle'
<1>1. UNCHANGED <<thread, wpc, wsock, batch, off, sock, open, partial, torn>>
  BY DEF worker, wire
<1> QED
  BY <1>1 DEF Lifecycle, SenderShapes, OneThread, Holdings, Streams, Alive

\* start() makes a thread when no other is alive, so that no socket is open.
LEMMA StartKept ==
    ASSUME SenderInv, NEW c \in Callers, Start(c)
    PROVE  Lifecycle'
<1> DEFINE n == thread + 1
<1>1. /\ thread < MaxStarts /\ ~Alive(thread) /\ thread' = n
      /\ wpc' = [wpc EXCEPT ![n] = "loop"]
      /\ UNCHANGED <<wsock, batch, off, sock, open, partial, torn>>
  BY DEF Start, wire
<1>2. n \in Workers /\ thread \in 0 .. MaxStarts /\ n \in 0 .. MaxStarts
  BY <1>1 DEF SenderInv, Lifecycle, SenderShapes
<1>3. n = thread + 1
  OBVIOUS
<1> HIDE DEF n
<1>4. \A w \in Workers : /\ wpc'[w] = IF w = n THEN "loop" ELSE wpc[w]
                         /\ wpc[w] \in {"unborn", "dead"}
                         /\ w > thread <=> wpc[w] = "unborn"
  <2>1. \A w \in Workers : wpc'[w] = IF w = n THEN "loop" ELSE wpc[w]
    BY <1>1 DEF SenderInv, Lifecycle, SenderShapes
  <2>2. \A w \in Workers : w = thread => wpc[w] \in {"unborn", "dead"}
    BY <1>1 DEF Alive
  <2>3. \A w \in Workers : w > thread \/ w < thread \/ w = thread
    BY <1>2
  <2> QED
    BY <2>1, <2>2, <2>3 DEF SenderInv, Lifecycle, OneThread
<1>5. OneThread'
  <2>1. \A w \in Workers : w > n <=> w > thread /\ w # n
    BY <1>2, <1>3
  <2>2. \A w \in Workers : w < n => ~(w > thread) /\ w # n
    BY <1>2, <1>3
  <2> QED
    BY <1>1, <1>4, <2>1, <2>2 DEF OneThread
<1>6. sock = NoSocket /\ open = {}
  BY <1>4 DEF SenderInv, Lifecycle, Streams, SenderShapes, Alive
<1>7. Holdings'
  <2>1. batch[n] = <<>> /\ off[n] = 0
    BY <1>2, <1>4 DEF SenderInv, Lifecycle, Holdings
  <2> QED
    BY <1>1, <1>4, <1>6, <2>1 DEF SenderInv, Lifecycle, Holdings
<1>8. Streams'
  BY <1>1, <1>6 DEF SenderInv, Lifecycle, Streams
<1>9. SenderShapes'
  BY <1>1, <1>2 DEF SenderInv, Lifecycle, SenderShapes, Places
<1> QED
  BY <1>5, <1>7, <1>8, <1>9 DEF Lifecycle

\* stop() closes the current socket, whatever the thread is doing.
LEMMA StopClosesKept ==
    ASSUME SenderInv, NEW c \in Callers, StopCloses(c)
    PROVE  Lifecycle'
<1>1. /\ UNCHANGED <<thread, wpc, wsock, batch, off, partial, torn>>
      /\ sock' = NoSocket /\ open' = open \ {sock}
  BY DEF StopCloses, CloseCurrent, worker
<1>2. SenderShapes' /\ OneThread'
  BY <1>1 DEF SenderInv, Lifecycle, SenderShapes, OneThread, MaybeSocket
<1>3. Holdings'
  BY <1>1 DEF SenderInv, Lifecycle, Holdings
<1>4. Streams'
  BY <1>1 DEF SenderInv, Lifecycle, Streams, Alive
<1> QED
  BY <1>2, <1>3, <1>4 DEF Lifecycle

\* A thread that takes a step is the only one alive.
LEMMA Alone ==
    ASSUME Lifecycle, NEW w \in Workers, wpc[w] \in Places,
           NEW l \in Places \cup {"dead"}, To(w, l), UNCHANGED thread
    PROVE  /\ wpc' \in [Workers -> Places \cup {"unborn", "dead"}] /\ OneThread'
           /\ \A v \in Workers : /\ wpc'[v] = IF v = w THEN l ELSE wpc[v]
                                 /\ v # w => wpc[v] \in {"unborn", "dead"}
                                 /\ Alive(v) <=> v = w
<1>1. wpc' = [wpc EXCEPT ![w] = l] /\ thread \in 0 .. MaxStarts
  BY DEF To, Lifecycle, SenderShapes
<1>2. \A v \in Workers : wpc'[v] = IF v = w THEN l ELSE wpc[v]
  BY <1>1 DEF Lifecycle, SenderShapes
<1>3. wpc[w] # "unborn" /\ wpc[w] # "dead" /\ l # "unborn"
  BY DEF Places
<1>4. w = thread
  <2>1. ~(w > thread) /\ ~(w < thread)
    BY <1>3 DEF Lifecycle, OneThread
  <2> QED
    BY <1>1, <2>1
<1>5. \A v \in Workers : v # w => v > thread \/ v < thread
  BY <1>1, <1>4
<1>6. \A v \in Workers : v # w => wpc[v] \in {"unborn", "dead"}
  BY <1>5 DEF Lifecycle, OneThread
<1>7. OneThread'
  <2>1. ~(w < thread)
    BY <1>1, <1>4
  <2> QED
    BY <1>2, <1>3, <2>1 DEF Lifecycle, OneThread
<1>8. \A v \in Workers : v # 0
  OBVIOUS
<1> QED
  BY <1>1, <1>2, <1>3, <1>6, <1>7, <1>8 DEF Lifecycle, SenderShapes, Alive

\* What a thread that takes a step finds: its own place, and that every open
\* socket is its own.
LEMMA Finds ==
    ASSUME Lifecycle, NEW w \in Workers, wpc[w] \in Places
    PROVE  /\ \A s \in open : /\ s \in Sockets /\ partial[s] = off[w]
                              /\ s = sock \/ (wpc[w] = "adopt" /\ wsock[w] = s)
           /\ \A v \in Workers : v # w => /\ wpc[v] \in {"unborn", "dead"}
                                          /\ batch[v] = <<>> /\ off[v] = 0
           /\ sock \in MaybeSocket /\ wsock[w] \in MaybeSocket /\ torn = {}
           /\ thread = w
<1>1. thread = w /\ \A v \in Workers : v # w => wpc[v] \in {"unborn", "dead"}
  <2>1. wpc[w] # "unborn" /\ wpc[w] # "dead" /\ thread \in 0 .. MaxStarts
    BY DEF Places, Lifecycle, SenderShapes
  <2>2. ~(w > thread) /\ ~(w < thread)
    BY <2>1 DEF Lifecycle, OneThread
  <2>3. w = thread
    BY <2>1, <2>2
  <2>4. \A v \in Workers : v # w => v > thread \/ v < thread
    BY <2>1, <2>3
  <2> QED
    BY <2>3, <2>4 DEF Lifecycle, OneThread
<1>2. \A v \in Workers : v # w => batch[v] = <<>> /\ off[v] = 0
  BY <1>1 DEF Lifecycle, Holdings
<1>3. Alive(w)
  BY DEF Alive, Places
<1>4. \A s \in open : /\ s \in Sockets /\ partial[s] = off[w]
                      /\ s = sock \/ (wpc[w] = "adopt" /\ wsock[w] = s)
  BY <1>1, <1>3 DEF Lifecycle, Streams, SenderShapes
<1> QED
  BY <1>1, <1>2, <1>4 DEF Lifecycle, SenderShapes, Streams

\* What a thread has to leave behind.
LEMMA Leaves ==
    ASSUME Lifecycle, NEW w \in Workers, wpc[w] \in Places,
           NEW l \in Places \cup {"dead"}, To(w, l), UNCHANGED thread,
           \A v \in Workers : v # w => batch'[v] = batch[v] /\ off'[v] = off[v],
           sock' \in MaybeSocket, wsock' \in [Workers -> MaybeSocket],
           open' \subseteq Sockets, partial' \in [Sockets -> Nat], torn' = {},
           l \notin {"flush", "send"} => batch'[w] = <<>>,
           l # "send" \/ batch'[w] = <<>> => off'[w] = 0,
           l \in {"connect", "adopt"} => sock' = NoSocket,
           l \in {"drain", "dequeue", "flush", "send"} => sock' \in {NoSocket, wsock'[w]},
           l = "dead" => sock' = NoSocket,
           \A s \in open' : /\ s = sock' \/ (l = "adopt" /\ wsock'[w] = s)
                            /\ partial'[s] = off'[w]
    PROVE  Lifecycle'
<1>1. /\ wpc' \in [Workers -> Places \cup {"unborn", "dead"}] /\ OneThread'
      /\ \A v \in Workers : /\ wpc'[v] = IF v = w THEN l ELSE wpc[v]
                            /\ v # w => wpc[v] \in {"unborn", "dead"}
                            /\ Alive(v) <=> v = w
  BY Alone
<1>2. SenderShapes'
  BY <1>1 DEF Lifecycle, SenderShapes
<1>3. \A v \in Workers : v # w => batch'[v] = <<>> /\ off'[v] = 0
  BY <1>1 DEF Lifecycle, Holdings
<1>4. Holdings'
  BY <1>1, <1>3 DEF Holdings
<1>5. Streams'
  <2>1. \A v \in Workers : Alive(v)' => v = w
    BY <1>1 DEF Alive
  <2>2. l # "dead" => Alive(w)'
    BY <1>1 DEF Alive, Places
  <2> QED
    BY <1>1, <2>1, <2>2 DEF Streams
<1> QED
  BY <1>1, <1>2, <1>4, <1>5 DEF Lifecycle

\* The event, or an error, decides where a thread goes, and touches nothing.
LEMMA LoopKept ==
    ASSUME SenderInv, NEW w \in Workers,
           Loop(w) \/ SendDone(w) \/ SocketRaises(w)
    PROVE  SenderInv'
<1>1. PICK l \in {"loop", "ensure", "finally"} : To(w, l)
  BY DEF Loop, SendDone, SocketRaises
<1>2. /\ wpc[w] \in {"loop", "connect"} \/ (wpc[w] = "send" /\ batch[w] = <<>>)
      /\ UNCHANGED <<thread, producer, wsock, batch, off, sock, open, partial, torn, last>>
  BY DEF Loop, SendDone, SocketRaises, control, wire
<1>3. wpc[w] \in Places /\ batch[w] = <<>> /\ off[w] = 0 /\ wpc[w] # "adopt"
  BY <1>2 DEF SenderInv, Lifecycle, Holdings, Places
<1>4. InOrder'
  BY <1>2, StandInOrder DEF SenderInv
<1>5. l \in Places /\ l \notin {"flush", "send", "connect", "adopt", "drain", "dequeue", "dead"}
  BY DEF Places
<1>6. /\ sock \in MaybeSocket /\ wsock \in [Workers -> MaybeSocket] /\ torn = {}
      /\ open \subseteq Sockets /\ partial \in [Sockets -> Nat]
  BY DEF SenderInv, Lifecycle, SenderShapes, Streams
<1>7. \A s \in open : s = sock /\ partial[s] = off[w]
  BY <1>3, Finds DEF SenderInv
<1>8. Lifecycle'
  BY <1>1, <1>2, <1>3, <1>5, <1>6, <1>7, Leaves DEF SenderInv
<1> QED
  BY <1>4, <1>8 DEF SenderInv

\* The current socket, if there is one, becomes the thread's.
LEMMA EnsureConnectedKept ==
    ASSUME SenderInv, NEW w \in Workers, EnsureConnected(w)
    PROVE  SenderInv'
<1> DEFINE l == IF sock = NoSocket THEN "connect" ELSE "drain"
<1>1. /\ To(w, l) /\ wpc[w] = "ensure" /\ wsock' = [wsock EXCEPT ![w] = sock]
      /\ UNCHANGED <<thread, producer, batch, off, sock, open, partial, torn, last>>
  BY DEF EnsureConnected, control, wire
<1>2. l \in Places /\ (l = "connect" => sock = NoSocket) /\ l \in {"connect", "drain"}
  BY DEF Places
<1> HIDE DEF l
<1>3. wpc[w] \in Places /\ batch[w] = <<>> /\ off[w] = 0
  BY <1>1 DEF SenderInv, Lifecycle, Holdings, Places
<1>4. InOrder'
  BY <1>1, StandInOrder DEF SenderInv
<1>5. wsock' \in [Workers -> MaybeSocket] /\ wsock'[w] = sock
  BY <1>1 DEF SenderInv, Lifecycle, SenderShapes
<1>6. Lifecycle'
  BY <1>1, <1>2, <1>3, <1>5, Finds, Leaves DEF SenderInv, Lifecycle, SenderShapes
<1> QED
  BY <1>4, <1>6 DEF SenderInv

\* A new socket is nobody else's, and its stream is empty.
LEMMA ConnectsKept ==
    ASSUME SenderInv, NEW w \in Workers, SocketConnects(w)
    PROVE  SenderInv'
<1>1. PICK s \in Unused : /\ wsock' = [wsock EXCEPT ![w] = s]
                          /\ open' = open \cup {s}
                          /\ partial' = [partial EXCEPT ![s] = 0]
                          /\ torn' = torn \ {s}
  BY DEF SocketConnects
<1>2. /\ To(w, "adopt") /\ wpc[w] = "connect"
      /\ UNCHANGED <<thread, producer, batch, off, sock, last>>
  BY DEF SocketConnects, control
<1>3. s \in Sockets /\ "adopt" \in Places
  BY DEF Unused, Places
<1>4. wpc[w] \in Places /\ batch[w] = <<>> /\ off[w] = 0 /\ sock = NoSocket
  BY <1>2 DEF SenderInv, Lifecycle, Holdings, Places
<1>5. InOrder'
  BY <1>2, StandInOrder DEF SenderInv
<1>6. open = {} /\ torn = {}
  <2>1. \A t \in open : t = sock /\ t \in Sockets
    BY <1>2, <1>4, Finds DEF SenderInv
  <2> QED
    BY <1>4, <2>1, Finds DEF SenderInv
<1>7. /\ wsock' \in [Workers -> MaybeSocket] /\ wsock'[w] = s /\ open' = {s}
      /\ partial' \in [Sockets -> Nat] /\ partial'[s] = 0 /\ torn' = {}
  BY <1>1, <1>3, <1>6 DEF SenderInv, Lifecycle, SenderShapes, MaybeSocket
<1>8. Lifecycle'
  BY <1>2, <1>3, <1>4, <1>7, Leaves DEF SenderInv, Lifecycle, SenderShapes
<1> QED
  BY <1>5, <1>8 DEF SenderInv

\* No current socket is left behind.
LEMMA ClosesKept ==
    ASSUME SenderInv, NEW w \in Workers, SocketFails(w) \/ Finally(w)
    PROVE  SenderInv'
<1>1. PICK l \in {"loop", "dead"} : To(w, l)
  BY DEF SocketFails, Finally
<1>2. /\ wpc[w] \in {"connect", "finally"} /\ wpc[w] \in Places
      /\ sock' = NoSocket /\ open' = open \ {sock}
      /\ UNCHANGED <<thread, producer, batch, off, partial, torn, last>>
  BY DEF SocketFails, Finally, CloseCurrent, control, Places
<1>3. wsock' \in [Workers -> MaybeSocket]
  <2>1. wsock' = wsock \/ wsock' = [wsock EXCEPT ![w] = NoSocket]
    BY DEF SocketFails, Finally
  <2> QED
    BY <2>1 DEF SenderInv, Lifecycle, SenderShapes, MaybeSocket
<1>4. batch[w] = <<>> /\ off[w] = 0
  BY <1>2 DEF SenderInv, Lifecycle, Holdings
<1>5. InOrder'
  BY <1>2, StandInOrder DEF SenderInv
<1>6. open' = {} /\ torn = {}
  BY <1>2, Finds DEF SenderInv
<1>7. l \in Places \cup {"dead"} /\ NoSocket \in MaybeSocket
  BY DEF Places, MaybeSocket
<1>8. Lifecycle'
  BY <1>1, <1>2, <1>3, <1>4, <1>6, <1>7, Leaves DEF SenderInv, Lifecycle, SenderShapes
<1> QED
  BY <1>5, <1>8 DEF SenderInv

\* The new socket becomes the current one, or is closed.
LEMMA AdoptKept ==
    ASSUME SenderInv, NEW w \in Workers, Adopt(w)
    PROVE  SenderInv'
<1>1. /\ wpc[w] = "adopt"
      /\ UNCHANGED <<thread, producer, batch, off, partial, torn, last>>
  BY DEF Adopt, control
<1>2. wpc[w] \in Places /\ batch[w] = <<>> /\ off[w] = 0 /\ sock = NoSocket
  BY <1>1 DEF SenderInv, Lifecycle, Holdings, Places
<1>3. InOrder'
  BY <1>1, StandInOrder DEF SenderInv
<1>4. /\ \A s \in open : s = wsock[w] /\ partial[s] = 0
      /\ torn = {} /\ wsock[w] \in MaybeSocket
  BY <1>2, Finds DEF SenderInv, MaybeSocket
<1>5. "loop" \in Places /\ "drain" \in Places /\ NoSocket \in MaybeSocket
  BY DEF Places, MaybeSocket
<1>6. CASE stopEvent
  <2>1. /\ open' = open \ {wsock[w]} /\ wsock' = [wsock EXCEPT ![w] = NoSocket]
        /\ To(w, "loop") /\ sock' = sock
    BY <1>6 DEF Adopt
  <2>2. open' = {} /\ wsock' \in [Workers -> MaybeSocket]
    BY <1>4, <1>5, <2>1 DEF SenderInv, Lifecycle, SenderShapes
  <2>3. Lifecycle'
    BY <1>1, <1>2, <1>4, <1>5, <2>1, <2>2, Leaves DEF SenderInv, Lifecycle, SenderShapes
  <2> QED
    BY <1>3, <2>3 DEF SenderInv
<1>7. CASE ~stopEvent
  <2>1. sock' = wsock[w] /\ To(w, "drain") /\ UNCHANGED <<open, wsock>>
    BY <1>7 DEF Adopt
  <2>2. Lifecycle'
    BY <1>1, <1>2, <1>4, <1>5, <2>1, Leaves DEF SenderInv, Lifecycle, SenderShapes
  <2> QED
    BY <1>3, <2>2 DEF SenderInv
<1> QED
  BY <1>6, <1>7

\* Frames that a thread takes from the queue join its batch.
LEMMA TakesKept ==
    ASSUME SenderInv, NEW w \in Workers, wpc[w] \in {"drain", "dequeue", "flush"},
           NEW n \in 0 .. Len(queue), NEW frames, frames = SubSeq(queue, 1, n),
           Take(frames), batch' = [batch EXCEPT ![w] = batch[w] \o frames],
           NEW l \in {"loop", "dequeue", "flush", "send"}, To(w, l),
           l \in {"loop", "dequeue"} => batch'[w] = <<>>,
           UNCHANGED <<offered, control, wsock, off, sock, wire>>
    PROVE  SenderInv'
<1>1. wpc[w] \in Places /\ off[w] = 0 /\ sock \in {NoSocket, wsock[w]} /\ wpc[w] # "adopt"
  BY DEF SenderInv, Lifecycle, Holdings, Places
<1>2. UNCHANGED <<thread, open, partial, torn, last>>
  BY DEF control, wire
<1>3. Len(frames) = n
  BY Prefix DEF SenderInv, InOrder
<1>4. /\ queue' = SubSeq(queue, n + 1, Len(queue))
      /\ queuedBytes' = queuedBytes - FrameLengths(SubSeq(queue, 1, n))
  BY <1>3 DEF Take
<1>5. InOrder'
  BY <1>1, <1>2, <1>4, MoveInOrder DEF SenderInv
<1>6. \A v \in Workers : v # w => batch'[v] = batch[v]
  BY DEF SenderInv, InOrder
<1>7. l \in Places /\ l \notin {"connect", "adopt", "dead"}
  BY DEF Places
<1>8. /\ \A s \in open : s = sock /\ partial[s] = off[w]
      /\ torn = {}
  BY <1>1, Finds DEF SenderInv
<1>9. Lifecycle /\ SenderShapes
  BY DEF SenderInv, Lifecycle
<1>10. /\ \A v \in Workers : v # w => batch'[v] = batch[v] /\ off'[v] = off[v]
       /\ sock' \in MaybeSocket /\ wsock' \in [Workers -> MaybeSocket]
       /\ open' \subseteq Sockets /\ partial' \in [Sockets -> Nat] /\ torn' = {}
       /\ off'[w] = 0 /\ sock' \in {NoSocket, wsock'[w]}
       /\ \A s \in open' : s = sock' /\ partial'[s] = off'[w]
  BY <1>1, <1>2, <1>6, <1>8, <1>9 DEF SenderShapes
<1>11. l \notin {"flush", "send"} => batch'[w] = <<>>
  OBVIOUS
<1>12. Lifecycle'
  BY <1>1, <1>2, <1>7, <1>9, <1>10, <1>11, Leaves
<1> QED
  BY <1>5, <1>12 DEF SenderInv

\* The first frames of a batch.
LEMMA DrainKept ==
    ASSUME SenderInv, NEW w \in Workers, Drain(w) \/ TryDequeue(w)
    PROVE  SenderInv'
<1>1. PICK n \in 0 .. Len(queue), l \in {"loop", "dequeue", "flush"} :
         LET frames == SubSeq(queue, 1, n) IN
         /\ Take(frames) /\ batch' = [batch EXCEPT ![w] = frames] /\ To(w, l)
         /\ l \in {"loop", "dequeue"} => frames = <<>>
  <2>1. CASE Drain(w)
    <3>1. PICK n \in 0 .. Len(queue) : Drained(MaxBatchBytes) = SubSeq(queue, 1, n)
      BY DrainedPrefix DEF SenderInv, InOrder
    <3> QED
      BY <2>1, <3>1 DEF Drain
  <2>2. CASE TryDequeue(w)
    <3> DEFINE n == IF queue = <<>> THEN 0 ELSE 1
    <3>1. n \in 0 .. Len(queue)
      BY RowLen DEF SenderInv, InOrder
    <3> HIDE DEF n
    <3>2. LET frames == SubSeq(queue, 1, n) IN
          /\ Take(frames) /\ batch' = [batch EXCEPT ![w] = frames]
          /\ To(w, IF frames = <<>> THEN "loop" ELSE "flush")
      BY <2>2 DEF TryDequeue, n
    <3> QED
      BY <3>1, <3>2
  <2> QED
    BY <2>1, <2>2
<1> DEFINE frames == SubSeq(queue, 1, n)
<1>2. /\ wpc[w] \in {"drain", "dequeue"}
      /\ UNCHANGED <<offered, control, wsock, off, sock, wire>>
  BY DEF Drain, TryDequeue
<1>3. frames \in Seq(1 .. Frames)
  BY Prefix DEF SenderInv, InOrder, Rows
<1>4. batch[w] \o frames = frames
  <2>1. batch[w] = <<>>
    BY <1>2 DEF SenderInv, Lifecycle, Holdings
  <2> HIDE DEF frames
  <2> QED
    BY <1>3, <2>1, ConcatEmptySeq
<1>5. batch' = [batch EXCEPT ![w] = batch[w] \o frames] /\ batch'[w] = frames
  BY <1>1, <1>4 DEF SenderInv, InOrder
<1>6. Take(frames) /\ To(w, l) /\ (l \in {"loop", "dequeue"} => frames = <<>>)
  BY <1>1
<1> HIDE DEF frames
<1>7. frames = SubSeq(queue, 1, n)
  BY DEF frames
<1> QED
  BY <1>2, <1>5, <1>6, <1>7, TakesKept

\* More frames join the batch, or the event ends the thread and the batch.
LEMMA FlushWaitKept ==
    ASSUME SenderInv, NEW w \in Workers, FlushWait(w)
    PROVE  SenderInv'
<1>1. /\ wpc[w] = "flush" /\ wpc[w] \in Places
      /\ UNCHANGED <<offered, control, wsock, off, sock, wire>>
      /\ UNCHANGED <<thread, open, partial, torn, last>>
  BY DEF FlushWait, control, wire, Places
<1>2. off[w] = 0
  BY <1>1 DEF SenderInv, Lifecycle, Holdings
<1>3. CASE stopEvent
  <2>1. /\ To(w, "finally") /\ batch' = [batch EXCEPT ![w] = <<>>]
        /\ UNCHANGED <<queue, queuedBytes>>
    BY <1>3 DEF FlushWait
  <2>2. off' = [off EXCEPT ![w] = 0]
    BY <1>1, <1>2 DEF SenderInv, InOrder
  <2>3. InOrder'
    BY <1>1, <2>1, <2>2, DropInOrder DEF SenderInv, producer
  <2>4. batch'[w] = <<>> /\ \A v \in Workers : v # w => batch'[v] = batch[v]
    BY <2>1 DEF SenderInv, InOrder
  <2>5. "finally" \in Places
    BY DEF Places
  <2>6. /\ \A s \in open : s = sock /\ partial[s] = off[w]
        /\ torn = {}
    BY <1>1, Finds DEF SenderInv
  <2>7. Lifecycle /\ SenderShapes
    BY DEF SenderInv, Lifecycle
  <2>8. Lifecycle'
    BY <1>1, <1>2, <2>1, <2>4, <2>5, <2>6, <2>7, Leaves DEF SenderShapes
  <2> QED
    BY <2>3, <2>8 DEF SenderInv
<1>4. CASE ~stopEvent
  <2> DEFINE room == MaxBatchBytes - FrameLengths(batch[w])
             more == IF room > 0 THEN Drained(room) ELSE <<>>
  <2>1. Take(more) /\ batch' = [batch EXCEPT ![w] = batch[w] \o more] /\ To(w, "send")
    BY <1>4 DEF FlushWait
  <2>2. PICK n \in 0 .. Len(queue) : more = SubSeq(queue, 1, n)
    <3>1. Len(queue) \in Nat
      BY RowLen DEF SenderInv, InOrder
    <3>2. SubSeq(queue, 1, 0) = <<>> /\ 0 \in 0 .. Len(queue)
      BY <3>1, SubSeqEmpty
    <3>3. \E n \in 0 .. Len(queue) : Drained(room) = SubSeq(queue, 1, n)
      BY DrainedPrefix DEF SenderInv, InOrder
    <3> QED
      BY <3>2, <3>3
  <2> HIDE DEF more
  <2> QED
    BY <1>1, <2>1, <2>2, TakesKept
<1> QED
  BY <1>3, <1>4

\* A stream never takes a frame's first byte inside another frame.
LEMMA SendByteKept ==
    ASSUME SenderInv, NEW w \in Workers, SendByte(w)
    PROVE  SenderInv' /\ (last' # last => last' > last)
<1> DEFINE s == wsock[w]
           f == Head(batch[w])
           ends == off[w] + 1 = FrameBytes[f]
           o == IF ends THEN 0 ELSE off[w] + 1
<1>1. /\ wpc[w] = "send" /\ wpc[w] \in Places /\ batch[w] # <<>> /\ s \in open
      /\ off' = [off EXCEPT ![w] = o]
      /\ batch' = [batch EXCEPT ![w] = IF ends THEN Tail(@) ELSE @]
      /\ partial' = [partial EXCEPT ![s] = o]
      /\ torn' = (IF off[w] = 0 /\ partial[s] # 0 THEN torn \cup {s} ELSE torn)
      /\ UNCHANGED <<thread, wpc, wsock, sock, open>>
  BY DEF SendByte, control, Places
<1>2. /\ \A t \in open : t \in Sockets /\ partial[t] = off[w] /\ t = sock
      /\ \A v \in Workers : v # w => batch[v] = <<>> /\ off[v] = 0
      /\ torn = {}
  BY <1>1, Finds DEF SenderInv
<1>3. InOrder' /\ (last' # last => last' > last)
  BY <1>2, SendInOrder DEF SenderInv
<1>4. o \in Nat
  BY DEF SenderInv, InOrder
<1>5. ends => o = 0
  OBVIOUS
<1> HIDE DEF o
<1>6. /\ off'[w] = o /\ partial'[s] = o /\ partial' \in [Sockets -> Nat]
      /\ \A v \in Workers : v # w => batch'[v] = batch[v] /\ off'[v] = off[v]
      /\ batch'[w] = <<>> => ends
  <2>1. off'[w] = o /\ \A v \in Workers : v # w => batch'[v] = batch[v] /\ off'[v] = off[v]
    BY <1>1 DEF SenderInv, InOrder
  <2>2. partial'[s] = o /\ partial' \in [Sockets -> Nat]
    BY <1>1, <1>2, <1>4 DEF SenderInv, Lifecycle, SenderShapes
  <2>3. ~ends => batch'[w] = batch[w]
    BY <1>1 DEF SenderInv, InOrder
  <2> QED
    BY <1>1, <2>1, <2>2, <2>3
<1>7. torn' = {} /\ \A t \in open : t = s
  BY <1>1, <1>2
<1>8. To(w, "send") /\ "send" \in Places
  BY <1>1 DEF To, SenderInv, Lifecycle, SenderShapes, Places
<1>9. Lifecycle'
  <2>1. \A t \in open' : t = sock' /\ partial'[t] = off'[w]
    BY <1>1, <1>2, <1>6, <1>7
  <2>2. sock' \in {NoSocket, wsock'[w]}
    BY <1>1, <1>2
  <2>3. batch'[w] = <<>> => off'[w] = 0
    BY <1>5, <1>6
  <2> HIDE DEF ends, s
  <2> QED
    BY <1>1, <1>6, <1>7, <1>8, <2>1, <2>2, <2>3, Leaves
    DEF SenderInv, Lifecycle, SenderShapes
<1> QED
  BY <1>3, <1>9 DEF SenderInv

\* A batch that cannot be sent is dropped with its stream.
LEMMA SendFailsKept ==
    ASSUME SenderInv, NEW w \in Workers, SendFails(w)
    PROVE  SenderInv'
<1>1. /\ wpc[w] = "send" /\ wpc[w] \in Places
      /\ batch' = [batch EXCEPT ![w] = <<>>] /\ off' = [off EXCEPT ![w] = 0]
      /\ open' = open \ {wsock[w]} /\ sock' = (IF sock = wsock[w] THEN NoSocket ELSE sock)
      /\ To(w, "loop") /\ UNCHANGED <<thread, producer, wsock, partial, torn, last>>
  BY DEF SendFails, control, Places
<1>2. InOrder'
  BY <1>1, DropInOrder DEF SenderInv
<1>3. sock \in {NoSocket, wsock[w]}
  BY <1>1 DEF SenderInv, Lifecycle, Holdings
<1>4. open' = {} /\ torn' = {} /\ sock' = NoSocket
  <2>1. \A s \in open : s = sock /\ s \in Sockets
    BY <1>1, Finds DEF SenderInv
  <2>2. torn = {}
    BY <1>1, Finds DEF SenderInv
  <2> QED
    BY <1>1, <1>3, <2>1, <2>2
<1>5. /\ batch'[w] = <<>> /\ off'[w] = 0
      /\ \A v \in Workers : v # w => batch'[v] = batch[v] /\ off'[v] = off[v]
  BY <1>1 DEF SenderInv, InOrder
<1>6. "loop" \in Places /\ NoSocket \in MaybeSocket
  BY DEF Places, MaybeSocket
<1>7. Lifecycle'
  BY <1>1, <1>4, <1>5, <1>6, Leaves DEF SenderInv, Lifecycle, SenderShapes
<1> QED
  BY <1>2, <1>7 DEF SenderInv

-----------------------------------------------------------------------------
(* The theorems.                                                           *)

LEMMA SenderStart == SenderInit => SenderInv
<1> SUFFICES ASSUME SenderInit PROVE SenderInv
  OBVIOUS
<1>1. <<>> \in Rows /\ Len(<<>>) = 0 /\ Range(<<>>) = {}
  <2>1. <<>> \in Rows /\ Len(<<>>) = 0
    BY EmptySeq DEF Rows
  <2>2. DOMAIN <<>> = {}
    BY <2>1
  <2> QED
    BY <2>1, <2>2 DEF Range
<1>2. FrameLengths(<<>>) = 0
  BY <1>1, ByteSumEmpty DEF FrameLengths
<1>3. Order
  BY <1>1 DEF SenderInit, Order, Rising, BatchInOrder
<1>4. Accounted
  BY <1>1, <1>2 DEF SenderInit, Accounted, QueueExact
<1>5. InOrder
  BY <1>1, <1>3, <1>4 DEF SenderInit, InOrder
<1>6. Lifecycle
  BY DEF SenderInit, Lifecycle, SenderShapes, OneThread, Holdings, Streams, MaybeSocket
<1> QED
  BY <1>5, <1>6 DEF SenderInv

\* One step per action: the invariant stands, and the frame begun last is a later
\* one if it is another.
LEMMA SenderStep ==
    ASSUME SenderInv, [SenderNext]_sender
    PROVE  SenderInv' /\ (last' # last => last' > last)
<1>1. CASE CaptureVector
  <2>1. UNCHANGED <<thread, worker, sock, wire, last>>
    BY <1>1 DEF CaptureVector, control, wire
  <2> QED
    BY <1>1, <2>1, CaptureInOrder, LifecycleStands DEF SenderInv
<1>2. ASSUME NEW c \in Callers, StartOrStop(c)
      PROVE  SenderInv' /\ UNCHANGED last
  <2>1. UNCHANGED <<producer, batch, off, last>>
    BY <1>2 DEF StartOrStop, Start, StopSets, StopReadsThread, StopJoins, StopCloses,
                CloseCurrent, worker, wire
  <2>2. InOrder'
    BY <2>1, StandInOrder DEF SenderInv
  <2>3. CASE Start(c)
    BY <2>1, <2>2, <2>3, StartKept DEF SenderInv
  <2>4. CASE StopCloses(c)
    BY <2>1, <2>2, <2>4, StopClosesKept DEF SenderInv
  <2>5. CASE StopSets(c) \/ StopReadsThread(c) \/ StopJoins(c)
    <3>1. UNCHANGED <<thread, worker, sock, wire>>
      BY <2>5 DEF StopSets, StopReadsThread, StopJoins
    <3> QED
      BY <2>1, <2>2, <3>1, LifecycleStands DEF SenderInv
  <2> QED
    BY <1>2, <2>3, <2>4, <2>5 DEF StartOrStop
<1>3. ASSUME NEW w \in Workers, Run(w)
      PROVE  SenderInv' /\ UNCHANGED last
  <2>1. UNCHANGED last
    BY <1>3 DEF Run, Loop, EnsureConnected, SocketFails, SocketRaises, Adopt, Drain,
                TryDequeue, FlushWait, SendDone, SendFails, Finally, CloseCurrent, wire
  <2>2. SenderInv'
    BY <1>3, LoopKept, EnsureConnectedKept, ClosesKept, AdoptKept, DrainKept,
       FlushWaitKept, SendFailsKept DEF Run
  <2> QED
    BY <2>1, <2>2
<1>4. ASSUME NEW w \in Workers, SocketConnects(w)
      PROVE  SenderInv' /\ UNCHANGED last
  BY <1>4, ConnectsKept DEF SocketConnects
<1>5. ASSUME NEW w \in Workers, SendByte(w)
      PROVE  SenderInv' /\ (last' # last => last' > last)
  BY <1>5, SendByteKept
<1>6. CASE UNCHANGED sender
  <2>1. UNCHANGED <<producer, thread, worker, batch, off, last, sock, wire>>
    BY <1>6 DEF sender, control, worker, wire
  <2> QED
    BY <2>1, StandInOrder, LifecycleStands DEF SenderInv
<1> QED
  BY <1>1, <1>2, <1>3, <1>4, <1>5, <1>6 DEF SenderNext

\* The inductive invariant of the capture path holds in every state.
THEOREM SenderInvariant == SenderSpec => []SenderInv
<1>1. SenderInv /\ [SenderNext]_sender => SenderInv'
  BY SenderStep
<1> QED
  BY <1>1, SenderStart, PTL DEF SenderSpec

\* For any frame lengths and limits, _queued_bytes is what the queue holds and at
\* most max_queue_bytes, however capture_vector, drain and try_dequeue interleave.
THEOREM QueueCountExact == SenderSpec => []QueueExact
<1>1. SenderInv => QueueExact
  BY DEF SenderInv, InOrder, Accounted
<1> QED
  BY <1>1, SenderInvariant, PTL

\* start() never runs a second sender beside a first, and once the sender is dead
\* no socket is open, whoever calls start() and stop() in whatever order.
THEOREM LifecycleIsClean == SenderSpec => []LifecycleClean
<1>1. SenderInv => LifecycleClean
  <2> SUFFICES ASSUME SenderInv PROVE OneSender /\ NoSocketLeft
    BY DEF LifecycleClean
  <2>1. OneSender
    <3> DEFINE S == {w \in Workers : Alive(w)}
    <3>1. \A w \in Workers : Alive(w) => w = thread
      <4>1. thread \in 0 .. MaxStarts
        BY DEF SenderInv, Lifecycle, SenderShapes
      <4>2. \A w \in Workers : w > thread \/ w < thread \/ w = thread
        BY <4>1
      <4> QED
        BY <4>2 DEF SenderInv, Lifecycle, OneThread, Alive
    <3>2. S \in SUBSET {thread}
      BY <3>1
    <3>3. IsFiniteSet({thread}) /\ Cardinality({thread}) = 1
      BY FS_Singleton
    <3>4. Cardinality(S) <= 1
      <4> HIDE DEF S
      <4>1. Cardinality(S) <= Cardinality({thread})
        BY <3>2, <3>3, FS_Subset
      <4> QED
        BY <3>3, <4>1
    <3> QED
      BY <3>4 DEF OneSender
  <2>2. NoSocketLeft
    <3> SUFFICES ASSUME \A w \in Workers : ~Alive(w) PROVE open = {}
      BY DEF NoSocketLeft
    <3>1. sock = NoSocket /\ \A w \in Workers : wpc[w] # "adopt"
      BY DEF SenderInv, Lifecycle, Streams, Alive
    <3> QED
      BY <3>1 DEF SenderInv, Lifecycle, Streams, SenderShapes
  <2> QED
    BY <2>1, <2>2
<1> QED
  BY <1>1, SenderInvariant, PTL

\* Every stream carries whole frames, and frames go out in the order they were
\* captured and at most once, across _send_batch failures, reconnects and
\* restarts.
THEOREM FramesLeaveInOrder == SenderSpec => FramesWholeInOrder
<1>1. SenderInv => torn = {}
  BY DEF SenderInv, Lifecycle, Streams
<1>2. SenderInv /\ [SenderNext]_sender => [last' # last => last' > last]_sender
  BY SenderStep
<1> QED
  BY <1>1, <1>2, SenderInvariant, PTL DEF SenderSpec, FramesWholeInOrder
=============================================================================
