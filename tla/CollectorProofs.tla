-------------------------- MODULE CollectorProofs ---------------------------
(***************************************************************************)
(* The collector's state keeps its type, its windows are never mixed,      *)
(* every frame is accounted for once and every byte is given back, and the *)
(* collector implements CaptureLog: for any number of connections, frames  *)
(* and cohorts, any configuration validate_config admits, and any          *)
(* behaviour of the clock.                                                 *)
(***************************************************************************)
EXTENDS Collector, DataLemmas

\* The variables that are filled at a given place of a task are filled there.
Control ==
    /\ \A c \in Conns : rpc[c] \in Holding => rframe[c] \in Frames
    /\ wpc \in {"fold", "pressure", "add"} => hand \in Frames
    /\ wpc \in {"flush", "put"} /\ goal \in {"advance", "cap", "pressure"} =>
          hand \in Frames
    /\ wpc = "put" => batch \in Parts

\* A flush of the whole window has every cohort that is still buffered or has
\* counted drops on its list.
FlushCovers ==
    wpc \in {"flush", "put"} /\ goal \in {"advance", "close", "final"} =>
        \A f \in records \cup drops : CohortOf[f] \in todo

\* Frames on their way to a part or in one.
Received ==
    {rframe[c] : c \in Conns} \cup InChannel \cup InHand \cup records
      \cup (IF wpc = "put" THEN batch.records ELSE {})
      \cup UNION {s.records : s \in store \cup failed}

\* A frame is stamped once: no frame that can still be read is past its stamp.
StampedOnce == unread \cap Received = {}

\* The frame in hand belongs to the open window or an earlier one, unless the
\* writer is on its way to that frame's window; so does all that is buffered,
\* and the part being flushed.
InWindow ==
    /\ wpc \in {"fold", "pressure", "add"} => Aligned(receiveTime[hand]) <= current
    /\ wpc \in {"flush", "put"} /\ goal \in {"cap", "pressure"} =>
          Aligned(receiveTime[hand]) <= current
    /\ \A f \in records : Aligned(receiveTime[f]) <= current
    /\ wpc = "put" =>
          \A f \in batch.records : Aligned(receiveTime[f]) <= batch.window

\* The inductive invariant.
IInv == /\ TypeOK /\ Control /\ FlushCovers
        /\ StampedOnce /\ InWindow /\ NoRecordFromTheFuture

USE FramesAssumption, ConfigAssumption

-----------------------------------------------------------------------------
(* The operators the actions are made of.                                  *)

\* Window starts are natural numbers, not after the time they belong to.
LEMMA AlignedType ==
    ASSUME NEW t \in Nat
    PROVE  Aligned(t) \in Nat /\ Aligned(t) <= t
<1>1. WindowSeconds \in Nat /\ WindowSeconds > 0
  BY DEF ValidConfig
<1>2. t % WindowSeconds \in 0..(WindowSeconds - 1)
  BY <1>1
<1>3. CASE t < WindowSeconds
  BY <1>1, <1>2, <1>3 DEF Aligned
<1>4. CASE t >= WindowSeconds
  BY <1>1, <1>2, <1>4 DEF Aligned
<1> QED
  BY <1>1, <1>3, <1>4

\* A sleep is never negative.
LEMMA UntilType ==
    ASSUME NEW t \in Nat, now \in Nat
    PROVE  Until(t) \in Nat
  BY DEF Until

\* A release never takes the counter below zero.
LEMMA ReleasedType ==
    ASSUME NEW b \in Nat, used \in Nat
    PROVE  Released(b) \in Nat
  BY DEF Released

\* Sizes are natural numbers.
LEMMA BytesType == \A f \in Frames : RecordBytes[f] \in Nat
  OBVIOUS

\* What is in the channel after a send and after a receive.
LEMMA ChannelMoves ==
    ASSUME NEW q \in Seq(Frames)
    PROVE  /\ \A f \in Frames :
                 /\ Append(q, f) \in Seq(Frames)
                 /\ Len(Append(q, f)) = Len(q) + 1
                 /\ {Append(q, f)[i] : i \in 1..Len(Append(q, f))}
                      = {q[i] : i \in 1..Len(q)} \cup {f}
           /\ q # <<>> =>
                 /\ Head(q) \in Frames
                 /\ Tail(q) \in Seq(Frames)
                 /\ Len(Tail(q)) = Len(q) - 1
                 /\ {q[i] : i \in 1..Len(q)}
                      = {Head(q)} \cup {Tail(q)[i] : i \in 1..Len(Tail(q))}
<1>1. ASSUME NEW f \in Frames
      PROVE  {Append(q, f)[i] : i \in 1..Len(Append(q, f))}
                = {q[i] : i \in 1..Len(q)} \cup {f}
  <2>1. Len(Append(q, f)) = Len(q) + 1 /\ Len(q) \in Nat
    OBVIOUS
  <2>2. \A i \in 1..Len(q) : Append(q, f)[i] = q[i]
    OBVIOUS
  <2>3. Append(q, f)[Len(q) + 1] = f
    OBVIOUS
  <2>4. 1..(Len(q) + 1) = 1..Len(q) \cup {Len(q) + 1}
    BY <2>1
  <2> QED
    BY <2>1, <2>2, <2>3, <2>4
<1>2. ASSUME q # <<>>
      PROVE  {q[i] : i \in 1..Len(q)}
                = {Head(q)} \cup {Tail(q)[i] : i \in 1..Len(Tail(q))}
  <2>1. Len(q) \in Nat /\ Len(q) >= 1 /\ Len(Tail(q)) = Len(q) - 1
    BY <1>2
  <2>2. Head(q) = q[1] /\ \A i \in 1..Len(Tail(q)) : Tail(q)[i] = q[i + 1]
    BY <1>2
  <2>3. \A i \in 1..Len(q) : i = 1 \/ (i - 1 \in 1..Len(Tail(q)) /\ q[i] = Tail(q)[i - 1])
    BY <2>1, <2>2
  <2>4. ASSUME NEW x \in {q[i] : i \in 1..Len(q)}
        PROVE  x \in {Head(q)} \cup {Tail(q)[i] : i \in 1..Len(Tail(q))}
    <3>1. PICK i \in 1..Len(q) : x = q[i]
      BY <2>4
    <3>2. CASE i = 1
      BY <3>1, <3>2, <2>2
    <3>3. CASE i - 1 \in 1..Len(Tail(q)) /\ q[i] = Tail(q)[i - 1]
      BY <3>1, <3>3
    <3> QED
      BY <3>1, <3>2, <3>3, <2>3
  <2>5. ASSUME NEW x \in {Tail(q)[i] : i \in 1..Len(Tail(q))}
        PROVE  x \in {q[i] : i \in 1..Len(q)}
    <3>1. PICK i \in 1..Len(Tail(q)) : x = Tail(q)[i]
      BY <2>5
    <3>2. i + 1 \in 1..Len(q) /\ x = q[i + 1]
      BY <3>1, <2>1, <2>2
    <3> QED
      BY <3>2
  <2>6. Head(q) \in {q[i] : i \in 1..Len(q)}
    BY <2>1, <2>2
  <2> QED
    BY <2>4, <2>5, <2>6
<1>3. ASSUME q # <<>>
      PROVE  Head(q) \in Frames /\ Tail(q) \in Seq(Frames) /\ Len(Tail(q)) = Len(q) - 1
  BY <1>3
<1>4. ASSUME NEW f \in Frames
      PROVE  Append(q, f) \in Seq(Frames) /\ Len(Append(q, f)) = Len(q) + 1
  OBVIOUS
<1> QED
  BY <1>1, <1>2, <1>3, <1>4

-----------------------------------------------------------------------------
(* Types.                                                                  *)

\* Initially all is empty.
LEMMA InitInv == Init => IInv
<1> SUFFICES ASSUME Init PROVE IInv
  OBVIOUS
<1>1. now \in Nat /\ Aligned(now) \in Nat
  BY BoundsAssumption, AlignedType DEF Init
<1>2. due \in Nat
  BY <1>1, UntilType DEF Init, ValidConfig
<1>3. TypeOK
  BY <1>1, <1>2 DEF Init, TypeOK, ValidConfig
<1>4. Control /\ FlushCovers /\ InWindow /\ NoRecordFromTheFuture
  BY DEF Init, Control, FlushCovers, InWindow, NoRecordFromTheFuture, Holding
<1>5. StampedOnce
  BY DEF Init, StampedOnce, Received, InChannel, InHand
<1> QED
  BY <1>3, <1>4, <1>5 DEF IInv

\* TypeOK, by the task that owns the variable.
MainTypes ==
    /\ now \in Nat /\ adjusts \in Nat
    /\ main \in {"accepting", "draining", "stopping", "aborting", "closing",
                 "killing", "finished"}

ReaderTypes ==
    /\ rpc \in [Conns -> Holding \cup {"none", "reading", "done"}]
    /\ rframe \in [Conns -> Frames \cup {NoFrame}]
    /\ receiveTime \in [Frames -> Nat]
    /\ unread \in SUBSET Frames

SharedTypes ==
    /\ channel \in Seq(Frames) /\ Len(channel) <= ChannelCapacity
    /\ used \in Nat
    /\ ledger \in SUBSET Frames

BufferTypes ==
    /\ wpc \in {"select", "flush", "put", "fold", "pressure", "add", "done", "dead"}
    /\ due \in Nat
    /\ hand \in Frames \cup {NoFrame}
    /\ current \in Nat
    /\ records \in SUBSET Frames /\ drops \in SUBSET Frames

FlushTypes ==
    /\ todo \in SUBSET Cohorts
    /\ goal \in {"none", "advance", "close", "cap", "pressure", "final"}
    /\ batch \in Parts \cup {NoBatch}
    /\ unreleased \in SUBSET Frames
    /\ store \in SUBSET Parts /\ failed \in SUBSET Parts
    /\ discarded \in SUBSET Frames

\* TypeOK is the conjunction of those parts, now and after a step.
LEMMA TypeParts ==
    /\ TypeOK <=> /\ MainTypes /\ ReaderTypes /\ SharedTypes
                  /\ BufferTypes /\ FlushTypes
    /\ TypeOK' <=> /\ MainTypes' /\ ReaderTypes' /\ SharedTypes'
                   /\ BufferTypes' /\ FlushTypes'
  BY Zenon DEF TypeOK, MainTypes, ReaderTypes, SharedTypes, BufferTypes, FlushTypes

\* What a step leaves alone keeps its type.
LEMMA TypesKept ==
    ASSUME TypeOK
    PROVE  /\ UNCHANGED <<clock, main>> => MainTypes'
           /\ UNCHANGED readers => ReaderTypes'
           /\ UNCHANGED <<channel, used, ledger>> => SharedTypes'
           /\ UNCHANGED <<wpc, due, buffers>> => BufferTypes'
           /\ UNCHANGED <<flush, parts, discarded>> => FlushTypes'
<1>1. MainTypes /\ ReaderTypes /\ SharedTypes /\ BufferTypes /\ FlushTypes
  BY TypeParts
<1> QED
  BY <1>1 DEF MainTypes, ReaderTypes, SharedTypes, BufferTypes, FlushTypes,
              clock, readers, buffers, flush, parts

\* The clock and the main task touch nothing but a few variables.
LEMMA MainType ==
    ASSUME TypeOK,
           \/ Tick \/ ClockSet \/ StopAccepting \/ WriterStopped \/ Shutdown
           \/ Terminated \/ UNCHANGED vars
           \/ \E c \in Conns : Accept(c) \/ JoinReader(c)
    PROVE  TypeOK'
<1>0. MainTypes /\ ReaderTypes /\ SharedTypes /\ BufferTypes /\ FlushTypes
  BY TypeParts
<1>1. CASE Tick
  <2>1. UNCHANGED <<readers, channel, used, ledger, flush, parts, discarded>>
    BY <1>1 DEF Tick
  <2>2. MainTypes' /\ BufferTypes'
    BY <1>0, <1>1 DEF MainTypes, BufferTypes, Tick, buffers
  <2> QED
    BY <2>1, <2>2, TypesKept, TypeParts
<1>2. CASE ClockSet
  <2>1. UNCHANGED <<readers, channel, used, ledger, wpc, due, buffers, flush, parts, discarded>>
    BY <1>2 DEF ClockSet, writer
  <2>2. MainTypes'
    BY <1>0, <1>2 DEF MainTypes, ClockSet
  <2> QED
    BY <2>1, <2>2, TypesKept, TypeParts
<1>3. CASE StopAccepting \/ WriterStopped \/ Shutdown
  <2>1. UNCHANGED <<readers, channel, used, ledger, wpc, due, buffers, flush, parts, discarded>>
    BY <1>3 DEF StopAccepting, WriterStopped, Shutdown, SendShutdown,
                AbortReaders, CloseChannel, WriterTimeout, Finish, Phase, writer
  <2>2. MainTypes'
    BY <1>0, <1>3 DEF MainTypes, StopAccepting, WriterStopped, Shutdown, SendShutdown,
                AbortReaders, CloseChannel, WriterTimeout, Finish, Phase, clock
  <2> QED
    BY <2>1, <2>2, TypesKept, TypeParts
<1>4. CASE Terminated \/ UNCHANGED vars
  <2>1. UNCHANGED <<clock, main, readers, channel, used, ledger, wpc, due, buffers,
                    flush, parts, discarded>>
    BY <1>4 DEF Terminated, vars, writer
  <2> QED
    BY <2>1, TypesKept, TypeParts
<1>5. ASSUME NEW c \in Conns, Accept(c) \/ JoinReader(c) PROVE TypeOK'
  <2>1. UNCHANGED <<clock, main, channel, used, ledger, wpc, due, buffers, flush,
                    parts, discarded>>
    BY <1>5 DEF Accept, JoinReader, writer
  <2>2. ReaderTypes'
    BY <1>0, <1>5 DEF ReaderTypes, Accept, JoinReader, RGoto
  <2> QED
    BY <2>1, <2>2, TypesKept, TypeParts
<1> QED
  BY <1>1, <1>2, <1>3, <1>4, <1>5

\* A reader's steps.
LEMMA ReaderType ==
    ASSUME TypeOK, Control, NEW c \in Conns, Reader(c)
    PROVE  TypeOK'
<1>0. MainTypes /\ ReaderTypes /\ SharedTypes /\ BufferTypes /\ FlushTypes
  BY TypeParts
<1>1. /\ UNCHANGED <<clock, main, writer>>
      /\ UNCHANGED <<clock, main, wpc, due, buffers, flush, parts, discarded>>
  BY DEF Reader, Handoff, ReadFrame, ReaderCloses, ReaderSeesShutdown, ReaderAborted,
         Reserve, TrySend, RecordMemoryDrop, RecordChannelDrop, DropEvent, writer
<1>2. MainTypes' /\ BufferTypes' /\ FlushTypes'
  BY <1>1, TypesKept
<1>3. rpc[c] \in Holding => rframe[c] \in Frames /\ RecordBytes[rframe[c]] \in Nat
  BY BytesType DEF Control
<1>4. ReaderTypes'
  <2>1. ASSUME NEW f \in Frames, ReadFrame(c, f) PROVE ReaderTypes'
    BY <1>0, <2>1 DEF ReaderTypes, MainTypes, ReadFrame, RGoto, Holding
  <2>2. CASE ReaderCloses(c) \/ ReaderSeesShutdown(c) \/ ReaderAborted(c)
    BY <1>0, <2>2 DEF ReaderTypes, ReaderCloses, ReaderSeesShutdown, ReaderAborted, RGoto
  <2>3. CASE Reserve(c) \/ TrySend(c) \/ RecordMemoryDrop(c)
    BY <1>0, <2>3 DEF ReaderTypes, Reserve, TrySend, RecordMemoryDrop, RGoto, Holding
  <2>4. CASE RecordChannelDrop(c) \/ DropEvent(c)
    BY <1>0, <2>4 DEF ReaderTypes, RecordChannelDrop, DropEvent, RGoto, Holding
  <2> QED
    BY <2>1, <2>2, <2>3, <2>4 DEF Reader, Handoff
<1>5. SharedTypes'
  <2>1. CASE UNCHANGED <<channel, used, ledger>>
    BY <2>1, TypesKept
  <2>2. CASE Reserve(c)
    BY <1>0, <1>3, <2>2 DEF SharedTypes, Reserve, Holding
  <2>3. CASE TrySend(c)
    <3>1. rframe[c] \in Frames
      BY <1>3, <2>3 DEF TrySend, Holding
    <3>2. /\ Append(channel, rframe[c]) \in Seq(Frames)
          /\ Len(Append(channel, rframe[c])) = Len(channel) + 1
      BY <1>0, <3>1, ChannelMoves DEF SharedTypes
    <3>3. channel' = channel \/ (Len(channel) < ChannelCapacity /\ channel' = Append(channel, rframe[c]))
      BY <2>3 DEF TrySend
    <3>4. UNCHANGED <<used, ledger>>
      BY <2>3 DEF TrySend
    <3>5. ChannelCapacity \in Nat /\ Len(channel) \in Nat
      BY <1>0 DEF SharedTypes, ValidConfig
    <3>6. channel' \in Seq(Frames) /\ Len(channel') <= ChannelCapacity
      <4>1. CASE channel' = channel
        BY <1>0, <4>1 DEF SharedTypes
      <4>2. CASE Len(channel) < ChannelCapacity /\ channel' = Append(channel, rframe[c])
        BY <3>2, <3>5, <4>2
      <4> QED
        BY <3>3, <4>1, <4>2
    <3> QED
      BY <1>0, <3>4, <3>6 DEF SharedTypes
  <2>4. CASE RecordMemoryDrop(c) \/ RecordChannelDrop(c)
    BY <1>0, <1>3, <2>4 DEF SharedTypes, RecordMemoryDrop, RecordChannelDrop, Holding
  <2>5. CASE DropEvent(c)
    <3>1. used' \in Nat
      BY <1>0, <1>3, <2>5, ReleasedType DEF SharedTypes, DropEvent, Holding
    <3>2. UNCHANGED <<channel, ledger>>
      BY <2>5 DEF DropEvent
    <3> QED
      BY <1>0, <3>1, <3>2 DEF SharedTypes
  <2> QED
    BY <2>1, <2>2, <2>3, <2>4, <2>5
       DEF Reader, Handoff, ReadFrame, ReaderCloses, ReaderSeesShutdown, ReaderAborted
<1> QED
  BY <1>2, <1>4, <1>5, TypeParts

\* The writer's steps outside of a flush.
LEMMA WriterType ==
    ASSUME TypeOK, Control, Recv \/ TimerFires \/ RecvNone \/ FoldAndSpill
                              \/ RelievePressure \/ AddRecord
    PROVE  TypeOK'
<1>0. MainTypes /\ ReaderTypes /\ SharedTypes /\ BufferTypes /\ FlushTypes
  BY TypeParts
<1>1. UNCHANGED <<clock, main, readers>>
  BY DEF Recv, TimerFires, RecvNone, FoldAndSpill, RelievePressure, AddRecord
<1>2. MainTypes' /\ ReaderTypes'
  BY <1>1, TypesKept
<1>3. \A S \in SUBSET Frames : Keys(S) \in SUBSET Cohorts
  BY DEF Keys
<1>4. records \cup drops \cup ledger \in SUBSET Frames
  BY <1>0 DEF BufferTypes, SharedTypes
<1>5. CASE Recv
  <2>1. Head(channel) \in Frames /\ Tail(channel) \in Seq(Frames)
          /\ Len(Tail(channel)) = Len(channel) - 1 /\ Len(channel) \in Nat
    BY <1>0, <1>5, ChannelMoves DEF Recv, SharedTypes
  <2>2. SharedTypes'
    BY <1>0, <1>5, <2>1 DEF Recv, SharedTypes, FoldAllPendingDrops, ValidConfig
  <2>3. BufferTypes'
    BY <1>0, <1>4, <1>5, <2>1 DEF Recv, BufferTypes, FoldAllPendingDrops, StartFlush
  <2>4. FlushTypes'
    <3>1. todo' \in SUBSET Cohorts /\ goal' \in {"none", "advance", "close", "cap", "pressure", "final"}
      BY <1>0, <1>3, <1>4, <1>5 DEF Recv, FlushTypes, StartFlush
    <3>2. UNCHANGED <<batch, unreleased, parts, discarded>>
      BY <1>5 DEF Recv
    <3> QED
      BY <1>0, <3>1, <3>2 DEF FlushTypes, parts
  <2> QED
    BY <1>2, <2>2, <2>3, <2>4, TypeParts
<1>6. CASE TimerFires \/ RecvNone
  <2>1. SharedTypes'
    BY <1>0, <1>6 DEF TimerFires, RecvNone, SharedTypes, FoldAllPendingDrops
  <2>2. BufferTypes'
    BY <1>0, <1>4, <1>6 DEF TimerFires, RecvNone, BufferTypes, FoldAllPendingDrops, StartFlush
  <2>3. FlushTypes'
    <3>1. todo' \in SUBSET Cohorts /\ goal' \in {"close", "final"}
      BY <1>3, <1>4, <1>6 DEF TimerFires, RecvNone, StartFlush
    <3>2. UNCHANGED <<batch, unreleased, parts, discarded>>
      BY <1>6 DEF TimerFires, RecvNone
    <3> QED
      BY <1>0, <3>1, <3>2 DEF FlushTypes, parts
  <2> QED
    BY <1>2, <2>1, <2>2, <2>3, TypeParts
<1>7. CASE FoldAndSpill
  <2>1. hand \in Frames /\ CohortOf[hand] \in Cohorts
    BY <1>7 DEF FoldAndSpill, Control
  <2>2. SharedTypes'
    BY <1>0, <1>7 DEF FoldAndSpill, SharedTypes
  <2>3. BufferTypes'
    BY <1>0, <1>4, <1>7 DEF FoldAndSpill, BufferTypes, StartFlush, Of
  <2>4. FlushTypes'
    <3>1. todo' \in SUBSET Cohorts /\ goal' \in {"none", "advance", "close", "cap", "pressure", "final"}
      BY <1>0, <1>7, <2>1 DEF FoldAndSpill, FlushTypes, StartFlush
    <3>2. UNCHANGED <<batch, unreleased, parts, discarded>>
      BY <1>7 DEF FoldAndSpill
    <3> QED
      BY <1>0, <3>1, <3>2 DEF FlushTypes, parts
  <2> QED
    BY <1>2, <2>2, <2>3, <2>4, TypeParts
<1>8. CASE RelievePressure
  <2>1. Largest \in SUBSET Cohorts
    BY <1>0, <1>3 DEF Largest, BufferTypes
  <2>2. UNCHANGED <<channel, used, ledger>>
    BY <1>8 DEF RelievePressure
  <2>3. BufferTypes'
    BY <1>0, <1>8 DEF RelievePressure, BufferTypes, StartFlush, buffers
  <2>4. FlushTypes'
    <3>1. todo' \in SUBSET Cohorts /\ goal' \in {"none", "advance", "close", "cap", "pressure", "final"}
      BY <1>0, <1>8, <2>1 DEF RelievePressure, FlushTypes, StartFlush
    <3>2. UNCHANGED <<batch, unreleased, parts, discarded>>
      BY <1>8 DEF RelievePressure
    <3> QED
      BY <1>0, <3>1, <3>2 DEF FlushTypes, parts
  <2> QED
    BY <1>2, <2>2, <2>3, <2>4, TypesKept, TypeParts
<1>9. CASE AddRecord
  <2>1. hand \in Frames
    BY <1>9 DEF AddRecord, Control
  <2>2. due' \in Nat
    BY <1>0, <1>9, UntilType DEF AddRecord, Select, BufferTypes, MainTypes, ValidConfig
  <2>3. BufferTypes'
    BY <1>0, <1>9, <2>1, <2>2 DEF AddRecord, Select, BufferTypes
  <2>4. UNCHANGED <<channel, used, ledger, flush, parts, discarded>>
    BY <1>9 DEF AddRecord
  <2> QED
    BY <1>2, <2>3, <2>4, TypesKept, TypeParts
<1> QED
  BY <1>5, <1>6, <1>7, <1>8, <1>9

\* Flushing a cohort, releasing its records, ending its PUT, a late PUT.
LEMMA FlushType ==
    ASSUME TypeOK, Control,
           \/ \E c \in Cohorts : FlushCohort(c)
           \/ \E f \in Frames : ReleaseRecord(f)
           \/ PutSucceeds \/ PutFails
           \/ \E s \in failed : LateLand(s)
    PROVE  TypeOK'
<1>0. MainTypes /\ ReaderTypes /\ SharedTypes /\ BufferTypes /\ FlushTypes
  BY TypeParts
<1>1. UNCHANGED <<clock, main, readers>>
  BY DEF FlushCohort, ReleaseRecord, PutSucceeds, PutFails, EndPut, LateLand
<1>2. MainTypes' /\ ReaderTypes'
  BY <1>1, TypesKept
<1>3. ASSUME NEW c \in Cohorts, FlushCohort(c) PROVE TypeOK'
  <2>1. SharedTypes'
    BY <1>0, <1>3 DEF FlushCohort, SharedTypes
  <2>2. BufferTypes'
    BY <1>0, <1>3 DEF FlushCohort, BufferTypes
  <2>3. batch' \in Parts
    BY <1>0, <1>3 DEF FlushCohort, Parts, Of, BufferTypes, SharedTypes
  <2>4. FlushTypes'
    BY <1>0, <1>3, <2>3 DEF FlushCohort, FlushTypes, BufferTypes, Of, parts
  <2> QED
    BY <1>2, <2>1, <2>2, <2>4, TypeParts
<1>4. ASSUME NEW f \in Frames, ReleaseRecord(f) PROVE TypeOK'
  <2>1. used' \in Nat
    BY <1>0, <1>4, BytesType, ReleasedType DEF ReleaseRecord, SharedTypes
  <2>2. UNCHANGED <<channel, ledger, wpc, due, buffers>>
    BY <1>4 DEF ReleaseRecord
  <2>3. SharedTypes'
    BY <1>0, <2>1, <2>2 DEF SharedTypes
  <2>4. FlushTypes'
    BY <1>0, <1>4 DEF ReleaseRecord, FlushTypes, parts
  <2> QED
    BY <1>2, <2>2, <2>3, <2>4, TypesKept, TypeParts
<1>5. CASE PutSucceeds \/ PutFails
  <2>1. batch \in Parts
    BY <1>5 DEF PutSucceeds, PutFails, EndPut, Control
  <2>2. UNCHANGED <<channel, used, ledger>>
    BY <1>5 DEF PutSucceeds, PutFails, EndPut
  <2>3. BufferTypes'
    BY <1>0, <1>5 DEF PutSucceeds, PutFails, EndPut, BufferTypes, buffers
  <2>4. FlushTypes'
    BY <1>0, <1>5, <2>1 DEF PutSucceeds, PutFails, EndPut, FlushTypes
  <2> QED
    BY <1>2, <2>2, <2>3, <2>4, TypesKept, TypeParts
<1>6. ASSUME NEW s \in failed, LateLand(s) PROVE TypeOK'
  <2>1. UNCHANGED <<channel, used, ledger, wpc, due, buffers>>
    BY <1>6 DEF LateLand
  <2>2. FlushTypes'
    BY <1>0, <1>6 DEF LateLand, FlushTypes, flush
  <2> QED
    BY <1>2, <2>1, <2>2, TypesKept, TypeParts
<1> QED
  BY <1>3, <1>4, <1>5, <1>6

\* The end of a flush, and the end of the writer.
LEMMA EndType ==
    ASSUME TypeOK, Control,
           \/ AdvanceWindow \/ OpenWindow \/ CohortSpilled \/ PressureRelieved
           \/ WriterReturns \/ WriterPanics \/ WriterAborted
    PROVE  TypeOK'
<1>0. MainTypes /\ ReaderTypes /\ SharedTypes /\ BufferTypes /\ FlushTypes
  BY TypeParts
<1>1. UNCHANGED <<clock, main, readers>>
  BY DEF AdvanceWindow, OpenWindow, CohortSpilled, PressureRelieved, WriterReturns,
         FlushedFor, WriterPanics, WriterAborted, WriterDies
<1>2. MainTypes' /\ ReaderTypes'
  BY <1>1, TypesKept
<1>3. CASE WriterPanics \/ WriterAborted
  <2>1. WriterDies
    BY <1>3 DEF WriterPanics, WriterAborted
  <2>2. InChannel \in SUBSET Frames
    BY <1>0 DEF InChannel, SharedTypes
  <2>3. InHand \in SUBSET Frames
    BY <1>0 DEF InHand, BufferTypes
  <2>4. BatchFrames \in SUBSET Frames
    BY <1>0 DEF BatchFrames, FlushTypes, Parts
  <2>5. InChannel \cup InHand \cup records \cup unreleased \in SUBSET Frames
    BY <1>0, <2>2, <2>3 DEF BufferTypes, FlushTypes
  <2>6. ByteSum(InChannel \cup InHand \cup records \cup unreleased, RecordBytes) \in Nat
    BY <2>5, ByteSumType
  <2>7. used' \in Nat
    BY <1>0, <2>1, <2>6, ReleasedType DEF WriterDies, SharedTypes
  <2>8. channel' = <<>> /\ ledger' = ledger
    BY <2>1 DEF WriterDies
  <2>9. SharedTypes'
    BY <1>0, <2>7, <2>8 DEF SharedTypes, ValidConfig
  <2>10. BufferTypes'
    BY <1>0, <2>1 DEF WriterDies, BufferTypes
  <2>11. failed' \in SUBSET Parts
    BY <1>0, <2>1 DEF WriterDies, PutStarted, Control, FlushTypes
  <2>12. discarded' \in SUBSET Frames
    BY <1>0, <2>1, <2>2, <2>3, <2>4 DEF WriterDies, FlushTypes, BufferTypes
  <2>13. FlushTypes'
    BY <1>0, <2>1, <2>11, <2>12 DEF WriterDies, FlushTypes
  <2> QED
    BY <1>2, <2>9, <2>10, <2>13, TypeParts
<1>4. CASE AdvanceWindow \/ OpenWindow \/ CohortSpilled \/ PressureRelieved \/ WriterReturns
  <2>1. UNCHANGED <<channel, used, ledger, hand, records, drops, todo, batch, unreleased,
                    parts, discarded>> /\ goal' = "none"
    BY <1>4 DEF AdvanceWindow, OpenWindow, CohortSpilled, PressureRelieved, WriterReturns,
                FlushedFor
  <2>2. SharedTypes' /\ FlushTypes'
    BY <1>0, <2>1 DEF SharedTypes, FlushTypes, parts
  <2>3. current' \in Nat
    <3>1. CASE AdvanceWindow
      <4>1. hand \in Frames
        BY <3>1 DEF AdvanceWindow, FlushedFor, Control
      <4> QED
        BY <1>0, <3>1, <4>1, AlignedType DEF AdvanceWindow, ReaderTypes
    <3>2. CASE OpenWindow
      BY <1>0, <3>2, AlignedType DEF OpenWindow, MainTypes
    <3> QED
      BY <1>0, <1>4, <3>1, <3>2 DEF CohortSpilled, PressureRelieved, WriterReturns, BufferTypes
  <2>4. due' \in Nat
    <3>1. CASE OpenWindow
      <4>1. Aligned(now) + WindowSeconds \in Nat
        BY <1>0, AlignedType DEF MainTypes, ValidConfig
      <4> QED
        BY <1>0, <3>1, <4>1, UntilType DEF OpenWindow, Select, MainTypes
    <3> QED
      BY <1>0, <1>4, <3>1 DEF AdvanceWindow, CohortSpilled, PressureRelieved,
                              WriterReturns, BufferTypes
  <2>5. wpc' \in {"select", "fold", "pressure", "add", "done"}
    BY <1>4 DEF AdvanceWindow, OpenWindow, CohortSpilled, PressureRelieved,
                WriterReturns, Select
  <2>6. BufferTypes'
    BY <1>0, <2>1, <2>3, <2>4, <2>5 DEF BufferTypes
  <2> QED
    BY <1>2, <2>2, <2>6, TypeParts
<1> QED
  BY <1>3, <1>4

\* Every step keeps the types.
LEMMA TypeNext ==
    ASSUME TypeOK, Control, [Next]_vars
    PROVE  TypeOK'
  BY MainType, ReaderType, WriterType, FlushType, EndType DEF Next, WriterStep

-----------------------------------------------------------------------------
(* Control and flushes.                                                    *)

\* The steps of the clock and of the main task, and stuttering.
MainStep == \/ Tick \/ ClockSet \/ StopAccepting \/ WriterStopped \/ Shutdown
            \/ Terminated \/ UNCHANGED vars

\* They leave alone all that the readers and the writer work on, except for
\* the time of the sleep.
LEMMA MainKeeps ==
    ASSUME MainStep
    PROVE  UNCHANGED <<readers, channel, used, ledger, wpc, buffers, flush, parts, discarded>>
  BY DEF MainStep, Tick, ClockSet, StopAccepting, WriterStopped, Shutdown, SendShutdown,
         AbortReaders, CloseChannel, WriterTimeout, Finish, Phase, Terminated, vars, writer

\* A reader's steps leave the writer alone, joining and accepting included.
LEMMA ReaderKeeps ==
    ASSUME NEW c \in Conns, Accept(c) \/ JoinReader(c) \/ Reader(c)
    PROVE  UNCHANGED <<clock, main, wpc, due, buffers, flush, parts, discarded>>
  BY DEF Accept, JoinReader, Reader, Handoff, ReadFrame, ReaderCloses, ReaderSeesShutdown,
         ReaderAborted, Reserve, TrySend, RecordMemoryDrop, RecordChannelDrop, DropEvent,
         writer

\* The steps of the writer, of its death, and of the store.
WriterSide == \/ WriterStep \/ WriterPanics \/ WriterAborted
              \/ \E s \in failed : LateLand(s)

\* They leave the readers alone.
LEMMA WriterKeeps ==
    ASSUME WriterSide
    PROVE  UNCHANGED <<clock, main, readers>>
  BY DEF WriterSide, WriterStep, Recv, TimerFires, RecvNone, FlushCohort, ReleaseRecord,
         PutSucceeds, PutFails, EndPut, AdvanceWindow, OpenWindow, CohortSpilled,
         PressureRelieved, WriterReturns, FlushedFor, FoldAndSpill, RelievePressure,
         AddRecord, WriterPanics, WriterAborted, WriterDies, LateLand

\* Every step is one of the three.
LEMMA StepKinds ==
    ASSUME [Next]_vars
    PROVE  \/ MainStep \/ WriterSide
           \/ \E c \in Conns : Accept(c) \/ JoinReader(c) \/ Reader(c)
  BY DEF Next, MainStep, WriterSide

\* Every step keeps Control.
LEMMA ControlNext ==
    ASSUME TypeOK, Control, [Next]_vars
    PROVE  Control'
<1>1. CASE MainStep
  BY <1>1, MainKeeps DEF Control, readers, buffers, flush
<1>2. ASSUME NEW c \in Conns, Accept(c) \/ JoinReader(c) \/ Reader(c) PROVE Control'
  <2>1. UNCHANGED <<wpc, hand, goal, batch>>
    BY <1>2, ReaderKeeps DEF buffers, flush
  <2>2. rpc \in [Conns -> Holding \cup {"none", "reading", "done"}]
          /\ rframe \in [Conns -> Frames \cup {NoFrame}]
    BY DEF TypeOK
  <2>3. \A d \in Conns : rpc'[d] \in Holding => rframe'[d] \in Frames
    BY <1>2, <2>2 DEF Control, Accept, JoinReader, Reader, Handoff, ReadFrame, ReaderCloses,
         ReaderSeesShutdown, ReaderAborted, Reserve, TrySend, RecordMemoryDrop,
         RecordChannelDrop, DropEvent, RGoto, Holding
  <2> QED
    BY <2>1, <2>3 DEF Control
<1>3. CASE WriterSide
  <2>1. \A d \in Conns : rpc'[d] \in Holding => rframe'[d] \in Frames
    BY <1>3, WriterKeeps DEF Control, readers
  <2>2. /\ wpc' \in {"fold", "pressure", "add"} => hand' \in Frames
        /\ wpc' \in {"flush", "put"} /\ goal' \in {"advance", "cap", "pressure"} => hand' \in Frames
        /\ wpc' = "put" => batch' \in Parts
    <3>1. CASE Recv
      <4>1. Head(channel) \in Frames
        BY <3>1, ChannelMoves DEF Recv, TypeOK
      <4> QED
        BY <3>1, <4>1 DEF Recv, StartFlush, Control
    <3>2. CASE TimerFires \/ RecvNone
      BY <3>2 DEF TimerFires, RecvNone, StartFlush, Control
    <3>3. ASSUME NEW c \in Cohorts, FlushCohort(c) PROVE <2>2!1 /\ <2>2!2 /\ <2>2!3
      <4>1. batch' \in Parts
        BY <3>3 DEF FlushCohort, Parts, Of, TypeOK
      <4> QED
        BY <3>3, <4>1 DEF FlushCohort, Control
    <3>4. ASSUME NEW f \in Frames, ReleaseRecord(f) PROVE <2>2!1 /\ <2>2!2 /\ <2>2!3
      BY <3>4 DEF ReleaseRecord, Control, buffers
    <3>5. CASE PutSucceeds \/ PutFails
      BY <3>5 DEF PutSucceeds, PutFails, EndPut, Control, buffers
    <3>6. CASE AdvanceWindow \/ OpenWindow \/ CohortSpilled \/ PressureRelieved \/ WriterReturns
      BY <3>6 DEF AdvanceWindow, OpenWindow, CohortSpilled, PressureRelieved, WriterReturns,
                  FlushedFor, Select, Control
    <3>7. CASE FoldAndSpill \/ RelievePressure \/ AddRecord
      BY <3>7 DEF FoldAndSpill, RelievePressure, AddRecord, StartFlush, Select, Control, buffers
    <3>8. CASE WriterPanics \/ WriterAborted
      BY <3>8 DEF WriterPanics, WriterAborted, WriterDies
    <3>9. ASSUME NEW s \in failed, LateLand(s) PROVE <2>2!1 /\ <2>2!2 /\ <2>2!3
      BY <3>9 DEF LateLand, Control, buffers, flush
    <3> QED
      BY <1>3, <3>1, <3>2, <3>3, <3>4, <3>5, <3>6, <3>7, <3>8, <3>9 DEF WriterSide, WriterStep
  <2> QED
    BY <2>1, <2>2 DEF Control
<1> QED
  BY <1>1, <1>2, <1>3, StepKinds

\* Every step keeps FlushCovers.
LEMMA CoversNext ==
    ASSUME TypeOK, FlushCovers, [Next]_vars
    PROVE  FlushCovers'
<1>1. CASE MainStep
  BY <1>1, MainKeeps DEF FlushCovers, buffers, flush
<1>2. ASSUME NEW c \in Conns, Accept(c) \/ JoinReader(c) \/ Reader(c) PROVE FlushCovers'
  BY <1>2, ReaderKeeps DEF FlushCovers, buffers, flush
<1>3. CASE WriterSide
  <2>1. CASE Recv \/ TimerFires \/ RecvNone
    BY <2>1 DEF Recv, TimerFires, RecvNone, FoldAllPendingDrops, StartFlush, Keys, FlushCovers
  <2>2. ASSUME NEW c \in Cohorts, FlushCohort(c) PROVE FlushCovers'
    BY <2>2 DEF FlushCohort, Of, FlushCovers, TypeOK
  <2>3. ASSUME NEW f \in Frames, ReleaseRecord(f) PROVE FlushCovers'
    BY <2>3 DEF ReleaseRecord, FlushCovers, buffers
  <2>4. CASE PutSucceeds \/ PutFails
    BY <2>4 DEF PutSucceeds, PutFails, EndPut, FlushCovers, buffers
  <2>5. CASE AdvanceWindow \/ OpenWindow \/ CohortSpilled \/ PressureRelieved \/ WriterReturns
    BY <2>5 DEF AdvanceWindow, OpenWindow, CohortSpilled, PressureRelieved, WriterReturns,
                FlushedFor, Select, FlushCovers
  <2>6. CASE FoldAndSpill \/ RelievePressure \/ AddRecord
    BY <2>6 DEF FoldAndSpill, RelievePressure, AddRecord, StartFlush, Select, FlushCovers
  <2>7. CASE WriterPanics \/ WriterAborted
    BY <2>7 DEF WriterPanics, WriterAborted, WriterDies, FlushCovers
  <2>8. ASSUME NEW s \in failed, LateLand(s) PROVE FlushCovers'
    BY <2>8 DEF LateLand, FlushCovers, buffers, flush
  <2> QED
    BY <1>3, <2>1, <2>2, <2>3, <2>4, <2>5, <2>6, <2>7, <2>8 DEF WriterSide, WriterStep
<1> QED
  BY <1>1, <1>2, <1>3, StepKinds

-----------------------------------------------------------------------------
(* Windows.                                                                *)

\* Only frames that were not received yet are stamped.
LEMMA StampsKept ==
    ASSUME TypeOK, StampedOnce, [Next]_vars
    PROVE  \A f \in Received \cap Frames : receiveTime'[f] = receiveTime[f]
<1>1. CASE MainStep
  BY <1>1, MainKeeps DEF readers
<1>2. CASE WriterSide
  BY <1>2, WriterKeeps DEF readers
<1>3. ASSUME NEW c \in Conns, Accept(c) \/ JoinReader(c) \/ Reader(c)
      PROVE  \A f \in Received \cap Frames : receiveTime'[f] = receiveTime[f]
  <2>1. ASSUME NEW g \in Frames, ReadFrame(c, g)
        PROVE  \A f \in Received \cap Frames : receiveTime'[f] = receiveTime[f]
    BY <2>1 DEF ReadFrame, StampedOnce, TypeOK
  <2> QED
    BY <1>3, <2>1 DEF Accept, JoinReader, Reader, Handoff, ReaderCloses, ReaderSeesShutdown,
         ReaderAborted, Reserve, TrySend, RecordMemoryDrop, RecordChannelDrop, DropEvent
<1> QED
  BY <1>1, <1>2, <1>3, StepKinds

\* What is in the channel after the steps that move it.
LEMMA ChannelAfter ==
    ASSUME TypeOK, Control
    PROVE  /\ \A c \in Conns : TrySend(c) => InChannel' \in SUBSET (InChannel \cup {rframe[c]})
           /\ Recv => InChannel' \in SUBSET InChannel /\ Head(channel) \in InChannel
           /\ UNCHANGED channel => InChannel' = InChannel
           /\ WriterDies => InChannel' = {}
<1>0. channel \in Seq(Frames)
  BY DEF TypeOK
<1>1. ASSUME NEW c \in Conns, TrySend(c) PROVE InChannel' \in SUBSET (InChannel \cup {rframe[c]})
  <2>1. rframe[c] \in Frames
    BY <1>1 DEF TrySend, Control, Holding
  <2>2. CASE channel' = channel
    BY <2>2 DEF InChannel
  <2>3. CASE channel' = Append(channel, rframe[c])
    <3>1. {Append(channel, rframe[c])[i] : i \in 1..Len(Append(channel, rframe[c]))}
             = InChannel \cup {rframe[c]}
      BY <1>0, <2>1, ChannelMoves DEF InChannel
    <3> QED
      BY <2>3, <3>1 DEF InChannel
  <2> QED
    BY <1>1, <2>2, <2>3 DEF TrySend
<1>2. ASSUME Recv PROVE InChannel' \in SUBSET InChannel /\ Head(channel) \in InChannel
  <2>1. InChannel = {Head(channel)} \cup {Tail(channel)[i] : i \in 1..Len(Tail(channel))}
    BY <1>0, <1>2, ChannelMoves DEF InChannel, Recv
  <2> QED
    BY <1>2, <2>1 DEF InChannel, Recv
<1>3. UNCHANGED channel => InChannel' = InChannel
  BY DEF InChannel
<1>4. WriterDies => InChannel' = {}
  BY DEF WriterDies, InChannel
<1> QED
  BY <1>1, <1>2, <1>3, <1>4

\* Frames enter the collector only by being read.
LEMMA ReceivedNext ==
    ASSUME TypeOK, Control, StampedOnce, [Next]_vars
    PROVE  StampedOnce'
<1> DEFINE BatchRecords == IF wpc = "put" THEN batch.records ELSE {}
           PartRecords == UNION {s.records : s \in store \cup failed}
<1>0. Received = {rframe[c] : c \in Conns} \cup InChannel \cup InHand \cup records
                   \cup BatchRecords \cup PartRecords
  BY DEF Received
<1>00. Received' = {rframe'[c] : c \in Conns} \cup InChannel' \cup InHand' \cup records'
                     \cup BatchRecords' \cup PartRecords'
  BY DEF Received
<1> HIDE DEF BatchRecords, PartRecords
<1>1. CASE MainStep
  <2>1. UNCHANGED <<rframe, unread, channel, hand, records, wpc, batch, store, failed>>
    BY <1>1, MainKeeps DEF readers, buffers, flush, parts
  <2>2. InChannel' = InChannel /\ InHand' = InHand /\ BatchRecords' = BatchRecords
          /\ PartRecords' = PartRecords
    BY <2>1 DEF InChannel, InHand, BatchRecords, PartRecords
  <2> QED
    BY <1>0, <1>00, <2>1, <2>2 DEF StampedOnce
<1>2. ASSUME NEW c \in Conns, Accept(c) \/ JoinReader(c) \/ Reader(c) PROVE StampedOnce'
  <2>1. UNCHANGED <<hand, records, wpc, batch, store, failed>>
    BY <1>2, ReaderKeeps DEF buffers, flush, parts
  <2>2. InHand' = InHand /\ BatchRecords' = BatchRecords /\ PartRecords' = PartRecords
    BY <2>1 DEF InHand, BatchRecords, PartRecords
  <2>3. rframe \in [Conns -> Frames \cup {NoFrame}] /\ unread \in SUBSET Frames
    BY DEF TypeOK
  <2>4. ASSUME NEW f \in Frames, ReadFrame(c, f) PROVE StampedOnce'
    <3>1. InChannel' = InChannel
      BY <2>4, ChannelAfter DEF ReadFrame
    <3>2. unread' = unread \ {f} /\ \A d \in Conns : rframe'[d] \in {rframe[d], f}
      BY <2>3, <2>4 DEF ReadFrame
    <3> QED
      BY <1>0, <1>00, <2>1, <2>2, <3>1, <3>2 DEF StampedOnce
  <2>5. CASE ~ \E f \in Frames : ReadFrame(c, f)
    <3>1. UNCHANGED unread /\ \A d \in Conns : rframe'[d] \in {rframe[d], NoFrame}
      BY <1>2, <2>3, <2>5 DEF Accept, JoinReader, Reader, Handoff, ReaderCloses,
         ReaderSeesShutdown, ReaderAborted, Reserve, TrySend, RecordMemoryDrop,
         RecordChannelDrop, DropEvent
    <3>2. InChannel' \in SUBSET (InChannel \cup {rframe[c]})
      <4>1. CASE TrySend(c)
        BY <4>1, ChannelAfter
      <4>2. CASE UNCHANGED channel
        BY <4>2, ChannelAfter
      <4> QED
        BY <1>2, <2>5, <4>1, <4>2 DEF Accept, JoinReader, Reader, Handoff, ReaderCloses,
           ReaderSeesShutdown, ReaderAborted, Reserve, RecordMemoryDrop,
           RecordChannelDrop, DropEvent
    <3> QED
      BY <1>0, <1>00, <2>1, <2>2, <2>3, <3>1, <3>2 DEF StampedOnce
  <2> QED
    BY <2>4, <2>5
<1>3. CASE WriterSide
  <2>1. UNCHANGED <<rframe, unread>>
    BY <1>3, WriterKeeps DEF readers
  <2>2. (InChannel \cup InHand \cup records \cup BatchRecords \cup PartRecords)'
           \in SUBSET (InChannel \cup InHand \cup records \cup BatchRecords \cup PartRecords)
    <3>1. CASE Recv
      <4>1. InChannel' \in SUBSET InChannel /\ InHand' \in SUBSET InChannel
        BY <3>1, ChannelAfter DEF Recv, InHand
      <4>2. records' = records /\ BatchRecords' = {} /\ PartRecords' = PartRecords
        BY <3>1 DEF Recv, StartFlush, BatchRecords, PartRecords, parts
      <4> QED
        BY <4>1, <4>2
    <3>2. CASE TimerFires \/ RecvNone \/ FoldAndSpill \/ RelievePressure \/ AddRecord
      <4>1. InChannel' = InChannel /\ PartRecords' = PartRecords /\ BatchRecords' = {}
        BY <3>2, ChannelAfter DEF TimerFires, RecvNone, FoldAndSpill, RelievePressure,
             AddRecord, StartFlush, Select, PartRecords, BatchRecords, parts
      <4>2. InHand' \cup records' \in SUBSET (InHand \cup records)
        <5>1. CASE AddRecord
          BY <5>1 DEF AddRecord, InHand, Control
        <5> QED
          BY <3>2, <5>1 DEF TimerFires, RecvNone, FoldAndSpill, RelievePressure, InHand, buffers
      <4> QED
        BY <4>1, <4>2
    <3>3. ASSUME NEW c \in Cohorts, FlushCohort(c) PROVE <2>2
      <4>1. InChannel' = InChannel /\ InHand' = InHand /\ PartRecords' = PartRecords
        BY <3>3, ChannelAfter DEF FlushCohort, InHand, PartRecords, parts
      <4>2. records' \in SUBSET records /\ BatchRecords' \in SUBSET records
        BY <3>3 DEF FlushCohort, BatchRecords, Of
      <4> QED
        BY <4>1, <4>2
    <3>4. ASSUME NEW f \in Frames, ReleaseRecord(f) PROVE <2>2
      <4>1. UNCHANGED <<channel, hand, records, wpc, batch, store, failed>>
        BY <3>4 DEF ReleaseRecord, buffers, parts
      <4> QED
        BY <4>1 DEF InChannel, InHand, BatchRecords, PartRecords
    <3>5. CASE PutSucceeds \/ PutFails
      <4>1. InChannel' = InChannel /\ InHand' = InHand /\ records' = records
        BY <3>5, ChannelAfter DEF PutSucceeds, PutFails, EndPut, InHand, buffers
      <4>2. BatchRecords' = {} /\ PartRecords' = PartRecords \cup BatchRecords
        BY <3>5 DEF PutSucceeds, PutFails, EndPut, BatchRecords, PartRecords
      <4> QED
        BY <4>1, <4>2
    <3>6. CASE AdvanceWindow \/ OpenWindow \/ CohortSpilled \/ PressureRelieved \/ WriterReturns
      <4>1. UNCHANGED <<channel, hand, records, store, failed>> /\ wpc' # "put"
        BY <3>6 DEF AdvanceWindow, OpenWindow, CohortSpilled, PressureRelieved,
                    WriterReturns, FlushedFor, Select, parts
      <4> QED
        BY <4>1 DEF InChannel, InHand, BatchRecords, PartRecords
    <3>7. CASE WriterPanics \/ WriterAborted
      <4>1. WriterDies
        BY <3>7 DEF WriterPanics, WriterAborted
      <4>2. InChannel' = {} /\ InHand' = {} /\ records' = {} /\ BatchRecords' = {}
        BY <4>1, ChannelAfter DEF WriterDies, InHand, BatchRecords
      <4>3. PartRecords' \in SUBSET (PartRecords \cup BatchRecords)
        BY <4>1 DEF WriterDies, PutStarted, PartRecords, BatchRecords
      <4> QED
        BY <4>2, <4>3
    <3>8. ASSUME NEW s \in failed, LateLand(s) PROVE <2>2
      <4>1. UNCHANGED <<channel, hand, records, wpc, batch>>
              /\ store' \cup failed' = store \cup failed
        BY <3>8 DEF LateLand, buffers, flush
      <4> QED
        BY <4>1 DEF InChannel, InHand, BatchRecords, PartRecords
    <3> QED
      BY <1>3, <3>1, <3>2, <3>3, <3>4, <3>5, <3>6, <3>7, <3>8 DEF WriterSide, WriterStep
  <2> QED
    BY <1>0, <1>00, <2>1, <2>2 DEF StampedOnce
<1> QED
  BY <1>1, <1>2, <1>3, StepKinds

\* Every step keeps the windows of what is buffered and of what is stored.
LEMMA WindowNext ==
    ASSUME IInv, [Next]_vars
    PROVE  InWindow' /\ NoRecordFromTheFuture'
<1>0. TypeOK /\ Control /\ FlushCovers /\ StampedOnce /\ InWindow /\ NoRecordFromTheFuture
  BY DEF IInv
<1>1. \A f \in Received \cap Frames : receiveTime'[f] = receiveTime[f]
  BY <1>0, StampsKept
<1>2. /\ records \in SUBSET (Received \cap Frames)
      /\ hand \in Frames => hand \in Received
      /\ wpc = "put" => batch.records \in SUBSET (Received \cap Frames)
      /\ \A s \in store \cup failed : s.records \in SUBSET (Received \cap Frames)
  BY <1>0 DEF Received, InHand, TypeOK, Control, Parts
<1>3. CASE UNCHANGED <<wpc, buffers, flush, parts>>
  <2>1. UNCHANGED <<wpc, hand, current, records, goal, batch, store, failed>>
    BY <1>3 DEF buffers, flush, parts
  <2>2. InWindow'
    BY <1>0, <1>1, <1>2, <2>1 DEF InWindow, Control, Aligned
  <2>3. NoRecordFromTheFuture'
    BY <1>0, <1>1, <1>2, <2>1 DEF NoRecordFromTheFuture, Aligned
  <2> QED
    BY <2>2, <2>3
<1>4. CASE WriterSide
  <2>0. UNCHANGED receiveTime
    BY <1>4, WriterKeeps DEF readers
  <2>1. CASE Recv
    <3>1. UNCHANGED <<current, records, store, failed>> /\ wpc' # "put"
            /\ hand' = Head(channel)
      BY <2>1 DEF Recv, StartFlush, parts
    <3>2. /\ wpc' \in {"fold", "flush"}
          /\ wpc' = "fold" => Aligned(receiveTime[hand']) <= current
          /\ wpc' = "flush" => goal' = "advance"
      BY <2>1 DEF Recv, StartFlush
    <3> QED
      BY <1>0, <2>0, <3>1, <3>2 DEF InWindow, NoRecordFromTheFuture, Aligned
  <2>2. CASE TimerFires \/ RecvNone
    <3>1. UNCHANGED <<current, records, store, failed>> /\ wpc' = "flush"
            /\ goal' \in {"close", "final"}
      BY <2>2 DEF TimerFires, RecvNone, StartFlush, parts
    <3> QED
      BY <1>0, <2>0, <3>1 DEF InWindow, NoRecordFromTheFuture, Aligned
  <2>3. ASSUME NEW c \in Cohorts, FlushCohort(c) PROVE InWindow' /\ NoRecordFromTheFuture'
    <3>1. UNCHANGED <<current, hand, goal, store, failed>> /\ wpc' = "put" /\ wpc = "flush"
            /\ records' \in SUBSET records
      BY <2>3 DEF FlushCohort, parts
    <3>2. batch'.window = current /\ batch'.records \in SUBSET records
      BY <2>3 DEF FlushCohort, Of
    <3> QED
      BY <1>0, <2>0, <3>1, <3>2 DEF InWindow, NoRecordFromTheFuture, Aligned
  <2>4. ASSUME NEW f \in Frames, ReleaseRecord(f) PROVE InWindow' /\ NoRecordFromTheFuture'
    <3>1. UNCHANGED <<wpc, hand, current, records, goal, batch, store, failed>>
      BY <2>4 DEF ReleaseRecord, buffers, parts
    <3> QED
      BY <1>0, <2>0, <3>1 DEF InWindow, NoRecordFromTheFuture, Aligned
  <2>5. CASE PutSucceeds \/ PutFails
    <3>1. UNCHANGED <<hand, current, records, goal>> /\ wpc = "put" /\ wpc' = "flush"
            /\ store' \cup failed' = store \cup failed \cup {batch}
      BY <2>5 DEF PutSucceeds, PutFails, EndPut, buffers
    <3>2. \A f \in batch.records : Aligned(receiveTime[f]) <= batch.window
      BY <1>0, <3>1 DEF InWindow
    <3> QED
      BY <1>0, <2>0, <3>1, <3>2 DEF InWindow, NoRecordFromTheFuture, Aligned
  <2>6. CASE AdvanceWindow \/ OpenWindow
    <3>1. records = {} /\ records' = {}
      BY <1>0, <2>6 DEF AdvanceWindow, OpenWindow, FlushedFor, FlushCovers
    <3>2. UNCHANGED <<hand, store, failed>> /\ wpc' \in {"fold", "select"}
            /\ (wpc' = "fold" => current' = Aligned(receiveTime[hand]))
      BY <2>6 DEF AdvanceWindow, OpenWindow, FlushedFor, Select, parts
    <3>3. wpc' = "fold" => hand \in Frames /\ Aligned(receiveTime[hand]) \in Nat
      BY <1>0, <2>6, AlignedType DEF AdvanceWindow, OpenWindow, FlushedFor, Select,
                                     Control, TypeOK
    <3> QED
      BY <1>0, <2>0, <3>1, <3>2, <3>3 DEF InWindow, NoRecordFromTheFuture, Aligned
  <2>7. CASE CohortSpilled \/ PressureRelieved \/ WriterReturns
    <3>1. UNCHANGED <<hand, current, records, store, failed>> /\ wpc = "flush"
            /\ \/ goal \in {"cap", "pressure"} /\ wpc' \in {"pressure", "add"}
               \/ wpc' = "done"
      BY <2>7 DEF CohortSpilled, PressureRelieved, WriterReturns, FlushedFor, parts
    <3> QED
      BY <1>0, <2>0, <3>1 DEF InWindow, NoRecordFromTheFuture, Aligned
  <2>8. CASE FoldAndSpill \/ RelievePressure
    <3>1. UNCHANGED <<hand, current, records, store, failed>> /\ wpc \in {"fold", "pressure"}
            /\ wpc' # "put"
      BY <2>8 DEF FoldAndSpill, RelievePressure, StartFlush, buffers, parts
    <3> QED
      BY <1>0, <2>0, <3>1 DEF InWindow, NoRecordFromTheFuture, Aligned
  <2>9. CASE AddRecord
    <3>1. UNCHANGED <<current, store, failed>> /\ wpc = "add" /\ wpc' = "select"
            /\ records' = records \cup {hand}
      BY <2>9 DEF AddRecord, Select, parts
    <3> QED
      BY <1>0, <2>0, <3>1 DEF InWindow, NoRecordFromTheFuture, Aligned
  <2>10. CASE WriterPanics \/ WriterAborted
    <3>1. WriterDies
      BY <2>10 DEF WriterPanics, WriterAborted
    <3>2. records' = {} /\ wpc' = "dead" /\ store' = store
      BY <3>1 DEF WriterDies
    <3>3. failed' = failed \/ (wpc = "put" /\ failed' = failed \cup {batch})
      BY <3>1, Zenon DEF WriterDies, PutStarted
    <3> QED
      BY <1>0, <2>0, <3>2, <3>3 DEF InWindow, NoRecordFromTheFuture, Aligned
  <2>11. ASSUME NEW s \in failed, LateLand(s) PROVE InWindow' /\ NoRecordFromTheFuture'
    <3>1. UNCHANGED <<wpc, hand, current, records, goal, batch>>
            /\ store' \cup failed' = store \cup failed
      BY <2>11 DEF LateLand, buffers, flush
    <3> QED
      BY <1>0, <2>0, <3>1 DEF InWindow, NoRecordFromTheFuture, Aligned
  <2> QED
    BY <1>4, <2>1, <2>2, <2>3, <2>4, <2>5, <2>6, <2>7, <2>8, <2>9, <2>10, <2>11
       DEF WriterSide, WriterStep
<1> QED
  BY <1>3, <1>4, StepKinds, MainKeeps, ReaderKeeps

\* The invariant is inductive.
LEMMA NextInv == IInv /\ [Next]_vars => IInv'
  BY TypeNext, ControlNext, CoversNext, ReceivedNext, WindowNext DEF IInv

\* Every reachable state satisfies the inductive invariant.
LEMMA Invariance == Spec => []IInv
  BY InitInv, NextInv, PTL DEF Spec

-----------------------------------------------------------------------------
(* Theorems.                                                               *)

\* The collector's state keeps its type; in particular the channel never
\* holds more than channel_capacity frames.
THEOREM TypeCorrect == Spec => []TypeOK
<1>1. IInv => TypeOK
  BY DEF IInv
<1> QED
  BY <1>1, Invariance, PTL

\* No part holds a record that was received after the part's window.
THEOREM NothingFromTheFuture == Spec => []NoRecordFromTheFuture
<1>1. IInv => NoRecordFromTheFuture
  BY DEF IInv
<1> QED
  BY <1>1, Invariance, PTL

\* Neither advance_to_receive_window nor close_window moves the open window
\* over a buffered record or a counted drop.
THEOREM WindowsNotMixed == Spec => WindowMovesWhenFlushed
<1>1. IInv /\ [Next]_vars => [current' # current => records = {} /\ drops = {}]_vars
  <2> SUFFICES ASSUME IInv, [Next]_vars, current' # current
               PROVE  records = {} /\ drops = {}
    OBVIOUS
  <2>1. WriterSide
    BY StepKinds, MainKeeps, ReaderKeeps DEF buffers
  <2>2. AdvanceWindow \/ OpenWindow
    BY <2>1 DEF WriterSide, WriterStep, Recv, TimerFires, RecvNone, FlushCohort,
         ReleaseRecord, PutSucceeds, PutFails, EndPut, CohortSpilled, PressureRelieved,
         WriterReturns, FoldAndSpill, RelievePressure, AddRecord, WriterPanics,
         WriterAborted, WriterDies, LateLand, buffers
  <2> QED
    BY <2>2 DEF IInv, FlushCovers, AdvanceWindow, OpenWindow, FlushedFor
<1> QED
  BY <1>1, Invariance, PTL DEF Spec, WindowMovesWhenFlushed

-----------------------------------------------------------------------------
(* Accounting: frames, bytes, and the log of captures.                     *)

\* The writer holds an event only while it handles one, and a part only while
\* it flushes one.
Empty ==
    /\ ~ \/ wpc \in {"fold", "pressure", "add"}
         \/ wpc \in {"flush", "put"} /\ goal \in {"advance", "cap", "pressure"}
       => hand = NoFrame
    /\ wpc # "put" => batch = NoBatch /\ unreleased = {}
    /\ wpc = "put" => unreleased \in SUBSET batch.records

\* No frame is with two readers, or in the channel twice.
Distinct ==
    /\ \A c, d \in Conns : c # d /\ rframe[c] = rframe[d] => rframe[c] = NoFrame
    /\ \A i, j \in 1..Len(channel) : channel[i] = channel[j] => i = j

\* Parts share no frames, and none is both a record and a drop.
PartsDisjoint ==
    /\ \A s, t \in store \cup failed : s # t => PartFrames(s) \cap PartFrames(t) = {}
    /\ \A s \in store \cup failed : s.records \cap s.drops = {}
    /\ wpc = "put" => batch.records \cap batch.drops = {}

\* Exactly one of the places of a frame.
OnePlace(f) ==
    /\ f \in unread \cup Reading \cup InChannel \cup InHand \cup ledger \cup records
               \cup drops \cup BatchFrames \cup InParts(store) \cup InParts(failed)
               \cup discarded
    /\ f \in unread => f \notin Reading \cup InChannel \cup InHand \cup ledger \cup records
               \cup drops \cup BatchFrames \cup InParts(store) \cup InParts(failed)
               \cup discarded
    /\ f \in Reading => f \notin InChannel \cup InHand \cup ledger \cup records
               \cup drops \cup BatchFrames \cup InParts(store) \cup InParts(failed)
               \cup discarded
    /\ f \in InChannel => f \notin InHand \cup ledger \cup records
               \cup drops \cup BatchFrames \cup InParts(store) \cup InParts(failed)
               \cup discarded
    /\ f \in InHand => f \notin ledger \cup records
               \cup drops \cup BatchFrames \cup InParts(store) \cup InParts(failed)
               \cup discarded
    /\ f \in ledger => f \notin records
               \cup drops \cup BatchFrames \cup InParts(store) \cup InParts(failed)
               \cup discarded
    /\ f \in records => f \notin drops \cup BatchFrames \cup InParts(store)
               \cup InParts(failed) \cup discarded
    /\ f \in drops => f \notin BatchFrames \cup InParts(store)
               \cup InParts(failed) \cup discarded
    /\ f \in BatchFrames => f \notin InParts(store) \cup InParts(failed) \cup discarded
    /\ f \in InParts(store) => f \notin InParts(failed) \cup discarded
    /\ f \in InParts(failed) => f \notin discarded

Accounted == Empty /\ Distinct /\ PartsDisjoint /\ \A f \in Frames : OnePlace(f)

\* Frames that some queue or buffer owns together with their memory guard.
Held == InChannel \cup InHand \cup records \cup unreleased

\* A frame whose drop was counted is nowhere else while its guard is dropped.
DropsNotHeld ==
    \A c \in Conns : rpc[c] \in {"dropFull", "dropClosed"} =>
        rframe[c] \notin Held \cup unread

Live == MemoryIsExact /\ used <= LiveMemoryBytes

\* A cohort's buffer is within its cap, also when the frame in hand is added.
WithinCap ==
    /\ \A c \in Cohorts : BufferedBytes(c) <= PerCohortMemoryBytes
    /\ wpc \in {"pressure", "add"} \/ (wpc \in {"flush", "put"} /\ goal = "pressure") =>
          BufferedBytes(CohortOf[hand]) + RecordBytes[hand] <= PerCohortMemoryBytes
    /\ wpc \in {"flush", "put"} /\ goal = "cap" =>
          \/ Of(CohortOf[hand], records) = {}
          \/ CohortOf[hand] \in todo
    /\ wpc = "put" => ByteSum(batch.records, RecordBytes) <= PerCohortMemoryBytes

\* Once the channel has reported its end, nothing can come in any more.
Drained ==
    /\ wpc # "dead" => discarded = {}
    /\ wpc = "done" \/ (wpc \in {"flush", "put"} /\ goal = "final") =>
          SendersGone /\ channel = <<>> /\ ledger = {}
    /\ wpc = "done" => records = {} /\ drops = {}

\* The inductive invariant, on top of IInv.
AInv == Accounted /\ DropsNotHeld /\ Live /\ WithinCap /\ Drained

\* OnePlace says of every frame what FramesAccountedOnce says by index.
LEMMA PlacesOnce ==
    (\A f \in Frames : OnePlace(f)) =>
       LET P == Places
       IN  \A f \in Frames : \E i \in DOMAIN P :
               f \in P[i] /\ \A j \in DOMAIN P : f \in P[j] => j = i
<1> SUFFICES ASSUME \A f \in Frames : OnePlace(f), NEW f \in Frames
             PROVE  \E i \in DOMAIN Places :
                       f \in Places[i] /\ \A j \in DOMAIN Places : f \in Places[j] => j = i
  OBVIOUS
<1>1. DOMAIN Places = 1..11
  BY DEF Places
<1>2. /\ Places[1] = unread /\ Places[2] = Reading /\ Places[3] = InChannel
      /\ Places[4] = InHand /\ Places[5] = ledger /\ Places[6] = records
      /\ Places[7] = drops /\ Places[8] = BatchFrames /\ Places[9] = InParts(store)
      /\ Places[10] = InParts(failed) /\ Places[11] = discarded
  BY DEF Places
<1>3. OnePlace(f)
  OBVIOUS
<1>4. \A j \in 1..11 : j = 1 \/ j = 2 \/ j = 3 \/ j = 4 \/ j = 5 \/ j = 6 \/ j = 7
                         \/ j = 8 \/ j = 9 \/ j = 10 \/ j = 11
  OBVIOUS
<1> QED
  BY <1>1, <1>2, <1>3, <1>4 DEF OnePlace

-----------------------------------------------------------------------------
(* What a step moves.                                                      *)

\* Every step keeps Empty.
LEMMA EmptyNext ==
    ASSUME TypeOK, Control, Empty, [Next]_vars
    PROVE  Empty'
<1>1. CASE MainStep
  BY <1>1, MainKeeps DEF Empty, buffers, flush
<1>2. ASSUME NEW c \in Conns, Accept(c) \/ JoinReader(c) \/ Reader(c) PROVE Empty'
  BY <1>2, ReaderKeeps DEF Empty, buffers, flush
<1>3. CASE WriterSide
  <2>1. CASE Recv \/ TimerFires \/ RecvNone
    BY <2>1 DEF Recv, TimerFires, RecvNone, StartFlush, Empty
  <2>2. ASSUME NEW c \in Cohorts, FlushCohort(c) PROVE Empty'
    BY <2>2 DEF FlushCohort, Empty
  <2>3. ASSUME NEW f \in Frames, ReleaseRecord(f) PROVE Empty'
    BY <2>3 DEF ReleaseRecord, Empty, buffers
  <2>4. CASE PutSucceeds \/ PutFails
    BY <2>4 DEF PutSucceeds, PutFails, EndPut, Empty, buffers
  <2>5. CASE AdvanceWindow \/ OpenWindow \/ CohortSpilled \/ PressureRelieved \/ WriterReturns
    BY <2>5 DEF AdvanceWindow, OpenWindow, CohortSpilled, PressureRelieved, WriterReturns,
                FlushedFor, Select, Empty
  <2>6. CASE FoldAndSpill \/ RelievePressure \/ AddRecord
    BY <2>6 DEF FoldAndSpill, RelievePressure, AddRecord, StartFlush, Select, Empty, buffers, flush
  <2>7. CASE WriterPanics \/ WriterAborted
    BY <2>7 DEF WriterPanics, WriterAborted, WriterDies, Empty
  <2>8. ASSUME NEW s \in failed, LateLand(s) PROVE Empty'
    BY <2>8 DEF LateLand, Empty, buffers, flush
  <2> QED
    BY <1>3, <2>1, <2>2, <2>3, <2>4, <2>5, <2>6, <2>7, <2>8 DEF WriterSide, WriterStep
<1> QED
  BY <1>1, <1>2, <1>3, StepKinds

\* The part being flushed is there exactly during its PUT.
LEMMA BatchPlace ==
    ASSUME TypeOK, Control, Empty
    PROVE  BatchFrames = IF wpc = "put" THEN batch.records \cup batch.drops ELSE {}
<1>1. CASE wpc = "put"
  <2>1. batch # NoBatch
    BY <1>1, NoBatchAssumption DEF Control, Parts
  <2> QED
    BY <1>1, <2>1 DEF BatchFrames
<1>2. CASE wpc # "put"
  BY <1>2 DEF BatchFrames, Empty
<1> QED
  BY <1>1, <1>2

\* The places the writer and the store own.
WriterPlaces == <<InHand, records, drops, BatchFrames, InParts(store), InParts(failed), discarded>>

\* A reader's step moves at most one frame: into the collector, into the
\* channel or into the ledger.
LEMMA ReaderMoves ==
    ASSUME TypeOK, Control, Distinct, NEW c \in Conns,
           Accept(c) \/ JoinReader(c) \/ Reader(c)
    PROVE  \/ UNCHANGED <<unread, Reading, InChannel, ledger>>
           \/ \E f \in unread : /\ unread' = unread \ {f} /\ Reading' = Reading \cup {f}
                                 /\ UNCHANGED <<InChannel, ledger>>
           \/ \E f \in Reading : /\ Reading' = Reading \ {f}
                                  /\ InChannel' = InChannel \cup {f} /\ channel' = Append(channel, f)
                                  /\ UNCHANGED <<unread, ledger>>
           \/ \E f \in Reading : /\ Reading' = Reading \ {f} /\ ledger' = ledger \cup {f}
                                  /\ UNCHANGED <<unread, InChannel>>
<1>0. /\ rpc \in [Conns -> Holding \cup {"none", "reading", "done"}]
      /\ rframe \in [Conns -> Frames \cup {NoFrame}]
      /\ channel \in Seq(Frames)
  BY DEF TypeOK
<1>1. UNCHANGED channel => UNCHANGED InChannel
  BY DEF InChannel
<1>2. CASE Accept(c) \/ JoinReader(c) \/ ReaderCloses(c) \/ ReaderSeesShutdown(c)
             \/ ReaderAborted(c) \/ Reserve(c) \/ DropEvent(c)
  <2>1. UNCHANGED <<unread, channel, ledger>>
    BY <1>2 DEF Accept, JoinReader, ReaderCloses, ReaderSeesShutdown, ReaderAborted,
                Reserve, DropEvent
  <2>2. \A d \in Conns :
           /\ (rpc'[d] \in Holding \ {"dropFull", "dropClosed"}) <=>
                 (rpc[d] \in Holding \ {"dropFull", "dropClosed"})
           /\ rpc[d] \in Holding \ {"dropFull", "dropClosed"} => rframe'[d] = rframe[d]
    BY <1>0, <1>2 DEF Accept, JoinReader, ReaderCloses, ReaderSeesShutdown, ReaderAborted,
                Reserve, DropEvent, RGoto, Holding
  <2>3. Reading' = Reading
    BY <2>2 DEF Reading
  <2> QED
    BY <1>1, <2>1, <2>3
<1>3. ASSUME NEW f \in Frames, ReadFrame(c, f)
      PROVE  /\ f \in unread /\ unread' = unread \ {f} /\ Reading' = Reading \cup {f}
             /\ UNCHANGED <<InChannel, ledger>>
  <2>1. rpc[c] = "reading" /\ rpc' = [rpc EXCEPT ![c] = "stamped"]
          /\ rframe' = [rframe EXCEPT ![c] = f] /\ UNCHANGED <<channel, ledger>>
          /\ f \in unread /\ unread' = unread \ {f}
    BY <1>3 DEF ReadFrame, RGoto
  <2>2. Reading' = Reading \cup {f}
    BY <1>0, <2>1 DEF Reading, Holding
  <2> QED
    BY <1>1, <2>1, <2>2
<1>4. CASE TrySend(c) \/ RecordMemoryDrop(c) \/ RecordChannelDrop(c)
  <2>1. rframe[c] \in Frames /\ rframe[c] \in Reading
    BY <1>4 DEF TrySend, RecordMemoryDrop, RecordChannelDrop, Control, Holding, Reading
  <2>2. \A d \in Conns \ {c} : rframe[d] # rframe[c]
    BY <2>1, FramesAssumption DEF Distinct
  <2>3. CASE UNCHANGED <<rframe, channel>> /\ TrySend(c)
    <3>1. rpc[c] = "reserved" /\ (rpc' = [rpc EXCEPT ![c] = "closed"] \/ rpc' = [rpc EXCEPT ![c] = "full"])
      BY <1>0, <2>1, <2>3 DEF TrySend, RGoto
    <3>2. \A d \in Conns : (rpc'[d] \in Holding \ {"dropFull", "dropClosed"}) <=>
                             (rpc[d] \in Holding \ {"dropFull", "dropClosed"})
      BY <1>0, <3>1 DEF Holding
    <3>3. Reading' = Reading
      BY <2>3, <3>2 DEF Reading
    <3>4. UNCHANGED <<unread, ledger>>
      BY <2>3 DEF TrySend
    <3> QED
      BY <1>1, <2>3, <3>3, <3>4
  <2>4. CASE ~UNCHANGED <<rframe, channel>> /\ TrySend(c)
    <3>1. /\ rpc' = [rpc EXCEPT ![c] = "reading"] /\ rframe' = [rframe EXCEPT ![c] = NoFrame]
          /\ channel' = Append(channel, rframe[c]) /\ UNCHANGED <<unread, ledger>>
      BY <2>4 DEF TrySend, RGoto
    <3>2. Reading' = Reading \ {rframe[c]}
      BY <1>0, <2>1, <2>2, <3>1 DEF Reading, Holding
    <3>3. InChannel' = InChannel \cup {rframe[c]}
      <4>1. {Append(channel, rframe[c])[i] : i \in 1..Len(Append(channel, rframe[c]))}
               = InChannel \cup {rframe[c]}
        BY <1>0, <2>1, ChannelMoves DEF InChannel
      <4> QED
        BY <3>1, <4>1 DEF InChannel
    <3> QED
      BY <2>1, <3>1, <3>2, <3>3
  <2>5. CASE RecordMemoryDrop(c)
    <3>1. /\ rpc' = [rpc EXCEPT ![c] = "reading"] /\ rframe' = [rframe EXCEPT ![c] = NoFrame]
          /\ ledger' = ledger \cup {rframe[c]} /\ UNCHANGED <<unread, channel>>
      BY <2>5 DEF RecordMemoryDrop, RGoto
    <3>2. Reading' = Reading \ {rframe[c]}
      BY <1>0, <2>1, <2>2, <3>1 DEF Reading, Holding
    <3> QED
      BY <1>1, <2>1, <3>1, <3>2
  <2>6. CASE RecordChannelDrop(c)
    <3>1. /\ rpc'[c] \in {"dropFull", "dropClosed"} /\ rframe' = rframe
          /\ \A d \in Conns \ {c} : rpc'[d] = rpc[d]
          /\ ledger' = ledger \cup {rframe[c]} /\ UNCHANGED <<unread, channel>>
      BY <1>0, <2>6 DEF RecordChannelDrop, RGoto
    <3>2. Reading' = Reading \ {rframe[c]}
      BY <1>0, <2>1, <2>2, <3>1 DEF Reading, Holding
    <3> QED
      BY <1>1, <2>1, <3>1, <3>2
  <2> QED
    BY <1>4, <2>3, <2>4, <2>5, <2>6
<1> QED
  BY <1>2, <1>3, <1>4 DEF Reader, Handoff

\* Places the writer owns, when a step leaves the writer's variables alone.
LEMMA WriterPlacesKept ==
    ASSUME UNCHANGED <<buffers, flush, parts, discarded>>
    PROVE  UNCHANGED WriterPlaces
  BY DEF WriterPlaces, InHand, BatchFrames, InParts, buffers, flush, parts

\* Adding a part to a set of parts.
LEMMA InPartsAdd ==
    \A S, s : InParts(S \cup {s}) = InParts(S) \cup PartFrames(s)
  BY DEF InParts

\* Taking a part out of a set of parts that share no frames.
LEMMA InPartsRemove ==
    ASSUME NEW S, NEW s \in S,
           \A t \in S : s # t => PartFrames(s) \cap PartFrames(t) = {}
    PROVE  InParts(S \ {s}) = InParts(S) \ PartFrames(s)
  BY DEF InParts

\* Readers keep the accounts.
LEMMA ReaderAccounts ==
    ASSUME TypeOK, Control, StampedOnce, Accounted, NEW c \in Conns,
           Accept(c) \/ JoinReader(c) \/ Reader(c)
    PROVE  Distinct' /\ PartsDisjoint' /\ \A f \in Frames : OnePlace(f)'
<1>0. Empty /\ Distinct /\ PartsDisjoint /\ \A f \in Frames : OnePlace(f)
  BY DEF Accounted
<1>1. UNCHANGED <<wpc, buffers, flush, parts, discarded>>
  BY ReaderKeeps
<1>2. UNCHANGED <<InHand, records, drops, BatchFrames, InParts(store), InParts(failed), discarded>>
  BY <1>1, WriterPlacesKept DEF WriterPlaces
<1>3. PartsDisjoint'
  BY <1>0, <1>1 DEF PartsDisjoint, PartFrames, flush, parts
<1>4. \A f \in Frames : OnePlace(f)'
  <2>1. CASE UNCHANGED <<unread, Reading, InChannel, ledger>>
    BY <1>0, <1>2, <2>1 DEF OnePlace
  <2>2. ASSUME NEW g \in unread, unread' = unread \ {g}, Reading' = Reading \cup {g},
               UNCHANGED <<InChannel, ledger>>
        PROVE  \A f \in Frames : OnePlace(f)'
    BY <1>0, <1>2, <2>2 DEF OnePlace
  <2>3. ASSUME NEW g \in Reading, Reading' = Reading \ {g}, InChannel' = InChannel \cup {g},
               UNCHANGED <<unread, ledger>>
        PROVE  \A f \in Frames : OnePlace(f)'
    BY <1>0, <1>2, <2>3 DEF OnePlace
  <2>4. ASSUME NEW g \in Reading, Reading' = Reading \ {g}, ledger' = ledger \cup {g},
               UNCHANGED <<unread, InChannel>>
        PROVE  \A f \in Frames : OnePlace(f)'
    BY <1>0, <1>2, <2>4 DEF OnePlace
  <2> QED
    BY <1>0, <2>1, <2>2, <2>3, <2>4, ReaderMoves
<1>5. \A d, e \in Conns : d # e /\ rframe'[d] = rframe'[e] => rframe'[d] = NoFrame
  <2>1. rframe \in [Conns -> Frames \cup {NoFrame}] /\ unread \in SUBSET Frames
    BY DEF TypeOK
  <2>2. CASE \E f \in Frames : ReadFrame(c, f)
    <3>1. PICK f \in Frames : ReadFrame(c, f)
      BY <2>2
    <3>2. rframe' = [rframe EXCEPT ![c] = f] /\ f \in unread
      BY <3>1 DEF ReadFrame
    <3>3. \A d \in Conns : rframe[d] # f
      BY <3>2 DEF StampedOnce, Received
    <3> QED
      BY <1>0, <2>1, <3>2, <3>3 DEF Distinct
  <2>3. CASE ~ \E f \in Frames : ReadFrame(c, f)
    <3>1. \A d \in Conns : rframe'[d] \in {rframe[d], NoFrame}
      BY <2>1, <2>3 DEF Accept, JoinReader, Reader, Handoff, ReaderCloses,
         ReaderSeesShutdown, ReaderAborted, Reserve, TrySend, RecordMemoryDrop,
         RecordChannelDrop, DropEvent
    <3> QED
      BY <1>0, <3>1 DEF Distinct
  <2> QED
    BY <2>2, <2>3
<1>6. \A i, j \in 1..Len(channel') : channel'[i] = channel'[j] => i = j
  <2>1. channel \in Seq(Frames) /\ Len(channel) \in Nat
    BY DEF TypeOK
  <2>2. CASE UNCHANGED channel
    BY <1>0, <2>2 DEF Distinct
  <2>3. ASSUME NEW g \in Reading \cap Frames, channel' = Append(channel, g) PROVE <1>6
    <3>1. g \notin InChannel
      BY <1>0 DEF OnePlace
    <3>2. Len(channel') = Len(channel) + 1 /\ channel'[Len(channel) + 1] = g
            /\ \A i \in 1..Len(channel) : channel'[i] = channel[i] /\ channel[i] # g
      BY <2>1, <2>3, <3>1 DEF InChannel
    <3>3. SUFFICES ASSUME NEW i \in 1..(Len(channel) + 1), NEW j \in 1..(Len(channel) + 1),
                          channel'[i] = channel'[j]
                   PROVE  i = j
      BY <3>2
    <3>4. CASE i \in 1..Len(channel) /\ j \in 1..Len(channel)
      BY <1>0, <3>2, <3>3, <3>4 DEF Distinct
    <3>5. CASE i = Len(channel) + 1 \/ j = Len(channel) + 1
      BY <2>1, <3>2, <3>3, <3>5
    <3> QED
      BY <2>1, <3>4, <3>5
  <2>4. CASE TrySend(c)
    <3>1. rframe[c] \in Reading \cap Frames
      BY <2>4 DEF TrySend, Control, Holding, Reading
    <3> QED
      BY <2>2, <2>3, <2>4, <3>1 DEF TrySend
  <2> QED
    BY <2>2, <2>4 DEF Accept, JoinReader, Reader, Handoff, ReadFrame, ReaderCloses,
         ReaderSeesShutdown, ReaderAborted, Reserve, RecordMemoryDrop,
         RecordChannelDrop, DropEvent
<1> QED
  BY <1>3, <1>4, <1>5, <1>6 DEF Distinct

\* What the writer takes from the channel is not in it any more.
LEMMA RecvMoves ==
    ASSUME TypeOK, Distinct, Recv
    PROVE  /\ Head(channel) \in InChannel \cap Frames
           /\ InChannel' = InChannel \ {Head(channel)}
           /\ \A i, j \in 1..Len(channel') : channel'[i] = channel'[j] => i = j
<1>0. channel \in Seq(Frames) /\ channel # <<>> /\ channel' = Tail(channel)
  BY DEF TypeOK, Recv
<1>1. /\ Len(channel) \in Nat /\ Len(channel) >= 1
      /\ Len(channel') = Len(channel) - 1 /\ Head(channel) = channel[1]
      /\ \A i \in 1..Len(channel') : channel'[i] = channel[i + 1]
  BY <1>0
<1>2. \A i, j \in 1..Len(channel') : channel'[i] = channel'[j] => i = j
  <2> SUFFICES ASSUME NEW i \in 1..Len(channel'), NEW j \in 1..Len(channel'),
                      channel'[i] = channel'[j]
               PROVE  i = j
    OBVIOUS
  <2>1. i + 1 \in 1..Len(channel) /\ j + 1 \in 1..Len(channel) /\ i \in Int /\ j \in Int
    BY <1>1
  <2>2. i + 1 = j + 1
    BY <1>1, <2>1 DEF Distinct
  <2> QED
    BY <2>1, <2>2
<1>3. InChannel = {Head(channel)} \cup InChannel'
  <2>1. {channel[i] : i \in 1..Len(channel)}
           = {Head(channel)} \cup {Tail(channel)[i] : i \in 1..Len(Tail(channel))}
    BY <1>0, ChannelMoves
  <2> QED
    BY <1>0, <2>1 DEF InChannel
<1>4. Head(channel) \notin InChannel'
  <2> SUFFICES ASSUME NEW i \in 1..Len(channel'), channel'[i] = Head(channel)
               PROVE  FALSE
    BY DEF InChannel
  <2>1. i + 1 \in 1..Len(channel) /\ 1 \in 1..Len(channel) /\ i \in Int /\ i + 1 # 1
    BY <1>1
  <2>2. channel[i + 1] = channel[1]
    BY <1>1
  <2> QED
    BY <2>1, <2>2 DEF Distinct
<1> QED
  BY <1>0, <1>2, <1>3, <1>4, ChannelMoves

\* The writer and the store keep the accounts.
LEMMA WriterAccounts ==
    ASSUME TypeOK, Control, Accounted, WriterSide
    PROVE  Distinct' /\ PartsDisjoint' /\ \A f \in Frames : OnePlace(f)'
<1>0. Empty /\ Distinct /\ PartsDisjoint /\ \A f \in Frames : OnePlace(f)
  BY DEF Accounted
<1>1. UNCHANGED <<unread, rpc, rframe>> /\ UNCHANGED Reading
  BY WriterKeeps DEF readers, Reading
<1>2. \A d, e \in Conns : d # e /\ rframe'[d] = rframe'[e] => rframe'[d] = NoFrame
  BY <1>0, <1>1 DEF Distinct
<1>3. UNCHANGED channel => Distinct' /\ UNCHANGED InChannel
  BY <1>0, <1>2 DEF Distinct, InChannel
<1>4. UNCHANGED <<store, failed>> =>
        UNCHANGED <<InParts(store), InParts(failed)>>
  BY DEF InParts
<1>5. UNCHANGED <<store, failed>> /\ wpc' # "put" => PartsDisjoint'
  BY <1>0 DEF PartsDisjoint, PartFrames
<1>6. UNCHANGED hand => UNCHANGED InHand
  BY DEF InHand
<1>7. UNCHANGED batch => UNCHANGED BatchFrames
  BY DEF BatchFrames
<1>8. CASE Recv
  <2>1. InHand = {} /\ InHand' = {Head(channel)}
    BY <1>0, <1>8, RecvMoves, FramesAssumption DEF InHand, Empty, Recv
  <2>2. /\ UNCHANGED <<records, store, failed, batch, discarded>> /\ wpc' # "put"
        /\ \/ UNCHANGED <<ledger, drops>>
           \/ drops' = drops \cup ledger /\ ledger' = {}
    BY <1>8 DEF Recv, FoldAllPendingDrops, StartFlush, parts
  <2>3. \A f \in Frames : OnePlace(f)'
    BY <1>0, <1>1, <1>4, <1>7, <1>8, <2>1, <2>2, RecvMoves DEF OnePlace
  <2> QED
    BY <1>0, <1>2, <1>5, <1>8, <2>2, <2>3, RecvMoves DEF Distinct
<1>9. CASE TimerFires \/ RecvNone
  <2>1. /\ UNCHANGED <<channel, hand, records, store, failed, batch, discarded>> /\ wpc' # "put"
        /\ drops' = drops \cup ledger /\ ledger' = {}
    BY <1>9 DEF TimerFires, RecvNone, FoldAllPendingDrops, StartFlush, parts
  <2>2. \A f \in Frames : OnePlace(f)'
    BY <1>0, <1>1, <1>3, <1>4, <1>6, <1>7, <2>1 DEF OnePlace
  <2> QED
    BY <1>3, <1>5, <2>1, <2>2
<1>10. CASE FoldAndSpill
  <2>1. /\ UNCHANGED <<channel, hand, records, store, failed, batch, discarded>> /\ wpc' # "put"
        /\ drops' = drops \cup Of(CohortOf[hand], ledger)
        /\ ledger' = ledger \ Of(CohortOf[hand], ledger)
    BY <1>10 DEF FoldAndSpill, StartFlush, parts
  <2>2. Of(CohortOf[hand], ledger) \in SUBSET ledger
    BY DEF Of
  <2>3. \A f \in Frames : OnePlace(f)'
    BY <1>0, <1>1, <1>3, <1>4, <1>6, <1>7, <2>1, <2>2 DEF OnePlace
  <2> QED
    BY <1>3, <1>5, <2>1, <2>3
<1>11. CASE RelievePressure
  <2>1. UNCHANGED <<channel, ledger, hand, records, drops, store, failed, batch, discarded>>
          /\ wpc' # "put"
    BY <1>11 DEF RelievePressure, StartFlush, buffers, parts
  <2>2. \A f \in Frames : OnePlace(f)'
    BY <1>0, <1>1, <1>3, <1>4, <1>6, <1>7, <2>1 DEF OnePlace
  <2> QED
    BY <1>3, <1>5, <2>1, <2>2
<1>12. CASE AddRecord
  <2>1. UNCHANGED <<channel, ledger, drops, store, failed, batch, discarded>> /\ wpc' # "put"
          /\ records' = records \cup {hand} /\ hand \in Frames
    BY <1>12 DEF AddRecord, Select, Control, flush, parts
  <2>2. InHand = {hand} /\ InHand' = {}
    BY <1>12, <2>1, FramesAssumption DEF AddRecord, InHand
  <2>3. \A f \in Frames : OnePlace(f)'
    BY <1>0, <1>1, <1>3, <1>4, <1>7, <2>1, <2>2 DEF OnePlace
  <2> QED
    BY <1>3, <1>5, <2>1, <2>3
<1>13. ASSUME NEW c \in Cohorts, FlushCohort(c)
       PROVE  Distinct' /\ PartsDisjoint' /\ \A f \in Frames : OnePlace(f)'
  <2> DEFINE X == Of(c, records)
             Y == Of(c, drops)
             Z == Of(c, ledger)
  <2>1. /\ UNCHANGED <<channel, hand, store, failed, discarded>> /\ wpc = "flush"
        /\ records' = records \ X /\ drops' = drops \ Y /\ ledger' = ledger \ Z
    BY <1>13 DEF FlushCohort, parts
  <2>2. X \in SUBSET records /\ Y \in SUBSET drops /\ Z \in SUBSET ledger
          /\ Of(c, drops \cup ledger) = Y \cup Z
    BY DEF Of
  <2>3. batch'.records = X /\ batch'.drops = Y \cup Z
    BY <1>13, <2>2 DEF FlushCohort
  <2>4. batch' # NoBatch
    <3>1. batch' \in Parts
      BY <1>13 DEF FlushCohort, Parts, Of, TypeOK
    <3> QED
      BY <3>1, NoBatchAssumption DEF Parts
  <2>5. BatchFrames = {}
    BY <1>0, <2>1 DEF BatchFrames, Empty
  <2>6. BatchFrames' = X \cup Y \cup Z
    BY <2>3, <2>4 DEF BatchFrames
  <2> HIDE DEF X, Y, Z
  <2>7. \A f \in Frames : OnePlace(f)'
    BY <1>0, <1>1, <1>3, <1>4, <1>6, <2>1, <2>2, <2>5, <2>6 DEF OnePlace
  <2>8. records \in SUBSET Frames
    BY DEF TypeOK
  <2>9. X \cap (Y \cup Z) = {}
    BY <1>0, <2>2, <2>8 DEF OnePlace
  <2>10. PartsDisjoint'
    BY <1>0, <2>1, <2>3, <2>9 DEF PartsDisjoint, PartFrames
  <2> QED
    BY <1>3, <2>1, <2>7, <2>10
<1>14. ASSUME NEW f \in Frames, ReleaseRecord(f)
       PROVE  Distinct' /\ PartsDisjoint' /\ \A g \in Frames : OnePlace(g)'
  <2>1. UNCHANGED <<channel, ledger, wpc, hand, records, drops, store, failed, batch, discarded>>
    BY <1>14 DEF ReleaseRecord, buffers, parts
  <2>2. \A g \in Frames : OnePlace(g)'
    BY <1>0, <1>1, <1>3, <1>4, <1>6, <1>7, <2>1 DEF OnePlace
  <2>3. PartsDisjoint'
    BY <1>0, <2>1 DEF PartsDisjoint, PartFrames
  <2> QED
    BY <1>3, <2>1, <2>2, <2>3
<1>15. CASE PutSucceeds \/ PutFails
  <2>1. /\ UNCHANGED <<channel, ledger, hand, records, drops, discarded>>
        /\ wpc = "put" /\ wpc' = "flush" /\ batch' = NoBatch
        /\ \/ store' = store \cup {batch} /\ failed' = failed
           \/ failed' = failed \cup {batch} /\ store' = store
    BY <1>15 DEF PutSucceeds, PutFails, EndPut, buffers
  <2>2. BatchFrames = PartFrames(batch)
    BY <1>0, <2>1, BatchPlace DEF PartFrames
  <2>3. BatchFrames' = {}
    BY <2>1 DEF BatchFrames
  <2>4. \/ InParts(store') = InParts(store) \cup BatchFrames /\ InParts(failed') = InParts(failed)
        \/ InParts(failed') = InParts(failed) \cup BatchFrames /\ InParts(store') = InParts(store)
    BY <2>1, <2>2, InPartsAdd
  <2>5. \A f \in Frames : OnePlace(f)'
    BY <1>0, <1>1, <1>3, <1>6, <2>1, <2>3, <2>4 DEF OnePlace, InParts
  <2>6. \A t \in store \cup failed : PartFrames(t) \cap PartFrames(batch) = {}
    <3>1. PartFrames(batch) \in SUBSET Frames
      BY <2>1 DEF Control, PartFrames, Parts
    <3>2. \A t \in store \cup failed : PartFrames(t) \in SUBSET (InParts(store) \cup InParts(failed))
      BY DEF InParts
    <3> QED
      BY <1>0, <2>2, <3>1, <3>2 DEF OnePlace
  <2>7. store' \cup failed' = store \cup failed \cup {batch}
    BY <2>1
  <2>8. PartsDisjoint'
    BY <1>0, <2>1, <2>6, <2>7 DEF PartsDisjoint, PartFrames
  <2> QED
    BY <1>3, <2>1, <2>5, <2>8
<1>16. CASE AdvanceWindow \/ OpenWindow \/ CohortSpilled \/ PressureRelieved \/ WriterReturns
  <2>1. UNCHANGED <<channel, ledger, hand, records, drops, store, failed, batch, discarded>>
          /\ wpc' # "put"
    BY <1>16 DEF AdvanceWindow, OpenWindow, CohortSpilled, PressureRelieved, WriterReturns,
                FlushedFor, Select, parts
  <2>2. \A f \in Frames : OnePlace(f)'
    BY <1>0, <1>1, <1>3, <1>4, <1>6, <1>7, <2>1 DEF OnePlace
  <2> QED
    BY <1>3, <1>5, <2>1, <2>2
<1>17. CASE WriterPanics \/ WriterAborted
  <2>1. WriterDies
    BY <1>17 DEF WriterPanics, WriterAborted
  <2>2. /\ channel' = <<>> /\ InChannel' = {} /\ InHand' = {} /\ records' = {} /\ drops' = {}
        /\ BatchFrames' = {} /\ UNCHANGED <<ledger, store>> /\ wpc' = "dead"
    BY <2>1 DEF WriterDies, InChannel, InHand, BatchFrames
  <2>3. Distinct'
    BY <1>2, <2>2 DEF Distinct
  <2>4. CASE PutStarted
    <3>1. wpc = "put" /\ failed' = failed \cup {batch}
            /\ discarded' = discarded \cup InChannel \cup InHand \cup records \cup drops
      BY <2>1, <2>4 DEF WriterDies, PutStarted
    <3>2. BatchFrames = PartFrames(batch)
      BY <1>0, <3>1, BatchPlace DEF PartFrames
    <3>3. InParts(failed') = InParts(failed) \cup BatchFrames /\ InParts(store') = InParts(store)
      BY <2>2, <3>1, <3>2, InPartsAdd
    <3>4. \A f \in Frames : OnePlace(f)'
      BY <1>0, <1>1, <2>2, <3>1, <3>3 DEF OnePlace, InParts
    <3>5. \A t \in store \cup failed : PartFrames(t) \cap PartFrames(batch) = {}
      <4>1. PartFrames(batch) \in SUBSET Frames
        BY <3>1 DEF Control, PartFrames, Parts
      <4>2. \A t \in store \cup failed : PartFrames(t) \in SUBSET (InParts(store) \cup InParts(failed))
        BY DEF InParts
      <4> QED
        BY <1>0, <3>2, <4>1, <4>2 DEF OnePlace
    <3>6. PartsDisjoint'
      BY <1>0, <2>2, <3>1, <3>5 DEF PartsDisjoint, PartFrames
    <3> QED
      BY <2>3, <3>4, <3>6
  <2>5. CASE ~PutStarted
    <3>1. failed' = failed /\ discarded' = discarded \cup InChannel \cup InHand \cup records
                                             \cup drops \cup BatchFrames
      BY <2>1, <2>5 DEF WriterDies
    <3>2. \A f \in Frames : OnePlace(f)'
      BY <1>0, <1>1, <1>4, <2>2, <3>1 DEF OnePlace
    <3> QED
      BY <1>5, <2>2, <2>3, <3>1, <3>2
  <2> QED
    BY <2>4, <2>5
<1>18. ASSUME NEW s \in failed, LateLand(s)
       PROVE  Distinct' /\ PartsDisjoint' /\ \A f \in Frames : OnePlace(f)'
  <2>1. /\ UNCHANGED <<channel, ledger, wpc, hand, records, drops, batch, discarded>>
        /\ failed' = failed \ {s} /\ store' = store \cup {s}
    BY <1>18 DEF LateLand, buffers, flush
  <2>2. InParts(store') = InParts(store) \cup PartFrames(s)
    BY <2>1, InPartsAdd
  <2>3. InParts(failed') = InParts(failed) \ PartFrames(s)
    BY <1>0, <2>1, InPartsRemove DEF PartsDisjoint
  <2>4. PartFrames(s) \in SUBSET InParts(failed)
    BY DEF InParts
  <2>5. \A f \in Frames : OnePlace(f)'
    BY <1>0, <1>1, <1>3, <1>6, <1>7, <2>1, <2>2, <2>3, <2>4 DEF OnePlace, InParts
  <2>6. PartsDisjoint'
    BY <1>0, <2>1 DEF PartsDisjoint, PartFrames
  <2> QED
    BY <1>3, <2>1, <2>5, <2>6
<1> QED
  BY <1>8, <1>9, <1>10, <1>11, <1>12, <1>13, <1>14, <1>15, <1>16, <1>17, <1>18
     DEF WriterSide, WriterStep

\* Every step keeps the accounts.
LEMMA AccountedNext ==
    ASSUME TypeOK, Control, StampedOnce, Accounted, [Next]_vars
    PROVE  Accounted'
<1>0. Empty'
  BY EmptyNext DEF Accounted
<1>1. CASE MainStep
  <2>1. UNCHANGED <<unread, rpc, rframe, channel, ledger, wpc, records, drops, batch, hand,
                    store, failed, discarded>>
    BY <1>1, MainKeeps DEF readers, buffers, flush, parts
  <2>2. UNCHANGED <<Reading, InChannel, InHand, BatchFrames, InParts(store), InParts(failed)>>
    BY <2>1 DEF Reading, InChannel, InHand, BatchFrames, InParts
  <2>3. \A f \in Frames : OnePlace(f)'
    BY <2>1, <2>2 DEF Accounted, OnePlace
  <2>4. Distinct' /\ PartsDisjoint'
    BY <2>1 DEF Accounted, Distinct, PartsDisjoint, PartFrames
  <2> QED
    BY <1>0, <2>3, <2>4 DEF Accounted
<1>2. CASE WriterSide
  BY <1>0, <1>2, WriterAccounts DEF Accounted
<1>3. ASSUME NEW c \in Conns, Accept(c) \/ JoinReader(c) \/ Reader(c) PROVE Accounted'
  BY <1>0, <1>3, ReaderAccounts DEF Accounted
<1> QED
  BY <1>1, <1>2, <1>3, StepKinds

-----------------------------------------------------------------------------
(* Memory guards.                                                          *)

\* What the channel and the writer hold is with no reader and was received.
LEMMA HeldApart ==
    ASSUME TypeOK, Control, Accounted
    PROVE  /\ Held \in SUBSET Frames
           /\ (Reading \cup unread) \cap Held = {}
           /\ unreleased \cap (InChannel \cup InHand \cup records) = {}
<1>1. InChannel \in SUBSET Frames /\ InHand \in SUBSET Frames
  BY DEF TypeOK, InChannel, InHand
<1>2. Held \in SUBSET Frames
  BY <1>1 DEF TypeOK, Held
<1>3. unreleased \in SUBSET BatchFrames
  BY BatchPlace DEF Accounted, Empty
<1> QED
  BY <1>1, <1>2, <1>3 DEF Held, Accounted, OnePlace

\* A reader's guards are its own.
LEMMA GuardsApart ==
    ASSUME TypeOK, Control, Accounted, DropsNotHeld
    PROVE  ReaderGuards \in SUBSET Frames /\ ReaderGuards \cap Held = {}
<1>1. ReaderGuards \in SUBSET Frames
  BY DEF ReaderGuards, Control
<1>2. ASSUME NEW c \in Conns, rpc[c] \in Holding \ {"stamped", "refused"}
      PROVE  rframe[c] \notin Held
  <2>1. CASE rpc[c] \in {"dropFull", "dropClosed"}
    BY <2>1 DEF DropsNotHeld
  <2>2. CASE rpc[c] \notin {"dropFull", "dropClosed"}
    <3>1. rframe[c] \in Reading
      BY <1>2, <2>2 DEF Reading
    <3> QED
      BY <3>1, HeldApart
  <2> QED
    BY <2>1, <2>2
<1> QED
  BY <1>1, <1>2 DEF ReaderGuards

\* A reader makes a guard, hands one over, drops one, or does not touch any.
LEMMA ReaderGuardMoves ==
    ASSUME TypeOK, Control, Distinct, NEW c \in Conns,
           Accept(c) \/ JoinReader(c) \/ Reader(c)
    PROVE  \/ UNCHANGED <<used, ReaderGuards, Held>>
           \/ \E f \in Reading \ ReaderGuards :
                 /\ used' = used + RecordBytes[f] /\ used' <= LiveMemoryBytes
                 /\ ReaderGuards' = ReaderGuards \cup {f} /\ UNCHANGED Held
           \/ \E f \in ReaderGuards :
                 /\ UNCHANGED used
                 /\ ReaderGuards' = ReaderGuards \ {f} /\ Held' = Held \cup {f}
           \/ \E f \in ReaderGuards :
                 /\ used' = Released(RecordBytes[f])
                 /\ ReaderGuards' = ReaderGuards \ {f} /\ UNCHANGED Held
<1>0. /\ rpc \in [Conns -> Holding \cup {"none", "reading", "done"}]
      /\ rframe \in [Conns -> Frames \cup {NoFrame}]
      /\ channel \in Seq(Frames)
  BY DEF TypeOK
<1>1. UNCHANGED <<hand, records, unreleased>>
  BY ReaderKeeps DEF buffers, flush
<1>2. UNCHANGED channel => UNCHANGED Held
  BY <1>1 DEF Held, InChannel, InHand
<1>3. rpc[c] \in Holding => rframe[c] \in Frames /\ \A d \in Conns \ {c} : rframe[d] # rframe[c]
  BY FramesAssumption DEF Control, Distinct
<1>4. ASSUME UNCHANGED <<used, channel>>,
             \A d \in Conns :
               /\ (rpc'[d] \in Holding \ {"stamped", "refused"}) <=>
                     (rpc[d] \in Holding \ {"stamped", "refused"})
               /\ rpc[d] \in Holding \ {"stamped", "refused"} => rframe'[d] = rframe[d]
      PROVE  UNCHANGED <<used, ReaderGuards, Held>>
  BY <1>2, <1>4 DEF ReaderGuards
<1>5. CASE Accept(c) \/ JoinReader(c) \/ ReaderCloses(c) \/ ReaderSeesShutdown(c)
             \/ ReaderAborted(c) \/ RecordMemoryDrop(c) \/ RecordChannelDrop(c)
             \/ \E f \in Frames : ReadFrame(c, f)
  <2>1. UNCHANGED <<used, channel>>
    BY <1>5 DEF Accept, JoinReader, ReaderCloses, ReaderSeesShutdown, ReaderAborted,
                RecordMemoryDrop, RecordChannelDrop, ReadFrame
  <2>2. \A d \in Conns :
           /\ (rpc'[d] \in Holding \ {"stamped", "refused"}) <=>
                 (rpc[d] \in Holding \ {"stamped", "refused"})
           /\ rpc[d] \in Holding \ {"stamped", "refused"} => rframe'[d] = rframe[d]
    BY <1>0, <1>5 DEF Accept, JoinReader, ReaderCloses, ReaderSeesShutdown, ReaderAborted,
                RecordMemoryDrop, RecordChannelDrop, ReadFrame, RGoto, Holding
  <2> QED
    BY <1>4, <2>1, <2>2
<1>6. CASE Reserve(c)
  <2>1. rpc[c] = "stamped" /\ UNCHANGED <<rframe, channel>> /\ rframe[c] \in Reading \ ReaderGuards
    BY <1>3, <1>6 DEF Reserve, Holding, Reading, ReaderGuards
  <2>2. CASE used + RecordBytes[rframe[c]] > LiveMemoryBytes
    <3>1. rpc' = [rpc EXCEPT ![c] = "refused"] /\ UNCHANGED used
      BY <1>6, <2>2 DEF Reserve, RGoto
    <3> QED
      BY <1>0, <1>4, <2>1, <3>1 DEF Holding
  <2>3. CASE ~(used + RecordBytes[rframe[c]] > LiveMemoryBytes)
    <3>1. rpc' = [rpc EXCEPT ![c] = "reserved"] /\ used' = used + RecordBytes[rframe[c]]
      BY <1>6, <2>3 DEF Reserve, RGoto
    <3>2. used' \in Int /\ LiveMemoryBytes \in Int
      BY <1>3, <2>1, <3>1, BytesType, ConfigAssumption
         DEF Holding, TypeOK, LiveMemoryBytes, ValidConfig
    <3>3. used' <= LiveMemoryBytes
      BY <2>3, <3>1, <3>2
    <3>4. ReaderGuards' = ReaderGuards \cup {rframe[c]}
      BY <1>0, <2>1, <3>1 DEF ReaderGuards, Holding
    <3> QED
      BY <1>2, <2>1, <3>1, <3>3, <3>4
  <2> QED
    BY <2>2, <2>3
<1>7. CASE TrySend(c)
  <2>1. rpc[c] = "reserved" /\ UNCHANGED used /\ rframe[c] \in ReaderGuards
    BY <1>7 DEF TrySend, Holding, ReaderGuards
  <2>2. CASE UNCHANGED <<rframe, channel>>
    <3>1. rpc' = [rpc EXCEPT ![c] = "closed"] \/ rpc' = [rpc EXCEPT ![c] = "full"]
      BY <1>0, <1>3, <1>7, <2>1, <2>2, FramesAssumption DEF TrySend, RGoto, Holding
    <3> QED
      BY <1>0, <1>4, <2>1, <2>2, <3>1 DEF Holding
  <2>3. CASE ~UNCHANGED <<rframe, channel>>
    <3>1. /\ rpc' = [rpc EXCEPT ![c] = "reading"] /\ rframe' = [rframe EXCEPT ![c] = NoFrame]
          /\ channel' = Append(channel, rframe[c])
      BY <1>7, <2>3 DEF TrySend, RGoto
    <3>2. ReaderGuards' = ReaderGuards \ {rframe[c]}
      BY <1>0, <1>3, <2>1, <3>1 DEF ReaderGuards, Holding
    <3>3. {Append(channel, rframe[c])[i] : i \in 1..Len(Append(channel, rframe[c]))}
             = InChannel \cup {rframe[c]}
      BY <1>0, <1>3, <2>1, ChannelMoves DEF InChannel, Holding
    <3>4. InChannel' = InChannel \cup {rframe[c]}
      BY <3>1, <3>3 DEF InChannel
    <3>5. Held' = Held \cup {rframe[c]}
      BY <1>1, <3>4 DEF Held, InHand
    <3> QED
      BY <2>1, <3>2, <3>5
  <2> QED
    BY <2>2, <2>3
<1>8. CASE DropEvent(c)
  <2>1. /\ rframe[c] \in ReaderGuards /\ used' = Released(RecordBytes[rframe[c]])
        /\ UNCHANGED channel /\ rpc[c] \in Holding
        /\ rpc'[c] \in {"reading", "done"} /\ rframe' = [rframe EXCEPT ![c] = NoFrame]
        /\ \A d \in Conns \ {c} : rpc'[d] = rpc[d]
    BY <1>0, <1>8 DEF DropEvent, Holding, ReaderGuards, RGoto
  <2>2. ReaderGuards' = ReaderGuards \ {rframe[c]}
    BY <1>0, <1>3, <2>1 DEF ReaderGuards, Holding
  <2> QED
    BY <1>2, <2>1, <2>2
<1> QED
  BY <1>5, <1>6, <1>7, <1>8 DEF Reader, Handoff

\* The writer passes guards on, drops one, or takes them all down with it.
LEMMA WriterGuardMoves ==
    ASSUME TypeOK, Control, Accounted, WriterSide
    PROVE  \/ UNCHANGED <<used, Held>>
           \/ \E f \in Held : used' = Released(RecordBytes[f]) /\ Held' = Held \ {f}
           \/ used' = Released(ByteSum(Held, RecordBytes)) /\ Held' = {}
<1>0. Empty /\ Distinct
  BY DEF Accounted
<1>1. UNCHANGED <<used, channel, hand, records, unreleased>> => UNCHANGED <<used, Held>>
  BY DEF Held, InChannel, InHand
<1>2. CASE Recv
  <2>1. InHand = {} /\ InHand' = {Head(channel)}
    BY <1>0, <1>2, RecvMoves, FramesAssumption DEF InHand, Empty, Recv
  <2>2. UNCHANGED <<used, records, unreleased>>
    BY <1>2 DEF Recv
  <2>3. InChannel' \cup InHand' = InChannel \cup InHand
    BY <1>0, <1>2, <2>1, RecvMoves
  <2>4. UNCHANGED Held
    BY <2>2, <2>3 DEF Held
  <2> QED
    BY <2>2, <2>4
<1>3. CASE TimerFires \/ RecvNone \/ FoldAndSpill \/ RelievePressure \/ PutSucceeds \/ PutFails
             \/ AdvanceWindow \/ OpenWindow \/ CohortSpilled \/ PressureRelieved \/ WriterReturns
             \/ \E s \in failed : LateLand(s)
  <2>1. UNCHANGED <<used, channel, hand, records, unreleased>>
    BY <1>3 DEF TimerFires, RecvNone, FoldAndSpill, RelievePressure, PutSucceeds, PutFails,
         EndPut, AdvanceWindow, OpenWindow, CohortSpilled, PressureRelieved, WriterReturns,
         FlushedFor, LateLand, buffers, flush
  <2> QED
    BY <1>1, <2>1
<1>4. CASE AddRecord
  <2>1. UNCHANGED <<used, channel, unreleased>> /\ records' = records \cup {hand} /\ hand \in Frames
          /\ hand' = NoFrame
    BY <1>4 DEF AddRecord, Control, flush
  <2>2. InHand = {hand} /\ InHand' = {}
    BY <2>1, FramesAssumption DEF InHand
  <2>3. UNCHANGED Held
    BY <2>1, <2>2 DEF Held, InChannel
  <2> QED
    BY <2>1, <2>3
<1>5. ASSUME NEW c \in Cohorts, FlushCohort(c) PROVE UNCHANGED <<used, Held>>
  <2>1. UNCHANGED <<used, channel, hand>> /\ unreleased = {} /\ unreleased' = Of(c, records)
          /\ records' = records \ Of(c, records)
    BY <1>0, <1>5 DEF FlushCohort, Empty
  <2>2. records' \cup unreleased' = records \cup unreleased
    BY <2>1 DEF Of
  <2>3. UNCHANGED <<InChannel, InHand>>
    BY <2>1 DEF InChannel, InHand
  <2> QED
    BY <2>1, <2>2, <2>3 DEF Held
<1>6. ASSUME NEW f \in Frames, ReleaseRecord(f)
      PROVE  f \in Held /\ used' = Released(RecordBytes[f]) /\ Held' = Held \ {f}
  <2>1. UNCHANGED <<channel, hand, records>> /\ unreleased' = unreleased \ {f} /\ f \in unreleased
          /\ used' = Released(RecordBytes[f])
    BY <1>6 DEF ReleaseRecord, buffers
  <2>2. UNCHANGED <<InChannel, InHand>>
    BY <2>1 DEF InChannel, InHand
  <2> QED
    BY <2>1, <2>2, HeldApart DEF Held
<1>7. CASE WriterPanics \/ WriterAborted
  <2>1. WriterDies
    BY <1>7 DEF WriterPanics, WriterAborted
  <2>2. Held' = {}
    BY <2>1 DEF WriterDies, Held, InChannel, InHand
  <2>3. used' = Released(ByteSum(Held, RecordBytes))
    BY <2>1 DEF WriterDies, Held
  <2> QED
    BY <2>2, <2>3
<1> QED
  BY <1>2, <1>3, <1>4, <1>5, <1>6, <1>7 DEF WriterSide, WriterStep

\* A counted drop never comes back while its reader still has the event.
LEMMA DropsNotHeldNext ==
    ASSUME TypeOK, Control, Accounted, DropsNotHeld, [Next]_vars
    PROVE  DropsNotHeld'
<1>0. Empty /\ Distinct
  BY DEF Accounted
<1>1. CASE MainStep
  <2>1. UNCHANGED <<rpc, rframe, unread, channel, hand, records, unreleased>>
    BY <1>1, MainKeeps DEF readers, buffers, flush
  <2> QED
    BY <2>1 DEF DropsNotHeld, Held, InChannel, InHand
<1>2. CASE WriterSide
  <2>1. UNCHANGED <<rpc, rframe, unread>>
    BY <1>2, WriterKeeps DEF readers
  <2>2. Held' \in SUBSET Held
    BY <1>2, WriterGuardMoves
  <2> QED
    BY <2>1, <2>2 DEF DropsNotHeld
<1>3. ASSUME NEW c \in Conns, Accept(c) \/ JoinReader(c) \/ Reader(c),
             NEW d \in Conns, rpc'[d] \in {"dropFull", "dropClosed"}
      PROVE  rframe'[d] \notin Held' \cup unread'
  <2>0. /\ rpc \in [Conns -> Holding \cup {"none", "reading", "done"}]
        /\ rframe \in [Conns -> Frames \cup {NoFrame}]
    BY DEF TypeOK
  <2>1. unread' \in SUBSET unread
    BY <1>3 DEF Accept, JoinReader, Reader, Handoff, ReadFrame, ReaderCloses,
         ReaderSeesShutdown, ReaderAborted, Reserve, TrySend, RecordMemoryDrop,
         RecordChannelDrop, DropEvent
  <2>2. CASE RecordChannelDrop(c) /\ d = c
    <3>1. rframe[c] \in Reading /\ UNCHANGED <<rframe, channel>>
      BY <2>2 DEF RecordChannelDrop, Reading, Holding
    <3>2. UNCHANGED <<hand, records, unreleased>>
      BY <1>3, ReaderKeeps DEF buffers, flush
    <3>3. UNCHANGED Held
      BY <3>1, <3>2 DEF Held, InChannel, InHand
    <3>4. rframe[c] \notin Held \cup unread
      BY <2>2, <3>1, HeldApart DEF Accounted, OnePlace, RecordChannelDrop, Control, Holding
    <3> QED
      BY <2>1, <2>2, <3>1, <3>3, <3>4
  <2>3. CASE ~(RecordChannelDrop(c) /\ d = c)
    <3>1. d # c /\ rpc[d] \in {"dropFull", "dropClosed"} /\ rframe'[d] = rframe[d]
      BY <1>3, <2>0, <2>3 DEF Accept, JoinReader, Reader, Handoff, ReadFrame, ReaderCloses,
         ReaderSeesShutdown, ReaderAborted, Reserve, TrySend, RecordMemoryDrop,
         RecordChannelDrop, DropEvent, RGoto
    <3>2. rframe[d] \notin Held \cup unread /\ rframe[d] \in Frames
      BY <3>1 DEF DropsNotHeld, Control, Holding
    <3>3. CASE TrySend(c)
      <4>1. rframe[c] # rframe[d] /\ rframe[c] \in Frames
        BY <1>0, <3>1, <3>2, <3>3, FramesAssumption DEF Distinct, TrySend, Control, Holding
      <4>2. InChannel' \in SUBSET (InChannel \cup {rframe[c]})
        <5>1. CASE channel' = channel
          BY <5>1 DEF InChannel
        <5>2. CASE channel' = Append(channel, rframe[c])
          <6>1. {Append(channel, rframe[c])[i] : i \in 1..Len(Append(channel, rframe[c]))}
                   = InChannel \cup {rframe[c]}
            BY <4>1, ChannelMoves DEF InChannel, TypeOK
          <6> QED
            BY <5>2, <6>1 DEF InChannel
        <5> QED
          BY <3>3, <5>1, <5>2 DEF TrySend
      <4>3. UNCHANGED <<hand, records, unreleased>>
        BY <1>3, ReaderKeeps DEF buffers, flush
      <4>4. Held' \in SUBSET (Held \cup {rframe[c]})
        BY <4>2, <4>3 DEF Held, InHand
      <4> QED
        BY <2>1, <3>1, <3>2, <4>1, <4>4
    <3>4. CASE ~TrySend(c)
      <4>1. UNCHANGED <<channel, hand, records, unreleased>>
        <5>1. UNCHANGED channel
          BY <1>3, <3>4 DEF Accept, JoinReader, Reader, Handoff, ReadFrame, ReaderCloses,
             ReaderSeesShutdown, ReaderAborted, Reserve, RecordMemoryDrop,
             RecordChannelDrop, DropEvent
        <5> QED
          BY <1>3, <5>1, ReaderKeeps DEF buffers, flush
      <4>2. UNCHANGED Held
        BY <4>1 DEF Held, InChannel, InHand
      <4> QED
        BY <2>1, <3>1, <3>2, <4>2
    <3> QED
      BY <3>3, <3>4
  <2> QED
    BY <2>2, <2>3
<1> QED
  BY <1>1, <1>2, <1>3, StepKinds DEF DropsNotHeld

\* Every step keeps the count of the live bytes exact and within the budget.
LEMMA LiveNext ==
    ASSUME TypeOK, Control, Accounted, DropsNotHeld, Live, [Next]_vars
    PROVE  Live'
<1> DEFINE G == ReaderGuards \cup Held
           B(S) == ByteSum(S, RecordBytes)
<1>0. /\ IsFiniteSet(Frames) /\ MaxRecordBytes \in Nat /\ RecordBytes \in [Frames -> 1..MaxRecordBytes]
      /\ used \in Nat /\ LiveMemoryBytes \in Int
      /\ \A f \in Frames : RecordBytes[f] \in Nat
  BY FramesAssumption, ConfigAssumption DEF TypeOK, LiveMemoryBytes, ValidConfig
<1>1. Guarded = G /\ Guarded' = ReaderGuards' \cup Held'
  BY DEF Guarded, Held
<1>2. used = B(G) /\ B(G) <= LiveMemoryBytes
  BY <1>1 DEF Live, MemoryIsExact
<1>3. SUFFICES used' = B(ReaderGuards' \cup Held') /\ used' <= LiveMemoryBytes
  BY <1>1 DEF Live, MemoryIsExact
<1>4. ReaderGuards \in SUBSET Frames /\ Held \in SUBSET Frames /\ ReaderGuards \cap Held = {}
        /\ Reading \cap Held = {} /\ G \in SUBSET Frames
  BY GuardsApart, HeldApart
<1>5. ASSUME NEW T \in SUBSET G, used' = Released(B(T)), ReaderGuards' \cup Held' = G \ T
      PROVE  used' = B(ReaderGuards' \cup Held') /\ used' <= LiveMemoryBytes
  <2>1. B(G \ T) = B(G) - B(T) /\ B(T) <= B(G)
    BY <1>0, <1>4, ByteSumRemove
  <2>2. B(T) \in Nat /\ B(G) \in Nat
    <3>1. T \in SUBSET Frames
      BY <1>4
    <3> QED
      BY <1>0, <1>4, <3>1, ByteSumType
  <2> HIDE DEF B, G
  <2> QED
    BY <1>0, <1>2, <1>5, <2>1, <2>2 DEF Released
<1>6. ASSUME NEW f \in G, used' = Released(RecordBytes[f]), ReaderGuards' \cup Held' = G \ {f}
      PROVE  used' = B(ReaderGuards' \cup Held') /\ used' <= LiveMemoryBytes
  <2>1. B({f}) = RecordBytes[f]
    <3>1. f \in Frames
      BY <1>4
    <3> QED
      BY <1>0, <3>1, ByteSumOne
  <2>2. {f} \in SUBSET G
    OBVIOUS
  <2> HIDE DEF B, G
  <2> QED
    BY <1>5, <1>6, <2>1, <2>2
<1>7. ASSUME UNCHANGED used, ReaderGuards' \cup Held' = G
      PROVE  used' = B(ReaderGuards' \cup Held') /\ used' <= LiveMemoryBytes
  BY <1>2, <1>7
<1>8. CASE MainStep
  <2>1. UNCHANGED <<rpc, rframe, channel, used, hand, records, unreleased>>
    BY <1>8, MainKeeps DEF readers, buffers, flush
  <2>2. UNCHANGED <<ReaderGuards, Held>>
    BY <2>1 DEF ReaderGuards, Held, InChannel, InHand
  <2> QED
    BY <1>7, <2>1, <2>2
<1>9. CASE WriterSide
  <2>1. UNCHANGED ReaderGuards
    BY <1>9, WriterKeeps DEF readers, ReaderGuards
  <2>2. CASE UNCHANGED <<used, Held>>
    BY <1>7, <2>1, <2>2
  <2>3. ASSUME NEW f \in Held, used' = Released(RecordBytes[f]), Held' = Held \ {f}
        PROVE  used' = B(ReaderGuards' \cup Held') /\ used' <= LiveMemoryBytes
    <3>1. ReaderGuards' \cup Held' = G \ {f} /\ f \in G
      BY <1>4, <2>1, <2>3
    <3> QED
      BY <1>6, <2>3, <3>1
  <2>4. CASE used' = Released(ByteSum(Held, RecordBytes)) /\ Held' = {}
    <3>1. ReaderGuards' \cup Held' = G \ Held /\ Held \in SUBSET G
      BY <1>4, <2>1, <2>4
    <3> QED
      BY <1>5, <2>4, <3>1
  <2> QED
    BY <1>9, <2>2, <2>3, <2>4, WriterGuardMoves
<1>10. ASSUME NEW c \in Conns, Accept(c) \/ JoinReader(c) \/ Reader(c)
       PROVE  used' = B(ReaderGuards' \cup Held') /\ used' <= LiveMemoryBytes
  <2>0. Distinct
    BY DEF Accounted
  <2>1. CASE UNCHANGED <<used, ReaderGuards, Held>>
    BY <1>7, <2>1
  <2>2. ASSUME NEW f \in Reading \ ReaderGuards,
               used' = used + RecordBytes[f], used' <= LiveMemoryBytes,
               ReaderGuards' = ReaderGuards \cup {f}, UNCHANGED Held
        PROVE  used' = B(ReaderGuards' \cup Held') /\ used' <= LiveMemoryBytes
    <3>1. f \in Frames \ G
      BY <1>4, <2>2 DEF Reading, Control
    <3>2. B(G \cup {f}) = B(G) + RecordBytes[f]
      <4>1. PICK g \in Frames \ G : g = f
        BY <3>1
      <4>2. G \in SUBSET Frames
        BY <1>4
      <4> HIDE DEF G
      <4>3. B(G \cup {g}) = B(G) + RecordBytes[g]
        BY <1>0, <4>2, ByteSumAdd
      <4> QED
        BY <4>1, <4>3
    <3>3. ReaderGuards' \cup Held' = G \cup {f}
      BY <2>2
    <3> HIDE DEF B, G
    <3> QED
      BY <1>2, <2>2, <3>2, <3>3
  <2>3. ASSUME NEW f \in ReaderGuards, UNCHANGED used,
               ReaderGuards' = ReaderGuards \ {f}, Held' = Held \cup {f}
        PROVE  used' = B(ReaderGuards' \cup Held') /\ used' <= LiveMemoryBytes
    BY <1>7, <2>3
  <2>4. ASSUME NEW f \in ReaderGuards, used' = Released(RecordBytes[f]),
               ReaderGuards' = ReaderGuards \ {f}, UNCHANGED Held
        PROVE  used' = B(ReaderGuards' \cup Held') /\ used' <= LiveMemoryBytes
    <3>1. ReaderGuards' \cup Held' = G \ {f} /\ f \in G
      BY <1>4, <2>4
    <3> QED
      BY <1>6, <2>4, <3>1
  <2> HIDE DEF B, G
  <2> QED
    BY <1>10, <2>0, <2>1, <2>2, <2>3, <2>4, ReaderGuardMoves
<1> QED
  BY <1>8, <1>9, <1>10, StepKinds

-----------------------------------------------------------------------------
(* The cohort cap.                                                         *)

\* Removing records never makes a buffer larger.
LEMMA BuffersShrink ==
    ASSUME TypeOK, NEW c, NEW R \in SUBSET records
    PROVE  /\ ByteSum(Of(c, R), RecordBytes) \in Nat
           /\ ByteSum(Of(c, R), RecordBytes) <= BufferedBytes(c)
<1>1. IsFiniteSet(Frames) /\ MaxRecordBytes \in Nat /\ RecordBytes \in [Frames -> 1..MaxRecordBytes]
  BY FramesAssumption
<1>2. Of(c, records) \in SUBSET Frames /\ Of(c, R) \in SUBSET Of(c, records)
        /\ Of(c, R) \in SUBSET Frames
  BY DEF TypeOK, Of
<1>3. ByteSum(Of(c, R), RecordBytes) <= ByteSum(Of(c, records), RecordBytes)
  BY <1>1, <1>2, ByteSumRemove
<1>4. ByteSum(Of(c, R), RecordBytes) \in Nat
  BY <1>1, <1>2, ByteSumType
<1> QED
  BY <1>3, <1>4 DEF BufferedBytes

\* A buffer takes the frame in hand.
LEMMA BufferGrows ==
    ASSUME TypeOK, NEW f \in Frames \ records
    PROVE  \A c : ByteSum(Of(c, records \cup {f}), RecordBytes)
                    = IF c = CohortOf[f] THEN BufferedBytes(c) + RecordBytes[f]
                                         ELSE BufferedBytes(c)
<1> TAKE c
<1>1. IsFiniteSet(Frames) /\ MaxRecordBytes \in Nat /\ RecordBytes \in [Frames -> 1..MaxRecordBytes]
  BY FramesAssumption
<1>2. CASE c = CohortOf[f]
  <2>1. Of(c, records \cup {f}) = Of(c, records) \cup {f}
          /\ Of(c, records) \in SUBSET Frames /\ f \in Frames \ Of(c, records)
    BY <1>2 DEF TypeOK, Of
  <2>2. ByteSum(Of(c, records) \cup {f}, RecordBytes)
           = ByteSum(Of(c, records), RecordBytes) + RecordBytes[f]
    BY <1>1, <2>1, ByteSumAdd
  <2> QED
    BY <1>2, <2>1, <2>2 DEF BufferedBytes
<1>3. CASE c # CohortOf[f]
  <2>1. Of(c, records \cup {f}) = Of(c, records)
    BY <1>3 DEF Of
  <2> QED
    BY <1>3, <2>1 DEF BufferedBytes
<1> QED
  BY <1>2, <1>3

\* Every step keeps the cohort buffers and the part being flushed within the
\* cap.
LEMMA WithinCapNext ==
    ASSUME TypeOK, Control, Accounted, WithinCap, [Next]_vars
    PROVE  WithinCap'
<1>0. /\ PerCohortMemoryBytes \in Nat /\ MaxRecordBytes \in Nat
      /\ MaxRecordBytes <= PerCohortMemoryBytes
      /\ \A f \in Frames : RecordBytes[f] \in Nat /\ RecordBytes[f] <= MaxRecordBytes
  BY FramesAssumption, ConfigAssumption DEF ValidConfig
<1>1. ASSUME UNCHANGED <<wpc, goal, hand, todo, records, batch>> PROVE WithinCap'
  BY <1>1 DEF WithinCap, BufferedBytes, Of
<1>2. CASE MainStep
  BY <1>1, <1>2, MainKeeps DEF buffers, flush
<1>3. ASSUME NEW c \in Conns, Accept(c) \/ JoinReader(c) \/ Reader(c) PROVE WithinCap'
  BY <1>1, <1>3, ReaderKeeps DEF buffers, flush
<1>4. CASE WriterSide
  <2>0. \A c : BufferedBytes(c) \in Nat
    BY BuffersShrink DEF BufferedBytes
  <2>1. UNCHANGED records => \A c : BufferedBytes(c)' = BufferedBytes(c)
    BY DEF BufferedBytes, Of
  <2>2. CASE Recv \/ TimerFires \/ RecvNone \/ AdvanceWindow \/ OpenWindow \/ WriterReturns
    <3>1. UNCHANGED records /\ \/ wpc' \in {"fold", "select", "done"}
                               \/ wpc' = "flush" /\ goal' \in {"advance", "close", "final"}
      BY <2>2 DEF Recv, TimerFires, RecvNone, AdvanceWindow, OpenWindow, WriterReturns,
                  FlushedFor, StartFlush, Select
    <3> QED
      BY <2>1, <3>1 DEF WithinCap
  <2>3. ASSUME NEW c \in Cohorts, FlushCohort(c) PROVE WithinCap'
    <3>1. /\ UNCHANGED <<hand, goal>> /\ wpc = "flush" /\ wpc' = "put" /\ todo' = todo \ {c}
          /\ records' = records \ Of(c, records) /\ batch'.records = Of(c, records)
      BY <2>3 DEF FlushCohort
    <3>2. \A d : BufferedBytes(d)' \in Nat /\ BufferedBytes(d)' <= BufferedBytes(d)
      <4>1. records' \in SUBSET records
        BY <3>1
      <4>2. \A d : /\ ByteSum(Of(d, records'), RecordBytes) \in Nat
                   /\ ByteSum(Of(d, records'), RecordBytes) <= BufferedBytes(d)
        BY <4>1, BuffersShrink
      <4>3. \A d : BufferedBytes(d)' = ByteSum(Of(d, records'), RecordBytes)
        BY DEF BufferedBytes, Of
      <4> QED
        BY <4>2, <4>3
    <3>3. \A d \in Cohorts : BufferedBytes(d)' <= PerCohortMemoryBytes
      BY <1>0, <2>0, <3>2 DEF WithinCap
    <3>4. goal = "pressure" =>
             (BufferedBytes(CohortOf[hand]))' + RecordBytes[hand'] <= PerCohortMemoryBytes
      <4> SUFFICES ASSUME goal = "pressure"
                   PROVE  (BufferedBytes(CohortOf[hand]))' + RecordBytes[hand'] <= PerCohortMemoryBytes
        OBVIOUS
      <4>1. hand \in Frames /\ hand' = hand
        BY <3>1 DEF Control
      <4>2. BufferedBytes(CohortOf[hand]) + RecordBytes[hand] <= PerCohortMemoryBytes
        BY <3>1 DEF WithinCap
      <4>3. (BufferedBytes(CohortOf[hand]))' \in Nat
              /\ (BufferedBytes(CohortOf[hand]))' <= BufferedBytes(CohortOf[hand])
        BY <3>2, <4>1 DEF BufferedBytes
      <4> QED
        BY <1>0, <2>0, <4>1, <4>2, <4>3
    <3>5. goal = "cap" => Of(CohortOf[hand'], records') = {} \/ CohortOf[hand'] \in todo'
      BY <3>1 DEF WithinCap, Of
    <3>6. ByteSum(batch'.records, RecordBytes) <= PerCohortMemoryBytes
      BY <3>1 DEF WithinCap, BufferedBytes
    <3> QED
      BY <3>1, <3>3, <3>4, <3>5, <3>6 DEF WithinCap, Of
  <2>4. ASSUME NEW f \in Frames, ReleaseRecord(f) PROVE WithinCap'
    BY <1>1, <2>4 DEF ReleaseRecord, buffers
  <2>5. CASE PutSucceeds \/ PutFails
    <3>1. UNCHANGED <<hand, records, todo, goal>> /\ wpc = "put" /\ wpc' = "flush"
      BY <2>5 DEF PutSucceeds, PutFails, EndPut, buffers
    <3> QED
      BY <2>1, <3>1 DEF WithinCap, BufferedBytes, Of
  <2>6. CASE CohortSpilled
    <3>1. UNCHANGED <<hand, records>> /\ wpc = "flush" /\ goal = "cap" /\ todo = {}
            /\ wpc' = "pressure"
      BY <2>6 DEF CohortSpilled, FlushedFor
    <3>2. hand \in Frames /\ Of(CohortOf[hand], records) = {}
      BY <3>1 DEF WithinCap, Control
    <3>3. BufferedBytes(CohortOf[hand]) = 0
      BY <3>2, ByteSumEmpty DEF BufferedBytes
    <3>4. (BufferedBytes(CohortOf[hand]))' + RecordBytes[hand'] <= PerCohortMemoryBytes
      <4>1. (BufferedBytes(CohortOf[hand]))' = BufferedBytes(CohortOf[hand])
        BY <3>1 DEF BufferedBytes, Of
      <4> QED
        BY <1>0, <3>1, <3>2, <3>3, <4>1
    <3>5. \A d \in Cohorts : BufferedBytes(d)' <= PerCohortMemoryBytes
      BY <2>1, <3>1 DEF WithinCap
    <3> QED
      BY <3>1, <3>4, <3>5 DEF WithinCap
  <2>7. CASE PressureRelieved \/ RelievePressure
    <3>1. /\ UNCHANGED <<hand, records>>
          /\ wpc' = "add" \/ (wpc' = "flush" /\ goal' = "pressure")
          /\ wpc = "pressure" \/ (wpc = "flush" /\ goal = "pressure")
      BY <2>7 DEF PressureRelieved, RelievePressure, FlushedFor, StartFlush, buffers
    <3>2. \A d : BufferedBytes(d)' = BufferedBytes(d)
      BY <2>1, <3>1
    <3>3. (BufferedBytes(CohortOf[hand]))' = BufferedBytes(CohortOf[hand])
      BY <3>1 DEF BufferedBytes, Of
    <3> QED
      BY <3>1, <3>2, <3>3 DEF WithinCap
  <2>8. CASE FoldAndSpill
    <3>1. UNCHANGED <<hand, records>> /\ wpc = "fold" /\ hand \in Frames
      BY <2>8 DEF FoldAndSpill, Control
    <3>2. (BufferedBytes(CohortOf[hand]))' = BufferedBytes(CohortOf[hand])
      BY <3>1 DEF BufferedBytes, Of
    <3>3. \A d \in Cohorts : BufferedBytes(d)' <= PerCohortMemoryBytes
      BY <2>1, <3>1 DEF WithinCap
    <3>4. CASE ExceedsCap(hand)
      <4>1. wpc' = "flush" /\ goal' = "cap" /\ todo' = {CohortOf[hand]}
        BY <2>8, <3>4 DEF FoldAndSpill, StartFlush
      <4> QED
        BY <3>1, <3>3, <4>1 DEF WithinCap
    <3>5. CASE ~ExceedsCap(hand)
      <4>1. wpc' = "pressure"
        BY <2>8, <3>5 DEF FoldAndSpill
      <4>2. BufferedBytes(CohortOf[hand]) + RecordBytes[hand] <= PerCohortMemoryBytes
        BY <1>0, <2>0, <3>1, <3>5 DEF ExceedsCap
      <4> QED
        BY <3>1, <3>2, <3>3, <4>1, <4>2 DEF WithinCap
    <3> QED
      BY <3>4, <3>5
  <2>9. CASE AddRecord
    <3>1. records' = records \cup {hand} /\ wpc' = "select" /\ hand \in Frames /\ wpc = "add"
      BY <2>9 DEF AddRecord, Select, Control
    <3>2. hand \notin records
      BY <3>1, FramesAssumption DEF Accounted, OnePlace, InHand
    <3>3. \A d : ByteSum(Of(d, records \cup {hand}), RecordBytes)
                    = IF d = CohortOf[hand] THEN BufferedBytes(d) + RecordBytes[hand]
                                            ELSE BufferedBytes(d)
      BY <3>1, <3>2, BufferGrows
    <3>4. \A d : BufferedBytes(d)' = ByteSum(Of(d, records'), RecordBytes)
      BY DEF BufferedBytes, Of
    <3>5. \A d \in Cohorts : BufferedBytes(d)' <= PerCohortMemoryBytes
      BY <3>1, <3>3, <3>4 DEF WithinCap
    <3> QED
      BY <3>1, <3>5 DEF WithinCap
  <2>10. CASE WriterPanics \/ WriterAborted
    <3>1. records' = {} /\ wpc' = "dead"
      BY <2>10 DEF WriterPanics, WriterAborted, WriterDies
    <3>2. \A d : BufferedBytes(d)' = 0
      <4>1. \A d : Of(d, records') = {}
        BY <3>1 DEF Of
      <4>2. \A d : BufferedBytes(d)' = ByteSum(Of(d, records'), RecordBytes)
        BY DEF BufferedBytes, Of
      <4> QED
        BY <4>1, <4>2, ByteSumEmpty
    <3> QED
      BY <1>0, <3>1, <3>2 DEF WithinCap
  <2>11. ASSUME NEW s \in failed, LateLand(s) PROVE WithinCap'
    BY <1>1, <2>11 DEF LateLand, buffers, flush
  <2> QED
    BY <1>4, <2>2, <2>3, <2>4, <2>5, <2>6, <2>7, <2>8, <2>9, <2>10, <2>11
       DEF WriterSide, WriterStep
<1> QED
  BY <1>2, <1>3, <1>4, StepKinds

-----------------------------------------------------------------------------
(* The end of the channel.                                                 *)

\* Once the last sender is gone no reader moves any more, and none comes back.
LEMMA SendersStayGone ==
    ASSUME TypeOK, SendersGone, [Next]_vars
    PROVE  /\ SendersGone'
           /\ ~ \E c \in Conns : Accept(c) \/ JoinReader(c) \/ Reader(c)
<1>1. main \in {"closing", "killing", "finished"} /\ \A c \in Conns : rpc[c] = "none"
  BY DEF SendersGone, Tasks
<1>2. ASSUME NEW c \in Conns PROVE ~(Accept(c) \/ JoinReader(c) \/ Reader(c))
  BY <1>1 DEF Accept, JoinReader, Reader, Handoff, ReadFrame, ReaderCloses,
         ReaderSeesShutdown, ReaderAborted, Reserve, TrySend, RecordMemoryDrop,
         RecordChannelDrop, DropEvent
<1> SUFFICES ASSUME UNCHANGED rpc, main' \in {"closing", "killing", "finished"}
             PROVE  SendersGone'
  <2>1. UNCHANGED rpc /\ main' \in {"closing", "killing", "finished"}
    <3>1. CASE WriterSide
      BY <1>1, <3>1, WriterKeeps DEF readers
    <3>2. CASE MainStep
      <4>1. UNCHANGED rpc
        BY <3>2, MainKeeps DEF readers
      <4>2. main' \in {"closing", "killing", "finished"}
        BY <1>1, <3>2 DEF MainStep, Tick, ClockSet, StopAccepting, WriterStopped, Shutdown,
             SendShutdown, AbortReaders, CloseChannel, WriterTimeout, Finish, Phase,
             Terminated, vars
      <4> QED
        BY <4>1, <4>2
    <3> QED
      BY <1>2, <3>1, <3>2, StepKinds
  <2> QED
    BY <1>2, <2>1
<1>3. {c \in Conns : rpc'[c] # "none"} = {}
  BY <1>1
<1> QED
  BY <1>3 DEF SendersGone, Tasks

\* Nothing comes in after the channel has ended, and the last flush empties
\* the buffers.
LEMMA DrainedNext ==
    ASSUME TypeOK, FlushCovers, Drained, [Next]_vars
    PROVE  Drained'
<1>1. CASE MainStep \/ \E c \in Conns : Accept(c) \/ JoinReader(c) \/ Reader(c)
  <2>1. UNCHANGED <<wpc, goal, records, drops, discarded>>
    BY <1>1, MainKeeps, ReaderKeeps DEF buffers, flush
  <2>2. CASE MainStep
    BY <2>1, <2>2, MainKeeps, SendersStayGone DEF Drained
  <2>3. CASE \E c \in Conns : Accept(c) \/ JoinReader(c) \/ Reader(c)
    BY <2>1, <2>3, SendersStayGone DEF Drained
  <2> QED
    BY <1>1, <2>2, <2>3
<1>2. CASE WriterSide
  <2>0. SendersGone' = SendersGone
    BY <1>2, WriterKeeps DEF readers, SendersGone, Tasks
  <2>1. CASE Recv \/ TimerFires
    <3>1. UNCHANGED discarded /\ wpc = "select"
            /\ (wpc' = "fold" \/ (wpc' = "flush" /\ goal' \in {"advance", "close"}))
      BY <2>1 DEF Recv, TimerFires, StartFlush
    <3> QED
      BY <3>1 DEF Drained
  <2>2. CASE RecvNone
    <3>1. UNCHANGED <<channel, discarded>> /\ wpc = "select" /\ wpc' = "flush"
            /\ ledger' = {} /\ SendersGone /\ channel = <<>>
      BY <2>2 DEF RecvNone, StartFlush, FoldAllPendingDrops
    <3> QED
      BY <2>0, <3>1 DEF Drained
  <2>3. ASSUME NEW c \in Cohorts, FlushCohort(c) PROVE Drained'
    <3>1. UNCHANGED <<goal, channel, discarded>> /\ wpc = "flush" /\ wpc' = "put"
            /\ ledger' = ledger \ Of(c, ledger)
      BY <2>3 DEF FlushCohort
    <3> QED
      BY <2>0, <3>1 DEF Drained
  <2>4. CASE (\E f \in Frames : ReleaseRecord(f)) \/ PutSucceeds \/ PutFails
    <3>1. UNCHANGED <<goal, channel, ledger, discarded>> /\ wpc = "put" /\ wpc' \in {"put", "flush"}
      BY <2>4 DEF ReleaseRecord, PutSucceeds, PutFails, EndPut
    <3> QED
      BY <2>0, <3>1 DEF Drained
  <2>5. CASE AdvanceWindow \/ OpenWindow \/ CohortSpilled \/ PressureRelieved
    <3>1. UNCHANGED discarded /\ wpc = "flush" /\ wpc' \notin {"flush", "put", "done", "dead"}
      BY <2>5 DEF AdvanceWindow, OpenWindow, CohortSpilled, PressureRelieved, FlushedFor, Select
    <3> QED
      BY <3>1 DEF Drained
  <2>6. CASE WriterReturns
    <3>1. UNCHANGED <<channel, ledger, records, drops, discarded>> /\ wpc = "flush"
            /\ goal = "final" /\ todo = {}
      BY <2>6 DEF WriterReturns, FlushedFor
    <3>2. records = {} /\ drops = {}
      BY <3>1 DEF FlushCovers
    <3> QED
      BY <2>0, <3>1, <3>2 DEF Drained
  <2>7. CASE FoldAndSpill \/ RelievePressure \/ AddRecord
    <3>1. UNCHANGED discarded /\ wpc \in {"fold", "pressure", "add"}
            /\ \/ wpc' \in {"pressure", "add", "select"}
               \/ wpc' = "flush" /\ goal' \in {"cap", "pressure"}
      BY <2>7 DEF FoldAndSpill, RelievePressure, AddRecord, StartFlush, Select
    <3> QED
      BY <3>1 DEF Drained
  <2>8. CASE WriterPanics \/ WriterAborted
    BY <2>8 DEF WriterPanics, WriterAborted, WriterDies, Drained
  <2>9. ASSUME NEW s \in failed, LateLand(s) PROVE Drained'
    <3>1. UNCHANGED <<wpc, goal, channel, ledger, records, drops, discarded>>
      BY <2>9 DEF LateLand, buffers, flush
    <3> QED
      BY <2>0, <3>1 DEF Drained
  <2> QED
    BY <1>2, <2>1, <2>2, <2>3, <2>4, <2>5, <2>6, <2>7, <2>8, <2>9 DEF WriterSide, WriterStep
<1> QED
  BY <1>1, <1>2, StepKinds

-----------------------------------------------------------------------------
(* Theorems.                                                               *)

\* Initially every frame is unread and nothing is held.
LEMMA InitAccounts == Init => AInv
<1> SUFFICES ASSUME Init PROVE AInv
  OBVIOUS
<1>1. /\ Reading = {} /\ ReaderGuards = {} /\ InChannel = {} /\ InHand = {} /\ BatchFrames = {}
      /\ InParts(store) = {} /\ InParts(failed) = {} /\ Held = {} /\ Guarded = {}
  BY DEF Init, Reading, ReaderGuards, InChannel, InHand, BatchFrames, InParts, Held, Guarded, Holding
<1>2. \A f \in Frames : OnePlace(f)
  BY <1>1 DEF Init, OnePlace
<1>3. Accounted
  BY <1>2 DEF Init, Accounted, Empty, Distinct, PartsDisjoint
<1>4. 0 <= LiveMemoryBytes
  BY FramesAssumption, ConfigAssumption DEF LiveMemoryBytes, ValidConfig
<1>5. Live
  BY <1>1, <1>4, ByteSumEmpty DEF Init, Live, MemoryIsExact
<1>6. \A c \in Cohorts : BufferedBytes(c) <= PerCohortMemoryBytes
  <2>1. \A c : Of(c, records) = {}
    BY DEF Init, Of
  <2> QED
    BY <2>1, ByteSumEmpty, ConfigAssumption DEF BufferedBytes, ValidConfig
<1>7. WithinCap /\ Drained /\ DropsNotHeld
  BY <1>6 DEF Init, WithinCap, Drained, DropsNotHeld
<1> QED
  BY <1>3, <1>5, <1>7 DEF AInv

\* The accounts are an invariant.
LEMMA AccountsInvariance == Spec => [](IInv /\ AInv)
<1>1. IInv /\ AInv /\ [Next]_vars => (IInv /\ AInv)'
  <2> SUFFICES ASSUME IInv, AInv, [Next]_vars PROVE IInv' /\ AInv'
    OBVIOUS
  <2>1. IInv'
    BY NextInv
  <2>2. Accounted' /\ DropsNotHeld'
    BY AccountedNext, DropsNotHeldNext DEF IInv, AInv
  <2>3. Live'
    BY LiveNext DEF IInv, AInv
  <2>4. WithinCap'
    BY WithinCapNext DEF IInv, AInv
  <2>5. Drained'
    BY DrainedNext DEF IInv, AInv
  <2> QED
    BY <2>1, <2>2, <2>3, <2>4, <2>5 DEF AInv
<1> QED
  BY <1>1, InitInv, InitAccounts, PTL DEF Spec

\* Every frame the collector received is in exactly one place: no frame is
\* lost, counted twice or both kept and counted as dropped, whatever the
\* clients, the store, the clock and the shutdown do.
THEOREM FramesAccounted == Spec => []FramesAccountedOnce
<1>1. AInv => FramesAccountedOnce
  BY PlacesOnce DEF AInv, Accounted, Distinct, PartsDisjoint, FramesAccountedOnce
<1> QED
  BY <1>1, AccountsInvariance, PTL

\* The budget counts the live frames exactly: no guard is leaked or released
\* twice.
THEOREM MemoryExact == Spec => []MemoryIsExact
<1>1. AInv => MemoryIsExact
  BY DEF AInv, Live
<1> QED
  BY <1>1, AccountsInvariance, PTL

\* Live frames and the segment being serialized fit in global_memory_bytes.
THEOREM MemoryBounded == Spec => []MemoryWithinGlobal
<1>1. IInv /\ AInv => MemoryWithinGlobal
  <2> SUFFICES ASSUME IInv, AInv PROVE MemoryWithinGlobal
    OBVIOUS
  <2>1. used \in Nat /\ used <= LiveMemoryBytes
    BY DEF IInv, TypeOK, AInv, Live
  <2>2. ASSUME batch # NoBatch
        PROVE  /\ ByteSum(batch.records, RecordBytes) \in Nat
               /\ ByteSum(batch.records, RecordBytes) <= PerCohortMemoryBytes
    <3>1. wpc = "put" /\ batch \in Parts
      BY <2>2 DEF AInv, Accounted, Empty, IInv, Control
    <3>2. batch.records \in SUBSET Frames
      BY <3>1 DEF Parts
    <3>3. ByteSum(batch.records, RecordBytes) \in Nat
      BY <3>2, FramesAssumption, ByteSumType
    <3> QED
      BY <3>1, <3>3 DEF AInv, WithinCap
  <2>3. /\ GlobalMemoryBytes \in Nat /\ PerCohortMemoryBytes \in Nat /\ SegmentOverheadBytes \in Nat
        /\ LiveMemoryBytes = GlobalMemoryBytes - (PerCohortMemoryBytes + SegmentOverheadBytes)
    BY ConfigAssumption DEF ValidConfig, LiveMemoryBytes
  <2>4. ASSUME batch # NoBatch
        PROVE  used + ByteSum(batch.records, RecordBytes) + SegmentOverheadBytes <= GlobalMemoryBytes
    <3>1. \A a, b, l, p, o, g \in Int : a <= l /\ b <= p /\ l = g - (p + o) => a + b + o <= g
      OBVIOUS
    <3>2. LiveMemoryBytes \in Int
      BY <2>3
    <3> QED
      BY <2>1, <2>2, <2>3, <2>4, <3>1, <3>2
  <2> QED
    BY <2>1, <2>2, <2>4 DEF MemoryWithinGlobal
<1> QED
  BY <1>1, AccountsInvariance, PTL

\* A shutdown in which the writer was not cut off leaves nothing behind.
THEOREM ShutdownDrains == Spec => []DrainedAtExit
<1>1. IInv /\ AInv => DrainedAtExit
  <2> SUFFICES ASSUME IInv, AInv, wpc = "done"
               PROVE  /\ channel = <<>> /\ ledger = {} /\ records = {} /\ drops = {}
                      /\ used = 0
                      /\ Frames = unread \cup InParts(store) \cup InParts(failed)
    BY DEF DrainedAtExit
  <2>1. /\ SendersGone /\ channel = <<>> /\ ledger = {} /\ records = {} /\ drops = {}
        /\ discarded = {}
    BY DEF AInv, Drained
  <2>2. \A c \in Conns : rpc[c] = "none"
    BY <2>1 DEF SendersGone, Tasks
  <2>3. Reading = {} /\ ReaderGuards = {} /\ InChannel = {}
    BY <2>1, <2>2 DEF Reading, ReaderGuards, InChannel, Holding
  <2>4. InHand = {} /\ unreleased = {} /\ BatchFrames = {}
    BY DEF AInv, Accounted, Empty, InHand, BatchFrames
  <2>5. Guarded = {}
    BY <2>1, <2>3, <2>4 DEF Guarded
  <2>6. used = 0
    BY <2>5, ByteSumEmpty DEF AInv, Live, MemoryIsExact
  <2>7. \A f \in Frames : f \in unread \cup InParts(store) \cup InParts(failed)
    BY <2>1, <2>3, <2>4 DEF AInv, Accounted, OnePlace
  <2>8. unread \in SUBSET Frames /\ InParts(store) \in SUBSET Frames /\ InParts(failed) \in SUBSET Frames
    BY DEF IInv, TypeOK, InParts, PartFrames, Parts
  <2> QED
    BY <2>1, <2>6, <2>7, <2>8
<1> QED
  BY <1>1, AccountsInvariance, PTL

-----------------------------------------------------------------------------
(* The collector implements the capture log.                               *)

\* The frames of every fate: on their way to the writer, kept, dropped, and
\* the records and the counts of a set of parts.
Pending == Reading \cup InChannel \cup InHand
Kept    == records \cup (IF wpc = "put" THEN batch.records ELSE {})
Dropped == ledger \cup drops \cup (IF wpc = "put" THEN batch.drops ELSE {})
RecordsOf(S) == UNION {s.records : s \in S}
DropsOf(S)   == UNION {s.drops : s \in S}

\* The fate of a frame, by the set that it is in.
FateSays(f) ==
    /\ f \in unread => Fate(f) = "unread"
    /\ f \in Pending => Fate(f) = "received"
    /\ f \in Kept => Fate(f) = "kept"
    /\ f \in Dropped => Fate(f) = "dropped"
    /\ f \in RecordsOf(store) => Fate(f) = "stored"
    /\ f \in DropsOf(store) => Fate(f) = "counted"
    /\ f \in RecordsOf(failed) => Fate(f) = "unstored"
    /\ f \in DropsOf(failed) => Fate(f) = "uncounted"
    /\ f \in discarded => Fate(f) = "gone"
    /\ f \in unread \cup Pending \cup Kept \cup Dropped \cup RecordsOf(store)
               \cup DropsOf(store) \cup RecordsOf(failed) \cup DropsOf(failed) \cup discarded

FatesTold == \A f \in Frames : FateSays(f)

\* All frames of a part are of its cohort.
PartCohorts ==
    /\ \A s \in store \cup failed : \A f \in PartFrames(s) : CohortOf[f] = s.cohort
    /\ wpc = "put" => \A f \in PartFrames(batch) : CohortOf[f] = batch.cohort

\* A frame is in one place, so it has one fate.
LEMMA FateTold == IInv /\ AInv => FatesTold
<1> SUFFICES ASSUME IInv, AInv, NEW f \in Frames PROVE FateSays(f)
  BY DEF FatesTold
<1>0. Empty /\ PartsDisjoint /\ OnePlace(f) /\ TypeOK /\ Control
  BY DEF AInv, Accounted, IInv
<1>1. BatchFrames = IF wpc = "put" THEN batch.records \cup batch.drops ELSE {}
  BY <1>0, BatchPlace
<1>2. \A S : InParts(S) = RecordsOf(S) \cup DropsOf(S)
  BY DEF InParts, PartFrames, RecordsOf, DropsOf
<1>3. \A S : f \in RecordsOf(S) <=> \E s \in S : f \in s.records
  BY DEF RecordsOf
<1>4. f \in DropsOf(store) => f \notin RecordsOf(store)
  BY <1>0 DEF PartsDisjoint, PartFrames, RecordsOf, DropsOf
<1>5. f \in DropsOf(failed) => f \notin RecordsOf(failed)
  BY <1>0 DEF PartsDisjoint, PartFrames, RecordsOf, DropsOf
<1>6. wpc = "put" => ~(f \in batch.records /\ f \in batch.drops)
  BY <1>0 DEF PartsDisjoint
<1>7. CASE f \in unread
  <2>1. Fate(f) = "unread"
    BY <1>0, <1>7 DEF Fate, OnePlace
  <2> QED
    BY <1>0, <1>1, <1>2, <1>7, <2>1 DEF FateSays, OnePlace, Pending, Kept, Dropped
<1>8. CASE f \in Pending
  <2>1. Fate(f) = "received"
    BY <1>0, <1>8 DEF Fate, OnePlace, Pending
  <2> QED
    BY <1>0, <1>1, <1>2, <1>8, <2>1 DEF FateSays, OnePlace, Pending, Kept, Dropped
<1>9. CASE f \in Kept
  <2>1. Fate(f) = "kept"
    BY <1>0, <1>1, <1>9 DEF Fate, OnePlace, Kept
  <2> QED
    BY <1>0, <1>1, <1>2, <1>6, <1>9, <2>1 DEF FateSays, OnePlace, Pending, Kept, Dropped
<1>10. CASE f \in Dropped
  <2>1. Fate(f) = "dropped"
    BY <1>0, <1>1, <1>6, <1>10 DEF Fate, OnePlace, Dropped
  <2> QED
    BY <1>0, <1>1, <1>2, <1>6, <1>10, <2>1 DEF FateSays, OnePlace, Pending, Kept, Dropped
<1>11. CASE f \in InParts(store)
  <2>1. Fate(f) = IF f \in RecordsOf(store) THEN "stored" ELSE "counted"
    BY <1>0, <1>3, <1>11 DEF Fate, OnePlace
  <2> QED
    BY <1>0, <1>1, <1>2, <1>4, <1>11, <2>1 DEF FateSays, OnePlace, Pending, Kept, Dropped
<1>12. CASE f \in InParts(failed)
  <2>1. Fate(f) = IF f \in RecordsOf(failed) THEN "unstored" ELSE "uncounted"
    BY <1>0, <1>3, <1>12 DEF Fate, OnePlace
  <2> QED
    BY <1>0, <1>1, <1>2, <1>5, <1>12, <2>1 DEF FateSays, OnePlace, Pending, Kept, Dropped
<1>13. CASE f \in discarded
  <2>1. Fate(f) = "gone"
    BY <1>0, <1>13 DEF Fate, OnePlace
  <2> QED
    BY <1>0, <1>1, <1>2, <1>13, <2>1 DEF FateSays, OnePlace, Pending, Kept, Dropped
<1> QED
  BY <1>0, <1>1, <1>7, <1>8, <1>9, <1>10, <1>11, <1>12, <1>13 DEF OnePlace, Pending, Kept, Dropped

\* The same of the next state.
LEMMA FateToldNext == IInv' /\ AInv' => FatesTold'
  BY FateTold, PTL

\* Steps of the log: nothing happens to any frame.
LEMMA LogStutters ==
    ASSUME \A f \in Frames : Fate(f)' = Fate(f)
    PROVE  [Log!Next]_[f \in Frames |-> Fate(f)]
  OBVIOUS

\* One frame is received, kept or dropped.
LEMMA LogMoves ==
    ASSUME NEW g \in Frames,
           \/ Fate(g) = "unread" /\ Fate(g)' = "received"
           \/ Fate(g) = "received" /\ Fate(g)' \in {"kept", "dropped"},
           \A f \in Frames \ {g} : Fate(f)' = Fate(f)
    PROVE  Log!Next
<1> DEFINE w == [f \in Frames |-> Fate(f)]
<1>1. w' = [w EXCEPT ![g] = Fate(g)'] /\ w[g] = Fate(g)
  OBVIOUS
<1>2. Log!Receive(g) \/ Log!Keep(g) \/ Log!Drop(g)
  BY <1>1 DEF Log!Receive, Log!Keep, Log!Drop, Log!Move
<1> QED
  BY <1>2 DEF Log!Next

\* The frames of one part are published, or land after all.
LEMMA LogPublishes ==
    ASSUME NEW S \in SUBSET Frames, NEW c, S # {}, \A f \in S : CohortOf[f] = c,
           \/ \A f \in S : \/ Fate(f) = "kept" /\ Fate(f)' = "stored"
                           \/ Fate(f) = "dropped" /\ Fate(f)' = "counted"
           \/ \A f \in S : \/ Fate(f) = "unstored" /\ Fate(f)' = "stored"
                           \/ Fate(f) = "uncounted" /\ Fate(f)' = "counted",
           \A f \in Frames \ S : Fate(f)' = Fate(f)
    PROVE  Log!Next
<1>1. Log!OneCohort(S)
  BY DEF Log!OneCohort
<1>2. Log!Publish(S) \/ Log!Land(S)
  BY <1>1 DEF Log!Publish, Log!Land, Log!MoveAll
<1> QED
  BY <1>2 DEF Log!Next

\* A part is given up, with what else goes.
LEMMA LogGivesUp ==
    ASSUME NEW S \in SUBSET Frames, NEW T \in SUBSET Frames, NEW c, S \cap T = {},
           \A f \in S : CohortOf[f] = c,
           \A f \in S : \/ Fate(f) = "kept" /\ Fate(f)' = "unstored"
                        \/ Fate(f) = "dropped" /\ Fate(f)' = "uncounted",
           \A f \in T : Fate(f) \in {"received", "kept", "dropped"} /\ Fate(f)' = "gone",
           \A f \in Frames \ (S \cup T) : Fate(f)' = Fate(f)
    PROVE  Log!Next
<1>1. S # {} => Log!OneCohort(S)
  BY DEF Log!OneCohort
<1>2. Log!GiveUp(S, T)
  BY <1>1 DEF Log!GiveUp
<1> QED
  BY <1>2 DEF Log!Next

\* Every step keeps the frames of a part in one cohort.
LEMMA PartCohortsNext ==
    ASSUME TypeOK, Control, PartCohorts, [Next]_vars
    PROVE  PartCohorts'
<1>1. UNCHANGED <<store, failed>> /\ wpc' # "put" => PartCohorts'
  BY DEF PartCohorts, PartFrames
<1>2. UNCHANGED <<store, failed, wpc, batch>> => PartCohorts'
  BY DEF PartCohorts, PartFrames
<1>3. CASE MainStep \/ \E c \in Conns : Accept(c) \/ JoinReader(c) \/ Reader(c)
  BY <1>2, <1>3, MainKeeps, ReaderKeeps DEF flush, parts
<1>4. CASE WriterSide
  <2>1. CASE Recv \/ TimerFires \/ RecvNone \/ FoldAndSpill \/ RelievePressure \/ AddRecord
    BY <1>1, <2>1 DEF Recv, TimerFires, RecvNone, FoldAndSpill, RelievePressure, AddRecord,
                      StartFlush, Select, parts
  <2>2. ASSUME NEW c \in Cohorts, FlushCohort(c) PROVE PartCohorts'
    <3>1. /\ UNCHANGED <<store, failed>> /\ batch'.cohort = c
          /\ batch'.records = Of(c, records) /\ batch'.drops = Of(c, drops \cup ledger)
      BY <2>2 DEF FlushCohort, parts
    <3> QED
      BY <3>1 DEF PartCohorts, PartFrames, Of
  <2>3. ASSUME NEW f \in Frames, ReleaseRecord(f) PROVE PartCohorts'
    BY <1>2, <2>3 DEF ReleaseRecord, parts
  <2>4. CASE PutSucceeds \/ PutFails
    <3>1. /\ wpc = "put" /\ wpc' = "flush"
          /\ store' \cup failed' = (store \cup failed) \cup {batch}
      BY <2>4 DEF PutSucceeds, PutFails, EndPut
    <3> QED
      BY <3>1 DEF PartCohorts, PartFrames
  <2>5. CASE AdvanceWindow \/ OpenWindow \/ CohortSpilled \/ PressureRelieved \/ WriterReturns
    BY <1>1, <2>5 DEF AdvanceWindow, OpenWindow, CohortSpilled, PressureRelieved, WriterReturns,
                FlushedFor, Select, parts
  <2>6. CASE WriterPanics \/ WriterAborted
    <3>1. /\ wpc' = "dead" /\ store' = store
          /\ failed' = failed \/ (failed' = failed \cup {batch} /\ wpc = "put")
      BY <2>6 DEF WriterPanics, WriterAborted, WriterDies, PutStarted
    <3> QED
      BY <3>1 DEF PartCohorts, PartFrames
  <2>7. ASSUME NEW s \in failed, LateLand(s) PROVE PartCohorts'
    <3>1. UNCHANGED <<wpc, batch>> /\ store' \cup failed' = store \cup failed
      BY <2>7 DEF LateLand, flush
    <3> QED
      BY <3>1 DEF PartCohorts, PartFrames
  <2> QED
    BY <1>4, <2>1, <2>2, <2>3, <2>4, <2>5, <2>6, <2>7 DEF WriterSide, WriterStep
<1> QED
  BY <1>3, <1>4, StepKinds

\* The sets of the fates that only the writer changes.
LateFates == <<Kept, RecordsOf(store), DropsOf(store), RecordsOf(failed),
               DropsOf(failed), discarded>>

\* When every set of frames is as it was, so is every fate.
LEMMA SameFates ==
    ASSUME FatesTold, FatesTold', UNCHANGED <<unread, Pending, Dropped, LateFates>>
    PROVE  [Log!Next]_[f \in Frames |-> Fate(f)]
<1>1. \A f \in Frames : Fate(f)' = Fate(f)
  BY DEF FatesTold, FateSays, LateFates
<1> QED
  BY <1>1, LogStutters

\* A reader receives a frame, drops one, or does nothing the log shows.
LEMMA ReaderLogs ==
    ASSUME IInv, AInv, FatesTold, FatesTold', NEW c \in Conns,
           Accept(c) \/ JoinReader(c) \/ Reader(c)
    PROVE  [Log!Next]_[f \in Frames |-> Fate(f)]
<1>0. UNCHANGED <<wpc, hand, records, drops, batch, store, failed, discarded>>
  BY ReaderKeeps DEF buffers, flush, parts
<1>1. UNCHANGED LateFates /\ UNCHANGED InHand
  BY <1>0 DEF LateFates, Kept, RecordsOf, DropsOf, InHand
<1>2. unread \in SUBSET Frames /\ Reading \in SUBSET Frames
  BY DEF IInv, TypeOK, Control, Reading
<1>3. CASE UNCHANGED <<unread, Reading, InChannel, ledger>>
  <2>1. UNCHANGED <<unread, Pending, Dropped>>
    BY <1>0, <1>1, <1>3 DEF Pending, Dropped
  <2> QED
    BY <1>1, <2>1, SameFates
<1>4. ASSUME NEW g \in unread, unread' = unread \ {g}, Reading' = Reading \cup {g},
             UNCHANGED <<InChannel, ledger>>
      PROVE  Log!Next
  <2>1. Pending' = Pending \cup {g} /\ UNCHANGED Dropped
    BY <1>0, <1>1, <1>4 DEF Pending, Dropped
  <2>2. Fate(g) = "unread" /\ Fate(g)' = "received" /\ \A f \in Frames \ {g} : Fate(f)' = Fate(f)
    BY <1>1, <1>2, <1>4, <2>1 DEF FatesTold, FateSays, LateFates
  <2> QED
    BY <1>2, <2>2, LogMoves
<1>5. ASSUME NEW g \in Reading, Reading' = Reading \ {g}, InChannel' = InChannel \cup {g},
             UNCHANGED <<unread, ledger>>
      PROVE  [Log!Next]_[f \in Frames |-> Fate(f)]
  <2>1. UNCHANGED <<unread, Pending, Dropped>>
    BY <1>0, <1>1, <1>5 DEF Pending, Dropped
  <2> QED
    BY <1>1, <2>1, SameFates
<1>6. ASSUME NEW g \in Reading, Reading' = Reading \ {g}, ledger' = ledger \cup {g},
             UNCHANGED <<unread, InChannel>>
      PROVE  Log!Next
  <2>1. Dropped' = Dropped \cup {g} /\ Pending' \cup {g} = Pending
    BY <1>0, <1>1, <1>6 DEF Pending, Dropped
  <2>2. Fate(g) = "received" /\ Fate(g)' = "dropped" /\ \A f \in Frames \ {g} : Fate(f)' = Fate(f)
    BY <1>1, <1>2, <1>6, <2>1 DEF FatesTold, FateSays, LateFates
  <2> QED
    BY <1>2, <2>2, LogMoves
<1> QED
  BY <1>3, <1>4, <1>5, <1>6, ReaderMoves DEF IInv, AInv, Accounted

\* The writer keeps a frame, publishes a part or gives one up, dies with what
\* it holds, or does nothing the log shows; and a late part lands.
LEMMA WriterLogs ==
    ASSUME IInv, AInv, PartCohorts, FatesTold, FatesTold', WriterSide
    PROVE  [Log!Next]_[f \in Frames |-> Fate(f)]
<1>0. /\ TypeOK /\ Control /\ Accounted /\ Empty /\ Distinct /\ PartsDisjoint
      /\ \A f \in Frames : OnePlace(f)
  BY DEF IInv, AInv, Accounted
<1>1. UNCHANGED unread /\ UNCHANGED Reading
  BY WriterKeeps DEF readers, Reading
<1>2. UNCHANGED <<channel, hand>> => UNCHANGED Pending
  BY <1>1 DEF Pending, InChannel, InHand
<1>3. UNCHANGED <<store, failed>> =>
        UNCHANGED <<RecordsOf(store), DropsOf(store), RecordsOf(failed), DropsOf(failed)>>
  BY DEF RecordsOf, DropsOf
<1>4. CASE Recv \/ TimerFires \/ RecvNone
  <2>1. /\ UNCHANGED <<records, store, failed, discarded>> /\ wpc = "select" /\ wpc' # "put"
        /\ \/ UNCHANGED <<ledger, drops>>
           \/ drops' = drops \cup ledger /\ ledger' = {}
    BY <1>4 DEF Recv, TimerFires, RecvNone, FoldAllPendingDrops, StartFlush, parts
  <2>2. UNCHANGED Pending
    <3>1. CASE Recv
      <4>1. InHand = {} /\ InHand' = {Head(channel)} /\ Head(channel) \in InChannel
        BY <1>0, <3>1, RecvMoves, FramesAssumption DEF InHand, Empty, Recv
      <4>2. InChannel' = InChannel \ {Head(channel)}
        BY <1>0, <3>1, RecvMoves
      <4> QED
        BY <1>1, <4>1, <4>2 DEF Pending
    <3>2. CASE TimerFires \/ RecvNone
      BY <1>2, <3>2 DEF TimerFires, RecvNone
    <3> QED
      BY <1>4, <3>1, <3>2
  <2>3. UNCHANGED <<Kept, Dropped>>
    BY <2>1 DEF Kept, Dropped
  <2> QED
    BY <1>1, <1>3, <2>1, <2>2, <2>3, SameFates DEF LateFates
<1>5. CASE FoldAndSpill \/ RelievePressure
  <2>1. /\ UNCHANGED <<channel, hand, records, store, failed, discarded>>
        /\ wpc \in {"fold", "pressure"} /\ wpc' # "put"
        /\ \/ UNCHANGED <<ledger, drops>>
           \/ /\ drops' = drops \cup Of(CohortOf[hand], ledger)
              /\ ledger' = ledger \ Of(CohortOf[hand], ledger)
    BY <1>5 DEF FoldAndSpill, RelievePressure, StartFlush, buffers, parts
  <2>2. Of(CohortOf[hand], ledger) \in SUBSET ledger
    BY DEF Of
  <2>3. UNCHANGED <<Kept, Dropped>>
    BY <2>1, <2>2 DEF Kept, Dropped
  <2> QED
    BY <1>1, <1>2, <1>3, <2>1, <2>3, SameFates DEF LateFates
<1>6. CASE AddRecord
  <2>1. /\ UNCHANGED <<channel, ledger, drops, store, failed, discarded>> /\ wpc = "add"
        /\ wpc' = "select" /\ records' = records \cup {hand} /\ hand \in Frames
    BY <1>0, <1>6 DEF AddRecord, Select, Control, parts
  <2>2. PICK g \in Frames : g = hand
    BY <2>1
  <2>3. InHand = {g} /\ InHand' = {} /\ UNCHANGED InChannel
    BY <1>6, <2>1, <2>2, FramesAssumption DEF AddRecord, InHand, InChannel
  <2>4. Pending' \cup {g} = Pending /\ Kept' = Kept \cup {g} /\ UNCHANGED Dropped
    BY <1>1, <2>1, <2>2, <2>3 DEF Pending, Kept, Dropped
  <2>5. /\ Fate(g) = "received" /\ Fate(g)' = "kept"
        /\ \A f \in Frames \ {g} : Fate(f)' = Fate(f)
    BY <1>1, <1>3, <2>1, <2>4 DEF FatesTold, FateSays
  <2> QED
    BY <2>5, LogMoves
<1>7. ASSUME NEW c \in Cohorts, FlushCohort(c)
      PROVE  [Log!Next]_[f \in Frames |-> Fate(f)]
  <2>1. /\ UNCHANGED <<channel, hand, store, failed, discarded>> /\ wpc = "flush" /\ wpc' = "put"
        /\ records' = records \ Of(c, records) /\ drops' = drops \ Of(c, drops)
        /\ ledger' = ledger \ Of(c, ledger)
        /\ batch'.records = Of(c, records) /\ batch'.drops = Of(c, drops \cup ledger)
    BY <1>7 DEF FlushCohort, parts
  <2>2. /\ Of(c, records) \in SUBSET records /\ Of(c, drops) \in SUBSET drops
        /\ Of(c, ledger) \in SUBSET ledger
        /\ Of(c, drops \cup ledger) = Of(c, drops) \cup Of(c, ledger)
    BY DEF Of
  <2>3. UNCHANGED <<Kept, Dropped>>
    <3>1. Kept = records /\ Kept' = (records \ Of(c, records)) \cup Of(c, records)
      BY <2>1 DEF Kept
    <3>2. /\ Dropped = ledger \cup drops
          /\ Dropped' = (ledger \ Of(c, ledger)) \cup (drops \ Of(c, drops))
                        \cup Of(c, drops \cup ledger)
      BY <2>1 DEF Dropped
    <3> QED
      BY <2>2, <3>1, <3>2
  <2> QED
    BY <1>1, <1>2, <1>3, <2>1, <2>3, SameFates DEF LateFates
<1>8. ASSUME NEW f \in Frames, ReleaseRecord(f)
      PROVE  [Log!Next]_[g \in Frames |-> Fate(g)]
  <2>1. UNCHANGED <<channel, ledger, wpc, hand, records, drops, store, failed, batch, discarded>>
    BY <1>8 DEF ReleaseRecord, buffers, parts
  <2>2. UNCHANGED <<Kept, Dropped>>
    BY <2>1 DEF Kept, Dropped
  <2> QED
    BY <1>1, <1>2, <1>3, <2>1, <2>2, SameFates DEF LateFates
<1>9. CASE AdvanceWindow \/ OpenWindow \/ CohortSpilled \/ PressureRelieved \/ WriterReturns
  <2>1. UNCHANGED <<channel, ledger, hand, records, drops, store, failed, discarded>>
          /\ wpc = "flush" /\ wpc' # "put"
    BY <1>9 DEF AdvanceWindow, OpenWindow, CohortSpilled, PressureRelieved, WriterReturns,
                FlushedFor, Select, parts
  <2>2. UNCHANGED <<Kept, Dropped>>
    BY <2>1 DEF Kept, Dropped
  <2> QED
    BY <1>1, <1>2, <1>3, <2>1, <2>2, SameFates DEF LateFates
<1>10. CASE PutSucceeds \/ PutFails
  <2>1. /\ UNCHANGED <<channel, ledger, hand, records, drops, discarded>>
        /\ wpc = "put" /\ wpc' = "flush"
        /\ \/ store' = store \cup {batch} /\ failed' = failed
           \/ failed' = failed \cup {batch} /\ store' = store
    BY <1>10 DEF PutSucceeds, PutFails, EndPut, buffers
  <2> DEFINE S == PartFrames(batch)
  <2>2. S \in SUBSET Frames /\ \A f \in S : CohortOf[f] = batch.cohort
    BY <1>0, <2>1 DEF Control, PartFrames, Parts, PartCohorts
  <2>3. /\ Kept = records \cup batch.records /\ Kept' = records
        /\ Dropped = ledger \cup drops \cup batch.drops /\ Dropped' = ledger \cup drops
        /\ S = batch.records \cup batch.drops
    BY <2>1 DEF Kept, Dropped, PartFrames
  <2>4. CASE store' = store \cup {batch} /\ failed' = failed
    <3>1. /\ RecordsOf(store') = RecordsOf(store) \cup batch.records
          /\ DropsOf(store') = DropsOf(store) \cup batch.drops
          /\ RecordsOf(failed') = RecordsOf(failed) /\ DropsOf(failed') = DropsOf(failed)
      BY <2>4 DEF RecordsOf, DropsOf
    <3>2. /\ \A f \in S : \/ Fate(f) = "kept" /\ Fate(f)' = "stored"
                          \/ Fate(f) = "dropped" /\ Fate(f)' = "counted"
          /\ \A f \in Frames \ S : Fate(f)' = Fate(f)
      BY <1>1, <1>2, <2>1, <2>2, <2>3, <3>1 DEF FatesTold, FateSays, RecordsOf, DropsOf
    <3>3. CASE S = {}
      BY <3>2, <3>3, LogStutters
    <3>4. CASE S # {}
      BY <2>2, <3>2, <3>4, LogPublishes
    <3> QED
      BY <3>3, <3>4
  <2>5. CASE failed' = failed \cup {batch} /\ store' = store
    <3>1. /\ RecordsOf(failed') = RecordsOf(failed) \cup batch.records
          /\ DropsOf(failed') = DropsOf(failed) \cup batch.drops
          /\ RecordsOf(store') = RecordsOf(store) /\ DropsOf(store') = DropsOf(store)
      BY <2>5 DEF RecordsOf, DropsOf
    <3>2. /\ \A f \in S : \/ Fate(f) = "kept" /\ Fate(f)' = "unstored"
                          \/ Fate(f) = "dropped" /\ Fate(f)' = "uncounted"
          /\ \A f \in Frames \ S : Fate(f)' = Fate(f)
      BY <1>1, <1>2, <2>1, <2>2, <2>3, <3>1 DEF FatesTold, FateSays, RecordsOf, DropsOf
    <3> DEFINE T == {}
    <3>3. /\ T \in SUBSET Frames /\ S \cap T = {}
          /\ \A f \in T : Fate(f) \in {"received", "kept", "dropped"} /\ Fate(f)' = "gone"
          /\ \A f \in Frames \ (S \cup T) : Fate(f)' = Fate(f)
      BY <3>2
    <3> HIDE DEF S, T
    <3>4. Log!Next
      BY <2>2, <3>2, <3>3, LogGivesUp
    <3> QED
      BY <3>4
  <2> QED
    BY <2>1, <2>4, <2>5
<1>11. CASE WriterPanics \/ WriterAborted
  <2>1. WriterDies
    BY <1>11 DEF WriterPanics, WriterAborted
  <2>2. /\ InChannel' = {} /\ InHand' = {} /\ records' = {} /\ drops' = {}
        /\ UNCHANGED <<ledger, store>> /\ wpc' = "dead"
    BY <2>1 DEF WriterDies, InChannel, InHand
  <2>3. Pending' = Reading /\ Kept' = {} /\ Dropped' = ledger
    BY <1>1, <2>2 DEF Pending, Kept, Dropped
  <2>4. BatchFrames = IF wpc = "put" THEN batch.records \cup batch.drops ELSE {}
    BY <1>0, BatchPlace
  <2> DEFINE Q == InChannel \cup InHand \cup records \cup drops
  <2>5. /\ Q \in SUBSET Frames /\ BatchFrames \in SUBSET Frames
        /\ \A f \in BatchFrames : CohortOf[f] = batch.cohort
        /\ BatchFrames \cap Q = {}
    <3>1. InChannel \in SUBSET Frames /\ InHand \in SUBSET Frames
      BY <1>0 DEF TypeOK, InChannel, InHand
    <3>2. Q \in SUBSET Frames
      BY <1>0, <3>1 DEF TypeOK
    <3>3. BatchFrames \in SUBSET Frames
      BY <1>0, <2>4 DEF Control, Parts
    <3>4. \A f \in BatchFrames : CohortOf[f] = batch.cohort
      BY <2>4 DEF PartCohorts, PartFrames
    <3>5. BatchFrames \cap Q = {}
      BY <1>0, <3>3 DEF OnePlace
    <3> QED
      BY <3>2, <3>3, <3>4, <3>5
  <2>6. /\ Q \cap (unread \cup Reading \cup ledger) = {}
        /\ BatchFrames \cap (unread \cup Reading \cup ledger) = {}
    BY <1>0, <2>5 DEF OnePlace
  <2>7. CASE PutStarted
    <3>1. /\ wpc = "put" /\ failed' = failed \cup {batch} /\ discarded' = discarded \cup Q
      BY <2>1, <2>7 DEF WriterDies, PutStarted
    <3>2. /\ RecordsOf(failed') = RecordsOf(failed) \cup batch.records
          /\ DropsOf(failed') = DropsOf(failed) \cup batch.drops
          /\ RecordsOf(store') = RecordsOf(store) /\ DropsOf(store') = DropsOf(store)
      BY <2>2, <3>1 DEF RecordsOf, DropsOf
    <3>3. /\ Kept = records \cup batch.records /\ Dropped = ledger \cup drops \cup batch.drops
          /\ BatchFrames = batch.records \cup batch.drops
      BY <2>4, <3>1 DEF Kept, Dropped
    <3>4. \A f \in BatchFrames : \/ Fate(f) = "kept" /\ Fate(f)' = "unstored"
                                 \/ Fate(f) = "dropped" /\ Fate(f)' = "uncounted"
      BY <2>5, <3>2, <3>3 DEF FatesTold, FateSays, RecordsOf, DropsOf
    <3>5. \A f \in Q : Fate(f) \in {"received", "kept", "dropped"} /\ Fate(f)' = "gone"
      BY <2>5, <3>1, <3>3 DEF FatesTold, FateSays, Pending
    <3>6. \A f \in Frames \ (BatchFrames \cup Q) : Fate(f)' = Fate(f)
      BY <1>1, <2>2, <2>3, <3>1, <3>2, <3>3 DEF FatesTold, FateSays, Pending, RecordsOf, DropsOf
    <3> HIDE DEF Q
    <3>7. Log!Next
      BY <2>5, <3>4, <3>5, <3>6, LogGivesUp
    <3> QED
      BY <3>7
  <2>8. CASE ~PutStarted
    <3>1. failed' = failed /\ discarded' = discarded \cup Q \cup BatchFrames
      BY <2>1, <2>8 DEF WriterDies
    <3>2. \A f \in Q \cup BatchFrames :
             Fate(f) \in {"received", "kept", "dropped"} /\ Fate(f)' = "gone"
      BY <2>4, <2>5, <3>1 DEF FatesTold, FateSays, Pending, Kept, Dropped
    <3>3. \A f \in Frames \ (Q \cup BatchFrames) : Fate(f)' = Fate(f)
      BY <1>1, <1>3, <2>2, <2>3, <2>4, <3>1 DEF FatesTold, FateSays, Pending, Kept, Dropped
    <3> DEFINE S == {}
               T == Q \cup BatchFrames
    <3>4. /\ S \in SUBSET Frames /\ T \in SUBSET Frames /\ S \cap T = {}
          /\ \A f \in S : CohortOf[f] = batch.cohort
          /\ \A f \in S : \/ Fate(f) = "kept" /\ Fate(f)' = "unstored"
                          \/ Fate(f) = "dropped" /\ Fate(f)' = "uncounted"
          /\ \A f \in T : Fate(f) \in {"received", "kept", "dropped"} /\ Fate(f)' = "gone"
          /\ \A f \in Frames \ (S \cup T) : Fate(f)' = Fate(f)
      BY <2>5, <3>2, <3>3
    <3> HIDE DEF S, T
    <3>5. Log!Next
      BY <3>4, LogGivesUp
    <3> QED
      BY <3>5
  <2> QED
    BY <2>7, <2>8
<1>12. ASSUME NEW s \in failed, LateLand(s)
       PROVE  [Log!Next]_[f \in Frames |-> Fate(f)]
  <2>1. /\ UNCHANGED <<channel, ledger, wpc, hand, records, drops, batch, discarded>>
        /\ failed' = failed \ {s} /\ store' = store \cup {s}
    BY <1>12 DEF LateLand, buffers, flush
  <2>2. UNCHANGED <<Kept, Dropped>>
    BY <2>1 DEF Kept, Dropped
  <2> DEFINE S == PartFrames(s)
  <2>3. S \in SUBSET Frames /\ S = s.records \cup s.drops /\ \A f \in S : CohortOf[f] = s.cohort
    BY <1>0 DEF TypeOK, PartFrames, Parts, PartCohorts
  <2>4. /\ RecordsOf(store') = RecordsOf(store) \cup s.records
        /\ DropsOf(store') = DropsOf(store) \cup s.drops
        /\ RecordsOf(failed) = RecordsOf(failed') \cup s.records
        /\ DropsOf(failed) = DropsOf(failed') \cup s.drops
    BY <2>1 DEF RecordsOf, DropsOf
  <2>5. /\ \A f \in S : \/ Fate(f) = "unstored" /\ Fate(f)' = "stored"
                        \/ Fate(f) = "uncounted" /\ Fate(f)' = "counted"
        /\ \A f \in Frames \ S : Fate(f)' = Fate(f)
    BY <1>1, <1>2, <2>1, <2>2, <2>3, <2>4 DEF FatesTold, FateSays, RecordsOf, DropsOf
  <2>6. CASE S = {}
    BY <2>5, <2>6, LogStutters
  <2>7. CASE S # {}
    BY <2>3, <2>5, <2>7, LogPublishes
  <2> QED
    BY <2>6, <2>7
<1> QED
  BY <1>4, <1>5, <1>6, <1>7, <1>8, <1>9, <1>10, <1>11, <1>12 DEF WriterSide, WriterStep

\* Every step of the collector is a step of the log or none.
LEMMA StepLogs ==
    ASSUME IInv, AInv, PartCohorts, IInv', AInv', [Next]_vars
    PROVE  [Log!Next]_[f \in Frames |-> Fate(f)]
<1>1. FatesTold /\ FatesTold'
  BY FateTold, FateToldNext
<1>2. CASE MainStep
  <2>1. UNCHANGED <<rpc, rframe, unread, channel, ledger, wpc, hand, records, drops, batch,
                    store, failed, discarded>>
    BY <1>2, MainKeeps DEF readers, buffers, flush, parts
  <2>2. UNCHANGED <<unread, Pending, Dropped, LateFates>>
    BY <2>1 DEF Pending, Reading, InChannel, InHand, Dropped, LateFates, Kept, RecordsOf, DropsOf
  <2> QED
    BY <1>1, <2>2, SameFates
<1> QED
  BY <1>1, <1>2, ReaderLogs, WriterLogs, StepKinds

\* Nothing is received yet.
LEMMA InitLogs == Init => Log!Init
<1> SUFFICES ASSUME Init PROVE \A f \in Frames : Fate(f) = "unread"
  BY DEF Log!Init
<1>1. FatesTold
  BY InitInv, InitAccounts, FateTold
<1> QED
  BY <1>1 DEF Init, FatesTold, FateSays

\* The collector implements the capture log: a received frame is kept or
\* dropped, becomes a record or a count of one part of its own cohort, and is
\* lost only with the part or the writer that carried it.
THEOREM LogImplemented == Spec => ImplementsLog
<1>1. Init => PartCohorts
  BY DEF Init, PartCohorts
<1>2. IInv /\ PartCohorts /\ [Next]_vars => PartCohorts'
  BY PartCohortsNext DEF IInv
<1>3. IInv /\ AInv /\ PartCohorts /\ IInv' /\ AInv' /\ [Next]_vars
        => [Log!Next]_[f \in Frames |-> Fate(f)]
  BY StepLogs
<1> QED
  BY <1>1, <1>2, <1>3, AccountsInvariance, InitLogs, PTL DEF Spec, ImplementsLog, Log!Spec
=============================================================================
