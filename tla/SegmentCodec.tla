---------------------------- MODULE SegmentCodec ----------------------------
(***************************************************************************)
(* A frame from the SDK's encoder into a segment, the segment's bytes on   *)
(* their way through a store that may cut or damage them, and the tuner's  *)
(* reading of what is left: read_segment, prepare_segment and the loop     *)
(* that measures a part's samples.                                         *)
(*                                                                         *)
(* A buffer is a sequence of units.  Every fixed field is one unit, so the *)
(* lengths are counted in units and not in bytes: a field cut in two is,   *)
(* for a reader, a field that is missing.  Names and vectors are sequences *)
(* of units.  Length sums cannot overflow: they add u32 values in a usize. *)
(***************************************************************************)
EXTENDS ByteSums, Integers, Sequences, SequencesExt, FiniteSetsExt

CONSTANTS
    Cohort,         \* name of the segment's cohort
    CaptureNames,   \* names the callers use, good and bad
    DTypes,         \* dtypes the callers use
    Dimensions,     \* dimensions the callers claim
    Vectors,        \* vectors the callers pass
    Noise,          \* what a damaged unit may become
    MaxRecords,     \* bound: records of the segment
    MaxDropped      \* bound: frames dropped by the collector

VARIABLES
    stage,          \* filling, written, reading or done
    frames,         \* frames kept for the segment
    dropped,        \* frames received and dropped
    buffer,         \* the object's bytes
    intact,         \* history: the object is as it was written
    cut,            \* history: the object is a part of what was written
    next,           \* sample to measure
    measured, failed

codec == <<stage, frames, dropped, buffer, intact, cut, next, measured, failed>>

F32 == 1
ByteSize(dtype) == IF dtype = F32 THEN 1 ELSE 2     \* F64, in units
NotUtf8 == 9
FrameMagic == 101
FrameVersion == 1
SegmentMagic == 102
WindowStart == 1
WindowSeconds == 1

FixedFrameHeaderLen == 7
FixedPrefixLen == 2
BaseHeaderLen == 7

\* The grammar of names is in CohortNames: here it tells good from bad.
Utf8(s) == \A i \in DOMAIN s : s[i] # NotUtf8
ValidName(name) == name # <<>> /\ Utf8(name)

\* A unit is an integer of its field's width; a frame whose cohort has no
\* valid name is not received.
ASSUME UnitsAssumption ==
    /\ Cohort \in Seq(Nat) /\ ValidName(Cohort)
    /\ CaptureNames \subseteq Seq(Nat) /\ Vectors \subseteq Seq(Nat)
    /\ DTypes \subseteq Nat /\ Dimensions \subseteq Nat /\ Noise \subseteq Nat

-----------------------------------------------------------------------------
(* The SDK's encoder.                                                      *)

EncoderAccepts(name, dtype, dimension, vector) ==
    /\ ValidName(name)
    /\ dimension # 0
    /\ Len(vector) = dimension * ByteSize(dtype)

EncodeVectorFrame(name, dtype, dimension, vector) ==
    <<FixedFrameHeaderLen - 1 + Len(name) + Len(vector), FrameMagic,
      FrameVersion, dtype, Len(name), dimension, Len(vector)>>
    \o name \o vector

-----------------------------------------------------------------------------
(* Frames.                                                                 *)

NameStart == FixedFrameHeaderLen
VectorStart(b) == NameStart + b[5]
FrameName(b) == SubSeq(b, NameStart + 1, VectorStart(b))
FrameVector(b) == SubSeq(b, VectorStart(b) + 1, Len(b))

(* parse_frame_header accepts the buffer. *)
FrameParses(b) ==
    /\ Len(b) >= FixedFrameHeaderLen
    /\ b[1] + 1 = Len(b)
    /\ b[1] >= FixedFrameHeaderLen - 1
    /\ b[2] = FrameMagic
    /\ b[3] = FrameVersion
    /\ VectorStart(b) <= b[1] + 1
    /\ VectorStart(b) + b[7] = b[1] + 1
    /\ Utf8(FrameName(b))

TotalFrameLen(b, start) == b[start + 1] + 1

-----------------------------------------------------------------------------
(* Segments.                                                               *)

Header(records) ==
    [window_start |-> WindowStart, window_seconds |-> WindowSeconds,
     first_receive |-> IF records = <<>> THEN 0 ELSE 1,
     last_receive |-> Len(records),
     received_frame_count |-> Len(records) + dropped,
     record_count |-> Len(records), cohort |-> Cohort]

HeaderUnits(h) ==
    <<h.window_start, h.window_seconds, h.first_receive, h.last_receive,
      h.received_frame_count, h.record_count, Len(h.cohort)>> \o h.cohort

RecordUnits(records) ==
    FlattenSeq([i \in DOMAIN records |->
                <<records[i].receive_time>> \o records[i].frame])

WriteSegment(h, records) ==
    <<SegmentMagic, Len(HeaderUnits(h))>> \o HeaderUnits(h)
    \o RecordUnits(records)

HeaderEnd(b) == FixedPrefixLen + b[2]
CohortEnd(b) == FixedPrefixLen + BaseHeaderLen + b[9]
CohortOf(b) == SubSeq(b, FixedPrefixLen + BaseHeaderLen + 1, CohortEnd(b))

HeaderParses(b) ==
    /\ Len(b) >= FixedPrefixLen /\ b[1] = SegmentMagic
    /\ b[2] >= BaseHeaderLen
    /\ Len(b) >= HeaderEnd(b)
    /\ CohortEnd(b) <= HeaderEnd(b)
    /\ ValidName(CohortOf(b))

RecordEnd(b, start) == start + 1 + TotalFrameLen(b, start + 1)

(* A whole record starts after `start' units. *)
RecordParses(b, start) ==
    /\ start + 2 <= Len(b)
    /\ RecordEnd(b, start) <= Len(b)
    /\ FrameParses(SubSeq(b, start + 2, RecordEnd(b, start)))

NextRecord(b, scan) ==
    IF RecordParses(b, scan.at)
    THEN [at |-> RecordEnd(b, scan.at),
          read |-> Append(scan.read,
              [receive_time |-> b[scan.at + 1],
               frame |-> SubSeq(b, scan.at + 2, RecordEnd(b, scan.at))])]
    ELSE scan

(* The loop over the records: where it is after each turn, and what it has
   read by then.  It ends before it has turned once for every unit. *)
Scan(b) ==
    LET turn[i \in 0 .. Len(b)] ==
            IF i = 0 THEN [at |-> HeaderEnd(b), read |-> <<>>]
            ELSE NextRecord(b, turn[i - 1])
    IN  turn[Len(b)]

ScanEnd(b) == Scan(b).at
Records(b) == Scan(b).read

SegmentParses(b) == HeaderParses(b) /\ ScanEnd(b) = Len(b)

-----------------------------------------------------------------------------
(* The tuner's side.                                                       *)

\* Mutant: the header's record count is not compared.
PreparesUncounted(b) ==
    /\ SegmentParses(b)
    /\ CohortOf(b) = Cohort
    /\ b[3] = WindowStart /\ b[4] = WindowSeconds
    /\ b[7] >= b[8]

(* prepare_segment accepts the buffer. *)
Prepares(b) ==
    /\ SegmentParses(b)
    /\ CohortOf(b) = Cohort
    /\ b[3] = WindowStart /\ b[4] = WindowSeconds
    /\ Len(Records(b)) = b[8]
    /\ b[7] >= b[8]

(* The first record of each vector, by its index, with its count. *)
Samples(b) ==
    LET r == Records(b)
        vec(i) == FrameVector(r[i].frame)
        first == {i \in DOMAIN r : \A j \in 1 .. i - 1 : vec(j) # vec(i)}
    IN  [i \in first |->
            [frame |-> r[i].frame,
             dup_count |-> Cardinality({j \in DOMAIN r : vec(j) = vec(i)})]]

(* A sample that is sent to the database. *)
Usable(f) ==
    /\ FrameName(f) = Cohort
    /\ f[4] = F32
    /\ f[6] # 0 /\ f[6] * ByteSize(F32) = Len(FrameVector(f))

-----------------------------------------------------------------------------
CodecInit ==
    /\ stage = "filling"
    /\ frames = <<>> /\ dropped = 0
    /\ buffer = <<>> /\ intact = TRUE /\ cut = FALSE
    /\ next = 1 /\ measured = 0 /\ failed = 0

(* The writer keeps frames under the name they carry. *)
Keep(name, dtype, dimension, vector) ==
    /\ stage = "filling" /\ Len(frames) < MaxRecords
    /\ EncoderAccepts(name, dtype, dimension, vector)
    /\ name = Cohort
    /\ frames' = Append(frames, [receive_time |-> Len(frames) + 1,
                  frame |-> EncodeVectorFrame(name, dtype, dimension, vector)])
    /\ UNCHANGED <<stage, dropped, buffer, intact, cut, next, measured, failed>>

Drop ==
    /\ stage = "filling" /\ dropped < MaxDropped
    /\ dropped' = dropped + 1
    /\ UNCHANGED <<stage, frames, buffer, intact, cut, next, measured, failed>>

(* A part with nothing but drops is written too. *)
Write ==
    /\ stage = "filling" /\ (frames # <<>> \/ dropped > 0)
    /\ stage' = "written"
    /\ buffer' = WriteSegment(Header(frames), frames)
    /\ UNCHANGED <<frames, dropped, intact, cut, next, measured, failed>>

Cut ==
    /\ stage = "written" /\ intact
    /\ \E n \in 0 .. Len(buffer) - 1 : buffer' = SubSeq(buffer, 1, n)
    /\ intact' = FALSE /\ cut' = TRUE
    /\ UNCHANGED <<stage, frames, dropped, next, measured, failed>>

Damage ==
    /\ stage = "written" /\ intact
    /\ \E i \in DOMAIN buffer, u \in Noise :
          /\ buffer[i] # u
          /\ buffer' = [buffer EXCEPT ![i] = u]
    /\ intact' = FALSE
    /\ UNCHANGED <<stage, frames, dropped, cut, next, measured, failed>>

Prepare ==
    /\ stage = "written" /\ Prepares(buffer)
    /\ stage' = "reading"
    /\ UNCHANGED <<frames, dropped, buffer, intact, cut, next, measured,
                   failed>>

(* One turn of measure_prepared_part: a sample that is not usable has failed
   without a query, another may fail in the database. *)
TakeSample ==
    /\ stage = "reading" /\ next \in DOMAIN Samples(buffer)
    /\ next' = next + 1
    /\ \/ Usable(Samples(buffer)[next].frame) /\ measured' = measured + 1
          /\ UNCHANGED failed
       \/ failed' = failed + 1 /\ UNCHANGED measured
    /\ UNCHANGED <<stage, frames, dropped, buffer, intact, cut>>

SkipDuplicate ==
    /\ stage = "reading"
    /\ next \in DOMAIN Records(buffer) \ DOMAIN Samples(buffer)
    /\ next' = next + 1
    /\ UNCHANGED <<stage, frames, dropped, buffer, intact, cut, measured,
                   failed>>

Complete ==
    /\ stage = "reading" /\ next > Len(Records(buffer))
    /\ stage' = "done"
    /\ UNCHANGED <<frames, dropped, buffer, intact, cut, next, measured,
                   failed>>

CodecNext ==
    \/ \E n \in CaptureNames, t \in DTypes, d \in Dimensions, v \in Vectors :
          Keep(n, t, d, v)
    \/ Drop \/ Write \/ Cut \/ Damage \/ Prepare
    \/ TakeSample \/ SkipDuplicate \/ Complete

CodecSpec == CodecInit /\ [][CodecNext]_codec

-----------------------------------------------------------------------------
(* A segment that reached the store whole is accepted, and its records are
   the frames that were kept, in their order. *)
ReadsBack ==
    stage = "written" /\ intact =>
        Prepares(buffer) /\ Records(buffer) = frames

(* No proper prefix of a segment is taken for one: a cut inside a record
   fails the scan, and a cut between two records the header's count. *)
CutIsRejected == stage = "written" /\ cut => ~Prepares(buffer)

(* Whatever is damaged, an accepted object is covered exactly once by its
   header, the header bytes a newer writer may add, and its records. *)
AcceptedIsCovered ==
    stage = "written" /\ SegmentParses(buffer) =>
        /\ buffer = SubSeq(buffer, 1, HeaderEnd(buffer))
                    \o RecordUnits(Records(buffer))
        /\ CohortEnd(buffer) <= HeaderEnd(buffer)

(* Every record of an accepted part is in exactly one sample's count, every
   sample is measured or failed, and no count exceeds what was received. *)
PartAccounted ==
    stage = "done" =>
        LET s == Samples(buffer)
        IN  /\ measured + failed = Cardinality(DOMAIN s)
            /\ ByteSum(DOMAIN s, [i \in DOMAIN s |-> s[i].dup_count]) = buffer[8]
            /\ buffer[8] <= buffer[7]

(* What the SDK encoded as F32 can be measured: no check of the collector's
   or of the tuner's fails a frame the SDK let through. *)
EncodedIsUsable ==
    \A i \in DOMAIN frames :
        /\ FrameParses(frames[i].frame)
        /\ frames[i].frame[4] = F32 => Usable(frames[i].frame)

(* The codecs lose nothing between the SDK and the tuner: a frame the SDK
   encodes is usable, a segment reads back whole or, cut or damaged, is
   refused or still read without gap or overlap, and every record read is
   accounted for. *)
SegmentsReadBack ==
    /\ EncodedIsUsable
    /\ ReadsBack /\ CutIsRejected /\ AcceptedIsCovered
    /\ PartAccounted
=============================================================================
