---------------------------- MODULE CodecProofs -----------------------------
(***************************************************************************)
(* The core library: the codecs lose nothing of any segment, and cohorts   *)
(* and windows are told apart by their names, for every cohort, frame,     *)
(* grammar and window width.                                               *)
(***************************************************************************)
EXTENDS SegmentCodec, CohortNames, WindowDates, DataLemmas

-----------------------------------------------------------------------------
(* Frames.                                                                 *)

\* x, y and z are where they should be in a concatenation of the three.
Thirds(T, b, x, y, z) ==
    LET l == Len(x) + Len(y)
    IN  /\ b \in Seq(T) /\ Len(b) = l + Len(z)
        /\ \A i \in 1 .. Len(x) : b[i] = x[i]
        /\ SubSeq(b, Len(x) + 1, l) = y
        /\ SubSeq(b, l + 1, Len(b)) = z

\* Every part of a concatenation of three is found where it was put.
LEMMA ConcatThirds ==
    ASSUME NEW T, NEW x \in Seq(T), NEW y \in Seq(T), NEW z \in Seq(T)
    PROVE  Thirds(T, x \o y \o z, x, y, z)
<1> DEFINE b == x \o y \o z
           l == Len(x) + Len(y)
<1>0. Len(x) \in Nat /\ Len(y) \in Nat /\ Len(z) \in Nat /\ l \in Nat
  OBVIOUS
<1>1. /\ x \o y \in Seq(T) /\ Len(x \o y) = l
      /\ \A i \in 1 .. l : (x \o y)[i] = IF i <= Len(x) THEN x[i] ELSE y[i - Len(x)]
  BY ConcatProperties
<1> HIDE DEF l
<1>2. /\ b \in Seq(T) /\ Len(b) = l + Len(z)
      /\ \A i \in 1 .. l + Len(z) : b[i] = IF i <= l THEN (x \o y)[i] ELSE z[i - l]
  BY <1>1, ConcatProperties
<1> HIDE DEF b
<1>3. \A i \in 1 .. l + Len(z) : b[i] \in T
  BY <1>2, ElementOfSeq
<1>4. l >= Len(x) /\ l = Len(x) + Len(y)
  BY <1>0 DEF l
<1>5. \A i \in 1 .. Len(x) : b[i] = x[i]
  BY <1>0, <1>1, <1>2, <1>4
<1>6. SubSeq(b, Len(x) + 1, l) = y
  <2> DEFINE s == SubSeq(b, Len(x) + 1, l)
  <2>1. \A i \in Len(x) + 1 .. l : b[i] \in T
    BY <1>0, <1>3, <1>4
  <2>2. /\ s \in Seq(T) /\ Len(s) = IF Len(x) + 1 <= l THEN l - (Len(x) + 1) + 1 ELSE 0
        /\ \A i \in 1 .. l - (Len(x) + 1) + 1 : s[i] = b[(Len(x) + 1) + i - 1]
    BY <1>0, <2>1, SubSeqProperties
  <2> HIDE DEF s
  <2>3. Len(s) = Len(y)
    BY <1>0, <1>4, <2>2
  <2>4. ASSUME NEW i \in 1 .. Len(s) PROVE s[i] = y[i]
    <3>1. /\ i \in 1 .. l - (Len(x) + 1) + 1 /\ (Len(x) + 1) + i - 1 = Len(x) + i
          /\ Len(x) + i \in 1 .. l /\ Len(x) + i \in 1 .. l + Len(z) /\ ~(Len(x) + i <= Len(x))
          /\ Len(x) + i - Len(x) = i
      BY <1>0, <1>4, <2>3
    <3>2. s[i] = b[Len(x) + i]
      BY <2>2, <3>1
    <3>3. b[Len(x) + i] = (x \o y)[Len(x) + i]
      <4> DEFINE w == x \o y
      <4> HIDE DEF w
      <4>1. \A k \in 1 .. l + Len(z) : k <= l => b[k] = w[k]
        BY <1>2 DEF w
      <4>2. Len(x) + i <= l
        BY <1>0, <3>1
      <4> QED
        BY <3>1, <4>1, <4>2 DEF w
    <3>4. (x \o y)[Len(x) + i] = y[Len(x) + i - Len(x)]
      BY <1>1, <3>1
    <3> QED
      BY <3>1, <3>2, <3>3, <3>4
  <2>5. s = y
    BY <2>2, <2>3, <2>4, SeqEqual
  <2> QED
    BY <2>5 DEF s
<1>7. SubSeq(b, l + 1, Len(b)) = z
  <2> DEFINE s == SubSeq(b, l + 1, l + Len(z))
  <2>1. \A i \in l + 1 .. l + Len(z) : b[i] \in T
    BY <1>0, <1>3
  <2>2. /\ s \in Seq(T)
        /\ Len(s) = IF l + 1 <= l + Len(z) THEN l + Len(z) - (l + 1) + 1 ELSE 0
        /\ \A i \in 1 .. l + Len(z) - (l + 1) + 1 : s[i] = b[(l + 1) + i - 1]
    BY <1>0, <2>1, SubSeqProperties
  <2> HIDE DEF s
  <2>3. Len(s) = Len(z)
    BY <1>0, <2>2
  <2>4. ASSUME NEW i \in 1 .. Len(s) PROVE s[i] = z[i]
    <3>1. /\ i \in 1 .. l + Len(z) - (l + 1) + 1 /\ (l + 1) + i - 1 = l + i
          /\ l + i \in 1 .. l + Len(z) /\ ~(l + i <= l) /\ l + i - l = i
      BY <1>0, <2>3
    <3>2. s[i] = b[l + i]
      BY <2>2, <3>1
    <3>3. PICK k \in 1 .. l + Len(z) : k = l + i
      BY <3>1
    <3>4. ~(k <= l) /\ k - l = i
      BY <1>0, <3>3
    <3>5. b[k] = IF k <= l THEN (x \o y)[k] ELSE z[k - l]
      BY <1>2
    <3>6. b[k] = z[k - l]
      BY <3>4, <3>5, Zenon
    <3> QED
      BY <3>2, <3>3, <3>4, <3>6
  <2>5. s = z
    BY <2>2, <2>3, <2>4, SeqEqual
  <2> QED
    BY <1>2, <2>5 DEF s
<1>8. Thirds(T, b, x, y, z)
  BY <1>2, <1>5, <1>6, <1>7 DEF Thirds, l
<1> QED
  BY <1>8 DEF b

\* A frame the SDK lets through is parsed, and its name and vector are found.
LEMMA EncodedFrame ==
    ASSUME NEW name \in Seq(Nat), NEW t \in Nat, NEW d \in Nat, NEW vec \in Seq(Nat),
           EncoderAccepts(name, t, d, vec)
    PROVE  LET f == EncodeVectorFrame(name, t, d, vec)
           IN  /\ f \in Seq(Nat) /\ FrameParses(f)
               /\ FrameName(f) = name
               /\ name = Cohort /\ f[4] = F32 => Usable(f)
<1> DEFINE hd == <<FixedFrameHeaderLen - 1 + Len(name) + Len(vec), FrameMagic,
                   FrameVersion, t, Len(name), d, Len(vec)>>
           f == hd \o name \o vec
<1>0. Len(name) \in Nat /\ Len(vec) \in Nat
  OBVIOUS
<1>1. /\ hd \in Seq(Nat) /\ Len(hd) = 7
      /\ hd[1] = 6 + Len(name) + Len(vec) /\ hd[2] = FrameMagic /\ hd[3] = FrameVersion
      /\ hd[4] = t /\ hd[5] = Len(name) /\ hd[6] = d /\ hd[7] = Len(vec)
  BY <1>0 DEF FixedFrameHeaderLen, FrameMagic, FrameVersion
<1>2. EncodeVectorFrame(name, t, d, vec) = f
  BY DEF EncodeVectorFrame
<1> HIDE DEF hd
<1>3. /\ f \in Seq(Nat) /\ Len(f) = 7 + Len(name) + Len(vec)
      /\ \A i \in 1 .. 7 : f[i] = hd[i]
      /\ SubSeq(f, 7 + 1, 7 + Len(name)) = name
      /\ SubSeq(f, 7 + Len(name) + 1, Len(f)) = vec
  <2>1. Thirds(Nat, f, hd, name, vec)
    BY <1>1, ConcatThirds
  <2> HIDE DEF f
  <2> QED
    BY <1>1, <2>1 DEF Thirds
<1> HIDE DEF f
<1>4. /\ f[1] = 6 + Len(name) + Len(vec) /\ f[2] = FrameMagic /\ f[3] = FrameVersion
      /\ f[4] = t /\ f[5] = Len(name) /\ f[6] = d /\ f[7] = Len(vec)
  <2>1. /\ f[1] = hd[1] /\ f[2] = hd[2] /\ f[3] = hd[3] /\ f[4] = hd[4]
        /\ f[5] = hd[5] /\ f[6] = hd[6] /\ f[7] = hd[7]
    BY <1>3
  <2> QED
    BY <1>1, <2>1
<1>5. VectorStart(f) = 7 + Len(name)
  BY <1>4 DEF VectorStart, NameStart, FixedFrameHeaderLen
<1>6. FrameName(f) = name /\ FrameVector(f) = vec
  BY <1>3, <1>5 DEF FrameName, FrameVector, NameStart, FixedFrameHeaderLen
<1>7. Utf8(name)
  BY DEF EncoderAccepts, ValidName
<1>8. FrameParses(f)
  <2>1. Len(f) >= 7 /\ f[1] + 1 = Len(f) /\ f[1] >= 6
    BY <1>0, <1>3, <1>4
  <2>2. VectorStart(f) <= f[1] + 1 /\ VectorStart(f) + f[7] = f[1] + 1
    BY <1>0, <1>4, <1>5
  <2> QED
    BY <1>4, <1>6, <1>7, <2>1, <2>2 DEF FrameParses, FixedFrameHeaderLen
<1>9. ASSUME name = Cohort, f[4] = F32 PROVE Usable(f)
  BY <1>4, <1>6, <1>9 DEF Usable, EncoderAccepts, ByteSize
<1> QED
  BY <1>2, <1>3, <1>6, <1>8, <1>9

-----------------------------------------------------------------------------
(* The scan.                                                               *)

\* A record, and the units it takes in a segment.
Record == [receive_time : Nat, frame : Seq(Nat)]
Unit(r) == <<r.receive_time>> \o r.frame
Units(records) == [i \in DOMAIN records |-> Unit(records[i])]
\* The states of a scan of b.
ScanState(b) == [at : 0 .. Len(b), read : Seq(Record)]

\* The states of the scan, turn by turn.
Turns(turn, b) ==
    /\ turn \in [0 .. Len(b) -> ScanState(b)]
    /\ turn[0] = [at |-> HeaderEnd(b), read |-> << >>]
    /\ \A i \in 1 .. Len(b) : turn[i] = NextRecord(b, turn[i - 1])

\* What a turn of the scan reads is a record, and it moves on.
LEMMA RecordRead ==
    ASSUME NEW b \in Seq(Nat), NEW at \in 0 .. Len(b), RecordParses(b, at)
    PROVE  /\ RecordEnd(b, at) \in at + 2 .. Len(b)
           /\ [receive_time |-> b[at + 1],
               frame |-> SubSeq(b, at + 2, RecordEnd(b, at))] \in Record
<1>0. Len(b) \in Nat /\ \A i \in 1 .. Len(b) : b[i] \in Nat
  OBVIOUS
<1>1. at + 2 <= Len(b) /\ RecordEnd(b, at) <= Len(b)
  BY DEF RecordParses
<1>2. at + 1 \in 1 .. Len(b) /\ at + 2 \in 1 .. Len(b) /\ (at + 1) + 1 = at + 2
  BY <1>0, <1>1
<1>3. b[at + 1] \in Nat /\ b[at + 2] \in Nat
  BY <1>0, <1>2
<1>4. RecordEnd(b, at) = at + 1 + (b[at + 2] + 1)
  BY <1>2 DEF RecordEnd, TotalFrameLen
<1>5. RecordEnd(b, at) \in at + 2 .. Len(b)
  BY <1>0, <1>1, <1>3, <1>4
<1>6. SubSeq(b, at + 2, RecordEnd(b, at)) \in Seq(Nat)
  <2>1. \A i \in at + 2 .. RecordEnd(b, at) : i \in 1 .. Len(b)
    BY <1>0, <1>5
  <2>2. \A i \in at + 2 .. RecordEnd(b, at) : b[i] \in Nat
    BY <1>0, <2>1
  <2>3. at + 2 \in Int /\ RecordEnd(b, at) \in Int
    BY <1>0, <1>5
  <2> QED
    BY <2>2, <2>3, SubSeqProperties
<1> QED
  BY <1>3, <1>5, <1>6 DEF Record

\* A turn leads from a state of the scan to another.
LEMMA TurnType ==
    ASSUME NEW b \in Seq(Nat), NEW s \in ScanState(b)
    PROVE  NextRecord(b, s) \in ScanState(b)
<1>1. s.at \in 0 .. Len(b) /\ s.read \in Seq(Record)
  BY DEF ScanState
<1>2. CASE RecordParses(b, s.at)
  <2> DEFINE r == [receive_time |-> b[s.at + 1],
                   frame |-> SubSeq(b, s.at + 2, RecordEnd(b, s.at))]
  <2>1. r \in Record /\ RecordEnd(b, s.at) \in 0 .. Len(b)
    <3>1. r \in Record /\ RecordEnd(b, s.at) \in s.at + 2 .. Len(b)
      BY <1>1, <1>2, RecordRead
    <3> QED
      BY <1>1, <3>1
  <2>2. NextRecord(b, s) = [at |-> RecordEnd(b, s.at), read |-> Append(s.read, r)]
    BY <1>2 DEF NextRecord
  <2> HIDE DEF r
  <2>3. Append(s.read, r) \in Seq(Record)
    BY <1>1, <2>1, AppendProperties
  <2> QED
    BY <2>1, <2>2, <2>3 DEF ScanState
<1>3. CASE ~RecordParses(b, s.at)
  BY <1>3 DEF NextRecord
<1> QED
  BY <1>2, <1>3

\* The scan is its turns, one for each unit of the buffer at most.
LEMMA ScanTurns ==
    ASSUME NEW b \in Seq(Nat), HeaderEnd(b) \in 0 .. Len(b)
    PROVE  \E turn : Turns(turn, b) /\ Scan(b) = turn[Len(b)]
<1> DEFINE n == Len(b)
           A == ScanState(b)
           a == [at |-> HeaderEnd(b), read |-> << >>]
           step == [x \in A \X (1 .. n) |-> NextRecord(b, x[1])]
           turn[i \in 0 .. n] == IF i = 0 THEN a ELSE NextRecord(b, turn[i - 1])
<1>0. n \in Nat
  OBVIOUS
<1>1. a \in A
  <2>1. << >> \in Seq(Record)
    BY EmptySeq
  <2> QED
    BY <2>1 DEF ScanState
<1>2. Scan(b) = turn[n]
  BY Zenon DEF Scan
<1> HIDE DEF A, n, a
<1>3. step \in [A \X (1 .. n) -> A]
  BY TurnType DEF A
<1>4. \A y \in A, i \in 1 .. n : step[<<y, i>>] = NextRecord(b, y)
  OBVIOUS
<1> HIDE DEF step
<1>5. BoundedRecursion(A, a, n, step)
  BY <1>0, <1>1, <1>3 DEF BoundedRecursion
<1>6. PICK g : SolvesUpTo(g, A, a, n, step)
  BY <1>5, BoundedRecursionSolved
<1>7. /\ g \in [0 .. n -> A] /\ g[0] = a
      /\ \A i \in 1 .. n : g[i] = step[<<g[i - 1], i>>]
  BY <1>6 DEF SolvesUpTo
<1>8. ASSUME NEW i \in 1 .. n PROVE g[i] = NextRecord(b, g[i - 1])
  <2>1. i - 1 \in 0 .. n
    BY <1>0
  <2>2. g[i - 1] \in A
    BY <1>7, <2>1
  <2> QED
    BY <1>4, <1>7, <2>2
<1> DEFINE h == [i \in 0 .. n |-> IF i = 0 THEN a ELSE NextRecord(b, g[i - 1])]
<1>9. ASSUME NEW i \in 0 .. n PROVE g[i] = h[i]
  <2>1. CASE i = 0
    BY <1>7, <2>1
  <2>2. CASE i # 0
    <3>1. i \in 1 .. n
      BY <1>0, <2>2
    <3>2. h[i] = NextRecord(b, g[i - 1])
      BY <2>2
    <3> HIDE DEF h
    <3> QED
      BY <1>8, <3>1, <3>2
  <2> QED
    BY <2>1, <2>2
<1>10. g = h
  <2>1. g = [i \in 0 .. n |-> g[i]] /\ h = [i \in 0 .. n |-> h[i]]
    BY <1>7
  <2> HIDE DEF h
  <2> QED
    BY <1>9, <2>1
<1>11. turn = [i \in 0 .. n |-> IF i = 0 THEN a ELSE NextRecord(b, turn[i - 1])]
  BY <1>10
<1> HIDE DEF turn, h
<1>12. turn[0] = a /\ \A i \in 1 .. n : turn[i] = NextRecord(b, turn[i - 1])
  BY <1>0, <1>11
<1> DEFINE S == {i \in 0 .. n : turn[i] \in A}
<1>13. 0 \in S
  BY <1>0, <1>1, <1>12
<1>14. ASSUME NEW i \in 0 .. (n - 1), i \in S PROVE i + 1 \in S
  <2>1. i + 1 \in 1 .. n /\ i + 1 \in 0 .. n /\ (i + 1) - 1 = i
    BY <1>0
  <2>2. turn[i + 1] = NextRecord(b, turn[(i + 1) - 1])
    BY <1>12, <2>1
  <2>3. turn[i + 1] = NextRecord(b, turn[i]) /\ turn[i] \in A
    BY <1>14, <2>1, <2>2
  <2>4. turn[i + 1] \in A
    BY <2>3, TurnType DEF A
  <2> QED
    BY <2>1, <2>4
<1>15. 0 .. n \subseteq S
  <2> HIDE DEF S
  <2> QED
    BY <1>0, <1>13, <1>14, IntervalInduction
<1>16. turn \in [0 .. n -> A]
  <2>1. turn = [i \in 0 .. n |-> turn[i]]
    BY <1>11
  <2>2. \A i \in 0 .. n : turn[i] \in A
    BY <1>15
  <2> QED
    BY <2>1, <2>2
<1>17. Turns(turn, b)
  BY <1>12, <1>16 DEF Turns, n, A, a
<1> QED
  BY <1>2, <1>17 DEF n

\* A record's unit is its receive time and then its frame.
LEMMA UnitType ==
    ASSUME NEW r \in Record
    PROVE  /\ Unit(r) \in Seq(Nat) /\ Len(Unit(r)) = 1 + Len(r.frame) /\ Len(r.frame) \in Nat
           /\ Unit(r)[1] = r.receive_time
           /\ \A k \in 1 .. Len(r.frame) : Unit(r)[1 + k] = r.frame[k]
<1> DEFINE x == <<r.receive_time>>
           y == r.frame
<1>1. x \in Seq(Nat) /\ y \in Seq(Nat) /\ Len(x) = 1 /\ x[1] = r.receive_time /\ Len(y) \in Nat
  BY DEF Record
<1>2. Unit(r) = x \o y
  BY DEF Unit
<1> HIDE DEF x, y
<1>3. /\ x \o y \in Seq(Nat) /\ Len(x \o y) = Len(x) + Len(y)
      /\ \A k \in 1 .. Len(x) + Len(y) :
            (x \o y)[k] = IF k <= Len(x) THEN x[k] ELSE y[k - Len(x)]
  BY <1>1, ConcatProperties
<1>4. (x \o y)[1] = x[1]
  BY <1>1, <1>3
<1>5. ASSUME NEW k \in 1 .. Len(y) PROVE (x \o y)[1 + k] = y[k]
  <2>1. PICK j \in 1 .. Len(x) + Len(y) : j = 1 + k
    BY <1>1
  <2>2. ~(j <= Len(x)) /\ j - Len(x) = k
    BY <1>1, <2>1
  <2>3. (x \o y)[j] = IF j <= Len(x) THEN x[j] ELSE y[j - Len(x)]
    BY <1>3
  <2>4. (x \o y)[j] = y[j - Len(x)]
    BY <2>2, <2>3, Zenon
  <2> QED
    BY <2>1, <2>2, <2>4
<1> QED
  BY <1>1, <1>2, <1>3, <1>4, <1>5 DEF y

\* The units of a sequence of records are those of its records in turn.
LEMMA UnitsType ==
    ASSUME NEW records \in Seq(Record)
    PROVE  /\ Len(records) \in Nat
           /\ Units(records) \in [1 .. Len(records) -> Seq(Nat)]
           /\ \A i \in 1 .. Len(records) : Units(records)[i] = Unit(records[i])
                                           /\ records[i] \in Record
           /\ RecordUnits(records) = FlattenSeq(Units(records))
<1>1. /\ Len(records) \in Nat /\ DOMAIN records = 1 .. Len(records)
      /\ \A i \in 1 .. Len(records) : records[i] \in Record
  <2> HIDE DEF Record
  <2> QED
    BY LenProperties, ElementOfSeq
<1>2. \A i \in 1 .. Len(records) : Unit(records[i]) \in Seq(Nat)
  BY <1>1, UnitType
<1>3. RecordUnits(records) = FlattenSeq(Units(records))
  BY DEF RecordUnits, Units, Unit
<1> QED
  BY <1>1, <1>2, <1>3 DEF Units

\* One more record is one more unit at the end.
LEMMA RecordUnitsAppend ==
    ASSUME NEW records \in Seq(Record), NEW r \in Record
    PROVE  RecordUnits(Append(records, r)) = RecordUnits(records) \o Unit(r)
<1> DEFINE n == Len(records)
           more == Append(records, r)
<1>1. /\ n \in Nat /\ Units(records) \in [1 .. n -> Seq(Nat)]
      /\ \A i \in 1 .. n : Units(records)[i] = Unit(records[i])
      /\ RecordUnits(records) = FlattenSeq(Units(records))
  BY UnitsType
<1>2. /\ more \in Seq(Record) /\ Len(more) = n + 1
      /\ \A i \in 1 .. n : more[i] = records[i]
      /\ more[n + 1] = r
  BY AppendProperties
<1> HIDE DEF more, n
<1>3. /\ Units(more) \in [1 .. n + 1 -> Seq(Nat)]
      /\ \A i \in 1 .. n + 1 : Units(more)[i] = Unit(more[i])
      /\ RecordUnits(more) = FlattenSeq(Units(more))
  BY <1>2, UnitsType
<1>4. \A i \in 1 .. n : Units(more)[i] = Units(records)[i]
  <2> SUFFICES ASSUME NEW i \in 1 .. n PROVE Units(more)[i] = Units(records)[i]
    OBVIOUS
  <2>1. i \in 1 .. n + 1
    BY <1>1
  <2> QED
    BY <1>1, <1>2, <1>3, <2>1
<1>5. n + 1 \in 1 .. n + 1
  BY <1>1
<1>6. Units(more)[n + 1] = Unit(r)
  BY <1>2, <1>3, <1>5
<1>7. FlattenSeq(Units(more)) = FlattenSeq(Units(records)) \o Units(more)[n + 1]
  BY <1>1, <1>3, <1>4, FlattenAppend
<1>8. RecordUnits(more) = RecordUnits(records) \o Unit(r)
  <2>1. RecordUnits(more) = FlattenSeq(Units(more))
    BY <1>3
  <2>2. RecordUnits(records) = FlattenSeq(Units(records))
    BY <1>1
  <2> QED
    BY <1>6, <1>7, <2>1, <2>2
<1> QED
  BY <1>8 DEF more

\* What is between the header and where the scan is, is what it has read.
Covered(b, s) ==
    s.at >= HeaderEnd(b) /\ SubSeq(b, HeaderEnd(b) + 1, s.at) = RecordUnits(s.read)

\* A turn covers what it reads.
LEMMA TurnCovers ==
    ASSUME NEW b \in Seq(Nat), NEW s \in ScanState(b), HeaderEnd(b) \in 0 .. Len(b),
           Covered(b, s)
    PROVE  Covered(b, NextRecord(b, s))
<1>0. s.at \in 0 .. Len(b) /\ s.read \in Seq(Record) /\ Len(b) \in Nat
  BY DEF ScanState
<1>1. CASE ~RecordParses(b, s.at)
  BY <1>1 DEF NextRecord
<1>2. CASE RecordParses(b, s.at)
  <2> DEFINE e == RecordEnd(b, s.at)
             he == HeaderEnd(b)
             fr == SubSeq(b, s.at + 2, e)
             r == [receive_time |-> b[s.at + 1], frame |-> fr]
  <2>1. r \in Record /\ e \in s.at + 2 .. Len(b)
    BY <1>0, <1>2, RecordRead
  <2>2. NextRecord(b, s) = [at |-> e, read |-> Append(s.read, r)]
    BY <1>2 DEF NextRecord
  <2>3. he \in 0 .. Len(b) /\ s.at >= he /\ SubSeq(b, he + 1, s.at) = RecordUnits(s.read)
    BY DEF Covered
  <2>4. Unit(r) = <<b[s.at + 1]>> \o fr
    BY DEF Unit
  <2> HIDE DEF e, he, fr, r
  <2>5. SubSeq(b, s.at + 1, e) = <<b[s.at + 1]>> \o SubSeq(b, (s.at + 1) + 1, e)
    <3>1. s.at + 1 \in 1 .. Len(b) /\ e \in s.at + 1 .. Len(b)
      BY <1>0, <2>1
    <3> QED
      BY <3>1, SubSeqRecursiveFirst
  <2>6. SubSeq(b, s.at + 1, e) = Unit(r)
    <3>1. (s.at + 1) + 1 = s.at + 2
      BY <1>0
    <3> QED
      BY <2>4, <2>5, <3>1 DEF fr
  <2>7. SubSeq(b, he + 1, s.at) \o SubSeq(b, s.at + 1, e) = SubSeq(b, he + 1, e)
    <3>1. /\ he + 1 \in 1 .. Len(b) + 1 /\ s.at \in (he + 1) - 1 .. Len(b)
          /\ e \in s.at .. Len(b)
      BY <1>0, <2>1, <2>3
    <3> QED
      BY <3>1, ConcatAdjacentSubSeq
  <2>8. RecordUnits(Append(s.read, r)) = RecordUnits(s.read) \o Unit(r)
    BY <1>0, <2>1, RecordUnitsAppend
  <2>9. e >= he
    BY <1>0, <2>1, <2>3
  <2>10. NextRecord(b, s).at = e /\ NextRecord(b, s).read = Append(s.read, r)
    BY <2>2
  <2> QED
    BY <2>3, <2>6, <2>7, <2>8, <2>9, <2>10 DEF Covered, he
<1> QED
  BY <1>1, <1>2

\* A buffer with a whole header is covered as far as the scan goes.
LEMMA ScanCovers ==
    ASSUME NEW b \in Seq(Nat), HeaderEnd(b) \in 0 .. Len(b)
    PROVE  Scan(b) \in ScanState(b) /\ Covered(b, Scan(b))
<1>1. PICK turn : Turns(turn, b) /\ Scan(b) = turn[Len(b)]
  BY ScanTurns
<1>2. /\ turn \in [0 .. Len(b) -> ScanState(b)]
      /\ turn[0] = [at |-> HeaderEnd(b), read |-> << >>]
      /\ \A i \in 1 .. Len(b) : turn[i] = NextRecord(b, turn[i - 1])
  BY <1>1 DEF Turns
<1> DEFINE n == Len(b)
           S == {i \in 0 .. n : Covered(b, turn[i])}
<1>0. n \in Nat
  OBVIOUS
<1> HIDE DEF n
<1>3. 0 \in S
  <2>1. turn[0].at = HeaderEnd(b) /\ turn[0].read = << >>
    BY <1>2
  <2>2. SubSeq(b, HeaderEnd(b) + 1, HeaderEnd(b)) = << >>
    <3>1. HeaderEnd(b) \in Int /\ HeaderEnd(b) + 1 \in Int /\ HeaderEnd(b) < HeaderEnd(b) + 1
      BY <1>0 DEF n
    <3> QED
      BY <3>1, SubSeqEmpty
  <2>3. RecordUnits(<< >>) = << >>
    <3>1. << >> \in Seq(Record) /\ Len(<< >>) = 0
      BY EmptySeq
    <3>2. Units(<< >>) = << >>
      BY DEF Units
    <3>3. FlattenSeq(<< >>) = << >>
      BY <3>1 DEF FlattenSeq
    <3> QED
      BY <3>1, <3>2, <3>3, UnitsType
  <2>4. HeaderEnd(b) >= HeaderEnd(b)
    BY <1>0 DEF n
  <2>5. Covered(b, turn[0])
    BY <2>1, <2>2, <2>3, <2>4 DEF Covered
  <2> QED
    BY <1>0, <2>5
<1>4. ASSUME NEW i \in 0 .. (n - 1), i \in S PROVE i + 1 \in S
  <2>1. i + 1 \in 1 .. n /\ i + 1 \in 0 .. n /\ (i + 1) - 1 = i /\ i \in 0 .. n
    BY <1>0
  <2>2. turn[i + 1] = NextRecord(b, turn[(i + 1) - 1]) /\ turn[i] \in ScanState(b)
    BY <1>2, <2>1 DEF n
  <2>3. turn[i + 1] = NextRecord(b, turn[i])
    BY <2>1, <2>2
  <2>4. Covered(b, turn[i + 1])
    BY <1>4, <2>2, <2>3, TurnCovers
  <2> QED
    BY <2>1, <2>4
<1>5. 0 .. n \subseteq S
  <2> HIDE DEF S
  <2> QED
    BY <1>0, <1>3, <1>4, IntervalInduction
<1>6. n \in S /\ n \in 0 .. n
  BY <1>0, <1>5
<1> QED
  BY <1>1, <1>2, <1>6 DEF n

\* An accepted buffer is its header and its records and nothing else.
LEMMA AcceptedCovers ==
    ASSUME NEW b \in Seq(Nat), SegmentParses(b)
    PROVE  /\ Len(b) \in Nat /\ HeaderEnd(b) \in 0 .. Len(b)
           /\ Scan(b) \in ScanState(b)
           /\ b = SubSeq(b, 1, HeaderEnd(b)) \o RecordUnits(Records(b))
<1>0. Len(b) \in Nat
  OBVIOUS
<1>1. Len(b) >= 2 /\ b[2] >= 7 /\ Len(b) >= HeaderEnd(b) /\ Scan(b).at = Len(b)
  BY DEF SegmentParses, HeaderParses, FixedPrefixLen, BaseHeaderLen, ScanEnd
<1>2. b[2] \in Nat
  BY <1>0, <1>1
<1>3. HeaderEnd(b) \in 0 .. Len(b)
  BY <1>0, <1>1, <1>2 DEF HeaderEnd, FixedPrefixLen
<1>4. Scan(b) \in ScanState(b) /\ Covered(b, Scan(b))
  BY <1>3, ScanCovers
<1>5. SubSeq(b, HeaderEnd(b) + 1, Len(b)) = RecordUnits(Records(b))
  BY <1>1, <1>4 DEF Covered, Records
<1>6. SubSeq(b, 1, HeaderEnd(b)) \o SubSeq(b, HeaderEnd(b) + 1, Len(b)) = SubSeq(b, 1, Len(b))
  <2>1. /\ 1 \in 1 .. Len(b) + 1 /\ HeaderEnd(b) \in 1 - 1 .. Len(b)
        /\ Len(b) \in HeaderEnd(b) .. Len(b)
    BY <1>0, <1>3
  <2> QED
    BY <2>1, ConcatAdjacentSubSeq
<1>7. SubSeq(b, 1, Len(b)) = b
  BY SubSeqFull
<1> QED
  BY <1>0, <1>3, <1>4, <1>5, <1>6, <1>7

-----------------------------------------------------------------------------
(* The counts of the samples.                                              *)

\* The places where a value is met for the first time.
FirstPlaces(v, n) == {i \in 1 .. n : \A j \in 1 .. i - 1 : v[j] # v[i]}
\* The places of one value.
Equals(v, n, i) == {j \in 1 .. n : v[j] = v[i]}

\* Counting every value at its first place counts every place once.
LEMMA CountsByFirst ==
    ASSUME NEW n \in Nat, NEW v,
           NEW size \in [FirstPlaces(v, n) -> Nat],
           \A i \in FirstPlaces(v, n) : size[i] = Cardinality(Equals(v, n, i))
    PROVE  ByteSum(FirstPlaces(v, n), size) = n
<1> DEFINE F == FirstPlaces(v, n)
           upTo(m) == {i \in F : i <= m}
           met(m) == {j \in 1 .. n : \E i \in upTo(m) : v[j] = v[i]}
<1>1. IsFiniteSet(1 .. n) /\ Cardinality(1 .. n) = n
  BY FS_Interval
<1>2. F \subseteq 1 .. n /\ IsFiniteSet(F)
  <2>1. F \in SUBSET (1 .. n)
    BY DEF FirstPlaces
  <2> QED
    BY <1>1, <2>1, FS_Subset
<1>3. ASSUME NEW i \in 1 .. n
      PROVE  IsFiniteSet(Equals(v, n, i)) /\ Cardinality(Equals(v, n, i)) \in 1 .. n
  <2> DEFINE E == Equals(v, n, i)
  <2>1. E \in SUBSET (1 .. n) /\ E # {}
    BY DEF Equals
  <2> HIDE DEF E
  <2>2. IsFiniteSet(E) /\ Cardinality(E) <= n /\ Cardinality(E) \in Nat
    <3>1. E \in SUBSET (1 .. n)
      BY <2>1
    <3>2. IsFiniteSet(E) /\ Cardinality(E) <= Cardinality(1 .. n)
      BY <1>1, <3>1, FS_Subset, Zenon
    <3>3. Cardinality(E) \in Nat
      BY <3>2, FS_CardinalityType
    <3> QED
      BY <1>1, <3>2, <3>3
  <2>3. Cardinality(E) # 0
    BY <2>1, <2>2, FS_EmptySet
  <2> QED
    BY <2>2, <2>3 DEF E
<1>4. size \in [F -> 1 .. n]
  <2>1. \A i \in F : Cardinality(Equals(v, n, i)) \in 1 .. n
    BY <1>2, <1>3
  <2>2. size \in [F -> Nat] /\ \A i \in F : size[i] = Cardinality(Equals(v, n, i))
    OBVIOUS
  <2> HIDE DEF F
  <2>3. ASSUME NEW i \in F PROVE size[i] \in 1 .. n
    <3>1. size[i] = Cardinality(Equals(v, n, i))
      BY <2>2
    <3> QED
      BY <2>1, <3>1, Zenon
  <2>4. size \in [F -> Nat]
    BY <2>2
  <2> QED
    BY <2>3, <2>4
<1>5. ASSUME NEW m \in Nat PROVE upTo(m) \in SUBSET F /\ met(m) \in SUBSET (1 .. n) /\ IsFiniteSet(met(m))
  <2>1. upTo(m) \in SUBSET F /\ met(m) \in SUBSET (1 .. n)
    OBVIOUS
  <2> HIDE DEF met, upTo
  <2> QED
    BY <1>1, <2>1, FS_Subset
<1> DEFINE S == {m \in 0 .. n : ByteSum(upTo(m), size) = Cardinality(met(m))}
<1>6. 0 \in S
  <2>1. upTo(0) = {}
    BY <1>2
  <2>2. met(0) = {}
    BY <2>1
  <2> HIDE DEF upTo, met
  <2> QED
    BY <2>1, <2>2, ByteSumEmpty, FS_EmptySet
<1>7. ASSUME NEW m \in 0 .. (n - 1), m \in S PROVE m + 1 \in S
  <2>0. m + 1 \in 1 .. n /\ m + 1 \in 0 .. n /\ m \in Nat /\ m + 1 \in Nat
    OBVIOUS
  <2>1. CASE m + 1 \in F
    <3>1. upTo(m + 1) = upTo(m) \cup {m + 1} /\ m + 1 \notin upTo(m)
      <4>1. \A i \in F : i \in Nat
        BY <1>2
      <4>2. \A i \in Nat : i <= m + 1 <=> (i <= m \/ i = m + 1)
        BY <2>0
      <4>3. ~(m + 1 <= m)
        BY <2>0
      <4> HIDE DEF F
      <4> QED
        BY <2>1, <4>1, <4>2, <4>3
    <3>2. met(m + 1) = met(m) \cup Equals(v, n, m + 1)
      <4> HIDE DEF upTo
      <4> QED
        BY <3>1 DEF Equals
    <3>3. met(m) \cap Equals(v, n, m + 1) = {}
      <4>1. \A i \in upTo(m) : v[i] # v[m + 1]
        <5>1. ASSUME NEW i \in upTo(m) PROVE i \in 1 .. (m + 1) - 1
          BY <1>2, <2>0
        <5> QED
          BY <2>1, <5>1 DEF FirstPlaces
      <4> HIDE DEF upTo
      <4> QED
        BY <4>1 DEF Equals
    <3> HIDE DEF upTo, met, F
    <3>4. ByteSum(upTo(m + 1), size) = ByteSum(upTo(m), size) + size[m + 1]
      <4>1. m + 1 \in F \ upTo(m)
        BY <2>1, <3>1
      <4> QED
        <5> DEFINE P == upTo(m)
        <5>1. PICK x \in F \ P : x = m + 1
          BY <4>1
        <5>2. P \in SUBSET F
          BY <1>5, <2>0
        <5>3. upTo(m + 1) = P \cup {x}
          BY <3>1, <5>1
        <5> HIDE DEF P
        <5>0. IsFiniteSet(F)
          BY <1>2
        <5>4. ByteSum(P \cup {x}, size) = ByteSum(P, size) + size[x]
          BY <1>4, <5>0, <5>2, ByteSumAdd
        <5> QED
          BY <5>1, <5>3, <5>4 DEF P
    <3>5. size[m + 1] = Cardinality(Equals(v, n, m + 1))
      BY <2>1 DEF F
    <3>6. Cardinality(met(m + 1)) = Cardinality(met(m)) + Cardinality(Equals(v, n, m + 1))
      <4> DEFINE A == met(m)
                 B == Equals(v, n, m + 1)
      <4>1. IsFiniteSet(A) /\ IsFiniteSet(B) /\ A \cap B = {}
        BY <1>3, <1>5, <2>0, <3>3
      <4>2. Cardinality(A) \in Nat /\ Cardinality(B) \in Nat /\ Cardinality({}) = 0
        BY <4>1, FS_CardinalityType, FS_EmptySet
      <4> HIDE DEF A, B
      <4>3. Cardinality(A \cup B) = Cardinality(A) + Cardinality(B) - Cardinality(A \cap B)
        BY <4>1, FS_Union
      <4>6. Cardinality(A \cap B) = 0
        BY <4>1, <4>2, Zenon
      <4>4. Cardinality(A \cup B) = Cardinality(A) + Cardinality(B)
        BY <4>2, <4>3, <4>6
      <4>5. met(m + 1) = A \cup B
        BY <3>2 DEF A, B
      <4> QED
        BY <4>4, <4>5 DEF A, B
    <3>7. ByteSum(upTo(m), size) = Cardinality(met(m))
      BY <1>7
    <3> QED
      BY <2>0, <3>4, <3>5, <3>6, <3>7
  <2>2. CASE m + 1 \notin F
    <3>1. upTo(m + 1) = upTo(m)
      <4>1. \A i \in F : i \in Nat
        BY <1>2
      <4>2. \A i \in Nat : i <= m + 1 <=> (i <= m \/ i = m + 1)
        BY <2>0
      <4> HIDE DEF F
      <4> QED
        BY <2>2, <4>1, <4>2
    <3>2. met(m + 1) = met(m)
      <4> HIDE DEF upTo
      <4> QED
        BY <3>1
    <3>3. ByteSum(upTo(m), size) = Cardinality(met(m))
      BY <1>7
    <3> HIDE DEF upTo, met
    <3> QED
      BY <2>0, <3>1, <3>2, <3>3
  <2> QED
    BY <2>1, <2>2
<1>8. 0 .. n \subseteq S
  <2> HIDE DEF S
  <2> QED
    BY <1>6, <1>7, IntervalInduction
<1>9. ByteSum(upTo(n), size) = Cardinality(met(n))
  <2>1. n \in S
    <3> HIDE DEF S
    <3> QED
      BY <1>8
  <2> HIDE DEF upTo, met
  <2> QED
    BY <2>1
<1>10. upTo(n) = F
  BY <1>2
<1>11. met(n) = 1 .. n
  <2> SUFFICES ASSUME NEW j \in 1 .. n PROVE \E i \in F : v[j] = v[i]
    BY <1>10
  <2> DEFINE E == Equals(v, n, j)
  <2>1. E \in SUBSET Nat /\ E # {} /\ \A i \in E : i \in 1 .. n /\ v[i] = v[j]
    BY DEF Equals
  <2>2. Min(E) \in E /\ \A i \in E : Min(E) <= i
    <3> HIDE DEF E
    <3> QED
      BY <2>1, MinIsLeast
  <2>3. PICK i \in E : i = Min(E)
    BY <2>2
  <2>4. i \in 1 .. n /\ v[i] = v[j]
    BY <2>1
  <2>5. ASSUME NEW k \in 1 .. i - 1 PROVE v[k] # v[i]
    <3>1. k \in 1 .. n /\ ~(i <= k)
      BY <2>4
    <3>2. k \notin E
      BY <2>2, <2>3, <3>1
    <3> QED
      BY <2>4, <3>1, <3>2 DEF Equals
  <2> QED
    BY <2>4, <2>5 DEF FirstPlaces
<1> QED
  BY <1>1, <1>9, <1>10, <1>11

\* The records of recs are in w one after the other, the i-th one before
\* the place end[i], and w ends with the last of them.
Layout(w, recs, end) ==
    /\ w \in Seq(Nat) /\ recs \in Seq(Record)
    /\ end \in [0 .. Len(recs) -> Nat] /\ end[0] > 0
    /\ end[Len(recs)] = Len(w)
    /\ \A i \in 1 .. Len(recs) :
          /\ FrameParses(recs[i].frame)
          /\ end[i] = end[i - 1] + 1 + Len(recs[i].frame)
          /\ end[i] <= Len(w)
          /\ w[end[i - 1] + 1] = recs[i].receive_time
          /\ \A k \in 1 .. Len(recs[i].frame) : w[end[i - 1] + 1 + k] = recs[i].frame[k]

\* The scan's state after j of the records.
After(recs, end, j) == [at |-> end[j], read |-> SubSeq(recs, 1, j)]

\* b is w up to some place.
Prefix(b, w) ==
    /\ b \in Seq(Nat) /\ Len(b) \in Nat /\ Len(w) \in Nat /\ Len(b) <= Len(w)
    /\ \A i \in 1 .. Len(b) : b[i] = w[i]

\* The first j records and the next are the first j + 1.
LEMMA FirstRecords ==
    ASSUME NEW T, NEW s \in Seq(T), NEW j \in 0 .. Len(s) - 1
    PROVE  Append(SubSeq(s, 1, j), s[j + 1]) = SubSeq(s, 1, j + 1)
<1>0. Len(s) \in Nat /\ j \in Nat /\ j + 1 \in 1 .. Len(s)
  OBVIOUS
<1>1. \A i \in 1 .. Len(s) : s[i] \in T
  BY ElementOfSeq
<1> DEFINE x == SubSeq(s, 1, j)
           y == SubSeq(s, 1, j + 1)
           z == Append(x, s[j + 1])
<1>2. x \in Seq(T) /\ Len(x) = j /\ \A i \in 1 .. j : x[i] = s[i]
  <2>1. \A i \in 1 .. j : s[i] \in T
    BY <1>0, <1>1
  <2>2. /\ x \in Seq(T) /\ Len(x) = IF 1 <= j THEN j - 1 + 1 ELSE 0
        /\ \A i \in 1 .. j - 1 + 1 : x[i] = s[1 + i - 1]
    BY <1>0, <2>1, SubSeqProperties
  <2> HIDE DEF x
  <2>3. j - 1 + 1 = j /\ \A i \in 1 .. j : 1 + i - 1 = i
    BY <1>0
  <2> QED
    BY <1>0, <2>2, <2>3
<1>3. y \in Seq(T) /\ Len(y) = j + 1 /\ \A i \in 1 .. j + 1 : y[i] = s[i]
  <2>1. \A i \in 1 .. j + 1 : s[i] \in T
    BY <1>0, <1>1
  <2>2. /\ y \in Seq(T) /\ Len(y) = IF 1 <= j + 1 THEN (j + 1) - 1 + 1 ELSE 0
        /\ \A i \in 1 .. (j + 1) - 1 + 1 : y[i] = s[1 + i - 1]
    BY <1>0, <2>1, SubSeqProperties
  <2> HIDE DEF y
  <2>3. (j + 1) - 1 + 1 = j + 1 /\ \A i \in 1 .. j + 1 : 1 + i - 1 = i
    BY <1>0
  <2> QED
    BY <1>0, <2>2, <2>3
<1> HIDE DEF x, y
<1>4. /\ z \in Seq(T) /\ Len(z) = j + 1 /\ z[j + 1] = s[j + 1]
      /\ \A i \in 1 .. j : z[i] = x[i]
  <2>1. s[j + 1] \in T
    BY <1>0, <1>1
  <2> QED
    BY <1>2, <2>1, AppendProperties
<1> HIDE DEF z
<1>5. ASSUME NEW i \in 1 .. Len(z) PROVE z[i] = y[i]
  <2>1. i \in 1 .. j + 1
    BY <1>4
  <2>2. CASE i = j + 1
    BY <1>3, <1>4, <2>1, <2>2
  <2>3. CASE i # j + 1
    <3>1. i \in 1 .. j
      BY <1>0, <2>1, <2>3
    <3> QED
      BY <1>2, <1>3, <1>4, <2>1, <3>1
  <2> QED
    BY <2>2, <2>3
<1>6. z = y
  BY <1>3, <1>4, <1>5, SeqEqual
<1> QED
  BY <1>6 DEF x, y, z

\* One turn reads the next record, if the buffer has the whole of it.
LEMMA TurnReads ==
    ASSUME NEW w, NEW recs, NEW end, Layout(w, recs, end), NEW b, Prefix(b, w),
           NEW j \in 0 .. Len(recs), end[j] <= Len(b)
    PROVE  NextRecord(b, After(recs, end, j)) =
              IF j < Len(recs) /\ end[j + 1] <= Len(b)
              THEN After(recs, end, j + 1) ELSE After(recs, end, j)
<1> DEFINE m == Len(b)
           n == Len(recs)
           at == end[j]
           s == After(recs, end, j)
<1>0. /\ n \in Nat /\ m \in Nat /\ Len(w) \in Nat /\ m <= Len(w) /\ b \in Seq(Nat)
      /\ \A i \in 1 .. m : b[i] = w[i]
      /\ at \in Nat /\ at <= m
  <2>1. recs \in Seq(Record)
    BY DEF Layout
  <2>2. n \in Nat
    <3> HIDE DEF Record
    <3> QED
      BY <2>1, LenProperties
  <2> QED
    BY <2>2 DEF Layout, Prefix
<1>1. s.at = at /\ s.read = SubSeq(recs, 1, j)
  BY DEF After
<1>2. CASE ~RecordParses(b, at) /\ ~(j < n /\ end[j + 1] <= m)
  BY <1>1, <1>2 DEF NextRecord
<1>3. CASE j = n
  <2>1. at = Len(w)
    BY <1>3 DEF Layout
  <2>2. ~RecordParses(b, at)
    BY <1>0, <2>1 DEF RecordParses
  <2>3. ~(j < n)
    BY <1>0, <1>3
  <2> QED
    BY <1>2, <2>2, <2>3
<1>4. CASE j # n
  <2>1. j + 1 \in 1 .. n /\ (j + 1) - 1 = j /\ j < n /\ j \in 0 .. n - 1
    BY <1>0, <1>4
  <2> DEFINE r == recs[j + 1]
             fr == r.frame
             e == end[j + 1]
  <2>2. /\ FrameParses(fr) /\ e = at + 1 + Len(fr) /\ e <= Len(w)
        /\ w[at + 1] = r.receive_time
        /\ \A k \in 1 .. Len(fr) : w[at + 1 + k] = fr[k]
    <3>1. PICK i \in 1 .. n : i = j + 1
      BY <2>1
    <3>2. /\ FrameParses(recs[i].frame)
          /\ end[i] = end[i - 1] + 1 + Len(recs[i].frame)
          /\ end[i] <= Len(w)
          /\ w[end[i - 1] + 1] = recs[i].receive_time
          /\ \A k \in 1 .. Len(recs[i].frame) : w[end[i - 1] + 1 + k] = recs[i].frame[k]
      BY DEF Layout
    <3>3. i - 1 = j
      BY <2>1, <3>1
    <3> QED
      BY <3>1, <3>2, <3>3, Zenon
  <2>3. r \in Record /\ fr \in Seq(Nat) /\ Len(fr) \in Nat
    <3>1. recs \in Seq(Record)
      BY DEF Layout
    <3>2. r \in Record
      <4> HIDE DEF Record
      <4> QED
        BY <2>1, <3>1, ElementOfSeq
    <3>3. fr \in Seq(Nat)
      BY <3>2 DEF Record
    <3> HIDE DEF fr
    <3> QED
      BY <3>2, <3>3
  <2>4. r = [receive_time |-> r.receive_time, frame |-> fr]
    BY <2>3 DEF Record
  <2> HIDE DEF fr, r, e, at, m, n
  <2>5. Len(fr) >= 7 /\ fr[1] + 1 = Len(fr)
    BY <2>2 DEF FrameParses, FixedFrameHeaderLen
  <2>6. ASSUME at + 2 <= m
        PROVE  RecordEnd(b, at) = e /\ b[at + 1] = r.receive_time
    <3>1. at + 1 \in 1 .. m /\ at + 2 \in 1 .. m /\ at + 1 + 1 = at + 2 /\ 1 \in 1 .. Len(fr)
      BY <1>0, <2>3, <2>5, <2>6
    <3>2. w[at + 1 + 1] = fr[1]
      BY <2>2, <3>1
    <3>3. b[at + 2] = fr[1] /\ b[at + 1] = r.receive_time
      BY <1>0, <2>2, <3>1, <3>2
    <3>4. RecordEnd(b, at) = at + 1 + (b[at + 2] + 1)
      BY <3>1 DEF RecordEnd, TotalFrameLen
    <3>5. RecordEnd(b, at) = at + 1 + Len(fr)
      BY <2>5, <3>3, <3>4
    <3> QED
      BY <2>2, <3>3, <3>5
  <2>7. CASE ~(e <= m)
    <3>1. ~RecordParses(b, at)
      BY <2>6, <2>7 DEF RecordParses, m
    <3> QED
      BY <1>2, <2>7, <3>1 DEF e
  <2>8. CASE e <= m
    <3>1. at + 2 <= m
      BY <1>0, <2>2, <2>3, <2>5, <2>8
    <3>2. SubSeq(b, at + 2, e) = fr
      <4> DEFINE x == SubSeq(b, at + 2, e)
      <4>0. e \in Nat /\ e = at + 1 + Len(fr)
        BY <1>0, <2>2, <2>3
      <4>1. \A i \in at + 2 .. e : i \in 1 .. m
        BY <1>0, <2>8, <4>0
      <4>2. \A i \in at + 2 .. e : b[i] \in Nat
        BY <1>0, <4>1 DEF m
      <4>3. at + 2 \in Int /\ e \in Int
        BY <1>0, <4>0
      <4>4. /\ x \in Seq(Nat) /\ Len(x) = IF at + 2 <= e THEN e - (at + 2) + 1 ELSE 0
            /\ \A i \in 1 .. e - (at + 2) + 1 : x[i] = b[at + 2 + i - 1]
        BY <4>2, <4>3, SubSeqProperties
      <4> HIDE DEF x
      <4>5. at + 2 <= e /\ e - (at + 2) + 1 = Len(fr)
        BY <1>0, <2>3, <2>5, <4>0
      <4>6. Len(x) = Len(fr)
        BY <4>4, <4>5
      <4>7. ASSUME NEW i \in 1 .. Len(x) PROVE x[i] = fr[i]
        <5>1. /\ i \in 1 .. Len(fr) /\ at + 2 + i - 1 = at + 1 + i
              /\ at + 1 + i \in 1 .. m
          BY <1>0, <2>3, <2>8, <4>0, <4>6
        <5>2. x[i] = b[at + 2 + i - 1]
          BY <4>4, <4>5, <5>1
        <5>3. PICK k \in 1 .. m : k = at + 1 + i
          BY <5>1
        <5>4. b[k] = w[k]
          BY <1>0
        <5>5. w[at + 1 + i] = fr[i]
          BY <2>2, <5>1
        <5> QED
          BY <5>1, <5>2, <5>3, <5>4, <5>5
      <4>8. x = fr
        BY <2>3, <4>4, <4>6, <4>7, SeqEqual
      <4> QED
        BY <4>8 DEF x
    <3>3. RecordParses(b, at)
      BY <2>2, <2>6, <2>8, <3>1, <3>2 DEF RecordParses, m
    <3>4. NextRecord(b, s) = [at |-> e, read |-> Append(SubSeq(recs, 1, j), r)]
      <4> HIDE DEF s
      <4> QED
        BY <1>1, <2>4, <2>6, <3>1, <3>2, <3>3 DEF NextRecord
    <3>5. Append(SubSeq(recs, 1, j), r) = SubSeq(recs, 1, j + 1)
      <4>1. recs \in Seq(Record)
        BY DEF Layout
      <4> HIDE DEF Record
      <4> QED
        BY <2>1, <4>1, FirstRecords DEF r, n
    <3>6. NextRecord(b, s) = After(recs, end, j + 1)
      BY <3>4, <3>5 DEF After, e
    <3> QED
      BY <2>1, <2>8, <3>6 DEF n, m, e
  <2> QED
    BY <2>7, <2>8
<1> QED
  BY <1>3, <1>4

\* The scan of a prefix reads the records the prefix has the whole of.
LEMMA ScanReads ==
    ASSUME NEW w, NEW recs, NEW end, Layout(w, recs, end), NEW b, Prefix(b, w),
           HeaderEnd(b) = end[0], end[0] <= Len(b)
    PROVE  \E j \in 0 .. Len(recs) :
              /\ Scan(b) = After(recs, end, j) /\ end[j] <= Len(b)
              /\ j = Len(recs) \/ ~(end[j + 1] <= Len(b))
<1> DEFINE m == Len(b)
           n == Len(recs)
           St(j) == After(recs, end, j)
           reads(x, i) == \E j \in 0 .. n : /\ x = St(j) /\ end[j] <= m /\ end[j] > j
                                            /\ j = i \/ j = n \/ ~(end[j + 1] <= m)
<1>0. /\ n \in Nat /\ m \in Nat /\ b \in Seq(Nat)
      /\ end \in [0 .. n -> Nat] /\ end[0] > 0 /\ end[0] \in Nat
      /\ \A i \in 1 .. n : end[i] = end[i - 1] + 1 + Len(recs[i].frame)
      /\ \A i \in 1 .. n : Len(recs[i].frame) \in Nat
  <2>1. recs \in Seq(Record)
    BY DEF Layout
  <2>2. n \in Nat /\ \A i \in 1 .. n : recs[i] \in Record
    <3> HIDE DEF Record
    <3> QED
      BY <2>1, LenProperties, ElementOfSeq
  <2>3. end \in [0 .. n -> Nat]
    BY DEF Layout
  <2>4. end[0] \in Nat
    BY <2>2, <2>3
  <2>5. ASSUME NEW i \in 1 .. n PROVE Len(recs[i].frame) \in Nat
    <3>1. recs[i].frame \in Seq(Nat)
      BY <2>2 DEF Record
    <3> QED
      BY <3>1
  <2>6. m \in Nat /\ b \in Seq(Nat)
    BY DEF Prefix
  <2> QED
    BY <2>2, <2>3, <2>4, <2>5, <2>6 DEF Layout
<1>1. HeaderEnd(b) \in 0 .. Len(b)
  BY <1>0
<1>2. PICK turn : Turns(turn, b) /\ Scan(b) = turn[m]
  BY <1>0, <1>1, ScanTurns
<1>3. /\ turn[0] = [at |-> end[0], read |-> << >>]
      /\ \A i \in 1 .. m : turn[i] = NextRecord(b, turn[i - 1])
  BY <1>2 DEF Turns
<1> DEFINE S == {i \in 0 .. m : reads(turn[i], i)}
<1>4. 0 \in S
  <2>1. SubSeq(recs, 1, 0) = << >>
    BY SubSeqEmpty
  <2>2. turn[0] = St(0)
    BY <1>3, <2>1 DEF After
  <2> HIDE DEF St, m, n
  <2>3. 0 \in 0 .. n /\ end[0] <= m
    BY <1>0 DEF m
  <2> QED
    BY <1>0, <2>2, <2>3
<1>5. ASSUME NEW i \in 0 .. (m - 1), i \in S PROVE i + 1 \in S
  <2>1. i + 1 \in 1 .. m /\ i + 1 \in 0 .. m /\ (i + 1) - 1 = i
    BY <1>0
  <2>2. turn[i + 1] = NextRecord(b, turn[i])
    <3>1. turn[i + 1] = NextRecord(b, turn[(i + 1) - 1])
      BY <1>3, <2>1
    <3> QED
      BY <2>1, <3>1
  <2>3. PICK j \in 0 .. n : /\ turn[i] = St(j) /\ end[j] <= m /\ end[j] > j
                            /\ j = i \/ j = n \/ ~(end[j + 1] <= m)
    BY <1>5
  <2>4. turn[i + 1] = IF j < n /\ end[j + 1] <= m THEN St(j + 1) ELSE St(j)
    <3>1. NextRecord(b, After(recs, end, j)) =
              IF j < Len(recs) /\ end[j + 1] <= Len(b)
              THEN After(recs, end, j + 1) ELSE After(recs, end, j)
      BY <2>3, TurnReads
    <3> QED
      BY <2>2, <2>3, <3>1
  <2> HIDE DEF St, m, n
  <2>5. CASE j < n /\ end[j + 1] <= m
    <3>1. /\ j + 1 \in 1 .. n /\ j + 1 \in 0 .. n /\ (j + 1) - 1 = j /\ j # n /\ j \in Nat
      BY <1>0, <2>5
    <3>2. PICK k \in 1 .. n : k = j + 1
      BY <3>1
    <3>3. end[k] = end[k - 1] + 1 + Len(recs[k].frame) /\ Len(recs[k].frame) \in Nat
      BY <1>0
    <3>4. k - 1 = j /\ end[j] \in Nat
      BY <1>0, <3>1, <3>2
    <3>5. end[k] > k
      BY <2>3, <3>2, <3>3, <3>4
    <3>6. turn[i + 1] = St(k)
      BY <2>4, <2>5, <3>2
    <3>7. k = i + 1
      BY <2>3, <2>5, <3>1, <3>2
    <3> QED
      BY <2>1, <2>5, <3>1, <3>2, <3>5, <3>6, <3>7
  <2>6. CASE ~(j < n /\ end[j + 1] <= m)
    <3>1. j = n \/ ~(end[j + 1] <= m)
      BY <1>0, <2>6
    <3>2. turn[i + 1] = St(j)
      BY <2>4, <2>6
    <3> QED
      BY <2>1, <2>3, <3>1, <3>2
  <2> QED
    BY <2>5, <2>6
<1>6. 0 .. m \subseteq S
  <2> HIDE DEF S
  <2> QED
    BY <1>0, <1>4, <1>5, IntervalInduction
<1>7. m \in S
  <2> HIDE DEF S
  <2> QED
    BY <1>0, <1>6
<1>8. PICK j \in 0 .. n : /\ turn[m] = St(j) /\ end[j] <= m /\ end[j] > j
                          /\ j = m \/ j = n \/ ~(end[j + 1] <= m)
  BY <1>7
<1>9. j # m
  <2> HIDE DEF St, m, n
  <2>1. end[j] \in Nat /\ j \in Nat
    BY <1>0
  <2> QED
    BY <1>0, <1>8, <2>1
<1> QED
  BY <1>2, <1>8, <1>9

\* The records of a written segment are laid out after its header.
LEMMA WrittenLayout ==
    ASSUME NEW pre \in Seq(Nat), Len(pre) > 0, NEW recs \in Seq(Record),
           \A i \in 1 .. Len(recs) : FrameParses(recs[i].frame)
    PROVE  \E end : Layout(pre \o RecordUnits(recs), recs, end) /\ end[0] = Len(pre)
<1> DEFINE n == Len(recs)
           u == Units(recs)
           h == Len(pre)
<1>1. /\ n \in Nat /\ u \in [1 .. n -> Seq(Nat)]
      /\ \A i \in 1 .. n : u[i] = Unit(recs[i]) /\ recs[i] \in Record
      /\ RecordUnits(recs) = FlattenSeq(u)
  BY UnitsType
<1> HIDE DEF u, n
<1>2. PICK f : Partials(f, n, u, Nat) /\ FlattenSeq(u) = f[n]
  BY <1>1, FlattenPartials
<1>3. f \in [0 .. n -> Seq(Nat)] /\ f[0] = << >>
  BY <1>2 DEF Partials
<1>4. \A i \in 1 .. n :
          /\ Len(f[i]) = Len(f[i - 1]) + Len(u[i]) /\ Len(f[i - 1]) \in Nat
          /\ Len(f[i]) <= Len(f[n])
          /\ \A k \in 1 .. Len(u[i]) : f[n][Len(f[i - 1]) + k] = u[i][k]
  <2>1. n \in Nat /\ u \in [1 .. n -> Seq(Nat)]
    BY <1>1
  <2>2. PartPlaces(f, n, u)
    BY <1>2, <2>1, PartialPlaces
  <2> QED
    BY <2>2 DEF PartPlaces
<1>5. h \in Nat /\ \A i \in 0 .. n : f[i] \in Seq(Nat) /\ Len(f[i]) \in Nat
  <2>1. h \in Nat
    OBVIOUS
  <2>2. ASSUME NEW i \in 0 .. n PROVE f[i] \in Seq(Nat) /\ Len(f[i]) \in Nat
    <3>1. f[i] \in Seq(Nat)
      BY <1>3
    <3> QED
      BY <3>1, LenProperties
  <2> QED
    BY <2>1, <2>2
<1>6. n \in 0 .. n /\ 0 \in 0 .. n
  BY <1>1
<1> DEFINE w == pre \o f[n]
           end == [i \in 0 .. n |-> h + Len(f[i])]
           l == Len(f[n])
<1>7. f[n] \in Seq(Nat) /\ l \in Nat
  BY <1>5, <1>6
<1>8. /\ w \in Seq(Nat) /\ Len(w) = h + l
      /\ \A i \in 1 .. h + l : w[i] = IF i <= h THEN pre[i] ELSE f[n][i - h]
  BY <1>7, ConcatProperties
<1>9. \A i \in 0 .. n : end[i] = h + Len(f[i])
  OBVIOUS
<1>10. end \in [0 .. n -> Nat]
  <2>1. \A i \in 0 .. n : h + Len(f[i]) \in Nat
    BY <1>5
  <2> QED
    BY <2>1
<1> HIDE DEF w, end, l, h
<1>11. end[0] = h /\ end[n] = Len(w)
  <2>1. Len(f[0]) = 0
    BY <1>3
  <2>2. end[0] = h + Len(f[0]) /\ end[n] = h + Len(f[n])
    BY <1>6, <1>9
  <2> QED
    BY <1>5, <1>8, <2>1, <2>2 DEF l
<1>12. ASSUME NEW k \in 1 .. l PROVE w[h + k] = f[n][k]
  <2>1. PICK i \in 1 .. h + l : i = h + k
    BY <1>5, <1>7
  <2>2. ~(i <= h) /\ i - h = k
    BY <1>5, <2>1
  <2>3. w[i] = IF i <= h THEN pre[i] ELSE f[n][i - h]
    BY <1>8
  <2>4. w[i] = f[n][i - h]
    BY <2>2, <2>3, Zenon
  <2> QED
    BY <2>1, <2>2, <2>4
<1>13. ASSUME NEW i \in 1 .. n
       PROVE  /\ end[i] = end[i - 1] + 1 + Len(recs[i].frame)
              /\ end[i] <= Len(w)
              /\ w[end[i - 1] + 1] = recs[i].receive_time
              /\ \A k \in 1 .. Len(recs[i].frame) : w[end[i - 1] + 1 + k] = recs[i].frame[k]
  <2> DEFINE r == recs[i]
             p == Len(f[i - 1])
             q == Len(r.frame)
  <2>1. i \in 0 .. n /\ i - 1 \in 0 .. n
    BY <1>1
  <2>2. end[i] = h + Len(f[i]) /\ end[i - 1] = h + p
    BY <1>9, <2>1
  <2>3. /\ u[i] = Unit(r) /\ r \in Record
    BY <1>1
  <2> HIDE DEF r
  <2>4. /\ Len(u[i]) = 1 + q /\ q \in Nat
        /\ u[i][1] = r.receive_time
        /\ \A k \in 1 .. q : u[i][1 + k] = r.frame[k]
    BY <2>3, UnitType
  <2>5. /\ Len(f[i]) = p + Len(u[i]) /\ p \in Nat
        /\ Len(f[i]) <= l
        /\ \A k \in 1 .. Len(u[i]) : f[n][p + k] = u[i][k]
    BY <1>4 DEF l
  <2> HIDE DEF p, q
  <2>6. p + (1 + q) <= l
    BY <2>4, <2>5
  <2>7. ASSUME NEW k \in 1 .. 1 + q PROVE w[end[i - 1] + k] = u[i][k]
    <3>1. PICK x \in 1 .. l : x = p + k
      BY <1>7, <2>4, <2>5, <2>6
    <3>2. w[h + x] = f[n][x]
      BY <1>12
    <3>3. f[n][p + k] = u[i][k]
      BY <2>4, <2>5
    <3>4. h + x = end[i - 1] + k
      BY <1>5, <2>2, <2>4, <2>5, <3>1
    <3> QED
      BY <3>1, <3>2, <3>3, <3>4
  <2>8. end[i] = end[i - 1] + 1 + q
    BY <1>5, <2>2, <2>4, <2>5
  <2>9. end[i] <= Len(w)
    BY <1>5, <1>7, <1>8, <2>2, <2>4, <2>5
  <2>10. w[end[i - 1] + 1] = r.receive_time
    <3>1. 1 \in 1 .. 1 + q
      BY <2>4
    <3> QED
      BY <2>4, <2>7, <3>1
  <2>11. ASSUME NEW k \in 1 .. q PROVE w[end[i - 1] + 1 + k] = r.frame[k]
    <3>1. PICK x \in 1 .. 1 + q : x = 1 + k
      BY <2>4
    <3>2. w[end[i - 1] + x] = u[i][x]
      BY <2>7
    <3>3. u[i][x] = r.frame[k]
      BY <2>4, <3>1
    <3>4. end[i - 1] + x = end[i - 1] + 1 + k
      BY <1>5, <2>2, <2>5, <3>1
    <3> QED
      BY <3>2, <3>3, <3>4
  <2> QED
    BY <2>8, <2>9, <2>10, <2>11 DEF r, q
<1>14. Layout(w, recs, end)
  BY <1>8, <1>10, <1>11, <1>13 DEF Layout, n, h
<1>15. pre \o RecordUnits(recs) = w
  BY <1>1, <1>2 DEF w
<1> QED
  BY <1>11, <1>14, <1>15 DEF h

\* p is the prefix and the header of a segment of n records.
HeadOf(p, n) ==
    /\ p \in Seq(Nat) /\ Len(p) = 9 + Len(Cohort)
    /\ p[1] = SegmentMagic /\ p[2] = 7 + Len(Cohort)
    /\ p[3] = WindowStart /\ p[4] = WindowSeconds
    /\ p[7] = n + dropped /\ p[8] = n /\ p[9] = Len(Cohort)
    /\ SubSeq(p, 10, 9 + Len(Cohort)) = Cohort

\* The segment's cohort has a name.
LEMMA CohortType == Cohort \in Seq(Nat) /\ Len(Cohort) \in Nat /\ Len(Cohort) >= 1
<1>1. Cohort \in Seq(Nat) /\ Cohort # << >>
  BY UnitsAssumption DEF ValidName
<1> QED
  BY <1>1

\* A written segment is its head and then its records.
LEMMA SegmentHead ==
    ASSUME NEW recs \in Seq(Record), dropped \in Nat
    PROVE  \E p : HeadOf(p, Len(recs)) /\ WriteSegment(Header(recs), recs) = p \o RecordUnits(recs)
<1> DEFINE n == Len(recs)
           first == Header(recs).first_receive
           fields == <<WindowStart, WindowSeconds, first, n, n + dropped, n, Len(Cohort)>>
           units == fields \o Cohort
           prefix == <<SegmentMagic, Len(units)>>
           p == prefix \o units
<1>0. n \in Nat /\ Len(Cohort) \in Nat /\ Cohort \in Seq(Nat)
  <2>1. n \in Nat
    <3> HIDE DEF Record
    <3> QED
      BY LenProperties
  <2> QED
    BY <2>1, CohortType
<1>1. WriteSegment(Header(recs), recs) = p \o RecordUnits(recs)
  BY DEF WriteSegment, HeaderUnits, Header
<1>2. first \in Nat
  BY DEF Header
<1> HIDE DEF first, n
<1>3. fields \in Seq(Nat) /\ Len(fields) = 7
      /\ fields[1] = WindowStart /\ fields[2] = WindowSeconds
      /\ fields[5] = n + dropped /\ fields[6] = n /\ fields[7] = Len(Cohort)
  BY <1>0, <1>2 DEF WindowStart, WindowSeconds
<1> HIDE DEF fields
<1>4. Len(units) = 7 + Len(Cohort) /\ units \in Seq(Nat)
  <2>1. fields \in Seq(Nat) /\ Len(fields) = 7 /\ Cohort \in Seq(Nat)
    BY <1>0, <1>3
  <2>2. fields \o Cohort \in Seq(Nat) /\ Len(fields \o Cohort) = Len(fields) + Len(Cohort)
    BY <2>1, ConcatProperties
  <2> QED
    BY <2>1, <2>2
<1>5. /\ prefix \in Seq(Nat) /\ Len(prefix) = 2
      /\ prefix[1] = SegmentMagic /\ prefix[2] = 7 + Len(Cohort)
  <2> HIDE DEF units
  <2> QED
    BY <1>0, <1>4 DEF SegmentMagic
<1> HIDE DEF prefix
<1>6. p = prefix \o fields \o Cohort
  <2>1. fields \in Seq(Nat) /\ prefix \in Seq(Nat) /\ Cohort \in Seq(Nat)
    BY <1>0, <1>3, <1>5
  <2>2. (prefix \o fields) \o Cohort = prefix \o (fields \o Cohort)
    BY <2>1, ConcatAssociative
  <2> QED
    BY <2>2
<1>7. Thirds(Nat, p, prefix, fields, Cohort)
  BY <1>0, <1>3, <1>5, <1>6, ConcatThirds
<1> HIDE DEF p
<1>8. /\ p \in Seq(Nat) /\ Len(p) = 9 + Len(Cohort)
      /\ \A i \in 1 .. 2 : p[i] = prefix[i]
      /\ SubSeq(p, 3, 9) = fields
      /\ SubSeq(p, 10, 9 + Len(Cohort)) = Cohort
  <2>1. Len(prefix) + Len(fields) = 9 /\ 2 + 1 = 3 /\ 9 + 1 = 10
    BY <1>3, <1>5
  <2>2. /\ p \in Seq(Nat) /\ Len(p) = 9 + Len(Cohort)
        /\ \A i \in 1 .. Len(prefix) : p[i] = prefix[i]
        /\ SubSeq(p, Len(prefix) + 1, 9) = fields
        /\ SubSeq(p, 9 + 1, Len(p)) = Cohort
    BY <1>7, <2>1 DEF Thirds
  <2> QED
    BY <1>5, <2>1, <2>2
<1>9. p[1] = prefix[1] /\ p[2] = prefix[2]
  BY <1>8
<1>10. ASSUME NEW i \in 1 .. 7 PROVE p[2 + i] = fields[i]
  <2>0. p \in Seq(Nat) /\ Len(p) = 9 + Len(Cohort)
    BY <1>8
  <2>1. ASSUME NEW k \in 3 .. 9 PROVE p[k] \in Nat
    <3>1. k \in 1 .. Len(p)
      BY <1>0, <2>0
    <3> QED
      BY <2>0, <3>1, ElementOfSeq
  <2>2. \A k \in 1 .. 9 - 3 + 1 : SubSeq(p, 3, 9)[k] = p[3 + k - 1]
    BY <2>1, SubSeqProperties
  <2>3. i \in 1 .. 9 - 3 + 1 /\ 3 + i - 1 = 2 + i
    OBVIOUS
  <2> QED
    BY <1>8, <2>2, <2>3
<1>11. /\ p[3] = fields[1] /\ p[4] = fields[2] /\ p[7] = fields[5] /\ p[8] = fields[6]
       /\ p[9] = fields[7]
  <2>1. /\ p[2 + 1] = fields[1] /\ p[2 + 2] = fields[2] /\ p[2 + 5] = fields[5]
        /\ p[2 + 6] = fields[6] /\ p[2 + 7] = fields[7]
    BY <1>10
  <2> QED
    BY <2>1
<1>12. HeadOf(p, n)
  BY <1>3, <1>5, <1>8, <1>9, <1>11 DEF HeadOf
<1> QED
  BY <1>1, <1>12 DEF n

\* What the scan reads of a segment and of its prefixes.
Readable(w, recs) ==
    /\ w \in Seq(Nat) /\ Len(w) \in Nat
    /\ Prepares(w) /\ Records(w) = recs
    /\ \A m \in 0 .. Len(w) - 1 : ~Prepares(SubSeq(w, 1, m))

\* A written segment is read back, and none of its proper prefixes is accepted.
LEMMA SegmentReadable ==
    ASSUME NEW recs \in Seq(Record), dropped \in Nat,
           \A i \in 1 .. Len(recs) : FrameParses(recs[i].frame)
    PROVE  Readable(WriteSegment(Header(recs), recs), recs)
<1> DEFINE n == Len(recs)
           w == WriteSegment(Header(recs), recs)
           he == 9 + Len(Cohort)
<1>0. n \in Nat /\ Len(Cohort) \in Nat /\ Len(Cohort) >= 1
  <2>1. n \in Nat
    <3> HIDE DEF Record
    <3> QED
      BY LenProperties
  <2> QED
    BY <2>1, CohortType
<1>1. PICK p : HeadOf(p, n) /\ w = p \o RecordUnits(recs)
  BY SegmentHead
<1>2. /\ p \in Seq(Nat) /\ Len(p) = he
      /\ p[1] = SegmentMagic /\ p[2] = 7 + Len(Cohort)
      /\ p[3] = WindowStart /\ p[4] = WindowSeconds
      /\ p[7] = n + dropped /\ p[8] = n /\ p[9] = Len(Cohort)
      /\ SubSeq(p, 10, he) = Cohort
  BY <1>1 DEF HeadOf
<1> HIDE DEF w, n
<1>3. RecordUnits(recs) \in Seq(Nat)
  <2>1. /\ n \in Nat /\ Units(recs) \in [1 .. n -> Seq(Nat)]
        /\ RecordUnits(recs) = FlattenSeq(Units(recs))
    BY UnitsType DEF n
  <2> QED
    BY <2>1, FlattenedSet
<1>4. /\ w \in Seq(Nat) /\ Len(w) \in Nat /\ Len(w) >= he
      /\ \A i \in 1 .. he : w[i] = p[i]
  <2> DEFINE t == RecordUnits(recs)
  <2>1. Len(t) \in Nat
    BY <1>3
  <2>2. /\ w \in Seq(Nat) /\ Len(w) = Len(p) + Len(t)
        /\ \A i \in 1 .. Len(p) + Len(t) :
              w[i] = IF i <= Len(p) THEN p[i] ELSE t[i - Len(p)]
    <3>1. w = p \o t /\ p \in Seq(Nat) /\ t \in Seq(Nat)
      BY <1>1, <1>2, <1>3
    <3> HIDE DEF t
    <3> QED
      BY <3>1, ConcatProperties
  <2> HIDE DEF t, he
  <2>3. ASSUME NEW i \in 1 .. he PROVE w[i] = p[i]
    <3>1. i \in 1 .. Len(p) + Len(t) /\ i <= Len(p)
      BY <1>0, <1>2, <2>1 DEF he
    <3> QED
      BY <2>2, <3>1
  <2> QED
    BY <1>0, <1>2, <2>1, <2>2, <2>3 DEF he
<1>5. PICK end : Layout(w, recs, end) /\ end[0] = he
  <2>1. Len(p) > 0
    BY <1>0, <1>2
  <2> QED
    BY <1>1, <1>2, <2>1, WrittenLayout
<1>6. end \in [0 .. n -> Nat] /\ end[n] = Len(w)
      /\ \A i \in 1 .. n : end[i] <= Len(w)
  BY <1>5 DEF Layout, n
<1>7. ASSUME NEW b, Prefix(b, w), he <= Len(b)
      PROVE  /\ HeaderEnd(b) = he
             /\ b[1] = SegmentMagic /\ b[2] = 7 + Len(Cohort)
             /\ b[3] = WindowStart /\ b[4] = WindowSeconds
             /\ b[7] = n + dropped /\ b[8] = n /\ b[9] = Len(Cohort)
  <2>1. Len(b) \in Nat /\ \A i \in 1 .. Len(b) : b[i] = w[i]
    BY <1>7 DEF Prefix
  <2>2. \A i \in 1 .. 9 : i \in 1 .. he /\ i \in 1 .. Len(b)
    BY <1>0, <1>7, <2>1
  <2>3. \A i \in 1 .. 9 : b[i] = p[i]
    BY <1>4, <2>1, <2>2
  <2>4. /\ b[1] = p[1] /\ b[2] = p[2] /\ b[3] = p[3] /\ b[4] = p[4]
        /\ b[7] = p[7] /\ b[8] = p[8] /\ b[9] = p[9]
    BY <2>3
  <2>5. HeaderEnd(b) = he
    BY <1>0, <1>2, <2>4 DEF HeaderEnd, FixedPrefixLen
  <2> QED
    BY <1>2, <2>4, <2>5
<1>8. Prefix(w, w)
  BY <1>4 DEF Prefix
<1>9. /\ HeaderEnd(w) = he
      /\ w[1] = SegmentMagic /\ w[2] = 7 + Len(Cohort)
      /\ w[3] = WindowStart /\ w[4] = WindowSeconds
      /\ w[7] = n + dropped /\ w[8] = n /\ w[9] = Len(Cohort)
  BY <1>4, <1>7, <1>8
<1>10. CohortOf(w) = Cohort /\ CohortEnd(w) = he
  <2>1. CohortEnd(w) = he
    BY <1>9 DEF CohortEnd, FixedPrefixLen, BaseHeaderLen
  <2>2. 10 \in 1 .. Len(p) /\ he \in 1 .. Len(p)
    <3>1. Len(p) = he
      BY <1>2
    <3> QED
      BY <1>0, <3>1
  <2>3. SubSeq(w, 10, he) = SubSeq(p, 10, he)
    <3> DEFINE t == RecordUnits(recs)
    <3>1. w = p \o t /\ p \in Seq(Nat) /\ t \in Seq(Nat)
      BY <1>1, <1>2, <1>3
    <3> HIDE DEF t
    <3>2. SubSeq(p \o t, 10, he) = SubSeq(p, 10, he)
      BY <2>2, <3>1, SubSeqOfConcat1
    <3> QED
      BY <3>1, <3>2
  <2> QED
    BY <1>2, <2>1, <2>3 DEF CohortOf, FixedPrefixLen, BaseHeaderLen
<1>11. HeaderParses(w)
  <2>1. Len(w) >= 2 /\ w[2] >= 7 /\ Len(w) >= HeaderEnd(w) /\ CohortEnd(w) <= HeaderEnd(w)
    <3>1. Len(w) \in Nat /\ Len(w) >= he
      BY <1>4
    <3>2. HeaderEnd(w) = he /\ w[2] = 7 + Len(Cohort) /\ CohortEnd(w) = he
      BY <1>9, <1>10
    <3> QED
      BY <1>0, <3>1, <3>2
  <2> QED
    BY <1>9, <1>10, <2>1, UnitsAssumption DEF HeaderParses, FixedPrefixLen, BaseHeaderLen
<1>12. Scan(w) = After(recs, end, n)
  <2>1. PICK j \in 0 .. n : /\ Scan(w) = After(recs, end, j) /\ end[j] <= Len(w)
                            /\ j = n \/ ~(end[j + 1] <= Len(w))
    <3>1. Layout(w, recs, end) /\ HeaderEnd(w) = end[0]
      BY <1>5, <1>9
    <3>2. end[0] <= Len(w)
      BY <1>0, <1>4, <1>5
    <3> QED
      BY <1>8, <3>1, <3>2, ScanReads DEF n
  <2>2. j # n => j + 1 \in 1 .. n
    BY <1>0
  <2>3. j = n
    BY <1>6, <2>1, <2>2
  <2> QED
    BY <2>1, <2>3
<1>13. ScanEnd(w) = Len(w) /\ Records(w) = recs
  <2>1. SubSeq(recs, 1, n) = recs
    <3> HIDE DEF Record
    <3> QED
      BY SubSeqFull DEF n
  <2> QED
    BY <1>6, <1>12, <2>1 DEF ScanEnd, Records, After
<1>14. Prepares(w)
  <2>1. w[7] >= w[8]
    BY <1>0, <1>9
  <2> QED
    BY <1>9, <1>10, <1>11, <1>13, <2>1 DEF Prepares, SegmentParses, n
<1>15. ASSUME NEW m \in 0 .. Len(w) - 1 PROVE ~Prepares(SubSeq(w, 1, m))
  <2> DEFINE b == SubSeq(w, 1, m)
  <2>0. m \in Nat /\ m < Len(w)
    BY <1>4
  <2>1. b \in Seq(Nat) /\ Len(b) = m /\ \A i \in 1 .. m : b[i] = w[i]
    <3>1. \A i \in 1 .. m : w[i] \in Nat
      BY <1>4, <2>0
    <3>2. /\ b \in Seq(Nat) /\ Len(b) = IF 1 <= m THEN m - 1 + 1 ELSE 0
          /\ \A i \in 1 .. m - 1 + 1 : b[i] = w[1 + i - 1]
      BY <2>0, <3>1, SubSeqProperties
    <3> HIDE DEF b
    <3>3. m - 1 + 1 = m /\ \A i \in 1 .. m : 1 + i - 1 = i
      BY <2>0
    <3> QED
      BY <2>0, <3>2, <3>3
  <2> HIDE DEF b
  <2>2. Prefix(b, w)
    BY <1>4, <2>0, <2>1 DEF Prefix
  <2> SUFFICES ASSUME Prepares(b) PROVE FALSE
    BY DEF b
  <2>3. Len(b) >= 2 /\ Len(b) >= HeaderEnd(b)
    BY DEF Prepares, SegmentParses, HeaderParses, FixedPrefixLen
  <2>4. he <= Len(b)
    <3>1. 2 \in 1 .. m /\ 2 \in 1 .. he
      BY <1>0, <2>0, <2>1, <2>3
    <3>2. b[2] = w[2]
      BY <2>1, <3>1
    <3>3. HeaderEnd(b) = he
      BY <1>0, <1>9, <3>2 DEF HeaderEnd, FixedPrefixLen
    <3> QED
      BY <1>0, <2>0, <2>1, <2>3, <3>3
  <2>5. HeaderEnd(b) = he /\ b[8] = n
    BY <1>7, <2>2, <2>4
  <2>6. PICK j \in 0 .. n : /\ Scan(b) = After(recs, end, j) /\ end[j] <= Len(b)
                            /\ j = n \/ ~(end[j + 1] <= Len(b))
    BY <1>5, <2>2, <2>4, <2>5, ScanReads DEF n
  <2>7. j # n
    BY <1>4, <1>6, <2>0, <2>1, <2>6
  <2>8. Len(SubSeq(recs, 1, j)) = j
    <3>1. \A i \in 1 .. j : recs[i] \in Record
      <4>1. \A i \in 1 .. j : i \in 1 .. Len(recs)
        BY <1>0 DEF n
      <4> HIDE DEF Record
      <4> QED
        BY <4>1, ElementOfSeq
    <3>2. Len(SubSeq(recs, 1, j)) = IF 1 <= j THEN j - 1 + 1 ELSE 0
      <4> HIDE DEF Record
      <4> QED
        BY <1>0, <3>1, SubSeqProperties
    <3> QED
      BY <1>0, <3>2
  <2>9. Records(b) = SubSeq(recs, 1, j)
    BY <2>6 DEF Records, After
  <2>10. Len(Records(b)) = b[8]
    BY DEF Prepares
  <2> QED
    BY <2>5, <2>7, <2>8, <2>9, <2>10
<1>16. Readable(w, recs)
  BY <1>4, <1>13, <1>14, <1>15 DEF Readable
<1> QED
  BY <1>16 DEF w

\* What is counted of an accepted buffer.
LEMMA SamplesCounted ==
    ASSUME NEW b \in Seq(Nat), Prepares(b)
    PROVE  /\ Len(Records(b)) \in Nat /\ DOMAIN Records(b) = 1 .. Len(Records(b))
           /\ DOMAIN Samples(b) \in SUBSET (1 .. Len(Records(b)))
           /\ ByteSum(DOMAIN Samples(b), [i \in DOMAIN Samples(b) |-> Samples(b)[i].dup_count]) = b[8]
           /\ b[8] <= b[7]
<1> DEFINE r == Records(b)
           n == Len(r)
           v == [i \in 1 .. n |-> FrameVector(r[i].frame)]
           s == Samples(b)
           size == [i \in DOMAIN s |-> s[i].dup_count]
<1>1. r \in Seq(Record)
  <2>1. Scan(b) \in ScanState(b)
    BY AcceptedCovers DEF Prepares
  <2> QED
    BY <2>1 DEF ScanState, Records
<1>2. n \in Nat /\ DOMAIN r = 1 .. n
  <2> HIDE DEF Record, r
  <2> QED
    BY <1>1, LenProperties
<1> DEFINE first == {i \in DOMAIN r : \A j \in 1 .. i - 1 :
                        FrameVector(r[j].frame) # FrameVector(r[i].frame)}
<1>3. s = [i \in first |->
             [frame |-> r[i].frame,
              dup_count |-> Cardinality({j \in DOMAIN r :
                               FrameVector(r[j].frame) = FrameVector(r[i].frame)})]]
  BY Zenon DEF Samples
<1> HIDE DEF r, s
<1>4. first = FirstPlaces(v, n)
  <2>1. ASSUME NEW i \in 1 .. n, NEW j \in 1 .. i - 1 PROVE j \in 1 .. n
    BY <1>2
  <2>2. \A i \in 1 .. n : v[i] = FrameVector(r[i].frame)
    OBVIOUS
  <2> HIDE DEF v, n
  <2> QED
    BY <1>2, <2>1, <2>2 DEF FirstPlaces
<1>5. ASSUME NEW i \in 1 .. n
      PROVE  {j \in DOMAIN r : FrameVector(r[j].frame) = FrameVector(r[i].frame)} = Equals(v, n, i)
  <2>1. \A j \in 1 .. n : v[j] = FrameVector(r[j].frame)
    OBVIOUS
  <2> HIDE DEF v, n
  <2> QED
    BY <1>2, <2>1 DEF Equals
<1>6. DOMAIN s = FirstPlaces(v, n)
  BY <1>3, <1>4
<1>7. FirstPlaces(v, n) \in SUBSET (1 .. n)
  BY DEF FirstPlaces
<1> HIDE DEF v, n
<1>8. ASSUME NEW i \in FirstPlaces(v, n) PROVE s[i].dup_count = Cardinality(Equals(v, n, i))
  <2>1. i \in first /\ i \in 1 .. n
    BY <1>4, <1>7
  <2> HIDE DEF first
  <2>2. s[i].dup_count = Cardinality({j \in DOMAIN r :
                               FrameVector(r[j].frame) = FrameVector(r[i].frame)})
    BY <1>3, <2>1
  <2> QED
    BY <1>5, <2>1, <2>2
<1>9. \A i \in FirstPlaces(v, n) : size[i] = Cardinality(Equals(v, n, i))
  BY <1>6, <1>8
<1>10. size \in [FirstPlaces(v, n) -> Nat]
  <2>1. ASSUME NEW i \in FirstPlaces(v, n) PROVE Cardinality(Equals(v, n, i)) \in Nat
    <3>1. Equals(v, n, i) \in SUBSET (1 .. n) /\ IsFiniteSet(1 .. n)
      BY <1>2, FS_Interval DEF Equals
    <3>2. IsFiniteSet(Equals(v, n, i))
      BY <3>1, FS_Subset
    <3> QED
      BY <3>2, FS_CardinalityType
  <2>2. DOMAIN size = FirstPlaces(v, n) /\ size = [i \in DOMAIN size |-> size[i]]
    BY <1>6
  <2> HIDE DEF size
  <2> QED
    BY <1>9, <2>1, <2>2
<1> HIDE DEF size
<1>11. ByteSum(FirstPlaces(v, n), size) = n
  BY <1>2, <1>9, <1>10, CountsByFirst
<1>12. n = b[8] /\ b[7] >= b[8]
  BY DEF Prepares, n, r
<1>13. b[7] \in Nat /\ b[8] \in Nat
  <2>1. Len(b) >= 2 /\ b[2] >= 7 /\ Len(b) >= 2 + b[2]
    BY DEF Prepares, SegmentParses, HeaderParses, HeaderEnd, FixedPrefixLen, BaseHeaderLen
  <2>2. Len(b) \in Nat /\ b[2] \in Nat
    BY <2>1
  <2>3. 7 \in 1 .. Len(b) /\ 8 \in 1 .. Len(b)
    BY <2>1, <2>2
  <2> QED
    BY <2>3
<1> QED
  BY <1>2, <1>6, <1>7, <1>11, <1>12, <1>13 DEF size, s, n, r

\* The segment as it is written.
Segment == WriteSegment(Header(frames), frames)

\* Every kept frame is one the SDK encoded.
KeptInv ==
    /\ frames \in Seq(Record) /\ dropped \in Nat
    /\ \A i \in 1 .. Len(frames) :
          /\ FrameParses(frames[i].frame)
          /\ frames[i].frame[4] = F32 => Usable(frames[i].frame)

\* The object is what was written, or a part of it, or something else.
ObjectInv ==
    /\ buffer \in Seq(Nat)
    /\ stage = "filling" => intact
    /\ intact => ~cut
    /\ stage = "written" /\ intact => buffer = Segment
    /\ stage = "written" /\ cut => \E m \in 0 .. Len(Segment) - 1 : buffer = SubSeq(Segment, 1, m)

\* The samples before the next one.
Taken(i) == {j \in DOMAIN Samples(buffer) : j < i}

\* The samples taken so far are measured or failed.
TakenInv ==
    /\ stage \in {"filling", "written", "reading", "done"}
    /\ next \in Nat /\ measured \in Nat /\ failed \in Nat
    /\ stage \in {"filling", "written"} => next = 1 /\ measured + failed = 0
    /\ stage \in {"reading", "done"} =>
          /\ Prepares(buffer)
          /\ next \in 1 .. Len(Records(buffer)) + 1
          /\ measured + failed = Cardinality(Taken(next))
    /\ stage = "done" => next = Len(Records(buffer)) + 1

\* The inductive invariant of the codecs.
CodecInv == KeptInv /\ ObjectInv /\ TakenInv

\* What a prepared buffer has.
LEMMA PreparedBuffer ==
    ASSUME buffer \in Seq(Nat), Prepares(buffer)
    PROVE  /\ Len(Records(buffer)) \in Nat
           /\ DOMAIN Records(buffer) = 1 .. Len(Records(buffer))
           /\ DOMAIN Samples(buffer) \in SUBSET (1 .. Len(Records(buffer)))
           /\ \A i \in Nat : IsFiniteSet(Taken(i))
           /\ Cardinality(Taken(1)) = 0
           /\ \A i \in Nat : Taken(i + 1) = IF i \in DOMAIN Samples(buffer)
                                            THEN Taken(i) \cup {i} ELSE Taken(i)
<1> DEFINE n == Len(Records(buffer))
           D == DOMAIN Samples(buffer)
<1>1. n \in Nat /\ DOMAIN Records(buffer) = 1 .. n /\ D \in SUBSET (1 .. n)
  BY SamplesCounted
<1> HIDE DEF n, D
<1>2. IsFiniteSet(1 .. n)
  BY <1>1, FS_Interval
<1>3. ASSUME NEW i \in Nat PROVE IsFiniteSet(Taken(i))
  <2>1. Taken(i) \in SUBSET (1 .. n)
    BY <1>1 DEF Taken, D
  <2> QED
    BY <1>2, <2>1, FS_Subset
<1>4. Taken(1) = {}
  BY <1>1 DEF Taken, D
<1>5. ASSUME NEW i \in Nat
      PROVE  Taken(i + 1) = IF i \in D THEN Taken(i) \cup {i} ELSE Taken(i)
  <2>1. \A j \in D : j \in Nat
    BY <1>1
  <2>2. \A j \in Nat : j < i + 1 <=> (j < i \/ j = i)
    OBVIOUS
  <2>3. Taken(i + 1) = {j \in D : j < i + 1} /\ Taken(i) = {j \in D : j < i}
    BY DEF Taken, D
  <2>4. CASE i \in D
    BY <2>1, <2>2, <2>3, <2>4
  <2>5. CASE i \notin D
    BY <2>1, <2>2, <2>3, <2>5
  <2> QED
    BY <2>4, <2>5
<1> QED
  BY <1>1, <1>3, <1>4, <1>5, FS_EmptySet DEF n, D

\* A frame that is kept is one the SDK encoded.
LEMMA KeptFrame ==
    ASSUME CodecInv, NEW c \in CaptureNames, NEW t \in DTypes, NEW d \in Dimensions, NEW v \in Vectors,
           Keep(c, t, d, v)
    PROVE  KeptInv'
<1> DEFINE f == EncodeVectorFrame(c, t, d, v)
           r == [receive_time |-> Len(frames) + 1, frame |-> f]
<1>1. c \in Seq(Nat) /\ t \in Nat /\ d \in Nat /\ v \in Seq(Nat) /\ c = Cohort
  BY UnitsAssumption DEF Keep
<1>2. EncoderAccepts(c, t, d, v) /\ frames' = Append(frames, r) /\ dropped' = dropped
  BY DEF Keep
<1>3. f \in Seq(Nat) /\ FrameParses(f) /\ (f[4] = F32 => Usable(f))
  BY <1>1, <1>2, EncodedFrame
<1>4. /\ frames \in Seq(Record) /\ dropped \in Nat
      /\ \A i \in 1 .. Len(frames) :
            /\ FrameParses(frames[i].frame)
            /\ frames[i].frame[4] = F32 => Usable(frames[i].frame)
  BY DEF CodecInv, KeptInv
<1>5. Len(frames) \in Nat
  <2> HIDE DEF Record
  <2> QED
    BY <1>4, LenProperties
<1> HIDE DEF f
<1>6. r \in Record
  BY <1>3, <1>5 DEF Record
<1>7. r.frame = f
  OBVIOUS
<1> HIDE DEF r
<1>8. /\ frames' \in Seq(Record) /\ Len(frames') = Len(frames) + 1
      /\ \A i \in 1 .. Len(frames) : frames'[i] = frames[i]
      /\ frames'[Len(frames) + 1] = r
  <2> HIDE DEF Record
  <2> QED
    BY <1>2, <1>4, <1>6, AppendProperties
<1>9. ASSUME NEW i \in 1 .. Len(frames')
      PROVE  /\ FrameParses(frames'[i].frame)
             /\ frames'[i].frame[4] = F32 => Usable(frames'[i].frame)
  <2>1. i \in 1 .. Len(frames) \/ i = Len(frames) + 1
    BY <1>5, <1>8
  <2>2. CASE i \in 1 .. Len(frames)
    <3>1. frames'[i] = frames[i]
      BY <1>8, <2>2
    <3> QED
      BY <1>4, <2>2, <3>1
  <2>3. CASE i = Len(frames) + 1
    <3>1. frames'[i].frame = f
      BY <1>7, <1>8, <2>3
    <3> QED
      BY <1>3, <3>1
  <2> QED
    BY <2>1, <2>2, <2>3
<1> QED
  BY <1>2, <1>4, <1>8, <1>9 DEF KeptInv

\* Nothing of the segment changes once it is filled.
LEMMA FilledSegment ==
    ASSUME UNCHANGED <<frames, dropped>>
    PROVE  Segment' = Segment /\ (KeptInv => KeptInv')
BY DEF Segment, KeptInv, WriteSegment, Header, HeaderUnits, RecordUnits

\* CodecInv gives what the segment is read as.
LEMMA ReadableSegment ==
    ASSUME KeptInv PROVE Readable(Segment, frames)
BY SegmentReadable DEF KeptInv, Segment

\* Every step keeps the invariant.
LEMMA CodecInvNext ==
    ASSUME CodecInv, [CodecNext]_codec PROVE CodecInv'
<1> USE DEF CodecInv
<1>1. ASSUME NEW c \in CaptureNames, NEW t \in DTypes, NEW d \in Dimensions, NEW v \in Vectors,
             Keep(c, t, d, v)
      PROVE  CodecInv'
  <2>1. KeptInv'
    BY <1>1, KeptFrame
  <2>2. ObjectInv'
    BY <1>1 DEF Keep, ObjectInv
  <2>3. TakenInv'
    BY <1>1 DEF Keep, TakenInv
  <2> QED
    BY <2>1, <2>2, <2>3
<1>2. CASE Drop
  <2>1. KeptInv'
    BY <1>2 DEF Drop, KeptInv
  <2>2. ObjectInv'
    BY <1>2 DEF Drop, ObjectInv
  <2>3. TakenInv'
    BY <1>2 DEF Drop, TakenInv
  <2> QED
    BY <2>1, <2>2, <2>3
<1>3. CASE Write
  <2>1. Segment' = Segment /\ KeptInv'
    BY <1>3, FilledSegment DEF Write
  <2>2. Segment \in Seq(Nat)
    BY ReadableSegment DEF Readable
  <2>3. buffer' = Segment /\ intact' /\ ~cut' /\ stage' = "written"
    BY <1>3 DEF Write, ObjectInv, Segment
  <2>4. ObjectInv'
    BY <2>1, <2>2, <2>3 DEF ObjectInv
  <2>5. TakenInv'
    BY <1>3 DEF Write, TakenInv
  <2> QED
    BY <2>1, <2>4, <2>5
<1>4. CASE Cut
  <2>1. Segment' = Segment /\ KeptInv'
    BY <1>4, FilledSegment DEF Cut
  <2>2. Segment \in Seq(Nat) /\ Len(Segment) \in Nat
    BY ReadableSegment DEF Readable
  <2>3. PICK m \in 0 .. Len(Segment) - 1 : buffer' = SubSeq(Segment, 1, m)
    BY <1>4 DEF Cut, ObjectInv
  <2>4. buffer' \in Seq(Nat)
    <3>1. \A i \in 1 .. m : Segment[i] \in Nat
      <4>1. \A i \in 1 .. m : i \in 1 .. Len(Segment)
        BY <2>2
      <4> QED
        BY <2>2, <4>1, ElementOfSeq
    <3>2. SubSeq(Segment, 1, m) \in Seq(Nat)
      BY <2>2, <3>1, SubSeqProperties
    <3> QED
      BY <2>3, <3>2
  <2>5. ObjectInv'
    BY <1>4, <2>1, <2>3, <2>4 DEF ObjectInv, Cut
  <2>6. TakenInv'
    BY <1>4 DEF Cut, TakenInv
  <2> QED
    BY <2>1, <2>5, <2>6
<1>5. CASE Damage
  <2>1. Segment' = Segment /\ KeptInv'
    BY <1>5, FilledSegment DEF Damage
  <2>2. buffer' \in Seq(Nat)
    <3>1. PICK i \in DOMAIN buffer, u \in Noise : buffer' = [buffer EXCEPT ![i] = u]
      BY <1>5 DEF Damage
    <3>2. buffer \in Seq(Nat) /\ u \in Nat
      BY UnitsAssumption DEF ObjectInv
    <3>3. i \in 1 .. Len(buffer)
      BY <3>2
    <3> QED
      BY <3>1, <3>2, <3>3, ExceptSeq
  <2>3. ObjectInv'
    BY <1>5, <2>1, <2>2 DEF ObjectInv, Damage
  <2>4. TakenInv'
    BY <1>5 DEF Damage, TakenInv
  <2> QED
    BY <2>1, <2>3, <2>4
<1>6. CASE Prepare
  <2>1. Segment' = Segment /\ KeptInv'
    BY <1>6, FilledSegment DEF Prepare
  <2>2. ObjectInv'
    BY <1>6 DEF ObjectInv, Prepare
  <2>3. TakenInv'
    <3>1. /\ stage' = "reading" /\ Prepares(buffer) /\ next = 1 /\ measured + failed = 0
          /\ buffer' = buffer /\ next' = next /\ measured' = measured /\ failed' = failed
          /\ measured \in Nat /\ failed \in Nat
      BY <1>6 DEF Prepare, TakenInv
    <3>2. Len(Records(buffer)) \in Nat /\ Cardinality(Taken(1)) = 0
      BY <3>1, PreparedBuffer DEF ObjectInv
    <3>3. next \in 1 .. Len(Records(buffer)) + 1 /\ next \in Nat
      BY <3>1, <3>2
    <3>4. measured + failed = Cardinality(Taken(next))
      BY <3>1, <3>2
    <3>5. Prepares(buffer)' /\ Records(buffer)' = Records(buffer) /\ Taken(next)' = Taken(next)
      BY <3>1 DEF Taken
    <3> QED
      BY <3>1, <3>3, <3>4, <3>5 DEF TakenInv
  <2> QED
    BY <2>1, <2>2, <2>3
<1>7. ASSUME TakeSample \/ SkipDuplicate PROVE CodecInv'
  <2>0. stage = "reading" /\ stage' = "reading" /\ next' = next + 1 /\ buffer' = buffer
        /\ UNCHANGED <<frames, dropped, intact, cut>>
    BY <1>7 DEF TakeSample, SkipDuplicate
  <2>1. Segment' = Segment /\ KeptInv'
    BY <2>0, FilledSegment
  <2>2. ObjectInv'
    BY <2>0 DEF ObjectInv
  <2>3. TakenInv'
    <3> DEFINE n == Len(Records(buffer))
               D == DOMAIN Samples(buffer)
    <3>1. /\ Prepares(buffer) /\ next \in 1 .. n + 1 /\ next \in Nat
          /\ measured \in Nat /\ failed \in Nat
          /\ measured + failed = Cardinality(Taken(next))
      BY <2>0 DEF TakenInv
    <3>2. /\ n \in Nat /\ DOMAIN Records(buffer) = 1 .. n /\ D \in SUBSET (1 .. n)
          /\ IsFiniteSet(Taken(next))
          /\ Taken(next + 1) = IF next \in D THEN Taken(next) \cup {next} ELSE Taken(next)
      BY <3>1, PreparedBuffer DEF ObjectInv
    <3>3. next \in 1 .. n
      BY <1>7, <3>2 DEF TakeSample, SkipDuplicate
    <3>4. /\ measured' \in Nat /\ failed' \in Nat
          /\ measured' + failed' = Cardinality(Taken(next + 1))
      <4>1. CASE TakeSample
        <5>1. next \in D /\ \/ measured' = measured + 1 /\ failed' = failed
                            \/ measured' = measured /\ failed' = failed + 1
          BY <4>1 DEF TakeSample
        <5>2. next \notin Taken(next)
          BY <3>1 DEF Taken
        <5>3. Cardinality(Taken(next) \cup {next}) = Cardinality(Taken(next)) + 1
          BY <3>2, <5>2, FS_AddElement
        <5>4. Taken(next + 1) = Taken(next) \cup {next}
          BY <3>2, <5>1
        <5>5. Cardinality(Taken(next + 1)) = measured + failed + 1
          BY <3>1, <5>3, <5>4
        <5> QED
          BY <3>1, <5>1, <5>5
      <4>2. CASE SkipDuplicate
        <5>1. next \notin D /\ measured' = measured /\ failed' = failed
          BY <4>2 DEF SkipDuplicate
        <5>2. Taken(next + 1) = Taken(next)
          BY <3>2, <5>1
        <5> QED
          BY <3>1, <5>1, <5>2
      <4> QED
        BY <1>7, <4>1, <4>2
    <3>5. /\ Prepares(buffer)' /\ Records(buffer)' = Records(buffer)
          /\ Taken(next)' = Taken(next + 1)
      BY <2>0, <3>1 DEF Taken
    <3>6. next' \in 1 .. n + 1 /\ next' \in Nat
      BY <2>0, <3>2, <3>3
    <3> QED
      BY <2>0, <3>1, <3>4, <3>5, <3>6 DEF TakenInv
  <2> QED
    BY <2>1, <2>2, <2>3
<1>8. CASE Complete
  <2>1. Segment' = Segment /\ KeptInv'
    BY <1>8, FilledSegment DEF Complete
  <2>2. ObjectInv'
    BY <1>8 DEF ObjectInv, Complete
  <2>3. TakenInv'
    <3>1. /\ stage' = "done" /\ next > Len(Records(buffer)) /\ buffer' = buffer /\ next' = next
          /\ measured' = measured /\ failed' = failed /\ stage = "reading"
      BY <1>8 DEF Complete
    <3>2. /\ Prepares(buffer) /\ next \in 1 .. Len(Records(buffer)) + 1 /\ next \in Nat
          /\ measured \in Nat /\ failed \in Nat
          /\ measured + failed = Cardinality(Taken(next))
      BY <3>1 DEF TakenInv
    <3>3. Len(Records(buffer)) \in Nat
      BY <3>2, PreparedBuffer DEF ObjectInv
    <3>4. next = Len(Records(buffer)) + 1
      BY <3>1, <3>2, <3>3
    <3>5. Prepares(buffer)' /\ Records(buffer)' = Records(buffer) /\ Taken(next)' = Taken(next)
      BY <3>1, <3>2 DEF Taken
    <3> QED
      BY <3>1, <3>2, <3>4, <3>5 DEF TakenInv
  <2> QED
    BY <2>1, <2>2, <2>3
<1>9. CASE UNCHANGED codec
  <2>1. Segment' = Segment /\ KeptInv'
    BY <1>9, FilledSegment DEF codec
  <2>2. ObjectInv'
    BY <1>9, <2>1 DEF ObjectInv, codec
  <2>3. Taken(next)' = Taken(next) /\ Records(buffer)' = Records(buffer)
    BY <1>9 DEF Taken, codec
  <2>4. TakenInv'
    BY <1>9, <2>3 DEF TakenInv, codec
  <2> QED
    BY <2>1, <2>2, <2>4
<1> QED
  BY <1>1, <1>2, <1>3, <1>4, <1>5, <1>6, <1>7, <1>8, <1>9 DEF CodecNext

\* It holds at the start.
LEMMA CodecInvInit == ASSUME CodecInit PROVE CodecInv
<1>1. << >> \in Seq(Record) /\ << >> \in Seq(Nat) /\ Len(<< >>) = 0
  BY EmptySeq
<1>2. KeptInv
  BY <1>1 DEF CodecInit, KeptInv
<1>3. ObjectInv
  BY <1>1 DEF CodecInit, ObjectInv
<1>4. TakenInv
  BY DEF CodecInit, TakenInv
<1> QED
  BY <1>2, <1>3, <1>4 DEF CodecInv

\* The invariant gives every part of the property.
LEMMA CodecInvReadsBack == ASSUME CodecInv PROVE SegmentsReadBack
<1>1. KeptInv /\ ObjectInv /\ TakenInv /\ Readable(Segment, frames)
  BY ReadableSegment DEF CodecInv
<1>2. EncodedIsUsable
  <2>1. DOMAIN frames = 1 .. Len(frames)
    <3> HIDE DEF Record
    <3> QED
      BY <1>1, LenProperties DEF KeptInv
  <2> QED
    BY <1>1, <2>1 DEF EncodedIsUsable, KeptInv
<1>3. ReadsBack
  BY <1>1 DEF ReadsBack, ObjectInv, Readable
<1>4. CutIsRejected
  BY <1>1 DEF CutIsRejected, ObjectInv, Readable
<1>5. AcceptedIsCovered
  <2>1. SUFFICES ASSUME SegmentParses(buffer)
                 PROVE  /\ buffer = SubSeq(buffer, 1, HeaderEnd(buffer)) \o RecordUnits(Records(buffer))
                        /\ CohortEnd(buffer) <= HeaderEnd(buffer)
    BY DEF AcceptedIsCovered
  <2>2. CohortEnd(buffer) <= HeaderEnd(buffer)
    BY <2>1 DEF SegmentParses, HeaderParses
  <2>3. buffer = SubSeq(buffer, 1, HeaderEnd(buffer)) \o RecordUnits(Records(buffer))
    BY <1>1, <2>1, AcceptedCovers DEF ObjectInv
  <2> QED
    BY <2>2, <2>3
<1>6. PartAccounted
  <2> SUFFICES ASSUME stage = "done"
               PROVE  /\ measured + failed = Cardinality(DOMAIN Samples(buffer))
                      /\ ByteSum(DOMAIN Samples(buffer),
                                 [i \in DOMAIN Samples(buffer) |-> Samples(buffer)[i].dup_count])
                           = buffer[8]
                      /\ buffer[8] <= buffer[7]
    BY Zenon DEF PartAccounted
  <2>1. /\ Prepares(buffer) /\ next = Len(Records(buffer)) + 1
        /\ measured + failed = Cardinality(Taken(next))
    BY <1>1 DEF TakenInv
  <2>2. buffer \in Seq(Nat)
    BY <1>1 DEF ObjectInv
  <2>3. /\ Len(Records(buffer)) \in Nat
        /\ DOMAIN Samples(buffer) \in SUBSET (1 .. Len(Records(buffer)))
    BY <2>1, <2>2, PreparedBuffer
  <2>4. Taken(next) = DOMAIN Samples(buffer)
    <3> DEFINE n == Len(Records(buffer))
               D == DOMAIN Samples(buffer)
    <3>1. Taken(next) = {j \in D : j < n + 1}
      BY <2>1 DEF Taken
    <3>2. n \in Nat /\ D \in SUBSET (1 .. n)
      BY <2>3
    <3> HIDE DEF n, D
    <3>3. \A j \in D : j < n + 1
      BY <3>2
    <3>4. Taken(next) = D
      BY <3>1, <3>3
    <3> QED
      BY <3>4 DEF D
  <2>5. /\ ByteSum(DOMAIN Samples(buffer),
                   [i \in DOMAIN Samples(buffer) |-> Samples(buffer)[i].dup_count]) = buffer[8]
        /\ buffer[8] <= buffer[7]
    BY <2>1, <2>2, SamplesCounted
  <2> QED
    BY <2>1, <2>4, <2>5
<1> QED
  BY <1>2, <1>3, <1>4, <1>5, <1>6 DEF SegmentsReadBack

\* For every cohort name, vector, number of records and damage: a frame that
\* encode_vector_frame let through is usable, a segment that is stored whole is
\* accepted by prepare_segment and its records are the kept frames, no proper
\* prefix of one is accepted, an accepted object is covered by its header and
\* its records without gap or overlap, and every record read is in exactly one
\* sample's count (read_segment, prepare_segment, measure_prepared_part).
THEOREM CodecReadsBack == CodecSpec => []SegmentsReadBack
<1>1. CodecInit => CodecInv
  BY CodecInvInit
<1>2. CodecInv /\ [CodecNext]_codec => CodecInv'
  BY CodecInvNext
<1>3. CodecInv => SegmentsReadBack
  BY CodecInvReadsBack
<1> QED
  BY <1>1, <1>2, <1>3, PTL DEF CodecSpec

-----------------------------------------------------------------------------
(* Cohort names.                                                           *)

\* A stored segment is where the collector puts those of its cohort.
Stored(o) ==
    /\ o.name \in Seq(Segments) /\ ValidateCohortName(o.name)
    /\ o.window \in OpenWindows
    /\ o.path = ObjectKey(o.name, o.window, "part")

\* The inductive invariant: segments are in their places.
NamesInv == \A o \in objects : Stored(o)

\* Every step keeps it.
LEMMA NamesStep == NamesInv /\ [NamesNext]_objects => NamesInv'
<1> SUFFICES ASSUME NamesInv, [NamesNext]_objects PROVE NamesInv'
  OBVIOUS
<1>1. CASE NamesNext
  <2>1. PICK name \in Bounded(MaxSegments + 1), w \in OpenWindows : Capture(name, w)
    BY <1>1 DEF NamesNext
  <2>2. name \in Seq(Segments)
    BY <2>1, NamesAssumption DEF Bounded
  <2> DEFINE new == [path |-> ObjectKey(name, w, "part"), name |-> name, window |-> w]
  <2>4. ValidateCohortName(name) => Stored(new)
    BY <2>1, <2>2 DEF Stored
  <2>5. ASSUME NEW o \in objects' PROVE Stored(o)
    <3>1. o \in objects \/ (ValidateCohortName(name) /\ o = new)
      BY <2>1, <2>5 DEF Capture
    <3> QED
      BY <2>4, <3>1 DEF NamesInv
  <2> QED
    BY <2>5 DEF NamesInv
<1>2. CASE UNCHANGED objects
  BY <1>2 DEF NamesInv
<1> QED
  BY <1>1, <1>2

\* The window that ends a listing's prefix is in a path where it belongs.
LEMMA PrefixIsExact ==
    ASSUME NEW m \in Seq(Segments), NEW n \in Seq(Segments),
           NEW v \in OpenWindows, NEW w \in OpenWindows,
           \A i \in DOMAIN n : n[i] \notin Windows
    PROVE  IsPrefix(ListPrefix(m, v), ObjectKey(n, w, "part")) <=> m = n /\ v = w
<1> DEFINE s == ListPrefix(m, v)
           t == ObjectKey(n, w, "part")
           k == Len(m)
           l == Len(n)
<1>0. k \in Nat /\ l \in Nat /\ DOMAIN m = 1 .. k /\ DOMAIN n = 1 .. l
  OBVIOUS
<1>1. Len(s) = k + 2 /\ s[k + 2] = v /\ \A i \in 1 .. k : s[i + 1] = m[i]
  BY DEF ListPrefix
<1>2. /\ Len(t) = l + 3 /\ t[1] = "cohorts" /\ t[l + 2] = w /\ t[l + 3] = "part" 
      /\ \A i \in 1 .. l : t[i + 1] = n[i]
  BY DEF ObjectKey
<1>2a. s[1] = "cohorts"
  BY DEF ListPrefix
<1>s. DOMAIN s = 1 .. k + 2 /\ DOMAIN t = 1 .. l + 3
  BY DEF ListPrefix, ObjectKey
<1>3. IsPrefix(s, t) <=> k + 2 <= l + 3 /\ \A i \in 1 .. k + 2 : s[i] = t[i]
  <2>1. IsPrefix(s, t) <=> Len(s) <= Len(t) /\ SubSeq(s, 1, Len(s)) = SubSeq(t, 1, Len(s))
    BY DEF IsPrefix
  <2>2. /\ SubSeq(s, 1, k + 2) = [i \in 1 .. k + 2 |-> s[i]]
        /\ SubSeq(t, 1, k + 2) = [i \in 1 .. k + 2 |-> t[i]]
    OBVIOUS
  <2> HIDE DEF s, t, k, l
  <2> QED
    BY <1>1, <1>2, <2>1, <2>2
<1> HIDE DEF s, t
<1>4. ASSUME IsPrefix(s, t) PROVE m = n /\ v = w
  <2>1. s[k + 2] = t[k + 2] /\ k <= l + 1 /\ \A i \in 1 .. k + 2 : s[i] = t[i]
    BY <1>0, <1>3, <1>4
  <2>2. ~(k < l)
    <3> SUFFICES ASSUME k < l PROVE FALSE
      OBVIOUS
    <3>1. k + 1 \in 1 .. l /\ (k + 1) + 1 = k + 2
      BY <1>0
    <3>2. n[k + 1] = v
      BY <1>1, <1>2, <2>1, <3>1
    <3> QED
      BY <1>0, <3>1, <3>2, NamesAssumption
  <2>3. k # l + 1
    <3> SUFFICES ASSUME k = l + 1 PROVE FALSE
      OBVIOUS
    <3>1. k + 2 = l + 3
      BY <1>0
    <3>2. v = "part"
      BY <1>1, <1>2, <2>1, <3>1
    <3> QED
      BY <3>2, NamesAssumption
  <2>4. k = l
    <3>1. k \in Nat /\ l \in Nat /\ k <= l + 1
      BY <1>0, <2>1
    <3> HIDE DEF k, l
    <3> QED
      BY <2>2, <2>3, <3>1
  <2>5. v = w
    BY <1>1, <1>2, <2>1, <2>4
  <2>6. ASSUME NEW i \in 1 .. k PROVE m[i] = n[i]
    <3>1. i + 1 \in 1 .. k + 2
      BY <1>0
    <3> QED
      BY <1>1, <1>2, <2>1, <2>4, <3>1
  <2>7. m = n
    BY <2>4, <2>6, SeqEqual
  <2> QED
    BY <2>5, <2>7
<1>5. ASSUME m = n, v = w PROVE IsPrefix(s, t)
  <2>1. k = l
    BY <1>5
  <2>2. ASSUME NEW i \in 1 .. k + 2 PROVE s[i] = t[i]
    <3>1. CASE i = 1
      BY <1>2, <1>2a, <3>1
    <3>2. CASE i = k + 2
      BY <1>1, <1>2, <1>5, <2>1, <3>2
    <3>3. CASE i # 1 /\ i # k + 2
      <4>1. i - 1 \in 1 .. k /\ (i - 1) + 1 = i
        BY <1>0, <3>3
      <4> QED
        BY <1>1, <1>2, <1>5, <2>1, <4>1
    <3> QED
      BY <3>1, <3>2, <3>3
  <2> QED
    BY <1>0, <1>3, <2>1, <2>2
<1> QED
  BY <1>4, <1>5 DEF s, t

\* For every set of segments and every length bound: the tuner that lists a
\* cohort's window finds this cohort's segments of this window and no others
\* (object_key, list_source_objects).
THEOREM NamesApart == NamesSpec => []NamesKeptApart
<1>1. NamesInit => NamesInv
  BY DEF NamesInit, NamesInv
<1>2. NamesInv => NamesKeptApart
  <2> SUFFICES ASSUME NamesInv, NEW o \in objects, NEW p \in objects
               PROVE  o \in Listed(p.name, p.window)
                        <=> o.name = p.name /\ o.window = p.window
    BY DEF NamesInv, NamesKeptApart
  <2>1. Stored(o) /\ Stored(p)
    BY DEF NamesInv
  <2>2. \A i \in DOMAIN o.name : o.name[i] \notin Windows
    BY <2>1 DEF Stored, ValidateCohortName, ValidateSegment
  <2>3. o \in Listed(p.name, p.window) <=> 
          IsPrefix(ListPrefix(p.name, p.window), ObjectKey(o.name, o.window, "part"))
    BY <2>1 DEF Stored, Listed
  <2>4. IsPrefix(ListPrefix(p.name, p.window), ObjectKey(o.name, o.window, "part"))
          <=> p.name = o.name /\ p.window = o.window
    BY <2>1, <2>2, PrefixIsExact DEF Stored
  <2> QED
    BY <2>3, <2>4
<1> QED
  BY <1>1, <1>2, NamesStep, PTL DEF NamesSpec

-----------------------------------------------------------------------------
(* The calendar.                                                           *)

\* A year of the calendar that starts in March, and a month's place in it.
MarchYear(y, m) == IF m <= 2 THEN y - 1 ELSE y
MarchMonth(m) == IF m <= 2 THEN m + 9 ELSE m - 3

\* Days from 0000-03-01 to the first of March of year a.
DaysBefore(a) == 365 * a + a \div 4 - a \div 100 + a \div 400

\* The number of a month's first day.
FirstDay(y, m) ==
    DaysBefore(MarchYear(y, m)) + (153 * MarchMonth(m) + 2) \div 5 - 719468

\* The inductive invariant: the counted days in closed form.
CalendarInv ==
    /\ year \in Nat /\ year >= 1970
    /\ month \in 0 .. 12
    /\ month = 0 => year = 1970 /\ days = 0
    /\ month # 0 => days = FirstDay(year, month) + DaysIn(year, month)

\* A leap year has one day more.
LEMMA DaysInYear ==
    ASSUME NEW y \in Nat, y >= 1
    PROVE  DaysBefore(y) - DaysBefore(y - 1) = IF IsLeap(y) THEN 366 ELSE 365
<1>1. y \div 4 - (y - 1) \div 4 = IF y % 4 = 0 THEN 1 ELSE 0
  OBVIOUS
<1>2. y \div 100 - (y - 1) \div 100 = IF y % 100 = 0 THEN 1 ELSE 0
  OBVIOUS
<1>3. y \div 400 - (y - 1) \div 400 = IF y % 400 = 0 THEN 1 ELSE 0
  OBVIOUS
<1>4. (y % 100 = 0 => y % 4 = 0) /\ (y % 400 = 0 => y % 100 = 0)
  OBVIOUS
<1> QED
  BY <1>1, <1>2, <1>3, <1>4 DEF DaysBefore, IsLeap

\* The first day after a month is the next month's first.
LEMMA FirstDayOfNext ==
    ASSUME NEW y \in Nat, y >= 1970, NEW m \in 1 .. 12
    PROVE  FirstDay(y, m) + DaysIn(y, m)
             = FirstDay(IF m = 12 THEN y + 1 ELSE y, (m % 12) + 1)
<1>1. CASE m = 2
  BY <1>1, DaysInYear DEF FirstDay, MarchYear, MarchMonth, DaysIn, DaysBefore
<1>2. CASE m = 12
  BY <1>2 DEF FirstDay, MarchYear, MarchMonth, DaysIn, DaysBefore
<1>3. CASE m # 2 /\ m # 12
  <2>1. (m % 12) + 1 = m + 1 /\ MarchYear(y, m + 1) = MarchYear(y, m)
    BY <1>3 DEF MarchYear
  <2>2. (153 * MarchMonth(m) + 2) \div 5 + DaysIn(y, m)
          = (153 * MarchMonth(m + 1) + 2) \div 5
    BY <1>3 DEF MarchMonth, DaysIn
  <2>3. DaysIn(y, m) \in Nat /\ MarchYear(y, m) \in Nat
    BY DEF DaysIn, MarchYear
  <2>4. DaysBefore(MarchYear(y, m)) \in Int
    BY <2>3 DEF DaysBefore
  <2>5. (153 * MarchMonth(m) + 2) \div 5 \in Int /\ (153 * MarchMonth(m + 1) + 2) \div 5 \in Int
    BY DEF MarchMonth
  <2> QED
    BY <1>3, <2>1, <2>2, <2>3, <2>4, <2>5 DEF FirstDay
<1> QED
  BY <1>1, <1>2, <1>3

\* What CivilFromDays works out for day doy of the year a, the r-th of the
\* q-th four years of the c-th century of era e.
EraFound(e, c, q, r, a, doy) ==
    LET z == DaysBefore(a) + doy
        doe == z - e * 146097
        yoe == (doe - doe \div 1460 + doe \div 36524 - doe \div 146096)
                 \div 365
    IN  /\ z \div 146097 = e
        /\ yoe = 100 * c + 4 * q + r
        /\ doe - (365 * yoe + yoe \div 4 - yoe \div 100) = doy

\* Years that start in March have 366 days when the next civil year is leap.
InEra(e, c, q, r, a, doy) ==
    /\ e \in Nat /\ c \in 0 .. 3 /\ q \in 0 .. 24 /\ r \in 0 .. 3
    /\ a = 400 * e + 100 * c + 4 * q + r
    /\ doy \in 0 .. 365
    /\ doy = 365 => r = 3 /\ (q = 24 => c = 3)

\* The era, the year of the era and the day of the year are found.
LEMMA EraOf ==
    \A e, c, q, r, a, doy :
        InEra(e, c, q, r, a, doy) => EraFound(e, c, q, r, a, doy)
<1> SUFFICES ASSUME NEW e, NEW c, NEW q, NEW r, NEW a, NEW doy,
                    InEra(e, c, q, r, a, doy)
             PROVE  EraFound(e, c, q, r, a, doy)
  OBVIOUS
<1> USE DEF InEra
<1> DEFINE z == DaysBefore(a) + doy
           t == 365 * r + doy
           doe == 36524 * c + 1461 * q + t
           n == doe - doe \div 1460 + doe \div 36524 - doe \div 146096
           yoe == n \div 365
<1>1. a \div 400 = e /\ a \div 100 = 4 * e + c /\ a \div 4 = 100 * e + 25 * c + q
  BY SMT
<1>2. z = 146097 * e + doe
  BY <1>1, SMT DEF DaysBefore
<1>3. t \in 0 .. 1460 /\ t \in Nat
  BY SMT
<1>3a. doe \in Nat /\ doe <= 146096
  BY SMT
<1>4. z \div 146097 = e
  <2> HIDE DEF z, doe
  <2> QED
    BY <1>2, <1>3a, SMT
<1>5. doe \div 36524 - doe \div 146096 = c
  BY SMT
<1>6. PICK x \in 0 .. 1 : doe \div 1460 = 25 * c + q + x /\ (x = 1 <=> 24 * c + q + t >= 1460)
  BY SMT
<1>7. n = 36500 * c + 1460 * q + t - x
  BY <1>5, <1>6, SMT
<1>8. (t - x) \div 365 = r /\ t - x \in Nat
  <2>1. CASE x = 0
    BY <1>6, <2>1, SMT
  <2>2. CASE x = 1
    BY <1>6, <2>2, SMT
  <2> QED
    BY <2>1, <2>2, SMT
<1>9. yoe = 100 * c + 4 * q + r
  BY <1>7, <1>8, SMT
<1>10. doe - (365 * yoe + yoe \div 4 - yoe \div 100) = doy
  <2> HIDE DEF yoe
  <2> QED
    BY <1>9, SMT
<1>11. z - e * 146097 = doe
  <2> HIDE DEF z, doe
  <2> QED
    BY <1>2, <1>3a, SMT
<1>12. LET D == z - e * 146097
           Y == (D - D \div 1460 + D \div 36524 - D \div 146096) \div 365
       IN  z \div 146097 = e /\ Y = 100 * c + 4 * q + r
           /\ D - (365 * Y + Y \div 4 - Y \div 100) = doy
  <2> HIDE DEF z, doe
  <2>1. yoe = (doe - doe \div 1460 + doe \div 36524 - doe \div 146096) \div 365
    BY SMT
  <2> HIDE DEF yoe
  <2> QED
    BY <1>4, <1>9, <1>10, <1>11, <2>1, SMT
<1> QED
  BY <1>12, SMT DEF EraFound

\* CivilFromDays finds the date of every day.
LEMMA DateOfDay ==
    ASSUME NEW y \in Nat, y >= 1970, NEW m \in 1 .. 12, NEW d \in 1 .. DaysIn(y, m)
    PROVE  CivilFromDays(FirstDay(y, m) + d - 1) = <<y, m, d>>
<1> DEFINE marchYear == MarchYear(y, m)
           mp == MarchMonth(m)
           day == (153 * mp + 2) \div 5 + d - 1
           era0 == marchYear \div 400
           cent == (marchYear % 400) \div 100
           quad == (marchYear % 100) \div 4
           rest == marchYear % 4
<1>1. marchYear \in Nat /\ mp \in 0 .. 11 /\ d \in 1 .. 31
  BY SMT DEF MarchYear, MarchMonth, DaysIn
<1>2. /\ era0 \in Nat /\ cent \in 0 .. 3 /\ quad \in 0 .. 24 /\ rest \in 0 .. 3
      /\ marchYear = 400 * era0 + 100 * cent + 4 * quad + rest
  <2> HIDE DEF marchYear
  <2> QED
    BY <1>1, SMT
<1>3. day \in 0 .. 365 /\ (5 * day + 2) \div 153 = mp
  BY SMT DEF MarchMonth, DaysIn
<1>4. day = 365 => m = 2 /\ IsLeap(y) /\ marchYear = y - 1
  BY SMT DEF MarchMonth, DaysIn, MarchYear
<1>5. day = 365 => rest = 3 /\ (quad = 24 => cent = 3)
  <2> SUFFICES ASSUME day = 365 PROVE rest = 3 /\ (quad = 24 => cent = 3)
    BY SMT
  <2>1. IsLeap(marchYear + 1)
    BY <1>1, <1>4, SMT
  <2> HIDE DEF marchYear
  <2> QED
    BY <1>1, <2>1, SMT DEF IsLeap
<1> DEFINE z == DaysBefore(marchYear) + day
           doe == z - era0 * 146097
           yoe == (doe - doe \div 1460 + doe \div 36524 - doe \div 146096)
                    \div 365
<1>6. /\ z \div 146097 = era0
      /\ yoe = 100 * cent + 4 * quad + rest
      /\ doe - (365 * yoe + yoe \div 4 - yoe \div 100) = day
  <2> HIDE DEF marchYear, era0, cent, quad, rest, day
  <2>1. InEra(era0, cent, quad, rest, marchYear, day)
    BY <1>2, <1>3, <1>5, SMT DEF InEra
  <2>2. EraFound(era0, cent, quad, rest, marchYear, day)
    BY <2>1, EraOf
  <2> QED
    BY <2>2, SMT DEF EraFound
<1>7. (FirstDay(y, m) + d - 1) + 719468 = z
  <2>1. DaysBefore(marchYear) \in Int
    <3> HIDE DEF marchYear
    <3> QED
      BY <1>1, SMT DEF DaysBefore
  <2>2. FirstDay(y, m) = DaysBefore(marchYear) + (153 * mp + 2) \div 5 - 719468
    BY SMT DEF FirstDay
  <2> HIDE DEF marchYear, mp
  <2> QED
    BY <1>1, <2>1, <2>2, SMT
<1>8. mp + (IF mp < 10 THEN 3 ELSE -9) = m
  BY SMT DEF MarchMonth
<1>9. day - (153 * mp + 2) \div 5 + 1 = d
  <2> HIDE DEF mp
  <2> QED
    BY <1>1, SMT
<1>10. yoe + era0 * 400 + (IF m <= 2 THEN 1 ELSE 0) = y
  <2>1. marchYear + (IF m <= 2 THEN 1 ELSE 0) = y
    BY SMT DEF MarchYear
  <2> HIDE DEF marchYear, era0, cent, quad, rest, yoe
  <2> QED
    BY <1>1, <1>2, <1>6, <2>1, SMT
<1> HIDE DEF z, era0, doe, yoe, day, mp
<1>11. CivilFromDays(FirstDay(y, m) + d - 1)
         = LET z1 == (FirstDay(y, m) + d - 1) + 719468
               era == z1 \div 146097
               doe1 == z1 - era * 146097
               yoe1 == (doe1 - doe1 \div 1460 + doe1 \div 36524 - doe1 \div 146096)
                         \div 365
               doy1 == doe1 - (365 * yoe1 + yoe1 \div 4 - yoe1 \div 100)
               mp1 == (5 * doy1 + 2) \div 153
               m1 == mp1 + (IF mp1 < 10 THEN 3 ELSE -9)
           IN  <<yoe1 + era * 400 + (IF m1 <= 2 THEN 1 ELSE 0), m1,
                 doy1 - (153 * mp1 + 2) \div 5 + 1>>
  BY SMT DEF CivilFromDays
<1>12. CivilFromDays(FirstDay(y, m) + d - 1)
         = <<yoe + era0 * 400 + (IF m <= 2 THEN 1 ELSE 0), m,
             day - (153 * mp + 2) \div 5 + 1>>
  <2>1. doe = z - era0 * 146097
    BY SMT DEF doe
  <2>2. yoe = (doe - doe \div 1460 + doe \div 36524 - doe \div 146096) \div 365
    BY SMT DEF yoe
  <2> QED
    BY <1>3, <1>6, <1>7, <1>8, <1>11, <2>1, <2>2, SMT
<1> QED
  BY <1>9, <1>10, <1>12, SMT

\* Counting one month more agrees with the closed form.
LEMMA CalendarStep == CalendarInv /\ [NextMonth]_calendar => CalendarInv'
<1> SUFFICES ASSUME CalendarInv, [NextMonth]_calendar PROVE CalendarInv'
  OBVIOUS
<1>1. CASE NextMonth
  <2>1. CASE month = 0
    BY <1>1, <2>1 DEF NextMonth, CalendarInv, FirstDay, MarchYear, MarchMonth,
                      DaysBefore, DaysIn
  <2>2. CASE month # 0
    <3>1. month \in 1 .. 12 /\ year \in Nat /\ year >= 1970
      BY <2>2 DEF CalendarInv
    <3>2. days = FirstDay(IF month = 12 THEN year + 1 ELSE year, (month % 12) + 1)
      BY <2>2, <3>1, FirstDayOfNext DEF CalendarInv
    <3>3. year' \in Nat /\ year' >= 1970 /\ month' \in 1 .. 12
      BY <1>1, <3>1 DEF NextMonth
    <3>4. days' = FirstDay(year', month') + DaysIn(year', month')
      BY <1>1, <3>2 DEF NextMonth
    <3> QED
      BY <3>3, <3>4 DEF CalendarInv
  <2> QED
    BY <2>1, <2>2
<1>2. CASE UNCHANGED calendar
  BY <1>2 DEF calendar, CalendarInv
<1> QED
  BY <1>1, <1>2

\* A day's date.
Dated(n, y, m, d) ==
    /\ y \in Nat /\ y >= 1970 /\ m \in 1 .. 12 /\ d \in 1 .. DaysIn(y, m)
    /\ n = FirstDay(y, m) + d - 1

\* The day after a date, and its date.
LEMMA NextDate ==
    ASSUME NEW n \in Nat, NEW y, NEW m, NEW d, Dated(n, y, m, d)
    PROVE  \/ Dated(n + 1, y, m, d + 1)
           \/ Dated(n + 1, y, m + 1, 1)
           \/ Dated(n + 1, y + 1, 1, 1)
<1>1. /\ y \in Nat /\ y >= 1970 /\ m \in 1 .. 12 /\ d \in 1 .. DaysIn(y, m)
      /\ n = FirstDay(y, m) + d - 1
  BY DEF Dated
<1>2. FirstDay(y, m) \in Int /\ DaysIn(y, m) \in 28 .. 31
  BY <1>1, SMT DEF FirstDay, MarchYear, MarchMonth, DaysBefore, DaysIn
<1>3. CASE d < DaysIn(y, m)
  <2>1. d + 1 \in 1 .. DaysIn(y, m) /\ n + 1 = FirstDay(y, m) + (d + 1) - 1
    BY <1>1, <1>2, <1>3
  <2> QED
    BY <1>1, <2>1 DEF Dated
<1>4. CASE d = DaysIn(y, m)
  <2>1. n + 1 = FirstDay(y, m) + DaysIn(y, m)
    BY <1>1, <1>2, <1>4
  <2>2. n + 1 = FirstDay(IF m = 12 THEN y + 1 ELSE y, (m % 12) + 1)
    BY <1>1, <2>1, FirstDayOfNext
  <2>3. \A b, k : 1 \in 1 .. DaysIn(b, k)
    BY DEF DaysIn
  <2>4. CASE m = 12
    <3>1. n + 1 = FirstDay(y + 1, 1)
      BY <2>2, <2>4
    <3>2. n + 1 = FirstDay(y + 1, 1) + 1 - 1 /\ y + 1 \in Nat /\ y + 1 >= 1970
      BY <1>1, <3>1
    <3> QED
      BY <2>3, <3>2 DEF Dated
  <2>5. CASE m # 12
    <3>1. n + 1 = FirstDay(y, m + 1)
      <4>1. (m % 12) + 1 = m + 1
        BY <1>1, <2>5
      <4> QED
        BY <2>2, <2>5, <4>1
    <3>2. n + 1 = FirstDay(y, m + 1) + 1 - 1 /\ m + 1 \in 1 .. 12
      BY <1>1, <2>5, <3>1
    <3> QED
      BY <1>1, <2>3, <3>2 DEF Dated
  <2> QED
    BY <2>4, <2>5
<1> QED
  BY <1>1, <1>2, <1>3, <1>4

\* Every day has a date.
LEMMA EveryDayDated == \A n \in Nat : \E y, m, d : Dated(n, y, m, d)
<1> DEFINE S == {n \in Nat : \E y, m, d : Dated(n, y, m, d)}
<1>1. 0 \in S
  <2>1. Dated(0, 1970, 1, 1)
    BY SMT DEF Dated, FirstDay, MarchYear, MarchMonth, DaysBefore, DaysIn
  <2> QED
    BY <2>1
<1>2. ASSUME NEW n \in Nat, n \in S PROVE n + 1 \in S
  <2>1. PICK y, m, d : Dated(n, y, m, d)
    BY <1>2
  <2>2. \E b, k, e : Dated(n + 1, b, k, e)
    BY <2>1, NextDate
  <2> QED
    BY <2>2
<1>3. Nat \subseteq S
  <2> HIDE DEF S
  <2> QED
    BY <1>1, <1>2, NatSetInduction
<1> QED
  BY <1>3

\* The first difference of two dates is an increase.
Sooner(p, q) ==
    \/ p[1] < q[1]
    \/ p[1] = q[1] /\ p[2] < q[2]
    \/ p[1] = q[1] /\ p[2] = q[2] /\ p[3] < q[3]

\* A date in numbers.
Numbered(p) == \E y, m, d \in Nat : p = <<y, m, d>>

\* CivilFromDays is found in the calendar, and rises from day to day.
LEMMA DatesRise ==
    /\ \A n \in Nat : Numbered(CivilFromDays(n))
    /\ \A n \in Nat : Sooner(CivilFromDays(n), CivilFromDays(n + 1))
<1>1. ASSUME NEW n, NEW y, NEW m, NEW d, Dated(n, y, m, d)
      PROVE  CivilFromDays(n) = <<y, m, d>> /\ y \in Nat /\ m \in Nat /\ d \in Nat
  <2>1. /\ y \in Nat /\ y >= 1970 /\ m \in 1 .. 12 /\ d \in 1 .. DaysIn(y, m)
        /\ n = FirstDay(y, m) + d - 1
    BY <1>1 DEF Dated
  <2>2. DaysIn(y, m) \in Nat
    BY DEF DaysIn
  <2> QED
    BY <2>1, <2>2, DateOfDay
<1>2. ASSUME NEW n \in Nat
      PROVE  /\ Numbered(CivilFromDays(n))
             /\ Sooner(CivilFromDays(n), CivilFromDays(n + 1))
  <2>1. PICK y, m, d : Dated(n, y, m, d)
    BY EveryDayDated
  <2>2. CivilFromDays(n) = <<y, m, d>> /\ y \in Nat /\ m \in Nat /\ d \in Nat
    BY <1>1, <2>1
  <2>3. \/ CivilFromDays(n + 1) = <<y, m, d + 1>>
        \/ CivilFromDays(n + 1) = <<y, m + 1, 1>>
        \/ CivilFromDays(n + 1) = <<y + 1, 1, 1>>
    BY <1>1, <2>1, NextDate
  <2>4. Sooner(CivilFromDays(n), CivilFromDays(n + 1))
    BY <2>2, <2>3 DEF Sooner
  <2>5. Numbered(CivilFromDays(n))
    BY <2>2 DEF Numbered
  <2> QED
    BY <2>4, <2>5
<1> QED
  BY <1>2

\* Later days have later dates.
LEMMA DatesInOrder ==
    ASSUME NEW n \in Nat, NEW k \in Nat, n < k
    PROVE  Sooner(CivilFromDays(n), CivilFromDays(k))
<1> DEFINE S == {i \in Nat : Sooner(CivilFromDays(n), CivilFromDays(n + i + 1))}
<1>1. 0 \in S
  <2>1. n + 0 + 1 = n + 1
    OBVIOUS
  <2> QED
    BY <2>1, DatesRise
<1>2. ASSUME NEW i \in Nat, i \in S PROVE i + 1 \in S
  <2> DEFINE p == CivilFromDays(n)
             q == CivilFromDays(n + i + 1)
             r == CivilFromDays(n + i + 1 + 1)
  <2>1. n + i + 1 \in Nat /\ n + (i + 1) + 1 = n + i + 1 + 1
        /\ n + i + 1 + 1 \in Nat
    OBVIOUS
  <2>2. Sooner(p, q)
    BY <1>2
  <2>3. Numbered(p) /\ Numbered(q) /\ Numbered(r) /\ Sooner(q, r)
    <3>1. PICK j \in Nat : j = n + i + 1
      BY <2>1
    <3>2. Numbered(CivilFromDays(j)) /\ Sooner(CivilFromDays(j), CivilFromDays(j + 1))
          /\ Numbered(CivilFromDays(j + 1)) /\ Numbered(CivilFromDays(n))
      BY DatesRise
    <3> QED
      BY <3>1, <3>2
  <2>4. Sooner(p, r)
    <3> HIDE DEF p, q, r
    <3>1. PICK py, pm, pd \in Nat : p = <<py, pm, pd>>
      BY <2>3 DEF Numbered
    <3>2. PICK qy, qm, qd \in Nat : q = <<qy, qm, qd>>
      BY <2>3 DEF Numbered
    <3>3. PICK ry, rm, rd \in Nat : r = <<ry, rm, rd>>
      BY <2>3 DEF Numbered
    <3> QED
      BY <2>2, <2>3, <3>1, <3>2, <3>3, SMT DEF Sooner
  <2>5. Sooner(CivilFromDays(n), CivilFromDays(n + (i + 1) + 1))
    BY <2>1, <2>4 DEF p, r
  <2> QED
    BY <2>5
<1>3. Nat \subseteq S
  <2> HIDE DEF S
  <2> QED
    BY <1>1, <1>2, NatSetInduction
<1>4. k - n - 1 \in Nat /\ n + (k - n - 1) + 1 = k
  OBVIOUS
<1> QED
  BY <1>3, <1>4

\* The remainder that is taken is that of the seconds since the epoch.
LEMMA IntoWindowOfEpoch ==
    ASSUME NEW day \in Nat, NEW second \in Nat
    PROVE  IntoWindow(day, second) = (day * SecondsPerDay + second) % WindowWidth
<1> DEFINE W == WindowWidth
           a == day % W
           b == SecondsPerDay % W
           p == day \div W
           q == SecondsPerDay \div W
<1>1. W \in Nat /\ W > 0 /\ SecondsPerDay \in Nat
  BY WidthAssumption, SMT DEF SecondsPerDay
<1>2. /\ a \in Nat /\ b \in Nat /\ p \in Nat /\ q \in Nat
      /\ day = p * W + a /\ SecondsPerDay = q * W + b
  BY <1>1, SMT
<1> HIDE DEF a, b, p, q, W
<1>3. PICK k \in Nat : k = p * q * W + p * b + a * q
  BY <1>1, <1>2, SMT
<1>4. day * SecondsPerDay = k * W + a * b
  BY <1>1, <1>2, <1>3, SMT
<1>5. PICK e \in Nat : e = a * b + second
  BY <1>2, SMT
<1>6. day * SecondsPerDay + second = k * W + e
  <2>1. a * b \in Nat /\ k * W \in Nat
    BY <1>1, <1>2, <1>3, SMT
  <2> QED
    BY <1>4, <1>5, <2>1
<1>7. (k * W + e) % W = e % W
  <2>1. PICK u \in Nat, v \in 0 .. W - 1 : e = u * W + v
    <3>1. e \div W \in Nat /\ e % W \in 0 .. W - 1
      BY <1>1, <1>5, SMT
    <3>2. e = (e \div W) * W + (e % W)
      BY <1>1, <1>5, SMT
    <3> QED
      BY <3>1, <3>2
  <2>2. (u * W + v) % W = v
    BY <1>1, <2>1, SMT
  <2>3. ((k + u) * W + v) % W = v
    <3>1. PICK n \in Nat : n = k + u
      BY <1>3, <2>1
    <3>2. (n * W + v) % W = v
      BY <1>1, <2>1, <3>1, SMT
    <3> QED
      BY <3>1, <3>2
  <2>4. k * W + e = (k + u) * W + v
    BY <1>1, <1>3, <2>1, SMT
  <2> QED
    BY <2>1, <2>2, <2>3, <2>4
<1>8. IntoWindow(day, second) = e % W
  BY <1>5 DEF IntoWindow, a, b, W
<1> QED
  BY <1>6, <1>7, <1>8 DEF W

\* All seconds of a window have its start.
LEMMA WindowOf ==
    ASSUME days \in Nat \ {0}, NEW i \in Nat, NEW r \in 0 .. WindowWidth - 1
    PROVE  /\ FirstStart + i * WindowWidth \in Nat
           /\ AlignedWindowStart(days - 1, FirstStart + i * WindowWidth + r)
                = FirstStart + i * WindowWidth
<1> DEFINE W == WindowWidth
           c == ((days - 1) % W) * (SecondsPerDay % W)
           f == FirstStart
<1>1. W \in Nat /\ W > 0 /\ SecondsPerDay \in Nat /\ days - 1 \in Nat
  BY WidthAssumption, SMT DEF SecondsPerDay
<1>2. c \in Nat
  <2>1. (days - 1) % W \in Nat /\ SecondsPerDay % W \in Nat
    BY <1>1, SMT
  <2> QED
    BY <2>1, SMT
<1>3. f = (-((c + 0) % W)) % W
  BY DEF FirstStart, IntoWindow
<1>4. \A t : AlignedWindowStart(days - 1, t) = t - ((c + t) % W)
  BY DEF AlignedWindowStart, IntoWindow
<1> HIDE DEF c, f, W
<1>5. PICK u \in Nat, v \in 0 .. W - 1 : c = u * W + v /\ c % W = v
  BY <1>1, <1>2, SMT
<1>6. c + 0 = c
  BY <1>2
<1>7. f = (-v) % W
  BY <1>3, <1>5, <1>6
<1>8. f = IF v = 0 THEN 0 ELSE W - v
  <2>1. CASE v = 0
    BY <1>1, <1>7, <2>1, SMT
  <2>2. CASE v # 0
    BY <1>1, <1>5, <1>7, <2>2, SMT
  <2> QED
    BY <2>1, <2>2
<1>9. f \in Nat /\ \E n \in Nat : c + f = n * W
  <2>1. CASE v = 0
    BY <1>1, <1>5, <1>8, <2>1, SMT
  <2>2. CASE v # 0
    <3>1. c + f = (u + 1) * W /\ u + 1 \in Nat /\ f \in Nat
      BY <1>1, <1>5, <1>8, <2>2, SMT
    <3> QED
      BY <3>1
  <2> QED
    BY <2>1, <2>2
<1>10. PICK n \in Nat : c + f = n * W
  BY <1>9
<1>11. PICK x \in Nat : x = f + i * W
  BY <1>1, <1>9, SMT
<1>12. (c + (x + r)) % W = r
  <2>1. PICK k \in Nat : k = n + i
    BY <1>10
  <2>2. c + (x + r) = k * W + r
    BY <1>1, <1>2, <1>9, <1>10, <1>11, <2>1, SMT DEF W
  <2>3. r \in 0 .. W - 1
    BY DEF W
  <2>4. (k * W + r) % W = r
    BY <1>1, <2>1, <2>3, SMT
  <2> QED
    BY <2>2, <2>4
<1>13. AlignedWindowStart(days - 1, x + r) = x
  <2>1. AlignedWindowStart(days - 1, x + r) = (x + r) - r
    BY <1>4, <1>12
  <2>2. r \in Int
    BY <1>1 DEF W
  <2> QED
    BY <1>11, <2>1, <2>2
<1> QED
  BY <1>11, <1>13 DEF f, W

\* Times of a day a minute or more apart have names in their order.
LEMMA MinutesInOrder ==
    ASSUME NEW s \in Nat, NEW t \in Nat, s + 60 <= t
    PROVE  \/ s \div 3600 < t \div 3600
           \/ s \div 3600 = t \div 3600 /\ (s % 3600) \div 60 < (t % 3600) \div 60
BY SMT

\* The fields of a date, then those of a time.
LEMMA DateAndTime ==
    ASSUME NEW y, NEW m, NEW d, NEW h, NEW min
    PROVE  <<y, m, d>> \o <<h, min>> = <<y, m, d, h, min>>
<1> DEFINE S == {y, m, d, h, min}
           date == <<y, m, d>>
           time == <<h, min>>
           both == <<y, m, d, h, min>>
<1>1. /\ date \in Seq(S) /\ Len(date) = 3
      /\ time \in Seq(S) /\ Len(time) = 2
      /\ both \in Seq(S) /\ Len(both) = 5
  OBVIOUS
<1>2. /\ date[1] = both[1] /\ date[2] = both[2] /\ date[3] = both[3]
      /\ time[1] = both[4] /\ time[2] = both[5]
  OBVIOUS
<1> HIDE DEF S, date, time, both
<1>3. /\ date \o time \in Seq(S)
      /\ Len(date \o time) = Len(date) + Len(time)
      /\ \A i \in 1 .. Len(date) + Len(time) : (date \o time)[i] =
            IF i <= Len(date) THEN date[i] ELSE time[i - Len(date)]
  BY <1>1, ConcatProperties
<1>4. Len(date \o time) = Len(both)
  BY <1>1, <1>3
<1>5. \A i \in 1 .. Len(date \o time) : (date \o time)[i] = both[i]
  BY <1>1, <1>2, <1>3
<1>6. date \o time = both
  BY <1>1, <1>3, <1>4, <1>5, SeqEqual
<1> QED
  BY <1>6 DEF date, time, both

\* A later day's name, and a later minute's on the same day, sorts after.
LEMMA NamesInOrder ==
    ASSUME NEW n \in Nat, NEW k \in Nat, NEW s \in Nat, NEW t \in Nat,
           n < k \/ (n = k /\ s + 60 <= t)
    PROVE  Before(FormatWindowTimestamp(n, s), FormatWindowTimestamp(k, t))
<1> DEFINE hs == s \div 3600
           ms == (s % 3600) \div 60
           ht == t \div 3600
           mt == (t % 3600) \div 60
<1>1. PICK y, m, d \in Nat : CivilFromDays(n) = <<y, m, d>>
  BY DatesRise DEF Numbered
<1>2. PICK y2, m2, d2 \in Nat : CivilFromDays(k) = <<y2, m2, d2>>
  BY DatesRise DEF Numbered
<1>3. FormatWindowTimestamp(n, s) = <<y, m, d, hs, ms>>
  BY <1>1, DateAndTime DEF FormatWindowTimestamp
<1>4. FormatWindowTimestamp(k, t) = <<y2, m2, d2, ht, mt>>
  BY <1>2, DateAndTime DEF FormatWindowTimestamp
<1>5. \/ y < y2
      \/ y = y2 /\ m < m2
      \/ y = y2 /\ m = m2 /\ d < d2
      \/ y = y2 /\ m = m2 /\ d = d2 /\ hs < ht
      \/ y = y2 /\ m = m2 /\ d = d2 /\ hs = ht /\ ms < mt
  <2>1. CASE n < k
    <3>1. Sooner(<<y, m, d>>, <<y2, m2, d2>>)
      BY <1>1, <1>2, <2>1, DatesInOrder
    <3> QED
      BY <3>1 DEF Sooner
  <2>2. CASE n = k /\ s + 60 <= t
    <3>1. hs < ht \/ (hs = ht /\ ms < mt)
      BY <2>2, MinutesInOrder
    <3>2. <<y, m, d>> = <<y2, m2, d2>>
      BY <1>1, <1>2, <2>2
    <3>3. y = y2 /\ m = m2 /\ d = d2
      BY <3>2
    <3> HIDE DEF hs, ht, ms, mt
    <3> QED
      BY <3>1, <3>3
  <2> QED
    BY <2>1, <2>2
<1> HIDE DEF hs, ht, ms, mt
<1> DEFINE p == <<y, m, d, hs, ms>>
           q == <<y2, m2, d2, ht, mt>>
<1>6. /\ DOMAIN p = 1 .. 5
      /\ p[1] = y /\ p[2] = m /\ p[3] = d /\ p[4] = hs /\ p[5] = ms
      /\ q[1] = y2 /\ q[2] = m2 /\ q[3] = d2 /\ q[4] = ht /\ q[5] = mt
  OBVIOUS
<1> HIDE DEF p, q
<1>7. Before(p, q)
  <2>1. CASE p[1] < q[1]
    BY <1>6, <2>1 DEF Before
  <2>2. CASE p[1] = q[1] /\ p[2] < q[2]
    <3>1. \A j \in 1 .. 2 - 1 : p[j] = q[j]
      BY <2>2
    <3> QED
      BY <1>6, <2>2, <3>1 DEF Before
  <2>3. CASE p[1] = q[1] /\ p[2] = q[2] /\ p[3] < q[3]
    <3>1. \A j \in 1 .. 3 - 1 : p[j] = q[j]
      BY <2>3
    <3> QED
      BY <1>6, <2>3, <3>1 DEF Before
  <2>4. CASE p[1] = q[1] /\ p[2] = q[2] /\ p[3] = q[3] /\ p[4] < q[4]
    <3>1. \A j \in 1 .. 4 - 1 : p[j] = q[j]
      BY <2>4
    <3> QED
      BY <1>6, <2>4, <3>1 DEF Before
  <2>5. CASE p[1] = q[1] /\ p[2] = q[2] /\ p[3] = q[3] /\ p[4] = q[4] /\ p[5] < q[5]
    <3>1. \A j \in 1 .. 5 - 1 : p[j] = q[j]
      BY <2>5
    <3> QED
      BY <1>6, <2>5, <3>1 DEF Before
  <2> QED
    BY <1>5, <1>6, <2>1, <2>2, <2>3, <2>4, <2>5
<1> QED
  BY <1>3, <1>4, <1>7 DEF p, q

\* For every day from 1970 on and every width of a minute or more, whether or
\* not it divides the day: civil_from_days gives the date that counting months
\* gives, the name of a window is that of its first second for its last one
\* too, and the next window's name sorts after it, over the ends of days,
\* months and years (aligned_window_start, format_window_timestamp).
THEOREM WindowNames == CalendarSpec => []WindowNamesExact
<1>1. CalendarInit => CalendarInv
  BY SMT DEF CalendarInit, CalendarInv
<1>2. CalendarInv => WindowNamesExact
  <2> SUFFICES ASSUME CalendarInv, month # 0 PROVE WindowNamesExact
    BY DEF WindowNamesExact, DatesMatchCalendar, WindowsNamedApart
  <2> DEFINE n == DaysIn(year, month)
  <2>1. year \in Nat /\ year >= 1970 /\ month \in 1 .. 12 /\ n \in 28 .. 31
    BY DEF CalendarInv, DaysIn
  <2>2. days = FirstDay(year, month) + n
    BY DEF CalendarInv
  <2>3. FirstDay(year, month) \in Nat
    <3>1. MarchYear(year, month) \in Nat /\ MarchYear(year, month) >= 1969
          /\ MarchMonth(month) \in 0 .. 11
          /\ (month <= 2 => MarchMonth(month) >= 10)
          /\ (month > 2 => MarchYear(year, month) >= 1970)
      BY <2>1, SMT DEF MarchYear, MarchMonth
    <3> QED
      BY <2>1, <3>1, SMT DEF FirstDay, DaysBefore
  <2>4. DatesMatchCalendar
    <3> SUFFICES ASSUME NEW d \in 1 .. n
                 PROVE  CivilFromDays(days - n + d - 1) = <<year, month, d>>
      BY DEF DatesMatchCalendar
    <3>1. days - n + d - 1 = FirstDay(year, month) + d - 1
      <4> HIDE DEF n
      <4> QED
        BY <2>1, <2>2, <2>3, SMT
    <3>2. CivilFromDays(FirstDay(year, month) + d - 1) = <<year, month, d>>
      BY <2>1, DateOfDay
    <3> QED
      BY <3>1, <3>2
  <2>5. days \in Nat \ {0}
    <3> HIDE DEF n
    <3> QED
      BY <2>1, <2>2, <2>3
  <2>6. WindowsNamedApart
    <3> SUFFICES ASSUME NEW i \in 0 .. SecondsPerDay \div WindowWidth
                 PROVE  LET start == FirstStart + i * WindowWidth
                        IN  /\ NameAt(start + WindowWidth - 1) = NameAt(start)
                            /\ Before(NameAt(start), NameAt(start + WindowWidth))
      BY DEF WindowsNamedApart
    <3> DEFINE W == WindowWidth
               start == FirstStart + i * W
               after == FirstStart + (i + 1) * W
    <3>1. W \in Nat /\ W >= 60 /\ i \in Nat /\ i + 1 \in Nat
      BY WidthAssumption, SMT DEF SecondsPerDay
    <3>2. /\ start \in Nat
          /\ \A r \in 0 .. W - 1 : AlignedWindowStart(days - 1, start + r) = start
      BY <2>5, <3>1, WindowOf
    <3>3. /\ after \in Nat
          /\ \A r \in 0 .. W - 1 : AlignedWindowStart(days - 1, after + r) = after
      <4>1. PICK j \in Nat : j = i + 1
        BY <3>1
      <4>2. /\ FirstStart + j * W \in Nat
            /\ \A r \in 0 .. W - 1 :
                  AlignedWindowStart(days - 1, FirstStart + j * W + r)
                    = FirstStart + j * W
        BY <2>5, <3>1, WindowOf
      <4> QED
        BY <4>1, <4>2
    <3>4. FirstStart \in Nat
      <4>1. 0 \in Nat /\ 0 \in 0 .. WindowWidth - 1
        BY <3>1
      <4>2. FirstStart + 0 * WindowWidth \in Nat /\ 0 * WindowWidth = 0
        BY <2>5, <3>1, <4>1, WindowOf
      <4>3. FirstStart \in Int
        BY <2>5, <3>1, SMT DEF FirstStart, IntoWindow, SecondsPerDay
      <4> QED
        BY <4>2, <4>3
    <3>5. after = start + W
      BY <3>1, <3>4, SMT
    <3> HIDE DEF W, start, after
    <3>6. /\ AlignedWindowStart(days - 1, start + W - 1) = start
          /\ AlignedWindowStart(days - 1, start) = start
          /\ AlignedWindowStart(days - 1, start + W) = start + W
      <4>1. W - 1 \in 0 .. W - 1 /\ 0 \in 0 .. W - 1
            /\ start + (W - 1) = start + W - 1 /\ start + 0 = start
            /\ after + 0 = after
        BY <3>1, <3>2, <3>3
      <4>2. AlignedWindowStart(days - 1, start + (W - 1)) = start
        BY <3>2, <4>1
      <4>3. AlignedWindowStart(days - 1, start + 0) = start
        BY <3>2, <4>1
      <4>4. AlignedWindowStart(days - 1, after + 0) = after
        BY <3>3, <4>1
      <4> QED
        BY <3>5, <4>1, <4>2, <4>3, <4>4
    <3>7. NameAt(start + W - 1) = NameAt(start)
      BY <3>6 DEF NameAt
    <3> DEFINE D == days - 1 + start \div SecondsPerDay
               E == days - 1 + (start + W) \div SecondsPerDay
               s == start % SecondsPerDay
               t == (start + W) % SecondsPerDay
    <3>8. /\ NameAt(start) = FormatWindowTimestamp(D, s)
          /\ NameAt(start + W) = FormatWindowTimestamp(E, t)
      BY <3>6 DEF NameAt
    <3>9. /\ D \in Nat /\ E \in Nat /\ s \in Nat /\ t \in Nat
          /\ D < E \/ (D = E /\ s + 60 <= t)
      <4>1. /\ start \div 86400 \in Nat /\ (start + W) \div 86400 \in Nat
            /\ start % 86400 \in Nat /\ (start + W) % 86400 \in Nat
            /\ \/ start \div 86400 < (start + W) \div 86400
               \/ /\ start \div 86400 = (start + W) \div 86400
                  /\ (start % 86400) + 60 <= (start + W) % 86400
        BY <3>1, <3>2, SMT
      <4> QED
        BY <2>5, <4>1, SMT DEF SecondsPerDay
    <3>10. Before(NameAt(start), NameAt(start + W))
      <4> HIDE DEF D, E, s, t
      <4>1. Before(FormatWindowTimestamp(D, s), FormatWindowTimestamp(E, t))
        BY <3>9, NamesInOrder
      <4> QED
        BY <3>8, <4>1
    <3> QED
      BY <3>7, <3>10 DEF W, start
  <2> QED
    BY <2>4, <2>6 DEF WindowNamesExact
<1> QED
  BY <1>1, <1>2, CalendarStep, PTL DEF CalendarSpec
=============================================================================
