---------------------------- MODULE CohortNames -----------------------------
(***************************************************************************)
(* Cohort names: the grammar as the core library checks it, and what rests *)
(* on it, the keys under which the collector stores a cohort's segments    *)
(* and the prefixes by which the tuner lists them.                         *)
(*                                                                         *)
(* A name is a sequence of segments, a path a sequence of components.  A   *)
(* segment is a token; its length and what it is made of are constants.    *)
(***************************************************************************)
EXTENDS ByteSums, Sequences, SequencesExt

CONSTANTS
    Segments,           \* tokens between slashes
    SegmentBytes,       \* their lengths
    Dots,               \* the tokens . and ..
    Windows,            \* the tokens that start with window=
    Foreign,            \* tokens with a byte outside of the alphabet
    OpenWindows,        \* the windows frames are stored in, among Windows
    MaxNameBytes, MaxSegments, MaxSegmentBytes,
    MaxObjects          \* bound: segments stored

\* Frames are stored in windows only, and no segment file is named as one.
ASSUME NamesAssumption ==
    /\ SegmentBytes \in [Segments -> Nat]
    /\ MaxSegmentBytes \in Nat /\ MaxSegments \in Nat
    /\ OpenWindows \subseteq Windows
    /\ "part" \notin Windows

VARIABLE objects        \* stored segments: path, and the cohort and window

Bounded(n) == UNION {[1 .. m -> Segments] : m \in 1 .. n}
NameBytes(name) ==
    ByteSum(DOMAIN name, [i \in DOMAIN name |-> SegmentBytes[name[i]]])
    + Len(name) - 1

\* Mutant: the window marker is an ordinary segment.
ValidateSegmentUnreserved(s) ==
    /\ SegmentBytes[s] \in 1 .. MaxSegmentBytes
    /\ s \notin Dots
    /\ s \notin Foreign

(* validate_segment *)
ValidateSegment(s) ==
    /\ SegmentBytes[s] # 0
    /\ SegmentBytes[s] <= MaxSegmentBytes
    /\ s \notin Dots
    /\ s \notin Windows
    /\ s \notin Foreign

(* validate_cohort_name; a non-ASCII name has a foreign segment. *)
ValidateCohortName(name) ==
    /\ NameBytes(name) # 0
    /\ NameBytes(name) <= MaxNameBytes
    /\ Len(name) <= MaxSegments
    /\ \A i \in DOMAIN name : ValidateSegment(name[i])

(* object_key, and the prefix that list_source_objects lists. *)
ObjectKey(name, w, part) == <<"cohorts">> \o name \o <<w, part>>
ListPrefix(name, w) == <<"cohorts">> \o name \o <<w>>
Listed(name, w) == {o \in objects : IsPrefix(ListPrefix(name, w), o.path)}

-----------------------------------------------------------------------------
NamesInit == objects = {}

(* A name reaches a collector in a frame, of the SDK or of a client of another
   make; the collector drops the frame or stores a segment of its cohort. *)
Capture(name, w) ==
    /\ Cardinality(objects) < MaxObjects
    /\ objects' = IF ValidateCohortName(name)
                  THEN objects \cup {[path |-> ObjectKey(name, w, "part"),
                                      name |-> name, window |-> w]}
                  ELSE objects

NamesNext ==
    \E name \in Bounded(MaxSegments + 1), w \in OpenWindows : Capture(name, w)

NamesSpec == NamesInit /\ [][NamesNext]_objects

-----------------------------------------------------------------------------
(* A tuner that lists a cohort's window finds this cohort's segments of this
   window and no others, though one cohort's name may begin another's, and
   its next segment may read as the name of a window's directory. *)
NamesKeptApart ==
    \A o, p \in objects :
        o \in Listed(p.name, p.window)
            <=> o.name = p.name /\ o.window = p.window
=============================================================================
