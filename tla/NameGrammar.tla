---------------------------- MODULE NameGrammar -----------------------------
(***************************************************************************)
(* The grammar of cohort names, written twice: as the regular expression   *)
(* with which the SDK refuses a name before it sends it, and as the code   *)
(* of the core library with which the collector drops a frame and the      *)
(* tuner and the server refuse a name.  A user types a name character by   *)
(* character; each prefix is a name.                                       *)
(***************************************************************************)
EXTENDS Integers, FiniteSets, Sequences, SequencesExt

CONSTANTS
    Characters,     \* what a name is typed from
    Allowed,        \* the characters of [A-Za-z0-9._=-]
    Marker,         \* window=, as a sequence of allowed characters
    CharBytes,      \* a character's length in UTF-8; ASCII is one byte
    LongestName, MostSegments, LongestSegment,
    MaxTyped        \* bound: characters typed

VARIABLE typed      \* the name

-----------------------------------------------------------------------------
(* The regular expression, at a position of the name.                      *)

AtBoundary(i) == i = Len(typed) + 1 \/ typed[i] = "/"

(* A non-empty run of characters of a class, from i up to j. *)
RunOf(class, i, j) == i < j /\ \A k \in i .. j - 1 : typed[k] \in class

MarkerAt(i) == IsPrefix(Marker, SubSeq(typed, i, Len(typed)))

Positions == 1 .. Len(typed) + 1

\* Mutant: what follows the dots is not looked at.
SegmentEndsUndotted(i) ==
    {j \in Positions :
        /\ \E e \in Positions : RunOf(Allowed, i, e) /\ e - i <= LongestSegment
                                /\ AtBoundary(e)
        /\ ~ \E e \in Positions : RunOf({"."}, i, e) /\ e - i <= 2
        /\ ~MarkerAt(i)
        /\ RunOf(Allowed, i, j)}

(* _NAME_SEGMENT_PATTERN matches from i up to j: the lookaheads for a segment
   that is short enough, for . and .. and for window=, and the segment. *)
SegmentEnds(i) ==
    {j \in Positions :
        /\ \E e \in Positions : RunOf(Allowed, i, e) /\ e - i <= LongestSegment
                                /\ AtBoundary(e)
        /\ ~ \E e \in Positions : RunOf({"."}, i, e) /\ e - i <= 2
                                  /\ AtBoundary(e)
        /\ ~MarkerAt(i)
        /\ RunOf(Allowed, i, j)}

(* _NAME_PATTERN: one segment and some more, a slash before each; and the
   length in characters, which is looked at first. *)
NamePatternMatches ==
    LET ends[m \in 0 .. MostSegments - 1] ==
            IF m = 0 THEN SegmentEnds(1)
            ELSE UNION {SegmentEnds(j + 1) :
                            j \in {i \in ends[m - 1] \cap DOMAIN typed :
                                       typed[i] = "/"}}
    IN  /\ Len(typed) <= LongestName
        /\ \E m \in 0 .. MostSegments - 1 : Len(typed) + 1 \in ends[m]

-----------------------------------------------------------------------------
(* The core library's checks.                                              *)

Utf8Length(s) == FoldLeft(LAMBDA n, c : n + CharBytes[c], 0, s)

(* What is between two slashes that follow each other, or an end. *)
SplitAtSlashes(s) ==
    LET cuts == {0, Len(s) + 1} \cup {i \in DOMAIN s : s[i] = "/"}
    IN  {SubSeq(s, p[1] + 1, p[2] - 1) :
            p \in {q \in cuts \X cuts :
                     q[1] < q[2] /\ ~ \E c \in cuts : q[1] < c /\ c < q[2]}}

Slashes(s) == Cardinality({i \in DOMAIN s : s[i] = "/"})

IsValidSegment(s) ==
    /\ s # <<>>
    /\ Utf8Length(s) <= LongestSegment
    /\ s # <<".">> /\ s # <<".", ".">>
    /\ ~IsPrefix(Marker, s)
    /\ \A i \in DOMAIN s : s[i] \in Allowed

IsValidCohortName ==
    /\ typed # <<>>
    /\ Utf8Length(typed) <= LongestName
    /\ \A i \in DOMAIN typed : CharBytes[typed[i]] = 1
    /\ Slashes(typed) + 1 <= MostSegments
    /\ \A s \in SplitAtSlashes(typed) : IsValidSegment(s)

-----------------------------------------------------------------------------
GrammarInit == typed = <<>>

Type(c) == Len(typed) < MaxTyped /\ typed' = Append(typed, c)

GrammarNext == \E c \in Characters : Type(c)

GrammarSpec == GrammarInit /\ [][GrammarNext]_typed

-----------------------------------------------------------------------------
(* The SDK raises for exactly the names whose frames the collector would drop
   without a word to the application: lookaheads that are tried at a position
   and run past a slash or the end agree with checks of whole segments, and a
   length in characters with one in bytes. *)
GrammarsAgree == NamePatternMatches <=> IsValidCohortName
=============================================================================
