--------------------------- MODULE MCTunerRound -----------------------------
(* Instances of the tuner for TLC. *)
EXTENDS TunerRound

\* Two cohorts: the first has two parts and the second one, all of the first
\* window, so a round of the first cohort can end between two parts.
MCParts == 1..3
MCPartCohort == <<1, 1, 2>>
MCTwoInAWindow == <<0, 0, 0>>

\* One cohort with one part.
MCOnePart == {1}
MCOnePartCohort == <<1>>
MCOnePartWindow == <<0>>

\* A configuration, and changes of what is measured, of where it is measured
\* and of the target.
MCBase == [shape |-> "s1", place |-> "p1", target |-> "t1"]
MCShape == [shape |-> "s2", place |-> "p1", target |-> "t1"]
MCPlace == [shape |-> "s1", place |-> "p2", target |-> "t1"]
MCTarget == [shape |-> "s1", place |-> "p1", target |-> "t2"]
MCAllConfigs == {MCBase, MCShape, MCPlace, MCTarget}
MCTwoConfigs == {MCBase, MCPlace}
MCOneConfig == {MCBase}
=============================================================================
