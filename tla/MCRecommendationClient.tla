----------------------- MODULE MCRecommendationClient -----------------------
(***************************************************************************)
(* The recommendation client: one cohort that may be published and two     *)
(* more names, two threads and room for one entry.                         *)
(***************************************************************************)
EXTENDS RecommendationClient, TLC

Valid(ef) == [stored |-> TRUE, bytes |-> 1, json |-> TRUE, format_version |-> 1,
              own_cohort |-> TRUE, effective |-> {ef}]
MCArtifacts == {Valid(40), Valid(80)}

\* No definition tells one thread from another.
ThreadSymmetry == Permutations(Threads)
=============================================================================
