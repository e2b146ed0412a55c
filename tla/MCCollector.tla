---------------------------- MODULE MCCollector -----------------------------
(***************************************************************************)
(* Collector for TLC.                                                      *)
(***************************************************************************)
EXTENDS Collector, TLC

CONSTANTS f1, f2, f3, f4, big, small, c1, c2

\* f1 and f2 share a cohort that holds only one of them at a time; f4 with one
\* of them fills the live budget of 5 exactly, f3 does not.
MCCohortOf == f1 :> big @@ f2 :> big @@ f3 :> small @@ f4 :> small
MCRecordBytes == f1 :> 2 @@ f2 :> 2 @@ f3 :> 1 @@ f4 :> 3

Only(fn) == [f \in Frames |-> fn[f]]
MCCohort == Only(MCCohortOf)
MCBytes == Only(MCRecordBytes)

Interchangeable == Permutations(Conns)
=============================================================================
