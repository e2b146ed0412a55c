------------------------------ MODULE ByteSums ------------------------------
(***************************************************************************)
(* The total size of a set of sized items.  A sum is written here as the   *)
(* number of bytes the items occupy, one pair <<item, i>> per byte, so that *)
(* the library's theorems about Cardinality apply to it.                   *)
(***************************************************************************)
EXTENDS Integers, FiniteSets

\* The bytes of the items of S: size[x] distinct bytes for every x.
ByteSet(S, size) == UNION {{x} \X (1..size[x]) : x \in S}

\* The sum of size[x] over the items x of S.
ByteSum(S, size) == Cardinality(ByteSet(S, size))
=============================================================================
