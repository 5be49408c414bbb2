------------------------------ MODULE MCCatalog ------------------------------
(* Small instances of Catalog. *)
EXTENDS Catalog, TLC

CONSTANTS a, b, s1, s2, v1, v2, n

\* The names of sessions and of tool lists are interchangeable.
Symmetry == Permutations(Sessions) \cup Permutations(Versions)

\* One namespace.
Shared == [u \in Ids |-> n]
=============================================================================
