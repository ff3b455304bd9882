------------------------- MODULE MCNamespaceOpening -------------------------
(* Two processes of one authority, and one of another. *)
EXTENDS NamespaceOpening, TLC

CONSTANTS a, b, p, q, r, h1, h2

MCWanted == [x \in Procs |-> IF x = r THEN b ELSE a]

Alike == Permutations({p, q}) \cup Permutations({h1, h2})
=============================================================================
