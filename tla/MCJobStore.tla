----------------------------- MODULE MCJobStore -----------------------------
(* Instances of JobStore for TLC.                                          *)
EXTENDS JobStore, TLC

CONSTANTS a, b, c1, c2

Symmetry == Permutations(Names) \union Permutations(Callers)
=============================================================================
