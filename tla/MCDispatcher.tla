---------------------------- MODULE MCDispatcher ----------------------------
(* Instances of Dispatcher for TLC: nodes are interchangeable.             *)
EXTENDS Dispatcher, TLC
CONSTANTS n1, n2, n3, j1, c1, c2

Symmetry == Permutations(Keys)
=============================================================================
