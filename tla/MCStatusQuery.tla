---------------------------- MODULE MCStatusQuery ---------------------------
(* Instances of StatusQuery for TLC.                                       *)
EXTENDS StatusQuery

CONSTANTS c1, c2
=============================================================================
