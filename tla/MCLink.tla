------------------------------- MODULE MCLink -------------------------------
(* Instances of Link for TLC.                                              *)
EXTENDS Link, TLC

CONSTANTS k1, k2, j1, j2, c1, c2

\* The first worker may come back once, the second one does not.
OneReturns == [k \in Keys |-> IF k = k1 THEN 2 ELSE 1]
NoneReturns == [k \in Keys |-> 1]
=============================================================================
