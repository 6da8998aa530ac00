------------------------------ MODULE MCOutput ------------------------------
(* An instance of Output for TLC.                                          *)
EXTENDS Output

CONSTANT w1
=============================================================================
