----------------------------- MODULE MCExecutor -----------------------------
(* Instances of Executor for TLC.                                          *)
EXTENDS Executor, TLC

CONSTANTS j1, j2, r1, r2

\* Two stages; the second step of the first runs in a container.
TwoStages == << <<FALSE, TRUE>>, <<FALSE>> >>
OneStage == << <<FALSE, TRUE>> >>
OneStep == << <<TRUE>> >>

Symmetry == Permutations(Runs) \union Permutations(Jobs)
=============================================================================
