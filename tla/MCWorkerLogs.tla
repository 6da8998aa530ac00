---------------------------- MODULE MCWorkerLogs ----------------------------
(* Instances of WorkerLogs for TLC.                                        *)
EXTENDS WorkerLogs

CONSTANTS e1, e2
=============================================================================
