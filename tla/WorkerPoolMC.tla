---------------------------- MODULE WorkerPoolMC ----------------------------
(***************************************************************************)
(* Instances of WorkerPool for TLC.                                        *)
(***************************************************************************)
EXTENDS WorkerPool, TLC

CONSTANTS a, b
=============================================================================
