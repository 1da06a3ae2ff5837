---------------------------- MODULE MCWorkerPool ----------------------------
(* The worker pool on small instances.                                     *)
EXTENDS WorkerPool, TLC

ClientSymmetry == Permutations(Clients)
=============================================================================
