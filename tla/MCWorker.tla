------------------------------ MODULE MCWorker ------------------------------
(***************************************************************************)
(* Instances of Worker for TLC.  The worker is one process, as deployed    *)
(* (replicas: 1); nothing tells one topic from another.                    *)
(***************************************************************************)
EXTENDS Worker, TLC

Symmetry == Permutations(Topics)
=============================================================================
