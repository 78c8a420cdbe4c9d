---------------------------- MODULE MCJobSystem ----------------------------
(* JobSystem for TLC: the worker threads are interchangeable.               *)
EXTENDS JobSystem, TLC

WorkerSymmetry == Permutations(Workers)
=============================================================================
