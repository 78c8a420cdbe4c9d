---------------------------- MODULE MCJobServer ----------------------------
(***************************************************************************)
(* JobServer for TLC: the handler threads are interchangeable.  One mix    *)
(* has every request but no failing transfer, the other failing transfers  *)
(* and nobody who withdraws a plan or submits it again.                    *)
(***************************************************************************)
EXTENDS JobServer, TLC

Mixes == {AllServerOps \ {"rollback"}, {"submit", "pickup", "rollback", "jobs"}}

ThreadSymmetry == Permutations(Threads)
=============================================================================
