--------------------------- MODULE MCSubmitClient ---------------------------
(* SubmitClient for TLC, with interchangeable workers and clients.           *)
EXTENDS SubmitClient, TLC

WorkerSymmetry == Permutations(Workers)
ActorSymmetry  == Permutations(Workers) \cup Permutations(Clients)
=============================================================================
