-------------------------- MODULE MCRegistrySweep ---------------------------
(* RegistrySweep for TLC: interchangeable helper threads.                   *)
EXTENDS RegistrySweep, TLC

HelperSymmetry == Permutations(Helpers)
=============================================================================
