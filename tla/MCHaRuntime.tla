---------------------------- MODULE MCHaRuntime -----------------------------
(* Instances of HaRuntime for TLC. *)
EXTENDS HaRuntime, TLC

IdSymmetry == Permutations(Ids)
=============================================================================
