---------------------------- MODULE MCWakeCycle -----------------------------
(* Instances of WakeCycle for TLC. *)
EXTENDS WakeCycle, TLC

FrameSymmetry == Permutations(Frames)
=============================================================================
