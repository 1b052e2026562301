--------------------------- MODULE MCStreamSession ---------------------------
(* Instances of StreamSession for TLC.                                     *)
EXTENDS StreamSession, TLC

StartSymmetry == Permutations(Starts)
=============================================================================
