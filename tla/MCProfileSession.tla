-------------------------- MODULE MCProfileSession --------------------------
(* An instance of ProfileSession for TLC.                                  *)
EXTENDS ProfileSession, TLC

ProfileSymmetry == Permutations(Profiles)
=============================================================================
