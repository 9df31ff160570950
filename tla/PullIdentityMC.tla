-------------------------- MODULE PullIdentityMC --------------------------
(***************************************************************************)
(* PullIdentity with interchangeable runs and identities.                  *)
(***************************************************************************)
EXTENDS PullIdentity, TLC

MCSymmetry == Permutations(Runs) \cup Permutations(Ids)
==========================================================================
