-------------------------- MODULE MCApprovalStore --------------------------
(***************************************************************************)
(* Model-checking instances of ApprovalStore.                              *)
(***************************************************************************)
EXTENDS ApprovalStore, TLC

Symmetry == Permutations(Processes) \cup Permutations(Requests)
                \cup Permutations(Digests) \cup Permutations(Actors)
=============================================================================
