------------------------- MODULE MCApprovalDecision -------------------------
(***************************************************************************)
(* Model-checking instance of ApprovalDecision.                            *)
(***************************************************************************)
EXTENDS ApprovalDecision, TLC

Symmetry == Permutations(Threads) \cup Permutations(Challenges)
                \cup Permutations(Requests) \cup Permutations(Operators)
=============================================================================
