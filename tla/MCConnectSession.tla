------------------------- MODULE MCConnectSession -------------------------
(***************************************************************************)
(* Model-checking instance of ConnectSession.                              *)
(***************************************************************************)
EXTENDS ConnectSession, TLC

Symmetry == Permutations(Conns) \cup Permutations(Handles) \cup Permutations(Subjects)
=============================================================================
