------------------------- MODULE MCLaunchSession -------------------------
(***************************************************************************)
(* Model-checking instance of LaunchSession.                               *)
(***************************************************************************)
EXTENDS LaunchSession
=============================================================================
