-------------------------- MODULE MCProxyBridge --------------------------
(***************************************************************************)
(* Model-checking instance of ProxyBridge.                                 *)
(***************************************************************************)
EXTENDS ProxyBridge
=============================================================================
