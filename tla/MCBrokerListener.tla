------------------------- MODULE MCBrokerListener -------------------------
(***************************************************************************)
(* Model-checking instance of BrokerListener.                              *)
(***************************************************************************)
EXTENDS BrokerListener
=============================================================================
