---------------------------- MODULE MCBrokerClient ----------------------------
(***************************************************************************)
(* BrokerClient with a bounded number of orders, reports and connections.  *)
(***************************************************************************)
EXTENDS BrokerClient
=============================================================================
