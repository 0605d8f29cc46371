------------------------ MODULE MCBrokerServerThreads ------------------------
(***************************************************************************)
(* BrokerServerThreads on small instances.                                 *)
(***************************************************************************)
EXTENDS BrokerServerThreads

CONSTANTS s1, s2, b1

TwoSessions == {s1, s2}
OneBroker == {b1}
=============================================================================
