--------------------------- MODULE MCBrokerServer ---------------------------
(***************************************************************************)
(* BrokerServer on small instances.                                        *)
(***************************************************************************)
EXTENDS BrokerServer

CONSTANTS c1, c2

OneClient == {c1}
TwoClients == {c1, c2}
OneId == {1}
TwoIds == {1, 2}
OneOrTwo == {1, 2}
Two == {2}
=============================================================================
