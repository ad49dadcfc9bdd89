--------------------------- MODULE MCBrokerProcess ---------------------------
(* Instances of BrokerProcess for TLC.                                     *)
EXTENDS BrokerProcess, TLC
CONSTANTS p1, p2
TwoPids == {p1, p2}
=============================================================================
