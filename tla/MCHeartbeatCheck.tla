-------------------------- MODULE MCHeartbeatCheck --------------------------
(* One or two peers that a heartbeat with and without a sequence number may *)
(* reach.                                                                   *)
EXTENDS HeartbeatCheck

CONSTANTS p1, p2

BareAndOne == {-1, 0}
OnePeer    == <<p1>>
TwoPeers   == <<p1, p2>>
=============================================================================
