----------------------------- MODULE MCUdpPool -----------------------------
(* Instances of UdpPool for TLC.                                           *)
EXTENDS UdpPool, TLC

CONSTANTS q1, q2, a, b

MCAsks == (q1 :> a) @@ (q2 :> b)
=============================================================================
