---------------------------- MODULE MCTransports ----------------------------
(* The two transports to an upstream, for TLC: one connection (Stream) and *)
(* one pool of sockets (UdpPool).  In a behaviour one of them carries the  *)
(* queries, and the other stays in its initial state.                      *)
EXTENDS Stream, TLC

CONSTANTS
  q1, q2, a, b,
  TxId, Size, Life, Sample, MaxSocks,   \* of UdpPool
  MaxUdpCalls

VARIABLES
  part,
  pcU, sent, futU, outU, own, evicted, sk, wire, socks, fill, stray, target, lockqU, closed, callsU

pool == <<pcU, sent, futU, outU, own, evicted, sk, wire, socks, fill, stray, target, lockqU, closed, callsU>>

MCAsks == (q1 :> a) @@ (q2 :> b)

Udp == INSTANCE UdpPool WITH
  MaxCalls <- MaxUdpCalls, pc <- pcU, fut <- futU, out <- outU, lockq <- lockqU, calls <- callsU

ASSUME PoolAssumption == Udp!PoolConstants

MCInit == part \in {"stream", "udp"} /\ Init /\ Udp!Init

StreamMoves == part = "stream" /\ UNCHANGED <<part, pool>>
UdpMoves == part = "udp" /\ UNCHANGED <<part, vars>>

MCNext == (StreamMoves /\ Next) \/ (UdpMoves /\ Udp!Next)
MCStep(q) == (StreamMoves /\ Step(q)) \/ (UdpMoves /\ Udp!Step(q))

MCSpec ==
  /\ MCInit /\ [][MCNext]_<<part, vars, pool>>
  /\ \A q \in Query : WF_<<part, vars, pool>>(MCStep(q))

-----------------------------------------------------------------------------
(* Either transport implements what Upstream.query promises its caller:    *)
(* every call ends, and with the answer to its own question or without one.*)
Caller == IF part = "udp" THEN Udp!Caller ELSE StreamCaller
Promise == INSTANCE Exchange WITH asking <- Caller.asking, result <- Caller.result
TransportsExchange == Promise!Spec

(* Stream keeps one connection, and the pool loses neither a slot to a     *)
(* stray reply nor a socket (_current, datagram_received, UdpPool.query).  *)
LinksSound == TypeOK /\ OneConnection /\ Udp!TypeOK /\ Udp!NoSlotStolen /\ Udp!NoSocketLost
=============================================================================
