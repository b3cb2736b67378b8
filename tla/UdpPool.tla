------------------------------ MODULE UdpPool ------------------------------
(***************************************************************************)
(* Plain DNS to one upstream over a pool of connected UDP sockets: each    *)
(* query picks a socket at random, a reply is matched to its query by      *)
(* transaction id and question, a socket is retired after a random number  *)
(* of queries and closed when the last query on it is done, and the pool   *)
(* is refilled under a lock, one socket per await.                         *)
(*                                                                         *)
(* Source: trench/transport/upstream.py (_UdpSocket, UdpPool,              *)
(* Upstream.query for the scheme udp).  Not here: the case of the name     *)
(* (0x20) and the TCP retry of a truncated answer.                         *)
(*                                                                         *)
(* Everything runs on one event loop, so a step is a stretch of code       *)
(* between two awaits.  The network may lose, delay, reorder and duplicate *)
(* both ways.                                                              *)
(***************************************************************************)
EXTENDS Integers, Sequences, FiniteSets, SequencesExt

CONSTANTS
  Query,      \* tasks that call Upstream.query, one call after another
  Question,
  Asks,       \* query -> the question it carries
  TxId,       \* transaction ids; the code draws from 16 bits
  Size,       \* upstream.udp_source_ports
  Life,       \* queries a socket may carry before it is retired (LIFETIME)
  Sample,     \* sockets looked at when the first is taken: 8
  MaxSocks,   \* bound: sockets opened over a run
  MaxCalls,   \* bound: calls over a run
  None

Sock == 1 .. MaxSocks
Bare == "bare"      \* a reply without a question section (FORMERR)
Reply == Question \cup {Bare}

PoolConstants ==
  /\ Asks \in [Query -> Question]
  /\ Size \in Nat \ {0} /\ Life \subseteq Nat /\ MaxSocks \in Nat /\ MaxCalls \in Nat
  /\ None \notin Query \cup Reply \cup [sock : Sock, id : TxId]
  /\ {"error", "mismatch", "failed"} \cap (Reply \cup {None}) = {}
  /\ Bare \notin Question

VARIABLES
  pc,       \* query -> idle | lock | fill | wait | done
  sent,     \* query -> [sock, id] it is registered under, or None
  fut,      \* query -> its future: None, "error", or a reply
  out,      \* query -> what it returned: a reply, "mismatch", or "failed"
  own,      \* queries whose own reply came while they waited (history)
  evicted,  \* queries whose slot another query's finally took (history)
  sk,       \* socket -> st, left, retired, pending, rejected
  wire,     \* queries sent, and still answerable: [sock, id, question]
  socks,    \* _socks
  fill,     \* the list _ensure is building
  stray,    \* sockets of a list whose task was cancelled (history)
  target,   \* _target
  lockq,    \* tasks at _lock, the holder first
  closed,   \* UdpPool.close has run
  calls     \* calls begun

task == <<pc, sent, fut, out, own, evicted>>
pool == <<socks, fill, stray, target, lockq, closed>>
vars == <<task, sk, wire, pool, calls>>

(* st: "free" not yet opened; "closing" between transport.close() and the  *)
(* connection_lost that the loop calls for it.  retired: pool is None.     *)
Socket == [st : {"free", "open", "closing", "closed"}, left : Int, retired : BOOLEAN,
           pending : [TxId -> Query \cup {None}], rejected : [TxId -> Reply \cup {None}]]
NoOne == [t \in TxId |-> None]

Init ==
  /\ pc = [q \in Query |-> "idle"]
  /\ sent = [q \in Query |-> None]
  /\ fut = [q \in Query |-> None]
  /\ out = [q \in Query |-> None]
  /\ own = {} /\ evicted = {} /\ calls = 0
  /\ sk = [s \in Sock |-> [st |-> "free", left |-> 0, retired |-> FALSE,
                           pending |-> NoOne, rejected |-> NoOne]]
  /\ wire = {}
  /\ socks = {} /\ fill = {} /\ stray = {} /\ target = Size /\ lockq = <<>> /\ closed = FALSE

-----------------------------------------------------------------------------
(* One socket.                                                             *)

Busy(s) == {q \in Query : \E t \in TxId : sk[s].pending[t] = q}

(* error_received, connection_lost: everything waiting there fails.        *)
FailedFuts(s) ==
  [q \in Query |-> IF q \in Busy(s) /\ fut[q] = None THEN "error" ELSE fut[q]]
Emptied(x) == [x EXCEPT !.pending = NoOne, !.rejected = NoOne]

(* forget                                                                  *)
Forgot(x, t) == [x EXCEPT !.pending[t] = None, !.rejected[t] = None]

(* finally in UdpPool.query: the last query on a retired socket closes it. *)
Left_Open(x, t) == Forgot(x, t)   \* mutant: a retired socket is never closed

Left(x, t) ==
  LET y == Forgot(x, t) IN
  IF y.retired /\ y.pending = NoOne /\ y.st = "open"
  THEN [y EXCEPT !.st = "closing"] ELSE y

-----------------------------------------------------------------------------
(* The task of a query.                                                    *)

Return(q, r) ==
  /\ pc' = [pc EXCEPT ![q] = "done"]
  /\ out' = [out EXCEPT ![q] = r]
  /\ sent' = [sent EXCEPT ![q] = None]
  /\ fut' = [fut EXCEPT ![q] = None]
  /\ UNCHANGED own

Released(q) == RemoveFirst(lockq, q)

(* UdpPool.query after _ensure, to its first await: k the sockets, S the   *)
(* pool, t the id, first the socket drawn.                                 *)
Choice(k, S, t, first) ==
  IF k[first].pending[t] = None THEN {first}
  ELSE UNION {{s \in T : k[s].pending[t] = None} :
              T \in kSubset(Min({Sample, Cardinality(S)}), S)}

Worn(x) == x.left <= 1

(* What is left of the pool S: a worn socket leaves it at once.            *)
Kept(k, S, s) == IF Worn(k[s]) THEN S \ {s} ELSE S

Register(q, k, s, t) ==
  /\ sk' = [k EXCEPT ![s].left = @ - 1, ![s].retired = @ \/ Worn(k[s]),
                     ![s].pending[t] = q]
  /\ pc' = [pc EXCEPT ![q] = "wait"]
  /\ sent' = [sent EXCEPT ![q] = [sock |-> s, id |-> t]]
  /\ fut' = [fut EXCEPT ![q] = None]
  /\ out' = [out EXCEPT ![q] = None]
  /\ own' = own \ {q} /\ evicted' = evicted \ {q}
  /\ wire' = IF k[s].st = "open"
             THEN wire \cup {[sock |-> s, id |-> t, question |-> Asks[q]]} ELSE wire

Pick(q, k, S) ==
  \E t \in TxId, first \in S :
    LET C == Choice(k, S, t, first) IN
    \/ /\ C = {}
       /\ Return(q, "failed")
       /\ sk' = k /\ socks' = S
       /\ UNCHANGED <<wire, evicted>>
    \/ \E s \in C :
         /\ Register(q, k, s, t)
         /\ socks' = Kept(k, S, s)

Full == Cardinality(socks) >= target

(* A call that finds the pool full picks at once; another queues at _lock. *)
Start(q) ==
  /\ pc[q] \in {"idle", "done"} /\ calls < MaxCalls
  /\ calls' = calls + 1
  /\ IF Full THEN Pick(q, sk, socks) /\ UNCHANGED lockq
     ELSE /\ pc' = [pc EXCEPT ![q] = "lock"]
          /\ out' = [out EXCEPT ![q] = None]
          /\ lockq' = Append(lockq, q)
          /\ UNCHANGED <<sent, fut, own, evicted, sk, wire, socks>>
  /\ UNCHANGED <<fill, stray, target, closed>>

(* The lock is ours: another task may have refilled the pool meanwhile.    *)
Locked(q) ==
  /\ pc[q] = "lock" /\ Head(lockq) = q
  /\ IF Full THEN Pick(q, sk, socks) /\ lockq' = Released(q) /\ UNCHANGED fill
     ELSE /\ pc' = [pc EXCEPT ![q] = "fill"]
          /\ fill' = socks
          /\ UNCHANGED <<sent, fut, out, own, evicted, sk, wire, socks, lockq>>
  /\ UNCHANGED <<stray, target, closed, calls>>

(* One create_datagram_endpoint has returned.  After the last the list     *)
(* becomes the pool, and the query picks from it.                          *)
Opened(q) ==
  /\ pc[q] = "fill"
  /\ \E s \in Sock, n \in Life :
       LET k == [sk EXCEPT ![s].st = "open", ![s].left = n]
           f == fill \cup {s}
       IN /\ sk[s].st = "free" /\ \A r \in 1 .. s - 1 : sk[r].st # "free"
          /\ IF Cardinality(f) = Size
             THEN Pick(q, k, f) /\ fill' = {} /\ lockq' = Released(q)
             ELSE /\ sk' = k /\ fill' = f
                  /\ UNCHANGED <<task, wire, socks, lockq>>
  /\ UNCHANGED <<stray, target, closed, calls>>

(* Out of descriptors: with nothing open the query fails, otherwise the    *)
(* pool settles for what there is.                                         *)
OpenFails(q) ==
  /\ pc[q] = "fill"
  /\ IF fill = {} THEN Return(q, "failed") /\ UNCHANGED <<sk, wire, socks, target, evicted>>
     ELSE target' = Cardinality(fill) /\ Pick(q, sk, fill)
  /\ fill' = {}
  /\ lockq' = Released(q)
  /\ UNCHANGED <<stray, closed, calls>>

(* A registered query is done with its socket: finally forgets its id,     *)
(* whoever is registered under it by now.                                  *)
Leave(q) ==
  /\ sk' = [sk EXCEPT ![sent[q].sock] = Left(@, sent[q].id)]
  /\ evicted' = evicted \cup ({sk[sent[q].sock].pending[sent[q].id]} \ {q, None})

(* _check_response: the caller's question, or none at all.                 *)
Checked(q, r) == IF r \in {Asks[q], Bare} THEN r ELSE "mismatch"

(* The future is done: with a reply, or with the error of the socket.      *)
Answered(q) ==
  /\ pc[q] = "wait" /\ fut[q] # None
  /\ Return(q, IF fut[q] = "error" THEN "failed" ELSE Checked(q, fut[q]))
  /\ Leave(q)
  /\ UNCHANGED <<wire, pool, calls>>

(* wait: what was held back is all there is.  A future already done loses  *)
(* its result to the timer; its id was forgotten with all held under it,   *)
(* and the loop reads no datagram before the task that was woken runs.     *)
Held(q) == IF fut[q] = None THEN sk[sent[q].sock].rejected[sent[q].id] ELSE None

Timeout(q) ==
  /\ pc[q] = "wait"
  /\ Return(q, IF Held(q) = None THEN "failed" ELSE Checked(q, Held(q)))
  /\ Leave(q)
  /\ UNCHANGED <<wire, pool, calls>>

(* The task is cancelled: another upstream answered first.                 *)
Cancel(q) ==
  /\ pc[q] \in {"lock", "fill", "wait"}
  /\ Return(q, "failed")
  /\ IF pc[q] = "wait" THEN Leave(q) ELSE UNCHANGED <<sk, evicted>>
  /\ IF pc[q] = "fill" THEN fill' = {} /\ stray' = stray \cup (fill \ socks)
     ELSE UNCHANGED <<fill, stray>>
  /\ lockq' = Released(q)
  /\ UNCHANGED <<wire, socks, target, closed, calls>>

-----------------------------------------------------------------------------
(* The protocol's callbacks.                                               *)

(* datagram_received: a reply to the wrong question is held back.          *)
Matches(q, r) == r \in {Bare, Asks[q]}

Receive(s) ==
  /\ sk[s].st = "open"
  /\ \E m \in {w \in wire : w.sock = s}, bare \in BOOLEAN :
       LET r == IF bare THEN Bare ELSE m.question
           q == sk[s].pending[m.id]
       IN /\ own' = own \cup {p \in Query : /\ pc[p] = "wait" /\ r = Asks[p]
                                           /\ sent[p] = [sock |-> s, id |-> m.id]}
          /\ IF q = None \/ fut[q] # None THEN UNCHANGED <<sk, fut>>
             ELSE IF Matches(q, r)
             THEN /\ sk' = [sk EXCEPT ![s] = Forgot(@, m.id)]
                  /\ fut' = [fut EXCEPT ![q] = r]
             ELSE /\ sk' = [sk EXCEPT ![s].rejected[m.id] = IF @ = None THEN r ELSE @]
                  /\ UNCHANGED fut
  /\ UNCHANGED <<pc, sent, out, evicted, wire, pool, calls>>

(* error_received: an ICMP error fails every query on the socket.          *)
IcmpError(s) ==
  /\ sk[s].st = "open" /\ Busy(s) # {}
  /\ sk' = [sk EXCEPT ![s] = Emptied(@)]
  /\ fut' = FailedFuts(s)
  /\ UNCHANGED <<pc, sent, out, own, evicted, wire, pool, calls>>

(* connection_lost: after our close, or when the transport has failed.     *)
ConnectionLost(s) ==
  /\ sk[s].st \in {"open", "closing"}
  /\ sk' = [sk EXCEPT ![s] = [Emptied(@) EXCEPT !.st = "closed"]]
  /\ socks' = IF sk[s].retired THEN socks ELSE socks \ {s}
  /\ fut' = FailedFuts(s)
  /\ wire' = {w \in wire : w.sock # s}
  /\ UNCHANGED <<pc, sent, out, own, evicted, fill, stray, target, lockq, closed, calls>>

(* UdpPool.close: the forwarder has been replaced.                         *)
Close ==
  /\ ~closed
  /\ closed' = TRUE
  /\ sk' = [s \in Sock |-> IF s \in socks /\ sk[s].st = "open"
                           THEN [sk[s] EXCEPT !.st = "closing"] ELSE sk[s]]
  /\ socks' = {}
  /\ UNCHANGED <<task, wire, fill, stray, target, lockq, calls>>

-----------------------------------------------------------------------------
Step(q) ==
  \/ Locked(q) \/ Opened(q) \/ OpenFails(q) \/ Answered(q) \/ Timeout(q)

Next ==
  \/ \E q \in Query : Start(q) \/ Step(q) \/ Cancel(q)
  \/ \E s \in Sock : Receive(s) \/ IcmpError(s) \/ ConnectionLost(s)
  \/ Close

Spec == Init /\ [][Next]_vars

(* The event loop resumes every task whose await has ended, and every      *)
(* await of a query ends: an endpoint opens or fails, a reply is timed.    *)
LiveSpec == Spec /\ \A q \in Query : WF_vars(Step(q))

-----------------------------------------------------------------------------
(* Properties.                                                             *)

(* What a call of Upstream.query looks like from outside: stray and late   *)
(* replies share its sockets and its transaction ids.                      *)
Caller == [asking |-> {q \in Query : pc[q] \notin {"idle", "done"}},
           result |-> [q \in Query |-> IF out[q] \in Reply \cup {None} THEN out[q] ELSE "failed"]]

(* Every variable holds what its code counterpart can; whoever is pending  *)
(* on a socket under an id is waiting for just that.                       *)
TypeOK ==
  /\ pc \in [Query -> {"idle", "lock", "fill", "wait", "done"}]
  /\ sent \in [Query -> [sock : Sock, id : TxId] \cup {None}]
  /\ fut \in [Query -> Reply \cup {None, "error"}]
  /\ out \in [Query -> Reply \cup {None, "mismatch", "failed"}]
  /\ own \cup evicted \subseteq Query /\ calls \in 0 .. MaxCalls
  /\ sk \in [Sock -> Socket]
  /\ wire \subseteq [sock : Sock, id : TxId, question : Question]
  /\ socks \subseteq Sock /\ fill \cup stray \subseteq Sock
  /\ target \in 1 .. Size
  /\ lockq \in Seq(Query)
  /\ closed \in BOOLEAN
  /\ \A s \in Sock, t \in TxId : LET q == sk[s].pending[t] IN
       q # None => sent[q] = [sock |-> s, id |-> t]

(* A query fails for "a different question" only when its own reply never  *)
(* came in all the time it waited: a late or stray reply under its id does *)
(* not take its slot.  Set apart is a query whose id another query, done   *)
(* with the same one, forgot: see the observations in README.md.           *)
NoSlotStolen ==
  \A q \in Query : out[q] = "mismatch" => q \notin own \/ q \in evicted

(* No socket is left open that nothing would ever close: an open one is in *)
(* the pool, in the list being filled, or a query on it is still running   *)
(* (a retired socket is closed by the last of them).  Set apart are the    *)
(* sockets FixedSet is about.                                              *)
NoSocketLost ==
  \A s \in Sock \ stray : sk[s].st = "open" =>
    \/ s \in socks \cup fill
    \/ \E q \in Query : sent[q] # None /\ sent[q].sock = s

(* "A fixed set of connected UDP sockets" (UdpPool): besides the retired   *)
(* ones, never more than Size of them are open.                            *)
FixedSet == Cardinality({s \in Sock : sk[s].st = "open" /\ ~sk[s].retired}) <= Size
=============================================================================
