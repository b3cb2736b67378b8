------------------------------- MODULE Stream -------------------------------
(***************************************************************************)
(* DNS over a persistent TCP or TLS connection to one upstream: many       *)
(* queries multiplexed over a link by a connection-local message id, a     *)
(* reader that hands each reply to the waiter registered under its id, the *)
(* lock around opening, the per-query timeout, links dropped because they  *)
(* failed or fell silent, up to three attempts per query, cancellation of  *)
(* a query that lost a race, and the close of the upstream when a changed  *)
(* setting replaces it.                                                    *)
(*                                                                         *)
(* Source: trench/transport/upstream.py (_Link, _StreamConn,               *)
(* Upstream._stream, Upstream.query for the schemes tcp and tls,           *)
(* Upstream.close).                                                        *)
(*                                                                         *)
(* Everything runs on one event loop, so a step is a stretch of code       *)
(* between two awaits.  Setting a future's result and the waiting task     *)
(* resuming are two steps.  The peer may answer what it was asked in any   *)
(* order, late, or never, and may drop the connection at any time.         *)
(***************************************************************************)
EXTENDS Naturals, Sequences, FiniteSets, SequencesExt

CONSTANTS
  Query,        \* tasks that call Upstream.query, one call after another
  Question,
  Asks,         \* query -> the question it carries
  MaxCalls,     \* bound: calls over a run
  IdCount,      \* message ids are 0 .. IdCount - 1 (65536 in the code)
  StreamAttempts,
  MaxLinks,     \* bound: connections the peer accepts over a run
  None

Id == 0 .. IdCount - 1
LinkId == 1 .. MaxLinks
Conn == {1, 2}    \* the _StreamConn of before the close, and of after it

Phase == {"idle", "lock", "connect", "wait", "drop", "droptimeout", "done"}
Failed == "failed"
Cancelled == "cancelled"

ASSUME StreamAssumption ==
  /\ Asks \in [Query -> Question]
  /\ MaxCalls \in Nat /\ IdCount \in Nat \ {0}
  /\ StreamAttempts \in Nat \ {0} /\ MaxLinks \in Nat
  /\ None \notin Query \cup Question \cup LinkId \cup Conn \cup (LinkId \X Id)
  /\ {"error", Failed, Cancelled} \cap (Question \cup {None}) = {}

VARIABLES
  pc,       \* query -> where its task is suspended
  conn,     \* query -> the _StreamConn whose query() it is in
  calls,    \* calls begun
  attempt,  \* query -> how many attempts its call has begun
  on,       \* query -> <<link, message id>> it registered, or None
  fut,      \* query -> its future: None, "error", or the question answered
  heard,    \* the waiting queries since whose sending a reply was read
  out,      \* query -> what Upstream.query returned: None, a question, or an error
  link,     \* link -> st, pending, nextId
  asked,    \* link -> requests the peer has not answered
  cur,      \* conn -> _link
  lockq,    \* conn -> tasks at _lock, the holder first
  mine,     \* Upstream._conn, or None
  closing   \* "no", "await" (in _conn.close()), "yes"

task == <<pc, conn, attempt, on, fut, heard, out>>
net == <<link, asked>>
vars == <<task, net, cur, lockq, mine, closing, calls>>

(* st: "free" never opened; "open"; "dead" its reader has failed; "closed" *)
Link == [st : {"free", "open", "dead", "closed"},
         pending : [Id -> Query \cup {None}], nextId : Id]
Fresh == [st |-> "free", pending |-> [i \in Id |-> None], nextId |-> 0]

Init ==
  /\ pc = [q \in Query |-> "idle"]
  /\ conn = [q \in Query |-> None]
  /\ calls = 0
  /\ attempt = [q \in Query |-> 0]
  /\ on = [q \in Query |-> None]
  /\ fut = [q \in Query |-> None]
  /\ heard = {}
  /\ out = [q \in Query |-> None]
  /\ link = [l \in LinkId |-> Fresh]
  /\ asked = [l \in LinkId |-> {}]
  /\ cur = [c \in Conn |-> None]
  /\ lockq = [c \in Conn |-> <<>>]
  /\ mine = None
  /\ closing = "no"

-----------------------------------------------------------------------------
(* One link.                                                               *)

Usable(l) == l # None /\ link[l].st = "open"

(* _fail: every future still waiting gets the error.                       *)
Waiting(l) == {q \in Query : \E i \in Id : link[l].pending[i] = q}
FailedFuts(l) ==
  [q \in Query |-> IF q \in Waiting(l) /\ fut[q] = None THEN "error" ELSE fut[q]]

(* The synchronous part of _Link.close; wait_closed is the await after it. *)
ClosedLink(l) == [link EXCEPT ![l].st = "closed", ![l].pending = [i \in Id |-> None]]

(* alloc_id: the first id after nextId that nobody waits on.               *)
Free(l) == {i \in Id : link[l].pending[i] = None}
Offset(l, i) == (i + IdCount - link[l].nextId - 1) % IdCount

AllocId(l) == CHOOSE i \in Free(l) : \A j \in Free(l) : Offset(l, i) <= Offset(l, j)

(* finally: link.pending.pop(mid, None)                                    *)
Popped(lk, q) == [lk EXCEPT ![on[q][1]].pending[on[q][2]] = None]

-----------------------------------------------------------------------------
(* The task of a query.                                                    *)

Return(q, r) ==
  /\ pc' = [pc EXCEPT ![q] = "done"]
  /\ out' = [out EXCEPT ![q] = r]
  /\ on' = [on EXCEPT ![q] = None]
  /\ fut' = [fut EXCEPT ![q] = None]
  /\ heard' = heard \ {q}
  /\ attempt' = [attempt EXCEPT ![q] = 0]
  /\ conn' = [conn EXCEPT ![q] = None]

Enter(q, c, n) ==
  /\ pc' = [pc EXCEPT ![q] = "lock"]
  /\ conn' = [conn EXCEPT ![q] = c]
  /\ attempt' = [attempt EXCEPT ![q] = n]
  /\ out' = [out EXCEPT ![q] = None]
  /\ on' = [on EXCEPT ![q] = None]
  /\ fut' = [fut EXCEPT ![q] = None]
  /\ heard' = heard \ {q}
  /\ lockq' = [lockq EXCEPT ![c] = Append(@, q)]

Released(c, q) == [lockq EXCEPT ![c] = RemoveFirst(@, q)]

Raise(q) == Return(q, Failed) /\ UNCHANGED lockq

(* _stream: the first call makes the _StreamConn.                          *)
Start(q) ==
  /\ pc[q] \in {"idle", "done"} /\ calls < MaxCalls
  /\ calls' = calls + 1
  /\ LET c == IF mine # None THEN mine ELSE IF closing = "yes" THEN 2 ELSE 1
     IN mine' = c /\ Enter(q, c, 1)
  /\ UNCHANGED <<net, cur, closing>>

(* Next round of the for loop, or its end.  A query whose upstream was     *)
(* closed meanwhile finds _conn None.                                      *)
Again(q) ==
  IF attempt[q] < StreamAttempts /\ mine # None THEN Enter(q, mine, attempt[q] + 1)
  ELSE Raise(q)

(* query() from the return of _current to its first await, on link l.      *)
Send(q, l, lk) ==
  IF Free(l) = {}
  THEN Return(q, Failed) /\ link' = lk /\ UNCHANGED asked
  ELSE LET i == AllocId(l) IN
       /\ pc' = [pc EXCEPT ![q] = "wait"]
       /\ on' = [on EXCEPT ![q] = <<l, i>>]
       /\ fut' = [fut EXCEPT ![q] = None]
       /\ link' = [lk EXCEPT ![l].pending[i] = q, ![l].nextId = i]
       /\ asked' = [asked EXCEPT ![l] = @ \cup {<<i, Asks[q]>>}]
       /\ UNCHANGED <<conn, attempt, heard, out>>

AtLock(q) == pc[q] = "lock" /\ Head(lockq[conn[q]]) = q

(* _current with a usable link: the lock is taken and released at once.    *)
Reuse(q) ==
  /\ AtLock(q)
  /\ LET c == conn[q] IN
       /\ Usable(cur[c])
       /\ Send(q, cur[c], link)
       /\ lockq' = Released(c, q)
  /\ UNCHANGED <<cur, mine, closing, calls>>

(* _current without one: what is left of the old link is closed first.     *)
Open(q) ==
  /\ AtLock(q)
  /\ LET l == cur[conn[q]] IN
       /\ ~Usable(l)
       /\ link' = IF l = None THEN link ELSE ClosedLink(l)
       /\ fut' = IF l = None THEN fut ELSE FailedFuts(l)
  /\ pc' = [pc EXCEPT ![q] = "connect"]
  /\ UNCHANGED <<conn, attempt, on, heard, out, asked, cur, lockq, mine, closing, calls>>

Connected(q) ==
  /\ pc[q] = "connect"
  /\ \E l \in LinkId :
       /\ link[l].st = "free" /\ \A k \in 1 .. l - 1 : link[k].st # "free"
       /\ Send(q, l, [link EXCEPT ![l].st = "open"])
       /\ cur' = [cur EXCEPT ![conn[q]] = l]
  /\ lockq' = Released(conn[q], q)
  /\ UNCHANGED <<mine, closing, calls>>

ConnectFails_Holding(q) ==   \* mutant: the lock is not released
  /\ pc[q] = "connect"
  /\ Again(q)
  /\ UNCHANGED <<net, cur, mine, closing, calls>>

(* Refused, or reset in the handshake: leaves the lock, and tries again.   *)
ConnectFails(q) ==
  /\ pc[q] = "connect"
  /\ IF attempt[q] < StreamAttempts /\ mine # None
     THEN /\ pc' = [pc EXCEPT ![q] = "lock"]
          /\ conn' = [conn EXCEPT ![q] = mine]
          /\ attempt' = [attempt EXCEPT ![q] = @ + 1]
          /\ lockq' = [Released(conn[q], q) EXCEPT ![mine] = Append(@, q)]
          /\ UNCHANGED <<on, fut, heard, out>>
     ELSE Return(q, Failed) /\ lockq' = Released(conn[q], q)
  /\ UNCHANGED <<net, cur, mine, closing, calls>>

(* wait_for around open_connection: a TimeoutError is not retried.         *)
ConnectTimesOut(q) ==
  /\ pc[q] = "connect"
  /\ Return(q, Failed)
  /\ lockq' = Released(conn[q], q)
  /\ UNCHANGED <<net, cur, mine, closing, calls>>

(* _drop, up to the await of wait_closed.                                  *)
Dropped(q, c, l) == [cur EXCEPT ![c] = IF @ = l THEN None ELSE @]

Drop(q, then) ==
  LET l == on[q][1] IN
  /\ cur' = Dropped(q, conn[q], l)
  /\ link' = ClosedLink(l)
  /\ fut' = FailedFuts(l)
  /\ pc' = [pc EXCEPT ![q] = then]
  /\ UNCHANGED <<conn, attempt, on, heard, out, asked, lockq, mine, closing, calls>>

(* _check_response: is it the question we asked?                           *)
CheckResponse(q) == fut[q] = Asks[q]

(* The future has its reply.                                               *)
Answered(q) ==
  /\ pc[q] = "wait" /\ fut[q] \in Question
  /\ Return(q, IF CheckResponse(q) THEN fut[q] ELSE Failed)
  /\ link' = Popped(link, q)
  /\ UNCHANGED <<asked, cur, lockq, mine, closing, calls>>

(* The future has the error of its link.                                   *)
LinkLost(q) == pc[q] = "wait" /\ fut[q] = "error" /\ Drop(q, "drop")

(* The budget of the query is spent.  A link that brought no reply in all  *)
(* that time is dropped.                                                   *)
SilentLink_Always(q) == TRUE   \* mutant: a slow answer costs the connection

SilentLink(q) == q \notin heard

Timeout(q) ==
  /\ pc[q] = "wait"
  /\ IF SilentLink(q) THEN Drop(q, "droptimeout")
     ELSE /\ Return(q, Failed)
          /\ link' = Popped(link, q)
          /\ UNCHANGED <<asked, cur, lockq, mine, closing, calls>>

(* wait_closed has returned in _drop; then finally, and the caller's loop. *)
AfterDrop(q) ==
  /\ pc[q] \in {"drop", "droptimeout"}
  /\ link' = Popped(link, q)
  /\ IF pc[q] = "drop" THEN Again(q) ELSE Raise(q)
  /\ UNCHANGED <<asked, cur, mine, closing, calls>>

(* The task is cancelled: another upstream answered first.                 *)
Cancel(q) ==
  /\ pc[q] \notin {"idle", "done"}
  /\ Return(q, Cancelled)
  /\ link' = IF on[q] = None THEN link ELSE Popped(link, q)
  /\ lockq' = Released(conn[q], q)
  /\ UNCHANGED <<asked, cur, mine, closing, calls>>

-----------------------------------------------------------------------------
(* The reader of a link, and its peer.                                     *)

(* A reply arrives: whoever is registered under its id has it.             *)
Receive(l) ==
  /\ link[l].st = "open"
  /\ \E r \in asked[l] :
       LET q == link[l].pending[r[1]] IN
       /\ asked' = [asked EXCEPT ![l] = @ \ {r}]
       /\ link' = [link EXCEPT ![l].pending[r[1]] = None]
       /\ fut' = IF q # None /\ fut[q] = None THEN [fut EXCEPT ![q] = r[2]] ELSE fut
  /\ heard' = heard \cup {q \in Query : pc[q] = "wait" /\ on[q][1] = l}
  /\ UNCHANGED <<pc, conn, attempt, on, out, cur, lockq, mine, closing, calls>>

(* The peer drops the connection, and the reader fails every waiter.       *)
PeerDrops(l) ==
  /\ link[l].st = "open"
  /\ link' = [link EXCEPT ![l].st = "dead", ![l].pending = [i \in Id |-> None]]
  /\ fut' = FailedFuts(l)
  /\ asked' = [asked EXCEPT ![l] = {}]
  /\ UNCHANGED <<pc, conn, attempt, on, heard, out, cur, lockq, mine, closing, calls>>

-----------------------------------------------------------------------------
(* Upstream.close: the forwarder has been replaced.                        *)

CloseBegin ==
  /\ closing = "no"
  /\ IF mine # None /\ cur[mine] # None
     THEN LET l == cur[mine] IN
          /\ closing' = "await"
          /\ cur' = [cur EXCEPT ![mine] = None]
          /\ link' = ClosedLink(l) /\ fut' = FailedFuts(l)
          /\ UNCHANGED mine
     ELSE /\ closing' = "yes" /\ mine' = None
          /\ UNCHANGED <<cur, link, fut>>
  /\ UNCHANGED <<pc, conn, attempt, on, heard, out, asked, lockq, calls>>

CloseEnd ==
  /\ closing = "await"
  /\ closing' = "yes" /\ mine' = None
  /\ UNCHANGED <<task, net, cur, lockq, calls>>

-----------------------------------------------------------------------------
Step(q) ==
  \/ Reuse(q) \/ Open(q) \/ Connected(q) \/ ConnectFails(q) \/ ConnectTimesOut(q)
  \/ Answered(q) \/ LinkLost(q) \/ Timeout(q) \/ AfterDrop(q)

Next ==
  \/ \E q \in Query : Start(q) \/ Step(q) \/ Cancel(q)
  \/ \E l \in LinkId : Receive(l) \/ PeerDrops(l)
  \/ CloseBegin \/ CloseEnd

Spec == Init /\ [][Next]_vars

(* The event loop resumes every task whose await has ended, and every      *)
(* await of a query is bounded by a timer.                                 *)
LiveSpec == Spec /\ \A q \in Query : WF_vars(Step(q))

-----------------------------------------------------------------------------
(* Properties.                                                             *)

(* What a call of Upstream.query looks like from outside: message ids are  *)
(* reused, and the reply to a query that gave up may come while another    *)
(* query waits under its id.                                               *)
StreamCaller == [asking |-> {q \in Query : pc[q] \notin {"idle", "done"}},
           result |-> [q \in Query |-> IF out[q] \in Question \cup {None} THEN out[q] ELSE "failed"]]

(* Every variable holds what its code counterpart can; a query registered  *)
(* on a link is one that is waiting there or is in the finally of its wait.*)
TypeOK ==
  /\ pc \in [Query -> Phase]
  /\ conn \in [Query -> Conn \cup {None}]
  /\ attempt \in [Query -> 0 .. StreamAttempts]
  /\ on \in [Query -> (LinkId \X Id) \cup {None}]
  /\ fut \in [Query -> Question \cup {None, "error"}]
  /\ heard \subseteq Query
  /\ out \in [Query -> Question \cup {None, Failed, Cancelled}]
  /\ link \in [LinkId -> Link]
  /\ asked \in [LinkId -> SUBSET (Id \X Question)]
  /\ cur \in [Conn -> LinkId \cup {None}]
  /\ lockq \in [Conn -> Seq(Query)]
  /\ mine \in Conn \cup {None}
  /\ calls \in 0 .. MaxCalls
  /\ closing \in {"no", "await", "yes"}
  /\ \A l \in LinkId : \A q \in Waiting(l) : on[q] # None /\ on[q][1] = l

(* However many queries find the connection gone at once, one connection   *)
(* is open per _StreamConn, and it is the one its queries use (_current's  *)
(* lock, _drop forgetting only the link it closes).                        *)
OneConnection ==
  \A l \in LinkId : Usable(l) => \E c \in Conn : cur[c] = l

(* A working link outlives the end of every other: it goes only by the     *)
(* peer's doing, by the close of the upstream, or because a query waited   *)
(* its whole time on that very link and no reply was read off it.  (The    *)
(* docstring of _Link tells of the burst of failures there was otherwise.) *)
LinkKept(l) ==
  Usable(l) /\ ~Usable(l)' =>
    \/ link[l]'.st = "dead"
    \/ closing' # closing
    \/ \E q \in Query : /\ pc[q] = "wait" /\ pc[q]' = "droptimeout"
                        /\ on[q][1] = l /\ q \notin heard

WorkingLinkKept == [][\A l \in LinkId : LinkKept(l)]_vars

(* Once the upstream is closed and its last query has returned, it holds   *)
(* no connection (Forwarder.close: "Drop every upstream connection this    *)
(* forwarder owns").                                                       *)
(* The code does not guarantee it: see the observations in README.md.      *)
ClosedHoldsNothing ==
  closing = "yes" /\ (\A q \in Query : pc[q] \in {"idle", "done"})
    => ~Usable(cur[1])
=============================================================================
