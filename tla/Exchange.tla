------------------------------ MODULE Exchange ------------------------------
(***************************************************************************)
(* What Upstream.query (trench/transport/upstream.py) promises its caller, *)
(* whatever the transport: a call ends, and ends with the answer to the    *)
(* question that was asked, with an error reply that repeats no question,  *)
(* or with an exception.  Stream and UdpPool implement it.                 *)
(***************************************************************************)
CONSTANTS
  Query,     \* tasks that call Upstream.query, one call after another
  Asks,      \* query -> the question it carries
  None

VARIABLES
  asking,    \* the queries whose call is running
  result     \* query -> how its last call ended, None while it runs

vars == <<asking, result>>

Init == asking = {} /\ result = [q \in Query |-> None]

Ask(q) ==
  /\ q \notin asking
  /\ asking' = asking \cup {q}
  /\ result' = [result EXCEPT ![q] = None]

Return(q) ==
  /\ q \in asking
  /\ asking' = asking \ {q}
  /\ \E r \in {Asks[q], "bare", "failed"} : result' = [result EXCEPT ![q] = r]

(* A call that ends before its first await.                                *)
Refuse(q) ==
  /\ q \notin asking
  /\ result' = [result EXCEPT ![q] = "failed"]
  /\ UNCHANGED asking

Next == \E q \in Query : Ask(q) \/ Return(q) \/ Refuse(q)

Steps == Init /\ [][Next]_vars
Ends == \A q \in Query : q \in asking ~> q \notin asking
Spec == Steps /\ Ends
=============================================================================
