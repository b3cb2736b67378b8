----------------------------- MODULE Forwarder -----------------------------
(***************************************************************************)
(* How a forwarding resolver turns several upstreams into one answer: the  *)
(* strategies sequential, parallel and fastest, replies that count as      *)
(* failures, the memory of failures that ranks the upstreams, the losers   *)
(* of a race being cancelled, and any number of queries sharing all that.  *)
(*                                                                         *)
(* Source: trench/resolver/forwarder.py; Upstream.query's bookkeeping in   *)
(* trench/transport/upstream.py (its transports are the modules Stream and *)
(* UdpPool).                                                               *)
(*                                                                         *)
(* A strategy is a sequence of races: sequential races one upstream after  *)
(* another, parallel all at once, fastest the best ranked and, should it   *)
(* fail, all others.                                                       *)
(***************************************************************************)
EXTENDS Naturals, Sequences, FiniteSets, SequencesExt

CONSTANTS
  Query,        \* tasks that call Forwarder.resolve, one call after another
  Group,        \* the sequence of upstreams Router.group_for returns
  Rtt,          \* smoothed round-trip times
  MaxFailures,  \* bound: the count of failures an upstream reaches
  None

Up == ToSet(Group)

(* An empty group is refused before anything is asked.                     *)
ForwarderConstants ==
  /\ Group \in Seq(Up) /\ Group # <<>>
  /\ Rtt \subseteq Nat /\ MaxFailures \in Nat \ {0}
  /\ None \notin Up /\ "failed" \notin Up /\ None # "failed"

VARIABLES
  strategy,
  races,     \* query -> the races still to run, the running one first
  ask,       \* query -> upstream -> no | run | ok | bad | lost (cancelled)
  finished,  \* query -> completed asks the race has not looked at, oldest first
  out,       \* query -> None, the upstream whose answer it returned, "failed"
  noted,     \* query -> the upstream `note` was told, or None
  failures,  \* upstream -> its count
  recent,    \* upstreams whose latest failure is within _FAILURE_MEMORY
  rtt        \* upstream -> smoothed RTT

call == <<races, ask, finished, out, noted>>
health == <<failures, recent, rtt>>
vars == <<strategy, call, health>>

Asleep(q) == races[q] = <<>>
NoAsks == [u \in Up |-> "no"]

Init ==
  /\ strategy \in {"sequential", "parallel", "fastest"}
  /\ races = [q \in Query |-> <<>>]
  /\ ask = [q \in Query |-> NoAsks]
  /\ finished = [q \in Query |-> <<>>]
  /\ out = [q \in Query |-> None]
  /\ noted = [q \in Query |-> None]
  /\ failures = [u \in Up |-> 0]
  /\ recent = {}
  /\ rtt \in [Up -> Rtt]

-----------------------------------------------------------------------------
(* _rank: recent failures first, then the RTT.                             *)
RankedFailures_Lifetime(u) == failures[u]   \* mutant: never forgotten

RankedFailures(u) == IF u \in recent THEN failures[u] ELSE 0

(* sorted() is stable: of equals the first in the group leads.             *)
Place(u) == CHOOSE i \in DOMAIN Group : Group[i] = u
Leads(u, v) ==
  LET f == RankedFailures(u)
      g == RankedFailures(v)
  IN \/ f < g
     \/ f = g /\ rtt[u] < rtt[v]
     \/ f = g /\ rtt[u] = rtt[v] /\ Place(u) < Place(v)
Fastest == CHOOSE u \in Up : \A v \in Up \ {u} : Leads(u, v)

Plan_HeadOnly ==   \* mutant: nowhere to fall back to
  CASE strategy = "sequential" -> [i \in DOMAIN Group |-> {Group[i]}]
    [] strategy = "parallel" -> <<Up>>
    [] strategy = "fastest" -> <<{Fastest}>>

Plan ==
  CASE strategy = "sequential" -> [i \in DOMAIN Group |-> {Group[i]}]
    [] strategy = "parallel" -> <<Up>>
    [] strategy = "fastest" /\ Up = {Fastest} -> <<{Fastest}>>
    [] strategy = "fastest" /\ Up # {Fastest} -> <<{Fastest}, Up \ {Fastest}>>

(* The tasks of a race are made all at once.                               *)
Asking(asks, race) == [u \in Up |-> IF u \in race THEN "run" ELSE asks[u]]

Resolve(q) ==
  /\ Asleep(q)
  /\ races' = [races EXCEPT ![q] = Plan]
  /\ ask' = [ask EXCEPT ![q] = Asking(NoAsks, Head(Plan))]
  /\ out' = [out EXCEPT ![q] = None]
  /\ noted' = [noted EXCEPT ![q] = None]
  /\ UNCHANGED <<strategy, finished, health>>

-----------------------------------------------------------------------------
(* An ask ends.                                                            *)

Ends(q, u, how) ==
  /\ ask[q][u] = "run"
  /\ ask' = [ask EXCEPT ![q][u] = how]
  /\ finished' = [finished EXCEPT ![q] = Append(@, u)]
  /\ UNCHANGED <<strategy, races, out, noted>>

(* Upstream.query returns: the count is cleared and the RTT smoothed.      *)
AskAnswers(q, u) ==
  /\ Ends(q, u, "ok")
  /\ failures' = [failures EXCEPT ![u] = 0]
  /\ \E r \in Rtt : rtt' = [rtt EXCEPT ![u] = r]
  /\ UNCHANGED recent

(* A SERVFAIL or a REFUSED is first a success of the upstream, then a      *)
(* failure of the ask.                                                     *)
AskRefused(q, u) ==
  /\ Ends(q, u, "bad")
  /\ failures' = [failures EXCEPT ![u] = 1]
  /\ recent' = recent \cup {u}
  /\ \E r \in Rtt : rtt' = [rtt EXCEPT ![u] = r]

AskFails(q, u) ==
  /\ Ends(q, u, "bad")
  /\ failures' = [failures EXCEPT ![u] = IF @ < MaxFailures THEN @ + 1 ELSE @]
  /\ recent' = recent \cup {u}
  /\ UNCHANGED rtt

-----------------------------------------------------------------------------
(* The race looks at the next completed ask.                               *)

Lost(asks) == [u \in Up |-> IF asks[u] = "run" THEN "lost" ELSE asks[u]]

Over(q) ==
  /\ races' = [races EXCEPT ![q] = <<>>]
  /\ finished' = [finished EXCEPT ![q] = <<>>]

(* _ask's label travels with the answer: whom the answer is credited to.   *)
Credited(q) == Head(finished[q])

(* _won: its label is noted, and the losers are cancelled.                 *)
Won(q) ==
  /\ finished[q] # <<>>
  /\ LET u == Head(finished[q]) IN
       /\ ask[q][u] = "ok"
       /\ out' = [out EXCEPT ![q] = u]
       /\ noted' = [noted EXCEPT ![q] = Credited(q)]
       /\ ask' = [ask EXCEPT ![q] = Lost(@)]
  /\ Over(q)
  /\ UNCHANGED <<strategy, health>>

NextRace(q) ==
  IF Len(races[q]) > 1
  THEN /\ races' = [races EXCEPT ![q] = Tail(@)]
       /\ finished' = [finished EXCEPT ![q] = <<>>]
       /\ ask' = [ask EXCEPT ![q] = Asking(@, races[q][2])]
       /\ UNCHANGED out
  ELSE /\ out' = [out EXCEPT ![q] = "failed"]
       /\ Over(q) /\ UNCHANGED ask

StillRacing(q) ==
  Len(finished[q]) > 1 \/ \E u \in Head(races[q]) : ask[q][u] = "run"

TryNext(q) ==
  /\ finished[q] # <<>> /\ ask[q][Head(finished[q])] = "bad"
  /\ IF StillRacing(q)
     THEN finished' = [finished EXCEPT ![q] = Tail(@)] /\ UNCHANGED <<races, ask, out>>
     ELSE NextRace(q)
  /\ UNCHANGED <<strategy, noted, health>>

(* The client's resolution is abandoned: every task of the race goes.      *)
Abandon(q) ==
  /\ ~Asleep(q)
  /\ ask' = [ask EXCEPT ![q] = Lost(@)]
  /\ Over(q)
  /\ UNCHANGED <<strategy, out, noted, health>>

(* _FAILURE_MEMORY has passed since u's latest failure.                    *)
Forget(u) ==
  /\ u \in recent
  /\ recent' = recent \ {u}
  /\ UNCHANGED <<strategy, call, failures, rtt>>

-----------------------------------------------------------------------------
AskEnds(q, u) == AskAnswers(q, u) \/ AskRefused(q, u) \/ AskFails(q, u)

Next ==
  \/ \E q \in Query :
       \/ Resolve(q) \/ Won(q) \/ TryNext(q) \/ Abandon(q)
       \/ \E u \in Up : AskEnds(q, u)
  \/ \E u \in Up : Forget(u)

Spec == Init /\ [][Next]_vars

(* Asks end (Stream and UdpPool: every query returns), the event loop      *)
(* resumes a race with a completed ask, and time passes.                   *)
LiveSpec ==
  /\ Spec
  /\ \A q \in Query : /\ WF_vars(Won(q) \/ TryNext(q))
                      /\ \A u \in Up : WF_vars(AskEnds(q, u))
  /\ \A u \in Up : WF_vars(Forget(u))

-----------------------------------------------------------------------------
(* Properties.                                                             *)

(* Every variable holds what its code counterpart can; only an asleep      *)
(* query has no race, and only tasks of its race are running.              *)
TypeOK ==
  /\ strategy \in {"sequential", "parallel", "fastest"}
  /\ \A q \in Query :
       /\ \A i \in DOMAIN races[q] : races[q][i] \subseteq Up /\ races[q][i] # {}
       /\ ToSet(finished[q]) \subseteq Up
       /\ {u \in Up : ask[q][u] = "run"} \subseteq
            IF Asleep(q) THEN {} ELSE Head(races[q])
  /\ ask \in [Query -> [Up -> {"no", "run", "ok", "bad", "lost"}]]
  /\ out \in [Query -> Up \cup {None, "failed"}]
  /\ noted \in [Query -> Up \cup {None}]
  /\ failures \in [Up -> 0 .. MaxFailures]
  /\ recent \subseteq Up
  /\ rtt \in [Up -> Rtt]

(* A resolution fails only when every upstream of the group was asked and  *)
(* failed it: an error, a SERVFAIL or a REFUSED.  No strategy gives up     *)
(* while an upstream is left that might answer.                            *)
FailsOnlyAfterAll ==
  \A q \in Query : out[q] = "failed" => \A u \in Up : ask[q][u] = "bad"

(* A demotion is not for ever: under `fastest`, as long as queries keep    *)
(* coming, an upstream that is always quicker than its peers is asked      *)
(* again and again, however it failed in the past (_FAILURE_MEMORY).       *)
Quickest(u) == \A v \in Up \ {u} : rtt[u] < rtt[v]
DemotionEnds ==
  \A u \in Up :
    (strategy = "fastest" /\ []Quickest(u) /\ []<>(\E q \in Query : Asleep(q))
       /\ []<>(\E q \in Query : ~Asleep(q)))
      => []<>(\E q \in Query : ask[q][u] = "run")
=============================================================================
