----------------------------- MODULE MCQueries -----------------------------
(* A query's way through a worker, for TLC: the listeners that take it,    *)
(* the pipeline that coalesces and caches, and the forwarder that asks the *)
(* upstreams.  In a behaviour one of them moves, and the others stay in an *)
(* initial state.                                                          *)
(*                                                                         *)
(* Of the pipeline, first two queries of one client, so that one can join  *)
(* the other's fetch while a refresh swaps the filter under both; then     *)
(* three clients of two views, one of them in another subnet, under a      *)
(* filter that lets everything through; then one query, while everything   *)
(* that bears on the rules happens around it: the first load, refreshes,   *)
(* the switch, siblings that write the shared table.                       *)
EXTENDS Pipeline, TLC

CONSTANTS
  q1, q2, c1, c2, c3, c4, n1, v1, v2, f1, f2, f3, g1, g2, glob, net, lan, k1, k2,
  u1, u2,
  Conn, ClientOf, MaxConnections, MaxPerClient, MaxInflight,   \* of Listeners
  Group, Rtt, MaxFailures                                      \* of Forwarder

VARIABLES
  part,
  quic, phase, total, perClient, held, peer, closed, wire, query, buffer, starts, excused,
  strategy, races, ask, finished, outF, noted, failures, recent, rtt

doors == <<quic, phase, total, perClient, held, peer, closed, wire, query, buffer, starts, excused>>
fwd == <<strategy, races, ask, finished, outF, noted, failures, recent, rtt>>

MCViewOf == [c \in Client |-> IF c = c4 THEN v2 ELSE v1]
MCScopeOf == [c \in Client |-> IF c = c1 THEN glob ELSE IF c = c3 THEN lan ELSE net]
MCGroupOf == [c \in Client |-> IF c \in {c1, c4} THEN g1 ELSE g2]
(* f1 lets the name and its answers through, f2 rejects its answers; f3    *)
(* blocks the name itself in one group, and its answers in the other.      *)
MCBlocksName ==
  [f \in Filter |-> [g \in FilterGroup |-> IF f = f3 /\ g = g1 THEN {n1} ELSE {}]]
MCBlocksAnswer ==
  [f \in Filter |->
     [g \in FilterGroup |-> IF f = f2 \/ (f = f3 /\ g = g2) THEN {n1} ELSE {}]]

(* Two connections of one address, under caps that both can meet.          *)
MCClientOf == [k \in Conn |-> c1]
Doors == INSTANCE Listeners

MCGroup == <<u1, u2>>
Fwd == INSTANCE Forwarder WITH out <- outF

ASSUME DoorsAssumption == Doors!ListenersConstants
ASSUME FwdAssumption == Fwd!ForwarderConstants

MCInit ==
  /\ part \in {"pipeline", "views", "rules", "doors", "forward"}
  /\ Init /\ Doors!Init /\ Fwd!Init
  /\ part \notin {"pipeline", "rules"} => filter = f1
  /\ part # "rules" => on /\ loaded
  /\ part = "rules" => filter # f3
  /\ part # "doors" => ~quic
  /\ part # "forward" => strategy = "fastest" /\ \A u \in Fwd!Up : rtt[u] = 1

Askers(C) == \A q \in Query : who[q] \in C \cup {None}
NoSibling == \A k \in Key : cache[k] # None => cache[k].vet # "sibling"
PipelineStep ==
  /\ part = "pipeline" /\ Next
  /\ Askers({c1})' /\ NoSibling'
  /\ UNCHANGED <<part, on, doors, fwd>>
ViewsStep ==
  /\ part = "views" /\ Next
  /\ Askers({c2, c3, c4})' /\ NoSibling' /\ who'[q1] # c4 /\ who'[q2] # c2
  /\ UNCHANGED <<part, rules, doors, fwd>>
RulesStep ==
  /\ part = "rules" /\ Next
  /\ Askers({c3})' /\ pc'[q2] = "idle" /\ filter' # f3
  /\ UNCHANGED <<part, doors, fwd>>
DoorsMove == part = "doors" /\ UNCHANGED <<part, vars, fwd>>
FwdMoves == part = "forward" /\ UNCHANGED <<part, vars, doors>>

MCNext == \/ PipelineStep \/ ViewsStep \/ RulesStep
          \/ DoorsMove /\ Doors!Next
          \/ FwdMoves /\ Fwd!Next

(* The fairness of each LiveSpec, for the part that moves and the tasks    *)
(* that it can start.                                                      *)
MCSpec ==
  /\ MCInit /\ [][MCNext]_<<part, vars, doors, fwd>>
  /\ \A t \in Query \cup {KeyFor(c1, n1)} : WF_vars(part = "pipeline" /\ TaskStep(t))
  /\ \A q \in Query : WF_vars(part = "pipeline" /\ (Resume(q) \/ ResumeSafe(q)))
  /\ \A k \in Conn : WF_doors(part = "doors" /\ Doors!ServerStep(k))
  /\ \A q \in Query : WF_doors(part = "doors" /\ Doors!AnswerStep(q))
  /\ \A q \in Query : /\ WF_fwd(part = "forward" /\ (Fwd!Won(q) \/ Fwd!TryNext(q)))
                      /\ \A u \in Fwd!Up : WF_fwd(part = "forward" /\ Fwd!AskEnds(q, u))
  /\ \A u \in Fwd!Up : WF_fwd(part = "forward" /\ Fwd!Forget(u))

-----------------------------------------------------------------------------
(* The tracker counts the open connections exactly, so its caps hold and   *)
(* never leak away (ConnectionTracker, serve_stream).                      *)
CapsHold == Doors!CapsHold

(* What was read is answered, unless its client is gone or made no         *)
(* progress (serve_stream's finally).                                      *)
OwedAnswers == [][Doors!OwedAnswers]_doors

(* Nobody waits for ever: every query whose client stays is answered, and  *)
(* idle and abandoned connections are reclaimed (handle, serve_stream).    *)
NobodyWaits ==
  /\ part = "pipeline" => EveryQueryAnswered
  /\ part = "doors" => Doors!ConnectionsReclaimed

(* A resolution fails only when every upstream failed it                   *)
(* (Forwarder._sequential, _parallel, _fastest).                           *)
FailsOnlyAfterAll == Fwd!TypeOK /\ Fwd!FailsOnlyAfterAll

(* An upstream that failed once is asked again (_rank, _FAILURE_MEMORY).   *)
DemotionEnds == part = "forward" => Fwd!DemotionEnds
=============================================================================
