----------------------------- MODULE MCControl -----------------------------
(* Changes and how they arrive, for TLC: a saved setting at every worker,  *)
(* an updated zone at its secondary, a SIGTERM at every process.  In a     *)
(* behaviour one of them happens, and the others stay in their initial     *)
(* state.                                                                  *)
EXTENDS Fanout, TLC

VARIABLES
  part,
  now, serial, recs, journal, seen, high, applied, hist, rounds, again, mirror, wake, xfer, faults,
  sup, proc, code, stage, failed, term, open, toStop, conns, asked

zones == <<now, serial, recs, journal, seen, high, applied, hist, rounds, again, mirror, wake, xfer, faults>>
life == <<sup, proc, code, stage, failed, term, open, toStop, conns, asked>>

(* Three signed updates of a zone whose serial is about to wrap, one of    *)
(* them with a prerequisite, the last deleting the apex NS as well, against *)
(* a journal that keeps two of them.                                       *)
Msg(pre, ops, t) == [pre |-> pre, ops |-> ops, time |-> t]
Add(r) == [do |-> "add", rec |-> r]
Del(r) == [do |-> "del", rec |-> r]
MCMessages ==
  ("a" :> Msg({}, <<Add("r1"), Add("r2")>>, 0))
  @@ ("b" :> Msg({[rec |-> "r1", there |-> TRUE]}, <<Del("r1"), Add("r3")>>, 1))
  @@ ("c" :> Msg({}, <<[do |-> "clear", rec |-> "r1"], Add("r1"), Del("ns")>>, 1))

Zones == INSTANCE ZoneSync WITH
  Order <- <<"ns", "r1", "r2", "r3">>, Ns <- "ns", Signed <- FALSE,
  Modulus <- 8, FirstSerial <- 6, MaxJournal <- 2, PerMsg <- 2, Fudge <- 1,
  Messages <- MCMessages, MaxTime <- 3, MaxFaults <- 2

Life == INSTANCE Lifecycle WITH Persist <- TRUE

MCInit == part \in {"settings", "zones", "life"} /\ Init /\ Zones!Init /\ Life!Init

SettingsMove == part = "settings" /\ UNCHANGED <<part, zones, life>>
ZonesMove == part = "zones" /\ UNCHANGED <<part, vars, life>>
LifeMoves == part = "life" /\ UNCHANGED <<part, vars, zones>>

MCNext == (SettingsMove /\ Next) \/ (ZonesMove /\ Zones!Next) \/ (LifeMoves /\ Life!Next)

(* The fairness of each LiveSpec, for the part that moves.                 *)
MCSpec ==
  /\ MCInit /\ [][MCNext]_<<part, vars, zones, life>>
  /\ \A s \in Slot : WF_vars(part = "settings" /\ TaskStep(s))
  /\ \A w \in Worker : /\ WF_vars(part = "settings" /\ OnUsr1(w))
                       /\ WF_vars(part = "settings" /\ Poll(w))
                       /\ WF_life(part = "life" /\ Life!Stopping(w))
  /\ WF_life(part = "life" /\ Life!Supervise)
  /\ WF_zones(part = "zones" /\ Zones!Refresh) /\ WF_zones(part = "zones" /\ Zones!Envelope)
  /\ WF_zones(part = "zones" /\ Zones!RoundEnds(TRUE)) /\ WF_zones(part = "zones" /\ Zones!RoundForgotten)

-----------------------------------------------------------------------------
(* The secondary holds the records the primary held at its serial, when no *)
(* update takes back what it adds (the run zones_delta has one), and no    *)
(* signed update takes effect twice (apply_ixfr, ReplayWindow).            *)
MirrorSound == Zones!MirrorExact /\ Zones!AppliedOnce

(* What was changed arrives: the last save at every worker and the last    *)
(* update at the secondary, although signals and NOTIFYs that come while   *)
(* an earlier one is worked on are dropped (_on_usr1, SecondaryZone._loop). *)
ChangesArrive ==
  /\ part = "settings" => SettingsReachEveryWorker
  /\ part = "zones" => Zones!MirrorCatchesUp

(* A SIGTERM ends the service, unless a client holds it (_run_workers,     *)
(* App.stop).                                                              *)
ServiceStops == part = "life" => Life!ServiceStops
=============================================================================
