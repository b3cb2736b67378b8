------------------------------- MODULE Rollup -------------------------------
(***************************************************************************)
(* The hourly totals of the query log, and everything that touches them    *)
(* beside the trigger that counts each inserted row: the backfill of the   *)
(* hours before `complete_from`, the retention sweep that deletes rows     *)
(* under them, the purge, and restarts between any two of their steps.     *)
(*                                                                         *)
(* Source: trench/store/querylog.py (retention_sweep, backfill_rollup,     *)
(* purge, start, stop), trench/store/schema.py (migration 7).              *)
(*                                                                         *)
(* Every statement or script is one job on the database's only writing     *)
(* connection, so a step is one of those; between two of them any other    *)
(* task's may run.  A row is its timestamp and its rowid: time is counted  *)
(* in half hours, so that an hour can be half gone.                        *)
(***************************************************************************)
EXTENDS Integers, FiniteSets, FiniteSetsExt

CONSTANTS
  MaxTime,    \* bound: the last half hour
  Upgrades,   \* half hours at which the migration may run
  Retention,  \* querylog.retention_days, in half hours
  Lag,        \* how late, in half hours, a row reaches the table
  Chunk,      \* _PRUNE_CHUNK
  MaxRows,    \* bound: rows inserted over a run
  MaxFaults,  \* bound: cancellations and restarts over a run
  None

Time == 0 .. MaxTime
HourOf(t) == t \div 2
Hour == 0 .. HourOf(MaxTime)
Row == [ts : Time, id : 0 .. MaxRows]

VARIABLES
  now,
  raw,        \* the rows of querylog
  roll,       \* hour -> rows counted in querylog_hour
  from,       \* complete_from
  sweep,      \* the retention sweep: None, or its cutoff and where it is
  fill,       \* the backfill: None, or what it has read
  since,      \* the newest row the migration found: what is logged after it is no older
  cut,        \* rows before it may be gone and the totals still be there
  overtaken,  \* rows went between a backfill's reads and its script (history)
  inserted, faults

store == <<raw, roll, from>>
vars == <<now, store, since, sweep, fill, cut, overtaken, inserted, faults>>

Below(t) == {x \in raw : x.ts < t}
During(h) == {x \in raw : HourOf(x.ts) = h}
Between(h, start) == {x \in raw : h <= HourOf(x.ts) /\ HourOf(x.ts) < start}
Newest(R) == Max({x.ts : x \in R})

Sweep == [at : {"prune", "script"}, cutoff : Time]
Fill == [at : {"mark", "newest", "script"}, start : 0 .. HourOf(MaxTime) + 1, h : Hour]

(* A record comes late by seconds and is kept for days.                    *)
RollupConstants ==
  /\ MaxTime \in Nat /\ Upgrades \subseteq Time
  /\ Lag \in Nat /\ Retention \in Nat /\ Lag + 2 <= Retention
  /\ Chunk \in Nat \ {0} /\ MaxRows \in Nat /\ MaxFaults \in Nat
  /\ None \notin Sweep \cup Fill

Reading == fill # None /\ fill.at # "mark"
Idle == [at |-> "mark", start |-> 0, h |-> 0]   \* about to read complete_from

(* Migration 7, on a log of earlier rows: whole from the hour after the    *)
(* newest of them.                                                         *)
MarkOf(R) == IF R = {} THEN 0 ELSE HourOf(Newest(R)) + 1

Init ==
  /\ now \in Upgrades
  /\ raw \in SUBSET [ts : 0 .. now, id : {0}]
  /\ roll = [h \in Hour |-> 0]
  /\ from = MarkOf(raw)
  /\ since = IF raw = {} THEN 0 ELSE Newest(raw)
  /\ sweep = None /\ fill = Idle
  /\ cut = 0 /\ overtaken = FALSE /\ inserted = 0 /\ faults = 0

-----------------------------------------------------------------------------
Tick ==
  /\ now < MaxTime /\ now' = now + 1
  /\ UNCHANGED <<store, since, sweep, fill, cut, overtaken, inserted, faults>>

(* The writer inserts a row, and the trigger counts it.                    *)
Counted(t) == [roll EXCEPT ![HourOf(t)] = @ + 1]

Insert ==
  /\ inserted < MaxRows
  /\ \E t \in {u \in Time : since <= u /\ u <= now /\ now <= u + Lag} :
       /\ raw' = raw \cup {[ts |-> t, id |-> inserted + 1]}
       /\ roll' = Counted(t)
  /\ inserted' = inserted + 1
  /\ UNCHANGED <<now, from, since, sweep, fill, cut, overtaken, faults>>

-----------------------------------------------------------------------------
(* retention_sweep                                                         *)

SweepStart ==
  /\ sweep = None /\ now >= Retention
  /\ sweep' = [at |-> "prune", cutoff |-> now - Retention]
  /\ cut' = Max({cut, now - Retention})
  /\ UNCHANGED <<now, store, since, fill, overtaken, inserted, faults>>

(* One DELETE of at most Chunk rows; which ones is up to the database.     *)
Deleted(n, D) ==
  /\ raw' = raw \ D
  /\ sweep' = IF n < Chunk THEN [sweep EXCEPT !.at = "script"] ELSE sweep
  /\ overtaken' = (overtaken \/ (D # {} /\ Reading))

Prune ==
  /\ sweep # None /\ sweep.at = "prune"
  /\ LET n == Min({Cardinality(Below(sweep.cutoff)), Chunk})
     IN \E D \in kSubset(n, Below(sweep.cutoff)) : Deleted(n, D)
  /\ UNCHANGED <<now, roll, from, since, fill, cut, inserted, faults>>

(* The totals follow: hours wholly gone are dropped, the hour the cutoff   *)
(* fell inside is marked incomplete, and the backfill is to recount it.    *)
MarkAfter(c) == Max({from, c + 1})

StartFill == IF fill = None THEN Idle ELSE fill

SweepScript ==
  /\ sweep # None /\ sweep.at = "script"
  /\ LET c == HourOf(sweep.cutoff) IN
       /\ roll' = [h \in Hour |-> IF h < c THEN 0 ELSE roll[h]]
       /\ from' = MarkAfter(c)
  /\ cut' = IF cut <= sweep.cutoff THEN 0 ELSE cut
  /\ sweep' = None
  /\ fill' = StartFill
  /\ UNCHANGED <<now, raw, since, overtaken, inserted, faults>>

(* The schedule is re-armed and the running sweep cancelled.               *)
SweepCancelled ==
  /\ sweep # None /\ faults < MaxFaults
  /\ faults' = faults + 1
  /\ sweep' = None
  /\ UNCHANGED <<now, store, since, fill, cut, overtaken, inserted>>

-----------------------------------------------------------------------------
(* backfill_rollup                                                         *)

FillMark ==
  /\ fill # None /\ fill.at = "mark"
  /\ fill' = [fill EXCEPT !.at = "newest", !.start = from]
  /\ UNCHANGED <<now, store, since, sweep, cut, overtaken, inserted, faults>>

(* SELECT MAX(ts) below the mark; without a row the backfill is done.      *)
FillNewest ==
  /\ fill # None /\ fill.at = "newest"
  /\ LET R == Between(0, fill.start)
     IN fill' = IF R = {} THEN None
                ELSE [fill EXCEPT !.at = "script", !.h = HourOf(Newest(R))]
  /\ UNCHANGED <<now, store, since, sweep, cut, overtaken, inserted, faults>>

(* _BACKFILL: the hour is recounted whatever became of the mark, and the   *)
(* mark moves only if it is where it was.                                  *)
MarkFilled(f) == IF from = f.start THEN f.h ELSE from

Recount_Added(f) == roll[f.h] + Cardinality(During(f.h))   \* mutant: no DELETE first

Recount(f) == Cardinality(Between(f.h, f.start))

FillScript ==
  /\ fill # None /\ fill.at = "script"
  /\ roll' = [roll EXCEPT ![fill.h] = Recount(fill)]
  /\ from' = MarkFilled(fill)
  /\ fill' = Idle
  /\ UNCHANGED <<now, raw, since, sweep, cut, overtaken, inserted, faults>>

-----------------------------------------------------------------------------
(* purge: rows, totals and mark in one script.                             *)
Purge ==
  /\ inserted < MaxRows \/ raw # {}
  /\ raw' = {}
  /\ roll' = [h \in Hour |-> 0]
  /\ from' = 0
  /\ cut' = IF sweep = None THEN 0 ELSE cut
  /\ overtaken' = (overtaken \/ Reading)
  /\ UNCHANGED <<now, since, sweep, fill, inserted, faults>>

(* The process stops, or dies; start() begins a backfill.                  *)
Restart ==
  /\ faults < MaxFaults
  /\ faults' = faults + 1
  /\ sweep' = None /\ fill' = Idle
  /\ UNCHANGED <<now, store, since, cut, overtaken, inserted>>

Next ==
  \/ Tick \/ Insert \/ Purge \/ Restart
  \/ SweepStart \/ Prune \/ SweepScript \/ SweepCancelled
  \/ FillMark \/ FillNewest \/ FillScript

Spec == Init /\ [][Next]_vars

(* Time passes, the schedule runs the sweep hourly, and the event loop     *)
(* resumes a task whose statement has been executed.                       *)
LiveSpec ==
  /\ Spec
  /\ WF_vars(Tick)
  /\ WF_vars(SweepStart) /\ WF_vars(Prune \/ SweepScript)
  /\ WF_vars(FillMark \/ FillNewest \/ FillScript)

-----------------------------------------------------------------------------
(* Properties.                                                             *)

(* Every variable holds what its code counterpart can, and the mark never  *)
(* passes the hour after this one.                                         *)
TypeOK ==
  /\ now \in Time
  /\ raw \in SUBSET Row /\ roll \in [Hour -> Nat]
  /\ from \in 0 .. HourOf(now) + 1
  /\ sweep \in Sweep \cup {None} /\ fill \in Fill \cup {None}
  /\ since \in Time /\ cut \in Time
  /\ overtaken \in BOOLEAN
  /\ inserted \in 0 .. MaxRows /\ faults \in 0 .. MaxFaults

(* From complete_from on the totals are what counting the rows would give, *)
(* so a chart is "the same either way" (aggregate).  Hours a sweep has     *)
(* begun to delete from and not yet cut are set apart.                     *)
RollupExact ==
  \A h \in Hour : from <= h /\ cut <= 2 * h => roll[h] = Cardinality(During(h))

(* RollupExact holds through every interleaving of inserts, late ones too, *)
(* sweeps, cancelled sweeps, purges, backfills and restarts; only rows     *)
(* deleted between a backfill's reads and its script may break it.         *)
ExactUnlessOvertaken == ~overtaken => RollupExact

(* The backfill always catches up: again and again no row lies before the  *)
(* mark, whatever arrived late, was cancelled or restarted in between.     *)
RollupsCatchUp ==
  []<>(\A x \in raw : from <= HourOf(x.ts))
=============================================================================
