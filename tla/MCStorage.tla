----------------------------- MODULE MCStorage -----------------------------
(* What the workers share and store, for TLC: the shared answer cache, the *)
(* query log's writer and its hourly totals.  In a behaviour one of them   *)
(* moves, and the others stay in an initial state.                         *)
(*                                                                         *)
(* Of the cache: two workers, three slots on two stripes, so that stripe 0 *)
(* guards two buckets and both keys share the second of them, the one a    *)
(* clear only reaches by its stride.                                       *)
EXTENDS SharedCache, TLC

CONSTANTS
  w1, w2, None,
  MaxRecords, QueueSize, MaxBatch, LaneSlots, MaxOther, MaxFaults,    \* of QueryLog
  MaxTime, Upgrades, Retention, Lag, Chunk, MaxRows                   \* of Rollup

VARIABLES
  part,
  made, queue, lane, shed, failed, task, jobs, txn, table, running, swept, others, faultsQ,
  now, raw, roll, from, since, sweep, fill, cut, overtaken, inserted, faultsR

log == <<made, queue, lane, shed, failed, task, jobs, txn, table, running, swept, others, faultsQ>>
totals == <<now, raw, roll, from, since, sweep, fill, cut, overtaken, inserted, faultsR>>

MCKeys == {2, 5}

MCMaxRecords == [primary |-> 3, sibling |-> 1]
Log == INSTANCE QueryLog WITH Slots <- LaneSlots, faults <- faultsQ

ASSUME LogAssumption == Log!QueryLogConstants

Totals == INSTANCE Rollup WITH faults <- faultsR

ASSUME TotalsAssumption == Totals!RollupConstants

MCInit ==
  /\ part \in {"cache", "log", "totals"}
  /\ Init /\ Log!Init /\ Totals!Init
  /\ part # "totals" => now = 1 /\ raw = {}

CacheMoves == part = "cache" /\ UNCHANGED <<part, log, totals>>
LogMoves == part = "log" /\ UNCHANGED <<part, vars, totals>>
TotalsMoves == part = "totals" /\ UNCHANGED <<part, vars, log>>

MCNext == (CacheMoves /\ Next) \/ (LogMoves /\ Log!Next) \/ (TotalsMoves /\ Totals!Next)

(* The fairness of each LiveSpec, for the part that moves.                 *)
MCSpec ==
  /\ MCInit /\ [][MCNext]_<<part, vars, log, totals>>
  /\ \A w \in Worker : WF_vars(part = "cache" /\ Step(w))
  /\ WF_log(part = "log" /\ Log!Thread) /\ WF_log(part = "log" /\ Log!Publish)
  /\ WF_log(part = "log" /\ Log!WriterFlush) /\ WF_log(part = "log" /\ Log!StopFlush)
  /\ WF_log(part = "log" /\ Log!WriterCancelled)
  /\ \A t \in {"writer", "stop", "other"} : WF_log(part = "log" /\ Log!Resume(t))
  /\ WF_totals(part = "totals" /\ Totals!Tick) /\ WF_totals(part = "totals" /\ Totals!SweepStart)
  /\ WF_totals(part = "totals" /\ (Totals!Prune \/ Totals!SweepScript))
  /\ WF_totals(part = "totals" /\ (Totals!FillMark \/ Totals!FillNewest \/ Totals!FillScript))

-----------------------------------------------------------------------------
(* No record is written twice or out of order, and stop() leaves none in   *)
(* the queue (QueryLog._flush, stop).                                      *)
WrittenOnceInOrder == Log!TypeOK /\ Log!WrittenOnceInOrder /\ Log!StopDrains

(* The hourly totals are what counting the rows would give                 *)
(* (retention_sweep, backfill_rollup).                                     *)
ExactUnlessOvertaken == Totals!TypeOK /\ Totals!ExactUnlessOvertaken

(* What is behind catches up: once no more records come the log's queues   *)
(* run empty, and the backfill reaches the newest hour (QueryLog._writer,  *)
(* backfill_rollup).                                                       *)
StorageCatchesUp ==
  /\ part = "log" => Log!QueuesDrain
  /\ part = "totals" => Totals!RollupsCatchUp
=============================================================================
