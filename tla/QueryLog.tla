------------------------------ MODULE QueryLog ------------------------------
(***************************************************************************)
(* How a query-log record gets from a worker to the table: the bounded     *)
(* queue of each worker, the lane a sibling publishes into, the primary's  *)
(* writer that drains both into batches, the database's one connection     *)
(* with its queue of jobs and its one implicit transaction shared by every *)
(* task, statements that fail and roll back, and stop().                   *)
(*                                                                         *)
(* Source: trench/store/querylog.py (enqueue, _writer, _flush, stop),      *)
(* trench/store/ringlog.py (push, drain), trench/store/db.py (executemany, *)
(* execute, _rollback).  The connection's thread (aiosqlite) is modelled   *)
(* from its use: jobs run one at a time in the order they were handed in,  *)
(* also when the task that waits for one has been cancelled.  Not here:    *)
(* the JSON-lines export, the lane's lock (module SharedCache has the same *)
(* lock), privacy levels.                                                  *)
(***************************************************************************)
EXTENDS Naturals, Sequences, FiniteSets, SequencesExt, FiniteSetsExt

CONSTANTS
  MaxRecords,  \* bound: worker -> records it makes over a run
  QueueSize,   \* maxsize of the queue: 50000
  MaxBatch,    \* max_batch: 500
  Slots,       \* slots of a lane: 2048
  MaxOther,    \* bound: writes of other tasks over a run
  MaxFaults    \* bound: statements that fail over a run

Process == {"primary", "sibling"}

QueryLogConstants ==
  /\ MaxRecords \in [Process -> Nat]
  /\ {QueueSize, MaxBatch} \subseteq Nat \ {0} /\ {Slots, MaxOther, MaxFaults} \subseteq Nat

Rec == UNION {{w} \X (1 .. MaxRecords[w]) : w \in Process}

(* Who uses the connection: the log's writer, its stop(), anybody else.    *)
Task == {"writer", "stop", "other"}

VARIABLES
  made,     \* worker -> records made so far
  queue,    \* worker -> _queue
  lane,     \* the sibling's lane of the ring
  shed,     \* records shed at a full queue or lane, and counted
  failed,   \* records of a batch whose failure was logged
  task,     \* task -> at, rows
  jobs,     \* the connection's job queue
  txn,      \* rows of the open transaction
  table,    \* rows committed
  running,  \* _running
  swept,    \* stop() has begun its last sweep of the lanes
  others, faults

vars == <<made, queue, lane, shed, failed, task, jobs, txn, table, running, swept,
          others, faults>>

(* at: idle; insert, commit, rollback: awaiting that job; inserted,        *)
(* refused, committed: it has run, or failed; unwind: rolling back because *)
(* it was cancelled; gone: the task is over.                               *)
At == {"idle", "insert", "inserted", "refused", "commit", "committed",
       "rollback", "unwind", "gone"}
Rest == [at |-> "idle", rows |-> <<>>]
Over == [at |-> "gone", rows |-> <<>>]

Init ==
  /\ made = [w \in Process |-> 0]
  /\ queue = [w \in Process |-> <<>>]
  /\ lane = <<>>
  /\ shed = {} /\ failed = {}
  /\ task = [t \in Task |-> Rest]
  /\ jobs = <<>> /\ txn = <<>> /\ table = <<>>
  /\ running = TRUE /\ swept = FALSE
  /\ others = 0 /\ faults = 0

db == <<jobs, txn, table>>

-----------------------------------------------------------------------------
(* A worker answers a query: enqueue.                                      *)
Enqueue(w) ==
  /\ made[w] < MaxRecords[w] /\ (w = "primary" => running)
  /\ made' = [made EXCEPT ![w] = @ + 1]
  /\ LET r == <<w, made[w] + 1>> IN
     IF Len(queue[w]) < QueueSize
     THEN queue' = [queue EXCEPT ![w] = Append(@, r)] /\ UNCHANGED shed
     ELSE shed' = shed \cup {r} /\ UNCHANGED queue
  /\ UNCHANGED <<lane, failed, task, db, running, swept, others, faults>>

(* The sibling's _flush: its batch goes into its lane, what the lane has   *)
(* no room for is shed.                                                    *)
Batch(w) == SubSeq(queue[w], 1, Min({MaxBatch, Len(queue[w])}))
Left(w) == SubSeq(queue[w], Len(Batch(w)) + 1, Len(queue[w]))

Room(s) == SubSeq(s, 1, Min({Len(s), Slots - Len(lane)}))

Publish ==
  /\ queue["sibling"] # <<>>
  /\ lane' = lane \o Room(Batch("sibling"))
  /\ shed' = shed \cup (ToSet(Batch("sibling")) \ ToSet(Room(Batch("sibling"))))
  /\ queue' = [queue EXCEPT !["sibling"] = Left("sibling")]
  /\ UNCHANGED <<made, failed, task, db, running, swept, others, faults>>

-----------------------------------------------------------------------------
(* The connection's thread.                                                *)

(* The next job runs.  A batch may fail half way; its rows up to there     *)
(* stay in the transaction.                                                *)
Told(j, how) ==   \* the task hears of it, unless it was cancelled meanwhile
  IF task[j.by].at = j.op THEN [task EXCEPT ![j.by].at = how] ELSE task

Insert ==
  /\ jobs # <<>> /\ Head(jobs).op = "insert"
  /\ LET j == Head(jobs) IN
     \/ /\ txn' = txn \o j.rows
        /\ task' = Told(j, "inserted")
        /\ UNCHANGED faults
     \/ /\ faults < MaxFaults /\ faults' = faults + 1
        /\ \E n \in 0 .. Len(j.rows) : txn' = txn \o SubSeq(j.rows, 1, n)
        /\ task' = Told(j, "refused")
  /\ jobs' = Tail(jobs)
  /\ UNCHANGED <<made, queue, lane, shed, failed, table, running, swept, others>>

Commit ==
  /\ jobs # <<>> /\ Head(jobs).op = "commit"
  /\ table' = table \o txn /\ txn' = <<>>
  /\ task' = Told(Head(jobs), "committed")
  /\ jobs' = Tail(jobs)
  /\ UNCHANGED <<made, queue, lane, shed, failed, running, swept, others, faults>>

(* A rollback after a refused batch ends with the log line that counts its *)
(* rows; one after a cancellation ends the task.                           *)
Rollback ==
  /\ jobs # <<>> /\ Head(jobs).op = "rollback"
  /\ txn' = <<>>
  /\ LET t == Head(jobs).by IN
     /\ task' = CASE task[t].at = "rollback" -> [task EXCEPT ![t] = Rest]
                  [] task[t].at = "unwind" -> [task EXCEPT ![t] = Over]
                  [] OTHER -> task
     /\ failed' = IF task[t].at = "rollback" THEN failed \cup ToSet(task[t].rows)
                  ELSE failed
  /\ jobs' = Tail(jobs)
  /\ UNCHANGED <<made, queue, lane, shed, table, running, swept, others, faults>>

Job(t, op, rows) == [by |-> t, op |-> op, rows |-> rows]

-----------------------------------------------------------------------------
(* _flush and executemany, as run by the writer and by stop().             *)

(* drain: the lane is emptied, oldest first.                               *)
Drained_Twice == lane   \* mutant: tail is not advanced

Drained == <<>>

Flush(t) ==
  LET rows == Batch("primary") \o lane IN
  /\ queue' = [queue EXCEPT !["primary"] = Left("primary")]
  /\ lane' = Drained
  /\ jobs' = Append(jobs, Job(t, "insert", rows))
  /\ task' = [task EXCEPT ![t] = [at |-> "insert", rows |-> rows]]

(* The batch is in the transaction: commit.                                *)
Inserted(t) ==
  /\ task[t].at = "inserted" /\ (t = "writer" => running)
  /\ jobs' = Append(jobs, Job(t, "commit", <<>>))
  /\ task' = [task EXCEPT ![t].at = "commit"]
  /\ UNCHANGED <<made, queue, lane, shed, failed, txn, table, running, swept, others, faults>>

(* The statement failed: roll back.                                        *)
Refused(t) ==
  /\ task[t].at = "refused" /\ (t = "writer" => running)
  /\ jobs' = Append(jobs, Job(t, "rollback", <<>>))
  /\ task' = [task EXCEPT ![t].at = "rollback"]
  /\ UNCHANGED <<made, queue, lane, shed, failed, txn, table, running, swept, others, faults>>

Committed(t) ==
  /\ task[t].at = "committed" /\ (t = "writer" => running)
  /\ task' = [task EXCEPT ![t] = Rest]
  /\ UNCHANGED <<made, queue, lane, shed, failed, db, running, swept, others, faults>>

(* A tick of the writer, or another round of its loop.                     *)
WriterFlush_Once ==   \* mutant: a refused batch ends the writer
  /\ running /\ task["writer"].at = "idle" /\ failed = {}
  /\ Batch("primary") \o lane # <<>>
  /\ Flush("writer")
  /\ UNCHANGED <<made, shed, failed, txn, table, running, swept, others, faults>>

WriterFlush ==
  /\ running /\ task["writer"].at = "idle"
  /\ Batch("primary") \o lane # <<>>
  /\ Flush("writer")
  /\ UNCHANGED <<made, shed, failed, txn, table, running, swept, others, faults>>

(* Somebody else's write on the same connection.                           *)
OtherWrite ==
  /\ others < MaxOther /\ task["other"].at = "idle"
  /\ others' = others + 1
  /\ jobs' = Append(jobs, Job("other", "insert", <<>>))
  /\ task' = [task EXCEPT !["other"] = [at |-> "insert", rows |-> <<>>]]
  /\ UNCHANGED <<made, queue, lane, shed, failed, txn, table, running, swept, faults>>

-----------------------------------------------------------------------------
(* stop(): batches until the queue is empty, then one last sweep of the    *)
(* lanes.                                                                  *)
StopRound ==
  /\ swept' = (queue["primary"] = <<>>)
  /\ IF Batch("primary") \o lane = <<>> \/ swept
     THEN task' = [task EXCEPT !["stop"] = Over] /\ UNCHANGED <<queue, lane, jobs>>
     ELSE Flush("stop")
  /\ UNCHANGED <<made, shed, failed, txn, table, others, faults>>

(* It cancels the writer's task and begins its first round in the same     *)
(* stretch of code; the writer hears of it afterwards.                     *)
Stop == running /\ running' = FALSE /\ StopRound

StopFlush == ~running /\ task["stop"].at = "idle" /\ StopRound /\ UNCHANGED running

(* CancelledError reaches the writer: at rest, or while it rolls back, it  *)
(* ends; inside executemany it rolls back first.                           *)
WriterCancelled ==
  /\ ~running /\ task["writer"].at \notin {"gone", "unwind"}
  /\ IF task["writer"].at \in {"idle", "rollback"}
     THEN task' = [task EXCEPT !["writer"] = Over] /\ UNCHANGED jobs
     ELSE /\ task' = [task EXCEPT !["writer"].at = "unwind"]
          /\ jobs' = Append(jobs, Job("writer", "rollback", <<>>))
  /\ UNCHANGED <<made, queue, lane, shed, failed, txn, table, running, swept, others, faults>>

-----------------------------------------------------------------------------
Thread == Insert \/ Commit \/ Rollback
Resume(t) == Inserted(t) \/ Refused(t) \/ Committed(t)

Next ==
  \/ \E w \in Process : Enqueue(w)
  \/ Publish \/ Thread
  \/ \E t \in Task : Resume(t)
  \/ WriterFlush \/ OtherWrite \/ Stop \/ StopFlush \/ WriterCancelled

Spec == Init /\ [][Next]_vars

(* The thread works its queue, the event loop resumes whoever waits, and   *)
(* the writer's timer and the sibling's fire.                              *)
LiveSpec ==
  /\ Spec
  /\ WF_vars(Thread) /\ WF_vars(Publish) /\ WF_vars(WriterFlush)
  /\ WF_vars(StopFlush) /\ WF_vars(WriterCancelled)
  /\ \A t \in Task : WF_vars(Resume(t))

-----------------------------------------------------------------------------
(* Properties.                                                             *)

Stopped == task["stop"].at = "gone"

(* Every variable holds what its code counterpart can; queue and lane keep *)
(* their bounds.                                                           *)
TypeOK ==
  /\ \A w \in Process : made[w] \in 0 .. MaxRecords[w]
  /\ \A w \in Process : ToSet(queue[w]) \subseteq Rec /\ Len(queue[w]) <= QueueSize
  /\ ToSet(lane) \subseteq Rec /\ Len(lane) <= Slots
  /\ shed \subseteq Rec /\ failed \subseteq Rec
  /\ \A t \in Task : task[t].at \in At /\ ToSet(task[t].rows) \subseteq Rec
  /\ ToSet(txn) \cup ToSet(table) \subseteq Rec
  /\ {running, swept} \subseteq BOOLEAN
  /\ others \in 0 .. MaxOther /\ faults \in 0 .. MaxFaults

(* No record is written twice, and no worker's records change their order, *)
(* whoever else commits or rolls back on the connection.                   *)
WrittenOnceInOrder ==
  \A i, j \in DOMAIN table : i < j /\ table[i][1] = table[j][1] => table[i][2] < table[j][2]

(* After stop() nothing the primary accepted is left unwritten in its      *)
(* queue, however many batches that takes.                                 *)
StopDrains == Stopped => queue["primary"] = <<>>

(* Once no more records come the queues run empty, and stay so: a failed   *)
(* batch, a failing stranger or a full lane does not stop the writer.      *)
QueuesDrain == <>[](\A w \in Process : queue[w] = <<>>)

(* A gap in the log is explained: with the log stopped and the connection  *)
(* idle, every record of the primary is in the table, was counted as shed, *)
(* or was logged as a failed batch (comment in stop: "an unexplained gap   *)
(* in the log around every restart").                                      *)
(* The code does not guarantee it: see the observations in README.md.      *)
Quiet == Stopped /\ jobs = <<>> /\ \A t \in Task : task[t].at \in {"idle", "gone"}
GapsExplained ==
  Quiet => \A n \in 1 .. made["primary"] :
             <<"primary", n>> \in ToSet(table) \cup shed \cup failed
=============================================================================
