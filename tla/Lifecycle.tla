------------------------------ MODULE Lifecycle ------------------------------
(***************************************************************************)
(* Starting and stopping: the supervisor's forks and signals, each         *)
(* worker's start-up in stages, any of which may fail, and App.stop, which *)
(* runs beside a start-up that has not finished.                           *)
(*                                                                         *)
(* Source: trench/__main__.py (_amain, _await_startup_or_stop,             *)
(* _run_workers) and, in app.py, run, start, stop, setup_storage and       *)
(* _schedule_jobs.  What a stage opens is a part; binding, TLS and SQLite  *)
(* are external and may fail.  The signal model is POSIX's: a signal sent  *)
(* before a handler is installed ends the process.  The stop of a stream   *)
(* listener waits for its connections, as Server.wait_closed does on the   *)
(* Python of the image, and clients keep theirs as long as they like.      *)
(***************************************************************************)
EXTENDS Naturals, Sequences, FiniteSets, SequencesExt

CONSTANTS
  Worker, Primary,     \* the processes forked; the one with the console
  Persist              \* cache.persist

VARIABLES
  sup,         \* the supervisor: "forking", "waiting", "exited", "killed"
  proc,        \* worker -> "unborn", "boot", "running", "dumping", "stopping",
               \*           "closing", "hung", "exited", "killed"
  code,        \* worker -> its exit status
  stage,       \* worker -> the stage App.run has reached
  failed,      \* workers whose App.run raised
  term,        \* workers whose stop event is set
  open,        \* worker -> parts that are open
  toStop,      \* worker -> stoppers: what App.stop has still to stop
  conns,       \* worker -> stream listeners with a client's connection open
  asked        \* a SIGTERM was sent to the supervisor

work == <<proc, code, stage, failed, term, open, toStop, conns>>
vars == <<sup, work, asked>>

(* The stages of App.run and App.start that open a part; the work between  *)
(* them (lists, privileges, schedules) fails with the stage that follows.  *)
Stages(w) ==
  IF w = Primary THEN <<"db", "querylog", "do53", "tls", "api", "serving">>
  ELSE <<"querylog", "db", "do53", "serving">>
At(w) == Stages(w)[stage[w]]

Init ==
  /\ sup = "forking"
  /\ proc = [w \in Worker |-> "unborn"]
  /\ code = [w \in Worker |-> 0]
  /\ stage = [w \in Worker |-> 1]
  /\ failed = {} /\ term = {}
  /\ open = [w \in Worker |-> {}] /\ toStop = [w \in Worker |-> {}]
  /\ conns = [w \in Worker |-> {}]
  /\ asked = FALSE

-----------------------------------------------------------------------------
(* _run_workers.                                                           *)

Fork(w) ==
  /\ sup = "forking" /\ proc[w] = "unborn"
  /\ proc' = [proc EXCEPT ![w] = "boot"]
  /\ UNCHANGED <<sup, code, stage, failed, term, open, toStop, conns, asked>>

Wait ==
  /\ sup = "forking" /\ \A w \in Worker : proc[w] # "unborn"
  /\ sup' = "waiting"
  /\ UNCHANGED <<work, asked>>

(* SIGTERM or SIGINT at the supervisor, forwarded to every worker.         *)
Ended(w) == proc[w] \in {"exited", "killed"}
Gone(ws) ==
  /\ open' = [w \in Worker |-> IF w \in ws THEN {} ELSE open[w]]
  /\ toStop' = [w \in Worker |-> IF w \in ws THEN {} ELSE toStop[w]]
  /\ conns' = [w \in Worker |-> IF w \in ws THEN {} ELSE conns[w]]

Terminate ==
  /\ sup = "waiting" /\ ~asked
  /\ asked' = TRUE
  /\ term' = term \cup {w \in Worker : proc[w] \notin {"boot", "exited", "killed"}}
  /\ proc' = [w \in Worker |-> IF proc[w] = "boot" THEN "killed" ELSE proc[w]]
  /\ UNCHANGED <<sup, code, stage, failed, open, toStop, conns>>

(* Every worker has been waited for.                                       *)
Reap ==
  /\ sup = "waiting" /\ \A w \in Worker : Ended(w)
  /\ sup' = "exited"
  /\ UNCHANGED <<work, asked>>

-----------------------------------------------------------------------------
(* A worker: _amain installs its handlers and starts App.run.              *)

Boot(w) ==
  /\ proc[w] = "boot"
  /\ proc' = [proc EXCEPT ![w] = "running"]
  /\ UNCHANGED <<sup, code, stage, failed, term, open, toStop, conns, asked>>

(* App.run goes on until it is cancelled, which is after App.stop.         *)
Starting(w) ==
  /\ proc[w] \in {"running", "dumping", "stopping", "closing"}
  /\ w \notin failed /\ At(w) # "serving"

Advance(w) ==
  /\ Starting(w)
  /\ open' = [open EXCEPT ![w] = @ \cup {At(w)}]
  /\ stage' = [stage EXCEPT ![w] = @ + 1]
  /\ UNCHANGED <<sup, proc, code, failed, term, toStop, conns, asked>>

(* A port in use, a certificate that does not load, a refusal to go on as  *)
(* root, a disk that is full.  A connection that failed half-way closes    *)
(* itself.                                                                 *)
StageFails(w) ==
  /\ Starting(w)
  /\ failed' = failed \cup {w}
  /\ UNCHANGED <<sup, proc, code, stage, term, open, toStop, conns, asked>>

(* _await_startup_or_stop: whichever comes first.                          *)
Noticed(w) == w \in term \cup failed

StopBegins(w) ==
  /\ proc[w] = "running" /\ Noticed(w)
  /\ proc' = [proc EXCEPT ![w] = IF w = Primary /\ Persist THEN "dumping" ELSE "stopping"]
  /\ toStop' = [toStop EXCEPT ![w] = IF w = Primary /\ Persist THEN @ ELSE open[w] \ {"db"}]
  /\ UNCHANGED <<sup, code, stage, failed, term, open, conns, asked>>

(* dump_async, an await; then the stoppers are listed.                     *)
Dumped(w) ==
  /\ proc[w] = "dumping"
  /\ proc' = [proc EXCEPT ![w] = "stopping"]
  /\ toStop' = [toStop EXCEPT ![w] = open[w] \ {"db"}]
  /\ UNCHANGED <<sup, code, stage, failed, term, open, conns, asked>>

(* The stoppers are awaited one after another.  The one whose turn it is   *)
(* has closed its socket, so that no client connects to it any more, and   *)
(* returns when the connections it has are gone (Do53Server.stop,          *)
(* DoTServer.stop): it has stopped, or raised and is left as it is.        *)
StopOrder == <<"api", "do53", "tls", "querylog">>
Streams == {"do53", "tls"}
Turn(w, p) ==
  proc[w] = "stopping" /\ toStop[w] # {}
    /\ p = SelectSeq(StopOrder, LAMBDA s : s \in toStop[w])[1]

StopPart(w, p, raises) ==
  /\ Turn(w, p) /\ p \notin conns[w]
  /\ toStop' = [toStop EXCEPT ![w] = @ \ {p}]
  /\ open' = [open EXCEPT ![w] = IF raises THEN @ ELSE @ \ {p}]
  /\ UNCHANGED <<sup, proc, code, stage, failed, term, conns, asked>>

(* A client opens a connection, and keeps it until it leaves or falls      *)
(* silent for the idle timeout; serve_stream does not end it for a stop.   *)
Connects(w, p) ==
  /\ p \in (open[w] \cap Streams) \ conns[w]
  /\ ~Turn(w, p)
  /\ conns' = [conns EXCEPT ![w] = @ \cup {p}]
  /\ UNCHANGED <<sup, proc, code, stage, failed, term, open, toStop, asked>>

Leaves(w, p) ==
  /\ p \in conns[w]
  /\ conns' = [conns EXCEPT ![w] = @ \ {p}]
  /\ UNCHANGED <<sup, proc, code, stage, failed, term, open, toStop, asked>>

Stopped_AllClosed(w) == toStop[w] = {} /\ (open[w] \subseteq {"db"})    \* mutant: a raise ends the loop
Stopped(w) == toStop[w] = {}

(* The database last; closing it is an await, during which start-up may    *)
(* still open one, and the runner is cancelled when App.stop returns.      *)
CloseDb(w) ==
  /\ proc[w] = "stopping" /\ Stopped(w)
  /\ open' = [open EXCEPT ![w] = @ \ {"db"}]
  /\ proc' = [proc EXCEPT ![w] = IF "db" \in open[w] THEN "closing" ELSE "returning"]
  /\ UNCHANGED <<sup, code, stage, failed, term, toStop, conns, asked>>

DbClosed(w) ==
  /\ proc[w] = "closing"
  /\ proc' = [proc EXCEPT ![w] = "returning"]
  /\ UNCHANGED <<sup, code, stage, failed, term, open, toStop, conns, asked>>

(* The worker leaves, unless the thread of an open database keeps it.      *)
Exit(w) ==
  /\ proc[w] = "returning"
  /\ proc' = [proc EXCEPT ![w] = IF "db" \in open[w] THEN "hung" ELSE "exited"]
  /\ code' = [code EXCEPT ![w] = IF w \in failed THEN 1 ELSE 0]
  /\ Gone(IF "db" \in open[w] THEN {} ELSE {w})
  /\ UNCHANGED <<sup, stage, failed, term, asked>>

(* The kernel ends a worker (out of memory).                               *)
Killed(w) ==
  /\ proc[w] \notin {"unborn", "exited", "killed"}
  /\ proc' = [proc EXCEPT ![w] = "killed"]
  /\ Gone({w})
  /\ UNCHANGED <<sup, code, stage, failed, term, asked>>

-----------------------------------------------------------------------------
Supervise == (\E w \in Worker : Fork(w)) \/ Wait \/ Reap
Stopping(w) ==
  \/ Boot(w) \/ StopBegins(w) \/ Dumped(w) \/ CloseDb(w) \/ DbClosed(w) \/ Exit(w)
  \/ \E p \in toStop[w], raises \in BOOLEAN : StopPart(w, p, raises)

Next ==
  \/ Supervise \/ Terminate
  \/ \E w \in Worker : Stopping(w) \/ Advance(w) \/ StageFails(w) \/ Killed(w)
  \/ \E w \in Worker, p \in Streams : Connects(w, p) \/ Leaves(w, p)

Spec == Init /\ [][Next]_vars

(* Processes run, and so do stops that wait for nobody.  Nothing makes a   *)
(* stage finish, or a client leave.                                        *)
LiveSpec == Spec /\ WF_vars(Supervise) /\ \A w \in Worker : WF_vars(Stopping(w))

-----------------------------------------------------------------------------
(* A SIGTERM ends the service: every worker, whatever stage of its start   *)
(* it is in, whichever of its parts fails to stop, and with no database    *)
(* left open to keep it (App.stop, _forward, the waitpid loop), if no      *)
(* client keeps a connection to one of its stream listeners for good.      *)
ClientsLeave == \A w \in Worker, p \in Streams : []<>(p \notin conns[w])
StopsAlone == asked ~> sup = "exited"
ServiceStops == ClientsLeave => StopsAlone

(* "systemd saw a healthy process.  Now the refusal refuses" (_await_      *)
(* startup_or_stop): a worker that cannot start ends the service.          *)
(* The code does not guarantee it, nor StopsAlone: see the observations in *)
(* README.md.                                                              *)
RefusalRefuses == (failed # {}) ~> sup = "exited"

=============================================================================
