------------------------------- MODULE Fanout -------------------------------
(***************************************************************************)
(* A change made in the console and how it reaches every worker: the API   *)
(* of the primary writes the config file or the client table, applies it   *)
(* there, and asks the supervisor to raise SIGUSR1 in all workers; the     *)
(* siblings also look at the file's mtime twice a minute.                  *)
(*                                                                         *)
(* Source: trench/__main__.py (signal handlers, the supervisor), app.py    *)
(* (apply_config, the appliers, notify_workers, _sync_with_primary),       *)
(* api/server.py (_save_settings and the client handlers), api/settings.py.*)
(* The settings are two: `upstream', whose applier takes effect at once,   *)
(* and `querylog', whose applier waits for the log to stop.  Values are    *)
(* version numbers.  A task is what is left of a coroutine; between its    *)
(* steps the loop may run any other.                                       *)
(***************************************************************************)
EXTENDS Naturals, Sequences, FiniteSets

CONSTANTS
  Worker, Primary,
  Handlers,            \* API requests that may be served at once
  MaxSaves,            \* bound
  None

VARIABLES
  file,                \* the config file: [up, log]
  mtime,
  rows,                \* version of the client table
  config,              \* App.config
  up,                  \* the forwarder in use
  log,                 \* App.querylog: "on", "stopping" or "off"
  clients,             \* version of the client registry
  seenMtime,           \* App._config_mtime
  sig,                 \* SIGUSR1 is pending
  tasks,               \* running coroutines
  saves

live == <<config, up, log, clients>>
store == <<file, mtime, rows>>
vars == <<store, live, seenMtime, sig, tasks, saves>>

Slot == [kind : {"api"}, id : Handlers] \cup [kind : {"adopt", "poll"}, id : Worker]
On(s) == IF s.kind = "api" THEN Primary ELSE s.id

(* All workers start from one file; the siblings have had their first look *)
(* at its mtime.                                                           *)
Init ==
  /\ file = [up |-> 0, log |-> TRUE] /\ mtime = 0 /\ rows = 0
  /\ config = [w \in Worker |-> file]
  /\ up = [w \in Worker |-> 0] /\ log = [w \in Worker |-> "on"] /\ clients = [w \in Worker |-> 0]
  /\ seenMtime = [w \in Worker |-> 0]
  /\ sig = [w \in Worker |-> FALSE]
  /\ tasks = [s \in Slot |-> <<>>]
  /\ saves = 0

-----------------------------------------------------------------------------
(* adopters_for, in the order of ADOPTERS; _what_moved.                    *)

AdoptersFor(changed) == SelectSeq(<<"upstream", "querylog">>, LAMBDA a : a \in changed)
WhatMoved(old, new) == (IF old.up # new.up THEN {"upstream"} ELSE {}) \cup (IF old.log # new.log THEN {"querylog"} ELSE {})

(* apply_config up to its first await: the file is read and is the config. *)
ApplyConfig(s, changed, rest) ==
  /\ config' = [config EXCEPT ![On(s)] = file']
  /\ tasks' = [tasks EXCEPT ![s] = AdoptersFor(changed) \o rest \o <<"end">>]

-----------------------------------------------------------------------------
(* The API of the primary.                                                 *)

Idle(s) == tasks[s] = <<>>
CanSave(s) == s.kind = "api" /\ Idle(s) /\ saves < MaxSaves /\ saves' = saves + 1

(* coerce and merge: a switch may come as text, and what is neither yes    *)
(* nor no is refused, which changes nothing.                               *)
Coerce(value) == value \in {"true", "yes"}
Merge(field, value) == [file EXCEPT ![field] = value]

(* _save_settings: validate, write, apply here, tell the others.           *)
SaveSettings(s) ==
  /\ CanSave(s)
  /\ \/ file' = Merge("up", saves + 1) /\ ApplyConfig(s, {"upstream"}, <<"notify">>)
     \/ \E value \in {"true", "false"} :
          file' = Merge("log", Coerce(value)) /\ ApplyConfig(s, {"querylog"}, <<"notify">>)
  /\ mtime' = mtime + 1
  /\ UNCHANGED <<rows, up, log, clients, seenMtime, sig>>

(* clients_create, clients_update, clients_delete.                         *)
SaveClient(s) ==
  /\ CanSave(s)
  /\ rows' = rows + 1
  /\ tasks' = [tasks EXCEPT ![s] = <<"clients", "notify", "end">>]
  /\ UNCHANGED <<file, mtime, live, seenMtime, sig>>

-----------------------------------------------------------------------------
(* The steps of a task.                                                    *)

Step(s, what) == tasks[s] # <<>> /\ Head(tasks[s]) = what
Done(s) == tasks' = [tasks EXCEPT ![s] = Tail(@)]
Rest == <<store, seenMtime, saves>>

Load(s) ==
  /\ Step(s, "load")
  /\ UNCHANGED file
  /\ ApplyConfig(s, WhatMoved(config[On(s)], file), <<"clients">>)
  /\ UNCHANGED <<mtime, rows, up, log, clients, seenMtime, sig, saves>>

(* _adopt_upstream.                                                        *)
AdoptUpstream(s) ==
  /\ Step(s, "upstream") /\ Done(s)
  /\ up' = [up EXCEPT ![On(s)] = config[On(s)].up]
  /\ UNCHANGED <<Rest, config, log, clients, sig>>

(* _adopt_querylog, up to `await self.querylog.stop()', and after it.      *)
AdoptQuerylog(s) ==
  LET w == On(s)
  IN /\ Step(s, "querylog")
     /\ IF ~config[w].log /\ log[w] # "off"
        THEN /\ log' = [log EXCEPT ![w] = "stopping"]
             /\ tasks' = [tasks EXCEPT ![s] = <<"stopped">> \o Tail(@)]
        ELSE /\ log' = [log EXCEPT ![w] = IF config[w].log /\ @ = "off" THEN "on" ELSE @]
             /\ Done(s)
     /\ UNCHANGED <<Rest, config, up, clients, sig>>

LogStopped(s) ==
  /\ Step(s, "stopped") /\ Done(s)
  /\ log' = [log EXCEPT ![On(s)] = "off"]
  /\ UNCHANGED <<Rest, config, up, clients, sig>>

(* reload_clients; the replies of one database connection come in order.   *)
ReloadClients(s) ==
  /\ Step(s, "clients") /\ Done(s)
  /\ clients' = [clients EXCEPT ![On(s)] = rows]
  /\ UNCHANGED <<Rest, config, up, log, sig>>

(* notify_workers, and the supervisor's _forward.                          *)
Notify(s) ==
  /\ Step(s, "notify") /\ Done(s)
  /\ sig' = [w \in Worker |-> TRUE]
  /\ UNCHANGED <<Rest, live>>

End(s) == Step(s, "end") /\ Done(s) /\ UNCHANGED <<Rest, live, sig>>

TaskStep(s) ==
  \/ Load(s) \/ AdoptUpstream(s) \/ AdoptQuerylog(s) \/ LogStopped(s)
  \/ ReloadClients(s) \/ Notify(s) \/ End(s)

-----------------------------------------------------------------------------
(* _on_usr1: dropped while an adoption is running.                         *)
OnUsr1(w) ==
  LET s == [kind |-> "adopt", id |-> w]
  IN /\ sig[w]
     /\ sig' = [sig EXCEPT ![w] = FALSE]
     /\ tasks' = IF Idle(s) THEN [tasks EXCEPT ![s] = <<"load">>] ELSE tasks
     /\ UNCHANGED <<Rest, live>>

(* _adopt_changed_config, every half minute in a sibling.                  *)
Poll_Never(w) == FALSE /\ UNCHANGED vars      \* mutant: the file is not looked at
Poll(w) ==
  LET s == [kind |-> "poll", id |-> w]
  IN /\ w # Primary /\ Idle(s) /\ seenMtime[w] # mtime
     /\ seenMtime' = [seenMtime EXCEPT ![w] = mtime]
     /\ UNCHANGED file
     /\ ApplyConfig(s, WhatMoved(config[w], file), <<>>)
     /\ UNCHANGED <<mtime, rows, up, log, clients, sig, saves>>

Next ==
  \/ \E s \in Slot : SaveSettings(s) \/ SaveClient(s)
  \/ \E s \in Slot : TaskStep(s)
  \/ \E w \in Worker : OnUsr1(w) \/ Poll(w)

Spec == Init /\ [][Next]_vars

(* Tasks of an event loop go on, a pending signal is delivered, and the    *)
(* scheduler's jobs come round.                                            *)
Fairness ==
  /\ \A s \in Slot : WF_vars(TaskStep(s))
  /\ \A w \in Worker : WF_vars(OnUsr1(w)) /\ WF_vars(Poll(w))
LiveSpec == Spec /\ Fairness

-----------------------------------------------------------------------------
(* After the last save every worker resolves through the upstreams the     *)
(* file names, and the file is the config of each: overlapping saves, a    *)
(* slow stop, and a SIGUSR1 that found an adoption running do not lose one *)
(* (apply_config re-reads the file, the appliers read the config late).    *)
SettingsReachEveryWorker == <>[](\A w \in Worker : config[w] = file /\ up[w] = file.up)

(* The adoption in flight covers the change a dropped SIGUSR1 stood for:   *)
(* every worker ends with the clients of the table (__main__._on_usr1).    *)
(* The code does not guarantee it: see the observations in README.md.      *)
ClientsReachEveryWorker == <>[](\A w \in Worker : clients[w] = rows)

=============================================================================
