------------------------------ MODULE Gravity ------------------------------
(***************************************************************************)
(* Blocklist refresh and how its result reaches every worker: the four     *)
(* ways into a build (schedule, console, SIGHUP, a saved setting) and the  *)
(* start-up fetch, the build lock and the job board, the compiled table    *)
(* and its sidecar on disk, the checks a finished build must pass before   *)
(* the primary installs it, the siblings that map the table by watching    *)
(* the file, and a crash and restart anywhere in between.                  *)
(*                                                                         *)
(* Source: trench/app.py, trench/gravity/manager.py, trench/jobs.py,       *)
(* trench/gravity/schedule.py, trench/filter/shared.py (the file),         *)
(* trench/__main__.py (the pre-fork build).                                *)
(*                                                                         *)
(* A step of the primary is a stretch of code between two awaits.  What a  *)
(* list contains is abstracted to two facts about a compiled corpus: which *)
(* source list it was read from, and whether it is good, short of a source *)
(* that failed, or complete but in breach of one of the operator's         *)
(* assertions (bad).                                                       *)
(***************************************************************************)
CONSTANTS
  Sibling,    \* the workers that do not build
  Source,     \* values of filtering.sources with something in them
  NoSource,   \* the empty list
  Rule,       \* values of filtering.allow and filtering.deny
  Groups,     \* filtering.groups is configured
  None

Quality == {"good", "short", "bad"}
Corpus == [src : Source, is : Quality]

(* Who may be running refresh_blocklists or the start-up fetch.            *)
(* "request" is the run of a SIGHUP and of a saved filtering.sources.      *)
Task == {"schedule", "console", "request", "startup"}

(* A FilterEngine: the imported plain domains (None: no table), the        *)
(* operator's rules it was compiled with, and whether it holds the imported*)
(* rules that do not fit the table (exceptions, regexes, modifiers).       *)
Engine == [corpus : Corpus \cup {None}, rules : Rule, beside : BOOLEAN]

(* own: the Gravity object building is still the one the app refers to.    *)
Build == [st    : {"fetch", "compile", "groups", "check", "reject", "review", "extras"},
          src   : Source, rules : Rule, first : BOOLEAN, own : BOOLEAN,
          is : Quality, gerr : BOOLEAN]

(* gravity.table.json: the source list it was written for, and whether the *)
(* table is whole.                                                         *)
Meta == [src : Source, complete : BOOLEAN]

(* Python's None is no task, table, build or sidecar.                      *)
ASSUME NoneApart == None \notin Task \cup Corpus \cup Build \cup Meta

VARIABLES
  up,
  cfg,      \* the configuration in force: src, rules
  table,    \* gravity.table: its corpus, or None
  meta,     \* gravity.table.json: src, complete; or None
  engine,   \* the primary's filter
  sib,      \* sibling -> its filter
  seen,     \* siblings whose mapping is of the file now on disk
  task,     \* task -> idle | called | wait (for the lock) | build
  tracked,  \* the tasks writing the board's gravity-refresh record
  running,  \* JobState.running of gravity-refresh
  lock,     \* _building: the task holding it, or None
  build,    \* the build in progress, or None
  orphan,   \* a compile whose task was cancelled; its thread goes on
  torn      \* the table was replaced and its sidecar was not (history)

disk == <<table, meta>>
board == <<task, tracked, running, lock>>
vars == <<up, cfg, disk, engine, sib, seen, board, build, orphan, torn>>

NoTable(r) == [corpus |-> None, rules |-> r, beside |-> FALSE]

(* FilterEngine.from_table with the operator's rules only.                 *)
Mapped(c, r) == [corpus |-> c, rules |-> r, beside |-> FALSE]
Compiled(b) == [corpus |-> [src |-> b.src, is |-> b.is],
                rules |-> b.rules, beside |-> TRUE]

Quiet ==
  /\ task = [t \in Task |-> "idle"]
  /\ tracked = {}
  /\ running = FALSE
  /\ lock = None
  /\ build = None
  /\ orphan = None

Init ==
  /\ up = FALSE
  /\ cfg \in [src : Source \cup {NoSource}, rules : Rule]
  /\ table = None /\ meta = None
  /\ engine = NoTable(cfg.rules)
  /\ sib = [w \in Sibling |-> NoTable(cfg.rules)] /\ seen = {}
  /\ torn = FALSE
  /\ Quiet

-----------------------------------------------------------------------------
(* Disk.                                                                   *)

(* table_matches: built, completely, from this configuration.              *)
Matches(s) == table # None /\ meta # None /\ meta.src = s /\ meta.complete

(* SharedBlockTable.build: the file is replaced in one step, and every     *)
(* mapping of the previous one is stale.                                   *)
Replace(c) == table' = c /\ seen' = {}

(* _write_meta: whether the table is whole, whatever became of the groups. *)
Sidecar_Always(b) == [src |-> b.src, complete |-> TRUE]   \* mutant

Sidecar(b) == [src |-> b.src, complete |-> b.is # "short"]

(* mark_table_incomplete: only what is there is marked.                    *)
Incomplete == IF meta = None THEN None ELSE [meta EXCEPT !.complete = FALSE]

-----------------------------------------------------------------------------
(* Start of the service: the pre-fork build (_prebuild_filter) when there  *)
(* are siblings, then load_blocklists(allow_fetch=False) in each worker.   *)

StartWith(e, s, owed) ==
  /\ ~up /\ up' = TRUE
  /\ engine' = e /\ sib' = s
  /\ task' = [task EXCEPT !["startup"] = IF owed THEN "called" ELSE "idle"]
  /\ UNCHANGED <<cfg, tracked, running, lock, build, orphan>>

(* Nothing pre-forked, or no siblings: each worker maps what is on disk.   *)
StartMapped(young) ==
  LET e == IF cfg.src = NoSource \/ table = None THEN NoTable(cfg.rules)
           ELSE Mapped(table, cfg.rules)
  IN
  /\ StartWith(e, [w \in Sibling |-> e],
       cfg.src # NoSource /\ (~(Matches(cfg.src) /\ young) \/ Groups))
  /\ seen' = IF e.corpus = None THEN {} ELSE Sibling
  /\ UNCHANGED <<disk, torn>>

(* The supervisor reuses a young matching table, else builds one and hands *)
(* it to every worker whatever became of its sources.                      *)
StartPrefork(young, q) ==
  LET b == [src |-> cfg.src, rules |-> cfg.rules, is |-> q]
      e == IF Matches(cfg.src) /\ young THEN Mapped(table, cfg.rules) ELSE Compiled(b)
  IN
  /\ Sibling # {} /\ cfg.src # NoSource
  /\ StartWith(e, [w \in Sibling |-> e], Groups)
  /\ IF Matches(cfg.src) /\ young
     THEN UNCHANGED <<disk, torn>>
     ELSE table' = e.corpus /\ meta' = Sidecar(b) /\ torn' = FALSE
  /\ seen' = Sibling

(* A crash or a kill: memory is lost, the two files are what they are.     *)
Unfinished(b) == b # None /\ b.st \in {"groups", "check", "reject"}

Crash ==
  /\ up /\ up' = FALSE
  /\ task' = [t \in Task |-> "idle"] /\ tracked' = {} /\ running' = FALSE
  /\ lock' = None /\ build' = None /\ orphan' = None
  /\ engine' = NoTable(cfg.rules)
  /\ sib' = [w \in Sibling |-> NoTable(cfg.rules)] /\ seen' = {}
  /\ torn' = (torn \/ Unfinished(build))
  /\ UNCHANGED <<cfg, disk>>

-----------------------------------------------------------------------------
(* The ways in.                                                            *)

(* refresh_blocklists turns away a run that finds no sources or a build in *)
(* progress; check and acquisition have no await between them.             *)
MayBuild_NoLock == cfg.src # NoSource   \* mutant: _building.locked() not asked

MayBuild == cfg.src # NoSource /\ lock = None

NewBuild(st, first) ==
  [st |-> st, src |-> cfg.src, rules |-> cfg.rules, first |-> first, own |-> TRUE,
   is |-> "good", gerr |-> FALSE]

Begin(t, b) ==
  /\ task' = [task EXCEPT ![t] = "build"]
  /\ lock' = t
  /\ build' = b

(* JobBoard.track: a run finds the record free and takes it, or leaves the *)
(* record of another run alone.                                            *)
Track(t) ==
  \/ /\ ~running
     /\ tracked' = tracked \cup {t} /\ running' = TRUE
  \/ /\ running
     /\ UNCHANGED <<tracked, running>>

(* A tick that finds the record busy, or is turned away, changes nothing.  *)
ScheduleTick ==
  /\ up /\ task["schedule"] = "idle"
  /\ ~running /\ MayBuild
  /\ Track("schedule")
  /\ Begin("schedule", NewBuild("fetch", FALSE))
  /\ UNCHANGED <<up, cfg, disk, engine, sib, seen, orphan, torn>>

(* run_now claims the record at once; its task starts later.               *)
RunNow ==
  /\ up /\ task["console"] = "idle" /\ ~running
  /\ running' = TRUE
  /\ task' = [task EXCEPT !["console"] = "called"]
  /\ UNCHANGED <<up, cfg, disk, engine, sib, seen, tracked, lock, build, orphan, torn>>

RunNowGo ==
  /\ task["console"] = "called"
  /\ \/ /\ MayBuild
        /\ tracked' = tracked \cup {"console"}
        /\ Begin("console", NewBuild("fetch", FALSE))
        /\ UNCHANGED running
     \/ /\ ~MayBuild
        /\ task' = [task EXCEPT !["console"] = "idle"]
        /\ running' = FALSE
        /\ UNCHANGED <<tracked, lock, build>>
  /\ UNCHANGED <<up, cfg, disk, engine, sib, seen, orphan, torn>>

(* refresh_blocklists as SIGHUP and a settings change call it.             *)
Request ==
  /\ task["request"] = "called"
  /\ \/ /\ MayBuild
        /\ Track("request")
        /\ Begin("request", NewBuild("fetch", FALSE))
     \/ /\ ~MayBuild
        /\ task' = [task EXCEPT !["request"] = "idle"]
        /\ UNCHANGED <<tracked, running, lock, build>>
  /\ UNCHANGED <<up, cfg, disk, engine, sib, seen, orphan, torn>>

(* _initial_blocklist_fetch: tracked first, then in the queue for the lock.*)
StartupQueue ==
  /\ task["startup"] = "called"
  /\ Track("startup")
  /\ task' = [task EXCEPT !["startup"] = "wait"]
  /\ UNCHANGED <<up, cfg, disk, engine, sib, seen, lock, build, orphan, torn>>

(* The end of any run: the lock is given back, the record is closed by the *)
(* run that owns it.                                                       *)
Finish(t) ==
  /\ task' = [task EXCEPT ![t] = "idle"]
  /\ lock' = None
  /\ build' = None
  /\ tracked' = tracked \ {t}
  /\ running' = (running /\ t \notin tracked)

(* load_blocklists(allow_fetch=True) under the lock: nothing to do, only   *)
(* the groups to rebuild, a refresh over the mapped table, or a first      *)
(* build when there is no table.                                           *)
StartupLoad(young) ==
  LET fresh == Matches(cfg.src) /\ young IN
  /\ task["startup"] = "wait" /\ lock = None
  /\ engine' = IF cfg.src # NoSource /\ table # None
               THEN Mapped(table, cfg.rules) ELSE engine
  /\ \/ /\ cfg.src = NoSource \/ (fresh /\ ~Groups)
        /\ Finish("startup")
     \/ /\ cfg.src # NoSource /\ (~fresh \/ Groups)
        /\ Begin("startup",
             IF table = None THEN NewBuild("fetch", TRUE)
             ELSE IF fresh THEN NewBuild("extras", FALSE)
             ELSE NewBuild("fetch", FALSE))
        /\ UNCHANGED <<tracked, running>>
  /\ UNCHANGED <<up, cfg, disk, sib, seen, orphan, torn>>

-----------------------------------------------------------------------------
(* The build: Gravity.build, then the rest of _refresh_locked.             *)

At(t, st) == lock = t /\ build.st = st

(* _fetch_all and the address lists: a failure is recorded, not raised.    *)
Fetched(t, short) ==
  /\ At(t, "fetch")
  /\ build' = [build EXCEPT !.st = "compile", !.is = IF short THEN "short" ELSE "good"]
  /\ UNCHANGED <<up, cfg, disk, engine, sib, seen, board, orphan, torn>>

(* The compile thread ends: the table on disk is this build's.             *)
Outcome(q, bad) == IF bad /\ q = "good" THEN "bad" ELSE q

CompileDone(t, bad) ==
  /\ At(t, "compile")
  /\ build' = [build EXCEPT !.st = "groups", !.is = Outcome(@, bad)]
  /\ Replace([src |-> build.src, is |-> Outcome(build.is, bad)])
  /\ torn' = FALSE
  /\ UNCHANGED <<up, cfg, meta, engine, sib, board, orphan>>

(* It cannot be written: the run fails with the old file in place.         *)
CompileFails(t) ==
  /\ At(t, "compile")
  /\ Finish(t)
  /\ UNCHANGED <<up, cfg, disk, engine, sib, seen, orphan, torn>>

GroupsDone(t, gerr) ==
  /\ At(t, "groups")
  /\ gerr => Groups
  /\ build' = [build EXCEPT !.st = "check", !.gerr = gerr]
  /\ meta' = Sidecar(build)
  /\ UNCHANGED <<up, cfg, table, engine, sib, seen, board, orphan, torn>>

(* The report is read through self._gravity, which may by now be an object *)
(* that has built nothing.                                                 *)
Errors_None == FALSE   \* mutant: report.errors is not looked at

Errors == build.own /\ (build.is = "short" \/ build.gerr)

FirstBuild(t) ==
  /\ At(t, "check") /\ build.first
  /\ engine' = Compiled(build)
  /\ Finish(t)
  /\ UNCHANGED <<up, cfg, disk, sib, seen, orphan, torn>>

(* A source failed: the running rules are kept.                            *)
Kept(t) ==
  /\ At(t, "check") /\ ~build.first
  /\ Errors
  /\ meta' = Incomplete
  /\ Finish(t)
  /\ UNCHANGED <<up, cfg, table, engine, sib, seen, orphan, torn>>

(* An assertion fails: recorded first (an await), then marked.             *)
Rejected(t) ==
  /\ At(t, "check") /\ ~build.first
  /\ ~Errors /\ build.is = "bad"
  /\ build' = [build EXCEPT !.st = "reject"]
  /\ UNCHANGED <<up, cfg, disk, engine, sib, seen, board, orphan, torn>>

RejectMarked(t) ==
  /\ At(t, "reject")
  /\ meta' = Incomplete
  /\ Finish(t)
  /\ UNCHANGED <<up, cfg, table, engine, sib, seen, orphan, torn>>

Review(t) ==
  /\ At(t, "check") /\ ~build.first
  /\ ~Errors /\ build.is # "bad"
  /\ build' = [build EXCEPT !.st = "review"]
  /\ UNCHANGED <<up, cfg, disk, engine, sib, seen, board, orphan, torn>>

(* The swap: engine, group engines and cache flush with no await between.  *)
Swap(t) ==
  /\ At(t, "review")
  /\ engine' = Compiled(build)
  /\ Finish(t)
  /\ UNCHANGED <<up, cfg, disk, sib, seen, orphan, torn>>

(* build_extras, at start-up, touches neither table nor engine.            *)
Extras(t) ==
  /\ At(t, "extras")
  /\ Finish(t)
  /\ UNCHANGED <<up, cfg, disk, engine, sib, seen, orphan, torn>>

BuildStep(t) ==
  \/ \E x \in BOOLEAN : Fetched(t, x) \/ CompileDone(t, x) \/ GroupsDone(t, x)
  \/ CompileFails(t) \/ FirstBuild(t) \/ Kept(t) \/ Rejected(t) \/ RejectMarked(t)
  \/ Review(t) \/ Swap(t) \/ Extras(t)

-----------------------------------------------------------------------------
(* Settings, SIGHUP, and the siblings.                                     *)

Disowned(b) == IF b = None THEN None ELSE [b EXCEPT !.own = FALSE]

(* _adopt_rules: the operator's rules over the table already mapped.       *)
EditRules(r) ==
  /\ up
  /\ cfg' = [cfg EXCEPT !.rules = r]
  /\ engine' = Mapped(engine.corpus, r)
  /\ build' = IF cfg.src = NoSource THEN build ELSE Disowned(build)
  /\ UNCHANGED <<up, disk, sib, seen, board, orphan, torn>>

(* _adopt_sources: a new Gravity and a refresh task, or no Gravity at all. *)
(* Bound: one refresh request at a time, pending or building.              *)
EditSources(s) ==
  /\ up
  /\ cfg' = [cfg EXCEPT !.src = s]
  /\ build' = Disowned(build)
  /\ engine' = IF s = NoSource THEN NoTable(cfg.rules) ELSE engine
  /\ task' = IF s # NoSource /\ task["request"] = "idle"
             THEN [task EXCEPT !["request"] = "called"] ELSE task
  /\ UNCHANGED <<up, disk, sib, seen, tracked, running, lock, orphan, torn>>

(* Scheduler.every cancels the task of the old interval, the build it may  *)
(* be running included; a compile already in its thread is not stopped.    *)
(* Bound: one such thread.                                                 *)
Cancelled == lock = "schedule"
Leaves == Cancelled /\ build.st = "compile"

CancelSchedule ==
  /\ Leaves => orphan = None
  /\ orphan' = IF Leaves THEN Compiled(build).corpus ELSE orphan
  /\ torn' = (torn \/ (Cancelled /\ Unfinished(build)))

(* _adopt_gravity alone: the refresh interval was changed.                 *)
EditInterval ==
  /\ up /\ Cancelled
  /\ CancelSchedule
  /\ Finish("schedule")
  /\ UNCHANGED <<up, cfg, disk, engine, sib, seen>>

(* SIGHUP: every applier (interval, sources, rules), then a refresh of its *)
(* own; the file may have been edited.  Bound: one refresh request.        *)
Hangup(c) ==
  /\ up /\ task["request"] = "idle"
  /\ cfg' = c
  /\ CancelSchedule
  /\ engine' = Mapped(IF c.src = NoSource THEN None ELSE engine.corpus, c.rules)
  /\ task' = [t \in Task |->
       IF t = "request" THEN "called"
       ELSE IF t = "schedule" /\ Cancelled THEN "idle" ELSE task[t]]
  /\ lock' = IF Cancelled THEN None ELSE lock
  /\ build' = IF Cancelled THEN None ELSE Disowned(build)
  /\ tracked' = IF Cancelled THEN tracked \ {"schedule"} ELSE tracked
  /\ running' = (running /\ ~(Cancelled /\ "schedule" \in tracked))
  /\ UNCHANGED <<up, disk, sib, seen>>

(* The abandoned compile thread gets to its os.replace.                    *)
OrphanDone(bad) ==
  /\ orphan # None
  /\ orphan' = None
  /\ Replace([orphan EXCEPT !.is = Outcome(@, bad)])
  /\ torn' = TRUE
  /\ UNCHANGED <<up, cfg, meta, engine, sib, board, build>>

(* _sync_with_primary: map the table if the file is another one, and adopt *)
(* the configuration file.                                                 *)
Stale(w) == w \notin seen /\ table # None

Sync(w) ==
  LET c == IF cfg.src = NoSource THEN None
           ELSE IF Stale(w) THEN table ELSE sib[w].corpus
  IN
  /\ up
  /\ Stale(w) \/ sib[w].rules # cfg.rules \/ (cfg.src = NoSource /\ sib[w].corpus # None)
  /\ sib' = [sib EXCEPT ![w] = Mapped(c, cfg.rules)]
  /\ seen' = IF cfg.src # NoSource /\ Stale(w) THEN seen \cup {w}
             ELSE IF cfg.src = NoSource THEN seen \ {w} ELSE seen
  /\ UNCHANGED <<up, cfg, disk, engine, board, build, orphan, torn>>

(* A sibling given a pre-forked engine still owes its groups, and so maps  *)
(* the table over it (load_blocklists, as a non-primary).                  *)
SiblingLoad(w) ==
  /\ up /\ Groups /\ sib[w].beside
  /\ cfg.src # NoSource
  /\ sib' = [sib EXCEPT ![w] = Mapped(table, cfg.rules)]
  /\ seen' = seen \cup {w}
  /\ UNCHANGED <<up, cfg, disk, engine, board, build, orphan, torn>>

Next ==
  \/ \E young \in BOOLEAN : StartMapped(young) \/ StartupLoad(young)
  \/ \E young \in BOOLEAN, q \in Quality : StartPrefork(young, q)
  \/ Crash
  \/ ScheduleTick \/ RunNow \/ RunNowGo \/ Request \/ StartupQueue
  \/ \E t \in Task : BuildStep(t)
  \/ \E r \in Rule : EditRules(r)
  \/ \E s \in Source \cup {NoSource} : EditSources(s)
  \/ EditInterval
  \/ \E c \in [src : Source \cup {NoSource}, rules : Rule] : Hangup(c)
  \/ \E bad \in BOOLEAN : OrphanDone(bad)
  \/ \E w \in Sibling : Sync(w) \/ SiblingLoad(w)

Spec == Init /\ [][Next]_vars

-----------------------------------------------------------------------------
(* Type invariant.                                                         *)
TypeOK ==
  /\ up \in BOOLEAN
  /\ cfg \in [src : Source \cup {NoSource}, rules : Rule]
  /\ table \in Corpus \cup {None}
  /\ meta \in Meta \cup {None}
  /\ engine \in Engine
  /\ sib \in [Sibling -> Engine]
  /\ seen \in SUBSET Sibling
  /\ task \in [Task -> {"idle", "called", "wait", "build"}]
  /\ tracked \in SUBSET Task
  /\ running \in BOOLEAN
  /\ lock \in Task \cup {None}
  /\ build \in Build \cup {None}
  /\ orphan \in Corpus \cup {None}
  /\ torn \in BOOLEAN

(* refresh_blocklists: "one build at a time", whichever way in             *)
(* it came by: exactly the holder of the lock is building.                 *)
OneBuild ==
  /\ \A t \in Task : task[t] = "build" <=> lock = t
  /\ build = None <=> lock = None

(* The console's "running" is true exactly while a run owns the record: a  *)
(* claim by run_now is given up or taken over, never stuck and never lost  *)
(* to another run that overlaps it.                                        *)
BoardTruthful ==
  /\ running <=> (tracked # {} \/ task["console"] = "called")
  /\ \A t, u \in tracked : t = u
  /\ \A t \in tracked : task[t] \in {"wait", "build"}

(* Builds and their records are serialised, by whichever way they came.    *)
BuildsSound == TypeOK /\ OneBuild /\ BoardTruthful

(* With the app's Gravity left alone while it builds, the primary never    *)
(* replaces rules by a corpus that misses a failed source or breaks an     *)
(* assertion.                                                              *)
GuardedSwap ==
  \A t \in Task : Swap(t) => build.is # "bad" /\ (build.own => build.is # "short")
PrimaryGuarded == [][GuardedSwap]_vars

(* Between builds, and unless a crash or a cancelled build separated the   *)
(* two files, a sidecar that vouches for the table tells the truth.        *)
TrustedIsWhole ==
  lock = None /\ orphan = None /\ ~torn /\ table # None /\ meta # None /\ meta.complete
    => table.src = meta.src /\ table.is # "short"

(* _refresh_locked: "Keep what is already running instead": a corpus short *)
(* of a failed source is never swapped in over running rules.              *)
(* The code does not guarantee it: see the observations in README.md.      *)
ShortNeverReplaces ==
  [][\A t \in Task : Swap(t) => build.is # "short"]_vars

(* contract.py: a candidate that violates an assertion "is not adopted":   *)
(* when nothing is building, a sibling in step with the file enforces no   *)
(* corpus the primary turned down.                                         *)
(* The code does not guarantee it: see the observations in README.md.      *)
RefusedNeverServed ==
  \A w \in Sibling :
    up /\ lock = None /\ ~torn /\ engine.corpus # None /\ w \in seen /\ sib[w].corpus # None
       /\ sib[w].corpus.is # "good"
      => engine.corpus.is # "good"

(* _sync_with_primary "bounds how long workers can disagree about policy": *)
(* a sibling in step with the file enforces every imported rule that the   *)
(* primary enforces, the ones that do not fit the table included.          *)
(* The code does not guarantee it: see the observations in README.md.      *)
SameRules ==
  \A w \in Sibling :
    up /\ w \in seen /\ sib[w].corpus = engine.corpus /\ engine.beside => sib[w].beside

(* refresh_blocklists: "Two builds at once is the OOM the ceiling exists   *)
(* to prevent": no two compile threads at the same time.                   *)
(* The code does not guarantee it: see the observations in README.md.      *)
OneCompile ==
  ~(orphan # None /\ build # None /\ build.st = "compile")

=============================================================================
