--------------------------- MODULE GravityProofs ---------------------------
(***************************************************************************)
(* Proofs about Gravity, for any siblings, source lists and operator       *)
(* rules: builds are serialised and truthfully on the job board, a sidecar *)
(* that vouches for the table tells the truth, and the primary's swap is   *)
(* guarded.                                                                *)
(***************************************************************************)
EXTENDS Gravity, TLAPS

-----------------------------------------------------------------------------
(* The inductive invariant.                                                *)

(* A service that is down runs nothing, and a run_now claim that has not   *)
(* started yet is the only user of the record.                             *)
Idle == ~up => Quiet
Claimed == task["console"] = "called" => tracked = {}

(* What the primary holds for review has passed the checks.                *)
Passed ==
  build # None /\ build.st = "review" =>
    build.is # "bad" /\ (build.own => build.is # "short")

(* Between os.replace and _write_meta the table is the running build's; at *)
(* every other point of an untorn disk the sidecar can be believed.        *)
Whole ==
  table # None /\ meta # None /\ meta.complete
    => table.src = meta.src /\ table.is # "short"

Believable ==
  ~torn =>
    IF build # None /\ build.st = "groups"
    THEN table = [src |-> build.src, is |-> build.is]
    ELSE Whole

Serial == OneBuild /\ BoardTruthful /\ Claimed /\ Idle
IInv == TypeOK /\ Serial /\ Passed /\ Believable

-----------------------------------------------------------------------------
(* Records: what the steps of a build make of it.                          *)
LEMMA NewBuildType ==
  ASSUME TypeOK, cfg.src # NoSource, NEW st \in {"fetch", "extras"}, NEW first \in BOOLEAN
  PROVE  NewBuild(st, first) \in Build
<1>1. cfg.src \in Source /\ cfg.rules \in Rule
  BY DEF TypeOK
<1> QED
  BY <1>1 DEF NewBuild, Build, Quality

LEMMA Building ==
  ASSUME TypeOK, OneBuild
  PROVE  /\ lock # None => build \in Build /\ build # None
         /\ lock = None => build = None
         /\ \A b \in Build : b # None
         /\ \A t \in Task : t # None
  BY NoneApart DEF TypeOK, OneBuild

LEMMA OutcomeType ==
  ASSUME NEW q \in Quality, NEW bad \in BOOLEAN
  PROVE  Outcome(q, bad) \in Quality
  BY DEF Outcome, Quality

LEMMA DisownedType ==
  ASSUME TypeOK
  PROVE  Disowned(build) \in Build \cup {None}
  BY DEF TypeOK, Disowned, Build

(* The engines a worker can be given.                                      *)
LEMMA EngineType ==
  ASSUME NEW r \in Rule
  PROVE  /\ NoTable(r) \in Engine
         /\ \A c \in Corpus \cup {None} : Mapped(c, r) \in Engine
  BY DEF NoTable, Mapped, Engine

LEMMA CompiledType ==
  ASSUME NEW b, b.src \in Source, b.rules \in Rule, b.is \in Quality
  PROVE  Compiled(b) \in Engine /\ Compiled(b).corpus \in Corpus
  BY DEF Compiled, Engine, Corpus

LEMMA SidecarType ==
  ASSUME TypeOK
  PROVE  /\ Incomplete \in Meta \cup {None}
         /\ \A b : b.src \in Source => Sidecar(b) \in Meta
  BY DEF TypeOK, Incomplete, Sidecar, Meta

-----------------------------------------------------------------------------
(* Types.                                                                  *)
LEMMA TypeStart ==
  ASSUME IInv, NEW young \in BOOLEAN, NEW q \in Quality,
         StartMapped(young) \/ StartPrefork(young, q)
  PROVE  TypeOK'
<1> USE DEF IInv
<1>1. cfg.rules \in Rule /\ (cfg.src # NoSource => cfg.src \in Source)
  BY DEF TypeOK
<1>2. CASE StartMapped(young)
  <2> DEFINE e == IF cfg.src = NoSource \/ table = None THEN NoTable(cfg.rules)
                  ELSE Mapped(table, cfg.rules)
  <2>1. e \in Engine
    BY <1>1, EngineType DEF TypeOK
  <2> HIDE DEF e
  <2>2. engine' = e /\ sib' = [w \in Sibling |-> e]
    BY <1>2 DEF StartMapped, StartWith, e
  <2>3. up' \in BOOLEAN /\ task' \in [Task -> {"idle", "called", "wait", "build"}]
    BY <1>2 DEF StartMapped, StartWith, TypeOK
  <2>4. seen' \in SUBSET Sibling
    BY <1>2 DEF StartMapped
  <2> QED
    BY <1>2, <2>1, <2>2, <2>3, <2>4 DEF TypeOK, StartMapped, StartWith, disk
<1>3. CASE StartPrefork(young, q)
  <2> DEFINE b == [src |-> cfg.src, rules |-> cfg.rules, is |-> q]
             reuse == Matches(cfg.src) /\ young
             e == IF reuse THEN Mapped(table, cfg.rules) ELSE Compiled(b)
  <2>1. b.src \in Source /\ b.rules \in Rule /\ b.is \in Quality
    BY <1>1, <1>3 DEF StartPrefork
  <2> HIDE DEF b
  <2>2. e \in Engine /\ Compiled(b) \in Engine /\ Compiled(b).corpus \in Corpus
    BY <1>1, <2>1, EngineType, CompiledType DEF TypeOK
  <2>3. Sidecar(b) \in Meta
    BY <2>1, SidecarType
  <2>4. /\ engine' = e /\ sib' = [w \in Sibling |-> e]
        /\ ~reuse => table' = Compiled(b).corpus /\ meta' = Sidecar(b) /\ torn' = FALSE
        /\ reuse => UNCHANGED <<disk, torn>>
    BY <1>3 DEF StartPrefork, StartWith, b
  <2> HIDE DEF e, reuse
  <2>5. up' \in BOOLEAN /\ task' \in [Task -> {"idle", "called", "wait", "build"}]
    BY <1>3 DEF StartPrefork, StartWith, TypeOK
  <2>6. table' \in Corpus \cup {None} /\ meta' \in Meta \cup {None} /\ torn' \in BOOLEAN
    BY <2>2, <2>3, <2>4 DEF TypeOK, disk
  <2>7. seen' \in SUBSET Sibling /\ UNCHANGED <<cfg, tracked, running, lock, build, orphan>>
    BY <1>3 DEF StartPrefork, StartWith
  <2> QED
    BY <2>2, <2>4, <2>5, <2>6, <2>7 DEF TypeOK
<1> QED
  BY <1>2, <1>3

(* The ways into a build move only the board, the lock and the build.      *)
BoardTyped ==
  /\ task \in [Task -> {"idle", "called", "wait", "build"}] /\ tracked \in SUBSET Task
  /\ running \in BOOLEAN /\ lock \in Task \cup {None} /\ build \in Build \cup {None}

LEMMA BegunTyped ==
  ASSUME BoardTyped, NEW t \in Task, NEW b \in Build, Begin(t, b)
  PROVE  /\ task' \in [Task -> {"idle", "called", "wait", "build"}]
         /\ lock' \in Task \cup {None} /\ build' \in Build \cup {None}
BY DEF BoardTyped, Begin

LEMMA TypeEntry ==
  ASSUME IInv,
         ScheduleTick \/ RunNow \/ RunNowGo \/ Request \/ StartupQueue
  PROVE  TypeOK'
<1> USE DEF IInv
<1>1. MayBuild => NewBuild("fetch", FALSE) \in Build
  BY NewBuildType DEF MayBuild
<1>2. BoardTyped
  BY DEF TypeOK, BoardTyped
<1>3. BoardTyped'
  <2>1. CASE ScheduleTick
    BY <1>1, <1>2, <2>1 DEF BoardTyped, Task, ScheduleTick, Track, Begin
  <2>2. CASE RunNow
    BY <1>2, <2>2 DEF BoardTyped, RunNow
  <2>3. CASE RunNowGo
    <3>1. CASE MayBuild
      <4>1. /\ Begin("console", NewBuild("fetch", FALSE))
            /\ tracked' = tracked \cup {"console"} /\ running' = running
        BY <2>3, <3>1 DEF RunNowGo
      <4>2. "console" \in Task
        BY DEF Task
      <4> QED BY <1>1, <1>2, <3>1, <4>1, <4>2, BegunTyped DEF BoardTyped
    <3>2. CASE ~MayBuild
      BY <1>2, <2>3, <3>2 DEF BoardTyped, RunNowGo
    <3> QED BY <3>1, <3>2
  <2>4. CASE Request
    <3>1. CASE MayBuild
      <4>1. tracked' \in SUBSET Task /\ running' \in BOOLEAN
        BY <1>2, <2>4, <3>1 DEF BoardTyped, Task, Request, Track
      <4>2. /\ task' \in [Task -> {"idle", "called", "wait", "build"}]
            /\ lock' \in Task \cup {None} /\ build' \in Build \cup {None}
        <5>1. Begin("request", NewBuild("fetch", FALSE)) /\ "request" \in Task
          BY <2>4, <3>1 DEF Request, Task
        <5> QED BY <1>1, <1>2, <3>1, <5>1, BegunTyped
      <4> QED BY <4>1, <4>2 DEF BoardTyped
    <3>2. CASE ~MayBuild
      BY <1>2, <2>4, <3>2 DEF BoardTyped, Request
    <3> QED BY <3>1, <3>2
  <2>5. CASE StartupQueue
    BY <1>2, <2>5 DEF BoardTyped, Task, StartupQueue, Track
  <2> QED
    BY <2>1, <2>2, <2>3, <2>4, <2>5
<1>4. UNCHANGED <<up, cfg, table, meta, engine, sib, seen, orphan, torn>>
  BY DEF ScheduleTick, RunNow, RunNowGo, Request, StartupQueue, disk
<1> QED
  BY <1>3, <1>4 DEF TypeOK, BoardTyped

LEMMA TypeFinish ==
  ASSUME TypeOK, NEW t \in Task, Finish(t)
  PROVE  BoardTyped'
  BY DEF TypeOK, Finish, BoardTyped

LEMMA TypeStartupLoad ==
  ASSUME IInv, NEW young \in BOOLEAN, StartupLoad(young)
  PROVE  TypeOK'
<1> USE DEF IInv
<1> DEFINE fresh == Matches(cfg.src) /\ young
<1>1. engine' \in Engine
  BY EngineType DEF TypeOK, StartupLoad
<1>2. "startup" \in Task
  BY DEF Task
<1>3. CASE Finish("startup")
  BY <1>1, <1>2, <1>3, TypeFinish DEF TypeOK, BoardTyped, StartupLoad, disk
<1>4. CASE ~Finish("startup")
  <2> DEFINE b == IF table = None THEN NewBuild("fetch", TRUE)
                  ELSE IF fresh THEN NewBuild("extras", FALSE)
                  ELSE NewBuild("fetch", FALSE)
  <2>1. cfg.src # NoSource /\ Begin("startup", b) /\ UNCHANGED <<tracked, running>>
    BY <1>4 DEF StartupLoad
  <2>2. b \in Build
    BY <2>1, NewBuildType
  <2> HIDE DEF b
  <2> QED
    BY <1>1, <1>2, <2>1, <2>2 DEF TypeOK, StartupLoad, Begin, disk
<1> QED
  BY <1>3, <1>4

(* A step of a build ends it or leaves it a build.                         *)
LEMMA TypeBuild ==
  ASSUME IInv, NEW t \in Task, BuildStep(t)
  PROVE  /\ TypeOK'
         /\ Finish(t) \/ (build' \in Build /\ UNCHANGED <<board, orphan>>)
<1> USE DEF IInv, Serial
<1>1. lock = t /\ build \in Build
  BY Building DEF BuildStep, Fetched, CompileDone, CompileFails, GroupsDone, FirstBuild,
       Kept, Rejected, RejectMarked, Review, Swap, Extras, At
<1>2. build.src \in Source /\ build.rules \in Rule /\ build.is \in Quality
  BY <1>1 DEF Build
<1>3. CASE \E x \in BOOLEAN : Fetched(t, x) \/ CompileDone(t, x) \/ GroupsDone(t, x)
  <2> PICK x \in BOOLEAN : Fetched(t, x) \/ CompileDone(t, x) \/ GroupsDone(t, x)
    BY <1>3
  <2>1. CASE Fetched(t, x)
    <3>1. build' \in Build
      BY <1>1, <2>1 DEF Fetched, Build, Quality
    <3> QED
      BY <2>1, <3>1 DEF TypeOK, Fetched, board, disk
  <2>2. CASE CompileDone(t, x)
    <3>1. Outcome(build.is, x) \in Quality
      BY <1>2, OutcomeType
    <3>2. build' \in Build
      BY <1>1, <2>2, <3>1 DEF CompileDone, Build
    <3> QED
      BY <1>2, <2>2, <3>1, <3>2 DEF TypeOK, CompileDone, Replace, Corpus, board
  <2>3. CASE GroupsDone(t, x)
    <3>1. build' \in Build
      BY <1>1, <2>3 DEF GroupsDone, Build
    <3>2. meta' \in Meta
      BY <1>2, <2>3, SidecarType DEF GroupsDone
    <3> QED
      BY <2>3, <3>1, <3>2 DEF TypeOK, GroupsDone, board
  <2> QED
    BY <2>1, <2>2, <2>3
<1>4. CASE CompileFails(t) \/ FirstBuild(t) \/ Kept(t) \/ RejectMarked(t) \/ Swap(t) \/ Extras(t)
  <2>1. Finish(t)
    BY <1>4 DEF CompileFails, FirstBuild, Kept, RejectMarked, Swap, Extras
  <2>2. engine' \in Engine /\ meta' \in Meta \cup {None}
    BY <1>2, <1>4, CompiledType, SidecarType
       DEF TypeOK, CompileFails, FirstBuild, Kept, RejectMarked, Swap, Extras, disk
  <2>3. UNCHANGED <<up, cfg, table, sib, seen, orphan, torn>>
    BY <1>4 DEF CompileFails, FirstBuild, Kept, RejectMarked, Swap, Extras, disk
  <2> QED
    BY <2>1, <2>2, <2>3, TypeFinish DEF TypeOK, BoardTyped
<1>5. CASE Rejected(t) \/ Review(t)
  <2>1. build' \in Build
    BY <1>1, <1>5 DEF Rejected, Review, Build
  <2> QED
    BY <1>5, <2>1 DEF TypeOK, Rejected, Review, board, disk
<1> QED
  BY <1>3, <1>4, <1>5 DEF BuildStep

(* Settings, signals, crashes and the siblings.                            *)
LEMMA TypeEdit ==
  ASSUME IInv,
         \/ \E r \in Rule : EditRules(r)
         \/ \E s \in Source \cup {NoSource} : EditSources(s)
         \/ EditInterval
         \/ \E c \in [src : Source \cup {NoSource}, rules : Rule] : Hangup(c)
  PROVE  TypeOK'
<1> USE DEF IInv, Serial
<1>1. /\ cfg.rules \in Rule /\ engine.corpus \in Corpus \cup {None}
      /\ Disowned(build) \in Build \cup {None}
  BY DisownedType DEF TypeOK, Engine
<1>2. ASSUME NEW r \in Rule, EditRules(r)
      PROVE  TypeOK'
  <2>1. engine' \in Engine /\ cfg' \in [src : Source \cup {NoSource}, rules : Rule]
    BY <1>1, <1>2, EngineType DEF TypeOK, EditRules
  <2>2. build' \in Build \cup {None}
    BY <1>1, <1>2 DEF TypeOK, EditRules
  <2> QED
    BY <1>2, <2>1, <2>2 DEF TypeOK, EditRules, board, disk
<1>3. ASSUME NEW s \in Source \cup {NoSource}, EditSources(s)
      PROVE  TypeOK'
  <2>1. engine' \in Engine /\ cfg' \in [src : Source \cup {NoSource}, rules : Rule]
    BY <1>1, <1>3, EngineType DEF TypeOK, EditSources
  <2>2. task' \in [Task -> {"idle", "called", "wait", "build"}]
    BY <1>3 DEF TypeOK, EditSources
  <2> QED
    BY <1>1, <1>3, <2>1, <2>2 DEF TypeOK, EditSources, disk
<1>4. Leaves => Compiled(build).corpus \in Corpus
  <2> SUFFICES ASSUME Leaves PROVE Compiled(build).corpus \in Corpus
    OBVIOUS
  <2>1. build \in Build
    BY NoneApart, Building DEF Leaves, Cancelled, Task
  <2> QED
    BY <2>1, CompiledType DEF Build
<1>5. CancelSchedule => orphan' \in Corpus \cup {None} /\ torn' \in BOOLEAN
  BY <1>4 DEF TypeOK, CancelSchedule
<1>6. CASE EditInterval
  <2>1. Finish("schedule") /\ CancelSchedule /\ UNCHANGED <<up, cfg, table, meta, engine, sib, seen>>
    BY <1>6 DEF EditInterval, disk
  <2>2. BoardTyped'
    BY <2>1, TypeFinish DEF Task
  <2> QED
    BY <1>5, <2>1, <2>2 DEF TypeOK, BoardTyped
<1>7. ASSUME NEW c \in [src : Source \cup {NoSource}, rules : Rule], Hangup(c)
      PROVE  TypeOK'
  <2>1. engine' \in Engine /\ cfg' \in [src : Source \cup {NoSource}, rules : Rule]
    BY <1>1, <1>7, EngineType DEF Hangup
  <2>2. BoardTyped'
    BY <1>1, <1>7 DEF TypeOK, Hangup, BoardTyped
  <2>3. orphan' \in Corpus \cup {None} /\ torn' \in BOOLEAN
    BY <1>5, <1>7 DEF Hangup
  <2>4. UNCHANGED <<up, table, meta, sib, seen>>
    BY <1>7 DEF Hangup, disk
  <2> QED
    BY <2>1, <2>2, <2>3, <2>4 DEF TypeOK, BoardTyped
<1> QED
  BY <1>2, <1>3, <1>6, <1>7

LEMMA TypeRest ==
  ASSUME IInv,
         \/ Crash
         \/ \E bad \in BOOLEAN : OrphanDone(bad)
         \/ \E w \in Sibling : Sync(w) \/ SiblingLoad(w)
  PROVE  TypeOK'
<1> USE DEF IInv
<1>1. cfg.rules \in Rule
  BY DEF TypeOK
<1>2. CASE Crash
  <2>1. NoTable(cfg.rules) \in Engine
    BY <1>1, EngineType
  <2> QED
    BY <1>2, <2>1 DEF TypeOK, Crash, disk
<1>3. ASSUME NEW bad \in BOOLEAN, OrphanDone(bad)
      PROVE  TypeOK'
  <2>1. orphan \in Corpus
    BY <1>3 DEF TypeOK, OrphanDone
  <2>2. Outcome(orphan.is, bad) \in Quality
    BY <2>1, OutcomeType DEF Corpus
  <2>3. [orphan EXCEPT !.is = Outcome(@, bad)] \in Corpus
    BY <2>1, <2>2 DEF Corpus
  <2> QED
    BY <1>3, <2>3 DEF TypeOK, OrphanDone, Replace, board
<1>4. ASSUME NEW w \in Sibling, Sync(w) \/ SiblingLoad(w)
      PROVE  TypeOK'
  <2>1. sib[w].corpus \in Corpus \cup {None} /\ table \in Corpus \cup {None}
    BY DEF TypeOK, Engine
  <2>2. \E e \in Engine : sib' = [sib EXCEPT ![w] = e]
    BY <1>1, <1>4, <2>1, EngineType DEF Sync, SiblingLoad
  <2>3. seen' \in SUBSET Sibling
    BY <1>4 DEF TypeOK, Sync, SiblingLoad
  <2>4. UNCHANGED <<up, cfg, table, meta, engine, board, build, orphan, torn>>
    BY <1>4 DEF Sync, SiblingLoad, disk
  <2> QED
    BY <2>2, <2>3, <2>4 DEF TypeOK, board
<1> QED
  BY <1>2, <1>3, <1>4

LEMMA TypeStep ==
  ASSUME IInv, [Next]_vars
  PROVE  TypeOK'
<1>1. CASE UNCHANGED vars
  BY <1>1 DEF IInv, TypeOK, vars, disk, board
<1> QED
  BY <1>1, TypeStart, TypeEntry, TypeStartupLoad, TypeBuild, TypeEdit, TypeRest
     DEF Next, Quality

-----------------------------------------------------------------------------
(* The lock and the board.                                                 *)

(* A build that goes on, or that nobody has, leaves them as they are.      *)
LEMMA SerialSame ==
  ASSUME Serial, UNCHANGED <<up, board, orphan>>, build' = None <=> build = None
  PROVE  Serial'
BY DEF Serial, OneBuild, BoardTruthful, Claimed, Idle, Quiet, board

(* However a run ends, what it held is free and nothing else is.           *)
LEMMA SerialFinish ==
  ASSUME TypeOK, Serial, up, up', NEW t \in Task, Finish(t),
         \/ lock = t
         \/ lock = None /\ task[t] = "wait"
  PROVE  Serial'
<1>1. OneBuild'
  BY NoneApart DEF Finish, TypeOK, Serial, OneBuild
<1>2. task[t] # "called"
  BY DEF Serial, OneBuild
<1>3. BoardTruthful'
  <2>1. /\ task' = [task EXCEPT ![t] = "idle"] /\ task \in [Task -> {"idle", "called", "wait", "build"}]
        /\ tracked' = tracked \ {t} /\ running' = (running /\ t \notin tracked)
        /\ "console" \in Task /\ tracked \subseteq Task
    BY DEF Finish, TypeOK, Task
  <2>2. \A u \in tracked' : u # t /\ task'[u] = task[u]
    BY <2>1
  <2>3. task'["console"] = "called" <=> task["console"] = "called"
    BY <1>2, <2>1
  <2>4. BoardTruthful /\ Claimed
    BY DEF Serial
  <2>5. running' <=> (tracked' # {} \/ task'["console"] = "called")
    BY <2>1, <2>3, <2>4 DEF BoardTruthful, Claimed
  <2>6. (\A u, v \in tracked' : u = v) /\ \A u \in tracked' : task'[u] \in {"wait", "build"}
    BY <2>1, <2>2, <2>4 DEF BoardTruthful
  <2> QED BY <2>5, <2>6 DEF BoardTruthful
<1>4. Claimed' /\ Idle'
  BY DEF Finish, TypeOK, Serial, Claimed, Idle
<1> QED
  BY <1>1, <1>3, <1>4 DEF Serial

(* A run that begins finds the lock free, and takes it.                    *)
LEMMA BeginOne ==
  ASSUME TypeOK, OneBuild, lock = None, NEW t \in Task, NEW b \in Build, Begin(t, b)
  PROVE  OneBuild'
BY Building DEF Begin, TypeOK, OneBuild

LEMMA SerialEntry ==
  ASSUME IInv,
         ScheduleTick \/ RunNow \/ RunNowGo \/ Request \/ StartupQueue
  PROVE  Serial'
<1> USE DEF IInv
<1>1. MayBuild => NewBuild("fetch", FALSE) \in Build /\ lock = None
  BY NewBuildType DEF MayBuild
<1>2. up /\ up'
  <2>1. task["console"] = "called" \/ task["request"] = "called" \/ task["startup"] = "called"
          => ~Quiet
    BY DEF Quiet, Task
  <2>2. ~up => Quiet
    BY DEF Serial, Idle
  <2>3. up
    BY <2>1, <2>2 DEF ScheduleTick, RunNow, RunNowGo, Request, StartupQueue
  <2>4. up' = up
    BY DEF ScheduleTick, RunNow, RunNowGo, Request, StartupQueue
  <2> QED
    BY <2>3, <2>4
<1>3. OneBuild'
  <2>1. CASE ScheduleTick
    BY <1>1, <2>1, BeginOne DEF Serial, ScheduleTick, Task
  <2>2. CASE RunNow \/ StartupQueue
    BY <2>2 DEF Serial, OneBuild, TypeOK, RunNow, StartupQueue, Task
  <2>3. CASE RunNowGo
    <3>1. CASE MayBuild
      BY <1>1, <2>3, <3>1, BeginOne DEF Serial, RunNowGo, Task
    <3>2. CASE ~MayBuild
      BY <2>3, <3>2 DEF Serial, OneBuild, TypeOK, RunNowGo, Task
    <3> QED
      BY <3>1, <3>2
  <2>4. CASE Request
    <3>1. CASE MayBuild
      BY <1>1, <2>4, <3>1, BeginOne DEF Serial, Request, Task
    <3>2. CASE ~MayBuild
      <4>1. task["request"] # "build" /\ task' = [task EXCEPT !["request"] = "idle"] /\ lock' = lock /\ build' = build
        BY <2>4, <3>2 DEF Request
      <4>2. task \in [Task -> {"idle", "called", "wait", "build"}]
        BY DEF TypeOK
      <4> QED BY <4>1, <4>2 DEF Serial, OneBuild
    <3> QED
      BY <3>1, <3>2
  <2> QED
    BY <2>1, <2>2, <2>3, <2>4
<1>4. BoardTruthful' /\ Claimed'
  <2> USE DEF TypeOK, Serial, BoardTruthful, Claimed, Task
  <2>1. CASE ScheduleTick
    BY <2>1 DEF ScheduleTick, Track, Begin
  <2>2. CASE RunNow
    BY <2>2 DEF RunNow
  <2>3. CASE RunNowGo
    BY <2>3 DEF RunNowGo, Begin
  <2>4. CASE Request
    <3>1. /\ task'["console"] = task["console"]
          /\ \A t \in tracked : task'[t] = task[t]
      BY <2>4 DEF Request, Begin
    <3>2. CASE ~running /\ tracked' = tracked \cup {"request"} /\ running' = TRUE
      <4>1. CASE MayBuild
        BY <2>4, <3>1, <3>2, <4>1 DEF Request, Begin
      <4>2. CASE ~MayBuild
        BY <2>4, <3>2, <4>2 DEF Request
      <4> QED
        BY <4>1, <4>2
    <3>3. CASE UNCHANGED <<tracked, running>>
      BY <3>1, <3>3
    <3> QED
      BY <2>4, <3>2, <3>3 DEF Request, Track
  <2>5. CASE StartupQueue
    BY <2>5 DEF StartupQueue, Track
  <2> QED
    BY <2>1, <2>2, <2>3, <2>4, <2>5
<1> QED
  BY <1>2, <1>3, <1>4 DEF Serial, Idle

LEMMA SerialStart ==
  ASSUME IInv, NEW young \in BOOLEAN, NEW q \in Quality,
         StartMapped(young) \/ StartPrefork(young, q)
  PROVE  Serial'
<1> USE DEF IInv
<1>1. ~up /\ up' /\ UNCHANGED <<tracked, running, lock, build, orphan>>
  BY DEF StartMapped, StartPrefork, StartWith
<1>2. Quiet
  BY <1>1 DEF Serial, Idle
<1>3. \A t \in Task : task'[t] = "idle" \/ (t = "startup" /\ task'[t] = "called")
  BY <1>2 DEF StartMapped, StartPrefork, StartWith, Quiet
<1>4. lock' = None /\ build' = None /\ tracked' = {} /\ running' = FALSE
  BY <1>1, <1>2 DEF Quiet
<1>5. OneBuild'
  BY <1>3, <1>4, Building DEF OneBuild, Serial
<1>6. task'["console"] = "idle"
  BY <1>3 DEF Task
<1> QED
  BY <1>1, <1>4, <1>5, <1>6 DEF Serial, BoardTruthful, Claimed, Idle

LEMMA SerialStartupLoad ==
  ASSUME IInv, NEW young \in BOOLEAN, StartupLoad(young)
  PROVE  Serial'
<1> USE DEF IInv
<1> DEFINE fresh == Matches(cfg.src) /\ young
<1>1. /\ "startup" \in Task /\ task["startup"] = "wait" /\ lock = None
      /\ up' = up /\ OneBuild
  BY DEF StartupLoad, Task, Serial
<1>2. up
  BY <1>1 DEF Serial, Idle, Quiet
<1>3. CASE Finish("startup")
  BY <1>1, <1>2, <1>3, SerialFinish
<1>4. CASE ~Finish("startup")
  <2> DEFINE b == IF table = None THEN NewBuild("fetch", TRUE)
                  ELSE IF fresh THEN NewBuild("extras", FALSE)
                  ELSE NewBuild("fetch", FALSE)
  <2>1. cfg.src # NoSource /\ Begin("startup", b) /\ UNCHANGED <<tracked, running>>
    BY <1>4 DEF StartupLoad
  <2>2. b \in Build
    BY <2>1, NewBuildType
  <2> HIDE DEF b, fresh
  <2>3. OneBuild'
    BY <1>1, <2>1, <2>2, BeginOne
  <2>4. BoardTruthful' /\ Claimed'
    BY <1>1, <2>1 DEF TypeOK, Serial, BoardTruthful, Claimed, Begin, Task
  <2> QED
    BY <1>1, <1>2, <2>3, <2>4 DEF Serial, Idle
<1> QED
  BY <1>3, <1>4

(* A build is under way only in a service that is up.                      *)
LEMMA BuildUp ==
  ASSUME IInv, NEW t \in Task, BuildStep(t)
  PROVE  lock = t /\ build \in Build /\ build # None /\ up /\ up' = up
<1> USE DEF IInv, Serial
<1>1. lock = t /\ up' = up
  BY DEF BuildStep, Fetched, CompileDone, CompileFails, GroupsDone, FirstBuild,
       Kept, Rejected, RejectMarked, Review, Swap, Extras, At
<1>2. lock # None
  BY <1>1, Building
<1>3. up
  BY <1>2 DEF Idle, Quiet
<1> QED
  BY <1>1, <1>2, <1>3, Building

LEMMA SerialBuild ==
  ASSUME IInv, NEW t \in Task, BuildStep(t)
  PROVE  Serial'
<1> USE DEF IInv
<1>1. lock = t /\ build \in Build /\ build # None /\ up /\ up' = up
  BY BuildUp
<1>2. CASE Finish(t)
  BY <1>1, <1>2, SerialFinish
<1>3. CASE build' \in Build /\ UNCHANGED <<board, orphan>>
  BY <1>1, <1>3, Building, SerialSame DEF Serial
<1> QED
  BY <1>2, <1>3, TypeBuild

LEMMA SerialEdit ==
  ASSUME IInv,
         \/ \E r \in Rule : EditRules(r)
         \/ \E s \in Source \cup {NoSource} : EditSources(s)
         \/ EditInterval
         \/ \E c \in [src : Source \cup {NoSource}, rules : Rule] : Hangup(c)
  PROVE  Serial'
<1> USE DEF IInv
<1>1. up /\ up' = up
  BY DEF EditRules, EditSources, EditInterval, Hangup
<1>2. Disowned(build) = None <=> build = None
  BY NoneApart, Building DEF Serial, TypeOK, Disowned, Build
<1>3. ASSUME NEW r \in Rule, EditRules(r)
      PROVE  Serial'
  BY <1>1, <1>2, <1>3, SerialSame DEF EditRules
<1>4. ASSUME NEW s \in Source \cup {NoSource}, EditSources(s)
      PROVE  Serial'
  <2>1. UNCHANGED <<tracked, running, lock, orphan>> /\ build' = Disowned(build)
    BY <1>4 DEF EditSources
  <2>2. \/ task' = task
        \/ task["request"] = "idle" /\ task' = [task EXCEPT !["request"] = "called"]
    BY <1>4 DEF EditSources
  <2>3. OneBuild'
    BY <1>2, <2>1, <2>2 DEF Serial, OneBuild, TypeOK
  <2>4. BoardTruthful' /\ Claimed'
    BY <2>1, <2>2 DEF Serial, BoardTruthful, Claimed, TypeOK, Task
  <2> QED
    BY <1>1, <2>3, <2>4 DEF Serial, Idle
<1>5. CASE EditInterval
  <2>1. Finish("schedule") /\ lock = "schedule"
    BY <1>5 DEF EditInterval, Cancelled
  <2> QED
    BY <1>1, <2>1, SerialFinish DEF Task
<1>6. ASSUME NEW c \in [src : Source \cup {NoSource}, rules : Rule], Hangup(c)
      PROVE  Serial'
  <2>1. /\ task["request"] = "idle"
        /\ task' = [t \in Task |->
             IF t = "request" THEN "called"
             ELSE IF t = "schedule" /\ Cancelled THEN "idle" ELSE task[t]]
        /\ lock' = IF Cancelled THEN None ELSE lock
        /\ build' = IF Cancelled THEN None ELSE Disowned(build)
        /\ tracked' = IF Cancelled THEN tracked \ {"schedule"} ELSE tracked
        /\ running' = (running /\ ~(Cancelled /\ "schedule" \in tracked))
    BY <1>6 DEF Hangup
  <2>2. OneBuild'
    BY NoneApart, <1>2, <2>1 DEF Serial, OneBuild, TypeOK, Cancelled
  <2>3. CASE Cancelled
    <3>1. BoardTruthful'
      BY <2>1, <2>3 DEF Serial, BoardTruthful, Claimed, TypeOK, Task
    <3>2. Claimed'
      BY <2>1, <2>3 DEF Serial, Claimed, TypeOK, Task
    <3> QED
      BY <1>1, <2>2, <3>1, <3>2 DEF Serial, Idle
  <2>4. CASE ~Cancelled
    <3>1. BoardTruthful'
      BY <2>1, <2>4 DEF Serial, BoardTruthful, TypeOK, Task
    <3>2. Claimed'
      BY <2>1, <2>4 DEF Serial, Claimed, TypeOK, Task
    <3> QED
      BY <1>1, <2>2, <3>1, <3>2 DEF Serial, Idle
  <2> QED
    BY <2>3, <2>4
<1> QED
  BY <1>3, <1>4, <1>5, <1>6

LEMMA SerialRest ==
  ASSUME IInv,
         \/ Crash
         \/ \E bad \in BOOLEAN : OrphanDone(bad)
         \/ \E w \in Sibling : Sync(w) \/ SiblingLoad(w)
  PROVE  Serial'
<1> USE DEF IInv
<1>1. CASE Crash
  <2>1. Quiet'
    BY <1>1 DEF Crash, Quiet
  <2> QED
    BY <2>1, Building DEF Serial, OneBuild, BoardTruthful, Claimed, Idle, Quiet, Task
<1>2. ASSUME NEW bad \in BOOLEAN, OrphanDone(bad)
      PROVE  Serial'
  <2>1. up
    BY <1>2 DEF OrphanDone, Serial, Idle, Quiet
  <2>2. UNCHANGED <<up, board, build>>
    BY <1>2 DEF OrphanDone
  <2> QED
    BY <2>1, <2>2 DEF Serial, OneBuild, BoardTruthful, Claimed, Idle, board
<1>3. ASSUME NEW w \in Sibling, Sync(w) \/ SiblingLoad(w)
      PROVE  Serial'
  BY <1>3, SerialSame DEF Sync, SiblingLoad
<1> QED
  BY <1>1, <1>2, <1>3

LEMMA SerialStep ==
  ASSUME IInv, [Next]_vars
  PROVE  Serial'
<1>1. CASE UNCHANGED vars
  BY <1>1, SerialSame DEF IInv, vars
<1> QED
  BY <1>1, SerialStart, SerialEntry, SerialStartupLoad, SerialBuild, SerialEdit, SerialRest
     DEF Next, Quality

-----------------------------------------------------------------------------
(* What a build may swap in, and what the two files say.                   *)

(* A build that is left alone keeps its verdicts; one that is forgotten    *)
(* has none.                                                               *)
LEMMA PassedStep ==
  ASSUME IInv, [Next]_vars
  PROVE  Passed'
<1> USE DEF IInv
<1>1. Passed /\ build \in Build \cup {None} /\ None \notin Build
  BY NoneApart DEF TypeOK
<1>2. CASE build' = None \/ build' = build
  BY <1>1, <1>2 DEF Passed
<1>3. CASE build' = Disowned(build)
  BY <1>1, <1>3 DEF Passed, Disowned, Build
<1>4. CASE \E st \in {"fetch", "extras"}, first \in BOOLEAN : build' = NewBuild(st, first)
  BY <1>4 DEF Passed, NewBuild
<1>5. ASSUME NEW t \in Task, BuildStep(t)
      PROVE  Passed'
  <2>1. build \in Build /\ build # None
    BY <1>5, BuildUp
  <2>2. CASE Finish(t)
    BY <2>2 DEF Finish, Passed
  <2>3. CASE Review(t)
    BY <2>1, <2>3 DEF Review, Passed, Errors, Build
  <2>4. CASE Rejected(t) \/ \E x \in BOOLEAN : Fetched(t, x) \/ CompileDone(t, x) \/ GroupsDone(t, x)
    <3>1. build'.st # "review"
      BY <2>1, <2>4 DEF Rejected, Fetched, CompileDone, GroupsDone, Build
    <3> QED
      BY <3>1 DEF Passed
  <2> QED
    BY <1>5, <2>2, <2>3, <2>4
       DEF BuildStep, CompileFails, FirstBuild, Kept, RejectMarked, Swap, Extras
<1>6. CASE UNCHANGED vars
  BY <1>2, <1>6 DEF vars
<1>7. ASSUME NEW young \in BOOLEAN, StartupLoad(young)
      PROVE  Passed'
  BY <1>2, <1>4, <1>7 DEF StartupLoad, Finish, Begin
<1>8. CASE ScheduleTick \/ RunNow \/ RunNowGo \/ Request \/ StartupQueue
  BY <1>2, <1>4, <1>8 DEF ScheduleTick, RunNow, RunNowGo, Request, StartupQueue, Begin
<1>9. CASE \/ \E r \in Rule : EditRules(r)
           \/ \E s \in Source \cup {NoSource} : EditSources(s)
           \/ EditInterval
           \/ \E c \in [src : Source \cup {NoSource}, rules : Rule] : Hangup(c)
  BY <1>2, <1>3, <1>9 DEF EditRules, EditSources, EditInterval, Hangup, Finish
<1>10. CASE \/ \E young \in BOOLEAN : StartMapped(young)
            \/ \E young \in BOOLEAN, q \in Quality : StartPrefork(young, q)
            \/ Crash
            \/ \E bad \in BOOLEAN : OrphanDone(bad)
            \/ \E w \in Sibling : Sync(w) \/ SiblingLoad(w)
  BY <1>2, <1>10 DEF StartMapped, StartPrefork, StartWith, Crash, OrphanDone, Sync, SiblingLoad
<1> QED
  BY <1>5, <1>6, <1>7, <1>8, <1>9, <1>10 DEF Next

(* A step that leaves the two files alone, and either leaves the build's   *)
(* facts alone or is not between the two writes.                           *)
InGroups == build # None /\ build.st = "groups"

LEMMA BelievableSame ==
  ASSUME TypeOK, Believable, UNCHANGED <<disk, torn>>,
         \/ build' = build
         \/ build' = Disowned(build)
         \/ ~InGroups /\ ~InGroups'
  PROVE  Believable'
<1>1. UNCHANGED <<table, meta, torn>>
  BY DEF disk
<1>2. CASE build' = build
  BY <1>1, <1>2 DEF Believable, Whole
<1>3. CASE build' = Disowned(build)
  <2>1. InGroups' <=> InGroups
    <3>1. CASE build = None
      BY <1>3, <3>1 DEF InGroups, Disowned
    <3>2. CASE build \in Build
      <4>1. build' \in Build /\ build'.st = build.st
        BY <1>3, <3>2, NoneApart DEF Disowned, Build
      <4> QED BY <4>1, <3>2, NoneApart DEF InGroups
    <3> QED BY <3>1, <3>2 DEF TypeOK
  <2>2. InGroups => build'.src = build.src /\ build'.is = build.is
    BY <1>3 DEF InGroups, Disowned, TypeOK, Build
  <2> QED
    BY <1>1, <2>1, <2>2 DEF Believable, Whole, InGroups
<1>4. CASE ~InGroups /\ ~InGroups'
  BY <1>1, <1>4 DEF Believable, Whole, InGroups
<1> QED
  BY <1>2, <1>3, <1>4

LEMMA BelievableBuild ==
  ASSUME IInv, NEW t \in Task, BuildStep(t)
  PROVE  Believable'
<1> USE DEF IInv
<1>1. build \in Build /\ build # None
  BY BuildUp
<1>2. ASSUME NEW x \in BOOLEAN, Fetched(t, x)
      PROVE  Believable'
  BY <1>1, <1>2, BelievableSame DEF Fetched, At, InGroups, Build
<1>3. ASSUME NEW x \in BOOLEAN, CompileDone(t, x)
      PROVE  Believable'
  <2>1. /\ build'.st = "groups" /\ build'.src = build.src /\ build'.is = Outcome(build.is, x)
        /\ table' = [src |-> build.src, is |-> Outcome(build.is, x)]
    BY <1>1, <1>3 DEF CompileDone, Replace, Build
  <2>2. build' \in Build \/ Finish(t)
    BY <1>3, TypeBuild
  <2>3. build' # None
    BY <1>3, <2>2, BuildUp, Building, SerialBuild DEF Serial, OneBuild, CompileDone, board, At
  <2> QED
    BY <2>1, <2>3 DEF Believable
<1>4. ASSUME NEW g \in BOOLEAN, GroupsDone(t, g)
      PROVE  Believable'
  <2>1. ~torn => table = [src |-> build.src, is |-> build.is]
    BY <1>1, <1>4 DEF Believable, GroupsDone, At
  <2>2. build'.st = "check" /\ meta' = Sidecar(build) /\ UNCHANGED <<table, torn>>
    BY <1>1, <1>4 DEF GroupsDone, Build
  <2> QED
    <3>1. Sidecar(build).src = build.src /\ (Sidecar(build).complete => build.is # "short")
      BY DEF Sidecar
    <3>2. Whole' \/ torn'
      BY <2>1, <2>2, <3>1 DEF Whole
    <3> QED
      BY <2>2, <3>2 DEF Believable
<1>5. CASE Kept(t) \/ RejectMarked(t)
  <2>1. meta' = Incomplete /\ build' = None
    BY <1>5 DEF Kept, RejectMarked, Finish
  <2>2. meta' # None => ~meta'.complete
    BY <2>1 DEF Incomplete, TypeOK, Meta
  <2> QED
    BY <2>1, <2>2 DEF Believable, Whole
<1>6. CASE CompileFails(t) \/ FirstBuild(t) \/ Swap(t) \/ Extras(t)
  <2>1. Finish(t) /\ UNCHANGED <<disk, torn>> /\ build.st # "groups"
    BY <1>6 DEF CompileFails, FirstBuild, Swap, Extras, At
  <2> QED
    BY <2>1, BelievableSame DEF Finish, InGroups
<1>7. CASE Rejected(t) \/ Review(t)
  BY <1>1, <1>7, BelievableSame DEF Rejected, Review, At, InGroups, Build
<1> QED
  BY <1>2, <1>3, <1>4, <1>5, <1>6, <1>7 DEF BuildStep

LEMMA BelievableStep ==
  ASSUME IInv, [Next]_vars
  PROVE  Believable'
<1> USE DEF IInv
<1>1. lock = None => build = None
  BY Building DEF Serial
<1>2. ~up => build = None
  BY DEF Serial, Idle, Quiet
<1>3. CASE UNCHANGED vars
  BY <1>3, BelievableSame DEF vars
<1>4. ASSUME NEW young \in BOOLEAN, StartMapped(young)
      PROVE  Believable'
  BY <1>2, <1>4, BelievableSame DEF StartMapped, StartWith
<1>5. ASSUME NEW young \in BOOLEAN, NEW q \in Quality, StartPrefork(young, q)
      PROVE  Believable'
  <2> DEFINE b == [src |-> cfg.src, rules |-> cfg.rules, is |-> q]
  <2>1. build' = None /\ build = None
    BY <1>2, <1>5 DEF StartPrefork, StartWith
  <2>2. CASE Matches(cfg.src) /\ young
    BY <1>5, <2>1, <2>2, BelievableSame DEF StartPrefork
  <2>3. CASE ~(Matches(cfg.src) /\ young)
    <3>1. table' = Compiled(b).corpus /\ meta' = Sidecar(b)
      BY <1>5, <2>3 DEF StartPrefork
    <3> QED
      BY <2>1, <3>1 DEF Believable, Whole, Compiled, Sidecar
  <2> QED
    BY <2>2, <2>3
<1>6. ASSUME NEW young \in BOOLEAN, StartupLoad(young)
      PROVE  Believable'
  <2>1. build = None /\ UNCHANGED <<disk, torn>>
    BY <1>1, <1>6 DEF StartupLoad
  <2>2. ~InGroups'
    BY <1>6 DEF StartupLoad, Finish, Begin, NewBuild, InGroups
  <2> QED
    BY <2>1, <2>2, BelievableSame DEF InGroups
<1>7. CASE ScheduleTick \/ RunNow \/ RunNowGo \/ Request \/ StartupQueue
  <2>1. UNCHANGED <<disk, torn>>
    BY <1>7 DEF ScheduleTick, RunNow, RunNowGo, Request, StartupQueue
  <2>2. build' = build \/ (build = None /\ build' = NewBuild("fetch", FALSE))
    BY <1>1, <1>7 DEF ScheduleTick, RunNow, RunNowGo, Request, StartupQueue, Begin, MayBuild
  <2> QED
    BY <2>1, <2>2, BelievableSame DEF NewBuild, InGroups
<1>8. CASE \/ \E r \in Rule : EditRules(r)
           \/ \E s \in Source \cup {NoSource} : EditSources(s)
           \/ \E w \in Sibling : Sync(w) \/ SiblingLoad(w)
  BY <1>8, BelievableSame DEF EditRules, EditSources, Sync, SiblingLoad
<1>9. CASE EditInterval \/ \E c \in [src : Source \cup {NoSource}, rules : Rule] : Hangup(c)
  <2>1. CancelSchedule /\ UNCHANGED disk /\ build' = IF Cancelled THEN None ELSE Disowned(build)
    BY <1>9 DEF EditInterval, Hangup, Finish
  <2>2. CASE torn' = torn /\ (Cancelled => ~InGroups)
    <3>1. UNCHANGED <<disk, torn>>
      BY <2>1, <2>2
    <3>2. build' = Disowned(build) \/ (~InGroups /\ ~InGroups')
      BY <2>1, <2>2 DEF InGroups
    <3> QED
      BY <3>1, <3>2, BelievableSame
  <2>3. CASE Cancelled /\ InGroups
    BY <2>1, <2>3 DEF CancelSchedule, InGroups, Unfinished, Believable
  <2>4. CASE torn'
    BY <2>4 DEF Believable
  <2> QED
    BY <2>1, <2>2, <2>3, <2>4 DEF CancelSchedule, TypeOK
<1>10. CASE Crash
  <2>1. build' = None /\ UNCHANGED disk /\ torn' = (torn \/ Unfinished(build))
    BY <1>10 DEF Crash
  <2>2. CASE torn'
    BY <2>2 DEF Believable
  <2>3. CASE ~torn'
    <3>1. ~torn /\ ~InGroups
      BY <2>1, <2>3 DEF Unfinished, InGroups
    <3>2. Whole'
      BY <2>1, <3>1 DEF Believable, InGroups, Whole, disk
    <3> QED
      BY <2>1, <3>2 DEF Believable
  <2> QED
    BY <2>2, <2>3
<1>11. ASSUME NEW bad \in BOOLEAN, OrphanDone(bad)
       PROVE  Believable'
  BY <1>11 DEF OrphanDone, Believable
<1> QED
  BY <1>3, <1>4, <1>5, <1>6, <1>7, <1>8, <1>9, <1>10, <1>11, BelievableBuild DEF Next

-----------------------------------------------------------------------------
LEMMA Start ==
  ASSUME Init
  PROVE  IInv
<1>1. TypeOK
  BY EngineType DEF Init, Quiet, TypeOK
<1>2. Serial
  BY NoneApart DEF Init, Quiet, Serial, OneBuild, BoardTruthful, Claimed, Idle, Task
<1>3. Passed /\ Believable
  BY DEF Init, Quiet, Passed, Believable, Whole
<1> QED
  BY <1>1, <1>2, <1>3 DEF IInv

LEMMA Step ==
  ASSUME IInv, [Next]_vars
  PROVE  IInv'
BY TypeStep, SerialStep, PassedStep, BelievableStep DEF IInv

LEMMA Always == Spec => []IInv
BY Start, Step, PTL DEF Spec

(* refresh_blocklists, JobBoard: at most one build runs, its holder is the *)
(* task that took the lock, and the console's record is running exactly    *)
(* while one run owns it or has claimed it, whatever was scheduled,        *)
(* requested, cancelled or killed.                                         *)
THEOREM BuildsSerialised == Spec => []BuildsSound
<1>1. IInv => BuildsSound
  BY DEF IInv, Serial, BuildsSound
<1> QED
  BY <1>1, Always, PTL

(* _write_meta, mark_table_incomplete: with no build under way and no      *)
(* crash or cancelled build between the two files, a sidecar that says     *)
(* "complete" names the source list the table was compiled from, and the   *)
(* table misses none of its sources.                                       *)
THEOREM SidecarHonest == Spec => []TrustedIsWhole
<1>1. IInv => TrustedIsWhole
  BY Building DEF IInv, Serial, Believable, Whole, TrustedIsWhole
<1> QED
  BY <1>1, Always, PTL

(* _refresh_locked: every swap of the primary installs a corpus that       *)
(* breaks no assertion, and that misses no source unless the settings were *)
(* saved while it was being built.                                         *)
THEOREM SwapGuarded == Spec => PrimaryGuarded
<1>1. IInv => GuardedSwap
  BY Building DEF IInv, Serial, Passed, GuardedSwap, Swap, At
<1> QED
  BY <1>1, Always, PTL DEF PrimaryGuarded
=============================================================================
