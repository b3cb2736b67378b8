------------------------------- MODULE Update -------------------------------
(***************************************************************************)
(* Self-update: checking the release index, staging, verifying, testing    *)
(* and installing a wheel, rolling back, and what a restart finds.         *)
(*                                                                         *)
(* Source: trench/ops/update.py, and app.py for the schedule and for the   *)
(* Updater being rebuilt when a setting of its group is saved.  A version  *)
(* is a number in the order of parse_version; a pre-release is marked.  A  *)
(* wheel is what it says (name, version) and what is in it.  pip, systemd  *)
(* and the index are external; pip may be killed half way (Broken).        *)
(***************************************************************************)
EXTENDS Naturals, FiniteSets

CONSTANTS
  First,           \* the version installed at first
  Index,           \* releases: [v, pre, ours, holds, imports]
  Channel,         \* "stable" or "prerelease"
  Mode,            \* "off", "notify" or "auto"
  CanApply,        \* Install.can_apply
  MaxBuilds, MaxFaults, MaxSaves, MaxAsks,     \* bounds
  Broken, None

UpdateConstants == IsFiniteSet(Index) /\ \A r \in Index : r.v \in Nat

VARIABLES
  running, installed,
  disk,            \* updates.json
  updater,         \* App.updater: how many have been built
  state,           \* Updater.state of each
  checking,        \* tick is waiting for the index
  job,             \* what holds _applying: [stage, rel]
  building,        \* App._building is held
  builds, faults, saves, asks

old == <<running, installed>>
mem == <<updater, state>>
counts == <<builds, faults, saves, asks>>
vars == <<old, disk, mem, checking, job, building, counts>>

Objects == 1 .. MaxSaves + MaxFaults + 1
Fresh == [latest |-> None, previous |-> None, applied |-> None, restart |-> FALSE]

Init ==
  /\ running = First /\ installed = First
  /\ disk = Fresh
  /\ updater = 1 /\ state = [u \in Objects |-> Fresh]
  /\ checking = {}
  /\ job = [u \in Objects |-> None]
  /\ building = FALSE
  /\ builds = 0 /\ faults = 0 /\ saves = 0 /\ asks = 0

-----------------------------------------------------------------------------
(* _check_index, pick_release and _our_wheel.                              *)

IsOurs == Index = {} \/ \E r \in Index : r.ours
Candidates(want) ==
  {r \in Index : /\ r.ours
                 /\ IF want # None THEN r.v = want
                    ELSE r.v > running /\ (r.pre => Channel = "prerelease")}
Newest(S) == CHOOSE r \in S : \A q \in S : q.v <= r.v
PickRelease(want) == IF IsOurs /\ Candidates(want) # {} THEN Newest(Candidates(want)) ELSE None

Save(u) == disk' = state'[u]
Started(u, rel) == job' = [job EXCEPT ![u] = [stage |-> "download", rel |-> rel]]
Failed(u) == job' = [job EXCEPT ![u] = None]

-----------------------------------------------------------------------------
(* The scheduler's job: check, and in auto mode apply.                     *)

Tick ==
  /\ Mode # "off" /\ updater \notin checking
  /\ checking' = checking \cup {updater}
  /\ UNCHANGED <<old, disk, mem, job, building, counts>>

(* check, then the rest of tick.  The index may not answer.                *)
CheckEnds(u) ==
  /\ u \in checking
  /\ checking' = checking \ {u}
  /\ LET rel == PickRelease(None)
     IN /\ state' = [state EXCEPT ![u].latest = IF rel = None THEN running ELSE rel.v]
        /\ Save(u)
        /\ IF rel # None /\ Mode = "auto" /\ CanApply /\ ~building /\ job[u] = None
           THEN Started(u, rel) ELSE UNCHANGED job
  /\ UNCHANGED <<old, updater, building, counts>>

CheckFails(u) ==
  /\ u \in checking /\ faults < MaxFaults
  /\ faults' = faults + 1
  /\ checking' = checking \ {u}
  /\ UNCHANGED mem /\ Save(u)
  /\ UNCHANGED <<old, job, building, builds, saves, asks>>

(* The API: apply, or apply a pinned version; rollback.                    *)
Ask(want, down) ==
  /\ asks < MaxAsks /\ asks' = asks + 1
  /\ Mode # "off" /\ CanApply /\ ~building /\ job[updater] = None
  /\ LET rel == PickRelease(want)
     IN /\ rel # None
        /\ down \/ rel.v > running
        /\ Started(updater, rel)
  /\ UNCHANGED <<old, disk, mem, checking, building, builds, faults, saves>>

Apply == \E want \in {None} \cup {r.v : r \in Index} : Ask(want, FALSE)
Rollback == state[updater].previous # None /\ Ask(state[updater].previous, TRUE)

-----------------------------------------------------------------------------
(* _apply_locked.  A fault: the download is not what the index named, a    *)
(* command fails or runs out of time.  All before the install is staged.   *)

At(u, stage) == job[u] # None /\ job[u].stage = stage
To(u, stage) == job' = [job EXCEPT ![u].stage = stage]

Download(u) ==
  /\ At(u, "download")
  /\ \/ To(u, "smoke") /\ UNCHANGED faults
     \/ faults < MaxFaults /\ faults' = faults + 1 /\ Failed(u)
  /\ UNCHANGED <<old, disk, mem, checking, building, builds, saves, asks>>

SmokeTest_Imports(u) ==      \* mutant: whatever imports will do
  /\ At(u, "smoke")
  /\ IF job[u].rel.imports THEN To(u, "install") ELSE Failed(u)
  /\ UNCHANGED <<old, disk, mem, checking, building, counts>>

SmokeTest(u) ==
  /\ At(u, "smoke")
  /\ IF job[u].rel.imports /\ job[u].rel.holds = job[u].rel.v THEN To(u, "install") ELSE Failed(u)
  /\ UNCHANGED <<old, disk, mem, checking, building, counts>>

Install(u) ==
  /\ At(u, "install")
  /\ \/ installed' = job[u].rel.holds /\ To(u, "record") /\ UNCHANGED faults
     \/ /\ faults < MaxFaults /\ faults' = faults + 1
        /\ installed' \in {installed, Broken}
        /\ Failed(u)
  /\ UNCHANGED <<running, disk, mem, checking, building, builds, saves, asks>>

(* After pip has ended: the state, the audit line, the restart request.    *)
Record(u) ==
  /\ At(u, "record")
  /\ state' = [state EXCEPT ![u] = [@ EXCEPT !.previous = running, !.applied = job[u].rel.v, !.restart = TRUE]]
  /\ Save(u)
  /\ Failed(u)
  /\ UNCHANGED <<old, updater, checking, building, counts>>

-----------------------------------------------------------------------------
(* Around it.                                                              *)

(* _adopt_updates: a setting of the group was saved.                       *)
Rebuild ==
  /\ saves < MaxSaves /\ saves' = saves + 1
  /\ updater' = updater + 1
  /\ state' = [state EXCEPT ![updater + 1] = disk]
  /\ UNCHANGED <<old, disk, checking, job, building, builds, faults, asks>>

BuildStarts ==
  /\ ~building /\ builds < MaxBuilds
  /\ building' = TRUE /\ builds' = builds + 1
  /\ UNCHANGED <<old, disk, mem, checking, job, faults, saves, asks>>

BuildEnds == building /\ building' = FALSE /\ UNCHANGED <<old, disk, mem, checking, job, counts>>

(* The process ends, asked to or not, and starts from what is installed.   *)
Restart ==
  /\ installed # Broken /\ faults < MaxFaults
  /\ faults' = faults + 1
  /\ running' = installed
  /\ updater' = updater + 1
  /\ state' = [state EXCEPT ![updater + 1] = disk]
  /\ checking' = {} /\ job' = [u \in Objects |-> None] /\ building' = FALSE
  /\ UNCHANGED <<installed, disk, builds, saves, asks>>

Next ==
  \/ Tick \/ Apply \/ Rollback \/ Rebuild \/ BuildStarts \/ BuildEnds \/ Restart
  \/ \E u \in Objects : \/ CheckEnds(u) \/ CheckFails(u)
                        \/ Download(u) \/ SmokeTest(u) \/ Install(u) \/ Record(u)

Spec == Init /\ [][Next]_vars

-----------------------------------------------------------------------------
(* What is installed is a wheel of this project that imports and is the    *)
(* version the index said, whatever failed, was retried, rolled back, or   *)
(* ran twice (Updater._download, _smoke_test); only pip itself can leave   *)
(* something else.                                                         *)
InstalledIsVetted ==
  installed \in {First, Broken} \cup {r.v : r \in {q \in Index : q.ours /\ q.imports /\ q.holds = q.v}}

(* Once an update is installed there is a version to roll back to (the     *)
(* error of Updater.rollback: "nothing to roll back to: no update has been *)
(* applied").                                                              *)
(* The code does not guarantee it: see the observations in README.md.      *)
RollbackPossible ==
  installed \notin {First, Broken} /\ (\A u \in Objects : job[u] = None) => disk.previous # None

=============================================================================
