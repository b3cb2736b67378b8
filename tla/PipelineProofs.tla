--------------------------- MODULE PipelineProofs ---------------------------
(***************************************************************************)
(* Proofs about the parts that carry a query: the pipeline, the forwarder  *)
(* and the listeners, each under its own specification and for any values  *)
(* of its constants.  Pipeline: coalescing keeps its books, no client is   *)
(* answered from another view or subnet, the worker keeps no verdict of    *)
(* old rules, and one query's misfortune is contained.  Forwarder: no      *)
(* resolution fails while an upstream has not failed it.  Listeners: the   *)
(* caps hold, and no slot leaks.                                           *)
(***************************************************************************)
EXTENDS MCQueries, FiniteSetTheorems, SequenceTheorems, WellFoundedInduction, TLAPS

-----------------------------------------------------------------------------
(* The inductive invariant.                                                *)

(* A key is a client's when it is what key_for gives for it, with the      *)
(* client's scope or (safe search) without one.  An answer is at home      *)
(* under a key when it came from the key's upstream set, for everyone or   *)
(* for the key's own subnet, or else is marked as astray; it is filed      *)
(* there when it is that and not valid more widely.                        *)
KeyOf(k, c) == k \in Key /\ c \in Client /\ k.view = ViewOf[c] /\ k.ecs \in {ScopeOf[c], Global}
AtHome(o, k) ==
  o \in Origin /\ o.view = k.view /\ (o.ecs \in {Global, k.ecs} \/ o.astray)
Filed(o, k) ==
  o \in Origin /\ o.view = k.view /\ (o.ecs = k.ecs \/ (o.astray /\ k.ecs = Global))

(* Whoever runs a fetch, leader, follower or prefetch, its key is that of  *)
(* the client it runs for, and what it brings back is at home there.       *)
FetchesSound ==
  \A t \in Task : fetch[t].st # "off" =>
    /\ KeyOf(fetch[t].key, fetch[t].ctx)
    /\ fetch[t].st = "follow" => fetch[t].on \in Task
    /\ fetch[t].st = "done" => fetch[t].res # "none"
    /\ fetch[t].res = "ok" => AtHome(fetch[t].org, fetch[t].key)

(* A query asks its own client's question, and waits only on a fetch.      *)
QueriesSound ==
  \A q \in Query :
    /\ pc[q] = "idle" => fetch[q].st = "off" /\ out[q] = NoOut
    /\ pc[q] = "waiting" => fetch[q].st # "off"
    /\ pc[q] # "idle" => KeyOf(want[q], who[q])
    /\ fetch[q].st # "off" => fetch[q].key = want[q]

(* _scoped_key files an answer where it is valid, or marked as astray.     *)
CacheSound == \A k \in Key : cache[k] # None => Filed(cache[k].org, k)

(* Rules without a flush are replaced once, by the first load.             *)
OldRules == ~loaded => prior = None

IInv ==
  /\ TypeOK /\ OneQueryPerKey /\ FollowersHaveALeader
  /\ FetchesSound /\ QueriesSound /\ CacheSound /\ CacheIsVetted /\ OriginsStayApart
  /\ OldRules

-----------------------------------------------------------------------------
(* Keys and records.  `rules` only names four of the variables.            *)
USE DEF rules

LEMMA KeyForIsOf ==
  ASSUME NEW c \in Client, NEW n \in Name
  PROVE  KeyOf(KeyFor(c, n), c)
BY PipelineAssumption DEF KeyOf, KeyFor, Key

LEMMA UnscopedKey ==
  ASSUME NEW k \in Key
  PROVE  /\ Unscoped(k) \in Key /\ Unscoped(k).view = k.view /\ Unscoped(k).ecs = Global
         /\ k.ecs = Global => Unscoped(k) = k
BY PipelineAssumption DEF Unscoped, Key

LEMMA WarmKeyType ==
  ASSUME NEW n \in Name
  PROVE  WarmKey(n) \in Key /\ WarmKey(n).view = DefaultView /\ WarmKey(n).ecs = Global
BY PipelineAssumption DEF WarmKey, Key

LEMMA GivenFiled ==
  ASSUME NEW v \in View, NEW k \in Key, k.view = v, NEW d \in Scope
  PROVE  /\ Given(v, k, d) \in Origin /\ Given(v, k, d).view = v
         /\ ScopedKey(k, d) \in Key
         /\ d = Global \/ d = k.ecs \/ k.ecs = Global =>
              AtHome(Given(v, k, d), k) /\ Filed(Given(v, k, d), ScopedKey(k, d))
BY UnscopedKey DEF Given, Origin, ScopedKey, Filed, AtHome

LEMMA OffType == Off \in Fetch /\ Off.st = "off" /\ Off.res = "none"
BY DEF Off, Fetch, Results

LEMMA ScheduledType ==
  ASSUME NEW c \in Client, NEW k \in Key
  PROVE  /\ Scheduled(c, k) \in Fetch
         /\ Scheduled(c, k).st = "sched" /\ Scheduled(c, k).ctx = c
         /\ Scheduled(c, k).key = k /\ Scheduled(c, k).res = "none"
BY DEF Scheduled, Off, Fetch, Results

LEMMA DoneType ==
  ASSUME TypeOK, NEW t \in Task, NEW r \in Results, NEW o \in Origin \cup {None}
  PROVE  /\ Done(t, r, o) \in Fetch
         /\ Done(t, r, o).st = "done" /\ Done(t, r, o).res = r
         /\ Done(t, r, o).org = o
         /\ Done(t, r, o).key = fetch[t].key /\ Done(t, r, o).ctx = fetch[t].ctx
<1>1. fetch[t] \in Fetch
  BY DEF TypeOK
<1> QED
  BY <1>1 DEF Done, Fetch

LEMMA OutTypes ==
  /\ NoOut \in Out /\ NoOut.kind = "none"
  /\ Failed \in Out /\ Failed.kind = "servfail"
  /\ Bare \in Out /\ Bare.kind = "bare"
  /\ \A how \in {"filter", "cached", "forwarded", "stale"} :
       Blocked(how) \in Out /\ Blocked(how).kind = "blocked"
  /\ \A how \in {"cached", "forwarded", "stale"}, o \in Origin \cup {None} :
       Answer(how, o) \in Out /\ Answer(how, o).kind = "answer" /\ Answer(how, o).org = o
BY DEF NoOut, Failed, Bare, Blocked, Answer, Out

(* What the cache may hold under a key: an entry that is filed there and   *)
(* whose verdict is accounted for.                                         *)
Sound(e, k) == e \in Entry /\ Filed(e.org, k) /\ Current(e.vet)

LEMMA EntrySound ==
  ASSUME TypeOK, CacheSound, CacheIsVetted, NEW k \in Key, cache[k] # None
  PROVE  /\ Sound(cache[k], k)
         /\ \A a \in {"fresh", "near", "stale"} : Sound([cache[k] EXCEPT !.age = a], k)
<1>1. cache[k] \in Entry /\ Filed(cache[k].org, k) /\ Current(cache[k].vet)
  BY DEF TypeOK, CacheSound, CacheIsVetted
<1>2. ASSUME NEW a \in {"fresh", "near", "stale"}
      PROVE  /\ [cache[k] EXCEPT !.age = a] \in Entry
             /\ [cache[k] EXCEPT !.age = a].org = cache[k].org
             /\ [cache[k] EXCEPT !.age = a].vet = cache[k].vet
  BY <1>1 DEF Entry
<1> QED
  BY <1>1, <1>2 DEF Sound

(* What the shared table has for a key was filed under it by a worker that *)
(* runs the same code.                                                     *)
LEMMA SharedSound ==
  ASSUME NEW k \in Key, NEW e \in Shared(k), e # None
  PROVE  Sound(e, k)
<1>1. e \in [age : {"fresh", "near"}, org : FiledUnder(k), vet : {"sibling"}]
  BY DEF Shared
<1>2. e.org \in FiledUnder(k) /\ e.vet = "sibling"
  BY <1>1
<1>3. PICK d \in Scope : e.org = Given(k.view, k, d) /\ (k.ecs # Global => d = k.ecs)
  BY <1>2 DEF FiledUnder, Key
<1>4. e.org \in Origin /\ Filed(e.org, k)
  <2>1. ScopedKey(k, d) = k
    BY <1>3, UnscopedKey DEF ScopedKey
  <2> QED
    BY <1>3, <2>1, GivenFiled DEF Key
<1>5. e \in Entry
  BY <1>1, <1>4 DEF Entry, Verdict
<1> QED
  BY <1>2, <1>4, <1>5 DEF Sound, Current

(* Both ways of reading the cache bring what is sound under the key read.  *)
LEMMA ReadSound ==
  ASSUME TypeOK, CacheSound, CacheIsVetted, NEW k \in Key,
         NEW e \in Gets(k) \cup Stales(k), e # None
  PROVE  Sound(e, k)
<1>1. e \in Shared(k) \/ (e = cache[k] /\ cache[k] # None)
  BY DEF Gets, Stales, Live, Retained
<1> QED
  BY <1>1, SharedSound, EntrySound

(* What is filed for everyone in a key's view is at home under the key.    *)
LEMMA HomeAtBoth ==
  ASSUME NEW k \in Key, NEW h \in {k, Unscoped(k)}, NEW o, Filed(o, h)
  PROVE  AtHome(o, k) /\ h \in Key
BY UnscopedKey DEF Filed, AtHome

LEMMA AnswerType ==
  ASSUME NEW k \in Key, NEW e, Sound(e, k), NEW how \in {"cached", "stale"}
  PROVE  /\ Answer(how, e.org) \in Out /\ Answer(how, e.org).kind = "answer"
         /\ Answer(how, e.org).org = e.org /\ AtHome(e.org, k)
<1>1. e.org \in Origin /\ AtHome(e.org, k)
  BY DEF Sound, Filed, AtHome
<1> QED
  BY <1>1, OutTypes

(* A read that keeps what it read, or any other store of a sound entry.    *)
LEMMA KeepStep ==
  ASSUME TypeOK, CacheSound, CacheIsVetted, NEW k \in Key, NEW e, Sound(e, k),
         cache' = [cache EXCEPT ![k] = e], UNCHANGED <<filter, prior>>
  PROVE  cache' \in [Key -> Entry \cup {None}] /\ CacheSound' /\ CacheIsVetted'
<1>1. cache' \in [Key -> Entry \cup {None}]
  BY DEF TypeOK, Sound
<1>2. cache'[k] = e /\ \A j \in Key \ {k} : cache'[j] = cache[j]
  BY DEF TypeOK
<1>3. CacheSound'
  BY <1>2 DEF CacheSound, Sound, Filed
<1>4. CacheIsVetted'
  BY <1>2 DEF CacheIsVetted, Sound, Current
<1> QED
  BY <1>1, <1>3, <1>4

-----------------------------------------------------------------------------
(* The end of a leader.                                                    *)

(* What a leader leaves to itself and to its followers.                    *)
Outcome(a, t) ==
  /\ a \in Fetch /\ a.st = "done" /\ a.key = fetch[t].key
  /\ a.ctx = fetch[t].ctx /\ a.res # "none"
  /\ a.res = "ok" => AtHome(a.org, fetch[t].key)

LEMMA SettleTask ==
  ASSUME IInv, NEW t \in Task, fetch[t].st = "lead", NEW own, NEW theirs,
         Outcome(own, t) \/ own = Off, Outcome(theirs, t),
         Settle(t, own, theirs), NEW u \in Task
  PROVE  /\ fetch'[u] \in Fetch
         /\ fetch'[u].st \in {"off", "done"} \/ (fetch'[u] = fetch[u] /\ u # t /\ ~Follows(u, t))
         /\ u = t \/ Follows(u, t) => fetch'[u].st \in {"off", "done"}
         /\ fetch'[u].st # "off" =>
              /\ fetch[u].st # "off"
              /\ fetch'[u].key = fetch[u].key /\ fetch'[u].ctx = fetch[u].ctx
              /\ fetch'[u].st = "done" => fetch'[u] = fetch[u] \/ fetch'[u].res # "none"
              /\ fetch'[u].res = "ok" => fetch'[u] = fetch[u] \/ AtHome(fetch'[u].org, fetch[u].key)
         /\ u \in Query /\ u # t => (fetch'[u].st = "off" <=> fetch[u].st = "off")
<1> USE DEF IInv
<1>1. fetch[u] \in Fetch /\ fetch[t] \in Fetch
  BY DEF TypeOK
<1>2. fetch'[u] =
        IF u \in Key /\ (u = t \/ Follows(u, t)) THEN Off
        ELSE IF u = t THEN own
        ELSE IF Follows(u, t) THEN [theirs EXCEPT !.ctx = fetch[u].ctx, !.key = fetch[u].key]
        ELSE fetch[u]
  BY DEF Settle, Delivered
<1>3. u \notin Query \/ u \notin Key
  BY PipelineIds
<1>4. CASE u \in Key /\ (u = t \/ Follows(u, t))
  BY <1>2, <1>3, <1>4, OffType
<1>5. CASE u \notin Key /\ u = t
  BY <1>1, <1>2, <1>5, OffType DEF Outcome
<1>6. CASE u \notin Key /\ u # t /\ Follows(u, t)
  <2> DEFINE a == [theirs EXCEPT !.ctx = fetch[u].ctx, !.key = fetch[u].key]
  <2>1. fetch'[u] = a
    BY <1>2, <1>6
  <2>2. fetch[u].ctx \in Client \cup {None} /\ fetch[u].key \in Key \cup {None}
    BY <1>1 DEF Fetch
  <2>3. /\ a \in Fetch /\ a.st = "done" /\ a.key = fetch[u].key /\ a.ctx = fetch[u].ctx
        /\ a.res = theirs.res /\ a.org = theirs.org
    BY <2>2 DEF Outcome, Fetch
  <2>4. fetch[u].key = fetch[t].key /\ fetch[u].st = "follow"
    BY <1>6 DEF FollowersHaveALeader, Follows
  <2> QED
    BY <1>6, <2>1, <2>3, <2>4 DEF Outcome
<1>7. CASE u # t /\ ~Follows(u, t)
  BY <1>1, <1>2, <1>7
<1> QED
  BY <1>4, <1>5, <1>6, <1>7

LEMMA SettleStep ==
  ASSUME IInv, NEW t \in Task, fetch[t].st = "lead", NEW own, NEW theirs,
         Outcome(own, t) \/ own = Off, Outcome(theirs, t), Settle(t, own, theirs)
  PROVE  /\ fetch' \in [Task -> Fetch] /\ inflight' \in [Key -> Task \cup {None}]
         /\ OneQueryPerKey' /\ FollowersHaveALeader' /\ FetchesSound'
<1> USE DEF IInv
<1>1. /\ fetch' \in [Task -> Fetch]
      /\ inflight' = [inflight EXCEPT ![fetch[t].key] = None]
  <2>1. \A u \in Task : fetch'[u] \in Fetch
    BY SettleTask
  <2>2. DOMAIN fetch' = Task /\ fetch' = [u \in Task |-> fetch'[u]]
    BY DEF Settle, Delivered
  <2> QED
    BY <2>1, <2>2 DEF Settle
<1>2. inflight' \in [Key -> Task \cup {None}]
  BY <1>1 DEF TypeOK
<1>3. inflight[fetch[t].key] = t /\ fetch[t].key \in Key
  BY DEF OneQueryPerKey, FetchesSound, KeyOf
<1>4. \A u \in Task : fetch'[u].st \in {"lead", "follow"} =>
        fetch'[u] = fetch[u] /\ u # t /\ ~Follows(u, t)
  BY SettleTask
<1>5. OneQueryPerKey'
  <2> SUFFICES ASSUME NEW u \in Task, fetch'[u].st = "lead"
               PROVE  inflight'[fetch'[u].key] = u
    BY DEF OneQueryPerKey
  <2>1. fetch'[u] = fetch[u] /\ u # t
    BY <1>4
  <2>2. inflight[fetch[u].key] = u /\ fetch[u].key \in Key
    BY <2>1 DEF OneQueryPerKey, FetchesSound, KeyOf
  <2> QED
    BY <1>1, <1>3, <2>1, <2>2 DEF TypeOK
<1>6. \A u \in Task : u # t /\ fetch[u].st = "lead" => fetch'[u] = fetch[u]
  BY DEF Settle, Delivered, Follows
<1>7. FollowersHaveALeader'
  <2>1. ASSUME NEW k \in Key, inflight'[k] # None
        PROVE  fetch'[inflight'[k]].st = "lead" /\ fetch'[inflight'[k]].key = k
    <3>1. inflight'[k] = inflight[k] /\ k # fetch[t].key
      BY <1>1, <1>3, <2>1 DEF TypeOK
    <3>2. inflight[k] \in Task /\ fetch[inflight[k]].st = "lead" /\ fetch[inflight[k]].key = k
      BY <2>1, <3>1 DEF FollowersHaveALeader, TypeOK
    <3> QED
      BY <1>6, <3>1, <3>2
  <2>2. ASSUME NEW u \in Task, fetch'[u].st = "follow"
        PROVE  /\ fetch'[u].on # u
               /\ fetch'[fetch'[u].on].st = "lead"
               /\ fetch'[fetch'[u].on].key = fetch'[u].key
    <3>1. fetch'[u] = fetch[u] /\ ~Follows(u, t)
      BY <1>4, <2>2
    <3>2. fetch[u].on # t /\ fetch[u].st = "follow"
      BY <2>2, <3>1 DEF Follows
    <3>3. /\ fetch[u].on # u
          /\ fetch[fetch[u].on].st = "lead" /\ fetch[fetch[u].on].key = fetch[u].key
      BY <3>2 DEF FollowersHaveALeader
    <3>4. fetch[u].on \in Task
      BY <3>2 DEF FetchesSound
    <3> QED
      BY <1>6, <3>1, <3>2, <3>3, <3>4
  <2> QED
    BY <2>1, <2>2 DEF FollowersHaveALeader
<1>8. FetchesSound'
  <2> SUFFICES ASSUME NEW u \in Task, fetch'[u].st # "off"
               PROVE  /\ KeyOf(fetch'[u].key, fetch'[u].ctx)
                      /\ fetch'[u].st = "follow" => fetch'[u].on \in Task
                      /\ fetch'[u].st = "done" => fetch'[u].res # "none"
                      /\ fetch'[u].res = "ok" => AtHome(fetch'[u].org, fetch'[u].key)
    BY DEF FetchesSound, KeyOf, AtHome
  <2>1. /\ fetch[u].st # "off"
        /\ fetch'[u].key = fetch[u].key /\ fetch'[u].ctx = fetch[u].ctx
        /\ fetch'[u].st = "done" => fetch'[u] = fetch[u] \/ fetch'[u].res # "none"
        /\ fetch'[u].res = "ok" => fetch'[u] = fetch[u] \/ AtHome(fetch'[u].org, fetch[u].key)
    BY SettleTask
  <2>2. fetch'[u].st = "follow" => fetch'[u].on \in Task
    BY <1>4 DEF FetchesSound
  <2> QED
    BY <2>1, <2>2 DEF FetchesSound
<1> QED
  BY <1>1, <1>2, <1>5, <1>7, <1>8

(* A task that leads nothing is scheduled, or is over: nobody waits on it. *)
LEMMA AloneStep ==
  ASSUME IInv, NEW t \in Task, NEW a \in Fetch, fetch[t].st # "lead",
         \/ a.st = "off"
         \/ a.st = "sched" /\ KeyOf(a.key, a.ctx) /\ a.res = "none",
         fetch' = [fetch EXCEPT ![t] = a], UNCHANGED inflight
  PROVE  /\ fetch' \in [Task -> Fetch] /\ inflight' \in [Key -> Task \cup {None}]
         /\ OneQueryPerKey' /\ FollowersHaveALeader' /\ FetchesSound'
<1> USE DEF IInv
<1>1. fetch' \in [Task -> Fetch] /\ inflight' \in [Key -> Task \cup {None}]
  BY DEF TypeOK
<1>2. /\ \A u \in Task \ {t} : fetch'[u] = fetch[u]
      /\ fetch'[t] = a
  BY DEF TypeOK
<1>3. OneQueryPerKey'
  BY <1>2 DEF OneQueryPerKey
<1>4. \A u \in Task : fetch[u].st = "lead" => fetch'[u] = fetch[u]
  BY <1>2
<1>5. FollowersHaveALeader'
  <2>1. ASSUME NEW k \in Key, inflight'[k] # None
        PROVE  fetch'[inflight'[k]].st = "lead" /\ fetch'[inflight'[k]].key = k
    BY <1>4, <2>1 DEF FollowersHaveALeader, TypeOK
  <2>2. ASSUME NEW u \in Task, fetch'[u].st = "follow"
        PROVE  /\ fetch'[u].on # u
               /\ fetch'[fetch'[u].on].st = "lead"
               /\ fetch'[fetch'[u].on].key = fetch'[u].key
    <3>1. fetch'[u] = fetch[u] /\ fetch[u].on \in Task
      BY <1>2, <2>2 DEF FetchesSound
    <3> QED
      BY <1>4, <2>2, <3>1 DEF FollowersHaveALeader
  <2> QED
    BY <2>1, <2>2 DEF FollowersHaveALeader
<1>6. FetchesSound'
  <2> SUFFICES ASSUME NEW u \in Task, fetch'[u].st # "off"
               PROVE  /\ KeyOf(fetch'[u].key, fetch'[u].ctx)
                      /\ fetch'[u].st = "follow" => fetch'[u].on \in Task
                      /\ fetch'[u].st = "done" => fetch'[u].res # "none"
                      /\ fetch'[u].res = "ok" => AtHome(fetch'[u].org, fetch'[u].key)
    BY DEF FetchesSound, KeyOf, AtHome
  <2>1. CASE u = t
    BY <1>2, <2>1
  <2>2. CASE u # t
    BY <1>2, <2>2 DEF FetchesSound
  <2> QED
    BY <2>1, <2>2
<1> QED
  BY <1>1, <1>3, <1>5, <1>6

LEMMA BeginStep ==
  ASSUME IInv, NEW t \in Task, Begin(t)
  PROVE  IInv'
<1> USE DEF IInv
<1> DEFINE k == fetch[t].key
<1>1. fetch[t].st = "sched" /\ fetch[t] \in Fetch /\ KeyOf(k, fetch[t].ctx) /\ k \in Key
  BY DEF Begin, TypeOK, FetchesSound, KeyOf
<1>2. /\ \A u \in Task \ {t} : fetch'[u] = fetch[u]
      /\ \A u \in Task : fetch[u].st = "lead" => u # t
  BY <1>1 DEF Begin, TypeOK
<1>3. CASE inflight[k] # None
  <2> DEFINE a == [fetch[t] EXCEPT !.st = "follow", !.on = inflight[k]]
  <2>1. inflight[k] \in Task
    BY <1>1, <1>3 DEF TypeOK
  <2>2. /\ a \in Fetch /\ a.st = "follow" /\ a.on = inflight[k] /\ a.key = k
        /\ a.ctx = fetch[t].ctx /\ a.res = fetch[t].res /\ a.org = fetch[t].org
    BY <1>1, <2>1 DEF Fetch
  <2>3. fetch' = [fetch EXCEPT ![t] = a] /\ UNCHANGED inflight
    BY <1>3 DEF Begin
  <2> HIDE DEF a
  <2>4. fetch' \in [Task -> Fetch] /\ fetch'[t] = a
    BY <2>2, <2>3 DEF TypeOK
  <2>5. fetch[inflight[k]].st = "lead" /\ fetch[inflight[k]].key = k
    BY <1>1, <1>3 DEF FollowersHaveALeader
  <2>6. OneQueryPerKey'
    BY <1>2, <2>2, <2>3, <2>4 DEF OneQueryPerKey
  <2>7. FollowersHaveALeader'
    <3>1. ASSUME NEW j \in Key, inflight'[j] # None
          PROVE  fetch'[inflight'[j]].st = "lead" /\ fetch'[inflight'[j]].key = j
      BY <1>2, <2>3, <3>1 DEF FollowersHaveALeader, TypeOK
    <3>2. ASSUME NEW u \in Task, fetch'[u].st = "follow"
          PROVE  /\ fetch'[u].on # u
                 /\ fetch'[fetch'[u].on].st = "lead"
                 /\ fetch'[fetch'[u].on].key = fetch'[u].key
      <4>1. CASE u = t
        BY <1>2, <2>1, <2>2, <2>4, <2>5, <4>1
      <4>2. CASE u # t
        BY <1>2, <3>2, <4>2 DEF FollowersHaveALeader, FetchesSound
      <4> QED
        BY <4>1, <4>2
    <3> QED
      BY <3>1, <3>2 DEF FollowersHaveALeader
  <2>8. FetchesSound'
    BY <1>1, <1>2, <2>1, <2>2, <2>4 DEF FetchesSound, KeyOf, AtHome
  <2>9. QueriesSound'
    <3>1. \A q \in Query : fetch'[q].st # "off" <=> fetch[q].st # "off"
      BY <1>1, <1>2, <2>2, <2>4 DEF Task
    <3>2. \A q \in Query : fetch'[q].key = fetch[q].key
      BY <1>1, <1>2, <2>2, <2>4 DEF Task
    <3> QED
      BY <3>1, <3>2 DEF Begin, QueriesSound, KeyOf
  <2> QED
    BY <2>3, <2>4, <2>6, <2>7, <2>8, <2>9
       DEF Begin, TypeOK, CacheSound, Filed, CacheIsVetted, Current, OriginsStayApart, OldRules
<1>4. CASE inflight[k] = None
  <2> DEFINE a == [fetch[t] EXCEPT !.st = "lead"]
  <2>1. t # None
    BY PipelineIds DEF Task
  <2>2. /\ a \in Fetch /\ a.st = "lead" /\ a.key = k
        /\ a.ctx = fetch[t].ctx /\ a.res = fetch[t].res /\ a.org = fetch[t].org
    BY <1>1 DEF Fetch
  <2>3. fetch' = [fetch EXCEPT ![t] = a] /\ inflight' = [inflight EXCEPT ![k] = t]
    BY <1>4 DEF Begin
  <2> HIDE DEF a
  <2>4. /\ fetch' \in [Task -> Fetch] /\ fetch'[t] = a
        /\ inflight' \in [Key -> Task \cup {None}]
    BY <2>2, <2>3 DEF TypeOK
  <2>5. inflight'[k] = t /\ \A j \in Key \ {k} : inflight'[j] = inflight[j]
    BY <1>1, <2>3 DEF TypeOK
  <2>6. OneQueryPerKey'
    <3> SUFFICES ASSUME NEW u \in Task, fetch'[u].st = "lead"
                 PROVE  inflight'[fetch'[u].key] = u
      BY DEF OneQueryPerKey
    <3>1. CASE u = t
      BY <2>2, <2>4, <2>5, <3>1
    <3>2. CASE u # t
      <4>1. inflight[fetch[u].key] = u /\ fetch[u].key \in Key
        BY <1>2, <3>2 DEF OneQueryPerKey, FetchesSound, KeyOf
      <4>2. fetch[u].key # k
        BY <1>4, <4>1, PipelineIds DEF Task
      <4> QED
        BY <1>2, <2>5, <3>2, <4>1, <4>2
    <3> QED
      BY <3>1, <3>2
  <2>7. FollowersHaveALeader'
    <3>1. ASSUME NEW j \in Key, inflight'[j] # None
          PROVE  fetch'[inflight'[j]].st = "lead" /\ fetch'[inflight'[j]].key = j
      <4>1. CASE j = k
        BY <2>2, <2>4, <2>5, <4>1
      <4>2. CASE j # k
        BY <1>2, <2>5, <3>1, <4>2 DEF FollowersHaveALeader, TypeOK
      <4> QED
        BY <4>1, <4>2
    <3>2. ASSUME NEW u \in Task, fetch'[u].st = "follow"
          PROVE  /\ fetch'[u].on # u
                 /\ fetch'[fetch'[u].on].st = "lead"
                 /\ fetch'[fetch'[u].on].key = fetch'[u].key
      <4>1. u # t
        BY <2>2, <2>4, <3>2
      <4> QED
        BY <1>2, <3>2, <4>1 DEF FollowersHaveALeader, FetchesSound
    <3> QED
      BY <3>1, <3>2 DEF FollowersHaveALeader
  <2>8. FetchesSound'
    BY <1>1, <1>2, <2>2, <2>4 DEF FetchesSound, KeyOf, AtHome
  <2>9. QueriesSound'
    <3>1. \A q \in Query : fetch'[q].st # "off" <=> fetch[q].st # "off"
      BY <1>1, <1>2, <2>2, <2>4 DEF Task
    <3>2. \A q \in Query : fetch'[q].key = fetch[q].key
      BY <1>1, <1>2, <2>2, <2>4 DEF Task
    <3> QED
      BY <3>1, <3>2 DEF Begin, QueriesSound, KeyOf
  <2> QED
    BY <2>3, <2>4, <2>6, <2>7, <2>8, <2>9
       DEF Begin, TypeOK, CacheSound, Filed, CacheIsVetted, Current, OriginsStayApart, OldRules
<1> QED
  BY <1>3, <1>4

(* A query is answered by what a lookup under its key brought, which the   *)
(* cache keeps; the entry under this key may be refreshed on the side.     *)
LEMMA ReadStep ==
  ASSUME IInv, NEW q \in Query, NEW c \in Client, NEW k \in Key, KeyOf(k, c), pc[q] = "idle",
         NEW h \in {k, Unscoped(k)}, NEW e \in Gets(h), e # None,
         who' = [who EXCEPT ![q] = c], want' = [want EXCEPT ![q] = k],
         pc' = [pc EXCEPT ![q] = "done"], cache' = [cache EXCEPT ![h] = e],
         out' = [out EXCEPT ![q] = Answer("cached", e.org)],
         \/ UNCHANGED fetch
         \/ fetch[k].st = "off" /\ fetch' = [fetch EXCEPT ![k] = Scheduled(c, k)],
         chain' \in SUBSET Query, UNCHANGED <<timer, inflight, warm, rules>>
  PROVE  IInv'
<1> USE DEF IInv
<1>1. fetch[q].st = "off" /\ q \in Task /\ k \in Task /\ k \notin Query
  BY PipelineIds DEF QueriesSound, Task
<1>2. h \in Key
  BY UnscopedKey
<1>3. Sound(e, h)
  BY <1>2, ReadSound
<1>4. AtHome(e.org, k)
  BY <1>3, HomeAtBoth DEF Sound
<1>5. /\ Answer("cached", e.org) \in Out /\ Answer("cached", e.org).kind = "answer"
      /\ Answer("cached", e.org).org = e.org
  BY <1>2, <1>3, AnswerType
<1>6. /\ who' \in [Query -> Client \cup {None}] /\ want' \in [Query -> Key \cup {None}]
      /\ who'[q] = c /\ want'[q] = k /\ pc'[q] = "done" /\ out'[q] = Answer("cached", e.org)
      /\ \A p \in Query \ {q} : /\ who'[p] = who[p] /\ want'[p] = want[p]
                                /\ pc'[p] = pc[p] /\ out'[p] = out[p]
  BY DEF TypeOK
<1>7. cache' \in [Key -> Entry \cup {None}] /\ CacheSound' /\ CacheIsVetted'
  BY <1>2, <1>3, KeepStep
<1>8. /\ fetch' \in [Task -> Fetch] /\ OneQueryPerKey' /\ FollowersHaveALeader' /\ FetchesSound'
      /\ \A p \in Query : fetch'[p] = fetch[p]
  <2>1. CASE UNCHANGED fetch
    BY <2>1 DEF TypeOK, OneQueryPerKey, FollowersHaveALeader, FetchesSound, KeyOf, AtHome
  <2>2. CASE fetch[k].st = "off" /\ fetch' = [fetch EXCEPT ![k] = Scheduled(c, k)]
    <3>1. /\ Scheduled(c, k) \in Fetch /\ Scheduled(c, k).st = "sched"
          /\ KeyOf(Scheduled(c, k).key, Scheduled(c, k).ctx) /\ Scheduled(c, k).res = "none"
      BY ScheduledType
    <3>2. \A p \in Query : fetch'[p] = fetch[p]
      BY <1>1, <2>2 DEF TypeOK, Task
    <3> QED
      BY <1>1, <2>2, <3>1, <3>2, AloneStep
  <2> QED
    BY <2>1, <2>2
<1>9. TypeOK'
  <2>1. out' \in [Query -> Out]
    BY <1>5 DEF TypeOK
  <2>2. pc' \in [Query -> {"idle", "waiting", "done", "gone"}]
    BY DEF TypeOK
  <2> QED
    BY <1>6, <1>7, <1>8, <2>1, <2>2 DEF TypeOK
<1>10. QueriesSound'
  BY <1>1, <1>6, <1>8 DEF QueriesSound, KeyOf
<1>11. OriginsStayApart'
  <2>1. out'[q].org.view = ViewOf[c] /\ (out'[q].org.ecs \in {Global, ScopeOf[c]} \/ out'[q].org.astray)
    BY <1>4, <1>5, <1>6 DEF AtHome, KeyOf
  <2> QED
    BY <1>6, <2>1 DEF OriginsStayApart
<1> QED
  BY <1>7, <1>8, <1>9, <1>10, <1>11 DEF OldRules

(* A query that found nothing has its fetch scheduled and waits.           *)
LEMMA AskStep ==
  ASSUME IInv, NEW q \in Query, NEW c \in Client, NEW k \in Key, KeyOf(k, c), pc[q] = "idle",
         who' = [who EXCEPT ![q] = c], want' = [want EXCEPT ![q] = k],
         pc' = [pc EXCEPT ![q] = "waiting"],
         fetch' = [fetch EXCEPT ![q] = Scheduled(c, k)],
         timer' \in [Query -> BOOLEAN], chain' \in SUBSET Query,
         UNCHANGED <<inflight, cache, warm, rules, out>>
  PROVE  IInv'
<1> USE DEF IInv
<1>1. fetch[q].st = "off" /\ q \in Task /\ out[q].kind # "answer"
  BY OutTypes DEF QueriesSound, Task
<1>2. /\ who' \in [Query -> Client \cup {None}] /\ want' \in [Query -> Key \cup {None}]
      /\ pc' \in [Query -> {"idle", "waiting", "done", "gone"}]
      /\ who'[q] = c /\ want'[q] = k /\ pc'[q] = "waiting"
      /\ \A p \in Query \ {q} : who'[p] = who[p] /\ want'[p] = want[p] /\ pc'[p] = pc[p]
  BY DEF TypeOK
<1>3. /\ Scheduled(c, k) \in Fetch /\ Scheduled(c, k).st = "sched" /\ Scheduled(c, k).key = k
      /\ KeyOf(Scheduled(c, k).key, Scheduled(c, k).ctx) /\ Scheduled(c, k).res = "none"
  BY ScheduledType
<1>4. /\ fetch' \in [Task -> Fetch] /\ inflight' \in [Key -> Task \cup {None}]
      /\ OneQueryPerKey' /\ FollowersHaveALeader' /\ FetchesSound'
  BY <1>1, <1>3, AloneStep
<1>5. /\ fetch'[q] = Scheduled(c, k)
      /\ \A p \in Query \ {q} : fetch'[p] = fetch[p]
  BY <1>1 DEF TypeOK, Task
<1>6. TypeOK'
  BY <1>2, <1>4 DEF TypeOK
<1>7. QueriesSound'
  <2> SUFFICES ASSUME NEW p \in Query
               PROVE  /\ pc'[p] = "idle" => fetch'[p].st = "off" /\ out'[p] = NoOut
                      /\ pc'[p] = "waiting" => fetch'[p].st # "off"
                      /\ pc'[p] # "idle" => KeyOf(want'[p], who'[p])
                      /\ fetch'[p].st # "off" => fetch'[p].key = want'[p]
    BY DEF QueriesSound, KeyOf
  <2>1. CASE p = q
    BY <1>2, <1>3, <1>5, <2>1
  <2>2. CASE p # q
    BY <1>2, <1>5, <2>2 DEF QueriesSound
  <2> QED
    BY <2>1, <2>2
<1>8. OriginsStayApart'
  BY <1>1, <1>2 DEF OriginsStayApart
<1>9. CacheSound' /\ CacheIsVetted' /\ OldRules'
  BY DEF CacheSound, Filed, CacheIsVetted, Current, OldRules
<1> QED
  BY <1>4, <1>6, <1>7, <1>8, <1>9

LEMMA ArriveStep ==
  ASSUME IInv, NEW q \in Query, NEW c \in Client, NEW n \in Name, Arrive(q, c, n)
  PROVE  IInv'
<1> DEFINE k == KeyFor(c, n)
<1>1. KeyOf(k, c) /\ k \in Key
  BY KeyForIsOf DEF KeyOf
<1>2. /\ pc[q] = "idle"
      /\ who' = [who EXCEPT ![q] = c] /\ want' = [want EXCEPT ![q] = k]
      /\ UNCHANGED <<chain, inflight, warm, rules>>
      /\ chain' \in SUBSET Query
  BY DEF Arrive, IInv, TypeOK
<1>3. \/ /\ pc' = [pc EXCEPT ![q] = "done"]
         /\ out' = [out EXCEPT ![q] = Blocked("filter")]
         /\ UNCHANGED <<timer, fetch, cache>>
      \/ /\ \E h \in {k, Unscoped(k)} : \E e \in Gets(h) :
              /\ Hit(k, h, e)
              /\ pc' = [pc EXCEPT ![q] = "done"]
              /\ cache' = [cache EXCEPT ![h] = e]
              /\ out' = [out EXCEPT ![q] = Answer("cached", e.org)]
              /\ fetch' = IF WantsPrefetch(k, IF h = k THEN e ELSE cache[k])
                          THEN [fetch EXCEPT ![k] = Scheduled(c, k)] ELSE fetch
         /\ UNCHANGED timer
      \/ /\ pc' = [pc EXCEPT ![q] = "waiting"]
         /\ fetch' = [fetch EXCEPT ![q] = Scheduled(c, k)]
         /\ timer' = [timer EXCEPT ![q] = Retained(k)]
         /\ UNCHANGED <<cache, out>>
  BY DEF Arrive
<1> HIDE DEF k
<1>4. CASE /\ pc' = [pc EXCEPT ![q] = "done"]
           /\ out' = [out EXCEPT ![q] = Blocked("filter")]
           /\ UNCHANGED <<timer, fetch, cache>>
  <2> USE DEF IInv
  <2>1. /\ who' \in [Query -> Client \cup {None}] /\ want' \in [Query -> Key \cup {None}]
        /\ who'[q] = c /\ want'[q] = k /\ pc'[q] = "done" /\ out'[q].kind = "blocked"
        /\ out' \in [Query -> Out]
        /\ \A p \in Query \ {q} : /\ who'[p] = who[p] /\ want'[p] = want[p]
                                  /\ pc'[p] = pc[p] /\ out'[p] = out[p]
    BY <1>1, <1>2, <1>4, OutTypes DEF TypeOK
  <2>2. TypeOK'
    BY <1>2, <1>4, <2>1 DEF TypeOK
  <2>3. OneQueryPerKey' /\ FollowersHaveALeader' /\ FetchesSound'
    BY <1>2, <1>4 DEF OneQueryPerKey, FollowersHaveALeader, FetchesSound, KeyOf, AtHome
  <2>4. QueriesSound'
    BY <1>1, <1>2, <1>4, <2>1 DEF QueriesSound, KeyOf
  <2>5. OriginsStayApart'
    BY <2>1 DEF OriginsStayApart
  <2>6. CacheSound' /\ CacheIsVetted' /\ OldRules'
    BY <1>2, <1>4 DEF CacheSound, Filed, CacheIsVetted, Current, OldRules
  <2> QED
    BY <2>2, <2>3, <2>4, <2>5, <2>6
<1>5. ASSUME NEW h \in {k, Unscoped(k)}, NEW e \in Gets(h), Hit(k, h, e),
             pc' = [pc EXCEPT ![q] = "done"], cache' = [cache EXCEPT ![h] = e],
             out' = [out EXCEPT ![q] = Answer("cached", e.org)],
             fetch' = IF WantsPrefetch(k, IF h = k THEN e ELSE cache[k])
                      THEN [fetch EXCEPT ![k] = Scheduled(c, k)] ELSE fetch,
             UNCHANGED timer
      PROVE  IInv'
  <2>1. e # None
    BY <1>5 DEF Hit
  <2>2. \/ UNCHANGED fetch
        \/ fetch[k].st = "off" /\ fetch' = [fetch EXCEPT ![k] = Scheduled(c, k)]
    BY <1>1, <1>5 DEF WantsPrefetch, Prefetching
  <2> QED
    BY <1>1, <1>2, <1>5, <2>1, <2>2, ReadStep
<1>6. CASE /\ pc' = [pc EXCEPT ![q] = "waiting"]
           /\ fetch' = [fetch EXCEPT ![q] = Scheduled(c, k)]
           /\ timer' = [timer EXCEPT ![q] = Retained(k)]
           /\ UNCHANGED <<cache, out>>
  <2>1. timer' \in [Query -> BOOLEAN]
    BY <1>6 DEF IInv, TypeOK, Retained
  <2> QED
    BY <1>1, <1>2, <1>6, <2>1, AskStep
<1> QED
  BY <1>3, <1>4, <1>5, <1>6

LEMMA ArriveSafeStep ==
  ASSUME IInv, NEW q \in Query, NEW c \in Client, NEW n \in Name, ArriveSafe(q, c, n)
  PROVE  IInv'
<1> DEFINE k == Unscoped(KeyFor(c, n))
<1>1. KeyOf(k, c) /\ k \in Key
  BY KeyForIsOf, UnscopedKey DEF KeyOf
<1>2. /\ pc[q] = "idle"
      /\ who' = [who EXCEPT ![q] = c] /\ want' = [want EXCEPT ![q] = k]
      /\ UNCHANGED <<timer, inflight, warm, rules>>
      /\ chain' \in SUBSET Query /\ timer' \in [Query -> BOOLEAN]
  BY DEF ArriveSafe, IInv, TypeOK
<1>3. \/ \E e \in Gets(k) \ {None} :
           /\ pc' = [pc EXCEPT ![q] = "done"]
           /\ cache' = [cache EXCEPT ![k] = e]
           /\ out' = [out EXCEPT ![q] = Answer("cached", e.org)]
           /\ UNCHANGED fetch
      \/ /\ pc' = [pc EXCEPT ![q] = "waiting"]
         /\ fetch' = [fetch EXCEPT ![q] = Scheduled(c, k)]
         /\ UNCHANGED <<cache, out>>
  BY DEF ArriveSafe
<1> HIDE DEF k
<1>4. ASSUME NEW e \in Gets(k) \ {None}, pc' = [pc EXCEPT ![q] = "done"],
             cache' = [cache EXCEPT ![k] = e],
             out' = [out EXCEPT ![q] = Answer("cached", e.org)], UNCHANGED fetch
      PROVE  IInv'
  BY <1>1, <1>2, <1>4, ReadStep
<1>5. CASE /\ pc' = [pc EXCEPT ![q] = "waiting"]
           /\ fetch' = [fetch EXCEPT ![q] = Scheduled(c, k)]
           /\ UNCHANGED <<cache, out>>
  BY <1>1, <1>2, <1>5, AskStep
<1> QED
  BY <1>3, <1>4, <1>5

(* The steps by which a query gets its answer, or gives up.                *)

(* Something retained, here or in the shared table, is served late.        *)
LEMMA ServedStep ==
  ASSUME IInv, NEW q \in Query, KeyOf(want[q], who[q]),
         NEW e \in Stales(want[q]), Served(q, e), UNCHANGED <<who, want, rules>>
  PROVE  /\ out' \in [Query -> Out] /\ out'[q].kind = "answer" /\ OriginsStayApart'
         /\ \A p \in Query \ {q} : out'[p] = out[p]
         /\ cache' \in [Key -> Entry \cup {None}] /\ CacheSound' /\ CacheIsVetted'
<1> USE DEF IInv
<1>1. want[q] \in Key /\ e # None
  BY DEF KeyOf, Served
<1>2. Sound(e, want[q])
  BY <1>1, ReadSound
<1>3. PICK a : a = Answer("stale", e.org)
  OBVIOUS
<1>4. a \in Out /\ a.kind = "answer" /\ a.org = e.org /\ AtHome(a.org, want[q])
  BY <1>1, <1>2, <1>3, AnswerType
<1>5. out' = [out EXCEPT ![q] = a] /\ cache' = [cache EXCEPT ![want[q]] = e]
  BY <1>3 DEF Served
<1>6. out' \in [Query -> Out] /\ out'[q] = a /\ \A p \in Query \ {q} : out'[p] = out[p]
  BY <1>4, <1>5 DEF TypeOK
<1>7. OriginsStayApart'
  BY <1>4, <1>6 DEF OriginsStayApart, AtHome, KeyOf
<1> QED
  BY <1>1, <1>2, <1>4, <1>5, <1>6, <1>7, KeepStep

LEMMA TimerStep ==
  ASSUME IInv, NEW q \in Query, TimerFires(q)
  PROVE  IInv'
<1> USE DEF IInv
<1>1. /\ pc[q] = "waiting" /\ KeyOf(want[q], who[q]) /\ want[q] \in Key
      /\ UNCHANGED <<who, want, chain, fetch, inflight, warm, rules>>
      /\ timer' \in [Query -> BOOLEAN]
  BY DEF TimerFires, QueriesSound, KeyOf, TypeOK
<1>2. OneQueryPerKey' /\ FollowersHaveALeader' /\ FetchesSound' /\ OldRules'
  BY <1>1 DEF OneQueryPerKey, FollowersHaveALeader, FetchesSound, KeyOf, AtHome, OldRules
<1>3. CASE UNCHANGED <<pc, cache, out>>
  BY <1>1, <1>2, <1>3 DEF TypeOK, QueriesSound, KeyOf, OriginsStayApart, CacheSound, Filed,
                          CacheIsVetted, Current
<1>4. ASSUME NEW e \in Stales(want[q]), Served(q, e), pc' = [pc EXCEPT ![q] = "done"]
      PROVE  IInv'
  <2>1. /\ out' \in [Query -> Out] /\ OriginsStayApart'
        /\ \A p \in Query \ {q} : out'[p] = out[p]
        /\ cache' \in [Key -> Entry \cup {None}] /\ CacheSound' /\ CacheIsVetted'
    BY <1>1, <1>4, ServedStep
  <2>2. TypeOK'
    BY <1>1, <1>4, <2>1 DEF TypeOK
  <2>3. QueriesSound'
    BY <1>1, <1>4, <2>1 DEF QueriesSound, KeyOf, TypeOK
  <2> QED
    BY <1>2, <2>1, <2>2, <2>3
<1> QED
  BY <1>3, <1>4 DEF TimerFires

(* The answer of a fetch reaches the query that waited for it, or a reply  *)
(* that is no answer does.                                                 *)
LEMMA ReplyStep ==
  ASSUME IInv, NEW q \in Query, pc[q] = "waiting", fetch[q].st = "done", NEW o \in Out,
         o.kind = "answer" => AtHome(o.org, want[q]),
         pc' = [pc EXCEPT ![q] = "done"], timer' \in [Query -> BOOLEAN],
         fetch' = [fetch EXCEPT ![q] = Off], out' = [out EXCEPT ![q] = o],
         UNCHANGED <<who, want, chain, inflight, cache, warm, rules>>
  PROVE  IInv'
<1> USE DEF IInv
<1>1. q \in Task /\ KeyOf(want[q], who[q])
  BY DEF Task, QueriesSound
<1>2. /\ fetch' \in [Task -> Fetch] /\ inflight' \in [Key -> Task \cup {None}]
      /\ OneQueryPerKey' /\ FollowersHaveALeader' /\ FetchesSound'
  BY <1>1, OffType, AloneStep
<1>3. TypeOK'
  BY <1>2 DEF TypeOK
<1>4. QueriesSound'
  BY <1>1, OffType DEF QueriesSound, KeyOf, TypeOK, Task
<1>5. CacheSound' /\ CacheIsVetted' /\ OldRules'
  BY DEF CacheSound, Filed, CacheIsVetted, Current, OldRules
<1>6. OriginsStayApart'
  BY <1>1 DEF OriginsStayApart, TypeOK, AtHome, KeyOf
<1> QED
  BY <1>2, <1>3, <1>4, <1>5, <1>6

(* What a finished fetch tells the query that waited for it.               *)
LEMMA TellsHome ==
  ASSUME IInv, NEW q \in Query, pc[q] = "waiting", fetch[q].st = "done", fetch[q].res = "ok"
  PROVE  LET a == Answer("forwarded", fetch[q].org)
         IN  a \in Out /\ a.kind = "answer" /\ AtHome(a.org, want[q])
<1>1. q \in Task /\ AtHome(fetch[q].org, want[q])
  BY DEF IInv, Task, FetchesSound, QueriesSound
<1>2. fetch[q].org \in Origin
  BY <1>1 DEF AtHome
<1> QED
  BY <1>1, <1>2, OutTypes

LEMMA ResumeStep ==
  ASSUME IInv, NEW q \in Query, Resume(q)
  PROVE  IInv'
<1>1. /\ pc[q] = "waiting" /\ fetch[q].st = "done" /\ q \in Task
      /\ pc' = [pc EXCEPT ![q] = "done"] /\ timer' \in [Query -> BOOLEAN]
      /\ fetch' = [fetch EXCEPT ![q] = Off]
      /\ UNCHANGED <<who, want, chain, inflight, warm, rules>>
  BY DEF Resume, Task, IInv, TypeOK
<1>2. ASSUME NEW o \in Out, o.kind = "answer" => AtHome(o.org, want[q]),
             out' = [out EXCEPT ![q] = o], UNCHANGED cache
      PROVE  IInv'
  BY <1>1, <1>2, ReplyStep
<1>3. CASE /\ fetch[q].res = "ok"
           /\ out' = [out EXCEPT ![q] = Answer("forwarded", fetch[q].org)]
           /\ UNCHANGED cache
  BY <1>1, <1>2, <1>3, TellsHome
<1>4. CASE out' = [out EXCEPT ![q] = Blocked("forwarded")] /\ UNCHANGED cache
  BY <1>2, <1>4, OutTypes
<1>5. CASE out' = [out EXCEPT ![q] = Failed] /\ UNCHANGED cache
  BY <1>2, <1>5, OutTypes
<1>6. ASSUME NEW e \in Stales(want[q]), Served(q, e)
      PROVE  IInv'
  <2> USE DEF IInv
  <2>1. KeyOf(want[q], who[q])
    BY <1>1 DEF QueriesSound
  <2>2. /\ out' \in [Query -> Out] /\ OriginsStayApart'
        /\ \A p \in Query \ {q} : out'[p] = out[p]
        /\ cache' \in [Key -> Entry \cup {None}] /\ CacheSound' /\ CacheIsVetted'
    BY <1>1, <1>6, <2>1, ServedStep
  <2>3. /\ fetch' \in [Task -> Fetch] /\ inflight' \in [Key -> Task \cup {None}]
        /\ OneQueryPerKey' /\ FollowersHaveALeader' /\ FetchesSound'
    BY <1>1, OffType, AloneStep
  <2>4. TypeOK'
    BY <1>1, <2>2, <2>3 DEF TypeOK
  <2>5. QueriesSound'
    BY <1>1, <2>1, <2>2, OffType DEF QueriesSound, KeyOf, TypeOK, Task
  <2>6. OldRules'
    BY <1>1 DEF OldRules
  <2> QED
    BY <2>2, <2>3, <2>4, <2>5, <2>6
<1> QED
  BY <1>3, <1>4, <1>5, <1>6 DEF Resume

LEMMA ResumeSafeStep ==
  ASSUME IInv, NEW q \in Query, ResumeSafe(q)
  PROVE  IInv'
<1>1. /\ pc[q] = "waiting" /\ fetch[q].st = "done"
      /\ pc' = [pc EXCEPT ![q] = "done"] /\ timer' \in [Query -> BOOLEAN]
      /\ fetch' = [fetch EXCEPT ![q] = Off]
      /\ UNCHANGED <<who, want, chain, inflight, cache, warm, rules>>
  BY DEF ResumeSafe, IInv, TypeOK
<1>2. CASE /\ fetch[q].res = "ok"
           /\ out' = [out EXCEPT ![q] = Answer("forwarded", fetch[q].org)]
  BY <1>1, <1>2, TellsHome, ReplyStep
<1>3. CASE out' = [out EXCEPT ![q] = Bare]
  BY <1>1, <1>3, OutTypes, ReplyStep
<1> QED
  BY <1>2, <1>3 DEF ResumeSafe

LEMMA UnobservedStep ==
  ASSUME IInv, NEW q \in Query, Unobserved(q)
  PROVE  IInv'
<1> USE DEF IInv
<1>1. /\ pc[q] \in {"done", "gone"} /\ fetch[q].st = "done" /\ q \in Task
      /\ fetch' = [fetch EXCEPT ![q] = Off]
      /\ UNCHANGED <<pc, who, want, timer, chain, inflight, cache, warm, rules, out>>
  BY DEF Unobserved, Task
<1>2. fetch' \in [Task -> Fetch] /\ OneQueryPerKey' /\ FollowersHaveALeader' /\ FetchesSound'
  BY <1>1, OffType, AloneStep
<1>3. QueriesSound'
  BY <1>1, OffType DEF QueriesSound, KeyOf, TypeOK, Task
<1> QED
  BY <1>1, <1>2, <1>3 DEF TypeOK, CacheSound, Filed, CacheIsVetted, Current, OriginsStayApart, OldRules

(* What ending a leader leaves of the queries: each keeps its own fetch,   *)
(* but the one that led and was cancelled.                                 *)
LEMMA SettledQueries ==
  ASSUME IInv, NEW t \in Task, fetch[t].st = "lead", NEW own, NEW theirs,
         Outcome(own, t) \/ (own = Off /\ pc'[t] = "gone"), Outcome(theirs, t),
         Settle(t, own, theirs), UNCHANGED <<who, want, out>>,
         \/ UNCHANGED pc
         \/ t \in Query /\ pc[t] = "waiting" /\ pc' = [pc EXCEPT ![t] = "gone"]
  PROVE  QueriesSound'
<1> USE DEF IInv
<1> SUFFICES ASSUME NEW q \in Query
             PROVE  /\ pc'[q] = "idle" => fetch'[q].st = "off" /\ out'[q] = NoOut
                    /\ pc'[q] = "waiting" => fetch'[q].st # "off"
                    /\ pc'[q] # "idle" => KeyOf(want'[q], who'[q])
                    /\ fetch'[q].st # "off" => fetch'[q].key = want'[q]
  BY DEF QueriesSound, KeyOf
<1>1. q \in Task
  BY DEF Task
<1>2. /\ fetch'[q].st # "off" => fetch[q].st # "off" /\ fetch'[q].key = fetch[q].key
      /\ q # t => (fetch'[q].st = "off" <=> fetch[q].st = "off")
  BY <1>1, SettleTask
<1>3. fetch'[t] = own \/ t \notin Query
  BY PipelineIds DEF Settle, Delivered
<1>4. /\ pc'[q] = "idle" => pc[q] = "idle"
      /\ pc'[q] = "waiting" => pc[q] = "waiting"
      /\ pc'[q] # "idle" => pc[q] # "idle"
  BY DEF TypeOK
<1>5. q = t /\ pc'[q] = "waiting" => fetch'[q].st # "off"
  BY <1>3 DEF Outcome
<1> QED
  BY <1>2, <1>4, <1>5 DEF QueriesSound

LEMMA CancelStep ==
  ASSUME IInv, NEW q \in Query, Cancel(q)
  PROVE  IInv'
<1> USE DEF IInv
<1>1. /\ pc[q] = "waiting" /\ q \in Task
      /\ pc' = [pc EXCEPT ![q] = "gone"] /\ timer' = [timer EXCEPT ![q] = FALSE]
      /\ UNCHANGED <<who, want, chain, cache, warm, rules, out>>
  BY DEF Cancel, Task
<1>2. CacheSound' /\ CacheIsVetted' /\ OriginsStayApart' /\ OldRules'
  BY <1>1 DEF CacheSound, Filed, CacheIsVetted, Current, OriginsStayApart, OldRules
<1>3. pc' \in [Query -> {"idle", "waiting", "done", "gone"}] /\ timer' \in [Query -> BOOLEAN]
      /\ pc'[q] = "gone" /\ \A p \in Query \ {q} : pc'[p] = pc[p]
  BY <1>1 DEF TypeOK
<1>4. CASE UNCHANGED <<fetch, inflight>>
  <2>1. OneQueryPerKey' /\ FollowersHaveALeader' /\ FetchesSound'
    BY <1>4 DEF OneQueryPerKey, FollowersHaveALeader, FetchesSound, KeyOf, AtHome
  <2>2. QueriesSound'
    BY <1>1, <1>3, <1>4 DEF QueriesSound, KeyOf
  <2> QED
    BY <1>1, <1>2, <1>3, <1>4, <2>1, <2>2 DEF TypeOK
<1>5. CASE fetch[q].st = "lead" /\ Settle(q, Off, Done(q, "err", None))
  <2>1. Outcome(Done(q, "err", None), q)
    BY <1>1, DoneType DEF Outcome, Results
  <2>2. /\ fetch' \in [Task -> Fetch] /\ inflight' \in [Key -> Task \cup {None}]
        /\ OneQueryPerKey' /\ FollowersHaveALeader' /\ FetchesSound'
    BY <1>1, <1>5, <2>1, SettleStep
  <2>3. QueriesSound'
    BY <1>1, <1>3, <1>5, <2>1, SettledQueries
  <2> QED
    BY <1>1, <1>2, <1>3, <2>2, <2>3 DEF TypeOK
<1>6. CASE fetch[q].st # "lead" /\ fetch' = [fetch EXCEPT ![q] = Off] /\ UNCHANGED inflight
  <2>1. /\ fetch' \in [Task -> Fetch] /\ inflight' \in [Key -> Task \cup {None}]
        /\ OneQueryPerKey' /\ FollowersHaveALeader' /\ FetchesSound'
    BY <1>1, <1>6, OffType, AloneStep
  <2>2. QueriesSound'
    BY <1>1, <1>3, <1>6, OffType DEF QueriesSound, KeyOf, TypeOK, Task
  <2> QED
    BY <1>1, <1>2, <1>3, <2>1, <2>2 DEF TypeOK
<1> QED
  BY <1>4, <1>5, <1>6 DEF Cancel

-----------------------------------------------------------------------------
(* What the cache is given.                                                *)

LEMMA AnswerStep ==
  ASSUME IInv, NEW t \in Task, NEW d \in Scope, UpstreamAnswers(t, d)
  PROVE  IInv'
<1> USE DEF IInv
<1> DEFINE c == fetch[t].ctx
           k == fetch[t].key
           o == Given(ViewOf[c], k, d)
           e == [age |-> "fresh", org |-> o, vet |-> VetFor(c)]
<1>1. /\ fetch[t].st = "lead" /\ d \in {Global, ScopeOf[c]}
      /\ UNCHANGED <<pc, who, want, timer, chain, warm, rules, out>>
  BY DEF UpstreamAnswers
<1>2. KeyOf(k, c) /\ k \in Key /\ c \in Client
  BY <1>1 DEF FetchesSound, KeyOf
<1>3. /\ o \in Origin /\ AtHome(o, k)
      /\ ScopedKey(k, d) \in Key /\ Filed(o, ScopedKey(k, d))
  <2>1. d = Global \/ d = k.ecs \/ k.ecs = Global
    BY <1>1, <1>2 DEF KeyOf
  <2>2. ViewOf[c] \in View /\ k.view = ViewOf[c]
    BY <1>2, PipelineAssumption DEF KeyOf
  <2> QED
    BY <1>2, <2>1, <2>2, GivenFiled
<1>4. VetFor(c) \in Verdict /\ Current(VetFor(c))
  BY <1>2 DEF VetFor, Verdict, Current, TypeOK
<1>5. OriginsStayApart' /\ OldRules'
  BY <1>1 DEF OriginsStayApart, OldRules
<1>6. ASSUME NEW a, Outcome(a, t), Settle(t, a, a)
      PROVE  /\ fetch' \in [Task -> Fetch] /\ inflight' \in [Key -> Task \cup {None}]
             /\ OneQueryPerKey' /\ FollowersHaveALeader' /\ FetchesSound' /\ QueriesSound'
  BY <1>1, <1>6, SettleStep, SettledQueries
<1>7. CASE UNCHANGED cache /\ Settle(t, Done(t, "block", None), Done(t, "block", None))
  <2>1. Outcome(Done(t, "block", None), t)
    BY DoneType DEF Outcome, Results
  <2>2. CacheSound' /\ CacheIsVetted'
    BY <1>1, <1>7 DEF CacheSound, Filed, CacheIsVetted, Current
  <2> QED
    BY <1>1, <1>5, <1>6, <1>7, <2>1, <2>2 DEF TypeOK
<1>8. CASE /\ cache' = [cache EXCEPT ![ScopedKey(k, d)] = e]
           /\ Settle(t, Done(t, "ok", o), Done(t, "ok", o))
  <2>1. e \in Entry /\ e.org = o /\ e.vet = VetFor(c)
    BY <1>3, <1>4 DEF Entry
  <2> HIDE DEF o, e
  <2>2. Outcome(Done(t, "ok", o), t)
    BY <1>3, DoneType DEF Outcome, Results
  <2>3. Sound(e, ScopedKey(k, d))
    BY <1>3, <1>4, <2>1 DEF Sound
  <2>4. cache' \in [Key -> Entry \cup {None}] /\ CacheSound' /\ CacheIsVetted'
    BY <1>1, <1>3, <1>8, <2>3, KeepStep
  <2> QED
    BY <1>1, <1>5, <1>6, <1>8, <2>2, <2>4 DEF TypeOK
<1> QED
  BY <1>7, <1>8 DEF UpstreamAnswers

LEMMA FailStep ==
  ASSUME IInv, NEW t \in Task, NEW r \in {"err", "servfail"}, UpstreamFails(t, r)
  PROVE  IInv'
<1> USE DEF IInv
<1> DEFINE a == Done(t, r, None)
<1>1. /\ fetch[t].st = "lead" /\ Settle(t, a, a)
      /\ UNCHANGED <<pc, who, want, timer, chain, cache, warm, rules, out>>
  BY DEF UpstreamFails
<1>2. Outcome(a, t)
  BY DoneType DEF Outcome, Results
<1> HIDE DEF a
<1>3. /\ fetch' \in [Task -> Fetch] /\ inflight' \in [Key -> Task \cup {None}]
      /\ OneQueryPerKey' /\ FollowersHaveALeader' /\ FetchesSound' /\ QueriesSound'
  BY <1>1, <1>2, SettleStep, SettledQueries
<1> QED
  BY <1>1, <1>3 DEF TypeOK, CacheSound, Filed, CacheIsVetted, Current, OriginsStayApart, OldRules

(* The events around the queries: prewarm, the clock, eviction, the rules  *)
(* and the switch, a flush.  None of them touches a fetch.                 *)
LEMMA AroundStep ==
  ASSUME IInv,
         \/ \E n \in Name : WarmBegin(n) \/ \E d \in Scope : WarmEnd(n, d)
         \/ \E k \in Key : Age(k) \/ Evict(k)
         \/ \E f \in Filter : SwapFilter(f) \/ FirstLoad(f)
         \/ Toggle \/ Flush
  PROVE  IInv'
<1> USE DEF IInv
<1>1. /\ UNCHANGED <<pc, who, want, timer, chain, fetch, inflight, out>>
      /\ warm' \in SUBSET Name /\ filter' \in Filter /\ on' \in BOOLEAN
      /\ loaded' \in BOOLEAN /\ prior' \in Filter \cup {None} /\ OldRules'
  BY DEF WarmBegin, WarmEnd, Age, Evict, SwapFilter, FirstLoad, Toggle, Flush, TypeOK, OldRules
<1>2. OneQueryPerKey' /\ FollowersHaveALeader' /\ FetchesSound' /\ QueriesSound' /\ OriginsStayApart'
  BY <1>1 DEF OneQueryPerKey, FollowersHaveALeader, FetchesSound, QueriesSound, KeyOf, AtHome,
              OriginsStayApart
<1>3. cache' \in [Key -> Entry \cup {None}] /\ CacheSound' /\ CacheIsVetted'
  <2>1. CASE UNCHANGED <<cache, filter, prior>>
    BY <2>1 DEF TypeOK, CacheSound, Filed, CacheIsVetted, Current
  <2>2. CASE cache' = [k \in Key |-> None]
    BY <2>2 DEF CacheSound, CacheIsVetted
  <2>3. ASSUME NEW n \in Name, NEW d \in Scope, WarmEnd(n, d), ~UNCHANGED cache
        PROVE  cache' \in [Key -> Entry \cup {None}] /\ CacheSound' /\ CacheIsVetted'
    <3> DEFINE k == WarmKey(n)
               o == Given(DefaultView, k, d)
               e == [age |-> "fresh", org |-> o, vet |-> IF on THEN filter ELSE "off"]
    <3>1. cache' = [cache EXCEPT ![ScopedKey(k, d)] = e] /\ UNCHANGED <<filter, prior>>
      BY <2>3 DEF WarmEnd
    <3>2. o \in Origin /\ ScopedKey(k, d) \in Key /\ Filed(o, ScopedKey(k, d))
      BY WarmKeyType, GivenFiled, PipelineAssumption
    <3>3. e \in Entry /\ e.org = o /\ Current(e.vet)
      BY <3>2 DEF Entry, Verdict, Current, TypeOK
    <3> HIDE DEF k, o, e
    <3>4. Sound(e, ScopedKey(k, d))
      BY <3>2, <3>3 DEF Sound
    <3> QED
      BY <3>1, <3>2, <3>4, KeepStep
  <2>4. ASSUME NEW k \in Key, Age(k)
        PROVE  cache' \in [Key -> Entry \cup {None}] /\ CacheSound' /\ CacheIsVetted'
    <3>1. cache[k] # None /\ cache[k] \in Entry /\ UNCHANGED <<filter, prior>>
      BY <2>4, EntrySound DEF Age, Sound
    <3>2. CASE cache[k].age \in {"fresh", "near"}
      <4>1. \E a \in {"near", "stale"} : cache' = [cache EXCEPT ![k] = [cache[k] EXCEPT !.age = a]]
        BY <2>4, <3>2 DEF Age
      <4>2. PICK a \in {"near", "stale"} : cache' = [cache EXCEPT ![k] = [cache[k] EXCEPT !.age = a]]
        BY <4>1
      <4>3. Sound([cache[k] EXCEPT !.age = a], k)
        BY <3>1, EntrySound
      <4> QED
        BY <3>1, <4>2, <4>3, KeepStep
    <3>3. CASE cache[k].age = "stale"
      <4>1. cache' = [cache EXCEPT ![k] = None]
        BY <2>4, <3>3 DEF Age
      <4> QED
        BY <3>1, <4>1 DEF TypeOK, CacheSound, Filed, CacheIsVetted, Current
    <3> QED
      BY <3>1, <3>2, <3>3 DEF Entry
  <2>5. ASSUME NEW k \in Key, Evict(k)
        PROVE  cache' \in [Key -> Entry \cup {None}] /\ CacheSound' /\ CacheIsVetted'
    BY <2>5 DEF Evict, TypeOK, CacheSound, Filed, CacheIsVetted, Current
  <2>6. ASSUME NEW f \in Filter, FirstLoad(f)
        PROVE  cache' \in [Key -> Entry \cup {None}] /\ CacheSound' /\ CacheIsVetted'
    <3>1. UNCHANGED cache /\ prior' = filter /\ prior = None
      BY <2>6 DEF FirstLoad, OldRules
    <3>2. cache' \in [Key -> Entry \cup {None}] /\ CacheSound'
      BY <3>1 DEF TypeOK, CacheSound, Filed
    <3>3. ASSUME NEW k \in Key, cache'[k] # None PROVE Current(cache[k].vet)'
      <4>1. cache[k].vet \in Verdict /\ Current(cache[k].vet)
        BY <3>1, <3>3, EntrySound DEF Sound, Entry
      <4>2. cache[k].vet # None
        BY <4>1, PipelineIds DEF Verdict
      <4> QED
        BY <3>1, <4>1, <4>2 DEF Current
    <3> QED
      BY <3>2, <3>3 DEF CacheIsVetted
  <2>7. CASE Toggle
    BY <2>1, <2>7 DEF Toggle
  <2> QED
    BY <2>1, <2>2, <2>3, <2>4, <2>5, <2>6, <2>7 DEF WarmBegin, WarmEnd, SwapFilter, Flush
<1> QED
  BY <1>1, <1>2, <1>3 DEF TypeOK

-----------------------------------------------------------------------------
LEMMA Start ==
  ASSUME Init
  PROVE  IInv
<1>1. TypeOK
  BY OffType, OutTypes DEF Init, TypeOK
<1>2. OneQueryPerKey /\ FollowersHaveALeader /\ FetchesSound
  BY OffType DEF Init, OneQueryPerKey, FollowersHaveALeader, FetchesSound
<1>3. QueriesSound
  BY OffType DEF Init, QueriesSound, Task
<1>4. CacheSound /\ CacheIsVetted /\ OldRules
  BY DEF Init, CacheSound, CacheIsVetted, OldRules
<1>5. OriginsStayApart
  BY OutTypes DEF Init, OriginsStayApart
<1> QED
  BY <1>1, <1>2, <1>3, <1>4, <1>5 DEF IInv

LEMMA Step ==
  ASSUME IInv, [Next]_vars
  PROVE  IInv'
<1>1. CASE UNCHANGED vars
  BY <1>1 DEF vars, IInv, TypeOK, OneQueryPerKey, FollowersHaveALeader, FetchesSound, QueriesSound,
              KeyOf, AtHome, CacheSound, Filed, CacheIsVetted, Current, OriginsStayApart, OldRules
<1> QED
  BY <1>1, ArriveStep, ArriveSafeStep, BeginStep, AnswerStep, FailStep, TimerStep, ResumeStep,
     ResumeSafeStep, UnobservedStep, CancelStep, AroundStep DEF Next, TaskStep, QueryStep

LEMMA Always == Spec => []IInv
BY Start, Step, PTL DEF Spec

(* _fetch_coalesced: at most one upstream query per key is outstanding,    *)
(* the table names it, and every follower's leader is leading for the      *)
(* follower's own key, across joins, answers, failures and cancellations.  *)
THEOREM CoalescingSound == Spec => []Coalesced
<1>1. IInv => Coalesced
  BY DEF IInv, Coalesced
<1> QED
  BY <1>1, Always, PTL

(* CacheKey.view, _scoped_key: whichever way a client's answer came (from  *)
(* the cache, the shared table, by joining another's fetch, prefetched,    *)
(* prewarmed or stale), its own upstream set gave it; and for its own      *)
(* subnet or for everyone, unless prewarm or safe search asked for it with *)
(* a subnet under a key that has none.                                     *)
THEOREM AnswersStayHome == Spec => []OriginsStayApart
<1>1. IInv => OriginsStayApart
  BY DEF IInv
<1> QED
  BY <1>1, Always, PTL

(* _fetch inspects under the rules of the moment it stores: what this      *)
(* worker filed never carries a verdict of rules that have been replaced,  *)
(* but for those the first load of a start found installed.                *)
THEOREM CacheVetted == Spec => []CacheIsVetted
<1>1. IInv => CacheIsVetted
  BY DEF IInv
<1> QED
  BY <1>1, Always, PTL

(* A step moves at most one query: cancelling a leader does not cancel the *)
(* queries that joined it.                                                 *)
LEMMA OneMoves ==
  ASSUME IInv, [Next]_vars, NEW p \in Query, NEW q \in Query, p # q
  PROVE  pc'[p] = pc[p] \/ pc'[q] = pc[q]
<1> USE DEF IInv
<1>1. UNCHANGED pc \/ \E r \in Query : \E st : pc' = [pc EXCEPT ![r] = st]
  <2>1. ASSUME NEW r \in Query, NEW c \in Client, NEW n \in Name, Arrive(r, c, n) \/ ArriveSafe(r, c, n)
        PROVE  \E st : pc' = [pc EXCEPT ![r] = st]
    BY <2>1 DEF Arrive, ArriveSafe
  <2>2. ASSUME NEW r \in Query, QueryStep(r) \/ Cancel(r)
        PROVE  UNCHANGED pc \/ \E st : pc' = [pc EXCEPT ![r] = st]
    BY <2>2 DEF QueryStep, TimerFires, Resume, ResumeSafe, Unobserved, Cancel
  <2>3. ASSUME NEW t \in Task, TaskStep(t)
        PROVE  UNCHANGED pc
    BY <2>3 DEF TaskStep, Begin, UpstreamAnswers, UpstreamFails
  <2> QED
    BY <2>1, <2>2, <2>3
       DEF Next, vars, WarmBegin, WarmEnd, Age, Evict, SwapFilter, FirstLoad, Toggle, Flush
<1> QED
  BY <1>1 DEF TypeOK

(* A waiting query ends in a SERVFAIL only where nothing is retained under *)
(* its key.                                                                *)
LEMMA ServfailStep ==
  ASSUME IInv, [Next]_vars, NEW q \in Query, Servfailed(q)
  PROVE  ~Retained(want[q])
<1> USE DEF IInv
<1>1. pc[q] = "waiting" /\ pc'[q] = "done" /\ out'[q].kind = "servfail" /\ want[q] \in Key
  BY DEF Servfailed, QueriesSound, KeyOf
<1>2. TimerFires(q) \/ Resume(q) \/ ResumeSafe(q)
  <2>1. ASSUME NEW r \in Query, NEW c \in Client, NEW n \in Name, Arrive(r, c, n) \/ ArriveSafe(r, c, n)
        PROVE  FALSE
    BY <1>1, <2>1 DEF Arrive, ArriveSafe, TypeOK
  <2>2. ASSUME NEW r \in Query, QueryStep(r) \/ Cancel(r)
        PROVE  TimerFires(q) \/ Resume(q) \/ ResumeSafe(q)
    BY <1>1, <2>2 DEF QueryStep, TimerFires, Resume, ResumeSafe, Unobserved, Cancel, TypeOK
  <2>3. ASSUME NEW t \in Task, TaskStep(t)
        PROVE  FALSE
    BY <1>1, <2>3 DEF TaskStep, Begin, UpstreamAnswers, UpstreamFails
  <2> QED
    BY <1>1, <2>1, <2>2, <2>3
       DEF Next, vars, WarmBegin, WarmEnd, Age, Evict, SwapFilter, FirstLoad, Toggle, Flush
<1>3. ASSUME NEW e \in Stales(want[q]), Served(q, e), UNCHANGED <<who, want, rules>>
      PROVE  FALSE
  BY <1>1, <1>3, ServedStep DEF QueriesSound
<1>4. CASE TimerFires(q)
  BY <1>1, <1>3, <1>4 DEF TimerFires, TypeOK
<1>5. CASE Resume(q)
  <2>2. CASE fetch[q].res = "ok" /\ out' = [out EXCEPT ![q] = Answer("forwarded", fetch[q].org)]
    <3>1. Answer("forwarded", fetch[q].org).kind = "answer"
      BY <1>1, <1>5, <2>2, TellsHome DEF Resume
    <3> QED
      BY <1>1, <2>2, <3>1 DEF TypeOK
  <2>3. CASE out' = [out EXCEPT ![q] = Blocked("forwarded")]
    BY <1>1, <2>3, OutTypes DEF TypeOK
  <2> QED
    BY <1>3, <1>5, <2>2, <2>3 DEF Resume
<1>6. CASE ResumeSafe(q)
  <2>1. CASE fetch[q].res = "ok" /\ out' = [out EXCEPT ![q] = Answer("forwarded", fetch[q].org)]
    <3>1. Answer("forwarded", fetch[q].org).kind = "answer"
      BY <1>1, <1>6, <2>1, TellsHome DEF ResumeSafe
    <3> QED
      BY <1>1, <2>1, <3>1 DEF TypeOK
  <2>2. CASE out' = [out EXCEPT ![q] = Bare]
    BY <1>1, <2>2, OutTypes DEF TypeOK
  <2> QED
    BY <1>6, <2>1, <2>2 DEF ResumeSafe
<1> QED
  BY <1>2, <1>4, <1>5, <1>6

(* _fetch_coalesced, _resolve_upstream: cancelling one client's query      *)
(* cancels no other, and no query ends in SERVFAIL while an answer is      *)
(* retained under the key of its question.                                 *)
THEOREM MisfortuneContained == Spec => FailuresContained
<1>1. ASSUME IInv, [Next]_vars
      PROVE  [Contained]_vars
  <2>1. ASSUME NEW q \in Query, Cancelled(q), NEW p \in Query \ {q}, Cancelled(p)
        PROVE  FALSE
    BY <1>1, <2>1, OneMoves DEF Cancelled
  <2>2. ASSUME NEW q \in Query, Servfailed(q)
        PROVE  ~Retained(want[q])
    BY <1>1, <2>2, ServfailStep
  <2> QED
    BY <2>1, <2>2 DEF Contained
<1> QED
  BY <1>1, Always, PTL DEF Spec, FailuresContained

-----------------------------------------------------------------------------
(* The forwarder.  A resolution still has a race for every upstream that   *)
(* has not failed it; who answered the race that runs is among the asks it *)
(* has yet to look at.                                                     *)
Ended == {"no", "ok", "bad", "lost"}

CallTyped(rs, as, fin, o) ==
  /\ rs \in Seq(SUBSET Fwd!Up) /\ as \in [Fwd!Up -> Ended \cup {"run"}]
  /\ fin \in Seq(Fwd!Up) /\ o \in Fwd!Up \cup {None, "failed"}
  /\ \A i \in 1 .. Len(rs) : rs[i] # {}

Covers(rs, as) == \A u \in Fwd!Up : as[u] = "bad" \/ \E i \in 1 .. Len(rs) : u \in rs[i]

CallSound(rs, as, fin, o) ==
  /\ CallTyped(rs, as, fin, o)
  /\ \A u \in Fwd!Up : as[u] = "run" => rs # <<>> /\ u \in rs[1]
  /\ rs = <<>> => fin = <<>>
  /\ rs # <<>> => /\ o # "failed" /\ Covers(rs, as)
                  /\ \A u \in rs[1] : as[u] \in {"run", "bad"} \/ \E i \in 1 .. Len(fin) : fin[i] = u
  /\ o = "failed" => \A u \in Fwd!Up : as[u] = "bad"

CallsSound ==
  /\ races \in [Query -> Seq(SUBSET Fwd!Up)] /\ finished \in [Query -> Seq(Fwd!Up)]
  /\ ask \in [Query -> [Fwd!Up -> Ended \cup {"run"}]]
  /\ outF \in [Query -> Fwd!Up \cup {None, "failed"}]
  /\ \A q \in Query : CallSound(races[q], ask[q], finished[q], outF[q])

HealthSound ==
  /\ strategy \in {"sequential", "parallel", "fastest"}
  /\ noted \in [Query -> Fwd!Up \cup {None}]
  /\ failures \in [Fwd!Up -> 0 .. MaxFailures] /\ recent \subseteq Fwd!Up
  /\ rtt \in [Fwd!Up -> Rtt]

FwdInv == CallsSound /\ HealthSound

LEMMA Least == \A S \in SUBSET Nat : S # {} => \E x \in S : \A y \in S : x <= y
<1> SUFFICES ASSUME NEW S \in SUBSET Nat, S # {} PROVE \E x \in S : \A y \in S : x <= y
  OBVIOUS
<1> DEFINE R == OpToRel(<, Nat)
<1>1. R = {ss \in Nat \X Nat : ss[1] < ss[2]}
  BY DEF OpToRel
<1>2. IsWellFoundedOn(R, Nat)
  BY NatLessThanWellFounded
<1> HIDE DEF R
<1>3. PICK x \in S : \A y \in S : ~(<<y, x>> \in R)
  BY <1>2, WFMin
<1>4. ASSUME NEW y \in S PROVE x <= y
  <2>1. ~(<<y, x>> \in {ss \in Nat \X Nat : ss[1] < ss[2]})
    BY <1>1, <1>3
  <2>2. x \in Nat /\ y \in Nat
    OBVIOUS
  <2> QED BY <2>1, <2>2
<1> QED BY <1>4

LEMMA GroupIs ==
  /\ Group \in Seq(Fwd!Up) /\ Len(Group) \in Nat /\ Len(Group) # 0
  /\ \A u \in Fwd!Up : Fwd!Place(u) \in 1 .. Len(Group) /\ Group[Fwd!Place(u)] = u
  /\ \A u \in Fwd!Up : \E i \in 1 .. Len(Group) : Group[i] = u
<1>1. Group \in Seq(Fwd!Up) /\ Group # <<>>
  BY FwdAssumption DEF Fwd!ForwarderConstants
<1>2. DOMAIN Group = 1 .. Len(Group) /\ Len(Group) \in Nat /\ Len(Group) # 0
  BY <1>1
<1>3. ASSUME NEW u \in Fwd!Up PROVE \E i \in DOMAIN Group : Group[i] = u
  BY DEF Fwd!Up, Fwd!ToSet
<1>4. ASSUME NEW u \in Fwd!Up PROVE Fwd!Place(u) \in DOMAIN Group /\ Group[Fwd!Place(u)] = u
  <2>1. \E i \in DOMAIN Group : Group[i] = u
    BY <1>3
  <2> QED BY <2>1, Zenon DEF Fwd!Place
<1> QED BY <1>1, <1>2, <1>3, <1>4

(* sorted() has a first: the ranking compares whole numbers.               *)
LEMMA FirstOf ==
  ASSUME NEW S, NEW f, S # {}, \A u \in S : f[u] \in Nat
  PROVE  \E u \in S : \A v \in S : f[u] <= f[v]
<1> DEFINE T == {f[u] : u \in S}
<1>1. T \in SUBSET Nat /\ T # {}
  OBVIOUS
<1>2. PICK x \in T : \A y \in T : x <= y
  BY <1>1, Least
<1>3. PICK u \in S : x = f[u]
  OBVIOUS
<1>4. \A v \in S : f[v] \in T
  OBVIOUS
<1> QED BY <1>2, <1>3, <1>4

LEMMA FastestIs ==
  ASSUME HealthSound
  PROVE  Fwd!Fastest \in Fwd!Up
<1> DEFINE f == [u \in Fwd!Up |-> Fwd!RankedFailures(u)]
           p == [u \in Fwd!Up |-> Fwd!Place(u)]
<1>1. Fwd!Up # {}
  <2>1. Group[1] \in Fwd!Up
    BY GroupIs
  <2> QED BY <2>1
<1>2. \A u \in Fwd!Up : failures[u] \in Nat /\ rtt[u] \in Nat
  <2>1. MaxFailures \in Nat /\ Rtt \subseteq Nat
    BY FwdAssumption DEF Fwd!ForwarderConstants
  <2>2. \A u \in Fwd!Up : failures[u] \in 0 .. MaxFailures /\ rtt[u] \in Rtt
    BY DEF HealthSound
  <2> HIDE DEF f, p
  <2>3. 0 .. MaxFailures \subseteq Nat
    BY <2>1
  <2> QED BY <2>1, <2>2, <2>3
<1>3. \A u \in Fwd!Up : f[u] = Fwd!RankedFailures(u) /\ f[u] \in Nat
  BY <1>2 DEF Fwd!RankedFailures
<1>4. \A u \in Fwd!Up : p[u] = Fwd!Place(u) /\ p[u] \in Nat
  BY GroupIs
<1> HIDE DEF f, p
<1>5. PICK a \in Fwd!Up : \A v \in Fwd!Up : f[a] <= f[v]
  BY <1>1, <1>3, FirstOf
<1> DEFINE B == {u \in Fwd!Up : f[u] = f[a]}
<1>6. B # {} /\ \A u \in B : rtt[u] \in Nat
  BY <1>2
<1>7. PICK b \in B : \A v \in B : rtt[b] <= rtt[v]
  BY <1>6, FirstOf
<1> DEFINE C == {u \in B : rtt[u] = rtt[b]}
<1>8. C # {} /\ \A u \in C : p[u] \in Nat
  BY <1>4
<1>9. PICK c \in C : \A v \in C : p[c] <= p[v]
  BY <1>8, FirstOf
<1>10. ASSUME NEW v \in Fwd!Up \ {c} PROVE Fwd!Leads(c, v)
  <2>1. c \in Fwd!Up /\ f[c] = f[a] /\ rtt[c] = rtt[b]
    OBVIOUS
  <2>2. CASE f[v] # f[a]
    BY <2>1, <2>2, <1>3, <1>5 DEF Fwd!Leads
  <2>3. CASE f[v] = f[a] /\ rtt[v] # rtt[b]
    <3>1. v \in B
      BY <2>3
    <3>2. rtt[c] < rtt[v]
      BY <2>1, <2>3, <3>1, <1>2, <1>7
    <3> QED BY <2>1, <2>3, <3>2, <1>3 DEF Fwd!Leads
  <2>4. CASE f[v] = f[a] /\ rtt[v] = rtt[b]
    <3>1. v \in C
      BY <2>4
    <3>2. p[c] # p[v]
      <4>1. Group[p[c]] = c /\ Group[p[v]] = v
        BY <2>1, <1>4, GroupIs
      <4>2. c # v
        OBVIOUS
      <4> HIDE DEF C, B
      <4> QED BY <4>1, <4>2
    <3>3. p[c] < p[v]
      BY <2>1, <3>1, <3>2, <1>4, <1>9
    <3> QED BY <2>1, <2>4, <3>3, <1>3, <1>4 DEF Fwd!Leads
  <2> QED BY <2>2, <2>3, <2>4
<1>11. \E u \in Fwd!Up : \A v \in Fwd!Up \ {u} : Fwd!Leads(u, v)
  BY <1>10
<1> QED BY <1>11, Zenon DEF Fwd!Fastest

(* Every upstream has a race in the plan of any strategy.                  *)
PlanSound(p) ==
  /\ p \in Seq(SUBSET Fwd!Up) /\ Len(p) # 0
  /\ \A i \in 1 .. Len(p) : p[i] # {}
  /\ \A u \in Fwd!Up : \E i \in 1 .. Len(p) : u \in p[i]

LEMMA PlanIs ==
  ASSUME HealthSound
  PROVE  PlanSound(Fwd!Plan)
<1>1. Fwd!Fastest \in Fwd!Up
  BY FastestIs
<1>2. PICK x \in Fwd!Up : x = Fwd!Fastest
  BY <1>1
<1>3. CASE strategy = "sequential"
  <2>1. PICK p : p = [i \in DOMAIN Group |-> {Group[i]}]
    OBVIOUS
  <2>2. PICK n \in Nat : n = Len(Group) /\ DOMAIN Group = 1 .. n
    BY GroupIs
  <2>3. p \in [1 .. n -> SUBSET Fwd!Up]
    BY <2>1, <2>2, GroupIs
  <2>4. p \in Seq(SUBSET Fwd!Up) /\ Len(p) = n
    <3>1. p \in Seq(SUBSET Fwd!Up)
      BY <2>3, SeqDef
    <3> QED BY <2>3, <3>1
  <2>5. \A i \in 1 .. n : p[i] = {Group[i]}
    BY <2>1, <2>2
  <2>6. PlanSound(p)
    <3>1. n # 0 /\ \A u \in Fwd!Up : \E i \in 1 .. n : Group[i] = u
      BY <2>2, GroupIs
    <3>2. \A u \in Fwd!Up : \E i \in 1 .. n : u \in p[i]
      BY <2>5, <3>1
    <3>3. \A i \in 1 .. n : p[i] # {}
      BY <2>5
    <3> QED BY <2>4, <3>1, <3>2, <3>3 DEF PlanSound
  <2>7. Fwd!Plan = p
    BY <1>3, <2>1 DEF Fwd!Plan
  <2> QED BY <2>6, <2>7
<1>4. CASE strategy = "parallel"
  <2>1. PICK p : p = <<Fwd!Up>>
    OBVIOUS
  <2>2. p \in Seq(SUBSET Fwd!Up) /\ Len(p) = 1 /\ p[1] = Fwd!Up
    BY <2>1
  <2>3. PlanSound(p)
    BY <2>2, <1>1 DEF PlanSound
  <2>4. Fwd!Plan = p
    BY <1>4, <2>1 DEF Fwd!Plan
  <2> QED BY <2>3, <2>4
<1>5. CASE strategy = "fastest" /\ Fwd!Up = {x}
  <2>1. PICK p : p = <<{x}>>
    OBVIOUS
  <2>2. p \in Seq(SUBSET Fwd!Up) /\ Len(p) = 1 /\ p[1] = {x}
    BY <2>1
  <2>3. PlanSound(p)
    BY <2>2, <1>5 DEF PlanSound
  <2>4. Fwd!Plan = p
    BY <1>2, <1>5, <2>1 DEF Fwd!Plan
  <2> QED BY <2>3, <2>4
<1>6. CASE strategy = "fastest" /\ Fwd!Up # {x}
  <2>1. PICK p : p = <<{x}, Fwd!Up \ {x}>>
    OBVIOUS
  <2>2. p \in Seq(SUBSET Fwd!Up) /\ Len(p) = 2 /\ p[1] = {x} /\ p[2] = Fwd!Up \ {x}
    BY <2>1
  <2>3. PlanSound(p)
    <3>1. Fwd!Up \ {x} # {}
      BY <1>2, <1>6
    <3>2. 1 .. Len(p) = {1, 2}
      BY <2>2
    <3>3. \A u \in Fwd!Up : u \in p[1] \/ u \in p[2]
      BY <2>2
    <3> QED BY <2>2, <3>1, <3>2, <3>3 DEF PlanSound
  <2>4. Fwd!Plan = p
    BY <1>2, <1>6, <2>1 DEF Fwd!Plan
  <2> QED BY <2>3, <2>4
<1> QED BY <1>3, <1>4, <1>5, <1>6 DEF HealthSound

-----------------------------------------------------------------------------
LEMMA CallChanged ==
  ASSUME CallsSound, NEW q \in Query, NEW rs, NEW as, NEW fin, NEW o, CallSound(rs, as, fin, o),
         races' = [races EXCEPT ![q] = rs], ask' = [ask EXCEPT ![q] = as],
         finished' = [finished EXCEPT ![q] = fin], outF' = [outF EXCEPT ![q] = o]
  PROVE  CallsSound'
<1>1. /\ races'[q] = rs /\ ask'[q] = as /\ finished'[q] = fin /\ outF'[q] = o
      /\ \A r \in Query : r # q => /\ races'[r] = races[r] /\ ask'[r] = ask[r]
                                   /\ finished'[r] = finished[r] /\ outF'[r] = outF[r]
  BY DEF CallsSound
<1>2. ASSUME NEW r \in Query PROVE CallSound(races'[r], ask'[r], finished'[r], outF'[r])
  BY <1>1 DEF CallsSound
<1>3. /\ as \in [Fwd!Up -> Ended \cup {"run"}] /\ o \in Fwd!Up \cup {None, "failed"}
      /\ rs \in Seq(SUBSET Fwd!Up) /\ fin \in Seq(Fwd!Up)
  BY DEF CallSound, CallTyped
<1>4. races' \in [Query -> Seq(SUBSET Fwd!Up)] /\ finished' \in [Query -> Seq(Fwd!Up)]
  BY <1>3 DEF CallsSound
<1>5. ask' \in [Query -> [Fwd!Up -> Ended \cup {"run"}]] /\ outF' \in [Query -> Fwd!Up \cup {None, "failed"}]
  BY <1>3 DEF CallsSound
<1>6. \A r \in Query : CallSound(races[r], ask[r], finished[r], outF[r])'
  BY <1>2 DEF CallSound, CallTyped, Covers
<1> QED BY <1>4, <1>5, <1>6 DEF CallsSound

(* What is left as it is.                                                  *)
LEMMA CallKept ==
  ASSUME CallsSound, NEW q \in Query
  PROVE  /\ races = [races EXCEPT ![q] = races[q]] /\ ask = [ask EXCEPT ![q] = ask[q]]
         /\ finished = [finished EXCEPT ![q] = finished[q]] /\ outF = [outF EXCEPT ![q] = outF[q]]
         /\ CallSound(races[q], ask[q], finished[q], outF[q])
BY DEF CallsSound

LEMMA ResolveKeeps ==
  ASSUME FwdInv, NEW q \in Query, Fwd!Resolve(q)
  PROVE  FwdInv'
<1>1. PICK p : p = Fwd!Plan /\ PlanSound(p)
  BY PlanIs DEF FwdInv
<1>2. p \in Seq(SUBSET Fwd!Up) /\ Len(p) \in Nat /\ Len(p) # 0 /\ p # <<>> /\ Head(p) = p[1]
  BY <1>1 DEF PlanSound
<1>3. PICK as : as = [u \in Fwd!Up |-> IF u \in p[1] THEN "run" ELSE "no"]
  OBVIOUS
<1>4. /\ races' = [races EXCEPT ![q] = p] /\ ask' = [ask EXCEPT ![q] = as]
      /\ outF' = [outF EXCEPT ![q] = None] /\ noted' = [noted EXCEPT ![q] = None]
      /\ UNCHANGED <<strategy, finished, failures, recent, rtt>>
  BY <1>1, <1>2, <1>3 DEF Fwd!Resolve, Fwd!Asking, Fwd!NoAsks, Fwd!health
<1>5. as \in [Fwd!Up -> Ended \cup {"run"}] /\ \A u \in Fwd!Up : as[u] = "run" <=> u \in p[1]
  BY <1>3 DEF Ended
<1>6. finished[q] \in Seq(Fwd!Up)
  BY DEF FwdInv, CallsSound
<1>7. None # "failed"
  BY FwdAssumption DEF Fwd!ForwarderConstants
<1>8. CallSound(p, as, finished[q], None)
  <2>1. p[1] \in SUBSET Fwd!Up
    BY <1>2
  <2>2. Covers(p, as)
    BY <1>1 DEF Covers, PlanSound
  <2> QED BY <1>1, <1>2, <1>5, <1>6, <1>7, <2>1, <2>2 DEF CallSound, CallTyped, PlanSound
<1>9. finished' = [finished EXCEPT ![q] = finished[q]]
  BY <1>4, CallKept DEF FwdInv
<1>10. CallsSound'
  BY <1>4, <1>8, <1>9, CallChanged DEF FwdInv
<1>11. HealthSound'
  BY <1>4 DEF FwdInv, HealthSound
<1> QED BY <1>10, <1>11 DEF FwdInv

(* An ask that ends is one its race has still to look at.                  *)
LEMMA AskEndsKeeps ==
  ASSUME FwdInv, NEW q \in Query, NEW u \in Fwd!Up, Fwd!AskEnds(q, u)
  PROVE  FwdInv'
<1>1. PICK how \in {"ok", "bad"} : Fwd!Ends(q, u, how)
  BY DEF Fwd!AskEnds, Fwd!AskAnswers, Fwd!AskRefused, Fwd!AskFails
<1>2. PICK rs, a, fin, o : rs = races[q] /\ a = ask[q] /\ fin = finished[q] /\ o = outF[q]
  OBVIOUS
<1>3. CallSound(rs, a, fin, o)
  BY <1>2 DEF FwdInv, CallsSound
<1>4. PICK as, fn : as = [a EXCEPT ![u] = how] /\ fn = Append(fin, u)
  OBVIOUS
<1>5. /\ a[u] = "run" /\ ask' = [ask EXCEPT ![q] = as] /\ finished' = [finished EXCEPT ![q] = fn]
      /\ UNCHANGED <<strategy, races, outF, noted>>
  BY <1>1, <1>2, <1>4 DEF Fwd!Ends, FwdInv, CallsSound
<1>6. /\ as \in [Fwd!Up -> Ended \cup {"run"}] /\ as[u] = how
      /\ \A v \in Fwd!Up : v # u => as[v] = a[v]
  BY <1>3, <1>4 DEF CallSound, CallTyped, Ended
<1>7. /\ fn \in Seq(Fwd!Up) /\ \E i \in 1 .. Len(fn) : fn[i] = u
      /\ \A v \in Fwd!Up : (\E i \in 1 .. Len(fin) : fin[i] = v) => \E i \in 1 .. Len(fn) : fn[i] = v
  <2>1. fin \in Seq(Fwd!Up)
    BY <1>3 DEF CallSound, CallTyped
  <2>2. /\ fn \in Seq(Fwd!Up) /\ Len(fn) = Len(fin) + 1 /\ Len(fin) \in Nat
        /\ fn[Len(fin) + 1] = u /\ \A i \in 1 .. Len(fin) : fn[i] = fin[i]
    BY <1>4, <2>1
  <2>3. Len(fin) + 1 \in 1 .. Len(fn) /\ \A i \in 1 .. Len(fin) : i \in 1 .. Len(fn)
    BY <2>2
  <2> QED BY <2>2, <2>3
<1>8. CallSound(rs, as, fn, o)
  <2>1. rs # <<>> /\ u \in rs[1] /\ o # "failed"
    BY <1>3, <1>5 DEF CallSound
  <2>2. Covers(rs, as)
    <3>1. rs \in Seq(SUBSET Fwd!Up)
      BY <1>3 DEF CallSound, CallTyped
    <3>2. 1 \in 1 .. Len(rs)
      BY <2>1, <3>1
    <3> QED BY <1>3, <1>6, <2>1, <3>2 DEF CallSound, Covers
  <2>3. rs[1] \subseteq Fwd!Up
    BY <1>3, <2>1 DEF CallSound, CallTyped
  <2>4. \A v \in rs[1] : as[v] \in {"run", "bad"} \/ \E i \in 1 .. Len(fn) : fn[i] = v
    BY <1>3, <1>6, <1>7, <2>1, <2>3 DEF CallSound
  <2>5. \A v \in Fwd!Up : as[v] = "run" => v \in rs[1]
    BY <1>3, <1>6 DEF CallSound
  <2>6. CallTyped(rs, as, fn, o)
    BY <1>3, <1>6, <1>7 DEF CallSound, CallTyped
  <2> QED BY <2>1, <2>2, <2>4, <2>5, <2>6 DEF CallSound
<1>9. CallsSound'
  <2>1. races' = [races EXCEPT ![q] = rs] /\ outF' = [outF EXCEPT ![q] = o]
    BY <1>2, <1>5, CallKept DEF FwdInv
  <2> QED BY <1>5, <1>8, <2>1, CallChanged DEF FwdInv
<1>10. HealthSound'
  <2>1. MaxFailures \in Nat \ {0}
    BY FwdAssumption DEF Fwd!ForwarderConstants
  <2>2. CASE Fwd!AskAnswers(q, u)
    BY <1>5, <2>1, <2>2 DEF Fwd!AskAnswers, FwdInv, HealthSound
  <2>3. CASE Fwd!AskRefused(q, u)
    BY <1>5, <2>1, <2>3 DEF Fwd!AskRefused, FwdInv, HealthSound
  <2>4. CASE Fwd!AskFails(q, u)
    <3>1. failures[u] \in 0 .. MaxFailures
      BY DEF FwdInv, HealthSound
    <3>2. PICK n \in 0 .. MaxFailures : n = IF failures[u] < MaxFailures THEN failures[u] + 1 ELSE failures[u]
      BY <2>1, <3>1
    <3>3. failures' = [failures EXCEPT ![u] = n] /\ recent' = recent \cup {u} /\ rtt' = rtt
      BY <2>4, <3>2 DEF Fwd!AskFails, FwdInv, HealthSound
    <3> QED BY <1>5, <3>3 DEF FwdInv, HealthSound
  <2> QED BY <2>2, <2>3, <2>4 DEF Fwd!AskEnds
<1> QED BY <1>9, <1>10 DEF FwdInv

LEMMA AsleepSound ==
  ASSUME NEW as \in [Fwd!Up -> Ended \cup {"run"}], NEW o \in Fwd!Up \cup {None, "failed"},
         \A u \in Fwd!Up : as[u] # "run", o = "failed" => \A u \in Fwd!Up : as[u] = "bad"
  PROVE  CallSound(<<>>, as, <<>>, o)
<1>1. <<>> \in Seq(SUBSET Fwd!Up) /\ <<>> \in Seq(Fwd!Up) /\ 1 .. Len(<<>>) = {}
  OBVIOUS
<1> QED BY <1>1 DEF CallSound, CallTyped

LEMMA LostIs ==
  ASSUME NEW a \in [Fwd!Up -> Ended \cup {"run"}]
  PROVE  /\ Fwd!Lost(a) \in [Fwd!Up -> Ended \cup {"run"}]
         /\ \A u \in Fwd!Up : Fwd!Lost(a)[u] # "run"
BY DEF Fwd!Lost, Ended

LEMMA WonKeeps ==
  ASSUME FwdInv, NEW q \in Query, Fwd!Won(q)
  PROVE  FwdInv'
<1>1. PICK a, fin : a = ask[q] /\ fin = finished[q]
  OBVIOUS
<1>2. PICK as : as = Fwd!Lost(a)
  OBVIOUS
<1>3. /\ races' = [races EXCEPT ![q] = <<>>] /\ finished' = [finished EXCEPT ![q] = <<>>]
      /\ ask' = [ask EXCEPT ![q] = as] /\ fin # <<>>
      /\ outF' = [outF EXCEPT ![q] = Head(fin)] /\ noted' = [noted EXCEPT ![q] = Head(fin)]
      /\ UNCHANGED <<strategy, failures, recent, rtt>>
  BY <1>1, <1>2 DEF Fwd!Won, Fwd!Over, Fwd!Credited, Fwd!health, FwdInv, CallsSound
<1>4. fin \in Seq(Fwd!Up) /\ a \in [Fwd!Up -> Ended \cup {"run"}]
  BY <1>1 DEF FwdInv, CallsSound
<1>5. Head(fin) \in Fwd!Up /\ Head(fin) # "failed"
  BY <1>3, <1>4, FwdAssumption DEF Fwd!ForwarderConstants
<1>6. PICK u \in Fwd!Up : u = Head(fin) /\ u # "failed"
  BY <1>5
<1>7. CallSound(<<>>, as, <<>>, u)
  BY <1>2, <1>4, <1>6, LostIs, AsleepSound
<1>8. CallsSound'
  BY <1>3, <1>6, <1>7, CallChanged DEF FwdInv
<1>9. HealthSound'
  BY <1>3, <1>6 DEF FwdInv, HealthSound
<1> QED BY <1>8, <1>9 DEF FwdInv

LEMMA AbandonKeeps ==
  ASSUME FwdInv, NEW q \in Query, Fwd!Abandon(q)
  PROVE  FwdInv'
<1>1. PICK a, o : a = ask[q] /\ o = outF[q]
  OBVIOUS
<1>2. PICK as : as = Fwd!Lost(a)
  OBVIOUS
<1>3. /\ races' = [races EXCEPT ![q] = <<>>] /\ finished' = [finished EXCEPT ![q] = <<>>]
      /\ ask' = [ask EXCEPT ![q] = as] /\ races[q] # <<>>
      /\ UNCHANGED <<strategy, outF, noted, failures, recent, rtt>>
  BY <1>1, <1>2 DEF Fwd!Abandon, Fwd!Over, Fwd!Asleep, Fwd!health, FwdInv, CallsSound
<1>4. /\ a \in [Fwd!Up -> Ended \cup {"run"}] /\ o \in Fwd!Up \cup {None, "failed"} /\ o # "failed"
  BY <1>1, <1>3 DEF FwdInv, CallsSound, CallSound
<1>5. CallSound(<<>>, as, <<>>, o)
  BY <1>2, <1>4, LostIs, AsleepSound
<1>6. outF' = [outF EXCEPT ![q] = o]
  BY <1>1, <1>3, CallKept DEF FwdInv
<1>7. CallsSound'
  BY <1>3, <1>5, <1>6, CallChanged DEF FwdInv
<1> QED BY <1>3, <1>7 DEF FwdInv, HealthSound

(* A race whose completed ask has failed: it looks at the next one, gives  *)
(* way to the next race, or was the last and had nobody left.              *)
LEMMA TryNextKeeps ==
  ASSUME FwdInv, NEW q \in Query, Fwd!TryNext(q)
  PROVE  FwdInv'
<1>1. PICK rs, a, fin, o : rs = races[q] /\ a = ask[q] /\ fin = finished[q] /\ o = outF[q]
  OBVIOUS
<1>2. CallSound(rs, a, fin, o) /\ rs \in Seq(SUBSET Fwd!Up) /\ fin \in Seq(Fwd!Up)
      /\ a \in [Fwd!Up -> Ended \cup {"run"}] /\ o \in Fwd!Up \cup {None, "failed"}
  BY <1>1 DEF FwdInv, CallsSound
<1>3. /\ fin # <<>> /\ a[Head(fin)] = "bad"
      /\ UNCHANGED <<strategy, noted, failures, recent, rtt>>
  BY <1>1 DEF Fwd!TryNext, Fwd!health
<1>4. Len(fin) \in Nat /\ Len(fin) # 0 /\ Head(fin) = fin[1] /\ Head(fin) \in Fwd!Up
  BY <1>2, <1>3
<1>5. HealthSound'
  BY <1>3 DEF FwdInv, HealthSound
<1>6. rs # <<>> /\ Len(rs) \in Nat /\ Len(rs) # 0
  <2>1. rs # <<>>
    BY <1>2, <1>3 DEF CallSound
  <2> QED BY <1>2, <2>1
<1>7. CASE Fwd!StillRacing(q)
  <2>1. PICK fn : fn = Tail(fin)
    OBVIOUS
  <2>2. /\ finished' = [finished EXCEPT ![q] = fn] /\ races' = races /\ ask' = ask /\ outF' = outF
    BY <1>1, <1>7, <2>1 DEF Fwd!TryNext, FwdInv, CallsSound
  <2>3. /\ fn \in Seq(Fwd!Up) /\ Len(fn) = Len(fin) - 1
        /\ \A i \in 1 .. Len(fn) : fn[i] = fin[i + 1]
    BY <1>2, <1>3, <2>1
  <2>4. \A u \in Fwd!Up : (\E i \in 1 .. Len(fin) : fin[i] = u) => a[u] = "bad" \/ \E i \in 1 .. Len(fn) : fn[i] = u
    <3> SUFFICES ASSUME NEW i \in 1 .. Len(fin), i # 1 PROVE \E n \in 1 .. Len(fn) : fn[n] = fin[i]
      BY <1>3, <1>4
    <3>1. i - 1 \in 1 .. Len(fn) /\ (i - 1) + 1 = i
      BY <1>4, <2>3
    <3> QED BY <3>1, <2>3
  <2>5. CallSound(rs, a, fn, o)
    <3>1. rs # <<>> => rs[1] \subseteq Fwd!Up
      BY <1>2
    <3>2. CallTyped(rs, a, fn, o)
      BY <1>2, <2>3 DEF CallSound, CallTyped
    <3>3. rs # <<>> => \A u \in rs[1] : a[u] \in {"run", "bad"} \/ \E i \in 1 .. Len(fn) : fn[i] = u
      BY <1>2, <2>4, <3>1 DEF CallSound
    <3> QED BY <1>2, <1>6, <3>2, <3>3 DEF CallSound
  <2>6. /\ races' = [races EXCEPT ![q] = rs] /\ ask' = [ask EXCEPT ![q] = a] /\ outF' = [outF EXCEPT ![q] = o]
    BY <1>1, <2>2, CallKept DEF FwdInv
  <2>7. CallsSound'
    BY <2>2, <2>5, <2>6, CallChanged DEF FwdInv
  <2> QED BY <1>5, <2>7 DEF FwdInv
<1>8. CASE ~Fwd!StillRacing(q)
  <2>1. Fwd!NextRace(q) /\ Len(fin) <= 1 /\ \A u \in Head(rs) : a[u] # "run"
    BY <1>1, <1>4, <1>8 DEF Fwd!TryNext, Fwd!StillRacing
  <2>2. Len(fin) = 1 /\ \A i \in 1 .. Len(fin) : i = 1
    BY <1>4, <2>1
  <2>3. rs # <<>> => Head(rs) = rs[1] /\ rs[1] \subseteq Fwd!Up /\ \A u \in rs[1] : a[u] = "bad"
    <3>1. rs # <<>> => Head(rs) = rs[1] /\ rs[1] \subseteq Fwd!Up
      BY <1>2
    <3> QED BY <1>2, <1>3, <1>4, <2>1, <2>2, <3>1 DEF CallSound
  <2>4. \A u \in Fwd!Up : a[u] # "run"
    BY <1>2, <2>3 DEF CallSound
  <2>5. CASE Len(rs) > 1
    <3>1. rs # <<>> /\ Len(rs) \in Nat /\ 2 \in 1 .. Len(rs) /\ rs[2] \subseteq Fwd!Up
      BY <1>2, <2>5
    <3>2. PICK r, as : r = Tail(rs) /\ as = [u \in Fwd!Up |-> IF u \in rs[2] THEN "run" ELSE a[u]]
      OBVIOUS
    <3>3. /\ races' = [races EXCEPT ![q] = r] /\ finished' = [finished EXCEPT ![q] = <<>>]
          /\ ask' = [ask EXCEPT ![q] = as] /\ outF' = outF
      BY <1>1, <2>1, <2>5, <3>2 DEF Fwd!NextRace, Fwd!Asking, FwdInv, CallsSound
    <3>4. /\ r \in Seq(SUBSET Fwd!Up) /\ Len(r) = Len(rs) - 1 /\ r # <<>> /\ r[1] = rs[2]
          /\ \A i \in 1 .. Len(r) : r[i] = rs[i + 1] /\ i + 1 \in 1 .. Len(rs)
      BY <1>2, <2>5, <3>1, <3>2
    <3>5. /\ as \in [Fwd!Up -> Ended \cup {"run"}]
          /\ \A u \in Fwd!Up : as[u] = IF u \in r[1] THEN "run" ELSE a[u]
      BY <1>2, <3>2, <3>4 DEF Ended
    <3>6. Covers(r, as)
      <4> SUFFICES ASSUME NEW u \in Fwd!Up, u \notin r[1] PROVE a[u] = "bad" \/ \E i \in 1 .. Len(r) : u \in r[i]
        <5>1. 1 \in 1 .. Len(r)
          BY <3>1, <3>4
        <5> QED BY <3>5, <5>1 DEF Covers
      <4>1. CASE a[u] # "bad"
        <5>1. PICK i \in 1 .. Len(rs) : u \in rs[i]
          BY <1>2, <3>1, <4>1 DEF CallSound, Covers
        <5>2. i # 1
          BY <2>3, <3>1, <4>1, <5>1
        <5>3. i - 1 \in 1 .. Len(r) /\ (i - 1) + 1 = i
          BY <3>1, <3>4, <5>2
        <5>4. r[i - 1] = rs[i]
          BY <3>4, <5>3
        <5> QED BY <5>1, <5>3, <5>4
      <4> QED BY <4>1
    <3>7. CallSound(r, as, <<>>, o)
      <4>1. <<>> \in Seq(Fwd!Up)
        OBVIOUS
      <4>2. \A i \in 1 .. Len(r) : r[i] # {}
        BY <1>2, <3>4 DEF CallSound, CallTyped
      <4>3. CallTyped(r, as, <<>>, o)
        BY <1>2, <3>4, <3>5, <4>1, <4>2 DEF CallTyped
      <4>4. o # "failed"
        BY <1>2, <3>1 DEF CallSound
      <4>5. r[1] \subseteq Fwd!Up
        BY <3>1, <3>4
      <4>6. \A u \in Fwd!Up : as[u] = "run" => u \in r[1]
        BY <2>4, <3>5
      <4> QED BY <3>4, <3>5, <3>6, <4>3, <4>4, <4>5, <4>6 DEF CallSound
    <3>8. outF' = [outF EXCEPT ![q] = o]
      BY <1>1, <3>3, CallKept DEF FwdInv
    <3>9. CallsSound'
      BY <3>3, <3>7, <3>8, CallChanged DEF FwdInv
    <3> QED BY <1>5, <3>9 DEF FwdInv
  <2>6. CASE ~(Len(rs) > 1)
    <3>1. rs # <<>> /\ Len(rs) \in Nat /\ Len(rs) = 1 /\ \A i \in 1 .. Len(rs) : i = 1
      <4>1. Len(rs) = 1
        <5>1. PICK n \in Nat : n = Len(rs)
          BY <1>6
        <5>2. n # 0 /\ ~(n > 1) => n = 1
          OBVIOUS
        <5> QED BY <1>6, <2>6, <5>1, <5>2
      <4> QED BY <1>6, <4>1
    <3>2. /\ races' = [races EXCEPT ![q] = <<>>] /\ finished' = [finished EXCEPT ![q] = <<>>]
          /\ outF' = [outF EXCEPT ![q] = "failed"] /\ ask' = ask
      BY <1>1, <2>1, <2>6 DEF Fwd!NextRace, Fwd!Over, FwdInv, CallsSound
    <3>3. \A u \in Fwd!Up : a[u] = "bad"
      <4> SUFFICES ASSUME NEW u \in Fwd!Up, a[u] # "bad" PROVE FALSE
        OBVIOUS
      <4>1. PICK i \in 1 .. Len(rs) : u \in rs[i]
        BY <1>2, <3>1 DEF CallSound, Covers
      <4> QED BY <2>3, <3>1, <4>1
    <3>4. CallSound(<<>>, a, <<>>, "failed")
      BY <1>2, <2>4, <3>3, AsleepSound
    <3>5. ask' = [ask EXCEPT ![q] = a]
      BY <1>1, <3>2, CallKept DEF FwdInv
    <3>6. CallsSound'
      BY <3>2, <3>4, <3>5, CallChanged DEF FwdInv
    <3> QED BY <1>5, <3>6 DEF FwdInv
  <2> QED BY <2>5, <2>6
<1> QED BY <1>7, <1>8

LEMMA FwdInit == Fwd!Init => FwdInv
<1> SUFFICES ASSUME Fwd!Init PROVE FwdInv
  OBVIOUS
<1>1. PICK as : as = [u \in Fwd!Up |-> "no"]
  OBVIOUS
<1>2. as \in [Fwd!Up -> Ended \cup {"run"}] /\ \A u \in Fwd!Up : as[u] # "run"
  BY <1>1 DEF Ended
<1>3. None # "failed"
  BY FwdAssumption DEF Fwd!ForwarderConstants
<1>4. CallSound(<<>>, as, <<>>, None)
  BY <1>2, <1>3, AsleepSound
<1>5. /\ races = [q \in Query |-> <<>>] /\ finished = [q \in Query |-> <<>>]
      /\ ask = [q \in Query |-> as] /\ outF = [q \in Query |-> None]
  BY <1>1 DEF Fwd!Init, Fwd!NoAsks
<1>6. <<>> \in Seq(SUBSET Fwd!Up) /\ <<>> \in Seq(Fwd!Up)
  OBVIOUS
<1>7. CallsSound
  <2>1. \A q \in Query : CallSound(races[q], ask[q], finished[q], outF[q])
    BY <1>4, <1>5
  <2> QED BY <1>2, <1>5, <1>6, <2>1 DEF CallsSound
<1>8. HealthSound
  <2>1. 0 \in 0 .. MaxFailures
    BY FwdAssumption DEF Fwd!ForwarderConstants
  <2> QED BY <2>1 DEF Fwd!Init, HealthSound
<1> QED BY <1>7, <1>8 DEF FwdInv

LEMMA FwdStep == FwdInv /\ [Fwd!Next]_(Fwd!vars) => FwdInv'
<1> SUFFICES ASSUME FwdInv, [Fwd!Next]_(Fwd!vars) PROVE FwdInv'
  OBVIOUS
<1>1. ASSUME NEW q \in Query, Fwd!Resolve(q) PROVE FwdInv'
  BY <1>1, ResolveKeeps
<1>2. ASSUME NEW q \in Query, Fwd!Won(q) PROVE FwdInv'
  BY <1>2, WonKeeps
<1>3. ASSUME NEW q \in Query, Fwd!TryNext(q) PROVE FwdInv'
  BY <1>3, TryNextKeeps
<1>4. ASSUME NEW q \in Query, Fwd!Abandon(q) PROVE FwdInv'
  BY <1>4, AbandonKeeps
<1>5. ASSUME NEW q \in Query, NEW u \in Fwd!Up, Fwd!AskEnds(q, u) PROVE FwdInv'
  BY <1>5, AskEndsKeeps
<1>6. ASSUME UNCHANGED <<races, ask, finished, outF>> PROVE CallsSound'
  <2>1. \A q \in Query : CallSound(races'[q], ask'[q], finished'[q], outF'[q])
    BY <1>6 DEF FwdInv, CallsSound
  <2>2. \A q \in Query : CallSound(races[q], ask[q], finished[q], outF[q])'
    BY <2>1 DEF CallSound, CallTyped, Covers
  <2> QED BY <1>6, <2>2 DEF FwdInv, CallsSound
<1>7. ASSUME NEW u \in Fwd!Up, Fwd!Forget(u) PROVE FwdInv'
  BY <1>6, <1>7 DEF Fwd!Forget, Fwd!call, FwdInv, HealthSound
<1>8. CASE UNCHANGED Fwd!vars
  BY <1>6, <1>8 DEF Fwd!vars, Fwd!call, Fwd!health, FwdInv, HealthSound
<1> QED BY <1>1, <1>2, <1>3, <1>4, <1>5, <1>7, <1>8 DEF Fwd!Next

LEMMA FailsByInv == FwdInv => FailsOnlyAfterAll
<1> SUFFICES ASSUME FwdInv PROVE FailsOnlyAfterAll
  OBVIOUS
<1>1. Fwd!FailsOnlyAfterAll
  BY DEF FwdInv, CallsSound, CallSound, Fwd!FailsOnlyAfterAll
<1>2. ASSUME NEW q \in Query
      PROVE  /\ \A i \in DOMAIN races[q] : races[q][i] \subseteq Fwd!Up /\ races[q][i] # {}
             /\ Fwd!ToSet(finished[q]) \subseteq Fwd!Up
             /\ {u \in Fwd!Up : ask[q][u] = "run"} \subseteq IF Fwd!Asleep(q) THEN {} ELSE Head(races[q])
  <2>1. PICK rs, a, fin, o : rs = races[q] /\ a = ask[q] /\ fin = finished[q] /\ o = outF[q]
    OBVIOUS
  <2>2. CallSound(rs, a, fin, o) /\ rs \in Seq(SUBSET Fwd!Up) /\ fin \in Seq(Fwd!Up)
    BY <2>1 DEF FwdInv, CallsSound
  <2>3. \A i \in DOMAIN rs : rs[i] \subseteq Fwd!Up /\ rs[i] # {}
    BY <2>2 DEF CallSound, CallTyped
  <2>4. Fwd!ToSet(fin) \subseteq Fwd!Up
    BY <2>2 DEF Fwd!ToSet
  <2>5. rs # <<>> => Head(rs) = rs[1]
    BY <2>2
  <2>6. {u \in Fwd!Up : a[u] = "run"} \subseteq IF rs = <<>> THEN {} ELSE Head(rs)
    BY <2>2, <2>5 DEF CallSound
  <2> QED BY <2>1, <2>3, <2>4, <2>6 DEF Fwd!Asleep
<1>3. Fwd!TypeOK
  BY <1>2 DEF FwdInv, CallsSound, HealthSound, Ended, Fwd!TypeOK
<1> QED BY <1>1, <1>3 DEF FailsOnlyAfterAll

(* A resolution fails only when every upstream of the group was asked and  *)
(* failed it, whatever the strategy, the ranking and the health the other  *)
(* queries leave behind (Forwarder._sequential, _parallel, _fastest).      *)
THEOREM NoEarlyFailure == Fwd!Spec => []FailsOnlyAfterAll
<1>1. FwdInv /\ [Fwd!Next]_(Fwd!vars) => FwdInv'
  BY FwdStep
<1> QED BY <1>1, FwdInit, FailsByInv, PTL DEF Fwd!Spec

-----------------------------------------------------------------------------
(* The listeners.  The tracker's counts are those of the open connections. *)
Inside == {"reading", "slot", "finishing"}
Open == {c \in Conn : phase[c] \in Inside}
OpenOf(a) == {c \in Conn : phase[c] \in Inside /\ ClientOf[c] = a}

Tracked ==
  /\ phase \in [Conn -> Inside \cup {"new", "refused", "ended"}]
  /\ total = Cardinality(Open) /\ total <= MaxConnections
  /\ perClient \in [Doors!Address -> Nat]
  /\ \A a \in Doors!Address : perClient[a] = Cardinality(OpenOf(a)) /\ perClient[a] <= MaxPerClient

(* No connection has more queries at work than its limit.                  *)
Limited == \A c \in Conn : Cardinality(Doors!Inflight(c)) <= MaxInflight

(* A query is sent once, waits in one place until it is read and has its   *)
(* slot, and nothing starts it before or again.                            *)
Ats == {"unsent", "sent", "read", "resolving", "draining", "answered", "silent", "undelivered",
        "cancelled", "refused"}
Record == [at : Ats, conn : Conn \cup {None}]

Waits(c, i) ==
  ~quic /\ wire[c][i] \in Query /\ query[wire[c][i]].at = "sent" /\ query[wire[c][i]].conn = c

Lined ==
  /\ quic \in BOOLEAN /\ held \in [Conn -> Query \cup {None}] /\ wire \in [Conn -> Seq(Query)]
  /\ query \in [Query -> Record]
  /\ \A q \in Query : query[q].at \in Doors!Working => query[q].conn # None
  /\ \A c \in Conn : phase[c] = "slot" =>
       ~quic /\ held[c] \in Query /\ query[held[c]].at = "read" /\ query[held[c]].conn = c
  /\ \A c \in Conn : \A i \in 1 .. Len(wire[c]) : Waits(c, i)
  /\ \A c \in Conn : \A i, j \in 1 .. Len(wire[c]) : wire[c][i] = wire[c][j] => i = j

StartedOnce ==
  /\ starts \in [Query -> 0 .. 1] /\ DOMAIN buffer = Query
  /\ \A q \in Query : ~quic /\ query[q].at \in {"unsent", "sent", "read"} => starts[q] = 0
  /\ \A q \in Query : quic /\ buffer[q] \notin {"sent", "closed"} => starts[q] = 0

DoorsInv == Tracked /\ Limited /\ Lined /\ StartedOnce

LEMMA DoorsFinite ==
  /\ \A S \in SUBSET Conn : IsFiniteSet(S) /\ Cardinality(S) \in Nat
  /\ \A S \in SUBSET Query : IsFiniteSet(S) /\ Cardinality(S) \in Nat
<1>1. IsFiniteSet(Conn) /\ IsFiniteSet(Query)
  BY DoorsAssumption DEF Doors!ListenersConstants, Doors!IsFiniteSet, IsFiniteSet
<1> QED BY <1>1, FS_Subset, FS_CardinalityType

LEMMA SameCardinality ==
  ASSUME NEW S
  PROVE  Doors!Cardinality(S) = Cardinality(S)
BY DEF Doors!Cardinality, Cardinality

LEMMA AddressIs ==
  ASSUME NEW c \in Conn
  PROVE  ClientOf[c] \in Doors!Address
BY DEF Doors!Address

LEMMA AdmitKeeps ==
  ASSUME Tracked, NEW c \in Conn, phase[c] = "new", Doors!Room(ClientOf[c]), Doors!Admit(ClientOf[c]),
         phase' = [phase EXCEPT ![c] = "reading"]
  PROVE  Tracked'
<1>1. PICK b \in Doors!Address : b = ClientOf[c]
  BY AddressIs
<1>2. /\ total < MaxConnections /\ perClient[b] < MaxPerClient
      /\ total' = total + 1 /\ perClient' = [perClient EXCEPT ![b] = perClient[b] + 1]
  BY <1>1 DEF Doors!Room, Doors!Admit
<1>3. MaxConnections \in Nat /\ MaxPerClient \in Nat
  BY DoorsAssumption DEF Doors!ListenersConstants
<1>4. phase' \in [Conn -> Inside \cup {"new", "refused", "ended"}]
  BY DEF Tracked, Inside
<1>5. Open' = Open \cup {c} /\ c \notin Open /\ Open \in SUBSET Conn
  BY DEF Tracked, Open, Inside
<1>6. Cardinality(Open') = Cardinality(Open) + 1 /\ Cardinality(Open) \in Nat
  BY <1>5, DoorsFinite, FS_AddElement
<1>7. total' = Cardinality(Open') /\ total' <= MaxConnections
  BY <1>2, <1>3, <1>6 DEF Tracked
<1>8. ASSUME NEW a \in Doors!Address PROVE perClient'[a] = Cardinality(OpenOf(a)') /\ perClient'[a] <= MaxPerClient
  <2>1. CASE a = b
    <3>1. OpenOf(a)' = OpenOf(a) \cup {c} /\ c \notin OpenOf(a) /\ OpenOf(a) \in SUBSET Conn
      BY <1>1, <2>1 DEF Tracked, OpenOf, Inside
    <3>2. Cardinality(OpenOf(a)') = Cardinality(OpenOf(a)) + 1 /\ Cardinality(OpenOf(a)) \in Nat
      BY <3>1, DoorsFinite, FS_AddElement
    <3>3. perClient'[a] = perClient[a] + 1 /\ perClient[a] = Cardinality(OpenOf(a))
      BY <1>2, <2>1 DEF Tracked
    <3> QED BY <1>2, <1>3, <2>1, <3>2, <3>3
  <2>2. CASE a # b
    <3>1. OpenOf(a)' = OpenOf(a)
      BY <1>1, <2>2 DEF Tracked, OpenOf, Inside
    <3>2. perClient'[a] = perClient[a]
      BY <1>2, <2>2 DEF Tracked
    <3> QED BY <3>1, <3>2 DEF Tracked
  <2> QED BY <2>1, <2>2
<1>9. perClient' \in [Doors!Address -> Nat]
  BY <1>2 DEF Tracked
<1> QED BY <1>4, <1>7, <1>8, <1>9 DEF Tracked

LEMMA ReleaseKeeps ==
  ASSUME Tracked, NEW c \in Conn, phase[c] \in Inside, Doors!Release(ClientOf[c]),
         phase' = [phase EXCEPT ![c] = "ended"]
  PROVE  Tracked'
<1>1. PICK b \in Doors!Address : b = ClientOf[c]
  BY AddressIs
<1>2. /\ total' = IF total > 0 THEN total - 1 ELSE 0
      /\ perClient' = [perClient EXCEPT ![b] = IF perClient[b] > 0 THEN perClient[b] - 1 ELSE 0]
  BY <1>1 DEF Doors!Release, Tracked
<1>3. MaxConnections \in Nat /\ MaxPerClient \in Nat
  BY DoorsAssumption DEF Doors!ListenersConstants
<1>4. phase' \in [Conn -> Inside \cup {"new", "refused", "ended"}]
  BY DEF Tracked, Inside
<1>5. Open' = Open \ {c} /\ c \in Open /\ Open \in SUBSET Conn
  BY DEF Tracked, Open, Inside
<1>6. /\ Cardinality(Open') = Cardinality(Open) - 1
      /\ Cardinality(Open) \in Nat /\ Cardinality(Open') \in Nat
  BY <1>5, DoorsFinite, FS_RemoveElement
<1>7. total' = Cardinality(Open') /\ total' <= MaxConnections
  BY <1>2, <1>3, <1>6 DEF Tracked
<1>8. ASSUME NEW a \in Doors!Address
      PROVE  perClient'[a] = Cardinality(OpenOf(a)') /\ perClient'[a] <= MaxPerClient /\ perClient'[a] \in Nat
  <2>1. CASE a = b
    <3>1. OpenOf(a)' = OpenOf(a) \ {c} /\ c \in OpenOf(a) /\ OpenOf(a) \in SUBSET Conn
      BY <1>1, <2>1 DEF Tracked, OpenOf, Inside
    <3>2. /\ Cardinality(OpenOf(a)') = Cardinality(OpenOf(a)) - 1
          /\ Cardinality(OpenOf(a)) \in Nat /\ Cardinality(OpenOf(a)') \in Nat
      BY <3>1, DoorsFinite, FS_RemoveElement
    <3>3. perClient'[a] = (IF perClient[a] > 0 THEN perClient[a] - 1 ELSE 0) /\ perClient[a] = Cardinality(OpenOf(a))
          /\ perClient[a] <= MaxPerClient
      BY <1>2, <2>1 DEF Tracked
    <3> QED BY <1>3, <3>2, <3>3
  <2>2. CASE a # b
    <3>1. OpenOf(a)' = OpenOf(a)
      BY <1>1, <2>2 DEF Tracked, OpenOf, Inside
    <3>2. perClient'[a] = perClient[a]
      BY <1>2, <2>2 DEF Tracked
    <3> QED BY <3>1, <3>2 DEF Tracked
  <2> QED BY <2>1, <2>2
<1>9. perClient' \in [Doors!Address -> Nat]
  <2>1. perClient' = [a \in Doors!Address |-> perClient'[a]]
    BY <1>2 DEF Tracked
  <2> QED BY <1>8, <2>1
<1> QED BY <1>4, <1>7, <1>8, <1>9 DEF Tracked

(* A connection that changes, and stays as open or as shut as it was.      *)
LEMMA PhaseKeeps ==
  ASSUME Tracked, NEW c \in Conn, NEW p \in Inside \cup {"new", "refused", "ended"},
         p \in Inside <=> phase[c] \in Inside, phase' = [phase EXCEPT ![c] = p], UNCHANGED <<total, perClient>>
  PROVE  Tracked'
<1>1. Open' = Open /\ \A a : OpenOf(a)' = OpenOf(a)
  BY DEF Tracked, Open, OpenOf
<1>2. phase' \in [Conn -> Inside \cup {"new", "refused", "ended"}]
  BY DEF Tracked
<1> QED BY <1>1, <1>2 DEF Tracked

LEMMA TrackerKept ==
  ASSUME Tracked, UNCHANGED <<phase, total, perClient>>
  PROVE  Tracked'
BY DEF Tracked, Open, OpenOf

-----------------------------------------------------------------------------
(* At most one query joins those at work on a connection.                  *)
LEMMA LimitKeeps ==
  ASSUME Limited, NEW c \in Conn, NEW q,
         \A b \in Conn \ {c} : Doors!Inflight(b)' \subseteq Doors!Inflight(b),
         \/ Doors!Inflight(c)' \subseteq Doors!Inflight(c)
         \/ /\ Doors!Inflight(c)' \subseteq Doors!Inflight(c) \cup {q}
            /\ Cardinality(Doors!Inflight(c)) < MaxInflight
  PROVE  Limited'
<1>1. \A b \in Conn : Doors!Inflight(b) \in SUBSET Query /\ Doors!Inflight(b)' \in SUBSET Query
  BY DEF Doors!Inflight
<1>2. MaxInflight \in Nat
  BY DoorsAssumption DEF Doors!ListenersConstants
<1>3. ASSUME NEW b \in Conn, Doors!Inflight(b)' \subseteq Doors!Inflight(b)
      PROVE  Cardinality(Doors!Inflight(b)') <= MaxInflight
  <2>1. PICK S, T : S = Doors!Inflight(b) /\ T = Doors!Inflight(b)'
    OBVIOUS
  <2>2. IsFiniteSet(S) /\ Cardinality(S) \in Nat /\ Cardinality(T) \in Nat /\ T \in SUBSET S
    BY <1>1, <1>3, <2>1, DoorsFinite
  <2>3. Cardinality(T) <= Cardinality(S)
    BY <2>2, FS_Subset
  <2>4. Cardinality(S) <= MaxInflight
    BY <2>1 DEF Limited
  <2> QED BY <1>2, <2>1, <2>2, <2>3, <2>4
<1>4. ASSUME Doors!Inflight(c)' \subseteq Doors!Inflight(c) \cup {q}, Cardinality(Doors!Inflight(c)) < MaxInflight
      PROVE  Cardinality(Doors!Inflight(c)') <= MaxInflight
  <2>1. PICK S, T : S = Doors!Inflight(c) /\ T = Doors!Inflight(c)'
    OBVIOUS
  <2>2. IsFiniteSet(S) /\ Cardinality(S) \in Nat /\ Cardinality(T) \in Nat /\ T \in SUBSET (S \cup {q})
    BY <1>1, <1>4, <2>1, DoorsFinite
  <2>3. IsFiniteSet(S \cup {q}) /\ Cardinality(S \cup {q}) \in Nat /\ Cardinality(S \cup {q}) <= Cardinality(S) + 1
    <3>1. /\ IsFiniteSet(S \cup {q})
          /\ Cardinality(S \cup {q}) = IF q \in S THEN Cardinality(S) ELSE Cardinality(S) + 1
      BY <2>2, FS_AddElement
    <3> QED BY <2>2, <3>1
  <2>4. Cardinality(T) <= Cardinality(S \cup {q})
    BY <2>2, <2>3, FS_Subset
  <2>5. Cardinality(S) < MaxInflight
    BY <1>4, <2>1
  <2> QED BY <1>2, <2>1, <2>2, <2>3, <2>4, <2>5
<1> QED BY <1>3, <1>4 DEF Limited

LEMMA LimitKept ==
  ASSUME Limited, \A b \in Conn : Doors!Inflight(b)' \subseteq Doors!Inflight(b)
  PROVE  Limited'
<1>1. CASE Conn = {}
  BY <1>1 DEF Limited
<1>2. CASE Conn # {}
  BY <1>2, LimitKeeps
<1> QED BY <1>1, <1>2

-----------------------------------------------------------------------------
(* One query changes, and the others stay as they are.                     *)
Others(q) == \A r \in Query : r # q => query'[r] = query[r]

LEMMA RecordIs ==
  ASSUME Lined, NEW q \in Query, NEW f \in Record, query' = [query EXCEPT ![q] = f]
  PROVE  query'[q] = f /\ Others(q) /\ query' \in [Query -> Record]
BY DEF Lined, Others

LEMMA AtIs ==
  ASSUME Lined, NEW q \in Query, NEW x \in Ats, query' = [query EXCEPT ![q].at = x]
  PROVE  /\ query'[q].at = x /\ query'[q].conn = query[q].conn /\ Others(q)
         /\ query' \in [Query -> Record]
<1>1. PICK e \in Record : e = query[q]
  BY DEF Lined
<1>2. PICK f : f = [e EXCEPT !.at = x]
  OBVIOUS
<1>3. f \in Record /\ f.at = x /\ f.conn = e.conn
  BY <1>2 DEF Record
<1>4. query' = [query EXCEPT ![q] = f]
  BY <1>1, <1>2 DEF Lined
<1> QED BY <1>1, <1>3, <1>4, RecordIs

LEMMA ConnIs ==
  ASSUME Lined, NEW q \in Query, NEW c \in Conn, query' = [query EXCEPT ![q].conn = c]
  PROVE  /\ query'[q].at = query[q].at /\ query'[q].conn = c /\ Others(q)
         /\ query' \in [Query -> Record]
<1>1. PICK e \in Record : e = query[q]
  BY DEF Lined
<1>2. PICK f : f = [e EXCEPT !.conn = c]
  OBVIOUS
<1>3. f \in Record /\ f.at = e.at /\ f.conn = c
  BY <1>2 DEF Record
<1>4. query' = [query EXCEPT ![q] = f]
  BY <1>1, <1>2 DEF Lined
<1> QED BY <1>1, <1>3, <1>4, RecordIs

LEMMA QueryIs ==
  ASSUME Lined, NEW q \in Query, NEW c \in Conn, NEW x \in Ats,
         query' = [query EXCEPT ![q] = [at |-> x, conn |-> c]]
  PROVE  /\ query'[q].at = x /\ query'[q].conn = c /\ Others(q)
         /\ query' \in [Query -> Record]
<1>1. PICK f : f = [at |-> x, conn |-> c]
  OBVIOUS
<1>2. f \in Record /\ f.at = x /\ f.conn = c
  BY <1>1 DEF Record
<1> QED BY <1>1, <1>2, RecordIs

-----------------------------------------------------------------------------
LEMMA LineKept ==
  ASSUME Lined, UNCHANGED <<quic, held, wire, query>>, \A c \in Conn : phase'[c] = "slot" => phase[c] = "slot"
  PROVE  Lined'
<1>1. \A c \in Conn : phase'[c] = "slot" =>
        ~quic' /\ held'[c] \in Query /\ query'[held'[c]].at = "read" /\ query'[held'[c]].conn = c
  BY DEF Lined
<1>2. \A c \in Conn : \A i \in 1 .. Len(wire'[c]) : Waits(c, i)'
  BY DEF Lined, Waits
<1> QED BY <1>1, <1>2 DEF Lined

LEMMA LinesApart ==
  ASSUME Lined, NEW c \in Conn, \A b \in Conn : b # c => wire'[b] = wire[b],
         \A i, j \in 1 .. Len(wire'[c]) : wire'[c][i] = wire'[c][j] => i = j
  PROVE  \A b \in Conn : \A i, j \in 1 .. Len(wire'[b]) : wire'[b][i] = wire'[b][j] => i = j
<1>1. ASSUME NEW b \in Conn, b # c
      PROVE  \A i, j \in 1 .. Len(wire'[b]) : wire'[b][i] = wire'[b][j] => i = j
  <2>1. \A i, j \in 1 .. Len(wire[b]) : wire[b][i] = wire[b][j] => i = j
    BY DEF Lined
  <2> QED BY <1>1, <2>1
<1> QED BY <1>1

LEMMA ConnectKeeps ==
  ASSUME DoorsInv, NEW c \in Conn, Doors!Connect(c)
  PROVE  DoorsInv'
<1>1. phase[c] = "new" /\ UNCHANGED <<quic, held, wire, query, buffer, starts>>
  BY DEF Doors!Connect
<1>2. PICK p \in {"reading", "refused"} : phase' = [phase EXCEPT ![c] = p]
  BY DEF Doors!Connect
<1>3. Tracked'
  <2>1. CASE Doors!Room(ClientOf[c])
    BY <1>1, <2>1, AdmitKeeps DEF Doors!Connect, DoorsInv
  <2>2. CASE ~Doors!Room(ClientOf[c])
    <3>1. phase' = [phase EXCEPT ![c] = "refused"] /\ UNCHANGED <<total, perClient>>
      BY <2>2 DEF Doors!Connect, Doors!tracker
    <3> QED BY <1>1, <3>1, PhaseKeeps DEF DoorsInv, Inside
  <2> QED BY <2>1, <2>2
<1>4. Limited'
  BY <1>1 DEF DoorsInv, Limited, Doors!Inflight
<1>5. Lined'
  <2>1. \A b \in Conn : phase'[b] = "slot" => phase[b] = "slot"
    BY <1>2 DEF DoorsInv, Tracked
  <2> QED BY <1>1, <2>1, LineKept DEF DoorsInv
<1>6. StartedOnce'
  BY <1>1 DEF DoorsInv, StartedOnce
<1> QED BY <1>3, <1>4, <1>5, <1>6 DEF DoorsInv

LEMMA BecomesKeeps ==
  ASSUME DoorsInv, UNCHANGED <<quic, phase, total, perClient, held, wire, query, buffer, starts>>
  PROVE  DoorsInv'
BY TrackerKept DEF DoorsInv, Limited, Doors!Inflight, Lined, Waits, StartedOnce

LEMMA SendKeeps ==
  ASSUME DoorsInv, NEW c \in Conn, NEW q \in Query, Doors!Send(c, q)
  PROVE  DoorsInv'
<1>1. /\ ~quic /\ query[q].at = "unsent" /\ query' = [query EXCEPT ![q] = [at |-> "sent", conn |-> c]]
      /\ wire' = [wire EXCEPT ![c] = Append(wire[c], q)]
      /\ UNCHANGED <<quic, phase, total, perClient, held, buffer, starts>>
  BY DEF Doors!Send, Doors!tracker, DoorsInv, Lined
<1>2. /\ query'[q].at = "sent" /\ query'[q].conn = c /\ Others(q)
      /\ query' \in [Query -> Record]
  BY <1>1, QueryIs DEF DoorsInv, Ats
<1>3. Tracked'
  BY <1>1, TrackerKept DEF DoorsInv
<1>4. Limited'
  <2>1. \A b \in Conn : Doors!Inflight(b)' \subseteq Doors!Inflight(b)
    BY <1>2 DEF Doors!Inflight, Doors!Working, Others
  <2> QED BY <2>1, LimitKept DEF DoorsInv
<1>5. PICK s, t : s = wire[c] /\ t = Append(s, q)
  OBVIOUS
<1>6. s \in Seq(Query) /\ \A i \in 1 .. Len(s) : s[i] \in Query /\ s[i] # q /\ query[s[i]].at = "sent" /\ query[s[i]].conn = c
  <2>1. s \in Seq(Query) /\ \A i \in 1 .. Len(s) : Waits(c, i)
    BY <1>5 DEF DoorsInv, Lined
  <2> QED BY <1>1, <1>5, <2>1 DEF Waits
<1>7. /\ t \in Seq(Query) /\ Len(t) = Len(s) + 1 /\ Len(s) \in Nat /\ t[Len(s) + 1] = q
      /\ \A i \in 1 .. Len(s) : t[i] = s[i]
  BY <1>5, <1>6
<1>8. \A i \in 1 .. Len(t) : i \in 1 .. Len(s) \/ i = Len(s) + 1
  BY <1>7
<1>9. \A i, j \in 1 .. Len(t) : t[i] = t[j] => i = j
  <2>1. \A i, j \in 1 .. Len(s) : s[i] = s[j] => i = j
    BY <1>5 DEF DoorsInv, Lined
  <2> QED BY <1>6, <1>7, <1>8, <2>1
<1>10. \A i \in 1 .. Len(t) : t[i] \in Query /\ query'[t[i]].at = "sent" /\ query'[t[i]].conn = c
  BY <1>2, <1>6, <1>7, <1>8 DEF Others
<1>11. wire' \in [Conn -> Seq(Query)] /\ wire'[c] = t /\ \A b \in Conn : b # c => wire'[b] = wire[b]
  BY <1>1, <1>5, <1>7 DEF DoorsInv, Lined
<1>12. \A b \in Conn : \A i \in 1 .. Len(wire'[b]) : Waits(b, i)'
  <2>1. ASSUME NEW b \in Conn, b # c, NEW i \in 1 .. Len(wire[b]) PROVE Waits(b, i)'
    <3>1. Waits(b, i)
      BY <2>1 DEF DoorsInv, Lined
    <3> QED BY <1>1, <1>2, <1>11, <2>1, <3>1 DEF Waits, Others
  <2> QED BY <1>1, <1>10, <1>11, <2>1 DEF Waits
<1>13. \A b \in Conn : phase'[b] = "slot" =>
         ~quic' /\ held'[b] \in Query /\ query'[held'[b]].at = "read" /\ query'[held'[b]].conn = b
  BY <1>1, <1>2 DEF DoorsInv, Lined, Others
<1>14. \A b \in Conn : \A i, j \in 1 .. Len(wire'[b]) : wire'[b][i] = wire'[b][j] => i = j
  BY <1>9, <1>11, LinesApart DEF DoorsInv
<1>15. \A r \in Query : query'[r].at \in Doors!Working => query'[r].conn # None
  BY <1>2 DEF DoorsInv, Lined, Others, Doors!Working
<1>16. Lined'
  BY <1>1, <1>2, <1>11, <1>12, <1>13, <1>14, <1>15 DEF DoorsInv, Lined
<1>17. StartedOnce'
  BY <1>1, <1>2 DEF DoorsInv, StartedOnce, Others
<1> QED BY <1>3, <1>4, <1>16, <1>17 DEF DoorsInv

(* Reading: the head of the line moves into the connection's hand.         *)
LEMMA ReadKeeps ==
  ASSUME DoorsInv, NEW c \in Conn, Doors!ReadQuery(c)
  PROVE  DoorsInv'
<1>1. /\ ~quic /\ phase[c] = "reading" /\ wire[c] # <<>>
      /\ held' = [held EXCEPT ![c] = Head(wire[c])]
      /\ wire' = [wire EXCEPT ![c] = Tail(wire[c])]
      /\ query' = [query EXCEPT ![Head(wire[c])].at = "read"]
      /\ phase' = [phase EXCEPT ![c] = "slot"]
      /\ UNCHANGED <<quic, total, perClient, buffer, starts>>
  BY DEF Doors!ReadQuery, Doors!tracker, DoorsInv, Lined
<1>2. PICK s, t : s = wire[c] /\ t = Tail(s)
  OBVIOUS
<1>3. s \in Seq(Query) /\ s # <<>> /\ \A i \in 1 .. Len(s) : Waits(c, i)
  BY <1>1, <1>2 DEF DoorsInv, Lined
<1>4. /\ t \in Seq(Query) /\ Len(t) = Len(s) - 1 /\ Len(s) \in Nat \ {0} /\ Head(s) = s[1]
      /\ \A i \in 1 .. Len(t) : t[i] = s[i + 1] /\ i + 1 \in 1 .. Len(s)
  BY <1>2, <1>3
<1>5. PICK q : q = Head(s)
  OBVIOUS
<1>6. q \in Query /\ query[q].at = "sent" /\ query[q].conn = c
  BY <1>2, <1>3, <1>4, <1>5 DEF Waits
<1>7. /\ query'[q].at = "read" /\ query'[q].conn = c /\ Others(q)
      /\ query' \in [Query -> Record]
  BY <1>1, <1>2, <1>5, <1>6, AtIs DEF DoorsInv, Ats
<1>8. Tracked'
  BY <1>1, PhaseKeeps DEF DoorsInv, Inside
<1>9. Limited'
  <2>1. \A b \in Conn : Doors!Inflight(b)' \subseteq Doors!Inflight(b)
    BY <1>7 DEF Doors!Inflight, Doors!Working, Others
  <2>2. Limited
    BY DEF DoorsInv
  <2> QED BY <2>1, <2>2, LimitKept
<1>10. \A i, j \in 1 .. Len(s) : s[i] = s[j] => i = j
  BY <1>2 DEF DoorsInv, Lined
<1>11. ASSUME NEW i \in 1 .. Len(t) PROVE t[i] # q
  <2>1. t[i] = s[i + 1] /\ i + 1 \in 1 .. Len(s) /\ 1 \in 1 .. Len(s) /\ i + 1 # 1
    BY <1>4
  <2> QED BY <1>4, <1>5, <1>10, <2>1
<1>12. \A i, j \in 1 .. Len(t) : t[i] = t[j] => i = j
  <2>1. ASSUME NEW i \in 1 .. Len(t), NEW j \in 1 .. Len(t), t[i] = t[j] PROVE i = j
    <3>1. s[i + 1] = s[j + 1] /\ i + 1 \in 1 .. Len(s) /\ j + 1 \in 1 .. Len(s)
      BY <1>4, <2>1
    <3>2. i + 1 = j + 1
      BY <1>10, <3>1
    <3> QED BY <3>2
  <2> QED BY <2>1
<1>13. wire' \in [Conn -> Seq(Query)] /\ wire'[c] = t /\ \A b \in Conn : b # c => wire'[b] = wire[b]
  BY <1>1, <1>2, <1>4 DEF DoorsInv, Lined
<1>14. \A i \in 1 .. Len(t) : t[i] \in Query /\ query'[t[i]].at = "sent" /\ query'[t[i]].conn = c
  <2>1. \A i \in 1 .. Len(s) : s[i] \in Query /\ query[s[i]].at = "sent" /\ query[s[i]].conn = c
    BY <1>2, <1>3 DEF Waits
  <2>2. ASSUME NEW i \in 1 .. Len(t) PROVE t[i] \in Query /\ query[t[i]].at = "sent" /\ query[t[i]].conn = c
    <3>1. t[i] = s[i + 1] /\ i + 1 \in 1 .. Len(s)
      BY <1>4
    <3> QED BY <2>1, <3>1
  <2> QED BY <1>7, <1>11, <2>2 DEF Others
<1>15. \A b \in Conn : \A i \in 1 .. Len(wire'[b]) : Waits(b, i)'
  <2>1. ASSUME NEW b \in Conn, b # c, NEW i \in 1 .. Len(wire[b]) PROVE Waits(b, i)'
    <3>1. Waits(b, i)
      BY <2>1 DEF DoorsInv, Lined
    <3>2. wire'[b][i] = wire[b][i] /\ wire[b][i] # q
      BY <1>6, <1>13, <2>1, <3>1 DEF Waits
    <3>3. query'[wire[b][i]] = query[wire[b][i]]
      BY <1>7, <3>1, <3>2 DEF Waits, Others
    <3> QED BY <1>1, <3>1, <3>2, <3>3 DEF Waits
  <2>2. \A i \in 1 .. Len(wire'[c]) : Waits(c, i)'
    BY <1>1, <1>13, <1>14 DEF Waits
  <2> QED BY <1>13, <2>1, <2>2
<1>16. held' \in [Conn -> Query \cup {None}] /\ held'[c] = q /\ \A b \in Conn : b # c => held'[b] = held[b]
  BY <1>1, <1>2, <1>5, <1>6 DEF DoorsInv, Lined
<1>17. ASSUME NEW b \in Conn, phase'[b] = "slot"
       PROVE  ~quic' /\ held'[b] \in Query /\ query'[held'[b]].at = "read" /\ query'[held'[b]].conn = b
  <2>1. CASE b = c
    BY <1>1, <1>6, <1>7, <1>16, <2>1
  <2>2. CASE b # c
    <3>1. phase[b] = "slot"
      BY <1>1, <1>17, <2>2 DEF DoorsInv, Tracked
    <3>2. held[b] \in Query /\ query[held[b]].at = "read" /\ query[held[b]].conn = b
      BY <3>1 DEF DoorsInv, Lined
    <3> QED BY <1>1, <1>6, <1>7, <1>16, <2>2, <3>2 DEF Others
  <2> QED BY <2>1, <2>2
<1>18. \A b \in Conn : \A i, j \in 1 .. Len(wire'[b]) : wire'[b][i] = wire'[b][j] => i = j
  BY <1>12, <1>13, LinesApart DEF DoorsInv
<1>19. \A r \in Query : query'[r].at \in Doors!Working => query'[r].conn # None
  BY <1>7 DEF DoorsInv, Lined, Others, Doors!Working
<1>20. Lined'
  BY <1>1, <1>7, <1>13, <1>15, <1>16, <1>17, <1>18, <1>19 DEF DoorsInv, Lined
<1>21. StartedOnce'
  <2>1. \A r \in Query : query'[r].at \in {"unsent", "sent", "read"} => query[r].at \in {"unsent", "sent", "read"}
    BY <1>6, <1>7 DEF Others
  <2> QED BY <1>1, <2>1 DEF DoorsInv, StartedOnce
<1> QED BY <1>8, <1>9, <1>20, <1>21 DEF DoorsInv

(* A query that is past waiting changes, and no connection's line or hand. *)
Past == Ats \ {"unsent", "sent", "read"}

LEMMA PastKeeps ==
  ASSUME Lined, NEW q \in Query, quic \/ query[q].at \notin {"sent", "read"}, Others(q), query' \in [Query -> Record],
         query'[q].at \in Doors!Working => query'[q].conn # None,
         UNCHANGED <<quic, phase, held, wire>>
  PROVE  Lined'
<1>1. \A r \in Query : query'[r].at \in Doors!Working => query'[r].conn # None
  BY DEF Lined, Others
<1>2. \A b \in Conn : phase'[b] = "slot" =>
        ~quic' /\ held'[b] \in Query /\ query'[held'[b]].at = "read" /\ query'[held'[b]].conn = b
  BY DEF Lined, Others
<1>3. ASSUME NEW b \in Conn, NEW i \in 1 .. Len(wire[b]) PROVE Waits(b, i)'
  <2>1. Waits(b, i)
    BY DEF Lined
  <2> QED BY <2>1 DEF Waits, Others
<1>4. \A b \in Conn : \A i \in 1 .. Len(wire'[b]) : Waits(b, i)'
  BY <1>3
<1> QED BY <1>1, <1>2, <1>4 DEF Lined

LEMMA AnswerKeeps ==
  ASSUME DoorsInv, NEW q \in Query, query[q].at \in Doors!Working, NEW x \in Past,
         query' = [query EXCEPT ![q].at = x],
         UNCHANGED <<quic, phase, total, perClient, held, wire, buffer, starts>>
  PROVE  DoorsInv'
<1>1. /\ query'[q].at = x /\ query'[q].conn = query[q].conn /\ Others(q)
      /\ query' \in [Query -> Record]
  BY AtIs DEF DoorsInv, Past
<1>2. Tracked'
  BY TrackerKept DEF DoorsInv
<1>3. Limited'
  <2>1. \A b \in Conn : Doors!Inflight(b)' \subseteq Doors!Inflight(b)
    BY <1>1 DEF Doors!Inflight, Others
  <2> QED BY <2>1, LimitKept DEF DoorsInv
<1>4. Lined'
  <2>1. query[q].conn # None /\ query[q].at \notin {"sent", "read"}
    BY DEF DoorsInv, Lined, Doors!Working
  <2> QED BY <1>1, <2>1, PastKeeps DEF DoorsInv
<1>5. StartedOnce'
  BY <1>1 DEF DoorsInv, StartedOnce, Others, Past
<1> QED BY <1>2, <1>3, <1>4, <1>5 DEF DoorsInv

LEMMA ReadEndKeeps ==
  ASSUME DoorsInv, NEW c \in Conn, Doors!ReadEnd(c)
  PROVE  DoorsInv'
<1>1. /\ phase[c] = "reading" /\ phase' = [phase EXCEPT ![c] = "finishing"]
      /\ UNCHANGED <<quic, total, perClient, held, wire, query, buffer, starts>>
  BY DEF Doors!ReadEnd, Doors!StopsReading, Doors!tracker
<1>2. Tracked'
  BY <1>1, PhaseKeeps DEF DoorsInv, Inside
<1>3. Limited'
  BY <1>1 DEF DoorsInv, Limited, Doors!Inflight
<1>4. Lined'
  <2>1. \A b \in Conn : phase'[b] = "slot" => phase[b] = "slot"
    BY <1>1 DEF DoorsInv, Tracked
  <2> QED BY <1>1, <2>1, LineKept DEF DoorsInv
<1>5. StartedOnce'
  BY <1>1 DEF DoorsInv, StartedOnce
<1> QED BY <1>2, <1>3, <1>4, <1>5 DEF DoorsInv

(* The query in hand is started, for the first time.                       *)
LEMMA GetSlotKeeps ==
  ASSUME DoorsInv, NEW c \in Conn, Doors!GetSlot(c)
  PROVE  DoorsInv'
<1>1. PICK q : q = held[c]
  OBVIOUS
<1>2. /\ phase[c] = "slot" /\ Doors!Cardinality(Doors!Inflight(c)) < MaxInflight
      /\ query' = [query EXCEPT ![q].at = "resolving"]
      /\ starts' = [starts EXCEPT ![q] = starts[q] + 1]
      /\ held' = [held EXCEPT ![c] = None]
      /\ phase' = [phase EXCEPT ![c] = "reading"]
      /\ UNCHANGED <<quic, total, perClient, wire, buffer>>
  BY <1>1 DEF Doors!GetSlot, Doors!tracker, DoorsInv, StartedOnce
<1>3. ~quic /\ q \in Query /\ query[q].at = "read" /\ query[q].conn = c /\ starts[q] = 0
  BY <1>1, <1>2 DEF DoorsInv, Lined, StartedOnce
<1>4. /\ query'[q].at = "resolving" /\ query'[q].conn = c /\ Others(q)
      /\ query' \in [Query -> Record]
  BY <1>2, <1>3, AtIs DEF DoorsInv, Ats
<1>5. Tracked'
  BY <1>2, PhaseKeeps DEF DoorsInv, Inside
<1>6. Limited'
  <2>1. \A b \in Conn \ {c} : Doors!Inflight(b)' \subseteq Doors!Inflight(b)
    BY <1>4 DEF Doors!Inflight, Others
  <2>2. Doors!Inflight(c)' \subseteq Doors!Inflight(c) \cup {q}
    BY <1>4 DEF Doors!Inflight, Others
  <2>3. Cardinality(Doors!Inflight(c)) < MaxInflight
    BY <1>2, SameCardinality
  <2> QED BY <2>1, <2>2, <2>3, LimitKeeps DEF DoorsInv
<1>7. c # None
  BY DoorsAssumption DEF Doors!ListenersConstants
<1>8. held' \in [Conn -> Query \cup {None}] /\ \A b \in Conn : b # c => held'[b] = held[b]
  BY <1>2 DEF DoorsInv, Lined
<1>9. ASSUME NEW b \in Conn, phase'[b] = "slot"
      PROVE  ~quic' /\ held'[b] \in Query /\ query'[held'[b]].at = "read" /\ query'[held'[b]].conn = b
  <2>1. b # c /\ phase[b] = "slot"
    BY <1>2, <1>9 DEF DoorsInv, Tracked
  <2>2. held[b] \in Query /\ query[held[b]].at = "read" /\ query[held[b]].conn = b
    BY <2>1 DEF DoorsInv, Lined
  <2> QED BY <1>2, <1>3, <1>4, <1>8, <2>1, <2>2 DEF Others
<1>10. ASSUME NEW b \in Conn, NEW i \in 1 .. Len(wire[b]) PROVE Waits(b, i)'
  <2>1. Waits(b, i)
    BY DEF DoorsInv, Lined
  <2> QED BY <1>2, <1>3, <1>4, <2>1 DEF Waits, Others
<1>11. \A b \in Conn : \A i \in 1 .. Len(wire'[b]) : Waits(b, i)'
  BY <1>2, <1>10
<1>12. \A r \in Query : query'[r].at \in Doors!Working => query'[r].conn # None
  BY <1>4, <1>7 DEF DoorsInv, Lined, Others
<1>13. Lined'
  BY <1>2, <1>4, <1>8, <1>9, <1>11, <1>12 DEF DoorsInv, Lined
<1>14. StartedOnce'
  <2>1. starts' \in [Query -> 0 .. 1] /\ \A r \in Query : r # q => starts'[r] = starts[r]
    BY <1>2, <1>3 DEF DoorsInv, StartedOnce
  <2> QED BY <1>2, <1>3, <1>4, <2>1 DEF DoorsInv, StartedOnce, Others
<1> QED BY <1>5, <1>6, <1>13, <1>14 DEF DoorsInv

(* A connection ends: its queries are cancelled and its slot goes back.    *)
LEMMA EndKeeps ==
  ASSUME DoorsInv, NEW c \in Conn, phase[c] \in Inside, NEW also \in SUBSET Query,
         \A q \in also : query[q].at = "read" /\ query[q].conn = c,
         Doors!End(c, also), UNCHANGED <<quic, starts>>, DOMAIN buffer' = Query,
         \A q \in Query : buffer'[q] \in {buffer[q], "closed"}
  PROVE  DoorsInv'
<1>1. /\ phase' = [phase EXCEPT ![c] = "ended"] /\ held' = [held EXCEPT ![c] = None]
      /\ wire' = [wire EXCEPT ![c] = <<>>] /\ Doors!Release(ClientOf[c])
      /\ query' = [q \in Query |-> IF q \in Doors!Inflight(c) \cup also
                                   THEN [query[q] EXCEPT !.at = "cancelled"] ELSE query[q]]
  BY DEF Doors!End, Doors!Cancelled
<1>2. ASSUME NEW q \in Query
      PROVE  /\ query'[q] \in Record /\ query'[q].conn = query[q].conn
             /\ \/ query'[q] = query[q]
                \/ /\ query[q].conn = c /\ query'[q].at = "cancelled"
                   /\ query[q].at \in Doors!Working \cup {"read"}
  <2>1. CASE q \in Doors!Inflight(c) \cup also
    <3>1. PICK e \in Record : e = query[q]
      BY DEF DoorsInv, Lined
    <3>2. query'[q] = [e EXCEPT !.at = "cancelled"]
      BY <1>1, <2>1, <3>1
    <3>3. query'[q] \in Record /\ query'[q].conn = e.conn /\ query'[q].at = "cancelled"
      BY <3>2 DEF Record, Ats
    <3>4. query[q].conn = c /\ query[q].at \in Doors!Working \cup {"read"}
      BY <2>1 DEF Doors!Inflight
    <3> QED BY <3>1, <3>3, <3>4
  <2>2. CASE q \notin Doors!Inflight(c) \cup also
    <3>1. query'[q] = query[q]
      BY <1>1, <2>2
    <3> QED BY <3>1 DEF DoorsInv, Lined
  <2> QED BY <2>1, <2>2
<1>3. query' \in [Query -> Record]
  BY <1>1, <1>2
<1>4. Tracked'
  BY <1>1, ReleaseKeeps DEF DoorsInv
<1>5. Limited'
  <2>1. \A b \in Conn : Doors!Inflight(b)' \subseteq Doors!Inflight(b)
    BY <1>2 DEF Doors!Inflight, Doors!Working
  <2> QED BY <2>1, LimitKept DEF DoorsInv
<1>6. held' \in [Conn -> Query \cup {None}] /\ \A b \in Conn : b # c => held'[b] = held[b]
  BY <1>1 DEF DoorsInv, Lined
<1>7. wire' \in [Conn -> Seq(Query)] /\ wire'[c] = <<>> /\ \A b \in Conn : b # c => wire'[b] = wire[b]
  <2>1. <<>> \in Seq(Query)
    OBVIOUS
  <2> QED BY <1>1, <2>1 DEF DoorsInv, Lined
<1>8. ASSUME NEW b \in Conn, phase'[b] = "slot"
      PROVE  ~quic' /\ held'[b] \in Query /\ query'[held'[b]].at = "read" /\ query'[held'[b]].conn = b
  <2>1. b # c /\ phase[b] = "slot"
    BY <1>1, <1>8 DEF DoorsInv, Tracked
  <2>2. ~quic /\ held[b] \in Query /\ query[held[b]].at = "read" /\ query[held[b]].conn = b
    BY <2>1 DEF DoorsInv, Lined
  <2>3. query'[held[b]] = query[held[b]]
    BY <1>2, <2>1, <2>2
  <2> QED BY <1>6, <2>1, <2>2, <2>3
<1>9. 1 .. Len(<<>>) = {}
  OBVIOUS
<1>10. ASSUME NEW b \in Conn, b # c, NEW i \in 1 .. Len(wire[b]) PROVE Waits(b, i)'
  <2>1. Waits(b, i)
    BY DEF DoorsInv, Lined
  <2>2. query'[wire[b][i]] = query[wire[b][i]]
    BY <1>2, <1>10, <2>1 DEF Waits
  <2> QED BY <1>7, <1>10, <2>1, <2>2 DEF Waits
<1>11. \A b \in Conn : \A i \in 1 .. Len(wire'[b]) : Waits(b, i)'
  BY <1>7, <1>9, <1>10
<1>12. \A b \in Conn : \A i, j \in 1 .. Len(wire'[b]) : wire'[b][i] = wire'[b][j] => i = j
  <2>1. \A b \in Conn : \A i, j \in 1 .. Len(wire[b]) : wire[b][i] = wire[b][j] => i = j
    BY DEF DoorsInv, Lined
  <2>2. ASSUME NEW b \in Conn, NEW i \in 1 .. Len(wire'[b]), NEW j \in 1 .. Len(wire'[b]),
               wire'[b][i] = wire'[b][j]
        PROVE  i = j
    <3>1. b # c
      BY <1>7, <1>9, <2>2
    <3>2. wire'[b] = wire[b]
      BY <1>7, <3>1
    <3> QED BY <2>1, <2>2, <3>2
  <2> QED BY <2>2
<1>13. ASSUME NEW r \in Query, query'[r].at \in Doors!Working PROVE query'[r].conn # None
  <2>1. query'[r].at # "cancelled"
    BY <1>13 DEF Doors!Working
  <2>2. query'[r] = query[r]
    BY <1>2, <2>1
  <2> QED BY <1>13, <2>2 DEF DoorsInv, Lined
<1>14. Lined'
  BY <1>3, <1>6, <1>7, <1>8, <1>11, <1>12, <1>13 DEF DoorsInv, Lined
<1>15. StartedOnce'
  <2>1. \A r \in Query : query'[r].at \in {"unsent", "sent", "read"} => query[r].at \in {"unsent", "sent", "read"}
    BY <1>2
  <2> QED BY <2>1 DEF DoorsInv, StartedOnce
<1> QED BY <1>4, <1>5, <1>14, <1>15 DEF DoorsInv

-----------------------------------------------------------------------------
(* QUIC: what arrives on the stream of a query.                            *)
LEMMA PartKeeps ==
  ASSUME DoorsInv, NEW c \in Conn, NEW q \in Query, Doors!Part(c, q)
  PROVE  DoorsInv'
<1>1. /\ quic /\ query[q].conn \in {None, c} /\ buffer[q] = "empty"
      /\ query' = [query EXCEPT ![q].conn = c] /\ buffer' = [buffer EXCEPT ![q] = "part"]
      /\ UNCHANGED <<quic, phase, total, perClient, held, wire, starts>>
  BY DEF Doors!Part, Doors!OnStream, Doors!tracker
<1>2. /\ query'[q].at = query[q].at /\ query'[q].conn = c /\ Others(q)
      /\ query' \in [Query -> Record]
  BY <1>1, ConnIs DEF DoorsInv
<1>3. c # None
  BY DoorsAssumption DEF Doors!ListenersConstants
<1>4. Tracked'
  BY <1>1, TrackerKept DEF DoorsInv
<1>5. Limited'
  <2>1. query[q].at \in Doors!Working => query[q].conn = c
    BY <1>1 DEF DoorsInv, Lined
  <2>2. \A b \in Conn : Doors!Inflight(b)' \subseteq Doors!Inflight(b)
    BY <1>2, <2>1 DEF Doors!Inflight, Doors!Working, Others
  <2> QED BY <2>2, LimitKept DEF DoorsInv
<1>6. Lined'
  BY <1>1, <1>2, <1>3, PastKeeps DEF DoorsInv
<1>7. StartedOnce'
  BY <1>1 DEF DoorsInv, StartedOnce
<1> QED BY <1>4, <1>5, <1>6, <1>7 DEF DoorsInv

LEMMA SpawnKeeps ==
  ASSUME DoorsInv, NEW c \in Conn, NEW q \in Query, quic, query[q].conn \in {None, c},
         buffer[q] \notin {"sent", "closed"}, Doors!Spawn(c, q),
         DOMAIN buffer' = Query, buffer'[q] \in {"sent", "closed"},
         \A r \in Query : r # q => buffer'[r] = buffer[r],
         UNCHANGED <<quic, phase, total, perClient, held, wire>>
  PROVE  DoorsInv'
<1>1. starts[q] = 0
  BY DEF DoorsInv, StartedOnce
<1>2. c # None
  BY DoorsAssumption DEF Doors!ListenersConstants
<1>3. Tracked'
  BY TrackerKept DEF DoorsInv
<1>4. ASSUME query' \in [Query -> Record], query'[q].conn = c, Others(q) PROVE Lined'
  BY <1>2, <1>4, PastKeeps DEF DoorsInv
<1>5. ASSUME starts' \in [Query -> 0 .. 1], \A r \in Query : r # q => starts'[r] = starts[r] PROVE StartedOnce'
  BY <1>5 DEF DoorsInv, StartedOnce
<1>6. CASE Doors!Cardinality(Doors!Inflight(c)) < MaxInflight
  <2>1. /\ query' = [query EXCEPT ![q] = [at |-> "resolving", conn |-> c]]
        /\ starts' = [starts EXCEPT ![q] = starts[q] + 1]
    BY <1>6 DEF Doors!Spawn, DoorsInv, StartedOnce
  <2>2. query'[q].conn = c /\ Others(q) /\ query' \in [Query -> Record]
    BY <2>1, QueryIs DEF DoorsInv, Ats
  <2>3. Limited'
    <3>1. \A b \in Conn \ {c} : Doors!Inflight(b)' \subseteq Doors!Inflight(b)
      BY <2>2 DEF Doors!Inflight, Others
    <3>2. Doors!Inflight(c)' \subseteq Doors!Inflight(c) \cup {q}
      BY <2>2 DEF Doors!Inflight, Others
    <3>3. Cardinality(Doors!Inflight(c)) < MaxInflight
      BY <1>6, SameCardinality
    <3> QED BY <3>1, <3>2, <3>3, LimitKeeps DEF DoorsInv
  <2>4. starts' \in [Query -> 0 .. 1] /\ \A r \in Query : r # q => starts'[r] = starts[r]
    BY <1>1, <2>1 DEF DoorsInv, StartedOnce
  <2> QED BY <1>3, <1>4, <1>5, <2>2, <2>3, <2>4 DEF DoorsInv
<1>7. CASE ~(Doors!Cardinality(Doors!Inflight(c)) < MaxInflight)
  <2>1. query' = [query EXCEPT ![q] = [at |-> "refused", conn |-> c]] /\ starts' = starts
    BY <1>7 DEF Doors!Spawn
  <2>2. query'[q].at = "refused" /\ query'[q].conn = c /\ Others(q) /\ query' \in [Query -> Record]
    BY <2>1, QueryIs DEF DoorsInv, Ats
  <2>3. Limited'
    <3>1. \A b \in Conn : Doors!Inflight(b)' \subseteq Doors!Inflight(b)
      BY <2>2 DEF Doors!Inflight, Doors!Working, Others
    <3> QED BY <3>1, LimitKept DEF DoorsInv
  <2>4. starts' \in [Query -> 0 .. 1]
    BY <2>1 DEF DoorsInv, StartedOnce
  <2> QED BY <1>3, <1>4, <1>5, <2>1, <2>2, <2>3, <2>4 DEF DoorsInv
<1> QED BY <1>6, <1>7

LEMMA CompleteKeeps ==
  ASSUME DoorsInv, NEW c \in Conn, NEW q \in Query, NEW fin \in BOOLEAN, Doors!Complete(c, q, fin)
  PROVE  DoorsInv'
<1>1. PICK b \in {"sent", "closed"} : buffer' = [buffer EXCEPT ![q] = b]
  BY DEF Doors!Complete
<1>2. /\ quic /\ query[q].conn \in {None, c} /\ buffer[q] # "closed"
      /\ UNCHANGED <<quic, phase, total, perClient, held, wire>>
  BY DEF Doors!Complete, Doors!OnStream, Doors!tracker
<1>3. DOMAIN buffer' = Query /\ buffer'[q] = b /\ \A r \in Query : r # q => buffer'[r] = buffer[r]
  BY <1>1 DEF DoorsInv, StartedOnce
<1>4. CASE Doors!Fresh(q)
  <2>1. Doors!Spawn(c, q) /\ buffer[q] \notin {"sent", "closed"}
    BY <1>2, <1>4 DEF Doors!Complete, Doors!Fresh
  <2> QED BY <1>2, <1>3, <2>1, SpawnKeeps
<1>5. CASE ~Doors!Fresh(q)
  <2>1. UNCHANGED <<query, starts>> /\ buffer[q] = "sent"
    BY <1>5 DEF Doors!Complete, Doors!Fresh
  <2>2. Tracked' /\ Limited' /\ Lined'
    BY <1>2, <2>1, TrackerKept DEF DoorsInv, Limited, Doors!Inflight, Lined, Waits
  <2>3. StartedOnce'
    BY <1>2, <1>3, <2>1 DEF DoorsInv, StartedOnce
  <2> QED BY <2>2, <2>3 DEF DoorsInv
<1> QED BY <1>4, <1>5

LEMMA StreamResetKeeps ==
  ASSUME DoorsInv, NEW c \in Conn, NEW q \in Query, Doors!StreamReset(c, q)
  PROVE  DoorsInv'
<1>1. /\ buffer' = [buffer EXCEPT ![q] = "closed"]
      /\ UNCHANGED <<quic, phase, total, perClient, held, wire, query, starts>>
  BY DEF Doors!StreamReset, Doors!tracker
<1>2. Tracked' /\ Limited' /\ Lined'
  BY <1>1, TrackerKept DEF DoorsInv, Limited, Doors!Inflight, Lined, Waits
<1>3. StartedOnce'
  BY <1>1 DEF DoorsInv, StartedOnce
<1> QED BY <1>2, <1>3 DEF DoorsInv

-----------------------------------------------------------------------------
LEMMA DoorsInit == Doors!Init => DoorsInv
<1> SUFFICES ASSUME Doors!Init PROVE DoorsInv
  OBVIOUS
<1>1. MaxConnections \in Nat /\ MaxPerClient \in Nat /\ MaxInflight \in Nat
  BY DoorsAssumption DEF Doors!ListenersConstants
<1>2. Cardinality({}) = 0
  BY FS_EmptySet
<1>3. Tracked
  <2>1. Open = {} /\ \A a : OpenOf(a) = {}
    BY DEF Doors!Init, Open, OpenOf, Inside
  <2>2. phase \in [Conn -> Inside \cup {"new", "refused", "ended"}]
    BY DEF Doors!Init, Inside
  <2>3. perClient \in [Doors!Address -> Nat] /\ \A a \in Doors!Address : perClient[a] = 0
    BY DEF Doors!Init
  <2>4. total = 0
    BY DEF Doors!Init
  <2> QED BY <1>1, <1>2, <2>1, <2>2, <2>3, <2>4 DEF Tracked
<1>4. Limited
  <2>1. \A c \in Conn : Doors!Inflight(c) = {}
    BY DEF Doors!Init, Doors!Inflight, Doors!Working
  <2> QED BY <1>1, <1>2, <2>1 DEF Limited
<1>5. Lined
  <2>1. 1 .. Len(<<>>) = {} /\ <<>> \in Seq(Query)
    OBVIOUS
  <2>2. \A c \in Conn : wire[c] = <<>>
    BY DEF Doors!Init
  <2>3. query \in [Query -> Record] /\ \A q \in Query : query[q].at = "unsent"
    <3>1. PICK e : e = [at |-> "unsent", conn |-> None]
      OBVIOUS
    <3>2. e \in Record /\ e.at = "unsent"
      BY <3>1 DEF Record, Ats
    <3>3. query = [q \in Query |-> e]
      BY <3>1 DEF Doors!Init
    <3> QED BY <3>2, <3>3
  <2>4. /\ quic \in BOOLEAN /\ held \in [Conn -> Query \cup {None}] /\ wire \in [Conn -> Seq(Query)]
        /\ \A c \in Conn : phase[c] # "slot"
    BY <2>1 DEF Doors!Init
  <2> QED BY <2>1, <2>2, <2>3, <2>4 DEF Lined, Doors!Working
<1>6. StartedOnce
  BY DEF Doors!Init, StartedOnce
<1> QED BY <1>3, <1>4, <1>5, <1>6 DEF DoorsInv

LEMMA ServerStepKeeps ==
  ASSUME DoorsInv, NEW c \in Conn, Doors!ServerStep(c)
  PROVE  DoorsInv'
<1>1. CASE Doors!ReadQuery(c)
  BY <1>1, ReadKeeps
<1>2. CASE Doors!ReadEnd(c)
  BY <1>2, ReadEndKeeps
<1>3. CASE Doors!GetSlot(c)
  BY <1>3, GetSlotKeeps
<1>4. DOMAIN buffer = Query
  BY DEF DoorsInv, StartedOnce
<1>5. CASE Doors!SlotTimeout(c)
  <2>1. phase[c] = "slot" /\ Doors!End(c, {held[c]}) /\ UNCHANGED <<quic, buffer, starts>>
    BY <1>5 DEF Doors!SlotTimeout
  <2>2. PICK also : also = {held[c]}
    OBVIOUS
  <2>3. also \in SUBSET Query /\ \A q \in also : query[q].at = "read" /\ query[q].conn = c
    BY <2>1, <2>2 DEF DoorsInv, Lined
  <2> QED BY <1>4, <2>1, <2>2, <2>3, EndKeeps DEF Inside
<1>6. CASE Doors!Finish(c) \/ Doors!FinishTimeout(c)
  <2>1. phase[c] = "finishing" /\ Doors!End(c, {}) /\ UNCHANGED <<quic, buffer, starts>>
    BY <1>6 DEF Doors!Finish, Doors!FinishTimeout
  <2> QED BY <1>4, <2>1, EndKeeps DEF Inside
<1>7. CASE Doors!Terminated(c)
  <2>1. /\ phase[c] = "reading" /\ Doors!End(c, {}) /\ UNCHANGED <<quic, starts>>
        /\ DOMAIN buffer' = Query /\ \A q \in Query : buffer'[q] \in {buffer[q], "closed"}
    BY <1>7 DEF Doors!Terminated
  <2> QED BY <2>1, EndKeeps DEF Inside
<1> QED BY <1>1, <1>2, <1>3, <1>5, <1>6, <1>7 DEF Doors!ServerStep

LEMMA AnswerStepKeeps ==
  ASSUME DoorsInv, NEW q \in Query, Doors!AnswerStep(q)
  PROVE  DoorsInv'
<1>1. /\ query[q].at \in Doors!Working
      /\ UNCHANGED <<quic, phase, total, perClient, held, wire, buffer, starts>>
  BY DEF Doors!AnswerStep, Doors!Answered, Doors!NotAnswered, Doors!Drained, Doors!DrainFails,
         Doors!Working, Doors!tracker
<1>2. PICK x \in Past : query' = [query EXCEPT ![q].at = x]
  <2>1. CASE Doors!Answered(q)
    <3>1. PICK x \in {"answered", "draining"} : x = IF quic THEN "answered" ELSE "draining"
      OBVIOUS
    <3>2. query' = [query EXCEPT ![q].at = x]
      BY <2>1, <3>1 DEF Doors!Answered, Doors!At
    <3> QED BY <3>2 DEF Past, Ats
  <2>2. CASE Doors!NotAnswered(q)
    BY <2>2 DEF Doors!NotAnswered, Doors!At, Past, Ats
  <2>3. CASE Doors!Drained(q)
    BY <2>3 DEF Doors!Drained, Doors!At, Past, Ats
  <2>4. CASE Doors!DrainFails(q)
    BY <2>4 DEF Doors!DrainFails, Doors!At, Past, Ats
  <2> QED BY <2>1, <2>2, <2>3, <2>4 DEF Doors!AnswerStep
<1> QED BY <1>1, <1>2, AnswerKeeps

LEMMA DoorsStep == DoorsInv /\ [Doors!Next]_(Doors!vars) => DoorsInv'
<1> SUFFICES ASSUME DoorsInv, [Doors!Next]_(Doors!vars) PROVE DoorsInv'
  OBVIOUS
<1>1. CASE UNCHANGED Doors!vars
  BY <1>1, BecomesKeeps DEF Doors!vars, Doors!tracker
<1>2. ASSUME NEW c \in Conn, Doors!HalfClose(c) \/ Doors!StopReading(c) \/ Doors!Reset(c) PROVE DoorsInv'
  <2>1. UNCHANGED <<quic, phase, total, perClient, held, wire, query, buffer, starts>>
    BY <1>2 DEF Doors!HalfClose, Doors!StopReading, Doors!Reset, Doors!Becomes, Doors!tracker
  <2> QED BY <2>1, BecomesKeeps
<1>3. ASSUME NEW c \in Conn, NEW q \in Query,
             \/ Doors!Send(c, q) \/ Doors!Part(c, q) \/ Doors!StreamReset(c, q)
             \/ \E fin \in BOOLEAN : Doors!Complete(c, q, fin)
      PROVE  DoorsInv'
  BY <1>3, SendKeeps, PartKeeps, StreamResetKeeps, CompleteKeeps
<1>4. CASE Doors!Next
  BY <1>2, <1>3, <1>4, ConnectKeeps, ServerStepKeeps, AnswerStepKeeps DEF Doors!Next
<1> QED BY <1>1, <1>4

LEMMA CapsByInv == DoorsInv => CapsHold
<1> SUFFICES ASSUME DoorsInv PROVE CapsHold
  OBVIOUS
<1>1. Open = {c \in Conn : Doors!Admitted(c)}
  BY DEF Open, Inside, Doors!Admitted
<1>2. \A a \in Doors!Address : OpenOf(a) = {c \in Conn : Doors!Admitted(c) /\ ClientOf[c] = a}
  BY DEF OpenOf, Inside, Doors!Admitted
<1>3. total = Doors!Cardinality({c \in Conn : Doors!Admitted(c)}) /\ total <= MaxConnections
  BY <1>1, SameCardinality DEF DoorsInv, Tracked
<1>4. ASSUME NEW a \in Doors!Address
      PROVE  /\ perClient[a] = Doors!Cardinality({c \in Conn : Doors!Admitted(c) /\ ClientOf[c] = a})
             /\ perClient[a] <= MaxPerClient
  BY <1>2, SameCardinality DEF DoorsInv, Tracked
<1>5. \A c \in Conn : Doors!Cardinality(Doors!Inflight(c)) <= MaxInflight
  BY SameCardinality DEF DoorsInv, Limited
<1>6. \A q \in Query : starts[q] <= 1
  BY DEF DoorsInv, StartedOnce
<1> QED BY <1>3, <1>4, <1>5, <1>6 DEF CapsHold, Doors!CapsHold

(* The tracker counts exactly the open connections, so its caps hold and   *)
(* its slots never leak; no connection has more queries at work than its   *)
(* limit, and no query is started twice: whatever number of connections,   *)
(* queries and clients there is (ConnectionTracker, serve_stream, spawn).  *)
THEOREM CapsAreKept == Doors!Spec => []CapsHold
<1>1. Doors!Init => DoorsInv
  BY DoorsInit
<1>2. DoorsInv /\ [Doors!Next]_(Doors!vars) => DoorsInv'
  BY DoorsStep
<1>3. DoorsInv => CapsHold
  BY CapsByInv
<1> QED BY <1>1, <1>2, <1>3, PTL DEF Doors!Spec

=============================================================================
