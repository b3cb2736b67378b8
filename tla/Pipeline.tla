------------------------------ MODULE Pipeline ------------------------------
(***************************************************************************)
(* One worker's path from the filter stage to the answer: the answer cache *)
(* as the query path uses it, one upstream query per question in flight    *)
(* (leaders and followers), serve-stale with its client timer, prefetch,   *)
(* learned prewarm, safe search, cancellation, and the events that change  *)
(* policy or data underneath it: the first load of the rules, a swap of    *)
(* the filter, the filtering switch, a cache flush, and siblings that      *)
(* write the table all workers share.                                      *)
(*                                                                         *)
(* Source: trench/engine/pipeline.py, with trench/cache/cache.py for what  *)
(* a lookup or a store does to an entry.                                   *)
(*                                                                         *)
(* The process is one asyncio event loop, so a step here is a stretch of   *)
(* code between two awaits.  Time is abstracted to the facts the code      *)
(* reads off the clock: an entry is fresh, inside PREFETCH_WINDOW of its   *)
(* expiry (near), expired but retained (stale), or gone; a query's client  *)
(* response timer has or has not fired.                                    *)
(***************************************************************************)
EXTENDS Naturals, FiniteSets

CONSTANTS
  Query,        \* client query tasks
  Client,
  Name,         \* questions
  View,         \* named upstream sets
  DefaultView,  \* the set of a client with no group, and of background jobs
  Scope,        \* ECS scopes; Global is the unscoped one
  Global,
  Loopback,     \* the scope of 127.0.0.1 (Global when ECS is not forwarded)
  Filter,       \* what is installed: the engine and those of the groups
  FilterGroup,  \* groups of clients with rules of their own
  DefaultGroup, \* the group of a client with no policy, and of background jobs
  ViewOf,       \* client -> the upstream set its policy names
  ScopeOf,      \* client -> its ECS scope (Global when ECS is not forwarded)
  GroupOf,      \* client -> the group whose rules it resolves under
  Exempt,       \* clients whose policy says block = False
  SafeSearch,   \* clients whose policy says safe_search
  SafeTarget,   \* names that safe search answers with
  BlocksName,   \* filter, group -> names blocked in the question
  BlocksAnswer, \* filter, group -> names whose answers are rejected (cloak, IP)
  Prefetch,     \* config.cache.prefetch
  MaxPrefetch,  \* PREFETCH_MAX
  Warmed,       \* names the learned-prewarm job may refresh
  None          \* absent

ASSUME PipelineAssumption ==
  /\ Global \in Scope /\ Loopback \in Scope
  /\ DefaultView \in View
  /\ DefaultGroup \in FilterGroup
  /\ ViewOf \in [Client -> View]
  /\ ScopeOf \in [Client -> Scope]
  /\ GroupOf \in [Client -> FilterGroup]
  /\ Exempt \subseteq Client
  /\ SafeSearch \subseteq Client
  /\ SafeTarget \subseteq Name
  /\ BlocksName \in [Filter -> [FilterGroup -> SUBSET Name]]
  /\ BlocksAnswer \in [Filter -> [FilterGroup -> SUBSET Name]]
  /\ Prefetch \in BOOLEAN
  /\ MaxPrefetch \in Nat
  /\ Warmed \subseteq Name
  /\ Filter # {}

Key == [name : Name, view : View, ecs : Scope]

ASSUME PipelineIds ==
  /\ Query \cap Key = {}
  /\ None \notin Query \cup Key \cup Client \cup Filter \cup View
  /\ None \notin {"exempt", "off", "sibling"}

(* A fetch runs as a task of its own: one per client query, and one per    *)
(* key being prefetched.                                                   *)
Task == Query \cup Key

VARIABLES
  pc,       \* query -> idle | waiting (client timer may be armed) | done | gone
  who,      \* query -> the client asking
  want,     \* query -> the cache key of its question
  timer,    \* query -> the client response timer is armed
  chain,    \* queries that resolve the target of a safe-search answer
  fetch,    \* task -> the state of its _fetch_coalesced call
  inflight, \* key -> the leading task, or None (_inflight)
  cache,    \* key -> entry, or None (Cache._store)
  warm,     \* names with a prewarm fetch under way
  filter,   \* the installed rules
  on,       \* the filtering switch (Pipeline.enabled)
  loaded,   \* the rules of the start are complete (load_blocklists is over)
  prior,    \* the rules the first load replaced, while answers of theirs remain
  out       \* query -> the response it was given

rules == <<filter, on, loaded, prior>>
vars == <<pc, who, want, timer, chain, fetch, inflight, cache, warm, rules, out>>

(* Where an answer comes from: the upstream set that gave it and the       *)
(* subnet the upstream says it is for.  It is astray when it was asked for *)
(* under a key without a scope and yet with a subnet, as the prewarm job   *)
(* and safe search do.                                                     *)
Origin == [view : View, ecs : Scope, astray : BOOLEAN]

(* An entry remembers its origin and under which rules its answer was      *)
(* inspected: none (for an exempt client, or with filtering switched off), *)
(* or those of the worker that put it in the shared table.                 *)
Verdict == Filter \cup {"exempt", "off", "sibling"}
Entry == [age : {"fresh", "near", "stale"}, org : Origin, vet : Verdict]

Results == {"none", "ok", "block", "servfail", "err"}
Fetch == [st   : {"off", "sched", "lead", "follow", "done"},
          ctx  : Client \cup {None},           \* whose policy the fetch runs under
          key  : Key \cup {None},
          on   : Task \cup {None},             \* the leader followed
          res  : Results,
          org  : Origin \cup {None}]           \* of the answer, when res = "ok"
Off == [st |-> "off", ctx |-> None, key |-> None, on |-> None,
        res |-> "none", org |-> None]

Out == [kind : {"none", "answer", "blocked", "servfail", "bare"},
        how  : {"none", "filter", "cached", "forwarded", "stale"},
        org  : Origin \cup {None}]
NoOut == [kind |-> "none", how |-> "none", org |-> None]

-----------------------------------------------------------------------------

Init ==
  /\ pc = [q \in Query |-> "idle"]
  /\ who = [q \in Query |-> None]
  /\ want = [q \in Query |-> None]
  /\ timer = [q \in Query |-> FALSE]
  /\ chain = {}
  /\ fetch = [t \in Task |-> Off]
  /\ inflight = [k \in Key |-> None]
  /\ cache = [k \in Key |-> None]
  /\ warm = {}
  /\ filter \in Filter /\ on \in BOOLEAN
  /\ loaded \in BOOLEAN /\ prior = None
  /\ out = [q \in Query |-> NoOut]

(* Cache.key_for with the client's view and ECS scope.                     *)
KeyFor_NoView(c, n) ==   \* mutant: CacheKey without its view field
  [name |-> n, view |-> CHOOSE v \in View : TRUE, ecs |-> ScopeOf[c]]

KeyFor(c, n) == [name |-> n, view |-> ViewOf[c], ecs |-> ScopeOf[c]]

Unscoped(k) == [k EXCEPT !.ecs = Global]

(* The origin of an answer that was asked of an upstream set for a key and *)
(* that the upstream declared valid for a scope.                           *)
Given(v, k, declared) ==
  [view |-> v, ecs |-> declared, astray |-> k.ecs = Global /\ declared # Global]

(* Cache.get on the normal read path: an expired entry is a miss here, and *)
(* the table all workers share is asked.  What that holds is what some     *)
(* worker put there last, under rules that may be older than these or      *)
(* newer, and it is kept here as an entry of this worker's own.            *)
Live(k) == cache[k] # None /\ cache[k].age # "stale"
FiledUnder(k) ==
  {Given(k.view, k, d) : d \in IF k.ecs = Global THEN Scope ELSE {k.ecs}}
Shared(k) ==
  {None} \cup [age : {"fresh", "near"}, org : FiledUnder(k), vet : {"sibling"}]
Gets(k) == IF Live(k) THEN {cache[k]} ELSE Shared(k)

(* Stage 7: the scoped key first, then the answer filed globally.          *)
Hit(k, h, e) ==
  /\ e # None
  /\ \/ h = k /\ e \in Gets(k)
     \/ k.ecs # Global /\ ~Live(k) /\ h = Unscoped(k) /\ e \in Gets(h)
Missed(k) == ~Live(k) /\ ~Live(Unscoped(k))

(* has_stale: anything still retained under exactly this key.              *)
Retained(k) == cache[k] # None

(* _serve_stale: what is retained under the query's own key, or else what  *)
(* the shared table has for it.                                            *)
Stales(k) == IF Retained(k) THEN {cache[k]} ELSE Shared(k)

Prefetching == {k \in Key : fetch[k].st # "off"}

(* _maybe_prefetch: the entry under this very key is about to expire, and  *)
(* neither this key nor too many others are being refreshed already.       *)
WantsPrefetch(k, e) ==
  /\ Prefetch
  /\ e # None /\ e.age = "near"
  /\ k \notin Prefetching
  /\ Cardinality(Prefetching) < MaxPrefetch

Scheduled(c, k) == [Off EXCEPT !.st = "sched", !.ctx = c, !.key = k]

Answer(how, o) == [kind |-> "answer", how |-> how, org |-> o]
Blocked(how) == [NoOut EXCEPT !.kind = "blocked", !.how = how]
Failed == [NoOut EXCEPT !.kind = "servfail"]
Bare == [NoOut EXCEPT !.kind = "bare"]

(* Whether the rules of its group keep a client from a name.               *)
Screened(c, n) == on /\ c \notin Exempt /\ n \in BlocksName[filter][GroupOf[c]]

(* A query reaches the filter stage (_run, stages 6 to 8): blocked by name,*)
(* answered from the cache, or handed to _resolve_upstream, which          *)
(* schedules the fetch and arms the client timer if stale data is on hand. *)
Arrive(q, c, n) ==
  LET k == KeyFor(c, n) IN
  /\ pc[q] = "idle"
  /\ who' = [who EXCEPT ![q] = c]
  /\ want' = [want EXCEPT ![q] = k]
  /\ \/ /\ Screened(c, n)
        /\ pc' = [pc EXCEPT ![q] = "done"]
        /\ out' = [out EXCEPT ![q] = Blocked("filter")]
        /\ UNCHANGED <<timer, fetch, cache>>
     \/ /\ ~Screened(c, n)
        /\ \E h \in {k, Unscoped(k)} : \E e \in Gets(h) :
             /\ Hit(k, h, e)
             /\ pc' = [pc EXCEPT ![q] = "done"]
             /\ cache' = [cache EXCEPT ![h] = e]
             /\ out' = [out EXCEPT ![q] = Answer("cached", e.org)]
             /\ fetch' = IF WantsPrefetch(k, IF h = k THEN e ELSE cache[k])
                         THEN [fetch EXCEPT ![k] = Scheduled(c, k)] ELSE fetch
        /\ UNCHANGED timer
     \/ /\ ~Screened(c, n)
        /\ Missed(k)
        /\ pc' = [pc EXCEPT ![q] = "waiting"]
        /\ fetch' = [fetch EXCEPT ![q] = Scheduled(c, k)]
        /\ timer' = [timer EXCEPT ![q] = Retained(k)]
        /\ UNCHANGED <<cache, out>>
  /\ UNCHANGED <<chain, inflight, warm, rules>>

(* Stage 3, _safe_search_chain: the name of a search engine is answered    *)
(* with an alias of its safe target, whose address is looked up under the  *)
(* client's view but no scope, and fetched with the client's subnet.       *)
ArriveSafe(q, c, n) ==
  LET k == Unscoped(KeyFor(c, n)) IN
  /\ pc[q] = "idle"
  /\ on /\ c \in SafeSearch /\ n \in SafeTarget
  /\ who' = [who EXCEPT ![q] = c]
  /\ want' = [want EXCEPT ![q] = k]
  /\ chain' = chain \cup {q}
  /\ \/ \E e \in Gets(k) \ {None} :
          /\ pc' = [pc EXCEPT ![q] = "done"]
          /\ cache' = [cache EXCEPT ![k] = e]
          /\ out' = [out EXCEPT ![q] = Answer("cached", e.org)]
          /\ UNCHANGED fetch
     \/ /\ ~Live(k)
        /\ pc' = [pc EXCEPT ![q] = "waiting"]
        /\ fetch' = [fetch EXCEPT ![q] = Scheduled(c, k)]
        /\ UNCHANGED <<cache, out>>
  /\ UNCHANGED <<timer, inflight, warm, rules>>

(* _fetch_coalesced begins: join the task in flight for this key, or       *)
(* become it.                                                              *)
Begin(t) ==
  LET k == fetch[t].key IN
  /\ fetch[t].st = "sched"
  /\ \/ /\ inflight[k] # None
        /\ fetch' = [fetch EXCEPT ![t].st = "follow", ![t].on = inflight[k]]
        /\ UNCHANGED inflight
     \/ /\ inflight[k] = None
        /\ fetch' = [fetch EXCEPT ![t].st = "lead"]
        /\ inflight' = [inflight EXCEPT ![k] = t]
  /\ UNCHANGED <<pc, who, want, timer, chain, cache, warm, rules, out>>

(* The leader's last step: its followers are handed the outcome (as their  *)
(* own copy), and the in-flight entry goes.  A prefetch has nobody waiting *)
(* for it, so its task simply ends.                                        *)
Follows(u, t) == fetch[u].st = "follow" /\ fetch[u].on = t
Delivered(t, own, theirs) ==
  [u \in Task |->
     IF u \in Key /\ (u = t \/ Follows(u, t)) THEN Off
     ELSE IF u = t THEN own
     ELSE IF Follows(u, t)
     THEN [theirs EXCEPT !.ctx = fetch[u].ctx, !.key = fetch[u].key]
     ELSE fetch[u]]

Settle_LeakEntry(t, own, theirs) ==   \* mutant: the finally clause is missing
  /\ fetch' = Delivered(t, own, theirs)
  /\ UNCHANGED inflight

Settle(t, own, theirs) ==
  /\ fetch' = Delivered(t, own, theirs)
  /\ inflight' = [inflight EXCEPT ![fetch[t].key] = None]

Done(t, r, o) ==
  [fetch[t] EXCEPT !.st = "done", !.on = None, !.res = r, !.org = o]

(* _fetch after its await, with the rules installed now, as they apply to  *)
(* the group of the client that started the fetch, and with its policy: a  *)
(* rejected answer is a verdict and is not stored.  Otherwise the answer   *)
(* is stored under the scope the upstream declared (_scoped_key) and       *)
(* handed on.  _prepare_forward sends the subnet of that client, whatever  *)
(* the key.                                                                *)
Rejected(g, n) == on /\ n \in BlocksAnswer[filter][g]
VetFor(c) == IF c \in Exempt THEN "exempt" ELSE IF on THEN filter ELSE "off"

(* _scoped_key: an answer the upstream declared valid for everyone is      *)
(* filed globally, whoever asked.                                          *)
ScopedKey(k, declared) == IF declared = Global THEN Unscoped(k) ELSE k

UpstreamAnswers(t, declared) ==
  LET c == fetch[t].ctx
      k == fetch[t].key
      o == Given(ViewOf[c], k, declared)
      blocked == Done(t, "block", None)
      ok == Done(t, "ok", o)
  IN
  /\ fetch[t].st = "lead"
  /\ declared \in {Global, ScopeOf[c]}
  /\ \/ /\ c \notin Exempt /\ Rejected(GroupOf[c], k.name)
        /\ Settle(t, blocked, blocked)
        /\ UNCHANGED cache
     \/ /\ c \in Exempt \/ ~Rejected(GroupOf[c], k.name)
        /\ cache' = [cache EXCEPT ![ScopedKey(k, declared)] =
                       [age |-> "fresh", org |-> o, vet |-> VetFor(c)]]
        /\ Settle(t, ok, ok)
  /\ UNCHANGED <<pc, who, want, timer, chain, warm, rules, out>>

(* The upstream raised, or a resolver returned SERVFAIL as a message: put  *)
(* stores neither.                                                         *)
UpstreamFails(t, r) ==
  /\ r \in {"err", "servfail"}
  /\ fetch[t].st = "lead"
  /\ LET a == Done(t, r, None) IN Settle(t, a, a)
  /\ UNCHANGED <<pc, who, want, timer, chain, cache, warm, rules, out>>

Served(q, e) ==
  /\ e # None
  /\ cache' = [cache EXCEPT ![want[q]] = e]
  /\ out' = [out EXCEPT ![q] = Answer("stale", e.org)]

(* The client response timer fires while the refresh is still running: a   *)
(* retained answer is served and the refresh left running, else the query  *)
(* goes on waiting, without a timer.                                       *)
TimerFires(q) ==
  /\ pc[q] = "waiting" /\ timer[q] /\ fetch[q].st # "done"
  /\ timer' = [timer EXCEPT ![q] = FALSE]
  /\ \/ /\ \E e \in Stales(want[q]) : Served(q, e)
        /\ pc' = [pc EXCEPT ![q] = "done"]
     \/ /\ ~Retained(want[q])
        /\ UNCHANGED <<pc, cache, out>>
  /\ UNCHANGED <<who, want, chain, fetch, inflight, warm, rules>>

(* The fetch is over and the query task resumes: with the answer, with a   *)
(* block, or with what is left to serve when the refresh failed.           *)
Resume(q) ==
  LET res == fetch[q].res IN
  /\ pc[q] = "waiting" /\ fetch[q].st = "done" /\ q \notin chain
  /\ pc' = [pc EXCEPT ![q] = "done"]
  /\ timer' = [timer EXCEPT ![q] = FALSE]
  /\ fetch' = [fetch EXCEPT ![q] = Off]
  /\ \/ /\ res = "ok"
        /\ out' = [out EXCEPT ![q] = Answer("forwarded", fetch[q].org)]
        /\ UNCHANGED cache
     \/ /\ res = "block"
        /\ out' = [out EXCEPT ![q] = Blocked("forwarded")]
        /\ UNCHANGED cache
     \/ /\ res \in {"err", "servfail"}
        /\ \E e \in Stales(want[q]) : Served(q, e)
     \/ /\ res \in {"err", "servfail"} /\ ~Retained(want[q])
        /\ out' = [out EXCEPT ![q] = Failed]
        /\ UNCHANGED cache
  /\ UNCHANGED <<who, want, chain, inflight, warm, rules>>

(* Safe search goes on without the address when there is none to be had.   *)
ResumeSafe(q) ==
  /\ pc[q] = "waiting" /\ fetch[q].st = "done" /\ q \in chain
  /\ pc' = [pc EXCEPT ![q] = "done"]
  /\ fetch' = [fetch EXCEPT ![q] = Off]
  /\ out' = [out EXCEPT ![q] = IF fetch[q].res = "ok"
                               THEN Answer("forwarded", fetch[q].org) ELSE Bare]
  /\ UNCHANGED <<who, want, timer, chain, inflight, cache, warm, rules>>

(* A fetch nobody waits for any more (its query answered from stale data,  *)
(* or was cancelled behind the shield) finishes unobserved.                *)
Unobserved(q) ==
  /\ pc[q] \in {"done", "gone"} /\ fetch[q].st = "done"
  /\ fetch' = [fetch EXCEPT ![q] = Off]
  /\ UNCHANGED <<pc, who, want, timer, chain, inflight, cache, warm, rules, out>>

(* The client goes away and its task is cancelled.  Under the timer the    *)
(* fetch is shielded and runs on; otherwise it is cancelled with it, and a *)
(* cancelled leader fails its followers instead of cancelling them.        *)
Cancel_Followers(q) ==   \* mutant: CancelledError is handed to the followers
  /\ pc[q] = "waiting"
  /\ \/ /\ timer[q]
        /\ pc' = [pc EXCEPT ![q] = "gone"]
        /\ UNCHANGED <<fetch, inflight>>
     \/ /\ ~timer[q] /\ fetch[q].st = "lead"
        /\ Settle(q, Off, Off)
        /\ pc' = [p \in Query |-> IF p = q \/ Follows(p, q)
                                  THEN "gone" ELSE pc[p]]
     \/ /\ ~timer[q] /\ fetch[q].st # "lead"
        /\ pc' = [pc EXCEPT ![q] = "gone"]
        /\ fetch' = [fetch EXCEPT ![q] = Off]
        /\ UNCHANGED inflight
  /\ timer' = [timer EXCEPT ![q] = FALSE]
  /\ UNCHANGED <<who, want, chain, cache, warm, rules, out>>

Cancel(q) ==
  /\ pc[q] = "waiting"
  /\ pc' = [pc EXCEPT ![q] = "gone"]
  /\ timer' = [timer EXCEPT ![q] = FALSE]
  /\ \/ /\ timer[q]
        /\ UNCHANGED <<fetch, inflight>>
     \/ /\ ~timer[q] /\ fetch[q].st = "lead"
        /\ Settle(q, Off, Done(q, "err", None))
     \/ /\ ~timer[q] /\ fetch[q].st # "lead"
        /\ fetch' = [fetch EXCEPT ![q] = Off]
        /\ UNCHANGED inflight
  /\ UNCHANGED <<who, want, chain, cache, warm, rules, out>>

(* warm(): the prewarm job resolves a popular name through _fetch, outside *)
(* the coalescing table and with no client policy (block defaults to True, *)
(* the group to none).  It runs as 127.0.0.1, whose subnet is sent where   *)
(* ECS is forwarded; its key has no scope, and so the answer is filed      *)
(* there whatever scope the upstream declares.  ask_privately enters the   *)
(* cache in the same way.                                                  *)
WarmKey(n) == [name |-> n, view |-> DefaultView, ecs |-> Global]

WarmBegin(n) ==
  /\ n \in Warmed \ warm
  /\ cache[WarmKey(n)] # None => cache[WarmKey(n)].age # "fresh"
  /\ warm' = warm \cup {n}
  /\ UNCHANGED <<pc, who, want, timer, chain, fetch, inflight, cache, rules, out>>

WarmEnd(n, declared) ==
  LET k == WarmKey(n) IN
  /\ n \in warm
  /\ declared \in {Global, Loopback}
  /\ warm' = warm \ {n}
  /\ \/ /\ ~Rejected(DefaultGroup, n)
        /\ cache' = [cache EXCEPT ![ScopedKey(k, declared)] =
                       [age |-> "fresh", org |-> Given(DefaultView, k, declared),
                        vet |-> IF on THEN filter ELSE "off"]]
     \/ UNCHANGED cache      \* rejected, or the upstream failed
  /\ UNCHANGED <<pc, who, want, timer, chain, fetch, inflight, rules, out>>

(* The clock passes a boundary of one entry's life, or the LRU bound       *)
(* pushes it out.                                                          *)
Age(k) ==
  /\ cache[k] # None
  /\ cache' = [cache EXCEPT ![k] =
       CASE cache[k].age = "fresh" -> [cache[k] EXCEPT !.age = "near"]
         [] cache[k].age = "near"  -> [cache[k] EXCEPT !.age = "stale"]
         [] OTHER                  -> None]
  /\ UNCHANGED <<pc, who, want, timer, chain, fetch, inflight, warm, rules, out>>

Evict(k) ==
  /\ cache[k] # None
  /\ cache' = [cache EXCEPT ![k] = None]
  /\ UNCHANGED <<pc, who, want, timer, chain, fetch, inflight, warm, rules, out>>

(* A blocklist refresh, an adopted table or an edit of the operator's      *)
(* rules installs new rules, those of the groups with them, and flushes    *)
(* the cache, with no await between.                                       *)
SwapFilter_NoFlush(f) ==   \* mutant: the flush after the swap is forgotten
  /\ filter' = f
  /\ UNCHANGED <<pc, who, want, timer, chain, fetch, inflight, cache, warm>>
  /\ UNCHANGED <<on, loaded, prior, out>>

SwapFilter(f) ==
  /\ filter' = f
  /\ prior' = None
  /\ cache' = [k \in Key |-> None]
  /\ UNCHANGED <<pc, who, want, timer, chain, fetch, inflight, warm, on, loaded, out>>

(* The first load in the background of a start (load_blocklists): the      *)
(* rules, or those of the groups, arrive while the worker serves without   *)
(* them, and nothing is flushed.                                           *)
FirstLoad(f) ==
  /\ ~loaded
  /\ loaded' = TRUE
  /\ prior' = filter
  /\ filter' = f
  /\ UNCHANGED <<pc, who, want, timer, chain, fetch, inflight, cache, warm, on, out>>

(* The console's switch; it leaves the cache alone.                        *)
Toggle ==
  /\ on' = ~on
  /\ UNCHANGED <<pc, who, want, timer, chain, fetch, inflight, cache, warm>>
  /\ UNCHANGED <<filter, loaded, prior, out>>

Flush ==
  /\ cache' = [k \in Key |-> None]
  /\ prior' = None
  /\ UNCHANGED <<pc, who, want, timer, chain, fetch, inflight, warm, filter, on, loaded, out>>

TaskStep(t) ==
  \/ Begin(t)
  \/ \E d \in Scope : UpstreamAnswers(t, d)
  \/ \E r \in {"err", "servfail"} : UpstreamFails(t, r)

QueryStep(q) == TimerFires(q) \/ Resume(q) \/ ResumeSafe(q) \/ Unobserved(q)

Next ==
  \/ \E q \in Query, c \in Client, n \in Name : Arrive(q, c, n) \/ ArriveSafe(q, c, n)
  \/ \E t \in Task : TaskStep(t)
  \/ \E q \in Query : QueryStep(q) \/ Cancel(q)
  \/ \E n \in Name : WarmBegin(n)
  \/ \E n \in Name, d \in Scope : WarmEnd(n, d)
  \/ \E k \in Key : Age(k) \/ Evict(k)
  \/ \E f \in Filter : SwapFilter(f) \/ FirstLoad(f)
  \/ Toggle
  \/ Flush

(* A ready task runs (asyncio's loop is FIFO), and every upstream exchange *)
(* ends, in an answer or in the forwarder's own timeout.                   *)
Fairness ==
  /\ \A t \in Task : WF_vars(TaskStep(t))
  /\ \A q \in Query : WF_vars(Resume(q) \/ ResumeSafe(q))

Spec == Init /\ [][Next]_vars
LiveSpec == Spec /\ Fairness

-----------------------------------------------------------------------------
(* Type invariant.                                                         *)
TypeOK ==
  /\ pc \in [Query -> {"idle", "waiting", "done", "gone"}]
  /\ who \in [Query -> Client \cup {None}]
  /\ want \in [Query -> Key \cup {None}]
  /\ timer \in [Query -> BOOLEAN]
  /\ chain \in SUBSET Query
  /\ fetch \in [Task -> Fetch]
  /\ inflight \in [Key -> Task \cup {None}]
  /\ cache \in [Key -> Entry \cup {None}]
  /\ warm \in SUBSET Name
  /\ filter \in Filter /\ on \in BOOLEAN
  /\ loaded \in BOOLEAN /\ prior \in Filter \cup {None}
  /\ out \in [Query -> Out]

(* RFC 5452 section 9.2 as _fetch_coalesced applies it: at most one        *)
(* outstanding upstream query per key, and it is the one in the table, so  *)
(* that the next asker joins it instead of sending another.                *)
OneQueryPerKey ==
  \A t \in Task : fetch[t].st = "lead" => inflight[fetch[t].key] = t

(* Nobody waits on a fetch that is over: the table and every follower      *)
(* point at a task that is leading for that very key.                      *)
FollowersHaveALeader ==
  /\ \A k \in Key : inflight[k] # None =>
       fetch[inflight[k]].st = "lead" /\ fetch[inflight[k]].key = k
  /\ \A t \in Task : fetch[t].st = "follow" =>
       /\ fetch[t].on # t
       /\ fetch[fetch[t].on].st = "lead"
       /\ fetch[fetch[t].on].key = fetch[t].key

(* Coalescing keeps its books: the two above.                              *)
Coalesced == TypeOK /\ OneQueryPerKey /\ FollowersHaveALeader

(* A client is never answered from another upstream set's answer           *)
(* (CacheKey.view), nor from one the upstream tailored to another subnet   *)
(* (RFC 7871), whether it was cached, coalesced, prefetched, promoted or   *)
(* stale; an answer declared valid for everyone serves them all.  Apart    *)
(* from what prewarm and safe search bring in with a subnet but under a    *)
(* key that has none (_fetch, _scoped_key).                                *)
OriginsStayApart ==
  \A q \in Query : out[q].kind = "answer" =>
    /\ out[q].org.view = ViewOf[who[q]]
    /\ out[q].org.ecs \in {Global, ScopeOf[who[q]]} \/ out[q].org.astray

(* Without that exception it does not hold: what the upstream tailored to  *)
(* the loopback's subnet, or to that of a client under safe search, serves *)
(* every client of the view (pipeline.py:718: "No ECS scope is applied").  *)
NoneAstray == \A q \in Query : out[q].kind = "answer" => ~out[q].org.astray

(* What this worker has inspected and cached was inspected under the rules *)
(* now installed: an answer in flight across a refresh of the lists, a     *)
(* prefetch or a prewarm brings no verdict of the old rules into the new   *)
(* cache.  Until the next refresh, answers from before the first load of a *)
(* start remain.  What came through the shared table another worker has    *)
(* inspected, at its time; what an exempt client caused to be fetched, and *)
(* what was fetched with filtering switched off, nobody has.               *)
Current(v) ==
  \/ v \in {filter, prior} \/ v \in {"sibling", "off"}
  \/ v = "exempt" /\ Exempt # {}
CacheIsVetted == \A k \in Key : cache[k] # None => Current(cache[k].vet)

(* It is not inspected for whoever is served it: the key of an answer does *)
(* not name the group whose rules let it through (pipeline.py:843), and    *)
(* the shared table not the rules.  So this does not hold.                 *)
ServedByOwnRules ==
  [][\A q \in Query :
       out[q].kind = "none" /\ out'[q].kind = "answer" =>
         who'[q] \in Exempt \/ ~Rejected(GroupOf[who'[q]], want'[q].name)]_vars

(* One query's misfortune is contained.  Cancelling a client's query       *)
(* cancels nobody else's, also when others follow its fetch; and a failed  *)
(* refresh does not become a SERVFAIL while anything is retained under the *)
(* key of its question (RFC 8767; _fetch_coalesced, _resolve_upstream).    *)
Cancelled(q) == pc[q] = "waiting" /\ pc'[q] = "gone"
Servfailed(q) == pc[q] = "waiting" /\ pc'[q] = "done" /\ out'[q].kind = "servfail"
Contained ==
  \A q \in Query :
    /\ Cancelled(q) => \A p \in Query \ {q} : ~Cancelled(p)
    /\ Servfailed(q) => ~Retained(want[q])
FailuresContained == [][Contained]_vars

(* Every query whose client stays gets an answer.                          *)
EveryQueryAnswered ==
  \A q \in Query : pc[q] = "waiting" ~> pc[q] \in {"done", "gone"}

(* A client exempted from filtering is never given a block (pipeline.py:   *)
(* policy.block is part of the guard of the answer-side checks too).       *)
(* The code does not guarantee it: see the observations in README.md.      *)
ExemptNeverBlocked ==
  \A q \in Query : out[q].kind = "blocked" => who[q] \notin Exempt

=============================================================================
