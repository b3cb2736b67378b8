------------------------------ MODULE FastPath ------------------------------
(***************************************************************************)
(* The wire-resident replay table of one worker's UDP listener, and every  *)
(* event that can change a verdict behind it: a blocklist refresh, a timed *)
(* pause, the blocking toggle, a client edit and a cache flush.            *)
(*                                                                         *)
(* Source: trench/engine/fastpath.py, trench/transport/do53.py and         *)
(* trench/transport/base.py (datagram_received, _handle, process_query),   *)
(* trench/engine/pipeline.py (pause, resume, paused, filter, and the stage *)
(* order of _run that decides a verdict).                                  *)
(*                                                                         *)
(* One event loop: a step is the code between two awaits.  Answers decided *)
(* without an upstream query (a block, a cache hit) are decided and        *)
(* recorded in one step; a forwarded one is decided when the name passes   *)
(* the filter and recorded when the upstream has answered.  Plugins and    *)
(* ECS forwarding, which switch the table off for good, are taken as off.  *)
(***************************************************************************)
EXTENDS Naturals, Sequences, FiniteSets

CONSTANTS
  Query,        \* datagrams
  Client,
  Name,
  Policy,       \* client policies (Policy objects compare by value)
  Filter,       \* compiled rule sets
  Blocks,       \* filter -> {<<policy, name>>} it blocks
  ClientBlocks, \* filter -> {<<client, name>>} its $client rules block
  MaxEntries,   \* fast_path_entries
  MaxInflight,  \* udp_max_inflight, 0 for no limit
  Events,       \* which operator events a run explores
  None

ASSUME FastPathAssumption ==
  /\ Blocks \in [Filter -> SUBSET (Policy \X Name)]
  /\ ClientBlocks \in [Filter -> SUBSET (Client \X Name)]
  /\ MaxEntries \in Nat /\ MaxInflight \in Nat
  /\ Events \subseteq {"swap", "pause", "toggle", "clients", "flush"}
  /\ Client # {} /\ Policy # {} /\ Filter # {}
  /\ None \notin Client \cup Name

VARIABLES
  table,    \* FastPath.table, oldest insertion first
  tags,     \* policy -> its number in _policy_ids, 0 when it has none
  filter,   \* Pipeline.filter
  enabled,  \* Pipeline.enabled
  paused,   \* Pipeline.paused_until lies ahead
  cpaused,  \* clients whose _client_pause lies ahead
  policy,   \* client -> policy (the registry)
  task,     \* datagram -> what became of it
  inflight  \* UDPProtocol.inflight

vars == <<table, tags, filter, enabled, paused, cpaused, policy, task, inflight>>

(* sync: decided and recorded in one step; den: the name was blocked;      *)
(* refreshes: how often a replay of this entry asked for an early refresh. *)
Entry == [name : Name, tag : Nat, pol : Policy, act : {"cached", "forwarded", "blocked"},
          den : BOOLEAN, sync : BOOLEAN, age : {"fresh", "near", "expired"},
          refreshing : BOOLEAN, refreshes : Nat]

Task == [st : {"new", "queued", "waiting", "replayed", "dropped", "done"},
         client : Client \cup {None}, name : Name \cup {None}]
NoTask == [st |-> "new", client |-> None, name |-> None]

Init ==
  /\ table = <<>>
  /\ tags = [p \in Policy |-> 0]
  /\ filter \in Filter
  /\ enabled = TRUE
  /\ paused = FALSE
  /\ cpaused = {}
  /\ policy \in [Client -> Policy]
  /\ task = [q \in Query |-> NoTask]
  /\ inflight = 0

-----------------------------------------------------------------------------
(* Pipeline.any_client_rules: the flag recomputed when a filter is set.    *)
AnyClientRules == ClientBlocks[filter] # {}

(* FastPath.usable.                                                        *)
Usable == enabled /\ ~paused /\ cpaused = {} /\ ~AnyClientRules

(* The verdict of stage 6 of _run, for a client, now.                      *)
Active(c) == enabled /\ ~paused /\ c \notin cpaused
Denied(c, n) ==
  /\ Active(c)
  /\ <<policy[c], n>> \in Blocks[filter] \/ <<c, n>> \in ClientBlocks[filter]

(* _policy_tag: the next number for a policy not seen since the last clear.*)
Tagged(p) ==
  IF tags[p] # 0 THEN tags
  ELSE [tags EXCEPT ![p] = 1 + Cardinality({r \in Policy : tags[r] # 0})]

At(n, tag) == {i \in DOMAIN table : table[i].name = n /\ table[i].tag = tag}

(* What serve would replay for a client: a live entry under its own tag.   *)
Replayable(n, tag) == {i \in At(n, tag) : table[i].age # "expired"}

-----------------------------------------------------------------------------
(* A datagram arrives (datagram_received).  serve() replays it in the      *)
(* callback; an entry near its end asks for one refresh, unless it is a    *)
(* block.  The entry may also be declined, by the recursion ACL, the rate  *)
(* limiter or a detector.                                                  *)
Refreshed(e) ==
  IF e.age = "near" /\ ~e.refreshing /\ e.act # "blocked"
  THEN [e EXCEPT !.refreshing = TRUE, !.refreshes = @ + 1] ELSE e

Replay(q, c, n) ==
  /\ task[q].st = "new"
  /\ Usable
  /\ tags' = Tagged(policy[c])
  /\ \E i \in Replayable(n, tags'[policy[c]]) :
       table' = [table EXCEPT ![i] = Refreshed(@)]
  /\ task' = [task EXCEPT ![q] = [st |-> "replayed", client |-> c, name |-> n]]
  /\ UNCHANGED <<filter, enabled, paused, cpaused, policy, inflight>>

(* Not replayed: dropped when too many are in flight, else a task of its   *)
(* own.  Looking the policy up may have numbered it.                       *)
Receive(q, c, n) ==
  /\ task[q].st = "new"
  /\ tags' = IF Usable THEN Tagged(policy[c]) ELSE tags
  /\ \/ /\ MaxInflight # 0 /\ inflight >= MaxInflight
        /\ task' = [task EXCEPT ![q] = [st |-> "dropped", client |-> c, name |-> n]]
        /\ UNCHANGED inflight
     \/ /\ MaxInflight = 0 \/ inflight < MaxInflight
        /\ task' = [task EXCEPT ![q] = [st |-> "queued", client |-> c, name |-> n]]
        /\ inflight' = inflight + 1
  /\ UNCHANGED <<table, filter, enabled, paused, cpaused, policy>>

(* store(): nothing while the table is unusable; otherwise the oldest      *)
(* entries give way, and the reply goes in under the policy the client has *)
(* now (in place when the key is still there, as in a dict).               *)
Trimmed(s) ==
  IF Len(s) >= MaxEntries /\ s # <<>>
  THEN SubSeq(s, Len(s) - (IF MaxEntries = 0 THEN 0 ELSE MaxEntries - 1) + 1, Len(s))
  ELSE s

Recorded(c, n, act, sync) ==
  LET p == policy[c]
      e == [name |-> n, tag |-> Tagged(p)[p], pol |-> p, act |-> act,
            den |-> (sync /\ act = "blocked"), sync |-> sync, age |-> "fresh",
            refreshing |-> FALSE, refreshes |-> 0]
      s == Trimmed(table)
      i == {j \in DOMAIN s : s[j].name = n /\ s[j].tag = e.tag}
  IN  IF i = {} THEN Append(s, e) ELSE [j \in DOMAIN s |-> IF j \in i THEN e ELSE s[j]]

(* storable: the reply carries a TTL of at least one second, and nothing   *)
(* in the policy makes the verdict depend on the time of day.              *)
Store(c, n, act, sync, storable) ==
  IF Usable /\ storable
  THEN /\ table' = Recorded(c, n, act, sync)
       /\ tags' = Tagged(policy[c])
  ELSE UNCHANGED <<table, tags>>

End(q) ==
  /\ task' = [task EXCEPT ![q].st = "done"]
  /\ inflight' = inflight - 1

(* _handle runs: the name is blocked, or the cache answers, and the reply  *)
(* is recorded without an await in between; or the query goes upstream.    *)
Decide(q, storable) ==
  LET c == task[q].client
      n == task[q].name
  IN
  /\ task[q].st = "queued"
  /\ \/ /\ Denied(c, n)
        /\ Store(c, n, "blocked", TRUE, storable)
        /\ End(q)
     \/ /\ ~Denied(c, n)
        /\ Store(c, n, "cached", TRUE, storable)
        /\ End(q)
     \/ /\ ~Denied(c, n)
        /\ task' = [task EXCEPT ![q].st = "waiting"]
        /\ UNCHANGED <<table, tags, inflight>>
  /\ UNCHANGED <<filter, enabled, paused, cpaused, policy>>

(* The upstream has answered, or failed, and the reply is recorded: the    *)
(* verdict on the name is the one reached when the query went out.  The    *)
(* reply itself may be a block, when the answer's own records are listed.  *)
Finish(q, act, storable) ==
  /\ task[q].st = "waiting"
  /\ IF act = "failed" THEN UNCHANGED <<table, tags>>
     ELSE Store(task[q].client, task[q].name, act, FALSE, storable)
  /\ End(q)
  /\ UNCHANGED <<filter, enabled, paused, cpaused, policy>>

(* The countdown of one entry crosses PREFETCH_WINDOW, then its end.       *)
Age(i) ==
  /\ i \in DOMAIN table /\ table[i].age # "expired"
  /\ table' = [table EXCEPT ![i].age = IF @ = "fresh" THEN "near" ELSE "expired"]
  /\ UNCHANGED <<tags, filter, enabled, paused, cpaused, policy, task, inflight>>

(* FastPath.clear: the entries and the numbering they are keyed by.        *)
Clear ==
  /\ table' = <<>>
  /\ tags' = [p \in Policy |-> 0]

(* The filter setter.                                                      *)
SwapFilter_NoClear(f) ==   \* mutant: the setter forgets the replay table
  /\ "swap" \in Events
  /\ filter' = f
  /\ UNCHANGED <<table, tags, enabled, paused, cpaused, policy, task, inflight>>

SwapFilter(f) ==
  /\ "swap" \in Events
  /\ filter' = f
  /\ Clear
  /\ UNCHANGED <<enabled, paused, cpaused, policy, task, inflight>>

(* pause() and resume(), for everybody or for one client; PauseOver is the *)
(* clock passing the deadline, which clears nothing.                       *)
Pause ==
  /\ "pause" \in Events
  /\ paused' = TRUE
  /\ Clear
  /\ UNCHANGED <<filter, enabled, cpaused, policy, task, inflight>>

PauseClient(c) ==
  /\ "pause" \in Events
  /\ cpaused' = cpaused \cup {c}
  /\ Clear
  /\ UNCHANGED <<filter, enabled, paused, policy, task, inflight>>

Resume ==
  /\ "pause" \in Events
  /\ paused' = FALSE
  /\ Clear
  /\ UNCHANGED <<filter, enabled, cpaused, policy, task, inflight>>

ResumeClient(c) ==
  /\ "pause" \in Events
  /\ cpaused' = cpaused \ {c}
  /\ Clear
  /\ UNCHANGED <<filter, enabled, paused, policy, task, inflight>>

PauseOver ==
  /\ \/ paused /\ paused' = FALSE /\ UNCHANGED cpaused
     \/ \E c \in cpaused : cpaused' = cpaused \ {c} /\ UNCHANGED paused
  /\ UNCHANGED <<table, tags, filter, enabled, policy, task, inflight>>

(* POST /api/toggle flips the flag and nothing else.                       *)
Toggle ==
  /\ "toggle" \in Events
  /\ enabled' = ~enabled
  /\ UNCHANGED <<table, tags, filter, paused, cpaused, policy, task, inflight>>

(* reload_clients: a client's policy changes; the table is kept, because   *)
(* its keys carry the policy.                                              *)
ReloadClients(c, p) ==
  /\ "clients" \in Events
  /\ policy' = [policy EXCEPT ![c] = p]
  /\ UNCHANGED <<table, tags, filter, enabled, paused, cpaused, task, inflight>>

(* Cache.flush through on_flush, and the other callers of clear().         *)
Flush ==
  /\ "flush" \in Events
  /\ Clear
  /\ UNCHANGED <<filter, enabled, paused, cpaused, policy, task, inflight>>

Operator ==
  \/ \E f \in Filter : SwapFilter(f)
  \/ Pause \/ Resume \/ PauseOver \/ Toggle \/ Flush
  \/ \E c \in Client : PauseClient(c) \/ ResumeClient(c)
  \/ \E c \in Client, p \in Policy : ReloadClients(c, p)

Next ==
  \/ \E q \in Query, c \in Client, n \in Name : Replay(q, c, n) \/ Receive(q, c, n)
  \/ \E q \in Query, b \in BOOLEAN :
       \/ Decide(q, b)
       \/ \E act \in {"forwarded", "cached", "blocked", "failed"} : Finish(q, act, b)
  \/ \E i \in DOMAIN table : Age(i)
  \/ Operator

Spec == Init /\ [][Next]_vars

-----------------------------------------------------------------------------
(* A dict holds a key once, and never more than max_entries of them (or    *)
(* the one just recorded, when the limit is 0).                            *)
TableBounded ==
  /\ Len(table) <= (IF MaxEntries = 0 THEN 1 ELSE MaxEntries)
  /\ \A i, j \in DOMAIN table :
       table[i].name = table[j].name /\ table[i].tag = table[j].tag => i = j

(* One early refresh per recorded reply, however often it is replayed      *)
(* inside PREFETCH_WINDOW, and none for a block.                           *)
RefreshedOnce ==
  \A i \in DOMAIN table :
    table[i].refreshes <= IF table[i].act = "blocked" THEN 0 ELSE 1

(* Type invariant.                                                         *)
TypeOK ==
  /\ table \in Seq(Entry)
  /\ tags \in [Policy -> Nat]
  /\ filter \in Filter
  /\ enabled \in BOOLEAN /\ paused \in BOOLEAN
  /\ cpaused \in SUBSET Client
  /\ policy \in [Client -> Policy]
  /\ task \in [Query -> Task]
  /\ inflight \in Nat
  /\ TableBounded /\ RefreshedOnce

(* A replay key names one policy: distinct policies have distinct numbers  *)
(* and every entry sits under the number of the policy it was recorded for,*)
(* through every renumbering, so no client is replayed another policy's    *)
(* reply (_policy_tag: "It has to be in the key").                         *)
TagsNameOnePolicy ==
  /\ \A p, r \in Policy : tags[p] = tags[r] /\ tags[p] # 0 => p = r
  /\ \A i \in DOMAIN table : table[i].tag # 0 /\ tags[table[i].pol] = table[i].tag

(* Every slot of udp_max_inflight that was taken is given back.            *)
InflightExact ==
  inflight = Cardinality({q \in Query : task[q].st \in {"queued", "waiting"}})

(* The verdict a client with this policy would get now, no $client rule    *)
(* applying.                                                               *)
WouldBlock(p, n) == <<p, n>> \in Blocks[filter]

(* A block or a cache hit recorded in one step is the verdict the rules in *)
(* force now would give, whenever it can be replayed: refresh, pause,      *)
(* toggle and client edits between recording and replay included.          *)
SyncReplayIsCurrent ==
  Usable => \A i \in DOMAIN table :
    table[i].sync => (table[i].den <=> WouldBlock(table[i].pol, table[i].name))

(* What the table can replay is right: under one policy's key, within the  *)
(* limits, and as the rules in force would have it.                        *)
ReplayTableSound == TypeOK /\ TagsNameOnePolicy /\ InflightExact /\ SyncReplayIsCurrent

(* "Swapping the rules invalidates every recorded reply" (pipeline.py) and *)
(* "anything recorded now would outlive the pause" (fastpath.py): no reply *)
(* that can be replayed contradicts the rules in force.                    *)
(* The code does not guarantee it: see the observations in README.md.      *)
ReplayIsCurrent ==
  Usable => \A i \in DOMAIN table :
    table[i].den <=> WouldBlock(table[i].pol, table[i].name)

=============================================================================
