# A TLA+ verification of trench

trench is a filtering DNS resolver: forked worker processes, each an asyncio
event loop, answer clients over UDP, TCP, TLS, HTTPS and QUIC from local data, a
two-level answer cache, blocklists and upstream resolvers. One worker, the
primary, also owns the database, the HTTP API, DHCP and the blocklist builds.
The modules here are written from the Python source; a step of a model is a
stretch of code between two awaits, or between two lock operations where
processes share memory.

## Inventory

| part | state it keeps | operations | meets | hard because |
|---|---|---|---|---|
| shared answer cache (`cache/shared.py`, `shmlock.py`) | slots in a shared mapping, striped cross-process locks, a per-process note of locks written off | get, put, delete, clear | every worker | a killed worker never releases a lock; two writes per put |
| answer cache (`cache/cache.py`) | LRU store per worker over the shared table | get, put, stale lookup, flush, dump, load | pipeline, API, shutdown | expiry, promotion, eviction, flush, restart |
| pipeline (`engine/pipeline.py`) | in-flight table, prefetch set, filter, pauses | resolve, fetch, coalesce, serve stale, prefetch, prewarm | cache, filter, upstreams, fast path | every await is a place for a swap, a flush, a cancellation |
| fast path (`engine/fastpath.py`, `transport/do53.py`) | replay table, policy tags, in-flight count | serve, store, clear | pipeline, client registry | replies recorded after the event that should void them |
| blocklist refresh (`app.py`, `gravity/*`, `filter/shared.py`, `jobs.py`) | compiled table file, sidecar, engine per worker, job board, build lock | build, check, install, adopt, reschedule, restart | settings, signals, console, siblings | five ways in, long awaits, a compile thread that cannot be cancelled |
| configuration fan-out (`__main__.py`, `app.py`, `config.py`, `api/settings.py`) | config file, config per worker | save, SIGUSR1, SIGHUP, apply | every component | signals coalesce, apply awaits |
| query log (`store/*`) | queue, ring lanes, SQLite rows, hourly rollups | enqueue, flush, drain, sweep, backfill, purge, stop | pipeline, API | one shared connection, two awaits per write |
| upstreams (`transport/upstream.py`, `resolver/forwarder.py`) | UDP pool, stream links, failure counts | query, retry, fail over, close | pipeline | late answers, reused ids, dropped links |
| recursive resolver (`resolver/recursive.py`, `sanitize.py`) | delegation cache, one budget per question | descend, chase aliases, resolve nameservers | upstreams, validator | servers that say anything, nesting, budgets |
| DNSSEC (`resolver/dnssec/*`) | key and delegation conclusions with expiry, anchors | descend, validate, prove denials | recursive resolver | zones change under cached conclusions; cyclic chains |
| authoritative zones (`auth_zone/*`) | records, serial, journal, replay window, mirror of a secondary | answer, update, transfer, notify, refresh | listeners | serial arithmetic, timers, deltas, broken transfers |
| filter engine (`filter/*`) | indexes, hash table, groups | compile, match | pipeline, builds | many indexes, one order |
| listeners (`transport/stream.py`, `dot.py`, `doq.py`, `doh3.py`) | connections, in-flight slots, tracker | accept, read, answer, time out, close | pipeline | half-close, resets, full connections |
| admission (`engine/access.py`, `ratelimit.py`, `filter/dga.py`) | buckets, memo, failures per client | admit, trim, collect | pipeline | bounded tables on several clocks |
| clients and device names (`clients/*`) | memo of policies, neighbours, ledger, table of names | identify, refresh, sweep | pipeline, console | memos of what changes |
| DHCP (`dhcp/*`, `clients/names.py`) | offers, leases, names | discover, request, release, expire | client names | clients racing for one address, lost messages |
| sessions, authentication (`api/auth.py`, `security/totp.py`) | sessions, failure counts, spent codes | log in, change, log out | database, thread pool | awaits between check and use |
| self-update (`ops/update.py`) | staged wheel, installed version, record | check, apply, roll back | pip, supervisor | crash and failure between steps |
| certificates (`security/acme.py`, `certs.py`) | key and certificate files, challenges | obtain, renew, load | CA, listeners | two files, two renewals, crash |
| start and stop (`__main__.py`, `app.py`) | processes, stages, open parts | fork, start, SIGTERM, stop | every component | stop beside an unfinished start |
| wire codec, plugins, statistics, CLI, web console, reports | none that steps share | - | - | left out: parsing, presentation, counters |

For each part, what makes it correct:

* shared cache: mutual exclusion per stripe that survives a killed holder,
  whole reads, complete clears, bounded stalls, every call returns;
* answer cache: nothing served beyond its time or from before a flush, a
  bounded store that evicts the right entry;
* pipeline: one fetch per question, followers that always hear, cancellation
  that stays private, nothing inspected under old rules kept in the cache,
  stale answers before SERVFAIL, answers that stay with their upstream set and subnet;
* fast path: a replay is what the full path would say now, exact accounting;
* blocklist refresh: one build at a time, a short or refused list never
  replaces a good one, a truthful job board, siblings that catch up;
* upstreams: every query gets its own answer or an error, in bounded time, over
  a bounded number of sockets and connections; failure of one upstream is not
  failure of the resolution;
* query log: every row written once, in order, or accounted for; totals that
  equal what they total;
* filter: the indexes decide as the rules read one after the other would, and
  every worker by the same rules;
* recursion and validation: nothing believed that its sender does not speak for,
  no denial that is not true, trust that was earned and is still in force, an
  end to every question;
* zones: the mirror holds what the primary held, each update once, every change
  arrives;
* listeners, gates: caps that hold and do not leak, answers that are owed, a
  reason for every refusal;
* fan-out, start and stop: the last save reaches every worker, SIGTERM ends the
  service once its clients have left;
* DHCP, logins, updates, certificates: one holder per address, limited attempts,
  a code as typed spent once, nothing installed that was not vetted, renewals that leave
  nothing half done.

## Modules

Each component has a module; every module states, in its header, the files it is
written from. Components that share no state share a run: an `MC` module
EXTENDS one of them, INSTANCEs the others under a prefix, and lets one of them
(`part`) move in a behaviour while the rest stay in an initial state. The states
of such a run are the sum, not the product, of the components' states, and a
property of a component means what it means there.

**SharedCache** (`cache/shared.py`, `shmlock.py`). One variable per field of the
mapping (`hdr`, `body`), the cross-process locks (`lock`), each process's note
of the stripes it has written off (`retry`), and the call each worker is in
(`op`: which method, on which stripe, how far). `BoundedLocks.hold` is
`SkipWrittenOff`, `Probe`, `Acquire`, `Block` and `Timeout`; the bodies are
`GetBody`, `PutHeader` then `PutBody` (two writes, a kill may fall between),
`DeleteBody` and `ClearBody`. `Kill` ends a worker at any step with whatever it
holds. History: `era` (clears begun), `stalls` (full timeouts a worker has paid
per stripe). **SharedCacheProofs** holds its theorems, QueryLog's and Rollup's;
**PipelineProofs** (also of Forwarder and Listeners), **FastPathProofs** (also of
Filter, Admission and Devices), **GravityProofs**, **RecursiveProofs** (also of DnssecChain),
**AuthProofs** (also of Dhcp, Update and Certificates), **TransportProofs** (of Stream, UdpPool and
Exchange) and **FreshnessProofs** (of AnswerCache) hold those of the modules they
are named for.

**AnswerCache** (`cache/cache.py`). The ordered store of each worker (`l1`, least
recent first), the shared table as an atomic map (`l2`; SharedCache is the
detail), the dump file, and what the last lookup served. Time is a countdown in
each entry (`rem`, `due`, `keep`). Flushes mark the entries they should have
removed, so a later serving of one is seen.

**Pipeline** (`engine/pipeline.py`). A query's task (`pc`, `want`, `timer`,
`out`), the fetch task behind it (`fetch`), the in-flight table, the cache as
the query path sees it, the prewarm set and the installed rules, which each group
applies in its own way. A step is the code between two awaits of `_run`,
`_resolve_upstream`, `_fetch_coalesced`, `_fetch`, `warm`, `_safe_search_chain`. A
lookup that this worker's store cannot answer is answered by the shared table with
whatever another worker may have put there (`Shared`), inspected under rules of its
own. An entry carries its origin (upstream set, subnet, whether that subnet was sent
under a key that names none: `astray`) and the rules it was inspected under (`vet`).

**Admission** (`engine/access.py`, `ratelimit.py`, `localonly.py`,
`filter/dga.py`, `security/clientaddr.py`, the first stages of
`Pipeline._run`). The stages before the cache run without an await, so a query
is one step that ends in a verdict. Buckets with trim and gc, the recursion ACL
with its memo and its reading of the attached networks, names that stay on the
network, the detector of random names; `let` and `flops` are histories against
which verdicts are judged.

**FastPath** (`engine/fastpath.py`, `transport/do53.py`). The replay table in
insertion order, the tags that stand for policies in its keys, the switches
that gate it, and the datagrams in flight.

**Filter** (`filter/engine.py`, `shared.py`, `groups.py`, `rule.py`, the Glob of
`parser.py`). Rules compiled into indexes (`Compile`), `Match` over them in the
engine's order, groups layered over the default set, the open-addressed table
with collisions and removals (`slots`, filled by `Put` as the lists arrive), the
greedy glob (`From`: how far the pieces so far reach). Each is compared with a
reference: the rules read one by one, the first list that named the name, any way to
lay the pieces out. A set of rules stands for a list of them: where two rules are
equally good the engine takes the one filed first, and a decision is the set of
actions such a tie may give.

**Listeners** (`transport/stream.py`, `dot.py`, `quiclimits.py`, `doq.py`,
`doh3.py`). One listener, stream or QUIC, chosen in Init: connection handlers, the
tracker's counts, the slots of a connection, the query read while none was free,
answers owed. The client half-closes, stops reading, resets, or goes.

**Gravity** (`app.py`, `gravity/manager.py`, `gravity/schedule.py`,
`filter/shared.py`, `jobs.py`). The configuration, the table file and its sidecar, the
engine of the primary and of each sibling, the job board and build lock, the
running build, and a compile thread whose build was cancelled. Five ways into a
build; edits, SIGHUP, rescheduling and a crash at every step.

**Fanout** (`__main__.py`, `app.py`, `api/server.py`, `api/settings.py`).
Config file and its mtime, client table, what each worker has adopted, the tasks
in between (handlers, adoptions, polls), signals pending and dropped. Two settings
stand for all: one whose applier acts at once and one whose applier awaits.

**Lifecycle** (`__main__.py`, `app.py`, `do53.py`, `dot.py`). The supervisor's forks
and signals, each worker's stages of start-up, `App.stop` over the parts that are open,
one after another, failures and kills. The stop of a stream listener waits until
its clients have left (`conns`).

**Exchange** is the abstract specification of `Upstream.query`: a call ends, and
ends with the answer to its own question, an error reply or an exception.
**Stream** (`_Link`, `_StreamConn`, `Upstream._stream`, `close`) and **UdpPool**
(`_UdpSocket`, `UdpPool`), both of `transport/upstream.py`, implement it under the
mapping `Caller` (who is asking, how the last call ended). Stream has each query
task's place, the link and id it is registered under, its future; each link's
pending table; the queue at the lock; a peer that answers in any order, late or
never. UdpPool has sockets with their remaining life, pending and held-back
tables; the pool, the list a refill is building, the queue at its lock;
datagrams on the wire, which are never consumed, so that they may be duplicated
and late. Two histories: `own`, the queries whose own reply came, and `evicted`,
those whose slot another query's `finally` took.

**Forwarder** (`resolver/forwarder.py`). A strategy as a sequence of races, the
asks of each resolution, completed asks in completion order, and the failure
counts, their freshness and round-trip times that rank upstreams. Its asks are
assumed to end, which is what Exchange promises.

**Recursive** (`resolver/recursive.py`, `sanitize.py`). A stack of resolutions
(the client's, and the side resolutions for nameserver addresses), each with its
zone, its servers left to ask, its aliases and steps; the delegation cache; one
budget. Servers of one zone say anything in `FaultySays`, the others tell the truth
or nothing.

**DnssecChain** (`resolver/dnssec/chain.py`, `validate.py`, `keys.py`,
`anchors.py`, `_apply_validation`). Zones that roll keys and become signed or
unsigned, everything that was ever signed (for replay), the validator's caches
with expiry, the descent of a validation, the verdict (a bogus one is SERVFAIL, or
the message as it came when that has CD set); as the reference, which
keys the root vouches for at a time, by a chain of any length (`Vouched`). **Denial**
(`resolver/dnssec/nsec.py`) states what NSEC and NSEC3 records prove and compares
it with what is true of the zone, for every zone within the bound; **ZoneLookup**
(`auth_zone/zone.py`) adds what the program's own zones answer and asks the
validator about it.

**ZoneSync** (`auth_zone/update.py`, `xfr.py`, `xfr_service.py`, `secondary.py`,
`handler.py`, `tsig.py`). Records, serial and journal of the primary; signed
updates on the network; the replay window; NOTIFY rounds; the transfer in flight,
an envelope at a time, and the mirror. `hist` records which records each serial had.

**Dhcp** (`dhcp/*`, `clients/names.py`), **Auth** (`api/auth.py`,
`security/totp.py`), **Update** (`ops/update.py`), **Certificates**
(`security/acme.py`, `certs.py`, `tls.py`), **Devices** (`clients/rdns.py`) and
**Clients** (`clients/registry.py`, `activity.py`) each have the tables of their
classes as variables, one action per handler up to its next await, and their
clients, CA, index or resolver as an external party that may fail at any point. A
one-time code of Auth is the secret and time step of its digits and how it was typed,
with or without blanks: `totp.verify` does not see the difference, `_totp_used` does.

**QueryLog** (`store/querylog.py`, `store/ringlog.py`, `store/db.py`). Queue of
each worker, the sibling's lane, the tasks that use the one connection, that
connection's job queue and implicit transaction, the table, and where every
record that is not there went (shed, or logged as failed). aiosqlite is external:
jobs run one at a time in order, also when whoever awaits one is cancelled.

**Rollup** (`store/querylog.py`, `store/schema.py` migration 7). Rows with their half
hour and rowid, totals per hour, `complete_from`, and the sweep and the backfill as
tasks that any other statement may fall between. `since` is the newest row the
migration found: processes started after it log nothing older (wall clocks that are
set back are left out).

Every component states its `TypeOK` where its state is a machine's; SharedCache's
is checked and proved, the others are conjuncts of the properties below.

## Runs

| run | parts and what it shows | bounds, and why they suffice |
|---|---|---|
| `storage` | SharedCache: `HoldsIffCritical`, `ClearedIsCleared`, `OneStallPerDeadLock`, `NoTornRead`, `EveryCallReturns`. QueryLog: `WrittenOnceInOrder` (with: stop drains). Rollup: `ExactUnlessOvertaken`. `StorageCatchesUp`: queues drain, backfill reaches the present | 2 workers, 2 keys colliding in one of 3 slots on 2 stripes, 1 clear, kills anywhere (the theorems remove these bounds); 3 records into a queue of 2, a lane of 1, a foreign write, a failing statement; 6 half hours, the upgrade at half hour 1 or 4, retention 3, rows 1 late, one row and one fault (`TotalsExact` removes these bounds) |
| `transports` | Stream and UdpPool implement Exchange (`TransportsExchange`), one connection, no slot stolen, no socket lost (`LinksSound`), `WorkingLinkKept` | 2 tasks, 3 calls, 2 ids, 2 links, 2 attempts: an id is reused while its old answer is outstanding, a link is replaced under a waiting query; pool of 2, 3 sockets, 1 id so that ids always collide |
| `queries` | Pipeline: `Coalesced`, `CacheIsVetted`, `FailuresContained` (private cancellation, stale before SERVFAIL), `OriginsStayApart`. Listeners: `CapsHold`, `OwedAnswers`. Forwarder: `FailsOnlyAfterAll`, `DemotionEnds`. `NobodyWaits`: queries answered, connections reclaimed | 2 client queries and the background tasks of 1 name, under 3 filters for one client, or for 3 clients that differ pairwise in view or subnet, or 1 query with siblings, safe search, first load and switch under 2 filters; 2 connections of one address with cap 1, 1 slot; 2 resolutions over 2 upstreams under each strategy |
| `freshness` | AnswerCache: `AnswersCurrent` (nothing past its TTL or stale limit, or from before a flush, through promotion, dump and load). Gravity: `BuildsSound` (one build, truthful board), `TrustedIsWhole`, `PrimaryGuarded` | 2 workers, 3 keys in a store of 2, TTL 1, stale 1: expiry, staleness, eviction within three ticks; 1 sibling, a list or none, 1 rule set, all four kinds of task |
| `control` | ZoneSync: `MirrorSound` (mirror exact, updates once). Fanout and ZoneSync: `ChangesArrive`. Lifecycle: `ServiceStops` (if clients leave) | 2 workers, 2 handlers, 2 saves; 3 updates over a serial that wraps at 8, a journal of 2, 2 faults; 2 workers with every stage, client connections on either listener |
| `resolution` | Recursive: `InBailiwick`, `EveryQuestionEnds`. DnssecChain: `TrustIsEarned`. Denial, ZoneLookup: `DenialsAreTrue` | 4 zones of which one says anything, 2 questions, 5 packets, cache of 2 zones; 3 zones, 2 keys each, 1 change, signatures of life 1; every zone of 2 names of up to 2 labels besides the apex, every question of each type |
| `policies` | FastPath: `ReplayTableSound` (one policy per tag, exact in-flight count, bounded, current). Filter: `FilterIsExact`. Admission: `VerdictsJustified`. Devices: `DeviceNamesKept` | 2 queries, 2 clients under 2 policies, table of 1 so that every store evicts; every choice of up to 3 rules out of 11 that use each option, every hash of 3 domains to 4 slots, globs and texts of 5 letters; one bucket and one memo entry for two clients; table of 2 names for 3 addresses |
| `services` | Auth: `AttemptsLimited`. Dhcp: `LeasesExclusive`. Update: `InstalledIsVetted`. Certificates: `RenewalsAreWhole` | 2 requests at once from 2 prefixes, 1 scrypt slot, threshold 1, one change, codes with and without a blank, no second factor yet where the hash is of an old cost; 2 clients, 2 addresses, 1 lease kept, 3 ticks; 4 releases, 3 of them wrong, 2 faults; 2 names, 2 renewals, 2 boots |
| `udp_pool_fixed`, `zones_delta`, `mac_policy`, `filter_paths` | expected violations, see Findings | the smallest instance in which it happens |

Limits (caps, lifetimes, budgets, retention) are constants one or two above zero,
so that a behaviour reaches each of them and goes past.

`CHECK_DEADLOCK FALSE` is set where a bound on calls, time or records lets the
model come to rest with all work done. `freshness` and `services` use symmetry of
keys, requests and addresses; neither has a liveness property.

### Fairness

No run assumes more than that a runnable task is eventually run. SharedCache: a
live worker takes its next step (the lock wait is timed). Pipeline: the event
loop runs fetch tasks and resumes their waiters; the upstream call inside a
fetch is bounded by its timeout. Listeners: a handler that can step does, a
drain goes through or fails, the idle timeout comes. Stream and UdpPool: an
await of a query has a timer or is an attempt that succeeds or fails; the one that has
none, `_Link.close()` waiting for its transport to be closed (`upstream.py:425`), is
taken to end: TLS gives up its shutdown by itself, and TCP when its buffer is sent or
the connection dies. Forwarder:
asks end, a race with a completed ask is resumed, and a failure grows old.
Recursive: a resolution that is running goes on (each packet is timed). QueryLog:
the database thread works its queue, timers fire. Rollup: the hourly sweep runs,
statements are executed. Fanout: a worker's handler of a pending signal, its poll
of the file and its tasks run. ZoneSync: the secondary's timer fires and a
transfer it has begun goes on; a NOTIFY round ends. Lifecycle: processes run, and so
does a stop that waits for nobody; nothing makes a stage of start-up finish or a client
leave, and `ServiceStops` says what follows if each client does (`ClientsLeave`), which
is for the clients to do and not for the code. Nothing else assumes that a message arrives, an upstream answers, a client waits
or a worker survives; Fanout and ZoneSync conclude only about what happens once
faults, which are bounded, have stopped.

## Proofs

Each theorem holds for every value of the constants that meets the assumption
named with it; TLC evaluates the assumptions on every run. An invariant is proved
from an inductive one: true initially, kept by every action (one lemma each), and
implying what is claimed.

**SharedCacheProofs**, for any workers, keys, slots, stripes and clears
(`SharedCacheAssumption`: the counts are positive, keys are naturals, `NoOne` is
not a worker):

* `TypeCorrect`: `TypeOK`, inductive together with `Placed` (a call is on the
  stripe of its key, a clear within the stripes).
* `Exclusion`: `HoldsIffCritical`, inductive given the types: whoever is in a
  critical section holds the lock of that stripe and the other way round.
* `StallOnce`: `OneStallPerDeadLock`. A full timeout writes the stripe off, and a
  later call probes without blocking; the invariant says that a worker waiting
  on a stripe still trusts it (`WaitTrusts`) and that each stall is explained by a
  write-off not yet lifted by an acquisition (`StallExplained`).
* `ClearSweeps`: `ClearedIsCleared`, with `ErasBegun`: no header is from an era
  that has not begun, so what is put behind a running clear is as new as it.
* `ReadsWhole`: `NoTornRead`, an action property, from `SlotsWhole`: outside a
  critical section a slot whose header and bytes disagree has a dead holder, so
  nobody can read it.
* `LogInOrder`: `WrittenOnceInOrder` of QueryLog, for any numbers of records, slots,
  batches and faults (`LogAssumption`, which is `QueryLogConstants`). What a process
  made lies, in the order it was made, along one line: the table, then what the open
  transaction has written, the writer's batch, the lane, the queue of the process
  (`LogInv`). Every step moves the head of one part to the end of the next, puts a
  failed batch back in front, or drops what is lost for good; and what stop() cannot
  drain is counted.
* `TotalsExact`: `ExactUnlessOvertaken` of Rollup, for any log, times, chunk and
  numbers of rows and faults (`TotalsAssumption`, which is `RollupConstants`: rows
  are kept an hour longer than they come late, and are days against seconds). The
  backfill writes what it counts between an hour and the mark it read as that hour's,
  so nothing may lie or come between. The invariant (`RollInv`) says why: a half hour
  that rows still come in is after the mark, or is in the hour of the newest row the
  migration found, which cannot be deleted so soon (`MarkInv`); so the hour the
  backfill reads has a row and nothing lies or comes between it and the mark
  (`FillInv`); what the sweep's script cuts has no rows left (`SweepInv`); and an hour
  before the mark that is empty has no totals, or nothing is or comes up to it
  (`EmptyInv`), so a mark that moves back over it is right about it.

**PipelineProofs**, for any queries, clients, views, subnets, filters and names
(`PipelineAssumption`, `PipelineIds`):

* `CoalescingSound`: `Coalesced`. Beside it stand `FetchesSound` (a fetch, led or
  followed, is for a key of the client it runs for, and what it brings back is at
  home there) and `QueriesSound` (a query asks its own client's question and
  waits only on a fetch of that key).
* `AnswersStayHome`: `OriginsStayApart`, from `CacheSound` (an answer is filed
  exactly where it is valid, or is marked astray under a key without a scope) and
  the origins that `FetchesSound` keeps in the records handed to followers: a
  follower shares its leader's key. What other workers file in the shared table
  is filed in the same way (`SharedSound`).
* `CacheVetted`: `CacheIsVetted`. The swap flushes in the same step, so a fetch in
  flight across it stores under the new rules; only the first load of a start
  replaces rules without a flush, and only once (`OldRules`). It speaks of what this
  worker inspected: what it does not claim (entries of siblings, of exempt clients,
  of the time the switch was off, and of another group) is under Observations.
* `MisfortuneContained`: `FailuresContained`, from `OneMoves` (a step moves at most
  one query) and `ServfailStep`.
* `NoEarlyFailure`: `FailsOnlyAfterAll` of Forwarder, for any queries, group, round
  trips and failure counts (`FwdAssumption`: the group is not empty; an empty one
  is refused before anything is asked). Failures arrive in any order and the race
  is left before all of its asks are looked at, so the invariant follows those still
  owed: an upstream that has not failed the resolution is in a race that is yet to
  be run or running (`Covers`), and one of the race that runs has its ask under way
  or among the completed ones not yet looked at (`CallSound`). Every strategy starts
  with a race for everyone (`PlanIs`), whatever the ranking puts first (`FastestIs`).
* `CapsAreKept`: `CapsHold` of Listeners, for any connections, queries, addresses and
  caps (`DoorsAssumption`: finitely many, and `None` is none of them). `Tracked`: the
  tracker's counts are those of the open connections, because each is released once
  on whatever way it ends. `Limited`: at most one query joins those at work, where
  there was room. `Lined` and `StartedOnce`: a stream query is in one line, once, or in the
  hand of its own connection, and unstarted; a QUIC stream that can still start a query
  has not started one.

**FastPathProofs**, for any policies, filters, limits and events: `ReplaySoundness`,
`ReplayTableSound` (`FastPathAssumption`). The invariant counts the datagrams in flight
(`Counted`), numbers the policies without a gap (`NumbersDense`), and says of every
entry recorded in the step that reached it that its verdict is what the rules give
(`RecordedCurrent`), also while a toggle keeps the table out of use: a change of
those rules clears the table in the step that makes it. Beside it:

* `GatesHold`: `VerdictsJustified` of Admission, for any addresses, proxies, names
  and limits (`GatesAssumption`, which is `AdmissionConstants`: clients are not
  proxies, and a full bucket is no more than an idle one refills to). `AclSound`:
  an address the ACL remembers as local was so when its memo was last cleared, and
  a network it reads as attached was attached at that reading. `DgaSound`: failed
  lookups held against a client are failures it had, none older than the window.
  `RateSound`: what is left in a bucket and what was let through since any moment
  are together no more than the burst and the refill since. That survives gc only
  by the assumption.
* `DeviceNamesSound`: `DeviceNamesKept` of Devices, an action property, for any
  devices, lifetimes and bounds (`NamesAssumption`). `NamesInv`: an address has
  one entry, a sweep that asks on the current table holds its lock, and what it asks or
  has yet to ask is due and is no other's.
* `FilterExact`: `FilterIsExact` of Filter, for any rules, questions, hash, names,
  slots, globs and texts (`FilterAssumption`, which is `FilterConstants`: a name has a
  length, and the table more slots than names, as `build` sizes it). A plain rule in
  an index has the rule it came from for a double, equal in all that the order of
  rules looks at (`DoubleIs`), so the best of the doubles are the doubles of the best
  (`BestIs`). `TableInv`: a filled slot holds what the first list said of its name
  (`FirstListed`), every name is found before a free slot on its way (`Reached`), and a
  free slot there is, because no more are filled than names were given; a put fills only
  a slot that was free, through which nobody's way passed. Of the glob: the scan is
  never past a placement (`ScanComplete`), and what it finds is one (`ScanFound`), up
  and down the pieces by least counterexamples (`Upward`, `Downward`).

**GravityProofs**, for any siblings, sources and rules, with or without groups
(`NoneApart`): `BuildsSerialised` (`BuildsSound`), `SidecarHonest`
(`TrustedIsWhole`) and `SwapGuarded` (`PrimaryGuarded`). `Serial` is one build and a
truthful board with the claims of `run_now` in between; `Believable` says what the
sidecar says at each stage of a build; `Passed` that a build beyond the check was
not refused by it, as long as the build is of the app's own Gravity.

**TransportProofs**, for any tasks, questions, message ids, attempts, pool sizes and
lifetimes (`StreamAssumption`, `PoolAssumption`):

* `StreamKeepsOne`, and `TransportsSound` with the pool (`LinksSound`). `StreamInv`:
  whoever connects is at the head of the lock's queue and its `_StreamConn` has no
  usable link (`AtDoor`), so that a second one cannot be opened; a pending id is
  registered by the query that has it (`Pending`); a link nobody refers to is not
  open (`OneConnection`). `PoolInv`: what fills holds the lock (`Filling`, `InLine`),
  so nothing of the pool is lost but by a cancelled fill; an open socket is in the
  pool, or retired with a query on it (`Watched`); who waits has its slot unless
  it was evicted (`HasSlot`), so that a stray reply leaves the slot alone and the own
  reply always finds it.
* `BurstContained` and `WorkingLinkSafe`: `WorkingLinkKept`, an action property, from
  `Lost`: a query that holds the error of a link has a link that is no longer
  usable, so the drop of a burst never closes a successor.
* `CallsEndAsPromised`: the safety half of the refinement. Every step of Stream and of
  UdpPool maps to `Ask`, `Return` or `Refuse` of Exchange or to a stutter, under the
  mapping `Caller`. What a query returned is None from its start to its end
  (`Placed`, `Settled`), so a retry or a wait shows nothing outside.

**RecursiveProofs**, for any names, zones, questions, budgets and messages of the
faulty servers (`RecursiveAssumption`): `NothingPlanted`, `InBailiwick`. The
assumption says what the servers and the namespace are: ancestors of names are names, and no zone
outside the faulty one is served from its addresses or by its names. Were one
so served, its owner would have put its data in those hands, and nothing a resolver
does could tell. The invariant follows a planted record along its way: a
message that has been scrubbed says nothing untrue of an outside name (`MessageSound`),
a call at an outside zone has no address of the faulty servers left to try and a
call is never at a zone that does not enclose its name (`FrameSound`), and a side
resolution begun for an outside zone is for a nameserver that zone may believe
(`StackSound`), so what comes back from it may be remembered. And the chain of trust:

* `TrustSound`: `TrustIsEarned` of DnssecChain, for any namespace closed under
  ancestors, zone cuts to begin with, course of the zones, lifetimes, TTLs and
  budget (`TrustAssumption`, which is `ChainConstants`: the readable lines for the
  root in an anchor file name the root's own key; whoever configures another one
  trusts it). `WorldSound`: what may be replayed was signed, and only the stranger
  signs what is false, about names outside its zone. `TrustInv` says of every
  verdict in `_state`, every key in `_keys` and every stage of a descent that the
  root vouches for it by records in force until the entry expires (`VerdictSound`,
  `KeysCached`, `ZoneStage`). An expiry is never later than that of the weakest
  record it rests on, and a record stays in force until its own expiry whatever
  the zones do (`Grows`), so what was live when a validation began was vouched for
  then. Of a message that has CD set it claims only that AD is not set unearned.

**AuthProofs**, for any requests, addresses, thresholds, delays and changes
(`AuthAssumption`): `GuessingLimited`, `AttemptsLimited`. `Tallies`: the count and the
time under a key are those of the attempts let through, because nothing is awaited
between the check and the count. `CodesKept`: a code that was taken is remembered, as
it was typed, until its time step is out of every window; that needs `TOTP_MEMORY` to be no
shorter than the two windows, as the comment at its definition claims, and is why
the pruning of the memory cannot free a code that still matches. The other services:

* `AddressesExclusive`: `LeasesExclusive` of Dhcp, for any clients, pool,
  reservations, lifetimes and cap (`LeasesAssumption`, which is `DhcpConstants`:
  no two reservations are of one address, which the program does not check).
  `LeasesInv`: an address is granted once and a client's entry is of an address it
  may have (`TableSound`), what a client believes it holds is in the table for as
  long (`ClientsSound`), and a name is of a lease there was (`NamesBacked`).
* `OnlyVetted`: `InstalledIsVetted` of Update, for any releases and faults
  (`UpdatesAssumption`). `UpdatesInv`: what a task has in hand is a release of the
  index, of the digest it names, and past the smoke test one that passed.
* `RenewalsWhole`: `RenewalsAreWhole` of Certificates, for any names, renewals and
  deaths. `StoredInv`: what is on disk is a pair, or the half of it that a death left
  and the next start replaces; `WritesInv` and `ChallengesInv`: of each renewal
  under way, what it has put there and has yet to take back.

**FreshnessProofs**, for any workers, keys, TTLs and bounds (`CacheAssumption`, which
is `AnswerCacheConstants`): `AnswersStayCurrent`, `AnswersCurrent`. An entry of a
store that was not restored from a dump never has more time left than its answer was
stored for, and was stored after every flush of its worker (`Good`). What is in
the shared table comes from no dump and was stored after the last flush of any
worker (`Shared`), because every flush empties it, so a promotion brings nothing old
back. Stores and dumps hold a key once (`Distinct`), and so fit after a restart.

Only model-checked: every liveness property (`EveryCallReturns`,
`StorageCatchesUp`, `NobodyWaits`, `OwedAnswers`, `DemotionEnds`, `ChangesArrive`,
`ServiceStops`, `EveryQuestionEnds` and the liveness half of `TransportsExchange`),
which the prover does not reach, and two others. `DenialsAreTrue` and `MirrorSound`
are about what recursive definitions and folds compute: a search in the chain of
denials over canonically ordered names, a journal of deltas replayed and joined. For
every input that needs inductions over their data, and the library's induction
theorems take an operator, which the provers cannot instantiate. FastPathProofs,
RecursiveProofs and FreshnessProofs get by with least counterexamples (`Least`,
`Upward`), which suffice for the pieces of a glob, the prefixes, chains of names and
dumps they need; those two stay checked over bounded inputs.

The proofs changed the models in nine places. `NoSlotStolen` held in TLC only
because the bound of two calls hid the eviction described under Observations; with
three it does not hold of the code, and the property now sets those queries apart.
`FailuresContained` speaks of the key of the question, which is all that
`has_stale` looks at. A guard of Pipeline's `Resume` overlapped another. The queues
at a lock are sequences that may hold a task twice as far as their type says, and
what leaves them is the first occurrence, as in `asyncio.Lock`. Recursive assumed,
without saying so, that the faulty servers serve no other zone; `Orders` put the
servers in an order that had no type. `Delay` of Auth was a minimum that said
nothing for a count below the threshold. The reference of DnssecChain followed
chains down to a fixed depth; it now follows any. `ExactUnlessOvertaken` held in TLC
only because the upgrade came early in the run: a row older than those the migration
found could come in between the backfill's reads and its script, which no process
logs, and Rollup now says so (`since`); its rows were counts, and are rows with an id.
Filter built its table anew from all names at each look; the table is now a state that
each name is put into.

## Findings

**A cancelled refill leaks sockets** (`udp_pool_fixed`,
`transport/upstream.py:314-329`). `_ensure` opens sockets into a local list and
installs the list after the last one. A query that is cancelled on the way, as
the losers of a `parallel` race are, forgets those already open: they belong to no
pool, hold their descriptors, and the next query opens a full set again. The class
calls itself "a fixed set".

**A delta can leave a record at the secondary** (`zones_delta`,
`auth_zone/update.py:166-168`). An UPDATE that adds a record and removes it again
journals it as deleted and as added. The secondary applies deletions, then
additions, and keeps a record that the primary does not have, at the same
serial; it stays until a full transfer.

**A device can keep the default policy** (`mac_policy`,
`clients/registry.py:44-54`). `identify` memoises; `refresh_neighbours` does not
clear the memo. A device asked about before the neighbour table knew its
address is not recognised by its MAC until the memo drops the entry, against
the order of precedence that `docs/configuration.md:30` gives.

**Workers enforce different rules** (`filter_paths`, `app.py:442-446`). A worker
that maps another's table adds the operator's rules only; imported regexes and
rules with modifiers, which are not in a table, are missing there.

## Observations

Places where the code does less than a comment near it suggests, or that a
reader should know of. The properties named are defined in the modules; TLC
refutes each when it is put in a configuration of that module.

Blocklists, cache, pipeline:

* `ShortNeverReplaces` (Gravity, `app.py:649`): the build's report is read from
  an object that an edit during the build has replaced, so a corpus with failed
  sources can be swapped in although "Keep what is already running instead".
* `OneCompile` (Gravity, `app.py:1158`): re-arming the schedule cancels a
  running build and gives up its lock while its compile thread goes on; the
  next build compiles beside it ("Two builds at once is the OOM").
* `RefusedNeverServed` (Gravity, `app.py:664`): the table file is replaced
  before the primary can refuse it, and siblings look only at the file.
  `SameRules` (Gravity) is the finding `filter_paths` seen from there.
* `ReplayIsCurrent` (FastPath, `engine/pipeline.py:279`): a query in flight
  across a swap is recorded after the table was cleared.
* `ExemptNeverBlocked` (Pipeline, `engine/pipeline.py:841`): an exempt client
  that follows a filtered client's fetch gets its block; and the other way round an
  exempt client's uninspected answer is cached for all.
* `NoneAstray` (Pipeline, `engine/pipeline.py:928-930`): with ECS forwarded,
  `_prepare_forward` attaches the subnet of the client at hand to what `warm` and
  `ask_privately` send as 127.0.0.1, and to the target of a safe-search answer
  (1019-1025), while their keys have no scope; whatever scope the upstream declares,
  `_scoped_key` (889) leaves the answer under the unscoped key, where all clients of
  the view find it. The comment at line 718 says "No ECS scope is applied".
* `ServedByOwnRules` (Pipeline, `engine/pipeline.py:843`): an answer is inspected with
  the rules of the group that asked first, and the cache key names no group; and
  `Cache.get` (`cache/cache.py:161-190`) falls through to the shared table, where a
  worker that has not yet adopted a refresh still writes, so that an entry of the old
  rules comes back after the flush. The first load of a start installs rules, and
  those of the groups, without a flush (`app.py:574-576`, `606`), and what was cached
  while filtering was switched off stays when it is switched on. (A pause, which
  FastPath has and Pipeline does not, lifts the checks of the question only.)
* A clear of the shared cache skips a stripe whose live holder outlasts
  `LOCK_TIMEOUT`. A flush does not reach the other workers' own stores.
* With ECS on, `has_stale` and `_serve_stale` look only under the scoped key.
* A dump does not count the time spent down. `max_entries: 0` holds one entry.
  An entry promoted over an expired one keeps its place in the eviction order.
* A fast-path attempt takes a rate token and the full path takes another.
* The ACL may serve a network that has gone for almost twice `REFRESH`. gc forgets
  a bucket after 300 s, early when burst exceeds 300 times the rate (Admission
  assumes it does not). `CookieJar.valid` has no caller. `_adopt_pipeline` starts with
  full buckets.

Upstreams, recursion, validation:

* A bogus answer becomes SERVFAIL only `and not out.cd` (`recursive.py:715`), and `out` is
  the message of the authoritative server, whose CD bit nobody clears: with that bit
  set the answer is handed out as it came, without AD (`"cd"` in DnssecChain). The
  validator's own questions go through the same resolver; Recursive counts one
  client's question and its side resolutions, not those.
* `ClosedHoldsNothing` (Stream, `transport/upstream.py:859`): a query that is
  connecting when the upstream is closed opens a connection nobody closes; a
  retry after the close meets `_conn` None.
* A socket lost during a refill is put back by the refill's snapshot, until the
  next query on it times out. The wait for the opening lock and the connect are
  outside the per-query budget that `_stream` describes.
* `UdpPool.query` ends with `finally: self.forget(txid)`
  (`transport/upstream.py:357-360`), also when its reply has come and the id was
  given to a later query on the same socket in between: the later one is
  forgotten, its own reply finds nobody, and it fails at its timeout
  (`evicted` in UdpPool). It takes two draws of one id on one socket.
* `recursive.py`: `closest` skips cuts without glue although a comment says they
  stay usable; the branch that returns a widened message is never taken.
* `nsec_nodata` accepts no proof for an empty non-terminal, `nsec3_ds_denial`
  none by the next closer name, and the two NSEC wildcard proofs do not look at
  the closest encloser. `Zone.lookup` answers NXDOMAIN through a wildcard that is
  itself an empty non-terminal and synthesises no DNAME.

Zones:

* An UPDATE between the end of `_notify_rounds` and its done-callback gets no
  round of its own (`handler.py`, `_schedule_notify`); the refresh timer covers it.
* A NOTIFY during a transfer is cleared after it (`secondary.py:228`); a
  transfer that changed nothing waits for the retry delay; a first envelope
  of one record reads as "up to date".
* `ReplayWindow` prunes with the window of the message at hand; `AppliedOnce`
  is about messages of one fudge value. A truncated MAC that is accepted (`tsig.py:306-333`) makes another key of the same
  message, and an UPDATE that adds an SOA is not in ZoneSync. Updates and journal are
  not persisted;
  signatures last 30 days and are renewed by updates and restarts only.

Log:

* `GapsExplained` (QueryLog, `store/querylog.py:199-214`): stop() cancels the
  writer inside a batch, whose rollback drops rows that nothing counts; a
  stranger's failed statement can roll back the writer's rows as well.
* `RollupExact` (Rollup, `store/querylog.py:346-355`): rows deleted between a
  backfill's reads and its script leave totals without rows.
* `enqueue()` never looks at `_running`: what is queued at a primary after its stop()
  stays there. QueryLog has a stopped primary log nothing.
* With `querylog.retention_days` 0, which the settings allow (`api/settings.py:234-235`),
  the sweep puts the mark past the running hour, rows keep coming in below it, and one
  that comes between the backfill's reads and its script is counted in two hours.
  `RollupConstants` leaves that setting out.

Control and lifecycle:

* `ClientsReachEveryWorker` (Fanout, `__main__.py:121-122`): a change of the
  client table whose SIGUSR1 was dropped never reaches that worker ("one in
  flight already covers this change"); settings do arrive, by the poll. The first
  look at the mtime records it without applying. Two switches of the query log
  that overlap can end with it off. Toggling, pausing and flushing through the API
  act on the API's worker only.
* `RefusalRefuses` (Lifecycle, `__main__.py:137-142`): a primary that fails to
  start exits while its siblings go on; dead workers are not started again and the
  supervisor's status is 0.
* `StopsAlone` (Lifecycle, `do53.py:368`, `dot.py:59`): `await server.wait_closed()` has no
  timer, and from Python 3.12 (the image's) on it waits for every open connection;
  `App.stop` (`app.py:1458-1460`) puts no limit on a part either. A client that keeps
  asking on one connection keeps the worker from draining its log and closing its
  database, until the service manager kills it. On 3.11 the call returned at once.
* SIGTERM during `setup_storage` dumps a cache that has not been restored over the
  one on disk. SIGTERM before the supervisor's `_forward` is installed leaves the
  workers. Listeners bound after `stop` made its list are not stopped.

Services:

* `RollbackPossible` (Update, `ops/update.py:606-615`): a crash between install
  and record leaves nothing to roll back to. Saving a setting of the group makes
  a new Updater with a lock of its own; a blocklist build may start after the check
  that none is running; `restart_required` is not cleared.
* `KeyAloneIsHarmless` (Certificates, `security/certs.py:164`): a crash between
  the new key and the new certificate leaves a pair that does not load. Two
  renewals at once clear each other's challenge. The self-signed key's file is
  created empty and then filled.
* Auth: a login that is in flight across a change of password completes, and its
  rehash may write the earlier password back, so a session can outlive the change
  that was to end it; confirming a second factor does not spend the code.
* `OncePerCode` (Auth, `api/auth.py:110-112`): `_totp_used` remembers the string that was
  typed, `totp.verify` strips it (`totp.py:35`), and login, unlike `totp_disable`, passes
  it on unstripped (`server.py:368`): the digits of one time step are taken once for
  each way to put blanks around them ("Spend a TOTP code once").
* DHCP: a REQUEST answered NAK leaves its grant; a late RELEASE forgets the new
  holder's name; a renewal the server does not know may be answered with
  another address. Leases are in memory only.
* Clients: at `max_devices` the ledger evicts before the new device's activity
  is recorded, and so evicts it; an evicted device that renews a lease reads as
  silent.

## Plan

Done: SharedCache, Pipeline, FastPath, AnswerCache, Gravity, Stream, UdpPool,
Forwarder, Rollup, QueryLog; then Fanout, Lifecycle, ZoneSync, Recursive,
DnssecChain, Denial, ZoneLookup, Filter, Admission, Listeners, Auth, Dhcp, Update,
Certificates, Devices, Clients, and Exchange with the refinement. Proved: SharedCache,
QueryLog, Rollup, Pipeline, Forwarder, Listeners, FastPath, Filter, Admission, Devices, AnswerCache,
Gravity, Recursive, DnssecChain, Auth, Dhcp, Update, Certificates, and the transports
with their refinement.

Left to model: SIGHUP's full reload in Fanout, the shared table of AnswerCache
as an abstraction of SharedCache, API tokens, the TCP retry of a truncated
answer.

## Not modelled

Byte-level parsing and formatting (wire codec, zone files, list syntax),
cryptography (DNSSEC signatures, TLS, TSIG digests), the QUIC and HTTP stacks
(DoH on either side), presentation (console, CLI, reports, most API routes),
statistics, and floating-point heuristics (detectors' scores, popularity) are left
out: no interleaving or failure makes them wrong in a way a model would show.
PROJECT.json says, component by component, what is left out of those that are
partly modelled.
