------------------------------ MODULE Admission ------------------------------
(***************************************************************************)
(* What a query passes before it is resolved: whose it is, its client's    *)
(* token bucket, our own zones, the recursion ACL and its memo, names that *)
(* stay on the network, and the detector of random names; and what its     *)
(* outcome leaves behind.                                                  *)
(*                                                                         *)
(* Source: trench/engine/{access,ratelimit,localonly}.py, filter/dga.py,   *)
(* security/clientaddr.py and the stages of Pipeline._run (pipeline.py)    *)
(* that come before the cache.  They run without an await, so one query is *)
(* one step.  Safe search, blocked services and the filter are one stage   *)
(* here (Filter.tla is the engine); what a name is is given by the sets it *)
(* belongs to.                                                             *)
(***************************************************************************)
EXTENDS Integers, Sequences, FiniteSets, FiniteSetsExt

CONSTANTS
  Addr, Proxy,               \* client addresses; security.trusted_proxies
  Claims,                    \* what clients write into X-Forwarded-For
  Lan,                       \* the addresses of LOCAL_NETWORKS
  Refresh, MaxMemo,          \* access.py
  Rate, Burst, MaxKeys, Idle,       \* RateLimiter: per tick, and gc's idle
  ZoneName, DeviceName, LocalName, BlockedName, RandomName, PlainName,
  RoutedName, RouteServer,   \* the local names with a route, and where to
  BurstNames, BurstWindow, MaxClients,      \* DGADetector
  Settings,                  \* which of the gates "limit", "acl" and "dga" may be on together
  MaxTime,                   \* the horizon, for each choice of gates
  None

(* No client is a proxy of ours.  A bucket is full again before gc forgets *)
(* it: the operator's to see to, the program does not compare rate_burst   *)
(* with rate_limit and the 300 seconds of gc.                              *)
AdmissionConstants ==
  /\ Proxy # {} /\ Addr \cap Proxy = {}
  /\ \A xff \in Claims : xff \in Seq({xff[i] : i \in DOMAIN xff})
  /\ Refresh \in Nat \ {0} /\ BurstWindow \in Nat /\ BurstNames \in Nat
  /\ Rate \in Nat /\ Burst \in Nat \ {0} /\ Idle \in Nat /\ Burst <= Rate * Idle
  /\ IsFiniteSet(RandomName)

VARIABLES
  gates,       \* the gates that are configured (rate_limit, recursion_clients, dga_detection)
  now,
  routes,      \* the addresses of the networks attached to this host
  memo, memoAt, attached, readAt,           \* RecursionAcl
  buckets,     \* RateLimiter._buckets: key -> [tokens, last]
  failed,      \* DGADetector._failed: client -> random name -> its last failure
  verdict,     \* the last query's: [real, from, action]
  wasLocal,    \* address -> when it was last attached
  let,         \* address -> when its bucket let it through, since it was trimmed
  flops        \* address -> random name -> when it last failed, since the detector was built

acl == <<memo, memoAt, attached, readAt>>
vars == <<gates, now, routes, acl, buckets, failed, verdict, wasLocal, let, flops>>

Never == -(BurstWindow + 2 * Refresh + 1)
QName == ZoneName \cup DeviceName \cup LocalName \cup BlockedName \cup RandomName \cup PlainName
Without(f, gone) == [x \in DOMAIN f \ gone |-> f[x]]
With(f, x, v) == [y \in DOMAIN f \cup {x} |-> IF y = x THEN v ELSE f[y]]
Quiet == [n \in RandomName |-> Never]

Init ==
  /\ gates \in Settings
  /\ now = 0
  /\ routes \in IF "acl" \in gates THEN SUBSET (Addr \ Lan) ELSE {{}}
  /\ memo = {} /\ memoAt = 0 /\ attached = {} /\ readAt = -Refresh
  /\ buckets = [a \in {} |-> 0]
  /\ failed = [a \in {} |-> Quiet]
  /\ verdict = None
  /\ wasLocal = [a \in Addr |-> IF a \in routes THEN 0 ELSE Never]
  /\ let = [a \in Addr |-> <<>>] /\ flops = [a \in Addr |-> Quiet]

-----------------------------------------------------------------------------
(* client_ip: the header counts only from a trusted peer, read from the    *)
(* right past the hops that are proxies of ours.                           *)

Trusted(peer) == peer \in Proxy
ClientIp(peer, xff) ==
  LET strangers == {i \in DOMAIN xff : ~Trusted(xff[i])}
  IN IF ~Trusted(peer) \/ strangers = {} THEN peer
     ELSE IF xff[Max(strangers)] \in Addr THEN xff[Max(strangers)] ELSE peer

(* What arrives from a client through proxies that append whom they saw.   *)
Header(a, claimed, hops) == claimed \o (IF hops = 0 THEN <<>> ELSE <<a>>)
Peer(a, hops) == IF hops = 0 THEN a ELSE CHOOSE p \in Proxy : TRUE

-----------------------------------------------------------------------------
(* RateLimiter.                                                            *)

Least(x, y) == IF x < y THEN x ELSE y
Tokens(a) ==
  IF a \in DOMAIN buckets
  THEN Least(Burst, buckets[a].tokens + (now - buckets[a].last) * Rate) ELSE Burst
Allowed(a) == Tokens(a) >= 1

(* _trim: the least recently seen quarter makes room for a new key.        *)
Full(a) == a \notin DOMAIN buckets /\ Cardinality(DOMAIN buckets) >= MaxKeys
Trims(a) ==
  IF ~Full(a) THEN {{}}
  ELSE LET some == Cardinality(DOMAIN buckets) \div 4
       IN {t \in kSubset(IF some > 1 THEN some ELSE 1, DOMAIN buckets) :
             \A x \in t, y \in DOMAIN buckets \ t : buckets[x].last <= buckets[y].last}

Spend(a, trimmed) ==
  LET ok == Allowed(a)
      cleared == [x \in Addr |-> IF x \in trimmed THEN <<>> ELSE let[x]]
  IN /\ buckets' = With(Without(buckets, trimmed), a,
                        [tokens |-> Tokens(a) - (IF ok THEN 1 ELSE 0), last |-> now])
     /\ let' = IF ok THEN [cleared EXCEPT ![a] = Append(@, now)] ELSE cleared

(* gc, on a timer (_reap_ratelimiter).                                     *)
Reaped == {a \in DOMAIN buckets : now - buckets[a].last > Idle}
Gc ==
  /\ Reaped # {}
  /\ buckets' = Without(buckets, Reaped)
  /\ UNCHANGED <<gates, now, routes, acl, failed, verdict, wasLocal, let, flops>>

-----------------------------------------------------------------------------
(* RecursionAcl.allows: only a yes is remembered, and for a while.         *)

MemoHolds_Always == TRUE        \* mutant: what was once local stays local
MemoHolds == now - memoAt < Refresh
Remembered(a) == a \in memo /\ MemoHolds
ReadsRoutes(a) == ~Remembered(a) /\ a \notin Lan /\ now - readAt >= Refresh

(* A routing table that cannot be read is an empty one.                    *)
Read(a, plain) == IF plain /\ ReadsRoutes(a) THEN {routes, {}} ELSE {routes}
Attached(a, got) == IF ReadsRoutes(a) THEN got ELSE attached
Admits(a, got) == Remembered(a) \/ a \in Lan \cup Attached(a, got)

Consult(a, got) ==
  LET expired == a \in memo /\ ~Remembered(a)
      before == IF expired \/ Attached(a, got) # attached THEN {} ELSE memo
      kept == IF Cardinality(before) >= MaxMemo THEN {} ELSE before
  IN IF Remembered(a) THEN UNCHANGED acl
     ELSE /\ memoAt' = IF expired THEN now ELSE memoAt
          /\ attached' = Attached(a, got)
          /\ readAt' = IF ReadsRoutes(a) THEN now ELSE readAt
          /\ memo' = IF Admits(a, got) THEN kept \cup {a} ELSE before

-----------------------------------------------------------------------------
(* DGADetector: what score() makes of a name is given (RandomName).        *)

LooksRandom(n) == n \in RandomName
Recent(a) ==
  IF a \in DOMAIN failed THEN {n \in RandomName : failed[a][n] >= now - BurstWindow} ELSE {}
Campaign(a) == Cardinality(Recent(a)) >= BurstNames
Check(a, n) == LooksRandom(n) /\ Campaign(a)

(* note_outcome: a random name that failed; a full table is dropped whole. *)
Counts(rcode) == rcode \in {"NXDOMAIN", "SERVFAIL"}

NoteOutcome(a, n, rcode) ==
  LET table == IF a \notin DOMAIN failed /\ Cardinality(DOMAIN failed) >= MaxClients
               THEN [x \in {} |-> Quiet] ELSE failed
      mine == IF a \in DOMAIN table THEN table[a] ELSE Quiet
  IN failed' = IF LooksRandom(n) /\ Counts(rcode)
               THEN With(table, a, [mine EXCEPT ![n] = now]) ELSE failed

-----------------------------------------------------------------------------
(* One query: the first stage that has an answer gives it.                 *)

IsLocalOnly(n) == n \in LocalName
AskedByRoute(a, n) == n \in RoutedName /\ a = RouteServer

Stages == <<"limit", "zone", "acl", "device", "local", "policy", "dga">>

Answers(a, plain, n, got) ==
  [limit  |-> "limit" \in gates /\ ~Allowed(a),
   zone   |-> n \in ZoneName,
   acl    |-> "acl" \in gates /\ plain /\ ~Admits(a, got),
   device |-> n \in DeviceName,
   local  |-> IsLocalOnly(n) /\ (n \in RoutedName => AskedByRoute(a, n)),   \* its own route would loop
   policy |-> n \in BlockedName,
   dga    |-> "dga" \in gates /\ Check(a, n)]

Verdict ==
  [limit |-> "limited", zone |-> "authoritative", acl |-> "refused", device |-> "device",
   local |-> "nxdomain", policy |-> "blocked", dga |-> "dga"]

Rcodes(action) ==
  CASE action = "resolved" -> {"NOERROR", "SERVFAIL"}
    [] action \in {"authoritative", "device"} -> {"NOERROR"}
    [] action = "nxdomain" -> {"NXDOMAIN"}
    [] OTHER -> {"REFUSED"}

From(real, plain, claimed, hops) ==      \* as the listener reports it
  IF plain THEN real ELSE ClientIp(Peer(real, hops), Header(real, claimed, hops))

Receive(real, plain, n, claimed, hops) ==
  LET a == From(real, plain, claimed, hops)
  IN \E got \in Read(a, plain), trimmed \in Trims(a) :
       LET yes == Answers(a, plain, n, got)
           at == {i \in DOMAIN Stages : yes[Stages[i]]}
           action == IF at = {} THEN "resolved" ELSE Verdict[Stages[Min(at)]]
           reaches == \A i \in at : i >= 3
       IN \E rcode \in Rcodes(action) :
            /\ verdict' = [real |-> real, from |-> a, plain |-> plain, action |-> action]
            /\ IF "limit" \in gates THEN Spend(a, trimmed) ELSE UNCHANGED <<buckets, let>>
            /\ IF "acl" \in gates /\ plain /\ reaches THEN Consult(a, got) ELSE UNCHANGED acl
            /\ IF "dga" \notin gates \/ action \in {"blocked", "dga"} THEN UNCHANGED failed ELSE NoteOutcome(a, n, rcode)
            /\ flops' = IF "dga" \in gates /\ n \in RandomName /\ rcode \in {"NXDOMAIN", "SERVFAIL"}
                        THEN [flops EXCEPT ![a][n] = now] ELSE flops
            /\ UNCHANGED <<gates, now, routes, wasLocal>>

(* _adopt_pipeline: a settings change builds the gates anew.               *)
AdoptPipeline ==
  /\ memo' = {} /\ memoAt' = now /\ attached' = {} /\ readAt' = -Refresh
  /\ buckets' = [a \in {} |-> 0] /\ failed' = [a \in {} |-> Quiet]
  /\ let' = [a \in Addr |-> <<>>] /\ flops' = [a \in Addr |-> Quiet]
  /\ verdict' = None
  /\ UNCHANGED <<gates, now, routes, wasLocal>>

(* A network is attached or goes away; time passes.                        *)
Reroute(to) ==
  /\ "acl" \in gates /\ routes # to
  /\ routes' = to
  /\ wasLocal' = [a \in Addr |-> IF a \in routes \cup to THEN now ELSE wasLocal[a]]
  /\ verdict' = None
  /\ UNCHANGED <<gates, now, acl, buckets, failed, let, flops>>

Lately(f) == [n \in RandomName |-> IF f[n] < now + 1 - BurstWindow THEN Never ELSE f[n]]

Tick ==
  /\ now < MaxTime[gates]
  /\ now' = now + 1
  /\ wasLocal' = [a \in Addr |-> IF a \in routes THEN now + 1 ELSE wasLocal[a]]
  /\ failed' = [a \in DOMAIN failed |-> Lately(failed[a])]
  /\ flops' = [a \in Addr |-> Lately(flops[a])]
  /\ verdict' = None
  /\ UNCHANGED <<gates, routes, acl, buckets, let>>

Next ==
  \/ \E a \in Addr, n \in QName : Receive(a, TRUE, n, <<>>, 0)
  \/ \E a \in Addr, n \in QName, hops \in 0 .. 1, claimed \in Claims :
       Receive(a, FALSE, n, claimed, hops)
  \/ \E to \in SUBSET (Addr \ Lan) : Reroute(to)
  \/ Gc \/ AdoptPipeline \/ Tick

Spec == Init /\ [][Next]_vars

-----------------------------------------------------------------------------
(* Recursion over plain DNS is for addresses that are local or were so a   *)
(* short while ago: neither the memo nor the routing table read earlier    *)
(* lets a network that left be served for two refresh periods              *)
(* (RecursionAcl.allows, _attached_to).                                    *)
StrangersGetNoRecursion ==
  ("acl" \in gates /\ verdict # None /\ verdict.plain /\ verdict.action \notin {"limited", "authoritative", "refused"})
    => verdict.from \in Lan \/ now - wasLocal[verdict.from] < 2 * Refresh

(* A client is who it is, whatever it claims in a header (client_ip).      *)
IdentityHolds == verdict # None => verdict.from = verdict.real

(* A name is blocked as part of a campaign only when enough random names   *)
(* of that client failed lately; names that resolve never count (check,    *)
(* note_outcome, and _finalize's call of it).                              *)
DgaNeedsCampaign ==
  (verdict # None /\ verdict.action = "dga")
    => Cardinality({n \in RandomName : flops[verdict.from][n] >= now - BurstWindow}) >= BurstNames

VerdictsJustified == StrangersGetNoRecursion /\ IdentityHolds /\ DgaNeedsCampaign

(* In any stretch of time a client gets through no more than its burst and *)
(* the rate over that stretch, also when the reaper has forgotten its      *)
(* bucket meanwhile; only being trimmed from a full table starts it afresh *)
(* (RateLimiter.allow, gc, _trim).                                         *)
RateHolds ==
  \A a \in Addr : \A i, j \in DOMAIN let[a] :
    i <= j => j - i + 1 <= Burst + Rate * (let[a][j] - let[a][i])

=============================================================================
