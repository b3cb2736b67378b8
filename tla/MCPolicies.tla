----------------------------- MODULE MCPolicies -----------------------------
(* Who is answered, and by which rules, for TLC: the fast path's replay    *)
(* table, the filter, the gates in front of it and the device names.  In a *)
(* behaviour one of them moves, and the others stay in an initial state.   *)
(*                                                                         *)
(* Of the fast path: two clients under two policies, a permissive filter,  *)
(* a blocking one and one with a $client rule.                             *)
EXTENDS FastPath, TLC

CONSTANTS
  q1, q2, c1, c2, n1, p1, p2, f1, f2, f3,
  Addr, Proxy, Claims, Lan, Refresh, MaxMemo, Rate, Burst, MaxKeys, Idle,      \* of Admission
  ZoneName, DeviceName, LocalName, BlockedName, RandomName, PlainName, RoutedName, RouteServer,
  BurstNames, BurstWindow, MaxClients, Settings, MaxTime,
  Device, Label, Ttl, NegativeTtl, MaxNames, PerSweep, Concurrency, LastTick, MaxAdopts,  \* of Devices
  Pool, Question, MaxRules, Domain, Sources, Slots, MaxItems, Letter, MaxText             \* of Filter

VARIABLES
  part,
  rules, own, inherit, hash, items, slots, removed, glob, text,
  now, named, gen, holder, sweep,
  gates, clock, routes, memo, memoAt, attached, readAt, buckets, failed, verdict, wasLocal, let, flops

match == <<rules, own, inherit, hash, items, slots, removed, glob, text>>
devices == <<now, named, gen, holder, sweep>>
admission == <<gates, clock, routes, memo, memoAt, attached, readAt, buckets, failed, verdict, wasLocal, let, flops>>

MCBlocks == [f \in Filter |-> IF f = f2 THEN {<<p1, n1>>} ELSE {}]
MCClientBlocks == [f \in Filter |-> IF f = f3 THEN {<<c1, n1>>} ELSE {}]

(* Of the filter: every choice of up to three rules out of a pool in which *)
(* each option appears, every hash of three domains to four slots, and     *)
(* every glob and text of up to five letters.                              *)
C == <<"c">>
BC == <<"b", "c">>
ABC == <<"a", "b", "c">>
Rl(b, f, p, src) ==
  [block |-> b, form |-> f, pat |-> p, important |-> FALSE, badfilter |-> FALSE, rewrite |-> FALSE,
   types |-> None, clients |-> None, denyallow |-> {}, source |-> src]
MCPool == {
  Rl(TRUE, "suffix", BC, "list"),
  Rl(FALSE, "suffix", BC, "list"),
  [Rl(TRUE, "suffix", C, "list") EXCEPT !.important = TRUE, !.types = {"A"}],
  Rl(TRUE, "exact", ABC, "list"),
  Rl(TRUE, "regex", {ABC, C}, "list"),
  [Rl(TRUE, "suffix", BC, "list") EXCEPT !.badfilter = TRUE],
  [Rl(TRUE, "suffix", C, "list") EXCEPT !.denyallow = {BC}],
  [Rl(TRUE, "suffix", BC, "list") EXCEPT !.rewrite = TRUE],
  Rl(TRUE, "suffix", C, "denylist"),
  [Rl(FALSE, "suffix", ABC, "allowlist") EXCEPT !.important = TRUE],
  [Rl(TRUE, "suffix", ABC, "list") EXCEPT !.clients = {"x"}]}

MCQuestion == [name : {C, BC, ABC}, type : {"A", "MX"}, client : {"x", "y"}]

Match == INSTANCE Filter WITH Query <- Question

ASSUME FilterAssumption == Match!FilterConstants

(* Of the device names: a table of two for three addresses.                *)
Names == INSTANCE Devices WITH
  Addr <- Device, Name <- Label, MaxEntries <- MaxNames, MaxTime <- LastTick, table <- named

ASSUME NamesAssumption == Names!DevicesConstants

(* Of the gates: one at a time, a client on the network and one beyond, a  *)
(* proxy in front, and one bucket and one detector entry for both.         *)
MCClaims == {<<"far">>}
MCMaxTime == ({"limit"} :> 3) @@ ({"acl"} :> 4) @@ ({"dga"} :> 2)
Gates == INSTANCE Admission WITH now <- clock

ASSUME GatesAssumption == Gates!AdmissionConstants

MCInit ==
  /\ part \in {"fast", "filter", "names", "gates"}
  /\ Init /\ Match!Init /\ Names!Init /\ Gates!Init
  /\ part # "fast" => filter = f1 /\ \A c \in Client : policy[c] = p1
  /\ part # "filter" => inherit /\ \A d \in DOMAIN hash : hash[d] = 0
  /\ part # "gates" => gates = {"dga"} /\ routes = {}

FastMoves == part = "fast" /\ UNCHANGED <<part, match, devices, admission>>
FilterMoves == part = "filter" /\ UNCHANGED <<part, vars, devices, admission>>
NamesMove == part = "names" /\ UNCHANGED <<part, vars, match, admission>>
GatesMove == part = "gates" /\ UNCHANGED <<part, vars, match, devices>>

MCNext == \/ FastMoves /\ Next
          \/ FilterMoves /\ Match!Next
          \/ NamesMove /\ Names!Next
          \/ GatesMove /\ Gates!Next
MCSpec == MCInit /\ [][MCNext]_<<part, vars, match, devices, admission>>

-----------------------------------------------------------------------------
(* The indexes decide as the rules read one by one would (FilterEngine,    *)
(* SharedBlockTable, the glob matcher).                                    *)
FilterIsExact == part = "filter" => Match!FilterIsExact

(* A name that was found is kept, and asked for once (ClientNames).        *)
DeviceNamesKept == [][Names!DeviceNamesKept]_devices

(* Every refusal has its reason and every answer its right, and a bucket   *)
(* lets no more through than its rate (RecursionAcl, DGADetector,          *)
(* RateLimiter).                                                           *)
VerdictsJustified == part = "gates" => Gates!VerdictsJustified /\ Gates!RateHolds
=============================================================================
