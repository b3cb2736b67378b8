------------------------------- MODULE Clients -------------------------------
(***************************************************************************)
(* Who is asking: the registry that gives an address its policy, with its  *)
(* memo and the neighbour table behind clients known by MAC address, and   *)
(* the ledger of what each device was last seen doing.                     *)
(*                                                                         *)
(* Source: trench/clients/{registry,activity}.py and App._refresh_neighbours *)
(* and reload_clients (app.py).  One client is configured by its MAC       *)
(* address and one by its IP; every other address has the default policy.  *)
(* One query is one step.                                                  *)
(***************************************************************************)
EXTENDS Naturals, Sequences, FiniteSets, SequencesExt

CONSTANTS
  Addr, Exact,               \* client addresses; the one configured by IP
  MaxCache,                  \* ClientRegistry.max_cache
  MaxDevices,                \* Ledger.max_devices
  MaxTime,                   \* bound
  None

VARIABLES
  now,
  here,        \* the addresses the MAC client is at
  neighbours,  \* _NEIGHBOURS: the addresses it was seen at
  memo,        \* ClientRegistry._cache, least recent first: <<[ip, policy], ...>>
  devices,     \* Ledger.devices: address -> [query, hits, lease]
  last         \* the last query's client and the policy it was given

registry == <<neighbours, memo>>
vars == <<now, here, registry, devices, last>>

Init ==
  /\ now = 1 /\ here = {} /\ neighbours = {} /\ memo = <<>>
  /\ devices = [a \in {} |-> 0]
  /\ last = None

-----------------------------------------------------------------------------
(* _resolve and identify.                                                  *)

Resolve(a) ==
  IF a = Exact THEN "exact" ELSE IF a \in neighbours THEN "mac" ELSE "default"

Memoised(a) == {e \in Range(memo) : e.ip = a}
Policy(a) == IF Memoised(a) = {} THEN Resolve(a) ELSE (CHOOSE e \in Memoised(a) : TRUE).policy

Identify(a) ==
  LET moved == Append(SelectSeq(memo, LAMBDA e : e.ip # a), [ip |-> a, policy |-> Policy(a)])
  IN memo' = IF Len(moved) > MaxCache THEN Tail(moved) ELSE moved

(* refresh_neighbours: what the neighbour table holds, or nothing.         *)
RefreshNeighbours(table) ==
  /\ neighbours # table
  /\ neighbours' = table
  /\ UNCHANGED <<now, here, memo, devices, last>>

(* reload_clients: a registry without a memo.                              *)
ReloadClients ==
  /\ memo # <<>> /\ memo' = <<>>
  /\ UNCHANGED <<now, here, neighbours, devices, last>>

-----------------------------------------------------------------------------
(* The ledger.                                                             *)

New == [query |-> 0, hits |-> 0, lease |-> 0]
Larger(x, y) == IF x > y THEN x ELSE y
Active(d) == Larger(d.query, d.lease)

(* A device that is not known is put into the table and room is made       *)
(* before its activity is recorded.                                        *)
Known(a) ==
  LET all == [x \in DOMAIN devices \cup {a} |-> IF x \in DOMAIN devices THEN devices[x] ELSE New]
      least == CHOOSE x \in DOMAIN all : \A y \in DOMAIN all : Active(all[x]) <= Active(all[y])
  IN IF Cardinality(DOMAIN all) > MaxDevices THEN [x \in DOMAIN all \ {least} |-> all[x]] ELSE all

Noted(a, d) == [x \in DOMAIN Known(a) |-> IF x = a THEN d ELSE Known(a)[x]]
Before(a) == IF a \in DOMAIN devices THEN devices[a] ELSE New

Query(a, bootstrap) ==
  /\ Identify(a)
  /\ last' = [ip |-> a, policy |-> Policy(a)]
  /\ devices' = Noted(a, [Before(a) EXCEPT !.query = now,
                                           !.hits = IF bootstrap THEN 1 ELSE @])
  /\ UNCHANGED <<now, here, neighbours>>

NoteLease(a) ==
  /\ devices' = Noted(a, [Before(a) EXCEPT !.lease = now])
  /\ UNCHANGED <<now, here, registry, last>>

Move(to) ==
  /\ here # to /\ here' = to
  /\ UNCHANGED <<now, registry, devices, last>>

Tick == now < MaxTime /\ now' = now + 1 /\ UNCHANGED <<here, registry, devices, last>>

Next ==
  \/ \E a \in Addr : NoteLease(a) \/ \E bootstrap \in BOOLEAN : Query(a, bootstrap)
  \/ \E to \in SUBSET (Addr \ {Exact}) : Move(to)
  \/ \E table \in {here, {}} : RefreshNeighbours(table)
  \/ ReloadClients \/ Tick

Spec == Init /\ [][Next]_vars

-----------------------------------------------------------------------------
(* A device that the neighbour table shows at an address has the policy of *)
(* its MAC address there, by the order of precedence the documentation     *)
(* gives (ClientRegistry.identify, _resolve).                              *)
PolicyFollowsMac ==
  [][\A a \in Addr \ {Exact} :
       (a \in neighbours /\ \E b \in BOOLEAN : Query(a, b)) => last'.policy = "mac"]_vars

=============================================================================
