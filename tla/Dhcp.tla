-------------------------------- MODULE Dhcp --------------------------------
(***************************************************************************)
(* The DHCP server, its lease table, and the names it publishes in DNS.    *)
(*                                                                         *)
(* Source: trench/dhcp/{server,scope,v4}.py, clients/names.py and the two  *)
(* lease callbacks of app.py.  Time is in whole units, an address is a     *)
(* number of the pool.  The clients (external) follow RFC 2131: a client   *)
(* counts its lease from the moment it sent the REQUEST.  A message, or    *)
(* its answer, may be lost, and a message may be late; one client's        *)
(* messages stay in order.                                                 *)
(* Leases are in memory only, so a behaviour is one run of the server.     *)
(***************************************************************************)
EXTENDS Naturals, FiniteSets

CONSTANTS
  Mac, Ip,                 \* clients; addresses of the pool (numbers)
  Reservation,             \* Mac -> Ip, partial
  Host,                    \* Mac -> the name it offers, or None
  Static,                  \* names the operator configured, and RESERVED_LABELS
  LeaseTime, OfferHold, OfferCap, MaxLeases, MaxEntries,
  MaxTime,                 \* bound
  None

(* A client has an address reserved for it alone.  The operator says so;   *)
(* the program does not check it.                                          *)
DhcpConstants ==
  /\ Ip \subseteq Nat /\ None \notin Ip
  /\ DOMAIN Reservation \subseteq Mac /\ \A m \in DOMAIN Reservation : Reservation[m] \in Ip
  /\ \A m, n \in DOMAIN Reservation : Reservation[m] = Reservation[n] => m = n
  /\ LeaseTime \in Nat \ {0} /\ OfferHold \in Nat

VARIABLES
  now,
  leases,                  \* Scope._leases
  byIp, byName, seen,      \* HostNames
  held,                    \* what each client believes: [ip, until]
  offered,                 \* the address a client was offered
  out                      \* the message on its way to the server, with its time

names == <<byIp, byName, seen>>
clients == <<held, offered, out>>
vars == <<now, leases, names, clients>>

Init ==
  /\ now = 1
  /\ leases = [m \in {} |-> None]
  /\ byIp = [i \in Ip |-> None] /\ byName = [n \in {} |-> None] /\ seen = [i \in Ip |-> 0]
  /\ held = [m \in Mac |-> None] /\ offered = [m \in Mac |-> None]
  /\ out = [m \in Mac |-> None]

Without(f, x) == [y \in DOMAIN f \ {x} |-> f[y]]
With(f, x, v) == [y \in DOMAIN f \cup {x} |-> IF y = x THEN v ELSE f[y]]
Lowest(S) == CHOOSE x \in S : \A y \in S : x <= y

-----------------------------------------------------------------------------
(* Scope                                                                   *)

Reap == IF Cardinality(DOMAIN leases) <= MaxLeases THEN leases
        ELSE [m \in {k \in DOMAIN leases : leases[k].expire > now} |-> leases[m]]

InUse_Leases(t) == {t[m].ip : m \in {k \in DOMAIN t : t[k].expire > now /\ ~t[k].offered}}   \* mutant: an offer does not hold its address
                     \cup {Reservation[m] : m \in DOMAIN Reservation}
InUse(t) == {t[m].ip : m \in {k \in DOMAIN t : t[k].expire > now}}
              \cup {Reservation[m] : m \in DOMAIN Reservation}

Offers(t) == Cardinality({m \in DOMAIN t : t[m].offered /\ t[m].expire > now})

Grant(ip, offer) ==
  [ip |-> ip, offered |-> offer,
   expire |-> now + IF offer /\ OfferHold < LeaseTime THEN OfferHold ELSE LeaseTime]

(* The lease allocate returns, None when there is none to give.            *)
Allocate(t, m, requested, offer) ==
  LET live == m \in DOMAIN t /\ t[m].expire > now
      free == Ip \ InUse(t)
  IN IF offer /\ live THEN t[m]
     ELSE IF m \in DOMAIN Reservation THEN Grant(Reservation[m], offer)
     ELSE IF live THEN Grant(t[m].ip, offer)
     ELSE IF offer /\ Offers(t) >= OfferCap THEN None
     ELSE IF requested \in free THEN Grant(requested, offer)
     ELSE IF free # {} THEN Grant(Lowest(free), offer)
     ELSE None

Granted(t, m, lease) == IF lease = None THEN t ELSE With(t, m, lease)

-----------------------------------------------------------------------------
(* HostNames.  Dropping is what forget does, for a set of addresses.       *)

Expired(ip) == now > seen[ip] + LeaseTime

Forgotten(ips) ==
  [ip   |-> [i \in Ip |-> IF i \in ips THEN None ELSE byIp[i]],
   name |-> [n \in {k \in DOMAIN byName : byName[k] \notin ips \/ byIp[byName[k]] # k} |-> byName[n]]]

(* register, with the eviction at its end.                                 *)
Register(ip, label) ==
  LET taken == IF label \in DOMAIN byName THEN byName[label] ELSE None
      stale == IF taken \notin {None, ip} /\ Expired(taken) THEN {taken} ELSE {}
      f == Forgotten(stale)
      renamed == IF f.ip[ip] = None THEN f.name ELSE Without(f.name, f.ip[ip])
      ips == [f.ip EXCEPT ![ip] = label]
      at == [i \in Ip |-> IF i = ip THEN now ELSE IF i \in stale THEN 0 ELSE seen[i]]
      full == {i \in Ip : ips[i] # None}
  IN IF label = None \/ label \in Static \/ (taken \notin {None, ip} /\ stale = {})
     THEN UNCHANGED names
     ELSE IF Cardinality(full) <= MaxEntries
             THEN byIp' = ips /\ byName' = With(renamed, label, ip) /\ seen' = at
             ELSE \E old \in {i \in full : \A j \in full : at[i] <= at[j]} :
                    /\ byIp' = [ips EXCEPT ![old] = None]
                    /\ byName' = Without(With(renamed, label, ip), ips[old])
                    /\ seen' = [at EXCEPT ![old] = 0]

(* on_lease_end.                                                           *)
LeaseEnds(ip) ==
  /\ byIp' = Forgotten({ip}).ip
  /\ byName' = Forgotten({ip}).name
  /\ seen' = [seen EXCEPT ![ip] = 0]

-----------------------------------------------------------------------------
(* build_reply, one disjunct per message type; heard: the answer arrives.  *)

Answer(m, kind, ip, heard) ==
  /\ offered' = IF heard THEN [offered EXCEPT ![m] = IF kind = "offer" THEN ip ELSE None] ELSE offered
  /\ held' = IF ~heard THEN held
             ELSE [held EXCEPT ![m] = CASE kind = "ack" -> [ip |-> ip, until |-> out[m].sent + LeaseTime]
                                        [] kind = "nak" -> None
                                        [] OTHER -> @]

OnDiscover(m, heard) ==
  LET t == Reap
      lease == Allocate(t, m, None, TRUE)
  IN /\ out[m].kind = "discover"
     /\ leases' = Granted(t, m, lease)
     /\ IF lease = None THEN UNCHANGED <<held, offered>> ELSE Answer(m, "offer", lease.ip, heard)
     /\ UNCHANGED names

OnRequest(m, heard) ==
  LET t == Reap
      lease == Allocate(t, m, out[m].ip, FALSE)
  IN /\ out[m].kind = "request"
     /\ IF out[m].server = "other" THEN UNCHANGED <<leases, names, held, offered>>
        ELSE /\ leases' = Granted(t, m, lease)
             /\ IF lease = None \/ out[m].ip \notin {None, lease.ip}
                THEN Answer(m, "nak", None, heard) /\ UNCHANGED names
                ELSE Answer(m, "ack", lease.ip, heard) /\ Register(lease.ip, Host[m])

(* RELEASE, and DECLINE, which drops the lease the same way.               *)
OnRelease(m) ==
  /\ out[m].kind = "release"
  /\ IF m \in DOMAIN leases /\ leases[m].ip = out[m].ip
     THEN leases' = Without(leases, m) /\ LeaseEnds(out[m].ip)
     ELSE UNCHANGED <<leases, names>>
  /\ UNCHANGED <<held, offered>>

Serve(m) ==
  /\ out[m] # None
  /\ \/ \E heard \in BOOLEAN : OnDiscover(m, heard) \/ OnRequest(m, heard)
     \/ OnRelease(m)
  /\ out' = [out EXCEPT ![m] = None]
  /\ UNCHANGED now

-----------------------------------------------------------------------------
(* The clients and the network (external).                                 *)

Holds(m) == held[m] # None

Send(m, msg) ==
  /\ out[m] = None
  /\ out' = [out EXCEPT ![m] = msg]
  /\ UNCHANGED <<now, leases, names>>

Msg(kind, ip, server) == [kind |-> kind, ip |-> ip, server |-> server, sent |-> now]

Discover(m) == ~Holds(m) /\ Send(m, Msg("discover", None, None)) /\ UNCHANGED <<held, offered>>

Select(m) ==
  /\ offered[m] # None
  /\ \E s \in {"us", "other"} : Send(m, Msg("request", offered[m], s))
  /\ offered' = [offered EXCEPT ![m] = None]
  /\ UNCHANGED held

Reboot(m) ==       \* asks for an address it remembers
  /\ ~Holds(m)
  /\ \E ip \in Ip : Send(m, Msg("request", ip, None))
  /\ UNCHANGED <<held, offered>>

Renew(m) == Holds(m) /\ Send(m, Msg("request", None, None)) /\ UNCHANGED <<held, offered>>

GiveBack(m) ==     \* RELEASE or DECLINE
  /\ Holds(m)
  /\ Send(m, Msg("release", held[m].ip, None))
  /\ held' = [held EXCEPT ![m] = None]
  /\ UNCHANGED offered

Lose(m) ==
  /\ out[m] # None
  /\ out' = [out EXCEPT ![m] = None]
  /\ UNCHANGED <<now, leases, names, held, offered>>

(* Time passes; a client stops using what has run out.                     *)
Tick ==
  /\ now < MaxTime
  /\ now' = now + 1
  /\ held' = [m \in Mac |-> IF held[m] # None /\ held[m].until <= now' THEN None ELSE held[m]]
  /\ UNCHANGED <<leases, names, offered, out>>

Next ==
  \/ \E m \in Mac : Serve(m)
  \/ \E m \in Mac : Discover(m) \/ Select(m) \/ Reboot(m) \/ Renew(m) \/ GiveBack(m)
  \/ \E m \in Mac : Lose(m)
  \/ Tick

Spec == Init /\ [][Next]_vars

-----------------------------------------------------------------------------
(* No two clients use one address: not after an offer that ran out, a lost *)
(* ACK, a late RELEASE, a NAK that left a grant behind (Scope.allocate).   *)
OneHolder == \A m, n \in Mac : m # n /\ Holds(m) /\ Holds(n) => held[m].ip # held[n].ip

(* A name that resolves is the name of the device the address is leased    *)
(* to; only in the instant a lease runs out may its name still be there    *)
(* (HostNames._expired against Scope._in_use).                             *)
NamesFollowLeases ==
  \A n \in DOMAIN byName :
    LET ip == byName[n]
    IN now < seen[ip] + LeaseTime =>
         \E m \in DOMAIN leases : leases[m].ip = ip /\ leases[m].expire > now /\ ~leases[m].offered /\ Host[m] = n

=============================================================================
