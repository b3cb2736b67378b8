----------------------------- MODULE MCServices -----------------------------
(* The services beside the resolver, for TLC: the console's logins, the    *)
(* DHCP server, the updater and the certificates.  In a behaviour one of   *)
(* them moves, and the others stay in an initial state.  Safety only, so   *)
(* requests and addresses may be interchanged.                             *)
EXTENDS Auth, TLC

CONSTANTS
  t1, t2, p1, p2, n1, n2,
  Mac, Ip, Reservation, Host, Static,                            \* of Dhcp
  LeaseTime, OfferHold, OfferCap, MaxLeases, MaxEntries, LastTick,
  First, Index, Channel, Mode, CanApply,                         \* of Update
  MaxBuilds, MaxFaults, MaxSaves, MaxAsks, Broken,
  Name, MaxPairs, MaxBoots, Torn                                 \* of Certificates

VARIABLES
  part,
  clock, leases, byIp, byName, seenD, held, offered, out,
  running, installed, disk, updater, state, checking, job, building, builds, faults, saves, asks,
  tls, key, cert, selfKey, selfCert, aged, serves, txt, renewal, pairs, boots

dhcp == <<clock, leases, byIp, byName, seenD, held, offered, out>>
update == <<running, installed, disk, updater, state, checking, job, building, builds, faults, saves, asks>>
certs == <<tls, key, cert, selfKey, selfCert, aged, serves, txt, renewal, pairs, boots>>

Symmetry == Permutations(Task) \cup Permutations(Prefix)

(* Two clients and two addresses, one lease kept: offers, grants, names    *)
(* and expiries all meet their limits.                                     *)
MCReservation == [m \in {} |-> 1]
MCHost == ("a" :> "pc") @@ ("b" :> "tv")
Leases == INSTANCE Dhcp WITH MaxTime <- LastTick, now <- clock, seen <- seenD

ASSUME LeasesAssumption == Leases!DhcpConstants

(* A good release, one whose wheel holds another version, one of another   *)
(* project and one that does not import.                                   *)
R(v, pre, ours, holds, imports) == [v |-> v, pre |-> pre, ours |-> ours, holds |-> holds, imports |-> imports]
MCIndex == {R(2, FALSE, TRUE, 2, TRUE), R(3, FALSE, TRUE, 9, TRUE), R(4, FALSE, FALSE, 4, TRUE), R(5, TRUE, TRUE, 5, FALSE)}
Updates == INSTANCE Update

ASSUME UpdatesAssumption == Updates!UpdateConstants

Certs == INSTANCE Certificates WITH state <- tls, task <- renewal

MCInit ==
  /\ part \in {"auth", "dhcp", "update", "certs"}
  /\ Init /\ Leases!Init /\ Updates!Init /\ Certs!Init
  /\ ~(row.cheap /\ row.secret # 0)          \* a bound
  /\ part # "auth" => ~row.cheap /\ row.secret = 0 /\ DOMAIN sessions = {}

AuthMoves == part = "auth" /\ UNCHANGED <<part, dhcp, update, certs>>
LeasesMove == part = "dhcp" /\ UNCHANGED <<part, vars, update, certs>>
UpdatesMove == part = "update" /\ UNCHANGED <<part, vars, dhcp, certs>>
CertsMove == part = "certs" /\ UNCHANGED <<part, vars, dhcp, update>>

MCNext == \/ AuthMoves /\ Next
          \/ LeasesMove /\ Leases!Next
          \/ UpdatesMove /\ Updates!Next
          \/ CertsMove /\ Certs!Next
MCSpec == MCInit /\ [][MCNext]_<<part, vars, dhcp, update, certs>>

-----------------------------------------------------------------------------
(* No address has two holders, and the names that resolve are those of     *)
(* the lease holders (Scope.grant, HostNames).                             *)
LeasesExclusive == part = "dhcp" => Leases!OneHolder /\ Leases!NamesFollowLeases

(* Nothing unvetted stays installed (Updater.apply).                       *)
InstalledIsVetted == part = "update" => Updates!InstalledIsVetted

(* A renewal leaves nothing half done (AcmeManager, renew).                *)
RenewalsAreWhole == part = "certs" => Certs!RenewalsAreWhole
=============================================================================
