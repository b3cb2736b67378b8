------------------------------- MODULE Denial -------------------------------
(***************************************************************************)
(* What a set of NSEC or NSEC3 records proves, against what is true of the *)
(* zone that published them.                                               *)
(*                                                                         *)
(* Source: trench/resolver/dnssec/nsec.py and _proves_denial of chain.py.  *)
(* A name is the sequence of its labels below the apex, the one next to    *)
(* the apex first, so canonical order is lexicographic order; label 1 is   *)
(* the asterisk.  Bitmaps are sets of types, and the hash is any injective *)
(* function.  The chains are those trench/auth_zone/sign/signer.py builds; *)
(* the zones of others also leave unsigned delegations out (OptOut).       *)
(***************************************************************************)
EXTENDS Naturals, Sequences, FiniteSets, SequencesExt

CONSTANTS
  Label,         \* labels, 1 is "*"
  Depth,         \* bound: labels in a name
  Kinds,         \* what may be published at a name
  Hashes,        \* hash functions: name -> number
  MaxNames       \* bound: names in the zone

Star == 1
Apex == <<>>
(* No name lies below an asterisk.                                         *)
Names == {n \in UNION {[1 .. d -> Label] : d \in 0 .. Depth} :
            \A i \in 1 .. Len(n) - 1 : n[i] # Star}

VARIABLES
  zone,      \* name -> the kind of its records
  Hash,      \* the zone's hash
  OptOut     \* unsigned delegations are left out of the NSEC3 chain

vars == <<zone, Hash, OptOut>>

Within(n, z) == IsPrefix(z, n)
Parent(n) == Front(n)
Wild(n) == Append(n, Star)

-----------------------------------------------------------------------------
(* The zone (external).                                                    *)

Bits(k) ==
  CASE k = "apex" -> {"SOA", "NS"} [] k = "host" -> {"A"} [] k = "text" -> {"TXT"}
    [] k = "cut" -> {"NS"} [] k = "secure" -> {"NS", "DS"} [] k = "cname" -> {"CNAME"}
    [] k = "dname" -> {"DNAME"} [] OTHER -> {}
Kind(n) == IF n \in DOMAIN zone THEN zone[n] ELSE "empty"
Opaque(k) == k \in {"cut", "secure", "dname"}      \* nothing of the zone is below

Init == zone = [n \in {Apex} |-> "apex"] /\ Hash \in Hashes /\ OptOut \in BOOLEAN
Publish(n, k) ==
  /\ Cardinality(DOMAIN zone) < MaxNames
  /\ n \in Names \ DOMAIN zone
  /\ \A m \in DOMAIN zone : /\ Within(n, m) => zone[m] # "dname"
                            /\ k = "dname" => ~Within(m, n)
  /\ n[Len(n)] = Star => ~Opaque(k)
  /\ zone' = [m \in DOMAIN zone \cup {n} |-> IF m = n THEN k ELSE zone[m]]
  /\ UNCHANGED <<Hash, OptOut>>
Next == \E n \in Names \ {Apex}, k \in Kinds : Publish(n, k)
Spec == Init /\ [][Next]_vars

(* Names below a cut are glue: the child's, neither signed nor chained.    *)
Occluded(n) == \E p \in Prefixes(n) \ {n} : Kind(p) \in {"cut", "secure"}
ChainNames == {n \in DOMAIN zone : ~Occluded(n)}
Exists(n) == \E m \in ChainNames : Within(m, n)

(* What the zone says about a question (RFC 4592): "other" when the names  *)
(* are not its own to speak for.                                           *)
Truth(q, t) ==
  LET above == {p \in Prefixes(q) \ {q} : Opaque(Kind(p))}
      ce == CHOOSE p \in Prefixes(q) : Exists(p) /\ \A r \in Prefixes(q) : Exists(r) => Len(r) <= Len(p)
      says(n) == IF Bits(Kind(n)) \cap {t, "CNAME"} = {} THEN "nodata" ELSE "data"
  IN IF above # {} THEN "other"
     ELSE IF Exists(q)
     THEN IF Kind(q) \in {"cut", "secure"} /\ t # "DS" THEN "other" ELSE says(q)
     ELSE IF Exists(Wild(ce)) THEN says(Wild(ce)) ELSE "nxdomain"

-----------------------------------------------------------------------------
(* Order, and the gap between two names.                                   *)

Before(a, b) ==         \* name_lt
  LET i == CHOOSE j \in 1 .. Len(a) + 1 :
             /\ \A k \in 1 .. j - 1 : k <= Len(b) /\ a[k] = b[k]
             /\ j > Len(a) \/ j > Len(b) \/ a[j] # b[j]
  IN IF i <= Len(a) /\ i <= Len(b) THEN a[i] < b[i] ELSE Len(a) < Len(b)

Covers(owner, next, q) ==
  IF Before(owner, next) THEN Before(owner, q) /\ Before(q, next)
  ELSE Before(owner, q) \/ Before(q, next)

(* The NSEC chain: who comes after whom.                                   *)
NsecChain ==
  LET S == ChainNames
      after(n) == {m \in S : Before(n, m)}
      next(n) == IF after(n) = {} THEN Apex
                 ELSE CHOOSE m \in after(n) : \A o \in after(n) : o = m \/ Before(m, o)
  IN {[owner |-> n, next |-> next(n), bits |-> Bits(zone[n])] : n \in S}

(* The NSEC3 chain, of every name that exists: by hash.                    *)
Nsec3Chain ==
  LET S == {n \in Names : Exists(n) /\ ~(OptOut /\ Kind(n) = "cut")}
      larger(n) == {m \in S : Hash[m] > Hash[n]}
      least(T) == CHOOSE m \in T : \A o \in T : Hash[m] <= Hash[o]
      next(n) == IF larger(n) = {} THEN least(S) ELSE least(larger(n))
  IN {[hash |-> Hash[n], next |-> Hash[next(n)], bits |-> Bits(Kind(n)), optout |-> OptOut] : n \in S}

-----------------------------------------------------------------------------
(* NSEC.                                                                   *)

Delegation(r) == "NS" \in r.bits /\ "SOA" \notin r.bits
CutsOff(r, n) == n # r.owner /\ Within(n, r.owner) /\ (Delegation(r) \/ "DNAME" \in r.bits)
ProvesGap(r, n) == Covers(r.owner, r.next, n) /\ ~CutsOff(r, n)
Covered(n, S) == \E r \in S : ProvesGap(r, n)
CommonSuffix(a, b) == LongestCommonPrefix({a, b})

NsecNodata(q, t, S) ==
  \E r \in S : r.owner = q /\ ~Delegation(r) /\ r.bits \cap {t, "CNAME"} = {}

(* The closest encloser is the deeper of the ancestors that the two ends   *)
(* of the gap share with the name; its wildcard must be absent too.        *)
NsecNxdomain_NameOnly(q, S) == Covered(q, S)      \* mutant: the wildcard is not looked for

NsecNxdomain(q, S) ==
  \E r \in S :
    /\ ProvesGap(r, q)
    /\ LET a == CommonSuffix(r.owner, q)
           b == CommonSuffix(r.next, q)
           ce == IF Len(a) >= Len(b) THEN a ELSE b
       IN /\ Len(ce) < Len(q)
          /\ \A x \in S : x.owner # Wild(ce)
          /\ Covered(Wild(ce), S)

NsecWildcardNodata(q, t, S) ==
  \E r \in S :
    /\ r.owner # Apex /\ Last(r.owner) = Star
    /\ Within(q, Parent(r.owner)) /\ q # Parent(r.owner)
    /\ r.bits \cap {t, "CNAME"} = {}
    /\ Covered(q, S)

NsecWildcardExpansion(q, wild, S) ==
  Within(q, Parent(wild)) /\ q # Parent(wild) /\ Covered(q, S)

NsecDsDenial(c, S) ==
  IF \E r \in S : r.owner = c
  THEN LET r == CHOOSE x \in S : x.owner = c IN
       IF r.bits \cap {"DS", "SOA"} # {} THEN "none"
       ELSE IF "NS" \in r.bits THEN "insecure" ELSE "nocut"
  ELSE IF Covered(c, S) THEN "nocut" ELSE "none"

-----------------------------------------------------------------------------
(* NSEC3.                                                                  *)

Between(lo, x, hi) == IF lo < hi THEN lo < x /\ x < hi ELSE x > lo \/ x < hi
Match(n, S) == {r \in S : r.hash = Hash[n]}
Cover(n, S) == {r \in S : Between(r.hash, Hash[n], r.next)}
GapProven(n, S) == Cover(n, S) # {} /\ \A r \in Cover(n, S) : ~r.optout

(* The deepest ancestor with a record, unless the zone ends there; and the *)
(* name one label below it.                                                *)
ClosestEncloser(q, S) ==
  LET found == {p \in Prefixes(q) \ {q} : Match(p, S) # {}}
      ce == CHOOSE p \in found : \A x \in found : Len(x) <= Len(p)
  IN IF found = {} \/ (\E r \in Match(ce, S) : Delegation(r) \/ "DNAME" \in r.bits)
     THEN {} ELSE {ce}
NextCloser(q, ce) == SubSeq(q, 1, Len(ce) + 1)

Nsec3Nodata(q, t, S) ==
  IF Match(q, S) # {}
  THEN \A r \in Match(q, S) : ~Delegation(r) /\ r.bits \cap {t, "CNAME"} = {}
  ELSE \E ce \in ClosestEncloser(q, S) :
         /\ GapProven(NextCloser(q, ce), S)
         /\ \E r \in Match(Wild(ce), S) : r.bits \cap {t, "CNAME"} = {}

Nsec3Nxdomain(q, S) ==
  \E ce \in ClosestEncloser(q, S) :
    /\ GapProven(NextCloser(q, ce), S)
    /\ Match(Wild(ce), S) = {} /\ GapProven(Wild(ce), S)

Nsec3WildcardExpansion(q, wild, S) ==
  Within(q, Parent(wild)) /\ q # Parent(wild) /\ GapProven(NextCloser(q, Parent(wild)), S)

Nsec3DsDenial(c, S) ==
  IF Match(c, S) # {}
  THEN LET r == CHOOSE x \in Match(c, S) : TRUE IN
       IF r.bits \cap {"DS", "SOA"} # {} THEN "none"
       ELSE IF "NS" \in r.bits THEN "insecure" ELSE "nocut"
  ELSE IF Cover(c, S) = {} THEN "none"
  ELSE IF \E r \in Cover(c, S) : r.optout THEN "insecure" ELSE "nocut"

(* _proves_denial, of each of the two kinds of records.                    *)
NsecProves(q, t, nx, S) ==
  IF t = "DS" /\ ~nx THEN NsecDsDenial(q, S) # "none"
  ELSE IF nx THEN NsecNxdomain(q, S)
  ELSE NsecNodata(q, t, S) \/ NsecWildcardNodata(q, t, S)
Nsec3Proves(q, t, nx, S) ==
  IF t = "DS" /\ ~nx THEN Nsec3DsDenial(q, S) # "none"
  ELSE IF nx THEN Nsec3Nxdomain(q, S)
  ELSE Nsec3Nodata(q, t, S)

-----------------------------------------------------------------------------
Below == Names \ {Apex}

(* No selection of the records a zone has published proves a name absent   *)
(* that the zone, its wildcards included, answers for or has delegated.    *)
NameDenialsAreTrue ==
  \A q \in Below :
    /\ \A S \in SUBSET NsecChain : NsecNxdomain(q, S) => Truth(q, "A") = "nxdomain"
    /\ \A S \in SUBSET Nsec3Chain :
         /\ Nsec3Nxdomain(q, S) => Truth(q, "A") = "nxdomain"
         /\ Nsec3Nodata(q, "A", S) => Truth(q, "A") = "nodata"

(* What is concluded from an absent DS: "insecure" only of an unsigned     *)
(* delegation, or of a gap declared opt-out; "nocut" only where there is   *)
(* no delegation at all.                                                   *)
DsDenialsAreTrue ==
  \A c \in {n \in Below : \A p \in Prefixes(n) \ {n} : ~Opaque(Kind(p))} :
    /\ \A S \in SUBSET NsecChain :
         /\ NsecDsDenial(c, S) = "insecure" => Kind(c) = "cut"
         /\ NsecDsDenial(c, S) = "nocut" => Kind(c) \notin {"cut", "secure"}
    /\ \A S \in SUBSET Nsec3Chain :
         /\ Nsec3DsDenial(c, S) = "insecure" => Kind(c) = "cut" \/ OptOut
         /\ Nsec3DsDenial(c, S) = "nocut" => Kind(c) \notin {"cut", "secure"}

(* What a selection of genuine records proves is true.                     *)
DenialsAreTrue == NameDenialsAreTrue /\ DsDenialsAreTrue

=============================================================================
