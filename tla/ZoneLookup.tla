---------------------------- MODULE ZoneLookup ----------------------------
(***************************************************************************)
(* What an authoritative zone answers, and the denial records it sends     *)
(* along, against what is true of the zone and what the project's own      *)
(* validator accepts.                                                      *)
(*                                                                         *)
(* Source: trench/auth_zone/zone.py.  The zone, its chains and the         *)
(* validator's rules are those of Denial.  A DNAME is not followed by      *)
(* lookup, so names below one are left out.                                *)
(***************************************************************************)
EXTENDS Denial

(* _delegation: the referral for a name at or below a cut.  A DS question  *)
(* stops above it.                                                         *)
CutAbove(q, t) ==
  {p \in Prefixes(q) \ {Apex} : Kind(p) \in {"cut", "secure"} /\ ~(t = "DS" /\ p = q)}

(* _closest_encloser: the longest part shared with any owner of records.   *)
ClosestOwner(q) ==
  LET shared == {CommonSuffix(q, m) : m \in DOMAIN zone} IN
  CHOOSE p \in shared : \A x \in shared : Len(x) <= Len(p)

(* _answer_at: the type, or the alias at the name, or nothing.             *)
AnswerAt(n, t) == IF Bits(zone[n]) \cap {t, "CNAME"} # {} THEN "data" ELSE "nodata"

Lookup(q, t) ==
  LET ce == ClosestOwner(q) IN
  IF CutAbove(q, t) # {} THEN [rc |-> "other", ce |-> q, wild |-> FALSE]
  ELSE IF q \in DOMAIN zone THEN [rc |-> AnswerAt(q, t), ce |-> q, wild |-> FALSE]
  ELSE IF ce = q THEN [rc |-> "nodata", ce |-> q, wild |-> FALSE]
  ELSE IF Wild(ce) \in DOMAIN zone THEN [rc |-> AnswerAt(Wild(ce), t), ce |-> ce, wild |-> TRUE]
  ELSE [rc |-> "nxdomain", ce |-> ce, wild |-> FALSE]

-----------------------------------------------------------------------------
(* _denial, from the NSEC chain: the record at a name, and the one before  *)
(* it when it has none.                                                    *)
NsecAt(n) == {r \in NsecChain : r.owner = n}
Predecessor(n) ==
  LET chain == NsecChain IN
  {r \in chain : /\ r.owner = Apex \/ Before(r.owner, n)
                 /\ \A x \in chain : Before(x.owner, n) => ~Before(r.owner, x.owner)}

NsecDenial(q, a) ==
  IF a.rc = "nodata" /\ ~a.wild
  THEN IF NsecAt(q) # {} THEN NsecAt(q) ELSE Predecessor(q)
  ELSE Predecessor(q) \cup
       (IF a.rc = "nxdomain" THEN Predecessor(Wild(a.ce))
        ELSE IF a.rc = "nodata" THEN NsecAt(Wild(a.ce)) ELSE {})

(* _nsec3_denial: the encloser, the next closer name and the wildcard.     *)
HashOwner(n) ==
  LET chain == Nsec3Chain
      below == {r \in chain : r.hash < Hash[n]}
      from == IF below = {} THEN chain ELSE below
  IN {r \in from : \A x \in from : x.hash <= r.hash}

Nsec3Denial(q, a) ==
  LET closer == IF a.ce = q THEN q ELSE NextCloser(q, a.ce) IN
  IF a.rc = "nodata" /\ ~a.wild THEN Match(q, Nsec3Chain)
  ELSE IF a.rc = "data" THEN HashOwner(closer)
  ELSE Match(a.ce, Nsec3Chain) \cup HashOwner(closer) \cup
       (IF a.rc = "nxdomain" THEN HashOwner(Wild(a.ce)) ELSE Match(Wild(a.ce), Nsec3Chain))

-----------------------------------------------------------------------------
(* What the validator makes of the answer.                                 *)
NsecAccepts(q, t, a) ==
  LET sent == NsecDenial(q, a) IN
  IF a.rc = "data" THEN a.wild => NsecWildcardExpansion(q, Wild(a.ce), sent)
  ELSE NsecProves(q, t, a.rc = "nxdomain", sent)
Nsec3Accepts(q, t, a) ==
  LET sent == Nsec3Denial(q, a) IN
  IF a.rc = "data" THEN a.wild => Nsec3WildcardExpansion(q, Wild(a.ce), sent)
  ELSE Nsec3Proves(q, t, a.rc = "nxdomain", sent)

(* A zone answers what is true of it, wildcards, empty names and cuts      *)
(* included; and the records it sends for a negative or an expanded answer *)
(* satisfy the validator of the same program.  Two exceptions, where this  *)
(* validator asks for more than any record says: an empty name above       *)
(* others in an NSEC zone, and the DS of a name that only a wildcard two   *)
(* or more labels up answers for in an NSEC3 zone.                         *)
ServedAnswersValidate ==
  \A q \in Below, t \in {"A", "DS"} :
    LET a == Lookup(q, t) IN
    (\A p \in Prefixes(q) \ {q} : Kind(p) # "dname") =>
      /\ a.rc = Truth(q, t)
      /\ a.rc # "other" =>
           /\ NsecAccepts(q, t, a) \/ (Exists(q) /\ Kind(q) = "empty" /\ t # "DS")
           /\ \/ Nsec3Accepts(q, t, a) \/ OptOut
              \/ t = "DS" /\ a.wild /\ q # NextCloser(q, a.ce)

=============================================================================
