---------------------------- MODULE MCResolution ----------------------------
(* Finding an answer and believing it, for TLC: the iterative resolver,    *)
(* the chain of trust, and denials of existence between the zones and the  *)
(* validator.  In a behaviour one of them moves, and the others stay in an *)
(* initial state.                                                          *)
EXTENDS Recursive, TLC

CONSTANTS
  TrustName, Hosts, Answers, Start, Stranger, AnchorLines,      \* of DnssecChain
  MaxKey, Life, Ttls, MaxTtl, MaxChainQueries, MaxTime, MaxChanges

VARIABLES
  part,
  now, stat, key, past, changes, anchors, state, keys, task, verdict,
  zone, Hash, OptOut

trust == <<now, stat, key, past, changes, anchors, state, keys, task, verdict>>
denial == <<zone, Hash, OptOut>>

-----------------------------------------------------------------------------
(* Of the resolver: the root delegates e, g and h; the servers of g serve  *)
(* h as well, the name w.g is an alias into e, and the servers of e say    *)
(* what they like about anything.                                          *)
G == <<"g">>
E == <<"e">>
H == <<"h">>
GN == <<"g", "n">>
GW == <<"g", "w">>
EN == <<"e", "n">>
EW == <<"e", "w">>
EWX == <<"e", "w", "x">>
HWX == <<"h", "w", "x">>
A(d) == [type |-> "A", data |-> d]

MCName == {<<>>, G, E, GN, GW, EN, EW, EWX, H, <<"h", "w">>, HWX}
MCCuts == {<<>>, G, E, H}
MCNsOf == [z \in MCCuts |-> IF z = E THEN {EN} ELSE {GN}]
MCHost == [n \in MCName |-> IF n = EN THEN "ae" ELSE IF n = GN THEN "ag" ELSE IF n = HWX THEN "ar" ELSE "none"]
MCServes == ("ar" :> {<<>>}) @@ ("ag" :> {G, H}) @@ ("ae" :> {E})
MCData ==
  (GN :> A("ag")) @@ (EN :> A("ae")) @@ (HWX :> A("ar"))
  @@ (GW :> [type |-> "CNAME", data |-> EW]) @@ [n \in MCName |-> None]

Msg(rc, aa, ans, ns, gl) == [rcode |-> rc, aa |-> aa, ans |-> ans, ns |-> ns, glue |-> gl]
Alias(n) == [owner |-> EWX, type |-> "CNAME", data |-> n]
Address(n) == [owner |-> n, type |-> "A", data |-> "ae"]
OddAnswers ==
  {{}} \cup {{Address(n)} : n \in {GN, EWX, EN}}
       \cup {{Alias(n), Address(GN)} : n \in {GN, GW, EWX}}
       \cup {{Address(EWX), Alias(GN), Address(GN)}}
OddReferrals == {{}} \cup {{[owner |-> z, name |-> n]} : z \in {<<>>, G, E, EW}, n \in {GN, EW}}
OddGlue == {{}} \cup {{[owner |-> n, addr |-> "ae"]} : n \in {GN, EW}}
MCFaultySays ==
  {Msg(rc, aa, a, {}, {}) : rc \in {"noerror", "nxdomain"}, aa \in BOOLEAN, a \in OddAnswers}
  \cup {Msg("noerror", FALSE, {}, s, g) : s \in OddReferrals, g \in OddGlue}
MCAsked == [name : {GW, EWX, HWX}, type : {"A"}] \cup {[name |-> G, type |-> "DS"]}

-----------------------------------------------------------------------------
(* Of the chain of trust: a zone t with the host w, one change of keys or  *)
(* delegations, and beside them a signed zone o that signs anything.       *)
TT == <<"t">>
TW == <<"t", "w">>
TO == <<"o">>
MCTrustName == {<<>>, TT, TW, TO}
MCHosts == {TT, TW}
MCAnswers == {<<TT, TW>>}
MCStart == {[n \in MCTrustName |-> "signed"]}
MCAnchorLines ==
  {[owner |-> <<>>, key |-> 1, good |-> TRUE], [owner |-> <<>>, key |-> 0, good |-> FALSE],
   [owner |-> TO, key |-> 3, good |-> TRUE]}

Trust == INSTANCE DnssecChain WITH
  Name <- TrustName, Faulty <- Stranger, MaxQueries <- MaxChainQueries, out <- verdict

ASSUME TrustAssumption == Trust!ChainConstants

(* Of denials: every zone of two names besides the apex, of up to two      *)
(* labels out of "*" and two others, with a hash that is one-to-one.       *)
Index(n) == IF n = <<>> THEN 0 ELSE IF Len(n) = 1 THEN n[1] ELSE 3 * n[1] + n[2]
Denials == INSTANCE ZoneLookup WITH
  Label <- {1, 2, 3}, Depth <- 2, Kinds <- {"host", "text", "cut", "secure", "dname"},
  Hashes <- {[n \in UNION {[1 .. d -> {1, 2, 3}] : d \in 0 .. 2} |-> (Index(n) * 5) % 13]}, MaxNames <- 3

-----------------------------------------------------------------------------
MCInit ==
  /\ part \in {"recursive", "trust", "denial"}
  /\ Init /\ Trust!Init /\ Denials!Init
  /\ part # "trust" => anchors = {1}
  /\ part # "denial" => OptOut

RecursiveMoves == part = "recursive" /\ UNCHANGED <<part, trust, denial>>
TrustMoves == part = "trust" /\ UNCHANGED <<part, vars, denial>>
DenialMoves == part = "denial" /\ UNCHANGED <<part, vars, trust>>

MCNext == (RecursiveMoves /\ Next) \/ (TrustMoves /\ Trust!Next) \/ (DenialMoves /\ Denials!Next)

(* The fairness of Recursive's LiveSpec, when it is what moves.            *)
MCSpec ==
  /\ MCInit /\ [][MCNext]_<<part, vars, trust, denial>>
  /\ WF_vars(part = "recursive" /\ Resolving)

-----------------------------------------------------------------------------
(* AD is earned, and so is an answer without it whose message has CD clear *)
(* (_apply_validation, Validator).                                         *)
TrustIsEarned == [][Trust!TrustIsEarned]_trust

(* No selection of genuine records proves something false, and what the    *)
(* program's own zones answer passes its validator (nsec.py,               *)
(* Zone.lookup).                                                           *)
DenialsAreTrue == part = "denial" => Denials!DenialsAreTrue /\ Denials!ServedAnswersValidate
=============================================================================
