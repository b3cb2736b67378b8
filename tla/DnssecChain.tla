---------------------------- MODULE DnssecChain ----------------------------
(***************************************************************************)
(* The chain of trust: the descent from the root anchor to the zone that   *)
(* may sign an answer, what it remembers on the way, and the verdict on an *)
(* answer that runs over aliases.                                          *)
(*                                                                         *)
(* Source: trench/resolver/dnssec/{chain,validate,keys,anchors}.py and     *)
(* _apply_validation of trench/resolver/recursive.py.  The zones are       *)
(* external: they roll their keys, become signed or unsigned, and sign     *)
(* what they publish for Life units of time; whatever was ever signed can  *)
(* be replayed, and the zone Faulty signs anything with its own key.  What *)
(* an NSEC or NSEC3 record proves is the subject of Denial.                *)
(***************************************************************************)
EXTENDS Naturals, Sequences, FiniteSets, SequencesExt

CONSTANTS
  Name,          \* names as label sequences, root first
  Hosts,         \* the owners of the data clients ask for
  Answers,       \* what is asked: the owners on the way, aliases first
  Start,         \* the zone cuts to begin with
  Faulty,        \* a signed zone that signs anything
  AnchorLines,   \* the lines a trust anchor file may hold: [owner, key, good]
  MaxKey,        \* bound: keys a zone rolls through
  Life,          \* how long a signature is valid
  Ttls,          \* the TTLs replies carry
  MaxTtl,        \* MAX_TRUST_TTL
  MaxQueries,    \* max_chain_queries
  MaxTime,       \* bound
  MaxChanges,    \* bound: changes in the zones
  None

Root == <<>>
Pins == {1}                     \* ROOT_ANCHORS
StrayKey == MaxKey + 1
Keys == 0 .. StrayKey            \* 0: a root key that has been revoked
Verdict == [exp : Nat, st : {"secure", "insecure"}, zone : Name, keys : SUBSET Keys]

(* The file names the root's own key, whatever else is in it.              *)
ChainConstants ==
  /\ \A n \in Name : n \in Seq(UNION {Range(m) : m \in Name}) /\ Prefixes(n) \subseteq Name
  /\ Root \in Name /\ Faulty \in Name \ {Root} /\ Hosts \subseteq Name
  /\ \A a \in Answers : a \in Seq(Hosts) /\ a # <<>>
  /\ \A st \in Start : st \in [Name -> {"nocut", "unsigned", "signed", "alien"}] /\ st[Root] # "nocut"
  /\ \A l \in AnchorLines : l.owner = Root /\ l.good => l.key \in Pins
  /\ MaxKey \in Nat /\ Life \in Nat /\ Ttls \subseteq Nat /\ MaxTtl \in Nat /\ MaxQueries \in Nat
  /\ None \notin Verdict \cup {"ad", "plain"}

VARIABLES
  now,
  stat,       \* zone cuts: name -> "nocut", "unsigned", "signed" or "alien" (an algorithm not implemented)
  key,        \* zone -> the key it signs with
  past,       \* what was signed once and is no longer published: [fact, exp]
  changes,
  anchors,    \* Validator.anchors, as key numbers
  state,      \* Validator._state: name -> [exp, st, zone, keys] or None
  keys,       \* Validator._keys: <<zone, DS>> -> expiry
  task,       \* _apply_validation under way
  out         \* the outcome of the latest: "ad", "plain", "servfail" or, unvalidated with CD set, "cd"

world == <<stat, key, past, changes>>
vars == <<now, world, anchors, state, keys, task, out>>

Within(n, z) == IsPrefix(z, n)

-----------------------------------------------------------------------------
(* What the zones sign (external).                                         *)

(* Of a DS or DNSKEY record: val "key", and the key it is about.           *)
Fact(kind, at, val, about, zone, k) ==
  [kind |-> kind, at |-> at, val |-> val, about |-> about, zone |-> zone, key |-> k]

Encloser(st, n) ==
  LET cuts == {p \in Prefixes(n) : st[p] # "nocut"} IN
  CHOOSE z \in cuts : \A y \in cuts : Len(y) <= Len(z)
Signs(st, z) == \A p \in Prefixes(z) : st[p] \in {"signed", "nocut"}

DsVal(s) == CASE s = "signed" -> "key" [] s = "unsigned" -> "insecure" [] OTHER -> s
Published(st, k) ==
  {Fact("DS", n, DsVal(st[n]), k[n], Encloser(st, Front(n)), k[Encloser(st, Front(n))]) :
     n \in {m \in Name \ {Root} : Signs(st, Encloser(st, Front(m)))}}
  \cup {Fact("DNSKEY", n, "key", k[n], n, k[n]) : n \in {m \in Name : st[m] = "signed" /\ Signs(st, m)}}
  \cup {Fact("data", n, "true", 0, Encloser(st, n), k[Encloser(st, n)]) :
          n \in {m \in Hosts : Signs(st, Encloser(st, m))}}

(* What can be signed without being true: by the zone Faulty in its own name *)
(* about anybody else, or in the name of the root.                         *)
Stray ==
  {Fact(x[1], n, x[2], 0, Faulty, StrayKey) :
     x \in {<<"data", "false">>, <<"DS", "insecure">>}, n \in {m \in Name \ {Root} : ~Within(m, Faulty)}}
  \cup {Fact("DNSKEY", Root, "key", k, Root, k) : k \in {0, StrayKey}}
  \cup {Fact("DS", n, "insecure", 0, Root, k) : n \in Name \ {Root}, k \in {0, StrayKey}}

(* The root signs for a shorter time than the zones below it.              *)
Lasts(f) == now + Life + 2 * Len(f.zone)

(* Everything there is to answer with, and until when it verifies.         *)
Ever == past \cup {[fact |-> f, exp |-> Lasts(f)] : f \in Published(stat, key) \cup Stray}

Change(st, k) ==
  /\ changes < MaxChanges
  /\ changes' = changes + 1
  /\ stat' = st /\ key' = k
  /\ past' = {p \in past : p.fact \notin Published(st, k)} \cup
             {[fact |-> f, exp |-> Lasts(f)] : f \in Published(stat, key) \ Published(st, k)}
  /\ UNCHANGED <<now, anchors, state, keys, task, out>>

Roll(z) == stat[z] = "signed" /\ key[z] < MaxKey /\ Change(stat, [key EXCEPT ![z] = @ + 1])
Redelegate(z, s) == stat[z] # s /\ Change([stat EXCEPT ![z] = s], key)

Tick ==
  /\ now < MaxTime
  /\ now' = now + 1
  /\ UNCHANGED <<world, anchors, state, keys, task, out>>

-----------------------------------------------------------------------------
(* The anchors: those of the file for the root itself, read whole and not  *)
(* withdrawn, or the compiled-in ones when it yields none.                 *)

ParseAnchors(lines) == {l.key : l \in {x \in lines : x.owner = Root /\ x.good}}
TrustAnchors(lines) == IF ParseAnchors(lines) = {} THEN Pins ELSE ParseAnchors(lines)

Init ==
  /\ now = 0
  /\ stat \in Start
  /\ key = [n \in Name |-> IF n = Faulty THEN StrayKey ELSE 1]
  /\ past = {} /\ changes = 0
  /\ \E lines \in SUBSET AnchorLines : anchors = TrustAnchors(lines)
  /\ state = [n \in Name |-> None]
  /\ keys = [x \in Name \X Keys |-> 0]
  /\ task = None
  /\ out = None

-----------------------------------------------------------------------------
(* _apply_validation: one RRset after the other.                           *)

Hop == task.hops[task.i]

(* _trust_via_signer: the deepest zone that a signature names.  A          *)
(* signature that is merely listed can only make it deeper.                *)
Targets_Signer(h) ==   \* mutant: whatever zone signed it
  IF h.got # None THEN {h.got.fact.zone} ELSE Prefixes(h.owner)

Targets(h) ==
  {p \in Prefixes(h.owner) :
     h.got # None /\ Within(h.owner, h.got.fact.zone) => Within(p, h.got.fact.zone)}

(* _cached, from the target upward.                                        *)
Live(n) == state[n] # None /\ state[n].exp > now
Known(target) == {p \in Prefixes(target) : Live(p)}
Deepest(S) == CHOOSE p \in S : \A q \in S : Len(q) <= Len(p)
Purged(target) ==
  [n \in Name |-> IF n \in Prefixes(target) /\ ~Live(n)
                     /\ \A p \in Known(target) : Len(n) > Len(p)
                  THEN None ELSE state[n]]

Enter(hops, i, result, began) ==
  \E target \in Targets(hops[i]) :
    LET hit == Known(target) IN
    /\ state' = Purged(target)
    /\ task' = [hops |-> hops, i |-> i, result |-> result, began |-> began, target |-> target,
                queries |-> MaxQueries,
                pc  |-> IF hit = {} THEN "keys" ELSE "walk",
                at  |-> IF hit = {} THEN Root ELSE Deepest(hit),
                cur |-> IF hit = {} THEN None ELSE state[Deepest(hit)],
                ds  |-> IF hit = {} THEN anchors ELSE {},
                exp |-> IF hit = {} THEN now + MaxTtl ELSE 0]

Begin(a) ==
  /\ task = None
  /\ \E got \in [1 .. Len(a) -> {None} \cup {e \in Ever : e.fact.kind = "data"}] :
       /\ \A i \in 1 .. Len(a) : got[i] # None => got[i].fact.at = a[i]
       /\ Enter([i \in 1 .. Len(a) |-> [owner |-> a[i], got |-> got[i]]], 1, "secure", now)
  /\ out' = None
  /\ UNCHANGED <<now, world, anchors, keys>>

(* A verdict on one RRset, and on the answer so far: it is as good as its  *)
(* weakest part.  Bogus is SERVFAIL, unless the message has CD set, which  *)
(* the server that sent it decides: then it is handed out as it came, but  *)
(* for AD.                                                                 *)
Judged(r) ==
  LET sofar == IF r = "bogus" \/ task.result = "secure" THEN r ELSE task.result IN
  IF sofar = "bogus" \/ task.i = Len(task.hops)
  THEN /\ \E cd \in BOOLEAN :
            out' = CASE sofar = "secure" -> "ad" [] sofar = "insecure" -> "plain"
                     [] OTHER -> IF cd THEN "cd" ELSE "servfail"
       /\ task' = None
       /\ UNCHANGED state
  ELSE Enter(task.hops, task.i + 1, sofar, task.began) /\ UNCHANGED out

Raise == Judged("bogus")

(* _Work: one more question, out of the budget of this validation.         *)
Asks(pc) ==
  IF task.queries = 0 THEN Raise
  ELSE /\ task' = [task EXCEPT !.pc = pc, !.queries = @ - 1]
       /\ UNCHANGED <<state, out>>

-----------------------------------------------------------------------------
(* The descent.                                                            *)

(* _verify: signed by the zone the descent reached, with one of its keys,  *)
(* and the signature is in its validity period.                            *)
WithinValidity(e) == now <= e.exp
SignedBy(e, zone, ks) == e # None /\ e.fact.zone = zone /\ e.fact.key \in ks
Verifies(e, zone, ks) == SignedBy(e, zone, ks) /\ WithinValidity(e)
Expiry(e, ttl) ==        \* _expiry
  LET until == IF e.exp < now + ttl THEN e.exp ELSE now + ttl IN
  IF until < now + MaxTtl THEN until ELSE now + MaxTtl
Least(a, b) == IF a < b THEN a ELSE b

Stored(n, e) == IF e.exp <= now THEN state ELSE [state EXCEPT ![n] = e]
Entry(exp, st, zone, ks) == [exp |-> exp, st |-> st, zone |-> zone, keys |-> ks]

(* _trust of one more name is decided.                                     *)
Settle(n, e) ==
  /\ state' = Stored(n, e)
  /\ task' = [task EXCEPT !.pc = "walk", !.at = n, !.cur = e, !.ds = {}, !.exp = 0]
  /\ UNCHANGED out

Below == SubSeq(task.target, 1, Len(task.at) + 1)
Fresher(e) == IF task.cur = None THEN e ELSE [e EXCEPT !.exp = Least(@, task.cur.exp)]

Replies(n, kind) == {None} \cup {e \in Ever : e.fact.kind = kind /\ e.fact.at = n}

Walk ==
  /\ task # None /\ task.pc = "walk"
  /\ \/ /\ task.at = task.target
        /\ IF task.cur.st # "secure" THEN Judged("insecure")
           ELSE IF Verifies(Hop.got, task.cur.zone, task.cur.keys) THEN Judged("secure")
           ELSE Judged("bogus")
     \/ /\ task.at # task.target /\ task.cur.st # "secure"
        /\ Settle(Below, task.cur)
     \/ /\ task.at # task.target /\ task.cur.st = "secure"
        /\ Asks("ds")
  /\ UNCHANGED <<now, world, anchors, keys>>

(* _delegation: the DS set of the child, or the proof that there is none,  *)
(* signed by the zone the descent has reached.                             *)
DsReply ==
  /\ task # None /\ task.pc = "ds"
  /\ \E e \in Replies(Below, "DS"), ttl \in Ttls :
       IF ~Verifies(e, task.cur.zone, task.cur.keys) THEN Raise
       ELSE LET exp == Expiry(e, ttl) IN
            CASE e.fact.val = "key" ->
                   /\ task' = [task EXCEPT !.pc = "keys", !.at = Below, !.ds = {e.fact.about}, !.exp = exp]
                   /\ UNCHANGED <<state, out>>
              [] e.fact.val \in {"alien", "insecure"} ->
                   Settle(Below, Fresher(Entry(exp, "insecure", Below, {})))
              [] e.fact.val = "nocut" ->
                   Settle(Below, Fresher(Entry(exp, "secure", task.cur.zone, task.cur.keys)))
  /\ UNCHANGED <<now, world, anchors, keys>>

(* _keys_exp: the zone's keys for this DS set, remembered or asked for.    *)
Anchored(k, exp) == Settle(task.at, Fresher(Entry(Least(exp, task.exp), "secure", task.at, {k})))

KeysFor ==
  /\ task # None /\ task.pc = "keys"
  /\ LET held == {k \in task.ds : keys[<<task.at, k>>] > now} IN
     IF held # {}
     THEN \E k \in held : Anchored(k, keys[<<task.at, k>>])
     ELSE Asks("dnskey")
  /\ UNCHANGED <<now, world, anchors, keys>>

DnskeyReply ==
  /\ task # None /\ task.pc = "dnskey"
  /\ \E e \in Replies(task.at, "DNSKEY"), ttl \in Ttls :
       IF Verifies(e, task.at, task.ds)
       THEN /\ keys' = IF Expiry(e, ttl) <= now THEN keys
                       ELSE [keys EXCEPT ![<<task.at, e.fact.about>>] = Expiry(e, ttl)]
            /\ Anchored(e.fact.about, Expiry(e, ttl))
       ELSE Raise /\ UNCHANGED keys
  /\ UNCHANGED <<now, world, anchors>>

Next ==
  \/ \E z \in Name \ {Root, Faulty} : Roll(z) \/ \E s \in {"nocut", "unsigned", "signed", "alien"} : Redelegate(z, s)
  \/ Tick
  \/ \E a \in Answers : Begin(a)
  \/ Walk \/ DsReply \/ KeysFor \/ DnskeyReply

Spec == Init /\ [][Next]_vars

-----------------------------------------------------------------------------
(* The reference: which keys the root vouches for, by records whose        *)
(* signatures are in force at time t.  There is a chain down to the zone:  *)
(* a key for some of the zones on the way, the root's published under one  *)
(* of the pinned keys, each other under a key that a zone of the chain     *)
(* above it signed for.                                                    *)

InForce(t) == {e.fact : e \in {x \in Ever : x.exp >= t}}

Linked(facts, chain, p) ==
  \E f \in facts :
    /\ f.kind = "DNSKEY" /\ f.at = p /\ f.about = chain[p]
    /\ \/ p = Root /\ f.key \in Pins
       \/ \E d \in facts : /\ d.kind = "DS" /\ d.val = "key" /\ d.at = p /\ d.about = f.key
                          /\ d.zone \in DOMAIN chain \ {p} /\ Within(p, d.zone) /\ chain[d.zone] = d.key
Vouched(facts, z, k) ==
  \E S \in SUBSET Prefixes(z) : \E chain \in [S -> Keys] :
    z \in S /\ chain[z] = k /\ \A p \in S : Linked(facts, chain, p)

(* Which names it vouches for the absence of a signed delegation for.      *)
Unsigned(facts, n) ==
  \E f \in facts : /\ f.kind = "DS" /\ f.at \in Prefixes(n) /\ f.val \in {"alien", "insecure"}
                   /\ f.zone # f.at /\ Within(f.at, f.zone) /\ Vouched(facts, f.zone, f.key)

(* What is concluded was earned.  AD is set only when every RRset on the   *)
(* way is what a zone that encloses its owner signed, with a key the root  *)
(* vouched for since the validation began: not what another zone, or a     *)
(* withdrawn key, signed.  And where the message has CD clear, data that   *)
(* does not validate is handed out only when it was proven that some owner *)
(* on the way lies in an unsigned zone; a stripped signature, an error or  *)
(* a spent budget proves nothing.  Of a message with CD set nothing can be *)
(* said: see the observations in README.md.                                *)
Earned(h) ==
  /\ h.got # None /\ h.got.fact.val = "true"
  /\ Within(h.owner, h.got.fact.zone)
  /\ Vouched(InForce(task.began), h.got.fact.zone, h.got.fact.key)
TrustIsEarned ==
  task # None /\ task' = None =>
    /\ out' = "ad" => \A i \in DOMAIN task.hops : Earned(task.hops[i])
    /\ out' = "plain" => \E i \in DOMAIN task.hops : Unsigned(InForce(task.began), task.hops[i].owner)

=============================================================================
