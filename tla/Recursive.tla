----------------------------- MODULE Recursive -----------------------------
(***************************************************************************)
(* Resolution from the root: referrals followed down and toward the name,  *)
(* minimised probes, the delegation cache, side resolutions for the        *)
(* addresses of nameservers, and one budget for all of it.                 *)
(*                                                                         *)
(* Source: trench/resolver/recursive.py.  The authoritative servers are    *)
(* external: those of the zone Faulty say anything at all, the others say  *)
(* what is true, or nothing.  A name is the sequence of its labels, root   *)
(* first, so that an ancestor is a prefix.                                 *)
(***************************************************************************)
EXTENDS Naturals, Sequences, FiniteSets, SequencesExt

CONSTANTS
  Name,          \* the names there are, the root <<>> among them
  Cuts,          \* the true zone cuts
  NsOf,          \* zone cut -> the names of its nameservers
  Host,          \* nameserver name -> its true address
  Serves,        \* address -> the zones it is authoritative for
  Data,          \* name -> its true record: [type, data] or None
  RootHints,     \* addresses of the root
  Faulty,        \* the zone whose servers say anything
  FaultySays,    \* the messages they are taken to send
  Asked,         \* what clients ask: [name, type]
  QMin,          \* recursion.qmin
  MaxSteps, MaxCname, MaxQueries, MaxNsDepth, ServersPerStep, MaxZones,
  MaxAsks,       \* bound: client questions
  None

NsTries == 2     \* cut.names[:2]

VARIABLES
  cuts,      \* InfraCache._cuts: zone -> [names, addrs] or None
  addrs,     \* InfraCache._addrs: nameserver -> addresses ({}: nothing cached)
  job,       \* _Job: [queries, late, chasing]
  chain,     \* _resolve_chain: the question, the names seen, the answers
  stack,     \* _resolve_name calls, the innermost last
  out,       \* what the latest question got: [rcode, ans] or None
  asks       \* questions so far

infra == <<cuts, addrs>>
vars == <<infra, job, chain, stack, out, asks>>

Within(n, z) == IsPrefix(z, n)          \* Name.is_subdomain_of
Addr == DOMAIN Serves
FaultyAddr == {a \in Addr : Faulty \in Serves[a]}
Records(ans) ==
  \A r \in ans : r.owner \in Name /\ (r.type = "CNAME" => r.data \in Name)

(* The rest of the namespace: its names have the addresses that Host says, *)
(* and none of its zones is served from an address, or by a name, of the   *)
(* faulty one.                                                             *)
Outside(n) == ~Within(n, Faulty)
Labels == UNION {Range(n) : n \in Name}

ASSUME RecursiveAssumption ==
  /\ \A n \in Name : n \in Seq(Labels) /\ \A k \in 0 .. Len(n) : SubSeq(n, 1, k) \in Name
  /\ <<>> \in Name /\ Faulty \in Name \ {<<>>} /\ Cuts \subseteq Name
  /\ RootHints \cap FaultyAddr = {}
  /\ \A z \in Cuts : NsOf[z] \subseteq Name
  /\ \A z \in Cuts : Outside(z) => \A n \in NsOf[z] : Outside(n) /\ Host[n] \notin FaultyAddr
  /\ \A n \in Name : Data[n] # None =>
       /\ Data[n].type = "CNAME" => Data[n].data \in Name
       /\ Outside(n) /\ Data[n].type = "A" => Data[n].data = Host[n]
  /\ \A m \in FaultySays : Records(m.ans) /\ \A r \in m.ns : r.owner \in Name /\ r.name \in Name
  /\ \A q \in Asked : q.name \in Name
  /\ ServersPerStep \in Nat

Idle == stack = <<>>
Spent == job.queries = 0 \/ job.late
Frame(n, t, d) ==
  LET start == IF t = "DS" /\ n # <<>> THEN Front(n) ELSE n
      known == {z \in Name : Within(start, z) /\ cuts[z] # None /\ cuts[z].addrs # {}}
      z == IF known = {} THEN <<>>
           ELSE CHOOSE x \in known : \A y \in known : Len(y) <= Len(x)
      s == IF known = {} THEN RootHints ELSE {g.addr : g \in cuts[z].addrs}
  IN [name |-> n, type |-> t, depth |-> d, zone |-> z, servers |-> s, probe |-> z,
      qmin |-> QMin, widened |-> FALSE, steps |-> MaxSteps, order |-> None, msg |-> None, ns |-> {}]

Init ==
  /\ cuts = [z \in Name |-> None]
  /\ addrs = [n \in Name |-> {}]
  /\ job = [queries |-> 0, late |-> FALSE, chasing |-> {}]
  /\ chain = None
  /\ stack = <<>>
  /\ out = None
  /\ asks = 0

-----------------------------------------------------------------------------
(* The authorities (external).                                             *)

Fail == [rcode |-> "servfail", aa |-> FALSE, ans |-> {}, ns |-> {}, glue |-> {}]
Says(rc, ans) == [rcode |-> rc, aa |-> TRUE, ans |-> ans, ns |-> {}, glue |-> {}]
Exists(n) == \E m \in Name : Within(m, n) /\ (Data[m] # None \/ m \in Cuts)
Owned(n) == IF Data[n] = None THEN {}
            ELSE {[owner |-> n, type |-> Data[n].type, data |-> Data[n].data]}

(* What the server of zone z says about a question, truthfully: the cut    *)
(* below z on the way to the name, with the glue z has, or what z holds.   *)
Truth(z, n, t) ==
  LET below == {c \in Cuts : c # z /\ Within(c, z) /\ Within(n, c) /\ ~(t = "DS" /\ c = n)}
      top == CHOOSE c \in below : \A d \in below : Len(c) <= Len(d)
  IN IF below # {}
     THEN [rcode |-> "noerror", aa |-> FALSE, ans |-> {},
           ns |-> {[owner |-> top, name |-> x] : x \in NsOf[top]},
           glue |-> {[owner |-> x, addr |-> Host[x]] : x \in {y \in NsOf[top] : Within(y, z)}}]
     ELSE IF t = "DS" THEN Says("noerror", {[owner |-> n, type |-> "DS", data |-> "ds"]})
     ELSE IF Exists(n) THEN Says("noerror", {r \in Owned(n) : r.type \in {t, "CNAME"}})
     ELSE Says("nxdomain", {})

Replies(a, n, t) ==
  LET mine == {z \in Serves[a] : Within(n, z) /\ ~(t = "DS" /\ z = n)} IN
  IF a \in FaultyAddr THEN FaultySays
  ELSE IF mine = {} THEN {Fail}
  ELSE {Truth(CHOOSE z \in mine : \A y \in mine : Len(y) <= Len(z), n, t)}

-----------------------------------------------------------------------------
(* What a message is cut down to, and what it may be taken to say.         *)

(* The names on the CNAME chain that starts at the question.               *)
Linked(ans, n) ==
  LET next(S) == S \cup {r.data : r \in {x \in ans : x.type = "CNAME" /\ x.owner \in S}}
      grow[i \in 0 .. Cardinality(ans) + 1] == IF i = 0 THEN {n} ELSE next(grow[i - 1])
  IN grow[Cardinality(ans) + 1]

Scrub_Unzoned(m, z, n) ==   \* mutant: the answers need only be on the chain
  [m EXCEPT !.ans = {r \in @ : r.owner \in Linked(@, n)},
            !.ns = {r \in @ : Within(r.owner, z)},
            !.glue = {r \in @ : Within(r.owner, z)}]

Scrub(m, z, n) ==
  LET mine == {r \in m.ans : Within(r.owner, z)} IN
  [m EXCEPT !.ans = {r \in mine : r.owner \in Linked(mine, n)},
            !.ns = {r \in @ : Within(r.owner, z)},
            !.glue = {r \in @ : Within(r.owner, z)}]

(* Down and toward: below the zone that was asked, and enclosing the name. *)
DownAndToward(z, n) == {c \in Name : Within(c, z) /\ c # z /\ Within(n, c)}
Referral(m, z, n, t) ==
  LET offered == {r.owner : r \in m.ns} \cap DownAndToward(z, n)
      dz == CHOOSE c \in offered : \A d \in offered : Len(d) <= Len(c)
  IN IF m.ans # {} \/ offered = {} \/ (t = "DS" /\ dz = n) THEN None ELSE dz

Glue(m, names) == {g \in m.glue : g.owner \in names}

-----------------------------------------------------------------------------
(* Calls and returns.                                                      *)

Top == Last(stack)
Goes(f) == stack' = Front(stack) \o <<f>>

StartAsk(q) ==
  /\ Idle /\ asks < MaxAsks
  /\ asks' = asks + 1
  /\ job' = [queries |-> MaxQueries, late |-> FALSE, chasing |-> {}]
  /\ chain' = [name |-> q.name, type |-> q.type, seen |-> {q.name}, ans |-> {}, left |-> MaxCname]
  /\ stack' = <<Frame(q.name, q.type, 0)>>
  /\ out' = None
  /\ UNCHANGED infra

(* _resolve_chain, with what _resolve_name returned: the chain goes on at  *)
(* the target, unless it closes on itself or is too long.                  *)
Servfail == [rcode |-> "servfail", ans |-> {}]
Ends(o) == stack' = <<>> /\ chain' = None /\ out' = o

Hop(m, target) ==
  IF target = None
  THEN Ends(IF m.rcode \in {"noerror", "nxdomain"}
            THEN [rcode |-> m.rcode, ans |-> chain.ans \cup m.ans] ELSE Servfail)
  ELSE IF target \in chain.seen \/ chain.left = 1 THEN Ends(Servfail)
  ELSE /\ chain' = [chain EXCEPT !.seen = @ \cup {target}, !.left = @ - 1,
                       !.ans = @ \cup {r \in m.ans : r.owner = Top.name /\ r.type = "CNAME"}]
       /\ stack' = <<Frame(target, chain.type, 0)>>
       /\ UNCHANGED out

(* _addresses, once the side resolution for a nameserver is back.          *)
Resolved(m) ==
  LET caller == stack[Len(stack) - 1]
      got == {r.data : r \in {x \in m.ans : x.owner = Top.name /\ x.type = "A"}}
  IN /\ job' = [job EXCEPT !.chasing = @ \ {Top.name}]
     /\ addrs' = [addrs EXCEPT ![Top.name] = IF got = {} THEN @ ELSE got]
     /\ stack' = SubSeq(stack, 1, Len(stack) - 2) \o
          <<IF got = {} THEN caller ELSE [caller EXCEPT !.servers = got, !.ns = {}]>>

Return(m, target) ==
  /\ \/ Len(stack) = 1 /\ Hop(m, target) /\ UNCHANGED <<job, addrs>>
     \/ Len(stack) > 1 /\ Resolved(m) /\ UNCHANGED <<chain, out>>
  /\ UNCHANGED <<cuts, asks>>

-----------------------------------------------------------------------------
(* _resolve_name and _ask, packet by packet.                               *)

Question(f) ==
  IF f.qmin /\ Len(f.name) > Len(f.probe) + 1
  THEN [name |-> SubSeq(f.name, 1, Len(f.probe) + 1), type |-> "NS"]
  ELSE [name |-> f.name, type |-> f.type]

(* _order: the best first.  The measured times decide, so it is any order. *)
Orders(S) ==
  {s \in UNION {[1 .. k -> S] : k \in 0 .. ServersPerStep} :
     IsInjective(s) /\ (Len(s) = ServersPerStep \/ Range(s) = S)}

Between(f) == f.order = None /\ f.ns = {}      \* at the head of the loop
Asking(f) == f.order # None /\ f.msg = None

Step ==
  LET f == Top IN
  /\ ~Idle /\ Between(f)
  /\ \/ /\ f.steps > 0 /\ f.servers # {}
        /\ \E s \in Orders(f.servers) : Goes([f EXCEPT !.steps = @ - 1, !.order = s])
        /\ UNCHANGED <<infra, job, chain, out, asks>>
     \/ /\ f.steps = 0 \/ f.servers = {}
        /\ Return(Fail, None)

(* The budget is looked at before every packet.                            *)
GiveUp ==
  /\ ~Idle /\ Asking(Top) /\ (Spent \/ Top.order = <<>>)
  /\ Return(Fail, None)

Asked1(f, m) == Goes([f EXCEPT !.order = Tail(@), !.msg = m])
Sends ==
  /\ ~Idle /\ Asking(Top) /\ ~Spent /\ Top.order # <<>>
  /\ UNCHANGED <<infra, chain, out, asks>>

(* Nothing left the host: the packet is not charged.                       *)
NoRoute == Sends /\ Asked1(Top, None) /\ UNCHANGED job

Charged == job' = [job EXCEPT !.queries = @ - 1]
Silent == Sends /\ Asked1(Top, None) /\ Charged

(* An answer that is useless, or lame, is a reason to ask the next server. *)
Useful(m, f, q) == m.aa \/ Referral(m, f.zone, f.name, q.type) # None
Answer ==
  /\ Sends /\ Charged
  /\ LET f == Top
         q == Question(f)
     IN \E m \in Replies(Head(f.order), q.name, q.type) :
          LET c == Scrub(m, f.zone, q.name) IN
          Asked1(f, IF m.rcode # "servfail" /\ Useful(c, f, q) THEN c ELSE None)

(* put_cut: at max_zones something else goes, which is left open.          *)
PutCut(z, c) ==
  LET held == {y \in Name \ {z} : cuts[y] # None} IN
  \E kept \in SUBSET held :
    /\ IF cuts[z] = None /\ Cardinality(held) >= MaxZones
       THEN Cardinality(kept) = MaxZones - 1 ELSE kept = held
    /\ cuts' = [y \in Name |-> IF y = z THEN c ELSE IF y \in kept THEN cuts[y] ELSE None]

(* A referral: the cut is cached and its servers are asked next.  One that *)
(* comes without an address is looked for by name, within the depth.       *)
Descend ==
  LET f == Top
      dz == Referral(f.msg, f.zone, f.name, Question(f).type)
      names == {r.name : r \in {x \in f.msg.ns : x.owner = dz}}
      glue == {g \in f.msg.glue : g.owner \in names}
      known == IF glue # {} THEN {g.addr : g \in glue} ELSE UNION {addrs[n] : n \in names}
  IN /\ ~Idle /\ f.msg # None /\ dz # None
     /\ PutCut(dz, [names |-> names, addrs |-> glue])
     /\ \E some \in SUBSET names :
          /\ IF known # {} \/ f.depth >= MaxNsDepth THEN some = {}
             ELSE Cardinality(some) = IF Cardinality(names) < NsTries
                                      THEN Cardinality(names) ELSE NsTries
          /\ Goes([f EXCEPT !.zone = dz, !.probe = dz, !.order = None, !.msg = None,
                            !.servers = known, !.ns = some])
     /\ UNCHANGED <<addrs, job, chain, out, asks>>

(* The side resolution for one nameserver of the cut, unless it is the one *)
(* under way.                                                              *)
Chase_Waits ==   \* mutant: waits for the resolution under way
  /\ ~Idle /\ Top.order = None
  /\ \E n \in Top.ns :
       LET f == [Top EXCEPT !.ns = @ \ {n}] IN
       /\ n \notin job.chasing
       /\ IF Spent THEN Goes(f) /\ UNCHANGED job
          ELSE /\ stack' = Front(stack) \o <<f, Frame(n, "A", f.depth + 1)>>
               /\ job' = [job EXCEPT !.chasing = @ \cup {n}]
  /\ UNCHANGED <<infra, chain, out, asks>>

Chase ==
  /\ ~Idle /\ Top.order = None
  /\ \E n \in Top.ns :
       LET f == [Top EXCEPT !.ns = @ \ {n}] IN
       IF n \in job.chasing \/ Spent
       THEN Goes(f) /\ UNCHANGED job
       ELSE /\ stack' = Front(stack) \o <<f, Frame(n, "A", f.depth + 1)>>
            /\ job' = [job EXCEPT !.chasing = @ \cup {n}]
  /\ UNCHANGED <<infra, chain, out, asks>>

Said(f) == f.msg # None /\ Referral(f.msg, f.zone, f.name, Question(f).type) = None

(* A minimised probe: the name exists, so go on below it; anything else is *)
(* not trusted, and the whole name is asked for.                           *)
Probed ==
  LET f == Top IN
  /\ ~Idle /\ Said(f) /\ Question(f).name # f.name
  /\ Goes(IF f.msg.rcode = "noerror"
          THEN [f EXCEPT !.probe = Question(f).name, !.order = None, !.msg = None]
          ELSE [f EXCEPT !.widened = TRUE, !.qmin = FALSE, !.order = None, !.msg = None])
  /\ UNCHANGED <<infra, job, chain, out, asks>>

Conclude ==
  LET f == Top
      mine == {r \in f.msg.ans : r.owner = f.name}
  IN /\ ~Idle /\ Said(f) /\ Question(f).name = f.name
     /\ \/ /\ \E r \in mine : r.type = f.type
           /\ Return(f.msg, None)
        \/ /\ \A r \in mine : r.type # f.type /\ r.type # "CNAME"
           /\ Return(f.msg, None)
        \/ /\ \A r \in mine : r.type # f.type
           /\ \E r \in mine : r.type = "CNAME" /\ Return(f.msg, r.data)

(* The deadline of the question passes; a cached entry's time is up.       *)
Deadline ==
  /\ ~Idle /\ ~job.late
  /\ job' = [job EXCEPT !.late = TRUE]
  /\ UNCHANGED <<infra, chain, stack, out, asks>>

Expire ==
  /\ \E n \in Name : \/ cuts[n] # None /\ cuts' = [cuts EXCEPT ![n] = None] /\ UNCHANGED addrs
                     \/ addrs[n] # {} /\ addrs' = [addrs EXCEPT ![n] = {}] /\ UNCHANGED cuts
  /\ UNCHANGED <<job, chain, stack, out, asks>>

Resolving == Step \/ GiveUp \/ NoRoute \/ Silent \/ Answer \/ Descend \/ Chase \/ Probed \/ Conclude
Next == (\E q \in Asked : StartAsk(q)) \/ Resolving \/ Deadline \/ Expire

Spec == Init /\ [][Next]_vars

(* A question being resolved is worked on: every wait has a timeout.       *)
LiveSpec == Spec /\ WF_vars(Resolving)

-----------------------------------------------------------------------------
Genuine(z) == cuts[z].names = NsOf[z] /\ \A g \in cuts[z].addrs : g.addr = Host[g.owner]
Believed == IF out = None THEN {} ELSE out.ans

(* A DS is the parent's: neither the delegation cache nor a referral leads *)
(* the question to the child, unless the parent's own servers say so.      *)
DsFromParent ==
  \A i \in DOMAIN stack :
    stack[i].type = "DS" /\ stack[i].name # <<>> /\ Outside(stack[i].name)
      => stack[i].zone # stack[i].name

(* Bailiwick: whatever the servers of one zone say, what the resolver      *)
(* remembers of the rest of the namespace, and what it hands out for it,   *)
(* is what the rest of the namespace says; and a DS is asked of the parent *)
(* (_scrub, _referral, _glue, the starting point of _resolve_name).        *)
InBailiwick ==
  /\ \A z \in Name : cuts[z] # None /\ Outside(z) => z \in Cuts /\ Genuine(z)
  /\ \A n \in Name : Outside(n) => addrs[n] \subseteq {Host[n]}
  /\ \A r \in Believed : Outside(r.owner) => r.type = "DS" \/ r \in Owned(r.owner)
  /\ DsFromParent

(* Every question is answered, whatever the servers do: the steps, the     *)
(* names being chased and the packets are bounded (_resolve_name, _Job).   *)
EveryQuestionEnds == ~Idle ~> Idle

=============================================================================
