------------------------------- MODULE Filter -------------------------------
(***************************************************************************)
(* The filter engine: rules compiled into an index, the hash table of      *)
(* imported names, the match, and groups layered over the default set.     *)
(*                                                                         *)
(* Source: trench/filter/{engine,shared,groups,rule}.py, the Glob of       *)
(* filter/parser.py, and the callers of from_table in app.py and           *)
(* __main__.py.  A name is a sequence of labels, first label first; a      *)
(* regex is the set of names it finds.  Rules come from lists and from the *)
(* operator; of their order nothing is left in what a decision may be.     *)
(***************************************************************************)
EXTENDS Naturals, Sequences, FiniteSets, SequencesExt

CONSTANTS
  Pool,            \* rules there may be
  Query,           \* questions: [name, type, client]
  MaxRules,        \* bound: rules loaded
  Domain, Sources, Slots, MaxItems,   \* the hash table and its bound
  Letter, MaxText,                    \* texts for globs: letters and length
  None

VARIABLES
  rules,           \* the rules loaded
  own, inherit,    \* a group's rules; whether it falls through
  hash,            \* crc32, any function to the slots
  items, slots,    \* what a table is built from; the table
  removed,         \* SharedBlockTable._removed
  glob, text

vars == <<rules, own, inherit, hash, items, slots, removed, glob, text>>

Operator == {"denylist", "allowlist", "custom"}
Parents(name) == {SubSeq(name, i, Len(name)) : i \in 1 .. Len(name)}

(* A name or suffix has a length; the hash table is sized to its load      *)
(* factor, so a slot stays free.                                           *)
FilterConstants ==
  /\ \A r \in Pool :
       /\ r.form \in {"suffix", "exact", "regex"}
       /\ r.form # "regex" => Len(r.pat) \in Nat
       /\ r.block \in BOOLEAN /\ r.important \in BOOLEAN
       /\ r.badfilter \in BOOLEAN /\ r.rewrite \in BOOLEAN
  /\ Slots \in Nat /\ MaxItems \in Nat /\ MaxItems < Slots
  /\ None \notin [d : Domain, s : Sources] /\ None \notin Sources

-----------------------------------------------------------------------------
(* Compilation.  $badfilter disables the rules with its pattern.           *)

PatternId(r) == <<r.form, r.pat, r.block>>
LiveRules(R) ==
  LET bad == {PatternId(r) : r \in {x \in R : x.badfilter}}
  IN {r \in R : ~r.badfilter /\ (PatternId(r) \notin bad \/ r.rewrite)}

IsPlain(r) ==
  /\ r.block /\ r.form = "suffix" /\ ~r.important /\ ~r.badfilter /\ ~r.rewrite
  /\ r.types = None /\ r.clients = None /\ r.denyallow = {}

(* _add: plain rules of the operator to block_plain, imported ones to the  *)
(* table; the others stay rules.                                           *)
Engine(plain, table, rest) == [plain |-> plain, table |-> table, rest |-> rest]
PlainRules(R) == {r \in R : IsPlain(r)}
OperatorRules(R) == {r \in R : r.source \in Operator}
Named(R) == {r.pat : r \in R}

Compile(R) ==
  LET plain == PlainRules(LiveRules(R))
  IN Engine(Named(OperatorRules(plain)), Named(plain \ OperatorRules(plain)), LiveRules(R) \ plain)

FromTable(table, R) ==
  LET plain == PlainRules(LiveRules(R))
  IN Engine(Named(plain), table, LiveRules(R) \ plain)

-----------------------------------------------------------------------------
(* Matching.                                                               *)

Hits(r, name) ==
  CASE r.form = "suffix" -> r.pat \in Parents(name)
    [] r.form = "exact" -> r.pat = name
    [] OTHER -> name \in r.pat

Applicable(r, q) ==
  /\ r.types = None \/ q.type \in r.types
  /\ r.clients = None \/ q.client \in r.clients
  /\ r.denyallow \cap Parents(q.name) = {}

PlainRule(name) ==
  [block |-> TRUE, form |-> "suffix", pat |-> name, important |-> FALSE, badfilter |-> FALSE,
   rewrite |-> FALSE, types |-> None, clients |-> None, denyallow |-> {}, source |-> "list"]

Candidates(e, q, block) ==
  {r \in e.rest : r.block = block /\ Hits(r, q.name) /\ Applicable(r, q)}
    \cup IF block THEN {PlainRule(n) : n \in (e.plain \cup e.table) \cap Parents(q.name)} ELSE {}

(* _most_specific: important first, then the longest pattern.  Several can *)
(* be the best; the one loaded or filed first is taken.                    *)
Length(r) == IF r.form = "regex" THEN 0 ELSE Len(r.pat)
Better(r, s) == (r.important /\ ~s.important) \/ (r.important = s.important /\ Length(r) >= Length(s))
MostSpecific(S) == {r \in S : \A s \in S : Better(r, s)}

Match_NoImportant(e, q) ==     \* mutant: an exception always wins
  LET block == Candidates(e, q, TRUE)
      allow == Candidates(e, q, FALSE)
  IN IF allow # {} THEN {"allow"}
     ELSE {IF r.rewrite THEN "rewrite" ELSE "block" : r \in MostSpecific(block)} \cup (IF block = {} THEN {"none"} ELSE {})

(* The actions the decision may carry: one, unless best rules are equal.   *)
Match(e, q) ==
  LET block == Candidates(e, q, TRUE)
      allow == Candidates(e, q, FALSE)
      forced == (\E r \in block : r.important) /\ ~(\E r \in allow : r.important)
  IN IF allow # {} /\ ~forced THEN {"allow"}
     ELSE IF block # {} THEN {IF r.rewrite THEN "rewrite" ELSE "block" : r \in MostSpecific(block)}
     ELSE {"none"}

(* LayeredFilter.match.                                                    *)
Layered(e, base, q) ==
  LET d == Match(e, q)
  IN IF d # {"none"} THEN d ELSE IF inherit THEN Match(base, q) ELSE {"none"}

-----------------------------------------------------------------------------
(* SharedBlockTable: open addressing.                                      *)

Probe(i, k) == (i + k) % Slots
(* The first slot from the hash on that is empty or holds d.               *)
Stops(d, k) == slots[Probe(hash[d], k)] = None \/ slots[Probe(hash[d], k)].d = d
SlotOf(d) ==
  Probe(hash[d], CHOOSE k \in 0 .. Slots - 1 : Stops(d, k) /\ \A j \in 0 .. k - 1 : ~Stops(d, j))

Put(item) ==
  LET i == SlotOf(item.d) IN IF slots[i] = None THEN [slots EXCEPT ![i] = item] ELSE slots

Get(d) ==
  LET v == slots[SlotOf(d)] IN IF v = None \/ d \in removed THEN None ELSE v.s

-----------------------------------------------------------------------------
(* Glob: the pieces between the stars, each found leftmost after the one   *)
(* before it.  glob is the sequence of pieces, text what it is tried on.   *)

Occurs(p, at) == at + Len(p) - 1 <= Len(text) /\ SubSeq(text, at, at + Len(p) - 1) = p

(* find: the leftmost place from pos on that ends before stop, 0 if none.  *)
Find(p, pos, stop) ==
  LET S == {i \in pos .. stop : i + Len(p) - 1 <= stop /\ Occurs(p, i)}
  IN IF p = <<>> THEN pos ELSE IF S = {} THEN 0 ELSE CHOOSE i \in S : \A j \in S : i <= j

(* Where piece i + 1 may start, 0 when piece i was not found.              *)
Stop == Len(text) - Len(glob[Len(glob)])
From[i \in 1 .. Len(glob)] ==
  IF i = 1 THEN Len(glob[1]) + 1
  ELSE LET at == IF From[i - 1] = 0 THEN 0 ELSE Find(glob[i], From[i - 1], Stop)
       IN IF at = 0 THEN 0 ELSE at + Len(glob[i])

Search ==
  LET head == glob[1]
      tail == glob[Len(glob)]
  IN IF Len(glob) = 1 THEN text = head
     ELSE /\ Len(text) >= Len(head) + Len(tail)
          /\ Occurs(head, 1) /\ Occurs(tail, Stop + 1)
          /\ From[Len(glob) - 1] # 0

-----------------------------------------------------------------------------
(* Lists arrive rule by rule; a table and a glob grow.                     *)

Init ==
  /\ rules = {} /\ own = {} /\ inherit \in BOOLEAN
  /\ hash \in [Domain -> 0 .. Slots - 1]
  /\ items = <<>> /\ slots = [i \in 0 .. Slots - 1 |-> None] /\ removed = {}
  /\ glob = << <<>> >> /\ text = <<>>

NoTable == items = <<>>
NoGlob == glob = << <<>> >> /\ text = <<>>
NoRules == rules = {} /\ own = {}
OneHash == \A d, e \in Domain : hash[d] = hash[e]      \* the hash matters to a table only

AddRule(r) ==
  /\ NoTable /\ NoGlob /\ OneHash
  /\ Cardinality(rules) + Cardinality(own) < MaxRules
  /\ \/ r \notin rules /\ rules' = rules \cup {r} /\ UNCHANGED own
     \/ r \notin own /\ own' = own \cup {r} /\ UNCHANGED rules
  /\ UNCHANGED <<inherit, hash, items, slots, removed, glob, text>>

(* build: a name that a list before this one supplied is passed over.      *)
AddItem(d, s) ==
  /\ NoRules /\ NoGlob /\ inherit /\ removed = {} /\ Len(items) < MaxItems
  /\ items' = Append(items, [d |-> d, s |-> s])
  /\ slots' = Put([d |-> d, s |-> s])
  /\ UNCHANGED <<rules, own, inherit, hash, removed, glob, text>>

(* discard.                                                                *)
Discard(d) ==
  /\ items # <<>> /\ Get(d) # None
  /\ removed' = removed \cup {d}
  /\ UNCHANGED <<rules, own, inherit, hash, items, slots, glob, text>>

GrowGlob ==
  /\ NoRules /\ NoTable /\ inherit /\ OneHash
  /\ Len(FlattenSeq(glob)) + Len(glob) < MaxText
  /\ \/ \E c \in Letter : glob' = [glob EXCEPT ![Len(glob)] = Append(@, c)]
     \/ glob' = Append(glob, <<>>)
  /\ UNCHANGED <<rules, own, inherit, hash, items, slots, removed, text>>

GrowText ==
  /\ NoRules /\ NoTable /\ inherit /\ OneHash
  /\ Len(text) < MaxText
  /\ \E c \in Letter : text' = Append(text, c)
  /\ UNCHANGED <<rules, own, inherit, hash, items, slots, removed, glob>>

Next ==
  \/ \E r \in Pool : AddRule(r)
  \/ \E d \in Domain : (\E s \in Sources : AddItem(d, s)) \/ Discard(d)
  \/ GrowGlob \/ GrowText

Spec == Init /\ [][Next]_vars

-----------------------------------------------------------------------------
(* What the rules say, read one by one and without an index: a rule counts *)
(* unless a $badfilter names its pattern (a rewrite is not disabled);      *)
(* $important blocks lose to $important exceptions only; otherwise an      *)
(* exception wins; the best block decides between block and rewrite.       *)
Live(R, r) ==
  ~r.badfilter /\ (r.rewrite \/ ~\E x \in R : x.badfilter /\ PatternId(x) = PatternId(r))
Says(R, q) == {r \in R : Live(R, r) /\ Hits(r, q.name) /\ Applicable(r, q)}
Verdict(R, q) ==
  LET S == Says(R, q)
      B == {r \in S : r.block}
  IN CASE S = {} -> {"none"}
       [] \E r \in S : ~r.block /\ (r.important \/ ~\E b \in B : b.important) -> {"allow"}
       [] OTHER -> {IF r.rewrite THEN "rewrite" ELSE "block" : r \in {b \in B : \A c \in B : Better(b, c)}}

(* The compiled index decides what the rules say, for every question, and  *)
(* a group's answer is its own rules' or the default's                     *)
(* (FilterEngine.compile and match, LayeredFilter.match).                  *)
MatchIsReference ==
  \A q \in Query :
    /\ Match(Compile(rules), q) = Verdict(rules, q)
    /\ Layered(Compile(own), Compile(rules), q) =
         IF Verdict(own, q) = {"none"} /\ inherit THEN Verdict(rules, q) ELSE Verdict(own, q)

(* The table is exact: it holds a name for the first list that named it,   *)
(* whatever collides, and a removal hides that name and no other           *)
(* (SharedBlockTable.build, get, discard).                                 *)
TableIsExact ==
  \A d \in Domain :
    LET S == {i \in DOMAIN items : items[i].d = d}
    IN Get(d) = IF S = {} \/ d \in removed THEN None ELSE items[CHOOSE i \in S : \A j \in S : i <= j].s

(* Greedy matching of the pieces finds a match whenever there is one       *)
(* (Glob.search): some way to cut the text into the pieces, in order, with *)
(* anything between them.                                                  *)
GlobIsExact ==
  Search <=> \E at \in [1 .. Len(glob) -> 1 .. Len(text) + 1] :
               /\ at[1] = 1 /\ at[Len(glob)] + Len(glob[Len(glob)]) = Len(text) + 1
               /\ \A i \in 1 .. Len(glob) : Occurs(glob[i], at[i])
               /\ \A i \in 1 .. Len(glob) - 1 : at[i] + Len(glob[i]) <= at[i + 1]

FilterIsExact == MatchIsReference /\ TableIsExact /\ GlobIsExact

(* A worker that maps a table built elsewhere blocks what the one that     *)
(* built it blocks: from_table adds "only the small rule set that is not   *)
(* in it (operator rules, regex and modifier-carrying rules)", and the     *)
(* rules do not "depend on which of those paths compiled its engine"       *)
(* (engine.py, rule.py; App._adopt_table).                                 *)
Denies(decision) == decision \cap {"block", "rewrite"} # {}
PathsAgree ==
  \A q \in Query :
    LET e == Compile(rules)
    IN Denies(Match(FromTable(e.table, OperatorRules(rules)), q)) <=> Denies(Match(e, q))

=============================================================================
