--------------------------- MODULE FastPathProofs ---------------------------
(***************************************************************************)
(* Proofs about FastPath, the filter, the gates in front of it and the     *)
(* names of devices, for any clients, names, policies, rules and limits:   *)
(* the replay table holds a key once and no more than its limit, a key     *)
(* names one policy, every slot of udp_max_inflight is given back, and     *)
(* what was decided and recorded in one step is what the rules in force    *)
(* would decide now; each refusal has its reason, and no bucket lets       *)
(* through more than its rate; a device that has a name keeps one, and is  *)
(* asked about once at a time; the filter's indexes decide as its rules    *)
(* do.                                                                     *)
(***************************************************************************)
EXTENDS MCPolicies, Integers, FiniteSetTheorems, SequenceTheorems, WellFoundedInduction, TLAPS

-----------------------------------------------------------------------------
(* The inductive invariant.                                                *)

Numbered == {p \in Policy : tags[p] # 0}
Running == {q \in Query : task[q].st \in {"queued", "waiting"}}

(* The numbers given out are 1 .. n, so the next one is new.               *)
NumbersDense ==
  /\ IsFiniteSet(Numbered)
  /\ \A p \in Policy : tags[p] <= Cardinality(Numbered)

(* What the table has to say of an entry, whether or not it is usable now: *)
(* the toggle switches a kept table off and on again.                      *)
Current(e) == e.sync => (e.den <=> WouldBlock(e.pol, e.name))
RecordedCurrent == \A i \in DOMAIN table : Current(table[i])

Counted == IsFiniteSet(Running) /\ inflight = Cardinality(Running)

(* An entry that has asked for its refresh says so.                        *)
AskedIsMarked == \A i \in DOMAIN table : table[i].refreshes = 0 \/ table[i].refreshing

(* A datagram in flight has a client and a name.                           *)
Owned == \A q \in Running : task[q].client \in Client /\ task[q].name \in Name

IInv ==
  /\ TypeOK /\ TagsNameOnePolicy /\ NumbersDense
  /\ RecordedCurrent /\ AskedIsMarked /\ Counted /\ Owned

-----------------------------------------------------------------------------
(* Numbering.                                                              *)
Distinct(t) == \A p, r \in Policy : t[p] = t[r] /\ t[p] # 0 => p = r
Dense(t) ==
  LET N == {p \in Policy : t[p] # 0}
  IN  IsFiniteSet(N) /\ \A p \in Policy : t[p] <= Cardinality(N)

(* _policy_tag keeps the numbers there are and gives the policy its own.   *)
LEMMA TaggedFacts ==
  ASSUME NEW p \in Policy, tags \in [Policy -> Nat], Distinct(tags), Dense(tags)
  PROVE  /\ Tagged(p) \in [Policy -> Nat]
         /\ Distinct(Tagged(p)) /\ Dense(Tagged(p))
         /\ Tagged(p)[p] # 0
         /\ \A r \in Policy : tags[r] # 0 => Tagged(p)[r] = tags[r]
<1>1. CASE tags[p] # 0
  BY <1>1 DEF Tagged
<1>2. CASE tags[p] = 0
  <2> DEFINE N == {r \in Policy : tags[r] # 0}
             t == [tags EXCEPT ![p] = 1 + Cardinality(N)]
  <2>1. IsFiniteSet(N) /\ Cardinality(N) \in Nat /\ \A r \in Policy : tags[r] <= Cardinality(N)
    BY FS_CardinalityType DEF Dense
  <2>2. Tagged(p) = t /\ t \in [Policy -> Nat] /\ t[p] = 1 + Cardinality(N)
        /\ \A r \in Policy : r # p => t[r] = tags[r]
    BY <1>2, <2>1 DEF Tagged
  <2>3. {r \in Policy : t[r] # 0} = N \cup {p} /\ p \notin N
    BY <1>2, <2>1, <2>2
  <2>4. IsFiniteSet(N \cup {p}) /\ Cardinality(N \cup {p}) = Cardinality(N) + 1
    BY <2>1, <2>3, FS_AddElement
  <2> HIDE DEF N, t
  <2>5. Distinct(t)
    BY <2>1, <2>2 DEF Distinct
  <2>6. Dense(t)
    <3>1. \A r \in Policy : t[r] <= Cardinality(N) + 1
      BY <2>1, <2>2
    <3> QED  BY <2>3, <2>4, <3>1 DEF Dense
  <2>7. Distinct(tags) BY DEF Distinct
  <2>8. \A r \in Policy : tags[r] # 0 => t[r] = tags[r]
    BY <1>2, <2>2
  <2> QED  BY <2>1, <2>2, <2>5, <2>6, <2>8
<1> QED  BY <1>1, <1>2

-----------------------------------------------------------------------------
(* The table as a sequence.                                                *)
Limit == IF MaxEntries = 0 THEN 1 ELSE MaxEntries
Unique(s) ==
  \A i, j \in DOMAIN s : s[i].name = s[j].name /\ s[i].tag = s[j].tag => i = j

(* The oldest entries give way, and leave room for one.                    *)
LEMMA TrimmedFacts ==
  ASSUME NEW s \in Seq(Entry), Len(s) <= Limit
  PROVE  /\ Trimmed(s) \in Seq(Entry)
         /\ Len(Trimmed(s)) < Limit
         /\ \E off \in Nat :
              /\ Len(Trimmed(s)) + off = Len(s)
              /\ \A i \in 1 .. Len(Trimmed(s)) : Trimmed(s)[i] = s[i + off]
<1>0. MaxEntries \in Nat
  BY FastPathAssumption
<1>1. CASE ~(Len(s) >= MaxEntries /\ s # <<>>)
  <2>1. Trimmed(s) = s
    BY <1>1 DEF Trimmed
  <2>2. Len(s) < Limit
    BY <1>0, <1>1 DEF Limit
  <2>3. /\ Len(s) + 0 = Len(s)
        /\ \A i \in 1 .. Len(s) : s[i] = s[i + 0]
    OBVIOUS
  <2> QED  BY <2>1, <2>2, <2>3
<1>2. CASE Len(s) >= MaxEntries /\ s # <<>>
  <2> DEFINE kept == IF MaxEntries = 0 THEN 0 ELSE MaxEntries - 1
             off == Len(s) - kept
  <2>1. /\ kept \in Nat /\ off \in Nat /\ kept < Limit
        /\ off + 1 \in 1 .. Len(s) + 1 /\ Len(s) - kept + 1 = off + 1
    BY <1>0, <1>2 DEF Limit
  <2>2. Trimmed(s) = SubSeq(s, off + 1, Len(s))
    BY <1>2 DEF Trimmed
  <2>3. kept + off = Len(s)
    BY <2>1
  <2> HIDE DEF kept, off
  <2>4. /\ SubSeq(s, off + 1, Len(s)) \in Seq(Entry)
        /\ Len(SubSeq(s, off + 1, Len(s))) = kept
        /\ \A i \in 1 .. kept : SubSeq(s, off + 1, Len(s))[i] = s[i + off]
    BY <2>1, <2>3
  <2> QED  BY <2>1, <2>2, <2>3, <2>4
<1> QED  BY <1>1, <1>2

(* What store() records for client c.                                      *)
Reply(c, n, act, sync) ==
  [name |-> n, tag |-> Tagged(policy[c])[policy[c]], pol |-> policy[c], act |-> act,
   den |-> (sync /\ act = "blocked"), sync |-> sync, age |-> "fresh",
   refreshing |-> FALSE, refreshes |-> 0]

LEMMA RecordedFacts ==
  ASSUME NEW c, NEW n, NEW act, NEW sync,
         Reply(c, n, act, sync) \in Entry,
         table \in Seq(Entry), TableBounded
  PROVE  LET t == Recorded(c, n, act, sync) IN
         /\ t \in Seq(Entry)
         /\ Len(t) <= Limit /\ Unique(t)
         /\ \A i \in DOMAIN t :
              t[i] = Reply(c, n, act, sync) \/ \E j \in DOMAIN table : t[i] = table[j]
<1> DEFINE e == Reply(c, n, act, sync)
           s == Trimmed(table)
           at == {j \in DOMAIN s : s[j].name = n /\ s[j].tag = e.tag}
           t == Recorded(c, n, act, sync)
<1>0. Limit \in Nat /\ Len(table) <= Limit /\ Unique(table)
  BY FastPathAssumption DEF TableBounded, Limit, Unique
<1>1. PICK off \in Nat :
        /\ Len(s) + off = Len(table)
        /\ \A i \in 1 .. Len(s) : s[i] = table[i + off]
  BY <1>0, TrimmedFacts
<1>2. s \in Seq(Entry) /\ Len(s) < Limit
  BY <1>0, TrimmedFacts
<1>3. t = IF at = {} THEN Append(s, e) ELSE [j \in DOMAIN s |-> IF j \in at THEN e ELSE s[j]]
  BY DEF Recorded, Reply
<1>4. e.name = n
  BY DEF Reply
<1>5. e \in Entry
  OBVIOUS
<1>6. at = {j \in DOMAIN s : s[j].name = n /\ s[j].tag = e.tag}
  OBVIOUS
<1> HIDE DEF e, s, at, t
<1>7. DOMAIN s = 1 .. Len(s) /\ Len(s) \in Nat /\ Len(table) \in Nat
      /\ DOMAIN table = 1 .. Len(table)
  BY <1>2
<1>8. Unique(s)
  <2> SUFFICES ASSUME NEW i \in 1 .. Len(s), NEW j \in 1 .. Len(s),
                      s[i].name = s[j].name, s[i].tag = s[j].tag
               PROVE  i = j
    BY <1>7 DEF Unique
  <2>1. i + off \in DOMAIN table /\ j + off \in DOMAIN table
    BY <1>1, <1>7
  <2>2. i + off = j + off
    BY <1>0, <1>1, <2>1 DEF Unique
  <2> QED  BY <1>7, <2>2
<1>9. \A i \in DOMAIN s : \E j \in DOMAIN table : s[i] = table[j]
  BY <1>1, <1>7
<1>10. CASE at = {}
  <2>1. t = Append(s, e)
    BY <1>3, <1>10
  <2>2. /\ t \in Seq(Entry) /\ Len(t) = Len(s) + 1
        /\ \A i \in 1 .. Len(s) : t[i] = s[i]
        /\ t[Len(s) + 1] = e /\ DOMAIN t = 1 .. Len(s) + 1
    BY <1>2, <1>5, <2>1
  <2>3. \A i \in DOMAIN t : (i \in DOMAIN s /\ t[i] = s[i]) \/ (i = Len(s) + 1 /\ t[i] = e)
    <3>1. \A i \in 1 .. Len(s) + 1 : i \in 1 .. Len(s) \/ i = Len(s) + 1
      BY <1>7
    <3> QED  BY <1>7, <2>2, <3>1
  <2>4. \A i \in DOMAIN s : ~(s[i].name = e.name /\ s[i].tag = e.tag)
    BY <1>4, <1>6, <1>10
  <2>5. Unique(t)
    BY <1>8, <2>3, <2>4 DEF Unique
  <2>6. Len(t) <= Limit
    BY <1>0, <1>2, <1>7, <2>2
  <2>7. \A i \in DOMAIN t : t[i] = e \/ \E j \in DOMAIN table : t[i] = table[j]
    BY <1>9, <2>2, <2>3
  <2> QED  BY <2>2, <2>5, <2>6, <2>7 DEF e, t
<1>11. CASE at # {}
  <2>1. t = [j \in DOMAIN s |-> IF j \in at THEN e ELSE s[j]]
    BY <1>3, <1>11
  <2>2. /\ t \in Seq(Entry) /\ Len(t) = Len(s) /\ DOMAIN t = DOMAIN s
        /\ \A i \in DOMAIN s : t[i] = IF i \in at THEN e ELSE s[i]
    BY <1>2, <1>5, <1>7, <2>1
  <2>3. \A i \in at : i \in DOMAIN s /\ s[i].name = e.name /\ s[i].tag = e.tag
    BY <1>4, <1>6
  <2>4. \A i \in DOMAIN s : t[i].name = s[i].name /\ t[i].tag = s[i].tag
    BY <2>2, <2>3
  <2>5. Unique(t)
    BY <1>8, <2>2, <2>4 DEF Unique
  <2>6. Len(t) <= Limit
    BY <1>0, <1>2, <1>7, <2>2
  <2>7. \A i \in DOMAIN t : t[i] = e \/ \E j \in DOMAIN table : t[i] = table[j]
    BY <1>9, <2>2
  <2> QED  BY <2>2, <2>5, <2>6, <2>7 DEF e, t
<1> QED  BY <1>10, <1>11

-----------------------------------------------------------------------------
(* A table t that is sound under the numbering g and the rules f.          *)
Sound(e, g, f) ==
  /\ e.refreshes <= IF e.act = "blocked" THEN 0 ELSE 1
  /\ e.refreshes = 0 \/ e.refreshing
  /\ e.tag # 0 /\ g[e.pol] = e.tag
  /\ e.sync => (e.den <=> <<e.pol, e.name>> \in Blocks[f])

Fine(t, g, f) ==
  /\ t \in Seq(Entry) /\ Len(t) <= Limit /\ Unique(t)
  /\ \A i \in DOMAIN t : Sound(t[i], g, f)

Rest ==
  /\ tags \in [Policy -> Nat] /\ filter \in Filter
  /\ enabled \in BOOLEAN /\ paused \in BOOLEAN /\ cpaused \in SUBSET Client
  /\ policy \in [Client -> Policy]
  /\ Distinct(tags) /\ Dense(tags)

Load == task \in [Query -> Task] /\ inflight \in Nat /\ Counted /\ Owned

LEMMA IInvParts == IInv <=> Fine(table, tags, filter) /\ Rest /\ Load
<1>1. TableBounded <=> Len(table) <= Limit /\ Unique(table)
  BY DEF TableBounded, Limit, Unique
<1>2. (\A i \in DOMAIN table : Sound(table[i], tags, filter))
        <=> /\ RefreshedOnce /\ AskedIsMarked /\ RecordedCurrent
            /\ \A i \in DOMAIN table : table[i].tag # 0 /\ tags[table[i].pol] = table[i].tag
  BY DEF Sound, RefreshedOnce, AskedIsMarked, RecordedCurrent, Current, WouldBlock
<1>3. NumbersDense <=> Dense(tags)
  BY DEF NumbersDense, Dense, Numbered
<1>4. Counted => InflightExact
  BY DEF Counted, InflightExact, Running
<1> QED
  BY <1>1, <1>2, <1>3, <1>4 DEF IInv, TypeOK, TagsNameOnePolicy, Fine, Rest, Load, Distinct

LEMMA IInvPartsNext == IInv' <=> Fine(table, tags, filter)' /\ Rest' /\ Load'
BY IInvParts, PTL

LEMMA EmptyFine ==
  ASSUME NEW g, NEW f
  PROVE  Fine(<<>>, g, f)
<1>1. Limit \in Nat
  BY FastPathAssumption DEF Limit
<1> QED  BY <1>1 DEF Fine, Unique

LEMMA RenumberedFine ==
  ASSUME NEW t, NEW g \in [Policy -> Nat], NEW h \in [Policy -> Nat], NEW f, Fine(t, g, f),
         \A p \in Policy : g[p] # 0 => h[p] = g[p]
  PROVE  Fine(t, h, f)
<1>1. \A i \in DOMAIN t : t[i] \in Entry
  BY DEF Fine
<1>2. \A e \in Entry : e.pol \in Policy
  BY DEF Entry
<1>3. ASSUME NEW i \in DOMAIN t PROVE Sound(t[i], h, f)
  <2>1. Sound(t[i], g, f) /\ t[i].pol \in Policy
    BY <1>1, <1>2 DEF Fine
  <2>2. h[t[i].pol] = g[t[i].pol]
    BY <2>1 DEF Sound
  <2> QED  BY <2>1, <2>2 DEF Sound
<1> QED  BY <1>3 DEF Fine

(* An entry changed in its place, under its own key.                       *)
LEMMA ReplacedFine ==
  ASSUME NEW t, NEW g, NEW f, Fine(t, g, f), NEW i \in DOMAIN t, NEW e \in Entry,
         Sound(e, g, f), e.name = t[i].name, e.tag = t[i].tag
  PROVE  Fine([t EXCEPT ![i] = e], g, f)
<1> DEFINE u == [t EXCEPT ![i] = e]
<1>1. t \in Seq(Entry)
  BY DEF Fine
<1>2. /\ u \in Seq(Entry) /\ DOMAIN u = DOMAIN t /\ Len(u) = Len(t)
      /\ u[i] = e /\ \A j \in DOMAIN t : j # i => u[j] = t[j]
  BY <1>1
<1> HIDE DEF u
<1>3. \A j \in DOMAIN t : u[j].name = t[j].name /\ u[j].tag = t[j].tag
  BY <1>2
<1>4. Unique(u)
  BY <1>2, <1>3 DEF Fine, Unique
<1>5. ASSUME NEW j \in DOMAIN u PROVE Sound(u[j], g, f)
  BY <1>2 DEF Fine
<1>6. Len(u) <= Limit
  BY <1>2 DEF Fine
<1> QED  BY <1>2, <1>4, <1>5, <1>6 DEF Fine, u

(* serve(): one early refresh, marked.                                     *)
LEMMA AskedOnce ==
  ASSUME NEW e \in Entry, NEW r, r = [e EXCEPT !.refreshing = TRUE, !.refreshes = 1]
  PROVE  /\ r \in Entry
         /\ r.refreshes = 1 /\ r.refreshing = TRUE /\ r.act = e.act
         /\ r.tag = e.tag /\ r.pol = e.pol /\ r.name = e.name
         /\ r.sync = e.sync /\ r.den = e.den
BY DEF Entry

LEMMA RefreshedSound ==
  ASSUME NEW e \in Entry, NEW g, NEW f, Sound(e, g, f)
  PROVE  /\ Refreshed(e) \in Entry /\ Sound(Refreshed(e), g, f)
         /\ Refreshed(e).name = e.name /\ Refreshed(e).tag = e.tag
<1>1. CASE Refreshed(e) = e
  BY <1>1
<1>2. CASE e.age = "near" /\ ~e.refreshing /\ e.act # "blocked"
  <2> DEFINE r == [e EXCEPT !.refreshing = TRUE, !.refreshes = 1]
  <2>1. e.refreshes = 0 /\ e.refreshes + 1 = 1
    BY <1>2 DEF Sound
  <2>2. Refreshed(e) = r
    BY <1>2, <2>1 DEF Refreshed
  <2>3. /\ r \in Entry
        /\ r.refreshes = 1 /\ r.refreshing = TRUE /\ r.act = e.act
        /\ r.tag = e.tag /\ r.pol = e.pol /\ r.name = e.name
        /\ r.sync = e.sync /\ r.den = e.den
    <3>1. PICK x : x = r
      OBVIOUS
    <3>2. x = [e EXCEPT !.refreshing = TRUE, !.refreshes = 1]
      BY <3>1
    <3> HIDE DEF r
    <3>3. x \in Entry /\ x.refreshes = 1 /\ x.refreshing = TRUE /\ x.act = e.act
          /\ x.tag = e.tag /\ x.pol = e.pol /\ x.name = e.name
          /\ x.sync = e.sync /\ x.den = e.den
      BY <3>2, AskedOnce
    <3> QED BY <3>1, <3>3
  <2> HIDE DEF r
  <2> QED  BY <1>2, <2>2, <2>3 DEF Sound
<1> QED  BY <1>1, <1>2 DEF Refreshed

(* The countdown changes an age only.                                      *)
LEMMA AgedSound ==
  ASSUME NEW e \in Entry, NEW g, NEW f, Sound(e, g, f), NEW a \in {"near", "expired"}
  PROVE  LET r == [e EXCEPT !.age = a] IN
         r \in Entry /\ Sound(r, g, f) /\ r.name = e.name /\ r.tag = e.tag
<1> DEFINE r == [e EXCEPT !.age = a]
<1>1. r \in Entry
  BY DEF Entry
<1>2. /\ r.refreshes = e.refreshes /\ r.act = e.act /\ r.refreshing = e.refreshing
      /\ r.tag = e.tag /\ r.pol = e.pol /\ r.name = e.name
  BY DEF Entry
<1>3. r.sync = e.sync /\ r.den = e.den
  BY DEF Entry
<1> QED  BY <1>1, <1>2, <1>3 DEF Sound

-----------------------------------------------------------------------------
(* store(): what is recorded is filed under the policy the client has, and *)
(* a verdict reached in the same step is the one in force: a usable table  *)
(* means no pause and no $client rule, and the key carries the policy.     *)
LEMMA ReplySound ==
  ASSUME Rest, Usable, NEW c \in Client, NEW n \in Name,
         NEW act \in {"cached", "forwarded", "blocked"}, NEW sync \in BOOLEAN,
         sync => (act = "blocked" <=> Denied(c, n))
  PROVE  /\ Reply(c, n, act, sync) \in Entry
         /\ Sound(Reply(c, n, act, sync), Tagged(policy[c]), filter)
<1> DEFINE g == Tagged(policy[c])
           b == (sync /\ act = "blocked")
<1>1. policy[c] \in Policy /\ g \in [Policy -> Nat] /\ g[policy[c]] # 0
  BY TaggedFacts DEF Rest
<1>2. b \in BOOLEAN /\ (sync => (b <=> act = "blocked"))
  OBVIOUS
<1>3. Denied(c, n) <=> <<policy[c], n>> \in Blocks[filter]
  <2>1. Active(c) /\ ClientBlocks[filter] = {}
    BY DEF Usable, Active, AnyClientRules
  <2> QED  BY <2>1 DEF Denied
<1>4. Reply(c, n, act, sync) =
        [name |-> n, tag |-> g[policy[c]], pol |-> policy[c], act |-> act, den |-> b,
         sync |-> sync, age |-> "fresh", refreshing |-> FALSE, refreshes |-> 0]
  BY DEF Reply
<1> HIDE DEF g, b
<1>5. Reply(c, n, act, sync) \in Entry
  BY <1>1, <1>2, <1>4 DEF Entry
<1>6. LET r == Reply(c, n, act, sync) IN
      /\ r.refreshes = 0 /\ r.tag = g[policy[c]] /\ r.pol = policy[c] /\ r.name = n
      /\ r.sync = sync /\ r.den = b /\ r.act = act
  BY <1>4
<1>7. Sound(Reply(c, n, act, sync), g, filter)
  BY <1>1, <1>2, <1>3, <1>6 DEF Sound
<1> QED  BY <1>5, <1>7 DEF g

LEMMA StoredFine ==
  ASSUME Fine(table, tags, filter), Rest, NEW c \in Client, NEW n \in Name,
         NEW act \in {"cached", "forwarded", "blocked"}, NEW sync \in BOOLEAN,
         NEW storable \in BOOLEAN,
         sync => (act = "blocked" <=> Denied(c, n)),
         Store(c, n, act, sync, storable),
         UNCHANGED <<filter, enabled, paused, cpaused, policy>>
  PROVE  Fine(table, tags, filter)' /\ Rest'
<1>1. CASE UNCHANGED <<table, tags>>
  BY <1>1 DEF Rest, Fine
<1>2. CASE /\ Usable
           /\ table' = Recorded(c, n, act, sync)
           /\ tags' = Tagged(policy[c])
  <2> DEFINE g == Tagged(policy[c])
             e == Reply(c, n, act, sync)
             t == Recorded(c, n, act, sync)
  <2>1. /\ policy[c] \in Policy /\ tags \in [Policy -> Nat] /\ g \in [Policy -> Nat]
        /\ Distinct(g) /\ Dense(g)
        /\ \A r \in Policy : tags[r] # 0 => g[r] = tags[r]
    BY TaggedFacts DEF Rest
  <2>2. e \in Entry /\ Sound(e, g, filter)
    BY <1>2, ReplySound
  <2>3. table \in Seq(Entry) /\ TableBounded
    BY DEF Fine, TableBounded, Limit, Unique
  <2>4. /\ t \in Seq(Entry) /\ Len(t) <= Limit /\ Unique(t)
        /\ \A i \in DOMAIN t : t[i] = e \/ \E j \in DOMAIN table : t[i] = table[j]
    BY <2>2, <2>3, RecordedFacts
  <2> HIDE DEF g, e, t
  <2>5. Fine(table, g, filter)
    BY <2>1, RenumberedFine
  <2>6. \A i \in DOMAIN t : Sound(t[i], g, filter)
    BY <2>2, <2>4, <2>5 DEF Fine
  <2>7. Fine(t, g, filter)
    BY <2>4, <2>6 DEF Fine
  <2>8. Fine(table, tags, filter)'
    BY <1>2, <2>7 DEF t, g
  <2>9. Rest'
    BY <1>2, <2>1 DEF g, Rest
  <2> QED  BY <2>8, <2>9
<1> QED  BY <1>1, <1>2 DEF Store

-----------------------------------------------------------------------------
(* In flight.                                                              *)
LEMMA LoadKept ==
  ASSUME Load, UNCHANGED <<task, inflight>>
  PROVE  Load'
BY DEF Load, Counted, Running, Owned

(* A datagram that takes no slot.                                          *)
LEMMA LoadAside ==
  ASSUME Load, NEW q \in Query, task[q].st = "new", UNCHANGED inflight,
         NEW x \in Task, x.st \in {"replayed", "dropped"}, task' = [task EXCEPT ![q] = x]
  PROVE  Load'
<1>1. task' \in [Query -> Task]
  BY DEF Load
<1>2. Running' = Running /\ q \notin Running
  BY DEF Load, Running
<1>3. Owned'
  BY <1>2 DEF Load, Owned, Running
<1> QED  BY <1>1, <1>2, <1>3 DEF Load, Counted

LEMMA LoadTaken ==
  ASSUME Load, NEW q \in Query, task[q].st = "new", inflight' = inflight + 1,
         NEW x \in Task, x.st = "queued", x.client \in Client, x.name \in Name,
         task' = [task EXCEPT ![q] = x]
  PROVE  Load'
<1>1. task' \in [Query -> Task] /\ inflight' \in Nat
  BY DEF Load
<1>2. Running' = Running \cup {q} /\ q \notin Running
  BY DEF Load, Running
<1>3. IsFiniteSet(Running \cup {q}) /\ Cardinality(Running \cup {q}) = Cardinality(Running) + 1
  BY <1>2, FS_AddElement DEF Load, Counted
<1>4. Owned'
  BY <1>2 DEF Load, Owned, Running
<1> QED  BY <1>1, <1>2, <1>3, <1>4 DEF Load, Counted

LEMMA LoadWaits ==
  ASSUME Load, NEW q \in Query, task[q].st = "queued", UNCHANGED inflight,
         task' = [task EXCEPT ![q].st = "waiting"]
  PROVE  Load'
<1>1. task' \in [Query -> Task] /\ task'[q].st = "waiting"
      /\ \A r \in Query : r # q => task'[r] = task[r]
  BY DEF Load, Task
<1>2. Running' = Running
  BY <1>1 DEF Running
<1>3. task'[q].client = task[q].client /\ task'[q].name = task[q].name
  BY DEF Load, Task
<1>4. Owned'
  BY <1>1, <1>2, <1>3 DEF Load, Owned, Running
<1> QED  BY <1>1, <1>2, <1>4 DEF Load, Counted

LEMMA LoadFreed ==
  ASSUME Load, NEW q \in Query, task[q].st \in {"queued", "waiting"}, End(q)
  PROVE  Load'
<1>1. task' \in [Query -> Task] /\ task'[q].st = "done"
      /\ \A r \in Query : r # q => task'[r] = task[r]
  BY DEF Load, Task, End
<1>2. Running' = Running \ {q} /\ q \in Running
  BY <1>1 DEF Running
<1>3. /\ IsFiniteSet(Running \ {q}) /\ Cardinality(Running \ {q}) = Cardinality(Running) - 1
      /\ Cardinality(Running \ {q}) \in Nat
  BY <1>2, FS_RemoveElement, FS_CardinalityType DEF Load, Counted
<1>4. inflight' = Cardinality(Running')
  BY <1>2, <1>3 DEF Load, Counted, End
<1>5. Owned'
  BY <1>1, <1>2 DEF Load, Owned, Running
<1> QED  BY <1>1, <1>2, <1>3, <1>4, <1>5 DEF Load, Counted

-----------------------------------------------------------------------------
(* The invariant holds at first, and every step keeps it.                  *)
LEMMA InitIInv == Init => IInv
<1> SUFFICES ASSUME Init PROVE Fine(table, tags, filter) /\ Rest /\ Load
  BY IInvParts
<1>1. IsFiniteSet({}) /\ Cardinality({}) = 0
  BY FS_EmptySet
<1>2. Fine(table, tags, filter)
  BY EmptyFine DEF Init
<1>3. Rest
  <2>1. {p \in Policy : tags[p] # 0} = {} /\ \A p \in Policy : tags[p] = 0
    BY DEF Init
  <2>2. Distinct(tags) /\ Dense(tags)
    BY <1>1, <2>1 DEF Distinct, Dense
  <2> QED  BY <2>2 DEF Rest, Init
<1>4. Load
  <2>1. NoTask \in Task /\ NoTask.st = "new"
    BY DEF NoTask, Task
  <2>2. Running = {}
    BY <2>1 DEF Init, Running
  <2>3. Owned
    BY <2>2 DEF Owned
  <2> QED  BY <1>1, <2>1, <2>2, <2>3 DEF Load, Counted, Init
<1> QED  BY <1>2, <1>3, <1>4

LEMMA ClearIInv ==
  ASSUME Rest, Clear, filter' \in Filter,
         enabled' \in BOOLEAN, paused' \in BOOLEAN, cpaused' \in SUBSET Client,
         UNCHANGED policy
  PROVE  Fine(table, tags, filter)' /\ Rest'
<1>1. Fine(table, tags, filter)'
  BY EmptyFine DEF Clear
<1>2. {p \in Policy : tags'[p] # 0} = {} /\ \A p \in Policy : tags'[p] = 0
  BY DEF Clear
<1>3. Distinct(tags') /\ Dense(tags')
  BY <1>2, FS_EmptySet DEF Distinct, Dense
<1>4. tags' \in [Policy -> Nat]
  BY DEF Clear
<1> QED  BY <1>1, <1>3, <1>4 DEF Rest

LEMMA ReplayIInv ==
  ASSUME Fine(table, tags, filter), Rest, Load,
         NEW q \in Query, NEW c \in Client, NEW n \in Name, Replay(q, c, n)
  PROVE  Fine(table, tags, filter)' /\ Rest' /\ Load'
<1> DEFINE g == Tagged(policy[c])
<1>1. /\ tags \in [Policy -> Nat] /\ g \in [Policy -> Nat] /\ Distinct(g) /\ Dense(g)
      /\ \A r \in Policy : tags[r] # 0 => g[r] = tags[r]
  BY TaggedFacts DEF Rest
<1>2. tags' = g
  BY DEF Replay
<1>3. PICK i \in DOMAIN table : table' = [table EXCEPT ![i] = Refreshed(@)]
  BY DEF Replay, Replayable, At
<1> HIDE DEF g
<1>4. Fine(table, g, filter)
  BY <1>1, RenumberedFine
<1>5. table[i] \in Entry /\ Sound(table[i], g, filter)
  BY <1>4 DEF Fine
<1>6. Fine([table EXCEPT ![i] = Refreshed(table[i])], g, filter)
  BY <1>4, <1>5, RefreshedSound, ReplacedFine
<1>7. Fine(table, tags, filter)'
  BY <1>2, <1>3, <1>6 DEF Replay
<1>8. Rest'
  BY <1>1, <1>2 DEF Rest, Replay
<1>9. [st |-> "replayed", client |-> c, name |-> n] \in Task
  BY DEF Task
<1>10. Load'
  BY <1>9, LoadAside DEF Replay
<1> QED  BY <1>7, <1>8, <1>10

LEMMA ReceiveIInv ==
  ASSUME Fine(table, tags, filter), Rest, Load,
         NEW q \in Query, NEW c \in Client, NEW n \in Name, Receive(q, c, n)
  PROVE  Fine(table, tags, filter)' /\ Rest' /\ Load'
<1> DEFINE g == Tagged(policy[c])
<1>1. /\ tags \in [Policy -> Nat] /\ g \in [Policy -> Nat] /\ Distinct(g) /\ Dense(g)
      /\ \A r \in Policy : tags[r] # 0 => g[r] = tags[r]
  BY TaggedFacts DEF Rest
<1>2. tags' = g \/ tags' = tags
  BY DEF Receive
<1> HIDE DEF g
<1>3. Fine(table, tags', filter) /\ tags' \in [Policy -> Nat] /\ Distinct(tags') /\ Dense(tags')
  BY <1>1, <1>2, RenumberedFine DEF Rest
<1>4. Fine(table, tags, filter)'
  BY <1>3 DEF Receive
<1>5. Rest'
  BY <1>3 DEF Rest, Receive
<1>6. task[q].st = "new"
  BY DEF Receive
<1>7. ASSUME task' = [task EXCEPT ![q] = [st |-> "dropped", client |-> c, name |-> n]],
             UNCHANGED inflight
      PROVE  Load'
  <2>1. LET x == [st |-> "dropped", client |-> c, name |-> n] IN x \in Task /\ x.st = "dropped"
    BY DEF Task
  <2> QED  BY <1>6, <1>7, <2>1, LoadAside
<1>8. ASSUME task' = [task EXCEPT ![q] = [st |-> "queued", client |-> c, name |-> n]],
             inflight' = inflight + 1
      PROVE  Load'
  <2>1. LET x == [st |-> "queued", client |-> c, name |-> n] IN
        x \in Task /\ x.st = "queued" /\ x.client = c /\ x.name = n
    BY DEF Task
  <2> QED  BY <1>6, <1>8, <2>1, LoadTaken
<1> QED  BY <1>4, <1>5, <1>7, <1>8 DEF Receive

(* Whose datagram a task is.                                               *)
LEMMA OwnerType ==
  ASSUME Load, NEW q \in Query, task[q].st \in {"queued", "waiting"}
  PROVE  task[q].client \in Client /\ task[q].name \in Name
BY DEF Load, Owned, Running

LEMMA DecideIInv ==
  ASSUME Fine(table, tags, filter), Rest, Load,
         NEW q \in Query, NEW storable \in BOOLEAN, Decide(q, storable)
  PROVE  Fine(table, tags, filter)' /\ Rest' /\ Load'
<1> DEFINE c == task[q].client
           n == task[q].name
<1>1. c \in Client /\ n \in Name /\ task[q].st = "queued"
  BY OwnerType DEF Decide
<1>2. UNCHANGED <<filter, enabled, paused, cpaused, policy>>
  BY DEF Decide
<1>3. \/ Denied(c, n) /\ Store(c, n, "blocked", TRUE, storable) /\ End(q)
      \/ ~Denied(c, n) /\ Store(c, n, "cached", TRUE, storable) /\ End(q)
      \/ task' = [task EXCEPT ![q].st = "waiting"] /\ UNCHANGED <<table, tags, inflight>>
  BY DEF Decide
<1> HIDE DEF c, n
<1>4. CASE Denied(c, n) /\ Store(c, n, "blocked", TRUE, storable) /\ End(q)
  <2>1. TRUE => ("blocked" = "blocked" <=> Denied(c, n))
    BY <1>4
  <2> QED  BY <1>1, <1>2, <1>4, <2>1, StoredFine, LoadFreed
<1>5. CASE ~Denied(c, n) /\ Store(c, n, "cached", TRUE, storable) /\ End(q)
  <2>1. TRUE => ("cached" = "blocked" <=> Denied(c, n))
    BY <1>5
  <2> QED  BY <1>1, <1>2, <1>5, <2>1, StoredFine, LoadFreed
<1>6. CASE task' = [task EXCEPT ![q].st = "waiting"] /\ UNCHANGED <<table, tags, inflight>>
  <2>1. Load'
    BY <1>1, <1>6, LoadWaits
  <2>2. Fine(table, tags, filter)' /\ Rest'
    BY <1>2, <1>6 DEF Rest, Fine
  <2> QED  BY <2>1, <2>2
<1> QED  BY <1>3, <1>4, <1>5, <1>6

LEMMA FinishIInv ==
  ASSUME Fine(table, tags, filter), Rest, Load,
         NEW q \in Query, NEW act \in {"forwarded", "cached", "blocked", "failed"},
         NEW storable \in BOOLEAN, Finish(q, act, storable)
  PROVE  Fine(table, tags, filter)' /\ Rest' /\ Load'
<1> DEFINE c == task[q].client
           n == task[q].name
<1>1. c \in Client /\ n \in Name /\ task[q].st = "waiting"
  BY OwnerType DEF Finish
<1>2. UNCHANGED <<filter, enabled, paused, cpaused, policy>>
  BY DEF Finish
<1>3. IF act = "failed" THEN UNCHANGED <<table, tags>> ELSE Store(c, n, act, FALSE, storable)
  BY DEF Finish
<1>4. Load'
  BY <1>1, LoadFreed DEF Finish
<1> HIDE DEF c, n
<1>5. CASE act = "failed"
  <2>1. Fine(table, tags, filter)' /\ Rest'
    BY <1>2, <1>3, <1>5 DEF Rest, Fine
  <2> QED  BY <1>4, <2>1
<1>6. CASE act # "failed"
  <2>1. Store(c, n, act, FALSE, storable) /\ act \in {"cached", "forwarded", "blocked"}
    BY <1>3, <1>6
  <2>2. FALSE => (act = "blocked" <=> Denied(c, n))
    OBVIOUS
  <2> QED  BY <1>1, <1>2, <1>4, <2>1, <2>2, StoredFine
<1> QED  BY <1>5, <1>6

LEMMA AgeIInv ==
  ASSUME Fine(table, tags, filter), Rest, Load, NEW i \in DOMAIN table, Age(i)
  PROVE  Fine(table, tags, filter)' /\ Rest' /\ Load'
<1>1. table[i] \in Entry /\ Sound(table[i], tags, filter)
  BY DEF Fine
<1>2. PICK a \in {"near", "expired"} : table' = [table EXCEPT ![i].age = a]
  BY DEF Age
<1>3. table' = [table EXCEPT ![i] = [table[i] EXCEPT !.age = a]]
  BY <1>2
<1>4. Fine([table EXCEPT ![i] = [table[i] EXCEPT !.age = a]], tags, filter)
  BY <1>1, AgedSound, ReplacedFine
<1>5. Fine(table, tags, filter)'
  BY <1>3, <1>4 DEF Age
<1>6. Rest' /\ Load'
  BY LoadKept DEF Rest, Age
<1> QED  BY <1>5, <1>6

LEMMA OperatorIInv ==
  ASSUME Fine(table, tags, filter), Rest, Load, Operator
  PROVE  Fine(table, tags, filter)' /\ Rest' /\ Load'
<1>1. Load'
  BY LoadKept DEF Operator, SwapFilter, Pause, Resume, PauseOver, Toggle, Flush,
                  PauseClient, ResumeClient, ReloadClients
<1>2. /\ filter \in Filter /\ enabled \in BOOLEAN /\ paused \in BOOLEAN
      /\ cpaused \in SUBSET Client
  BY DEF Rest
<1>3. ASSUME NEW f \in Filter, SwapFilter(f)
      PROVE  Fine(table, tags, filter)' /\ Rest'
  BY <1>2, <1>3, ClearIInv DEF SwapFilter
<1>4. ASSUME Pause \/ Resume \/ Flush \/ \E c \in Client : PauseClient(c) \/ ResumeClient(c)
      PROVE  Fine(table, tags, filter)' /\ Rest'
  <2>1. /\ Clear /\ UNCHANGED <<filter, enabled, policy>>
        /\ paused' \in BOOLEAN /\ cpaused' \in SUBSET Client
    BY <1>2, <1>4 DEF Pause, Resume, Flush, PauseClient, ResumeClient
  <2> QED  BY <1>2, <2>1, ClearIInv
<1>5. ASSUME PauseOver \/ Toggle
      PROVE  Fine(table, tags, filter)' /\ Rest'
  <2>1. /\ UNCHANGED <<table, tags, filter, policy>>
        /\ enabled' \in BOOLEAN /\ paused' \in BOOLEAN /\ cpaused' \in SUBSET Client
    BY <1>2, <1>5 DEF PauseOver, Toggle
  <2> QED  BY <2>1 DEF Rest, Fine
<1>6. ASSUME NEW c \in Client, NEW p \in Policy, ReloadClients(c, p)
      PROVE  Fine(table, tags, filter)' /\ Rest'
  BY <1>6 DEF ReloadClients, Rest, Fine
<1> QED  BY <1>1, <1>3, <1>4, <1>5, <1>6 DEF Operator

LEMMA NextIInv == IInv /\ [Next]_vars => IInv'
<1> SUFFICES ASSUME Fine(table, tags, filter), Rest, Load, [Next]_vars
             PROVE  Fine(table, tags, filter)' /\ Rest' /\ Load'
  BY IInvParts, IInvPartsNext
<1>1. ASSUME NEW q \in Query, NEW c \in Client, NEW n \in Name,
             Replay(q, c, n) \/ Receive(q, c, n)
      PROVE  Fine(table, tags, filter)' /\ Rest' /\ Load'
  BY <1>1, ReplayIInv, ReceiveIInv
<1>2. ASSUME NEW q \in Query, NEW b \in BOOLEAN,
             \/ Decide(q, b)
             \/ \E act \in {"forwarded", "cached", "blocked", "failed"} : Finish(q, act, b)
      PROVE  Fine(table, tags, filter)' /\ Rest' /\ Load'
  BY <1>2, DecideIInv, FinishIInv
<1>3. ASSUME NEW i \in DOMAIN table, Age(i)
      PROVE  Fine(table, tags, filter)' /\ Rest' /\ Load'
  BY <1>3, AgeIInv
<1>4. CASE Operator
  BY <1>4, OperatorIInv
<1>5. CASE UNCHANGED vars
  BY <1>5, LoadKept DEF vars, Rest, Fine
<1> QED  BY <1>1, <1>2, <1>3, <1>4, <1>5 DEF Next

(* Through every refresh, pause, toggle, client edit and flush, the table  *)
(* is bounded, its keys each name one policy, and a verdict recorded in    *)
(* the step that reached it is the verdict now (serve, store,              *)
(* _policy_tag, Pipeline.filter, pause, reload_clients).                   *)
THEOREM ReplaySoundness == Spec => []ReplayTableSound
<1>1. IInv => ReplayTableSound
  <2>1. Counted => InflightExact
    BY DEF Counted, InflightExact, Running
  <2>2. RecordedCurrent => SyncReplayIsCurrent
    BY DEF RecordedCurrent, Current, SyncReplayIsCurrent
  <2> QED  BY <2>1, <2>2 DEF IInv, ReplayTableSound
<1> QED  BY <1>1, InitIInv, NextIInv, PTL DEF Spec

-----------------------------------------------------------------------------
(* The gates.  An address the ACL remembers, or reads as attached, was     *)
(* local not long before; a failure the detector counts is one that        *)
(* happened; and what a bucket still holds, with what it has let through   *)
(* since any moment, is what that stretch of time allows.                  *)
LocalSince(a, time) == a \in Addr /\ wasLocal[a] >= time
AclSound ==
  /\ clock \in Nat
  /\ DOMAIN wasLocal = Addr /\ \A a \in Addr : wasLocal[a] \in Int /\ wasLocal[a] <= clock
  /\ \A a \in routes : LocalSince(a, clock)
  /\ readAt \in Int /\ readAt <= clock /\ memoAt \in Nat /\ memoAt <= clock
  /\ \A a \in attached : LocalSince(a, readAt)
  /\ \A a \in memo : a \in Lan \/ LocalSince(a, memoAt + 1 - Refresh)

Times(f) == f \in [RandomName -> Int]
DgaSound ==
  /\ DOMAIN flops = Addr /\ DOMAIN failed \subseteq Addr
  /\ \A a \in Addr : Times(flops[a]) /\ \A n \in RandomName : flops[a][n] >= Gates!Never
  /\ \A a \in DOMAIN failed : Times(failed[a]) /\ \A n \in RandomName : failed[a][n] <= flops[a][n]

Paced(s) ==
  \A i, j \in 1 .. Len(s) : i <= j => j - i + 1 <= Burst + Rate * (s[j] - s[i])
Paid(s, tokens, time) ==
  \A i \in 1 .. Len(s) : Len(s) - i + 1 + tokens <= Burst + Rate * (time - s[i])
Bucket(b) == b.tokens \in Nat /\ b.last \in Nat /\ b.last <= clock
RateSound ==
  /\ DOMAIN let = Addr /\ DOMAIN buckets \subseteq Addr
  /\ \A a \in DOMAIN buckets : Bucket(buckets[a])
  /\ \A a \in Addr : let[a] \in Seq(Nat) /\ Paced(let[a]) /\ Paid(let[a], Gates!Tokens(a), clock)

GatesInv == AclSound /\ DgaSound /\ RateSound /\ Gates!VerdictsJustified

LEMMA GateConstants ==
  /\ Refresh \in Nat /\ Refresh > 0 /\ BurstWindow \in Nat /\ BurstNames \in Nat
  /\ Rate \in Nat /\ Burst \in Nat /\ Burst > 0 /\ Idle \in Nat /\ Burst <= Rate * Idle
  /\ IsFiniteSet(RandomName)
<1>1. Gates!IsFiniteSet(RandomName) => IsFiniteSet(RandomName)
  BY DEF Gates!IsFiniteSet, IsFiniteSet
<1> QED BY <1>1, GatesAssumption DEF Gates!AdmissionConstants

-----------------------------------------------------------------------------
(* client_ip finds the client, whatever it claims.                         *)
LEMMA ClientIs ==
  ASSUME NEW real \in Addr, NEW claimed \in Claims, NEW hops \in 0 .. 1
  PROVE  Gates!From(real, FALSE, claimed, hops) = real
<1>1. \A a \in Addr : a \notin Proxy
  BY GatesAssumption DEF Gates!AdmissionConstants
<1>2. CASE hops = 0
  BY <1>1, <1>2 DEF Gates!From, Gates!Peer, Gates!ClientIp, Gates!Trusted
<1>3. CASE hops = 1
  <2>1. PICK peer : peer = Gates!Peer(real, hops)
    OBVIOUS
  <2>2. peer \in Proxy
    BY <1>3, <2>1, GatesAssumption DEF Gates!Peer, Gates!AdmissionConstants
  <2>3. PICK xff : xff = Gates!Header(real, claimed, hops)
    OBVIOUS
  <2>4. PICK S : S = {claimed[i] : i \in DOMAIN claimed} \cup {real}
    OBVIOUS
  <2>5. claimed \in Seq(S) /\ <<real>> \in Seq(S)
    <3>1. claimed \in Seq({claimed[i] : i \in DOMAIN claimed})
      BY GatesAssumption DEF Gates!AdmissionConstants
    <3> QED BY <2>4, <3>1
  <2>6. /\ DOMAIN xff = 1 .. Len(claimed) + 1 /\ xff[Len(claimed) + 1] = real /\ Len(claimed) \in Nat
    <3>1. xff = claimed \o <<real>>
      BY <1>3, <2>3 DEF Gates!Header
    <3>2. xff \in Seq(S) /\ Len(xff) = Len(claimed) + 1 /\ Len(claimed) \in Nat
      BY <2>5, <3>1
    <3>3. xff[Len(claimed) + 1] = real
      BY <2>5, <3>1
    <3> QED BY <3>2, <3>3
  <2>7. PICK strangers : strangers = {i \in DOMAIN xff : ~Gates!Trusted(xff[i])}
    OBVIOUS
  <2>8. Len(claimed) + 1 \in strangers /\ \A i \in strangers : i \in Int /\ Len(claimed) + 1 >= i
    BY <1>1, <2>6, <2>7 DEF Gates!Trusted
  <2>9. Gates!Max(strangers) = Len(claimed) + 1
    <3>1. \A x \in strangers : (\A y \in strangers : x >= y) => x = Len(claimed) + 1
      BY <2>6, <2>8
    <3> QED BY <2>8, <3>1 DEF Gates!Max
  <2> QED BY <2>1, <2>2, <2>3, <2>6, <2>7, <2>8, <2>9 DEF Gates!From, Gates!ClientIp, Gates!Trusted
<1>4. hops = 0 \/ hops = 1
  OBVIOUS
<1> QED BY <1>2, <1>3, <1>4

(* A stage that answers is the first that would.                           *)
LEMMA FirstStage ==
  ASSUME NEW at \in SUBSET (1 .. 7), at # {}
  PROVE  Gates!Min(at) \in at /\ \A i \in at : Gates!Min(at) <= i
<1>1. \E x \in at : \A y \in at : x <= y
  <2> SUFFICES ASSUME \A x \in at : \E y \in at : y < x PROVE FALSE
    OBVIOUS
  <2>1. 1 \notin at
    BY SMT
  <2>2. 2 \notin at
    BY <2>1
  <2>3. 3 \notin at
    BY <2>1, <2>2
  <2>4. 4 \notin at
    BY <2>1, <2>2, <2>3
  <2>5. 5 \notin at
    BY <2>1, <2>2, <2>3, <2>4
  <2>6. 6 \notin at
    BY <2>1, <2>2, <2>3, <2>4, <2>5
  <2>7. 7 \notin at
    BY <2>1, <2>2, <2>3, <2>4, <2>5, <2>6
  <2>8. \A x \in at : x \in {1, 2, 3, 4, 5, 6, 7}
    OBVIOUS
  <2> QED BY <2>1, <2>2, <2>3, <2>4, <2>5, <2>6, <2>7, <2>8
<1> QED BY <1>1 DEF Gates!Min

(* What a query does, with what its stages decided.                        *)
Outcome(real, plain, n, got, trimmed, action, rcode) ==
  /\ verdict' = [real |-> real, from |-> real, plain |-> plain, action |-> action]
  /\ IF "limit" \in gates THEN Gates!Spend(real, trimmed) ELSE UNCHANGED <<buckets, let>>
  /\ (plain /\ Gates!Consult(real, got)) \/ UNCHANGED <<memo, memoAt, attached, readAt>>
  /\ "acl" \in gates /\ plain /\ ~Gates!Admits(real, got) => action \in {"limited", "authoritative", "refused"}
  /\ action = "dga" => Gates!Check(real, n)
  /\ \/ failed' = failed /\ flops' = flops
     \/ /\ action # "dga" /\ n \in RandomName /\ rcode \in {"NXDOMAIN", "SERVFAIL"}
        /\ Gates!NoteOutcome(real, n, rcode) /\ flops' = [flops EXCEPT ![real][n] = clock]
  /\ UNCHANGED <<gates, clock, routes, wasLocal>>

LEMMA ReceiveIs ==
  ASSUME NEW real, NEW plain \in BOOLEAN, NEW n, NEW claimed, NEW hops,
         Gates!From(real, plain, claimed, hops) = real, Gates!Receive(real, plain, n, claimed, hops)
  PROVE  \E got \in {routes, {}} : \E trimmed, action, rcode : Outcome(real, plain, n, got, trimmed, action, rcode)
<1> DEFINE Open(a, got) == {i \in DOMAIN Gates!Stages : Gates!Answers(a, plain, n, got)[Gates!Stages[i]]}
           Act(at) == IF at = {} THEN "resolved" ELSE Gates!Verdict[Gates!Stages[Gates!Min(at)]]
           Does(a, got, trimmed, at, rcode) ==
             /\ verdict' = [real |-> real, from |-> a, plain |-> plain, action |-> Act(at)]
             /\ IF "limit" \in gates THEN Gates!Spend(a, trimmed) ELSE UNCHANGED <<buckets, let>>
             /\ IF "acl" \in gates /\ plain /\ \A i \in at : i >= 3
                THEN Gates!Consult(a, got) ELSE UNCHANGED Gates!acl
             /\ IF "dga" \notin gates \/ Act(at) \in {"blocked", "dga"} THEN UNCHANGED failed
                ELSE Gates!NoteOutcome(a, n, rcode)
             /\ flops' = IF "dga" \in gates /\ n \in RandomName /\ rcode \in {"NXDOMAIN", "SERVFAIL"}
                         THEN [flops EXCEPT ![a][n] = clock] ELSE flops
             /\ UNCHANGED <<gates, clock, routes, wasLocal>>
           Whole(a) == \E got \in Gates!Read(a, plain), trimmed \in Gates!Trims(a) :
                         \E rcode \in Gates!Rcodes(Act(Open(a, got))) : Does(a, got, trimmed, Open(a, got), rcode)
<1>1. Whole(Gates!From(real, plain, claimed, hops))
  BY ONLY Gates!Receive(real, plain, n, claimed, hops) DEF Gates!Receive
<1>2. Whole(real)
  <2> HIDE DEF Whole
  <2> QED BY <1>1
<1>3. PICK got \in Gates!Read(real, plain), trimmed \in Gates!Trims(real) :
        \E rcode \in Gates!Rcodes(Act(Open(real, got))) : Does(real, got, trimmed, Open(real, got), rcode)
  BY <1>2
<1>4. PICK at : at = Open(real, got)
  OBVIOUS
<1>5. PICK action : action = Act(at)
  OBVIOUS
<1>6. PICK rcode \in Gates!Rcodes(action) : Does(real, got, trimmed, at, rcode)
  BY <1>3, <1>4, <1>5
<1>7. got \in {routes, {}}
  BY DEF Gates!Read
<1>8. /\ at \in SUBSET (1 .. 7)
      /\ \A i \in 1 .. 7 : i \in at <=> Gates!Answers(real, plain, n, got)[Gates!Stages[i]]
  BY <1>4 DEF Gates!Stages
<1>9. Gates!Answers(real, plain, n, got).acl => 3 \in at
  BY <1>8 DEF Gates!Stages
<1>10. 3 \in at => action \in {"limited", "authoritative", "refused"}
  <2> SUFFICES ASSUME 3 \in at PROVE action \in {"limited", "authoritative", "refused"}
    OBVIOUS
  <2>1. PICK i : i = Gates!Min(at)
    OBVIOUS
  <2>2. i \in 1 .. 7 /\ i <= 3 /\ action = Gates!Verdict[Gates!Stages[i]]
    BY <1>5, <1>8, <2>1, FirstStage
  <2>3. i = 1 \/ i = 2 \/ i = 3
    BY <2>2
  <2> QED BY <2>2, <2>3 DEF Gates!Verdict, Gates!Stages
<1>11. action = "dga" => 7 \in at
  <2> SUFFICES ASSUME action = "dga" PROVE 7 \in at
    OBVIOUS
  <2>1. at # {}
    BY <1>5
  <2>2. PICK i : i = Gates!Min(at)
    OBVIOUS
  <2>3. i \in at /\ i \in 1 .. 7 /\ action = Gates!Verdict[Gates!Stages[i]]
    BY <1>5, <1>8, <2>1, <2>2, FirstStage
  <2>4. i = 1 \/ i = 2 \/ i = 3 \/ i = 4 \/ i = 5 \/ i = 6 \/ i = 7
    BY <2>3
  <2>5. i = 7
    BY <2>3, <2>4 DEF Gates!Verdict, Gates!Stages
  <2> QED BY <2>3, <2>5
<1>12. action = "dga" => Gates!Check(real, n)
  <2>1. 7 \in at => Gates!Answers(real, plain, n, got).dga
    BY <1>8 DEF Gates!Stages
  <2> QED BY <1>11, <2>1 DEF Gates!Answers
<1>13. action \in {"blocked", "dga"} => rcode = "REFUSED"
  BY <1>6 DEF Gates!Rcodes
<1>14. Outcome(real, plain, n, got, trimmed, action, rcode)
  <2>1. "acl" \in gates /\ plain /\ ~Gates!Admits(real, got) => action \in {"limited", "authoritative", "refused"}
    BY <1>9, <1>10 DEF Gates!Answers
  <2>2. verdict' = [real |-> real, from |-> real, plain |-> plain, action |-> action]
    BY <1>5, <1>6
  <2>3. /\ IF "limit" \in gates THEN Gates!Spend(real, trimmed) ELSE UNCHANGED <<buckets, let>>
        /\ UNCHANGED <<gates, clock, routes, wasLocal>>
    BY <1>6
  <2>4. (plain /\ Gates!Consult(real, got)) \/ UNCHANGED <<memo, memoAt, attached, readAt>>
    BY <1>6 DEF Gates!acl
  <2>5. \/ failed' = failed /\ flops' = flops
        \/ /\ action # "dga" /\ n \in RandomName /\ rcode \in {"NXDOMAIN", "SERVFAIL"}
           /\ Gates!NoteOutcome(real, n, rcode) /\ flops' = [flops EXCEPT ![real][n] = clock]
    <3>1. /\ IF "dga" \notin gates \/ action \in {"blocked", "dga"} THEN failed' = failed
             ELSE Gates!NoteOutcome(real, n, rcode)
          /\ flops' = IF "dga" \in gates /\ n \in RandomName /\ rcode \in {"NXDOMAIN", "SERVFAIL"}
                      THEN [flops EXCEPT ![real][n] = clock] ELSE flops
      BY <1>5, <1>6
    <3>2. ~(n \in RandomName /\ rcode \in {"NXDOMAIN", "SERVFAIL"}) /\ Gates!NoteOutcome(real, n, rcode) => failed' = failed
      BY DEF Gates!NoteOutcome, Gates!LooksRandom, Gates!Counts
    <3>3. rcode = "REFUSED" => rcode \notin {"NXDOMAIN", "SERVFAIL"}
      OBVIOUS
    <3> QED BY <1>13, <3>1, <3>2, <3>3
  <2> QED BY <1>12, <2>1, <2>2, <2>3, <2>4, <2>5 DEF Outcome
<1> QED BY <1>7, <1>14

-----------------------------------------------------------------------------
(* The ACL.                                                                *)
LEMMA AdmittedIsLocal ==
  ASSUME AclSound, NEW a \in Addr, NEW got \in {routes, {}}, Gates!Admits(a, got), a \notin Lan
  PROVE  clock - wasLocal[a] < 2 * Refresh
<1>0. /\ clock \in Int /\ memoAt \in Int /\ readAt \in Int /\ wasLocal[a] \in Int /\ Refresh \in Int /\ Refresh > 0
  BY GateConstants DEF AclSound
<1>1. CASE Gates!Remembered(a)
  <2>1. wasLocal[a] >= memoAt + 1 - Refresh /\ clock - memoAt < Refresh
    BY <1>1 DEF AclSound, LocalSince, Gates!Remembered, Gates!MemoHolds
  <2> QED BY <1>0, <2>1
<1>2. CASE ~Gates!Remembered(a) /\ Gates!ReadsRoutes(a)
  <2>1. wasLocal[a] >= clock
    BY <1>2 DEF AclSound, LocalSince, Gates!Admits, Gates!Attached
  <2> QED BY <1>0, <2>1
<1>3. CASE ~Gates!Remembered(a) /\ ~Gates!ReadsRoutes(a)
  <2>1. wasLocal[a] >= readAt /\ ~(clock - readAt >= Refresh)
    BY <1>3 DEF AclSound, LocalSince, Gates!Admits, Gates!Attached, Gates!ReadsRoutes
  <2> QED BY <1>0, <2>1
<1> QED BY <1>1, <1>2, <1>3

LEMMA ConsultKeeps ==
  ASSUME AclSound, NEW a \in Addr, NEW got \in {routes, {}}, Gates!Consult(a, got),
         clock' = clock, routes' = routes, wasLocal' = wasLocal
  PROVE  AclSound'
<1>0. /\ clock \in Int /\ memoAt \in Int /\ readAt \in Int /\ \A b \in Addr : wasLocal[b] \in Int
      /\ Refresh \in Int /\ Refresh > 0 /\ clock \in Nat /\ memoAt <= clock /\ readAt <= clock
  BY GateConstants DEF AclSound
<1>1. CASE Gates!Remembered(a)
  BY <1>1 DEF Gates!Consult, Gates!acl, AclSound, LocalSince
<1>2. CASE ~Gates!Remembered(a)
  <2> DEFINE expired == a \in memo
             before == IF expired \/ Gates!Attached(a, got) # attached THEN {} ELSE memo
             kept == IF Gates!Cardinality(before) >= MaxMemo THEN {} ELSE before
  <2>1. /\ memoAt' = IF expired THEN clock ELSE memoAt
        /\ attached' = Gates!Attached(a, got)
        /\ readAt' = IF Gates!ReadsRoutes(a) THEN clock ELSE readAt
        /\ memo' = IF Gates!Admits(a, got) THEN kept \cup {a} ELSE before
    BY <1>2 DEF Gates!Consult
  <2>2. memoAt' \in Nat /\ memoAt' <= clock /\ readAt' \in Int /\ readAt' <= clock
    BY <1>0, <2>1 DEF AclSound
  <2>3. \A b \in attached' : LocalSince(b, readAt')
    BY <2>1 DEF Gates!Attached, AclSound, LocalSince
  <2>4. \A b \in memo' : (b = a /\ Gates!Admits(a, got)) \/ (b \in memo /\ memoAt' = memoAt)
    BY <2>1
  <2>5. Gates!Admits(a, got) /\ a \notin Lan => LocalSince(a, memoAt' + 1 - Refresh)
    <3> SUFFICES ASSUME Gates!Admits(a, got), a \notin Lan PROVE LocalSince(a, memoAt' + 1 - Refresh)
      OBVIOUS
    <3>1. a \in attached'
      BY <1>2, <2>1 DEF Gates!Admits
    <3>2. wasLocal[a] >= readAt'
      BY <2>3, <3>1 DEF LocalSince
    <3>3. Gates!ReadsRoutes(a) => readAt' = clock
      BY <2>1
    <3>4. ~Gates!ReadsRoutes(a) => readAt' = readAt /\ ~(clock - readAt >= Refresh)
      BY <1>2, <2>1 DEF Gates!ReadsRoutes
    <3>5. clock - readAt' < Refresh
      BY <1>0, <3>3, <3>4
    <3>6. wasLocal[a] >= memoAt' + 1 - Refresh
      <4>1. PICK w \in Int, m \in Int, r \in Int : w = wasLocal[a] /\ m = memoAt' /\ r = readAt'
        BY <1>0, <2>2
      <4>2. w >= r /\ clock - r < Refresh /\ m <= clock
        BY <2>2, <3>2, <3>5, <4>1
      <4>3. w >= m + 1 - Refresh
        BY <1>0, <4>2
      <4> QED BY <4>1, <4>3
    <3> QED BY <3>6 DEF LocalSince
  <2>6. \A b \in memo' : b \in Lan \/ LocalSince(b, memoAt' + 1 - Refresh)
    BY <2>4, <2>5 DEF AclSound
  <2> QED BY <1>0, <2>2, <2>3, <2>6 DEF AclSound, LocalSince
<1> QED BY <1>1, <1>2

(* No stretch of the ACL's memory is touched by what else happens.         *)
LEMMA AclAside ==
  ASSUME AclSound, UNCHANGED <<clock, routes, wasLocal, memo, memoAt, attached, readAt>>
  PROVE  AclSound'
  BY DEF AclSound, LocalSince

LEMMA RerouteKeeps ==
  ASSUME AclSound, NEW to \in SUBSET (Addr \ Lan), Gates!Reroute(to)
  PROVE  AclSound'
<1>1. /\ clock' = clock /\ routes' = to /\ UNCHANGED <<memo, memoAt, attached, readAt>>
      /\ wasLocal' = [a \in Addr |-> IF a \in routes \cup to THEN clock ELSE wasLocal[a]]
  BY DEF Gates!Reroute, Gates!acl
<1>2. /\ DOMAIN wasLocal' = Addr /\ \A a \in Addr : wasLocal'[a] \in Int /\ wasLocal'[a] <= clock
      /\ \A a \in Addr : wasLocal'[a] >= wasLocal[a]
      /\ \A a \in to : a \in Addr /\ wasLocal'[a] = clock
  BY <1>1 DEF AclSound
<1>3. \A a, time : time \in Int /\ LocalSince(a, time) => LocalSince(a, time)'
  BY <1>2 DEF LocalSince, AclSound
<1>4. memoAt + 1 - Refresh \in Int /\ readAt \in Int /\ clock \in Int
  BY GateConstants DEF AclSound
<1>5. \A a \in attached : LocalSince(a, readAt)'
  BY <1>1, <1>3, <1>4 DEF AclSound
<1>6. \A a \in memo : a \in Lan \/ LocalSince(a, memoAt + 1 - Refresh)'
  BY <1>1, <1>3, <1>4 DEF AclSound
<1>7. \A a \in routes' : LocalSince(a, clock)'
  BY <1>1, <1>2, <1>4 DEF LocalSince
<1> QED BY <1>1, <1>2, <1>5, <1>6, <1>7 DEF AclSound

LEMMA AclTick ==
  ASSUME AclSound, Gates!Tick
  PROVE  AclSound'
<1>1. /\ clock' = clock + 1 /\ routes' = routes /\ UNCHANGED <<memo, memoAt, attached, readAt>>
      /\ wasLocal' = [a \in Addr |-> IF a \in routes THEN clock + 1 ELSE wasLocal[a]]
  BY DEF Gates!Tick, Gates!acl
<1>2. /\ DOMAIN wasLocal' = Addr /\ \A a \in Addr : wasLocal'[a] \in Int /\ wasLocal'[a] <= clock'
      /\ \A a \in Addr : wasLocal'[a] >= wasLocal[a]
      /\ \A a \in routes : a \in Addr /\ wasLocal'[a] = clock'
  BY <1>1 DEF AclSound, LocalSince
<1>3. \A a, time : time \in Int /\ LocalSince(a, time) => LocalSince(a, time)'
  BY <1>2 DEF LocalSince, AclSound
<1>4. /\ memoAt + 1 - Refresh \in Int /\ readAt \in Int /\ clock' \in Nat
      /\ readAt <= clock' /\ memoAt \in Nat /\ memoAt <= clock'
  BY <1>1, GateConstants DEF AclSound
<1>5. \A a \in attached : LocalSince(a, readAt)'
  BY <1>1, <1>3, <1>4 DEF AclSound
<1>6. \A a \in memo : a \in Lan \/ LocalSince(a, memoAt + 1 - Refresh)'
  BY <1>1, <1>3, <1>4 DEF AclSound
<1>7. \A a \in routes' : LocalSince(a, clock)'
  BY <1>1, <1>2, <1>4 DEF LocalSince
<1> QED BY <1>1, <1>2, <1>4, <1>5, <1>6, <1>7 DEF AclSound

-----------------------------------------------------------------------------
(* The detector.                                                           *)
LEMMA NeverIs == Gates!Never \in Int /\ Gates!Never < -BurstWindow /\ Gates!Never < 0
  BY GateConstants DEF Gates!Never

(* It blocks in a campaign only, whatever it has forgotten.                *)
LEMMA CampaignIsReal ==
  ASSUME DgaSound, clock \in Nat, NEW a \in Addr, NEW n, Gates!Check(a, n)
  PROVE  Gates!Cardinality({m \in RandomName : flops[a][m] >= clock - BurstWindow}) >= BurstNames
<1>1. PICK S : S = {m \in RandomName : flops[a][m] >= clock - BurstWindow}
  OBVIOUS
<1>2. PICK T : T = Gates!Recent(a)
  OBVIOUS
<1>3. T \subseteq S
  <2>1. CASE a \in DOMAIN failed
    <3>1. T = {m \in RandomName : failed[a][m] >= clock - BurstWindow}
      BY <1>2, <2>1 DEF Gates!Recent
    <3>2. \A m \in RandomName : failed[a][m] \in Int /\ flops[a][m] \in Int /\ failed[a][m] <= flops[a][m]
      BY <2>1 DEF DgaSound, Times
    <3>3. clock - BurstWindow \in Int
      BY GateConstants
    <3> QED BY <1>1, <3>1, <3>2, <3>3
  <2>2. CASE a \notin DOMAIN failed
    BY <1>2, <2>2 DEF Gates!Recent
  <2> QED BY <2>1, <2>2
<1>4. IsFiniteSet(S) /\ Cardinality(T) <= Cardinality(S) /\ Cardinality(T) \in Nat /\ Cardinality(S) \in Nat
  <2>1. S \subseteq RandomName
    BY <1>1
  <2>2. IsFiniteSet(S)
    BY <2>1, GateConstants, FS_Subset
  <2>3. IsFiniteSet(T) /\ Cardinality(T) <= Cardinality(S)
    BY <1>3, <2>2, FS_Subset
  <2> QED BY <2>2, <2>3, FS_CardinalityType
<1>5. Gates!Cardinality(S) = Cardinality(S) /\ Gates!Cardinality(T) = Cardinality(T)
  BY DEF Gates!Cardinality, Cardinality
<1>6. Cardinality(T) >= BurstNames
  BY <1>2, <1>5 DEF Gates!Check, Gates!Campaign
<1>7. Cardinality(S) >= BurstNames
  BY <1>4, <1>6, GateConstants
<1> QED BY <1>1, <1>5, <1>7

(* A failure is noted in the detector when it is one.                      *)
LEMMA NoteKeeps ==
  ASSUME DgaSound, clock \in Nat, NEW a \in Addr, NEW n \in RandomName, NEW rcode,
         rcode \in {"NXDOMAIN", "SERVFAIL"}, Gates!NoteOutcome(a, n, rcode),
         flops' = [flops EXCEPT ![a][n] = clock], clock' = clock
  PROVE  DgaSound'
<1>1. PICK t : t = IF a \notin DOMAIN failed /\ Gates!Cardinality(DOMAIN failed) >= MaxClients
                   THEN [x \in {} |-> Gates!Quiet] ELSE failed
  OBVIOUS
<1>2. PICK mine : mine = IF a \in DOMAIN t THEN t[a] ELSE Gates!Quiet
  OBVIOUS
<1>3. PICK mine2 : mine2 = [mine EXCEPT ![n] = clock]
  OBVIOUS
<1>4. failed' = Gates!With(t, a, mine2)
  BY <1>1, <1>2, <1>3 DEF Gates!NoteOutcome, Gates!LooksRandom, Gates!Counts
<1>5. DOMAIN t \subseteq DOMAIN failed /\ \A b \in DOMAIN t : t[b] = failed[b]
  BY <1>1
<1>6. Times(flops[a]) /\ \A m \in RandomName : flops[a][m] \in Int /\ flops[a][m] >= Gates!Never
  BY DEF DgaSound, Times
<1>7. Times(mine) /\ \A m \in RandomName : mine[m] <= flops[a][m]
  <2>1. CASE a \in DOMAIN t
    BY <1>2, <1>5, <2>1 DEF DgaSound
  <2>2. CASE a \notin DOMAIN t
    BY <1>2, <1>6, <2>2, NeverIs DEF Times, Gates!Quiet
  <2> QED BY <2>1, <2>2
<1>8. PICK g : g = [flops[a] EXCEPT ![n] = clock]
  OBVIOUS
<1>9. Times(g) /\ Times(mine2) /\ \A m \in RandomName : g[m] >= Gates!Never /\ mine2[m] <= g[m]
  <2>1. Times(g) /\ Times(mine2)
    BY <1>3, <1>6, <1>7, <1>8 DEF Times
  <2>2. \A m \in RandomName : /\ g[m] = IF m = n THEN clock ELSE flops[a][m]
                              /\ mine2[m] = IF m = n THEN clock ELSE mine[m]
    BY <1>3, <1>6, <1>7, <1>8 DEF Times
  <2> QED BY <1>6, <1>7, <2>1, <2>2, NeverIs
<1>10. DOMAIN flops' = Addr /\ flops'[a] = g /\ \A b \in Addr : b # a => flops'[b] = flops[b]
  BY <1>8 DEF DgaSound
<1>11. /\ DOMAIN failed' = DOMAIN t \cup {a} /\ failed'[a] = mine2
       /\ \A b \in DOMAIN t : b # a => failed'[b] = failed[b]
  BY <1>4, <1>5 DEF Gates!With
<1>12. \A b \in Addr : Times(flops'[b]) /\ \A m \in RandomName : flops'[b][m] >= Gates!Never
  BY <1>9, <1>10 DEF DgaSound
<1>13. \A b \in DOMAIN failed' : Times(failed'[b]) /\ \A m \in RandomName : failed'[b][m] <= flops'[b][m]
  <2> SUFFICES ASSUME NEW b \in DOMAIN failed'
               PROVE  Times(failed'[b]) /\ \A m \in RandomName : failed'[b][m] <= flops'[b][m]
    OBVIOUS
  <2>1. CASE b = a
    BY <1>9, <1>10, <1>11, <2>1
  <2>2. CASE b # a
    <3>1. b \in DOMAIN failed /\ b \in Addr
      BY <1>5, <1>11, <2>2 DEF DgaSound
    <3>2. failed'[b] = failed[b] /\ flops'[b] = flops[b]
      BY <1>10, <1>11, <2>2, <3>1
    <3> QED BY <3>1, <3>2 DEF DgaSound
  <2> QED BY <2>1, <2>2
<1>14. DOMAIN failed' \subseteq Addr
  BY <1>5, <1>11 DEF DgaSound
<1>15. Times(g)' = Times(g)
  BY DEF Times
<1>16. \A b \in Addr : Times(flops[b])'
  BY <1>12 DEF Times
<1>17. \A b \in DOMAIN failed' : Times(failed[b])'
  BY <1>13 DEF Times
<1> QED BY <1>10, <1>12, <1>13, <1>14, <1>16, <1>17 DEF DgaSound

(* What is too old to count is forgotten on both sides.                    *)
LEMMA LatelyKeeps ==
  ASSUME clock \in Nat, NEW f, NEW g, Times(f), Times(g),
         \A n \in RandomName : g[n] >= Gates!Never /\ f[n] <= g[n]
  PROVE  /\ Times(Gates!Lately(f)) /\ Times(Gates!Lately(g))
         /\ \A n \in RandomName : Gates!Lately(g)[n] >= Gates!Never /\ Gates!Lately(f)[n] <= Gates!Lately(g)[n]
<1>1. \A h : Gates!Lately(h) = [n \in RandomName |-> IF h[n] < clock + 1 - BurstWindow THEN Gates!Never ELSE h[n]]
  BY DEF Gates!Lately
<1>2. \A n \in RandomName : f[n] \in Int /\ g[n] \in Int
  BY DEF Times
<1>3. Gates!Never \in Int /\ clock + 1 - BurstWindow \in Int
  BY NeverIs, GateConstants
<1>4. Times(Gates!Lately(f)) /\ Times(Gates!Lately(g))
  BY <1>1, <1>2, <1>3 DEF Times
<1>5. ASSUME NEW n \in RandomName
      PROVE  Gates!Lately(g)[n] >= Gates!Never /\ Gates!Lately(f)[n] <= Gates!Lately(g)[n]
  <2>1. Gates!Lately(f)[n] = IF f[n] < clock + 1 - BurstWindow THEN Gates!Never ELSE f[n]
    BY <1>1
  <2>2. Gates!Lately(g)[n] = IF g[n] < clock + 1 - BurstWindow THEN Gates!Never ELSE g[n]
    BY <1>1
  <2>3. PICK x \in Int, y \in Int, z \in Int, t \in Int :
          x = f[n] /\ y = g[n] /\ z = Gates!Never /\ t = clock + 1 - BurstWindow
    BY <1>2, <1>3
  <2>4. x <= y /\ y >= z
    BY <2>3
  <2> QED BY <2>1, <2>2, <2>3, <2>4
<1> QED BY <1>4, <1>5

LEMMA DgaTick ==
  ASSUME DgaSound, clock \in Nat, Gates!Tick
  PROVE  DgaSound'
<1>1. /\ failed' = [a \in DOMAIN failed |-> Gates!Lately(failed[a])]
      /\ flops' = [a \in Addr |-> Gates!Lately(flops[a])]
  BY DEF Gates!Tick
<1>2. ASSUME NEW a \in Addr
      PROVE  Times(flops'[a]) /\ \A n \in RandomName : flops'[a][n] >= Gates!Never
  <2>1. PICK g : g = flops[a]
    OBVIOUS
  <2>2. Times(g) /\ \A n \in RandomName : g[n] \in Int /\ g[n] >= Gates!Never
    BY <2>1 DEF DgaSound, Times
  <2>3. flops'[a] = Gates!Lately(g)
    BY <1>1, <2>1
  <2>4. \A n \in RandomName : g[n] <= g[n]
    BY <2>2
  <2>5. Times(Gates!Lately(g)) /\ \A n \in RandomName : Gates!Lately(g)[n] >= Gates!Never
    BY <2>2, <2>4, LatelyKeeps
  <2> QED BY <2>3, <2>5
<1>3. ASSUME NEW a \in DOMAIN failed
      PROVE  Times(failed'[a]) /\ \A n \in RandomName : failed'[a][n] <= flops'[a][n]
  <2>1. PICK f, g : f = failed[a] /\ g = flops[a]
    OBVIOUS
  <2>2. a \in Addr /\ Times(f) /\ Times(g) /\ \A n \in RandomName : g[n] >= Gates!Never /\ f[n] <= g[n]
    BY <2>1 DEF DgaSound
  <2>3. failed'[a] = Gates!Lately(f) /\ flops'[a] = Gates!Lately(g)
    BY <1>1, <2>1, <2>2
  <2>4. Times(Gates!Lately(f)) /\ \A n \in RandomName : Gates!Lately(f)[n] <= Gates!Lately(g)[n]
    BY <2>2, LatelyKeeps
  <2> QED BY <2>3, <2>4
<1>4. DOMAIN flops' = Addr /\ DOMAIN failed' = DOMAIN failed /\ DOMAIN failed \subseteq Addr
  BY <1>1 DEF DgaSound
<1>5. \A a \in Addr : Times(flops[a])'
  BY <1>2 DEF Times
<1>6. \A a \in DOMAIN failed' : Times(failed[a])'
  BY <1>3, <1>4 DEF Times
<1> QED BY <1>2, <1>3, <1>4, <1>5, <1>6 DEF DgaSound

-----------------------------------------------------------------------------
(* The buckets.                                                            *)
LEMMA Scaled ==
  \A x, y \in Int : /\ Rate * x \in Int /\ Rate * (x + y) = Rate * x + Rate * y /\ x * Rate = Rate * x
                    /\ x >= 0 => Rate * x >= 0
                    /\ x <= y => Rate * x <= Rate * y
<1>1. Rate \in Nat
  BY GateConstants
<1> SUFFICES ASSUME NEW x \in Int, NEW y \in Int
    PROVE  /\ Rate * x \in Int /\ Rate * (x + y) = Rate * x + Rate * y /\ x * Rate = Rate * x
           /\ x >= 0 => Rate * x >= 0
           /\ x <= y => Rate * x <= Rate * y
  OBVIOUS
<1>2. Rate * x \in Int /\ Rate * (x + y) = Rate * x + Rate * y /\ x * Rate = Rate * x
  BY <1>1
<1>3. \A z \in Int : z >= 0 => Rate * z >= 0
  BY <1>1
<1>4. x <= y => Rate * x <= Rate * y
  <2> SUFFICES ASSUME x <= y PROVE Rate * x <= Rate * y
    OBVIOUS
  <2>1. Rate * (y - x) >= 0
    BY <1>3
  <2>2. Rate * (y - x) = Rate * y - Rate * x
    BY <1>1
  <2>3. Rate * x \in Int /\ Rate * y \in Int
    BY <1>1
  <2> QED BY <2>1, <2>2, <2>3
<1> QED BY <1>2, <1>3, <1>4

(* What a bucket holds now.                                                *)
Held(b, time) == Gates!Least(Burst, b.tokens + (time - b.last) * Rate)

LEMMA HeldIs ==
  ASSUME NEW b, b.tokens \in Nat, b.last \in Nat, NEW time \in Nat, b.last <= time
  PROVE  Held(b, time) \in Nat /\ Held(b, time) <= Burst /\ Held(b, time + 1) <= Held(b, time) + Rate
<1>1. PICK x \in Int, t \in Int : x = time - b.last /\ t = b.tokens
  OBVIOUS
<1>2. x >= 0 /\ t >= 0 /\ time + 1 - b.last = x + 1
  BY <1>1
<1>3. PICK r \in Int : r = Rate * x
  BY Scaled
<1>4. x * Rate = r /\ r >= 0 /\ (x + 1) * Rate = r + Rate
  <2>1. Rate * (x + 1) = r + Rate /\ (x + 1) * Rate = Rate * (x + 1)
    BY <1>3, Scaled, GateConstants
  <2> QED BY <1>2, <1>3, <2>1, Scaled
<1>5. Held(b, time) = IF Burst < t + r THEN Burst ELSE t + r
  BY <1>1, <1>4 DEF Held, Gates!Least
<1>6. Held(b, time + 1) = IF Burst < t + (r + Rate) THEN Burst ELSE t + (r + Rate)
  BY <1>1, <1>2, <1>4 DEF Held, Gates!Least
<1> QED BY <1>2, <1>4, <1>5, <1>6, GateConstants

LEMMA TokensIs ==
  ASSUME RateSound, clock \in Nat, NEW a \in Addr
  PROVE  /\ Gates!Tokens(a) = IF a \in DOMAIN buckets THEN Held(buckets[a], clock) ELSE Burst
         /\ Gates!Tokens(a) \in Nat /\ Gates!Tokens(a) <= Burst
<1>1. Gates!Tokens(a) = IF a \in DOMAIN buckets THEN Held(buckets[a], clock) ELSE Burst
  BY DEF Gates!Tokens, Held
<1>2. CASE a \in DOMAIN buckets
  <2>1. PICK b : b = buckets[a]
    OBVIOUS
  <2>2. b.tokens \in Nat /\ b.last \in Nat /\ b.last <= clock
    BY <1>2, <2>1 DEF RateSound, Bucket
  <2>3. Held(b, clock) \in Nat /\ Held(b, clock) <= Burst
    BY <2>2, HeldIs
  <2> QED BY <1>1, <1>2, <2>1, <2>3
<1>3. CASE a \notin DOMAIN buckets
  BY <1>1, <1>3, GateConstants
<1> QED BY <1>1, <1>2, <1>3

(* A query that is let through, or not, is paid for.                       *)
LEMMA PaidOnce ==
  ASSUME NEW s \in Seq(Nat), NEW tokens \in Nat, NEW time \in Nat, Paced(s), Paid(s, tokens, time),
         tokens <= Burst, tokens >= 1
  PROVE  Paced(Append(s, time)) /\ Paid(Append(s, time), tokens - 1, time)
<1>1. PICK n \in Nat : n = Len(s)
  OBVIOUS
<1>2. PICK q : q = Append(s, time)
  OBVIOUS
<1>3. q \in Seq(Nat) /\ Len(q) = n + 1 /\ q[n + 1] = time /\ \A i \in 1 .. n : q[i] = s[i] /\ s[i] \in Nat
  BY <1>1, <1>2
<1>4. \A i \in 1 .. n : n - i + 1 + tokens <= Burst + Rate * (time - s[i])
  BY <1>1 DEF Paid
<1>5. \A i \in 1 .. n : Rate * (time - q[i]) \in Int /\ n - i + 1 + tokens <= Burst + Rate * (time - q[i])
  <2> SUFFICES ASSUME NEW i \in 1 .. n
      PROVE  Rate * (time - q[i]) \in Int /\ n - i + 1 + tokens <= Burst + Rate * (time - q[i])
    OBVIOUS
  <2>1. q[i] = s[i] /\ s[i] \in Nat
    BY <1>3
  <2>2. PICK x \in Int : x = time - s[i]
    BY <2>1
  <2>3. Rate * x \in Int
    BY Scaled
  <2> QED BY <1>4, <2>1, <2>2, <2>3
<1>6. Rate * (time - time) = 0
  BY GateConstants
<1>7. Paid(q, tokens - 1, time)
  <2>1. ASSUME NEW i \in 1 .. n + 1
        PROVE  n + 1 - i + 1 + (tokens - 1) <= Burst + Rate * (time - q[i])
    <3>1. CASE i \in 1 .. n
      <4>1. PICK r \in Int : r = Rate * (time - q[i])
        BY <1>5, <3>1
      <4>2. n - i + 1 + tokens <= Burst + r
        BY <1>5, <3>1, <4>1
      <4> QED BY <4>1, <4>2, GateConstants
    <3>2. CASE i = n + 1
      BY <1>3, <1>6, <3>2, GateConstants
    <3> QED BY <3>1, <3>2
  <2> QED BY <1>3, <2>1 DEF Paid
<1>8. Paced(q)
  <2>1. ASSUME NEW i \in 1 .. n + 1, NEW j \in 1 .. n + 1, i <= j
        PROVE  j - i + 1 <= Burst + Rate * (q[j] - q[i])
    <3>1. CASE j \in 1 .. n
      <4>1. i \in 1 .. n
        BY <2>1, <3>1
      <4> QED BY <1>1, <1>3, <2>1, <3>1, <4>1 DEF Paced
    <3>2. CASE j = n + 1 /\ i \in 1 .. n
      <4>1. PICK r \in Int : r = Rate * (time - q[i])
        BY <1>5, <3>2
      <4>2. n - i + 1 + tokens <= Burst + r
        BY <1>5, <3>2, <4>1
      <4>3. q[j] = time
        BY <1>3, <3>2
      <4>4. j - i + 1 <= Burst + r
        BY <3>2, <4>2, GateConstants
      <4> QED BY <4>1, <4>3, <4>4
    <3>3. CASE j = n + 1 /\ i = n + 1
      BY <1>3, <1>6, <3>3, GateConstants
    <3> QED BY <3>1, <3>2, <3>3
  <2> QED BY <1>3, <2>1 DEF Paced
<1> QED BY <1>2, <1>7, <1>8

LEMMA NothingPaid == \A tokens, time : Paced(<<>>) /\ Paid(<<>>, tokens, time)
  BY DEF Paced, Paid

LEMMA SpendKeeps ==
  ASSUME RateSound, clock \in Nat, clock' = clock, NEW a \in Addr, NEW trimmed, Gates!Spend(a, trimmed)
  PROVE  RateSound'
<1>1. PICK tokens : tokens = Gates!Tokens(a)
  OBVIOUS
<1>2. tokens \in Nat /\ tokens <= Burst /\ (Gates!Allowed(a) <=> tokens >= 1)
  BY <1>1, TokensIs DEF Gates!Allowed
<1>3. PICK left : left = tokens - (IF Gates!Allowed(a) THEN 1 ELSE 0)
  OBVIOUS
<1>4. left \in Nat /\ left <= Burst
  BY <1>2, <1>3, GateConstants
<1>5. PICK b : b = [tokens |-> left, last |-> clock]
  OBVIOUS
<1>6. buckets' = Gates!With(Gates!Without(buckets, trimmed), a, b)
  BY <1>1, <1>3, <1>5 DEF Gates!Spend
<1>7. PICK cleared : cleared = [x \in Addr |-> IF x \in trimmed THEN <<>> ELSE let[x]]
  OBVIOUS
<1>8. let' = IF Gates!Allowed(a) THEN [cleared EXCEPT ![a] = Append(@, clock)] ELSE cleared
  BY <1>7 DEF Gates!Spend
<1>9. /\ DOMAIN buckets' = (DOMAIN buckets \ trimmed) \cup {a} /\ buckets'[a] = b
      /\ \A x \in DOMAIN buckets \ trimmed : x # a => buckets'[x] = buckets[x]
  BY <1>6 DEF Gates!With, Gates!Without
<1>10. DOMAIN let' = Addr /\ DOMAIN buckets' \subseteq Addr
  BY <1>7, <1>8, <1>9 DEF RateSound
<1>11. \A x \in DOMAIN buckets' : Bucket(buckets[x])'
  <2>1. Bucket(b)
    BY <1>4, <1>5 DEF Bucket
  <2>2. \A x \in DOMAIN buckets : Bucket(buckets[x])
    BY DEF RateSound
  <2>3. \A x \in DOMAIN buckets' : buckets'[x] = b \/ (x \in DOMAIN buckets /\ buckets'[x] = buckets[x])
    BY <1>9
  <2> QED BY <2>1, <2>2, <2>3 DEF Bucket
<1>12. \A x \in Addr : /\ cleared[x] \in Seq(Nat) /\ Paced(cleared[x]) /\ Paid(cleared[x], Gates!Tokens(x), clock)
                       /\ x \in trimmed => cleared[x] = <<>>
  BY <1>7, NothingPaid DEF RateSound
<1>13. Gates!Tokens(a)' = left
  <2>1. Gates!Tokens(a)' = Gates!Least(Burst, b.tokens + (clock - b.last) * Rate)
    BY <1>9 DEF Gates!Tokens
  <2>2. b.tokens = left /\ (clock - b.last) * Rate = 0
    BY <1>5, GateConstants
  <2> QED BY <1>4, <2>1, <2>2, GateConstants DEF Gates!Least
<1>14. let'[a] \in Seq(Nat) /\ Paced(let'[a]) /\ Paid(let'[a], left, clock)
  <2>1. PICK s : s = cleared[a]
    OBVIOUS
  <2>2. s \in Seq(Nat) /\ Paced(s) /\ Paid(s, tokens, clock)
    BY <1>1, <1>12, <2>1
  <2>3. CASE Gates!Allowed(a)
    <3>1. let'[a] = Append(s, clock)
      BY <1>7, <1>8, <2>1, <2>3
    <3>2. left = tokens - 1 /\ tokens >= 1
      BY <1>2, <1>3, <2>3
    <3>3. Paced(Append(s, clock)) /\ Paid(Append(s, clock), tokens - 1, clock) /\ Append(s, clock) \in Seq(Nat)
      BY <1>2, <2>2, <3>2, PaidOnce
    <3> QED BY <3>1, <3>2, <3>3
  <2>4. CASE ~Gates!Allowed(a)
    BY <1>2, <1>3, <1>8, <2>1, <2>2, <2>4
  <2> QED BY <2>3, <2>4
<1>15. ASSUME NEW x \in Addr, x # a
       PROVE  let'[x] \in Seq(Nat) /\ Paced(let'[x]) /\ Paid(let'[x], Gates!Tokens(x)', clock)
  <2>1. let'[x] = cleared[x]
    BY <1>7, <1>8, <1>15
  <2>2. CASE x \in trimmed
    BY <1>12, <2>1, <2>2, NothingPaid
  <2>3. CASE x \notin trimmed
    <3>1. Gates!Tokens(x)' = Gates!Tokens(x)
      <4>1. x \in DOMAIN buckets' <=> x \in DOMAIN buckets
        BY <1>9, <1>15, <2>3
      <4>2. x \in DOMAIN buckets => buckets'[x] = buckets[x]
        BY <1>9, <1>15, <2>3
      <4> QED BY <4>1, <4>2 DEF Gates!Tokens
    <3> QED BY <1>12, <2>1, <3>1
  <2> QED BY <2>2, <2>3
<1>16. \A x \in Addr : let'[x] \in Seq(Nat) /\ Paced(let'[x]) /\ Paid(let'[x], Gates!Tokens(x)', clock')
  BY <1>13, <1>14, <1>15
<1>17. \A x \in Addr : (let[x] \in Seq(Nat) /\ Paced(let[x]) /\ Paid(let[x], Gates!Tokens(x), clock))'
  BY <1>16 DEF Paced, Paid
<1> QED BY <1>10, <1>11, <1>17 DEF RateSound

(* A bucket gc drops is full.                                              *)
LEMMA GcKeeps ==
  ASSUME RateSound, clock \in Nat, Gates!Gc
  PROVE  RateSound'
<1>1. buckets' = Gates!Without(buckets, Gates!Reaped) /\ let' = let /\ clock' = clock
  BY DEF Gates!Gc
<1>2. /\ DOMAIN buckets' = DOMAIN buckets \ Gates!Reaped
      /\ \A x \in DOMAIN buckets' : x \in DOMAIN buckets /\ buckets'[x] = buckets[x]
  BY <1>1 DEF Gates!Without
<1>3. ASSUME NEW x \in Addr PROVE Gates!Tokens(x)' = Gates!Tokens(x)
  <2>1. CASE x \in DOMAIN buckets'
    <3>1. x \in DOMAIN buckets /\ buckets'[x] = buckets[x]
      BY <1>2, <2>1
    <3> QED BY <1>1, <2>1, <3>1 DEF Gates!Tokens
  <2>2. CASE x \notin DOMAIN buckets
    <3>1. x \notin DOMAIN buckets'
      BY <1>2, <2>2
    <3> QED BY <2>2, <3>1 DEF Gates!Tokens
  <2>3. CASE x \in DOMAIN buckets /\ x \in Gates!Reaped
    <3>1. PICK b : b = buckets[x]
      OBVIOUS
    <3>2. b.tokens \in Nat /\ b.last \in Nat /\ b.last <= clock /\ clock - b.last > Idle
      BY <2>3, <3>1 DEF RateSound, Bucket, Gates!Reaped
    <3>3. PICK y \in Int : y = clock - b.last
      BY <3>2
    <3>4. Rate * Idle <= Rate * y /\ y * Rate = Rate * y /\ Rate * y \in Int /\ Rate * Idle \in Int
      BY <3>2, <3>3, Scaled, GateConstants
    <3>5. Burst <= Rate * y
      BY <3>4, GateConstants
    <3>6. b.tokens + y * Rate >= Burst
      BY <3>2, <3>4, <3>5, GateConstants
    <3>7. Gates!Tokens(x) = Gates!Least(Burst, b.tokens + y * Rate)
      BY <2>3, <3>1, <3>3 DEF Gates!Tokens
    <3>8. b.tokens + y * Rate \in Int
      BY <3>2, <3>4
    <3>9. Gates!Tokens(x) = Burst
      BY <3>6, <3>7, <3>8, GateConstants DEF Gates!Least
    <3>10. Gates!Tokens(x)' = Burst
      BY <1>2, <2>3 DEF Gates!Tokens
    <3> QED BY <3>9, <3>10
  <2> QED BY <1>2, <2>1, <2>2, <2>3
<1>4. \A x \in DOMAIN buckets' : Bucket(buckets[x])'
  BY <1>1, <1>2 DEF RateSound, Bucket
<1>5. \A x \in Addr : (let[x] \in Seq(Nat) /\ Paced(let[x]) /\ Paid(let[x], Gates!Tokens(x), clock))'
  BY <1>1, <1>3 DEF RateSound, Paced, Paid
<1> QED BY <1>1, <1>2, <1>4, <1>5 DEF RateSound

(* A tick earns each bucket no more than the rate.                         *)
LEMMA RateTick ==
  ASSUME RateSound, clock \in Nat, Gates!Tick
  PROVE  RateSound'
<1>1. clock' = clock + 1 /\ buckets' = buckets /\ let' = let
  BY DEF Gates!Tick
<1>2. ASSUME NEW a \in Addr
      PROVE  Gates!Tokens(a)' \in Nat /\ Gates!Tokens(a)' <= Gates!Tokens(a) + Rate
  <2>1. CASE a \in DOMAIN buckets
    <3>1. PICK b : b = buckets[a]
      OBVIOUS
    <3>2. b.tokens \in Nat /\ b.last \in Nat /\ b.last <= clock /\ b.last <= clock + 1 /\ clock + 1 \in Nat
      BY <2>1, <3>1 DEF RateSound, Bucket
    <3>3. Held(b, clock + 1) \in Nat
      <4>1. PICK time \in Nat : time = clock + 1
        BY <3>2
      <4>2. Held(b, time) \in Nat
        BY <3>2, <4>1, HeldIs
      <4> QED BY <4>1, <4>2
    <3>4. Held(b, clock + 1) <= Held(b, clock) + Rate
      BY <3>2, HeldIs
    <3>5. Gates!Tokens(a) = Held(b, clock) /\ Gates!Tokens(a)' = Held(b, clock + 1)
      BY <1>1, <2>1, <3>1 DEF Gates!Tokens, Held
    <3> QED BY <3>3, <3>4, <3>5
  <2>2. CASE a \notin DOMAIN buckets
    BY <1>1, <2>2, GateConstants DEF Gates!Tokens
  <2> QED BY <2>1, <2>2
<1>3. ASSUME NEW a \in Addr, NEW i \in 1 .. Len(let[a])
      PROVE  Len(let[a]) - i + 1 + Gates!Tokens(a)' <= Burst + Rate * (clock' - let[a][i])
  <2>1. PICK s : s = let[a]
    OBVIOUS
  <2>2. s \in Seq(Nat) /\ Paid(s, Gates!Tokens(a), clock) /\ i \in 1 .. Len(s) /\ s[i] \in Nat
    BY <1>3, <2>1 DEF RateSound
  <2>3. PICK x \in Int : x = clock - s[i]
    BY <2>2
  <2>4. PICK r \in Int : r = Rate * x
    BY Scaled
  <2>5. Rate * (clock' - s[i]) = r + Rate
    <3>1. Rate * (x + 1) = r + Rate * 1
      BY <2>4, Scaled
    <3>2. Rate * 1 = Rate
      BY GateConstants
    <3>3. clock' - s[i] = x + 1
      <4> DEFINE z == s[i]
      <4>1. clock' = clock + 1 /\ clock \in Nat /\ z \in Nat /\ x = clock - z
        BY <1>1, <2>2, <2>3
      <4> HIDE DEF z
      <4>2. clock' - z = x + 1
        BY <4>1
      <4> QED BY <4>2 DEF z
    <3> QED BY <3>1, <3>2, <3>3
  <2>6. Len(s) - i + 1 + Gates!Tokens(a) <= Burst + r
    BY <2>2, <2>3, <2>4 DEF Paid
  <2>7. PICK t \in Nat, u \in Nat : t = Gates!Tokens(a) /\ u = Gates!Tokens(a)'
    BY <1>2, TokensIs
  <2>8. u <= t + Rate
    BY <1>2, <2>7
  <2>9. PICK l \in Nat, k \in Int : l = Len(s) /\ k = i
    BY <2>2
  <2>10. l - k + 1 + t <= Burst + r
    BY <2>6, <2>7, <2>9
  <2>11. l - k + 1 + u <= Burst + (r + Rate)
    BY <2>8, <2>10, GateConstants
  <2> QED BY <2>1, <2>5, <2>7, <2>9, <2>11
<1>4. \A a \in DOMAIN buckets : Bucket(buckets[a])'
  BY <1>1 DEF RateSound, Bucket
<1>5. \A a \in Addr : (let[a] \in Seq(Nat) /\ Paced(let[a]) /\ Paid(let[a], Gates!Tokens(a), clock))'
  BY <1>1, <1>3 DEF RateSound, Paced, Paid
<1> QED BY <1>1, <1>4, <1>5 DEF RateSound

LEMMA RateAside ==
  ASSUME RateSound, clock' = clock, buckets' = buckets, let' = let
  PROVE  RateSound'
  BY DEF RateSound, Paced, Paid, Bucket, Gates!Tokens

-----------------------------------------------------------------------------
(* The gates together.                                                     *)
LEMMA GatesInit == Gates!Init => GatesInv
<1> SUFFICES ASSUME Gates!Init PROVE GatesInv
  OBVIOUS
<1>1. /\ clock = 0 /\ routes \subseteq Addr /\ memo = {} /\ memoAt = 0 /\ attached = {} /\ readAt = -Refresh
      /\ wasLocal = [a \in Addr |-> IF a \in routes THEN 0 ELSE Gates!Never]
      /\ buckets = [a \in {} |-> 0] /\ failed = [a \in {} |-> Gates!Quiet] /\ verdict = None
      /\ let = [a \in Addr |-> <<>>] /\ flops = [a \in Addr |-> Gates!Quiet]
  BY DEF Gates!Init
<1>2. AclSound
  BY <1>1, GateConstants, NeverIs DEF AclSound, LocalSince
<1>3. Times(Gates!Quiet) /\ \A n \in RandomName : Gates!Quiet[n] >= Gates!Never
  BY NeverIs DEF Times, Gates!Quiet
<1>4. DgaSound
  BY <1>1, <1>3 DEF DgaSound
<1>5. DOMAIN buckets = {}
  BY <1>1
<1>6. RateSound
  BY <1>1, <1>5, NothingPaid DEF RateSound
<1>7. Gates!VerdictsJustified
  BY <1>1 DEF Gates!VerdictsJustified, Gates!StrangersGetNoRecursion, Gates!IdentityHolds, Gates!DgaNeedsCampaign
<1> QED BY <1>2, <1>4, <1>6, <1>7 DEF GatesInv

(* A settings change starts all of it afresh.                              *)
LEMMA AdoptKeeps ==
  ASSUME GatesInv, Gates!AdoptPipeline
  PROVE  GatesInv'
<1>1. /\ memo' = {} /\ memoAt' = clock /\ attached' = {} /\ readAt' = -Refresh
      /\ buckets' = [a \in {} |-> 0] /\ failed' = [a \in {} |-> Gates!Quiet]
      /\ let' = [a \in Addr |-> <<>>] /\ flops' = [a \in Addr |-> Gates!Quiet]
      /\ verdict' = None /\ UNCHANGED <<gates, clock, routes, wasLocal>>
  BY DEF Gates!AdoptPipeline
<1>2. AclSound'
  BY <1>1, GateConstants DEF GatesInv, AclSound, LocalSince
<1>3. Times(Gates!Quiet) /\ \A n \in RandomName : Gates!Quiet[n] >= Gates!Never
  BY NeverIs DEF Times, Gates!Quiet
<1>4. DgaSound'
  BY <1>1, <1>3 DEF DgaSound, Times
<1>5. DOMAIN buckets' = {}
  BY <1>1
<1>6. RateSound'
  BY <1>1, <1>5 DEF RateSound, Paced, Paid
<1>7. Gates!VerdictsJustified'
  BY <1>1 DEF Gates!VerdictsJustified, Gates!StrangersGetNoRecursion, Gates!IdentityHolds, Gates!DgaNeedsCampaign
<1> QED BY <1>2, <1>4, <1>6, <1>7 DEF GatesInv

LEMMA NoVerdict ==
  ASSUME verdict' = None
  PROVE  Gates!VerdictsJustified'
  BY DEF Gates!VerdictsJustified, Gates!StrangersGetNoRecursion, Gates!IdentityHolds, Gates!DgaNeedsCampaign

LEMMA OutcomeKeeps ==
  ASSUME GatesInv, NEW real \in Addr, NEW plain \in BOOLEAN, NEW n, NEW got \in {routes, {}}, NEW trimmed,
         NEW action, NEW rcode, Outcome(real, plain, n, got, trimmed, action, rcode)
  PROVE  GatesInv'
<1>0. clock \in Nat /\ AclSound /\ DgaSound /\ RateSound /\ UNCHANGED <<gates, clock, routes, wasLocal>>
  BY DEF GatesInv, AclSound, Outcome
<1>1. AclSound'
  <2>1. CASE Gates!Consult(real, got)
    BY <1>0, <2>1, ConsultKeeps
  <2>2. CASE UNCHANGED <<memo, memoAt, attached, readAt>>
    BY <1>0, <2>2, AclAside
  <2> QED BY <2>1, <2>2 DEF Outcome
<1>2. DgaSound'
  <2>1. CASE failed' = failed /\ flops' = flops
    BY <1>0, <2>1 DEF DgaSound, Times
  <2>2. CASE /\ n \in RandomName /\ rcode \in {"NXDOMAIN", "SERVFAIL"}
             /\ Gates!NoteOutcome(real, n, rcode) /\ flops' = [flops EXCEPT ![real][n] = clock]
    BY <1>0, <2>2, NoteKeeps
  <2> QED BY <2>1, <2>2 DEF Outcome
<1>3. RateSound'
  <2>1. CASE Gates!Spend(real, trimmed)
    BY <1>0, <2>1, SpendKeeps
  <2>2. CASE UNCHANGED <<buckets, let>>
    BY <1>0, <2>2, RateAside
  <2> QED BY <2>1, <2>2 DEF Outcome
<1>4. PICK v : v = [real |-> real, from |-> real, plain |-> plain, action |-> action]
  OBVIOUS
<1>5. verdict' = v /\ v.real = real /\ v.from = real /\ v.plain = plain /\ v.action = action
  BY <1>4 DEF Outcome
<1>6. Gates!StrangersGetNoRecursion'
  <2> SUFFICES ASSUME "acl" \in gates, plain, action \notin {"limited", "authoritative", "refused"}
               PROVE  real \in Lan \/ clock - wasLocal[real] < 2 * Refresh
    BY <1>0, <1>5 DEF Gates!StrangersGetNoRecursion
  <2>1. Gates!Admits(real, got)
    BY DEF Outcome
  <2> QED BY <1>0, <2>1, AdmittedIsLocal
<1>7. Gates!IdentityHolds'
  BY <1>5 DEF Gates!IdentityHolds
<1>8. Gates!DgaNeedsCampaign'
  <2> SUFFICES ASSUME action = "dga"
               PROVE  Gates!Cardinality({m \in RandomName : flops'[real][m] >= clock - BurstWindow}) >= BurstNames
    BY <1>0, <1>5 DEF Gates!DgaNeedsCampaign
  <2>1. Gates!Check(real, n) /\ flops' = flops
    BY DEF Outcome
  <2> QED BY <1>0, <2>1, CampaignIsReal
<1> QED BY <1>1, <1>2, <1>3, <1>6, <1>7, <1>8 DEF GatesInv, Gates!VerdictsJustified

LEMMA QueryKeeps ==
  ASSUME GatesInv, NEW real \in Addr, NEW plain \in BOOLEAN, NEW n, NEW claimed, NEW hops,
         Gates!From(real, plain, claimed, hops) = real, Gates!Receive(real, plain, n, claimed, hops)
  PROVE  GatesInv'
<1>1. PICK got \in {routes, {}} : \E trimmed, action, rcode : Outcome(real, plain, n, got, trimmed, action, rcode)
  BY ReceiveIs
<1>2. PICK trimmed, action, rcode : Outcome(real, plain, n, got, trimmed, action, rcode)
  BY <1>1
<1> QED BY <1>2, OutcomeKeeps

LEMMA GatesStep == GatesInv /\ [Gates!Next]_(Gates!vars) => GatesInv'
<1> SUFFICES ASSUME GatesInv, [Gates!Next]_(Gates!vars) PROVE GatesInv'
  OBVIOUS
<1>0. clock \in Nat /\ AclSound /\ DgaSound /\ RateSound
  BY DEF GatesInv, AclSound
<1>1. ASSUME NEW a \in Addr, NEW n \in Gates!QName, Gates!Receive(a, TRUE, n, <<>>, 0) PROVE GatesInv'
  <2>1. Gates!From(a, TRUE, <<>>, 0) = a
    BY DEF Gates!From
  <2>2. PICK plain \in BOOLEAN : plain = TRUE
    OBVIOUS
  <2>3. PICK claimed, hops : claimed = <<>> /\ hops = 0
    OBVIOUS
  <2>4. Gates!From(a, plain, claimed, hops) = a /\ Gates!Receive(a, plain, n, claimed, hops)
    BY <1>1, <2>1, <2>2, <2>3
  <2> QED BY <2>4, QueryKeeps
<1>2. ASSUME NEW a \in Addr, NEW n \in Gates!QName, NEW hops \in 0 .. 1, NEW claimed \in Claims,
             Gates!Receive(a, FALSE, n, claimed, hops)
      PROVE  GatesInv'
  <2>1. Gates!From(a, FALSE, claimed, hops) = a
    BY ClientIs
  <2>2. PICK plain \in BOOLEAN : plain = FALSE
    OBVIOUS
  <2>3. Gates!From(a, plain, claimed, hops) = a /\ Gates!Receive(a, plain, n, claimed, hops)
    BY <1>2, <2>1, <2>2
  <2> QED BY <2>3, QueryKeeps
<1>3. ASSUME NEW to \in SUBSET (Addr \ Lan), Gates!Reroute(to) PROVE GatesInv'
  <2>1. UNCHANGED <<clock, buckets, failed, let, flops>> /\ verdict' = None
    BY <1>3 DEF Gates!Reroute
  <2>2. AclSound'
    BY <1>0, <1>3, RerouteKeeps
  <2>3. DgaSound' /\ RateSound'
    BY <1>0, <2>1, RateAside DEF DgaSound, Times
  <2> QED BY <2>1, <2>2, <2>3, NoVerdict DEF GatesInv
<1>4. CASE Gates!Gc
  <2>1. UNCHANGED <<gates, clock, routes, memo, memoAt, attached, readAt, failed, verdict, wasLocal, flops>>
    BY <1>4 DEF Gates!Gc, Gates!acl
  <2>2. AclSound' /\ RateSound'
    BY <1>0, <1>4, <2>1, AclAside, GcKeeps
  <2>3. DgaSound' /\ Gates!VerdictsJustified'
    BY <2>1 DEF GatesInv, DgaSound, Times, Gates!VerdictsJustified, Gates!StrangersGetNoRecursion,
                Gates!IdentityHolds, Gates!DgaNeedsCampaign
  <2> QED BY <2>2, <2>3 DEF GatesInv
<1>5. CASE Gates!AdoptPipeline
  BY <1>5, AdoptKeeps
<1>6. CASE Gates!Tick
  <2>1. verdict' = None
    BY <1>6 DEF Gates!Tick
  <2> QED BY <1>0, <1>6, <2>1, AclTick, DgaTick, RateTick, NoVerdict DEF GatesInv
<1>7. CASE UNCHANGED Gates!vars
  <2>1. /\ UNCHANGED <<gates, clock, routes, memo, memoAt, attached, readAt>>
        /\ UNCHANGED <<buckets, failed, verdict, wasLocal, let, flops>>
    BY <1>7 DEF Gates!vars, Gates!acl
  <2>2. AclSound' /\ RateSound'
    BY <1>0, <2>1, AclAside, RateAside
  <2>3. DgaSound' /\ Gates!VerdictsJustified'
    BY <2>1 DEF GatesInv, DgaSound, Times, Gates!VerdictsJustified, Gates!StrangersGetNoRecursion,
                Gates!IdentityHolds, Gates!DgaNeedsCampaign
  <2> QED BY <2>2, <2>3 DEF GatesInv
<1> QED BY <1>1, <1>2, <1>3, <1>4, <1>5, <1>6, <1>7 DEF Gates!Next

(* For any addresses, proxies and names, and any limits: recursion over    *)
(* plain DNS is for addresses that are local or lately were, a client is   *)
(* who it is whatever it claims, a name is blocked for a campaign only     *)
(* where there is one, and no client gets through faster than its bucket   *)
(* refills (RecursionAcl.allows, client_ip, DGADetector.check,             *)
(* RateLimiter.allow, gc, _trim).                                          *)
THEOREM GatesHold == Gates!Spec => []VerdictsJustified
<1>1. GatesInv => VerdictsJustified
  <2> SUFFICES ASSUME GatesInv PROVE Gates!RateHolds
    BY DEF GatesInv, VerdictsJustified
  <2>1. \A a \in Addr : let[a] \in Seq(Nat) /\ Paced(let[a])
    BY DEF GatesInv, RateSound
  <2>2. \A a \in Addr : DOMAIN let[a] = 1 .. Len(let[a])
    BY <2>1
  <2> QED BY <2>1, <2>2 DEF Paced, Gates!RateHolds
<1> QED BY <1>1, GatesInit, GatesStep, PTL DEF Gates!Spec

-----------------------------------------------------------------------------
(* Device names.  An address has one entry; a sweep of the current object  *)
(* that asks holds its lock, and asks about what is due.                   *)
NameEntry == [ip : Device, name : Label \cup {None}, until : Nat]
NameTable(t) == t \in Seq(NameEntry) /\ \A i, j \in 1 .. Len(t) : t[i].ip = t[j].ip => i = j

DueOf(t, time) == {a \in Device : \A i \in 1 .. Len(t) : t[i].ip = a => t[i].until <= time}

SweepType ==
  sweep \in [Names!Sweeper ->
    [at : {"idle", "lock", "ask"}, gen : Nat, todo : SUBSET Device, asking : SUBSET Device]]
SweepSound(s) ==
  /\ sweep[s].gen <= gen
  /\ sweep[s].at # "ask" => sweep[s].todo = {} /\ sweep[s].asking = {}
  /\ sweep[s].todo \cap sweep[s].asking = {}
  /\ Names!Current(s) /\ sweep[s].at = "ask" => holder = s
  /\ Names!Current(s) => sweep[s].todo \cup sweep[s].asking \subseteq DueOf(named, now)

NamesInv ==
  /\ now \in Nat /\ gen \in Nat /\ NameTable(named) /\ SweepType
  /\ \A s \in Names!Sweeper : SweepSound(s)

LEMMA DueIs ==
  ASSUME NameTable(named)
  PROVE  Names!Due = DueOf(named, now)
<1>1. DOMAIN named = 1 .. Len(named)
  BY DEF NameTable
<1> QED BY <1>1 DEF Names!Due, Names!Entries, Names!Range, DueOf

(* A table without the entry at p.                                         *)
LEMMA RemovedEntry ==
  ASSUME NEW s \in Seq(NameEntry), NEW p \in 1 .. Len(s), NEW t, t = Names!RemoveAt(s, p)
  PROVE  /\ t \in Seq(NameEntry) /\ Len(t) = Len(s) - 1
         /\ \A i \in 1 .. Len(t) : t[i] = IF i < p THEN s[i] ELSE s[i + 1]
<1> DEFINE a == SubSeq(s, 1, p - 1)
           b == SubSeq(s, p + 1, Len(s))
<1>1. a \in Seq(NameEntry) /\ Len(a) = p - 1 /\ \A i \in 1 .. p - 1 : a[i] = s[i]
  OBVIOUS
<1>2. b \in Seq(NameEntry) /\ Len(b) = Len(s) - p /\ \A i \in 1 .. Len(s) - p : b[i] = s[p + i]
  OBVIOUS
<1>3. t = a \o b
  BY DEF Names!RemoveAt
<1> HIDE DEF a, b
<1>4. /\ t \in Seq(NameEntry) /\ Len(t) = Len(a) + Len(b)
      /\ \A i \in 1 .. Len(a) + Len(b) : t[i] = IF i <= Len(a) THEN a[i] ELSE b[i - Len(a)]
  <2>1. PICK x \in Seq(NameEntry), y \in Seq(NameEntry) : x = a /\ y = b
    BY <1>1, <1>2
  <2>2. /\ x \o y \in Seq(NameEntry) /\ Len(x \o y) = Len(x) + Len(y)
        /\ \A i \in 1 .. Len(x) + Len(y) : (x \o y)[i] = IF i <= Len(x) THEN x[i] ELSE y[i - Len(x)]
    BY ConcatProperties
  <2> QED BY <1>3, <2>1, <2>2
<1>5. p \in Nat /\ Len(s) \in Nat /\ 1 <= p /\ p <= Len(s)
  OBVIOUS
<1>6. ASSUME NEW i \in 1 .. Len(t) PROVE t[i] = IF i < p THEN s[i] ELSE s[i + 1]
  <2>1. CASE i < p
    <3>1. i \in 1 .. p - 1 /\ i <= Len(a) /\ i \in 1 .. Len(a) + Len(b)
      BY <1>1, <1>2, <1>4, <1>5, <2>1
    <3> QED BY <3>1, <1>1, <1>4, <2>1
  <2>2. CASE ~(i < p)
    <3>1. ~(i <= Len(a)) /\ i - Len(a) \in 1 .. Len(s) - p /\ p + (i - Len(a)) = i + 1 /\ i \in 1 .. Len(a) + Len(b)
      BY <1>1, <1>2, <1>4, <1>5, <2>2
    <3> QED BY <3>1, <1>2, <1>4, <2>2
  <2> QED BY <2>1, <2>2
<1>7. t \in Seq(NameEntry) /\ Len(t) = Len(s) - 1
  BY <1>1, <1>2, <1>4, <1>5
<1> QED BY ONLY <1>6, <1>7

(* What a lookup leaves in the table: its own entry, at most once, and of  *)
(* the others what there was (_store).                                     *)
LEMMA OthersFacts ==
  ASSUME NameTable(named), NEW a \in Device, NEW t, t = Names!Others(a)
  PROVE  /\ t \in Seq(NameEntry)
         /\ \A i \in 1 .. Len(t) : t[i].ip # a
         /\ \A i \in 1 .. Len(t) : \E n \in 1 .. Len(named) : t[i] = named[n]
         /\ \A i, j \in 1 .. Len(t) : t[i].ip = t[j].ip => i = j
<1>0. named \in Seq(NameEntry) /\ Len(named) \in Nat /\ DOMAIN named = 1 .. Len(named)
  BY DEF NameTable
<1>1. CASE Names!Entries(a) = {}
  <2>1. t = named
    BY <1>1 DEF Names!Others
  <2>2. \A i \in 1 .. Len(named) : named[i].ip # a
    BY <1>0, <1>1 DEF Names!Entries, Names!Range
  <2> QED BY <1>0, <2>1, <2>2 DEF NameTable
<1>2. CASE Names!Entries(a) # {}
  <2>1. \E i \in DOMAIN named : named[i].ip = a
    BY <1>2 DEF Names!Entries, Names!Range
  <2>2. Names!Place(a) \in DOMAIN named /\ named[Names!Place(a)].ip = a
    BY <2>1, Zenon DEF Names!Place
  <2>3. PICK p \in 1 .. Len(named) : p = Names!Place(a) /\ named[p].ip = a
    BY <1>0, <2>2
  <2>4. t = Names!RemoveAt(named, p)
    BY <1>2, <2>3 DEF Names!Others
  <2>9. /\ t \in Seq(NameEntry) /\ Len(t) = Len(named) - 1
        /\ \A i \in 1 .. Len(t) : t[i] = IF i < p THEN named[i] ELSE named[i + 1]
    BY <1>0, <2>4, RemovedEntry
  <2>10. ASSUME NEW i \in 1 .. Len(t)
         PROVE  \E n \in 1 .. Len(named) : n # p /\ t[i] = named[n] /\ n = IF i < p THEN i ELSE i + 1
    <3>1. (IF i < p THEN i ELSE i + 1) \in 1 .. Len(named) /\ (IF i < p THEN i ELSE i + 1) # p
      BY <1>0, <2>9
    <3>2. t[i] = named[IF i < p THEN i ELSE i + 1]
      BY <2>9
    <3> QED BY <3>1, <3>2
  <2>11. \A i \in 1 .. Len(t) : t[i].ip # a
    BY <2>3, <2>10 DEF NameTable
  <2>12. ASSUME NEW i \in 1 .. Len(t), NEW j \in 1 .. Len(t), t[i].ip = t[j].ip PROVE i = j
    <3>1. PICK n \in 1 .. Len(named) : t[i] = named[n] /\ n = IF i < p THEN i ELSE i + 1
      BY <2>10
    <3>2. PICK m \in 1 .. Len(named) : t[j] = named[m] /\ m = IF j < p THEN j ELSE j + 1
      BY <2>10
    <3>3. n = m
      BY <2>12, <3>1, <3>2 DEF NameTable
    <3>4. i \in Int /\ j \in Int
      BY <2>9, <1>0
    <3> QED BY <3>1, <3>2, <3>3, <3>4
  <2> QED BY <2>9, <2>10, <2>11, <2>12
<1> QED BY <1>1, <1>2

LEMMA StoredFacts ==
  ASSUME NameTable(named), now \in Nat, NEW a \in Device, NEW n \in Names!DisplayName,
         NEW t, t = Names!Stored(a, n)
  PROVE  /\ NameTable(t)
         /\ \A i \in 1 .. Len(t) :
              \/ t[i].ip = a /\ t[i].name = Names!Kept(a, n)
              \/ t[i].ip # a /\ \E m \in 1 .. Len(named) : t[i] = named[m]
<1>1. PICK r : r = Names!Others(a)
  OBVIOUS
<1>2. PICK e : e = [ip |-> a, name |-> Names!Kept(a, n),
                    until |-> now + (IF n = None THEN NegativeTtl ELSE Ttl)]
  OBVIOUS
<1>3. /\ r \in Seq(NameEntry)
      /\ \A i \in 1 .. Len(r) : r[i].ip # a
      /\ \A i \in 1 .. Len(r) : \E m \in 1 .. Len(named) : r[i] = named[m]
      /\ \A i, j \in 1 .. Len(r) : r[i].ip = r[j].ip => i = j
  BY <1>1, OthersFacts
<1>4. e \in NameEntry /\ e.ip = a /\ e.name = Names!Kept(a, n)
  <2>1. Names!NameOf(a) \in Label \cup {None}
    <3>1. CASE Names!Entries(a) = {}
      BY <3>1 DEF Names!NameOf
    <3>2. CASE Names!Entries(a) # {}
      <4>1. PICK c : c = CHOOSE x \in Names!Entries(a) : TRUE
        OBVIOUS
      <4>2. c \in Names!Entries(a)
        BY <3>2, <4>1
      <4>3. c \in NameEntry
        BY <4>2 DEF Names!Entries, Names!Range, NameTable
      <4> QED BY <3>2, <4>1, <4>3 DEF Names!NameOf, NameEntry
    <3> QED BY <3>1, <3>2
  <2>2. Names!Kept(a, n) \in Label \cup {None}
    BY <2>1 DEF Names!Kept, Names!DisplayName
  <2>3. now + (IF n = None THEN NegativeTtl ELSE Ttl) \in Nat
    BY NamesAssumption DEF Names!DevicesConstants
  <2> QED BY <1>2, <2>2, <2>3 DEF NameEntry
<1>5. PICK u : u = Append(r, e)
  OBVIOUS
<1>6. /\ u \in Seq(NameEntry) /\ Len(u) = Len(r) + 1 /\ Len(r) \in Nat
      /\ \A i \in 1 .. Len(r) : u[i] = r[i]
      /\ u[Len(r) + 1] = e
  BY <1>3, <1>4, <1>5
<1>7. NameTable(u)
  <2> SUFFICES ASSUME NEW i \in 1 .. Len(u), NEW j \in 1 .. Len(u), u[i].ip = u[j].ip PROVE i = j
    BY <1>6 DEF NameTable
  <2>1. \A k \in 1 .. Len(u) : k \in 1 .. Len(r) \/ k = Len(r) + 1
    BY <1>6
  <2> QED BY <1>3, <1>4, <1>6, <2>1
<1>8. \A i \in 1 .. Len(u) : \/ u[i].ip = a /\ u[i].name = Names!Kept(a, n)
                             \/ u[i].ip # a /\ \E m \in 1 .. Len(named) : u[i] = named[m]
  <2> SUFFICES ASSUME NEW i \in 1 .. Len(u)
               PROVE  \/ u[i].ip = a /\ u[i].name = Names!Kept(a, n)
                      \/ u[i].ip # a /\ \E m \in 1 .. Len(named) : u[i] = named[m]
    OBVIOUS
  <2>1. i \in 1 .. Len(r) \/ i = Len(r) + 1
    BY <1>6
  <2> QED BY <1>3, <1>4, <1>6, <2>1
<1>9. CASE t = u
  BY <1>7, <1>8, <1>9
<1>10. CASE t = Tail(u)
  <2>1. t \in Seq(NameEntry) /\ Len(t) = Len(r) /\ \A i \in 1 .. Len(t) : i + 1 \in 1 .. Len(u) /\ t[i] = u[i + 1]
    BY <1>6, <1>10
  <2>2. ASSUME NEW i \in 1 .. Len(t), NEW j \in 1 .. Len(t), t[i].ip = t[j].ip PROVE i = j
    <3>1. i + 1 = j + 1
      BY <1>7, <2>1, <2>2 DEF NameTable
    <3> QED BY <3>1, <2>1, <1>6
  <2> QED BY <1>8, <2>1, <2>2 DEF NameTable
<1> QED BY <1>1, <1>2, <1>5, <1>9, <1>10 DEF Names!Stored

-----------------------------------------------------------------------------
(* A lookup that ends takes nothing else off the list, and names what it   *)
(* answers for (_store, due).                                              *)
LEMMA StoredKeepsDue ==
  ASSUME NameTable(named), now \in Nat, NEW a \in Device, NEW n \in Names!DisplayName,
         named' = Names!Stored(a, n)
  PROVE  NameTable(named') /\ DueOf(named, now) \ {a} \subseteq DueOf(named', now)
<1>1. PICK t : t = Names!Stored(a, n)
  OBVIOUS
<1>2. /\ NameTable(t)
      /\ \A i \in 1 .. Len(t) : t[i].ip = a \/ \E m \in 1 .. Len(named) : t[i] = named[m]
  BY <1>1, StoredFacts
<1>3. DueOf(named, now) \ {a} \subseteq DueOf(t, now)
  BY <1>2 DEF DueOf
<1> QED BY <1>1, <1>2, <1>3

(* The one entry of an address has its name.                               *)
LEMMA NameIs ==
  ASSUME NameTable(named), NEW i \in 1 .. Len(named)
  PROVE  Names!NameOf(named[i].ip) = named[i].name
<1>1. DOMAIN named = 1 .. Len(named)
  BY DEF NameTable
<1>2. Names!Entries(named[i].ip) = {named[i]}
  BY <1>1 DEF Names!Entries, Names!Range, NameTable
<1> QED BY <1>2 DEF Names!NameOf

LEMMA StoredKeepsNames ==
  ASSUME NameTable(named), now \in Nat, NEW a \in Device, NEW n \in Names!DisplayName,
         named' = Names!Stored(a, n), NEW b \in Device
  PROVE  Names!NameKept(b)
<1> SUFFICES ASSUME Names!NameOf(b) # None, Names!Entries(b)' # {} PROVE Names!NameOf(b)' # None
  BY DEF Names!NameKept
<1>1. PICK t : t = named'
  OBVIOUS
<1>2. PICK S : S = {e \in Names!Range(t) : e.ip = b}
  OBVIOUS
<1>3. S = Names!Entries(b)'
  BY <1>1, <1>2 DEF Names!Entries, Names!Range
<1>4. PICK e : e = CHOOSE x \in S : TRUE
  OBVIOUS
<1>5. e \in S /\ Names!NameOf(b)' = e.name
  BY <1>3, <1>4 DEF Names!NameOf
<1>6. /\ NameTable(t)
      /\ \A i \in 1 .. Len(t) :
           \/ t[i].ip = a /\ t[i].name = Names!Kept(a, n)
           \/ t[i].ip # a /\ \E m \in 1 .. Len(named) : t[i] = named[m]
  BY <1>1, StoredFacts
<1>7. PICK i \in 1 .. Len(t) : e = t[i] /\ e.ip = b
  BY <1>2, <1>5, <1>6 DEF Names!Range, NameTable
<1>8. CASE b = a
  <2>1. e.name = Names!Kept(a, n)
    BY <1>6, <1>7, <1>8
  <2> QED BY <1>5, <1>8, <2>1 DEF Names!Kept
<1>9. CASE b # a
  <2>1. PICK m \in 1 .. Len(named) : e = named[m]
    BY <1>6, <1>7, <1>9
  <2>2. Names!NameOf(b) = e.name
    BY <2>1, <1>7, NameIs
  <2> QED BY <1>5, <2>2
<1> QED BY <1>8, <1>9

(* An empty table, or the same one, takes no name from an address that     *)
(* still has an entry.                                                     *)
LEMMA NamesAside ==
  ASSUME UNCHANGED named \/ gen' # gen, NEW b \in Device
  PROVE  Names!NameKept(b)
<1>1. CASE UNCHANGED named
  BY <1>1 DEF Names!NameKept, Names!NameOf, Names!Entries, Names!Range
<1>2. CASE gen' # gen
  BY <1>2 DEF Names!NameKept
<1> QED BY <1>1, <1>2

-----------------------------------------------------------------------------
LEMMA OneAsks ==
  ASSUME NamesInv
  PROVE  Names!AskedOncePerTtl
<1>1. Names!Due = DueOf(named, now)
  BY DueIs DEF NamesInv
<1>2. ASSUME NEW s \in Names!Sweeper, Names!Current(s)
      PROVE  sweep[s].asking \cup sweep[s].todo \subseteq Names!Due
  BY <1>1, <1>2 DEF NamesInv, SweepSound
<1>3. ASSUME NEW s \in Names!Sweeper, NEW t \in Names!Sweeper \ {s}, Names!Current(s), Names!Current(t)
      PROVE  sweep[s].asking \cap sweep[t].asking = {}
  <2>1. SweepSound(s) /\ SweepSound(t)
    BY DEF NamesInv
  <2> QED BY <1>3, <2>1 DEF SweepSound
<1> QED BY <1>2, <1>3 DEF Names!AskedOncePerTtl

LEMMA NamesInit == Names!Init => NamesInv
<1> SUFFICES ASSUME Names!Init PROVE NamesInv
  OBVIOUS
<1>1. named = <<>> /\ now = 0 /\ gen = 1 /\ \A s \in Names!Sweeper : sweep[s] = Names!Resting
  BY DEF Names!Init
<1>2. NameTable(named)
  BY <1>1 DEF NameTable
<1>3. SweepType
  BY DEF Names!Init, Names!Resting, SweepType
<1>4. \A s \in Names!Sweeper : SweepSound(s)
  BY <1>1 DEF SweepSound, Names!Resting
<1> QED BY <1>1, <1>2, <1>3, <1>4 DEF NamesInv

(* A step of one sweep leaves the other as it is.                          *)
LEMMA SweepMoves ==
  ASSUME NamesInv, UNCHANGED <<now, gen>>, NameTable(named'), NEW s \in Names!Sweeper,
         NEW v \in [at : {"idle", "lock", "ask"}, gen : Nat, todo : SUBSET Device, asking : SUBSET Device],
         Names!Set(s, v), SweepSound(s)',
         \A r \in Names!Sweeper \ {s} :
           sweep[r].gen = gen =>
             /\ sweep[r].at = "ask" /\ holder = r => holder' = r
             /\ sweep[r].at = "ask" /\ holder = r => DueOf(named, now) \subseteq DueOf(named', now)
  PROVE  NamesInv'
<1>1. SweepType' /\ \A r \in Names!Sweeper \ {s} : sweep'[r] = sweep[r]
  BY DEF NamesInv, SweepType, Names!Set
<1>2. ASSUME NEW r \in Names!Sweeper \ {s} PROVE SweepSound(r)'
  <2>1. SweepSound(r) /\ sweep'[r] = sweep[r]
    BY <1>1 DEF NamesInv
  <2> QED BY <2>1 DEF SweepSound, Names!Current
<1> QED BY <1>1, <1>2 DEF NamesInv

SweepRecord ==
  [at : {"idle", "lock", "ask"}, gen : Nat, todo : SUBSET Device, asking : SUBSET Device]

LEMMA SetIs ==
  ASSUME SweepType, NEW s \in Names!Sweeper, NEW v, Names!Set(s, v)
  PROVE  sweep'[s] = v
BY DEF SweepType, Names!Set

LEMMA SweepKeeps ==
  ASSUME NamesInv, NEW s \in Names!Sweeper, Names!Sweep(s)
  PROVE  NamesInv'
<1>1. PICK v : v = [Names!Resting EXCEPT !.at = "lock", !.gen = gen]
  OBVIOUS
<1>2. Names!Set(s, v) /\ UNCHANGED <<now, named, gen, holder>>
  BY <1>1 DEF Names!Sweep
<1>3. v \in SweepRecord /\ v.at = "lock" /\ v.gen = gen /\ v.todo = {} /\ v.asking = {}
  BY <1>1 DEF NamesInv, Names!Resting, SweepRecord
<1>4. sweep'[s] = v /\ gen \in Nat
  BY <1>2, SetIs DEF NamesInv
<1>5. SweepSound(s)'
  BY <1>2, <1>3, <1>4 DEF SweepSound
<1> QED BY <1>2, <1>3, <1>5, SweepMoves DEF NamesInv, SweepRecord

LEMMA LockedKeeps ==
  ASSUME NamesInv, NEW s \in Names!Sweeper, Names!Locked(s)
  PROVE  NamesInv'
<1>1. PICK round \in Names!Rounds :
        IF round = {} THEN Names!Set(s, Names!Resting) /\ UNCHANGED holder
        ELSE Names!Set(s, [sweep[s] EXCEPT !.at = "ask", !.todo = round]) /\ holder' = s
  BY DEF Names!Locked
<1>2. /\ sweep[s].at = "lock" /\ Names!Current(s) /\ holder = None
      /\ UNCHANGED <<now, named, gen>>
  BY DEF Names!Locked, Names!Free
<1>3. \A r \in Names!Sweeper : holder # r
  BY <1>2, NamesAssumption DEF Names!DevicesConstants
<1>4. round \subseteq DueOf(named, now) /\ round \subseteq Device
  BY DueIs DEF Names!Rounds, Names!Due, DueOf, NamesInv
<1>5. sweep[s] \in SweepRecord /\ SweepSound(s) /\ gen \in Nat
  BY DEF NamesInv, SweepType, SweepRecord
<1>6. PICK v : v = IF round = {} THEN Names!Resting ELSE [sweep[s] EXCEPT !.at = "ask", !.todo = round]
  OBVIOUS
<1>7. Names!Set(s, v)
  BY <1>1, <1>6
<1>8. v \in SweepRecord
  BY <1>4, <1>5, <1>6 DEF SweepRecord, Names!Resting
<1>9. sweep'[s] = v
  BY <1>7, SetIs DEF NamesInv
<1>10. SweepSound(s)'
  <2>1. CASE round = {}
    BY <1>2, <1>5, <1>6, <1>9, <2>1 DEF SweepSound, Names!Resting
  <2>2. CASE round # {}
    <3>1. v.at = "ask" /\ v.gen = gen /\ v.todo = round /\ v.asking = {} /\ holder' = s
      BY <1>1, <1>2, <1>5, <1>6, <2>2 DEF SweepRecord, SweepSound, Names!Current
    <3> QED BY <3>1, <1>2, <1>4, <1>5, <1>9 DEF SweepSound
  <2> QED BY <2>1, <2>2
<1> QED BY <1>2, <1>3, <1>7, <1>8, <1>10, SweepMoves DEF NamesInv, SweepRecord

LEMMA AskKeeps ==
  ASSUME NamesInv, NEW s \in Names!Sweeper, NEW a \in Device, Names!Ask(s, a)
  PROVE  NamesInv'
<1>1. PICK v : v = [sweep[s] EXCEPT !.todo = @ \ {a}, !.asking = @ \cup {a}]
  OBVIOUS
<1>2. Names!Set(s, v) /\ UNCHANGED <<now, named, gen, holder>> /\ sweep[s].at = "ask" /\ a \in sweep[s].todo
  BY <1>1 DEF Names!Ask
<1>3. sweep[s] \in SweepRecord /\ SweepSound(s)
  BY DEF NamesInv, SweepType, SweepRecord
<1>4. /\ v \in SweepRecord /\ v.at = "ask" /\ v.gen = sweep[s].gen
      /\ v.todo = sweep[s].todo \ {a} /\ v.asking = sweep[s].asking \cup {a}
  BY <1>1, <1>2, <1>3 DEF SweepRecord
<1>5. sweep'[s] = v
  BY <1>2, SetIs DEF NamesInv
<1>6. SweepSound(s)'
  BY <1>2, <1>3, <1>4, <1>5 DEF SweepSound, Names!Current
<1> QED BY <1>2, <1>4, <1>6, SweepMoves DEF NamesInv, SweepRecord

LEMMA AnsweredKeeps ==
  ASSUME NamesInv, NEW s \in Names!Sweeper, NEW a \in Device, NEW n \in Names!DisplayName,
         Names!Answered(s, a, n)
  PROVE  NamesInv' /\ \A b \in Device : Names!NameKept(b)
<1>1. PICK v : v = [sweep[s] EXCEPT !.asking = @ \ {a}]
  OBVIOUS
<1>2. /\ Names!Set(s, v) /\ UNCHANGED <<now, gen, holder>> /\ a \in sweep[s].asking
      /\ named' = IF Names!Current(s) THEN Names!Stored(a, n) ELSE named
  BY <1>1 DEF Names!Answered
<1>3. sweep[s] \in SweepRecord /\ SweepSound(s)
  BY DEF NamesInv, SweepType, SweepRecord
<1>4. /\ v \in SweepRecord /\ v.at = "ask" /\ v.gen = sweep[s].gen
      /\ v.todo = sweep[s].todo /\ v.asking = sweep[s].asking \ {a} /\ sweep[s].at = "ask"
  BY <1>1, <1>2, <1>3 DEF SweepRecord, SweepSound
<1>5. sweep'[s] = v
  BY <1>2, SetIs DEF NamesInv
<1>6. CASE Names!Current(s)
  <2>1. named' = Names!Stored(a, n) /\ holder = s
    BY <1>2, <1>3, <1>4, <1>6 DEF SweepSound
  <2>2. NameTable(named') /\ DueOf(named, now) \ {a} \subseteq DueOf(named', now)
    BY <2>1, StoredKeepsDue DEF NamesInv
  <2>3. SweepSound(s)'
    BY <1>2, <1>3, <1>4, <1>5, <1>6, <2>1, <2>2 DEF SweepSound, Names!Current
  <2>4. NamesInv'
    BY <1>2, <1>4, <2>1, <2>2, <2>3, SweepMoves DEF NamesInv, SweepRecord
  <2> QED BY <2>1, <2>4, StoredKeepsNames DEF NamesInv
<1>7. CASE ~Names!Current(s)
  <2>1. UNCHANGED named
    BY <1>2, <1>7
  <2>2. SweepSound(s)'
    BY <1>2, <1>3, <1>4, <1>5, <2>1 DEF SweepSound, Names!Current
  <2>3. NamesInv'
    BY <1>2, <1>4, <2>1, <2>2, SweepMoves DEF NamesInv, SweepRecord
  <2> QED BY <2>1, <2>3, NamesAside
<1> QED BY <1>6, <1>7

LEMMA SweptKeeps ==
  ASSUME NamesInv, NEW s \in Names!Sweeper, Names!Swept(s) \/ Names!Outdated(s)
  PROVE  NamesInv'
<1>1. /\ Names!Set(s, Names!Resting) /\ UNCHANGED <<now, named, gen>>
      /\ holder' = holder \/ holder = s
  BY DEF Names!Swept, Names!Outdated
<1>2. Names!Resting \in SweepRecord /\ sweep'[s] = Names!Resting
  BY <1>1, SetIs DEF NamesInv, Names!Resting, SweepRecord
<1>3. SweepSound(s)'
  BY <1>1, <1>2 DEF SweepSound, Names!Resting, NamesInv
<1> QED BY <1>1, <1>2, <1>3, SweepMoves DEF NamesInv, SweepRecord

LEMMA AdoptNamesKeeps ==
  ASSUME NamesInv, NEW cancelled, Names!AdoptNames(cancelled)
  PROVE  NamesInv'
<1>1. /\ gen' = gen + 1 /\ named' = <<>> /\ UNCHANGED now
      /\ sweep' = [s \in Names!Sweeper |-> IF s \in cancelled THEN Names!Resting ELSE sweep[s]]
  BY DEF Names!AdoptNames
<1>2. gen \in Nat /\ SweepType
  BY DEF NamesInv
<1>3. SweepType' /\ NameTable(named')
  BY <1>1, <1>2 DEF SweepType, NameTable, Names!Resting
<1>4. ASSUME NEW s \in Names!Sweeper PROVE SweepSound(s)'
  <2>1. SweepSound(s) /\ sweep[s].gen \in Nat
    BY DEF NamesInv, SweepType
  <2>2. sweep'[s] = Names!Resting \/ sweep'[s] = sweep[s]
    BY <1>1
  <2> QED BY <1>1, <1>2, <2>1, <2>2 DEF SweepSound, Names!Current, Names!Resting
<1> QED BY <1>1, <1>2, <1>3, <1>4 DEF NamesInv

LEMMA NamesTick ==
  ASSUME NamesInv, Names!Tick
  PROVE  NamesInv'
<1>1. now' = now + 1 /\ UNCHANGED <<named, gen, holder, sweep>>
  BY DEF Names!Tick
<1>2. now \in Nat /\ DueOf(named, now) \subseteq DueOf(named, now + 1)
  <2>1. \A i \in 1 .. Len(named) : named[i].until \in Nat
    <3>1. named \in Seq(NameEntry)
      BY DEF NamesInv, NameTable
    <3>2. \A i \in 1 .. Len(named) : named[i] \in NameEntry
      BY <3>1
    <3> QED BY <3>2 DEF NameEntry
  <2> QED BY <2>1 DEF NamesInv, DueOf
<1>3. \A s \in Names!Sweeper : SweepSound(s)'
  BY <1>1, <1>2 DEF NamesInv, SweepSound, Names!Current
<1> QED BY <1>1, <1>2, <1>3 DEF NamesInv, SweepType

LEMMA NamesStep ==
  ASSUME NamesInv, [Names!Next]_devices
  PROVE  NamesInv' /\ \A b \in Device : Names!NameKept(b)
<1>1. ASSUME NEW s \in Names!Sweeper,
             \/ Names!Sweep(s) \/ Names!Locked(s) \/ Names!Swept(s) \/ Names!Outdated(s)
             \/ \E a \in Device : Names!Ask(s, a)
      PROVE  NamesInv' /\ \A b \in Device : Names!NameKept(b)
  <2>1. NamesInv'
    BY <1>1, SweepKeeps, LockedKeeps, SweptKeeps, AskKeeps
  <2>2. UNCHANGED named
    BY <1>1 DEF Names!Sweep, Names!Locked, Names!Swept, Names!Outdated, Names!Ask
  <2> QED BY <2>1, <2>2, NamesAside
<1>2. ASSUME NEW s \in Names!Sweeper, NEW a \in Device, NEW n \in Names!DisplayName, Names!Answered(s, a, n)
      PROVE  NamesInv' /\ \A b \in Device : Names!NameKept(b)
  BY <1>2, AnsweredKeeps
<1>3. ASSUME NEW cancelled, Names!AdoptNames(cancelled)
      PROVE  NamesInv' /\ \A b \in Device : Names!NameKept(b)
  <2>1. gen' # gen
    BY <1>3 DEF Names!AdoptNames, NamesInv
  <2> QED BY <1>3, <2>1, AdoptNamesKeeps, NamesAside
<1>4. CASE Names!Tick
  <2>1. UNCHANGED named
    BY <1>4 DEF Names!Tick
  <2> QED BY <1>4, <2>1, NamesTick, NamesAside
<1>5. CASE UNCHANGED devices
  <2>1. UNCHANGED <<now, named, gen, holder, sweep>>
    BY <1>5 DEF devices
  <2>2. NamesInv'
    BY <2>1 DEF NamesInv, NameTable, SweepType, SweepSound, Names!Current
  <2> QED BY <2>1, <2>2, NamesAside
<1> QED BY <1>1, <1>2, <1>3, <1>4, <1>5 DEF Names!Next

(* For any devices, names, lifetimes and bounds of table and sweep: two    *)
(* sweeps that meet never ask about one address at once, nor about one     *)
(* whose entry is not past its time; and a device that has a name keeps    *)
(* one while its entry and the settings last, whatever lookups fail        *)
(* (ClientNames.sweep, due, _store).                                       *)
THEOREM DeviceNamesSound == Names!Spec => DeviceNamesKept
<1>1. NamesInv /\ [Names!Next]_(Names!vars) => NamesInv'
  BY NamesStep DEF Names!vars, devices
<1>2. NamesInv /\ [Names!Next]_(Names!vars) => \A a \in Device : Names!NameKept(a)
  BY NamesStep DEF Names!vars, devices
<1>3. NamesInv => Names!AskedOncePerTtl
  BY OneAsks
<1> QED BY <1>1, <1>2, <1>3, NamesInit, PTL DEF Names!Spec, DeviceNamesKept, Names!DeviceNamesKept

-----------------------------------------------------------------------------
(* A rule for the table has the plain rule of its name for a double: they  *)
(* differ in the source only.                                              *)
Double(r) == IF Match!IsPlain(r) THEN Match!PlainRule(r.pat) ELSE r

LEMMA RuleIs ==
  ASSUME NEW r \in Pool
  PROVE  /\ r.form \in {"suffix", "exact", "regex"} /\ (r.form # "regex" => Len(r.pat) \in Nat)
         /\ r.block \in BOOLEAN /\ r.important \in BOOLEAN
         /\ r.badfilter \in BOOLEAN /\ r.rewrite \in BOOLEAN
BY FilterAssumption DEF Match!FilterConstants

LEMMA DoubleIs ==
  ASSUME NEW r \in Pool
  PROVE  /\ Double(r).important = r.important /\ Double(r).rewrite = r.rewrite
         /\ Match!Length(Double(r)) = Match!Length(r)
BY RuleIs DEF Double, Match!IsPlain, Match!PlainRule, Match!Length

LEMMA LiveIs ==
  ASSUME NEW R
  PROVE  Match!LiveRules(R) = {r \in R : Match!Live(R, r)}
BY DEF Match!LiveRules, Match!Live

(* Exceptions are never plain, and what the index has of them is what the  *)
(* rules say.                                                              *)
LEMMA AllowedIs ==
  ASSUME NEW R, R \subseteq Pool, NEW q
  PROVE  Match!Candidates(Match!Compile(R), q, FALSE) = {r \in Match!Says(R, q) : ~r.block}
<1>1. Match!Compile(R).rest = Match!LiveRules(R) \ Match!PlainRules(Match!LiveRules(R))
  BY DEF Match!Compile, Match!Engine
<1>2. Match!Candidates(Match!Compile(R), q, FALSE)
        = {r \in Match!Compile(R).rest : r.block = FALSE /\ Match!Hits(r, q.name) /\ Match!Applicable(r, q)}
  BY DEF Match!Candidates
<1>3. \A r : r \in Match!PlainRules(Match!LiveRules(R)) <=> r \in Match!LiveRules(R) /\ Match!IsPlain(r)
  BY DEF Match!PlainRules
<1>4. \A r : Match!IsPlain(r) => r.block
  BY DEF Match!IsPlain
<1>5. \A r \in R : r.block \in BOOLEAN
  BY RuleIs
<1>6. \A r : r \in Match!Says(R, q) <=> r \in R /\ Match!Live(R, r) /\ Match!Hits(r, q.name) /\ Match!Applicable(r, q)
  BY DEF Match!Says
<1> QED  BY <1>1, <1>2, <1>3, <1>4, <1>5, <1>6, LiveIs

LEMMA BlockedIs ==
  ASSUME NEW R, R \subseteq Pool, NEW q
  PROVE  Match!Candidates(Match!Compile(R), q, TRUE) = {Double(r) : r \in {b \in Match!Says(R, q) : b.block}}
<1> DEFINE L == Match!LiveRules(R)
           P == Match!PlainRules(L)
           rest == {r \in Match!Compile(R).rest : r.block = TRUE /\ Match!Hits(r, q.name) /\ Match!Applicable(r, q)}
<1>1. Match!Compile(R).rest = L \ P /\ Match!Compile(R).plain \cup Match!Compile(R).table = Match!Named(P)
  BY DEF Match!Compile, Match!Engine, Match!Named, Match!OperatorRules
<1>2. Match!Candidates(Match!Compile(R), q, TRUE) = rest \cup {Match!PlainRule(n) : n \in Match!Named(P) \cap Match!Parents(q.name)}
  BY <1>1 DEF Match!Candidates
<1>3. \A r : r \in P <=> r \in R /\ Match!Live(R, r) /\ Match!IsPlain(r)
  BY LiveIs DEF Match!PlainRules
<1>4. \A r : Match!IsPlain(r) => r.block /\ Match!Applicable(r, q) /\ (Match!Hits(r, q.name) <=> r.pat \in Match!Parents(q.name))
  BY DEF Match!IsPlain, Match!Applicable, Match!Hits
<1>5. \A r \in R : r.block \in BOOLEAN
  BY RuleIs
<1>6. \A r : r \in Match!Says(R, q) <=> r \in R /\ Match!Live(R, r) /\ Match!Hits(r, q.name) /\ Match!Applicable(r, q)
  BY DEF Match!Says
<1>7. \A r : r \in rest <=> r \in Match!Says(R, q) /\ r.block /\ ~Match!IsPlain(r)
  BY <1>1, <1>3, <1>5, <1>6, LiveIs
<1>8. \A n : n \in Match!Named(P) \cap Match!Parents(q.name)
               <=> \E r \in Match!Says(R, q) : r.block /\ Match!IsPlain(r) /\ r.pat = n
  BY <1>3, <1>4, <1>6 DEF Match!Named
<1> HIDE DEF rest, P, L
<1> QED  BY <1>2, <1>7, <1>8 DEF Double

(* The best of the doubles are the doubles of the best.                    *)
LEMMA BestIs ==
  ASSUME NEW B, B \subseteq Pool
  PROVE  {IF r.rewrite THEN "rewrite" ELSE "block" : r \in Match!MostSpecific({Double(b) : b \in B})}
           = {IF r.rewrite THEN "rewrite" ELSE "block" : r \in {b \in B : \A c \in B : Match!Better(b, c)}}
<1>1. \A b, c \in B : Match!Better(Double(b), Double(c)) <=> Match!Better(b, c)
  BY DoubleIs DEF Match!Better
<1>2. Match!MostSpecific({Double(b) : b \in B}) = {Double(b) : b \in {x \in B : \A c \in B : Match!Better(x, c)}}
  BY <1>1 DEF Match!MostSpecific
<1> DEFINE X == {b \in B : \A c \in B : Match!Better(b, c)}
           Act(r) == IF r.rewrite THEN "rewrite" ELSE "block"
<1>3. \A b \in X : Act(Double(b)) = Act(b)
  BY DoubleIs
<1> HIDE DEF X, Act
<1>4. {Act(r) : r \in {Double(b) : b \in X}} = {Act(r) : r \in X}
  BY <1>3
<1> QED  BY <1>2, <1>4 DEF X, Act

LEMMA MatchIs ==
  ASSUME NEW R, R \subseteq Pool, NEW q
  PROVE  Match!Match(Match!Compile(R), q) = Match!Verdict(R, q)
<1> DEFINE S == Match!Says(R, q)
           B == {r \in S : r.block}
           A == {r \in S : ~r.block}
           D == {Double(b) : b \in B}
<1>1. S \subseteq Pool
  BY DEF Match!Says
<1>2. Match!Candidates(Match!Compile(R), q, FALSE) = A /\ Match!Candidates(Match!Compile(R), q, TRUE) = D
  BY AllowedIs, BlockedIs
<1>3. (\E r \in D : r.important) <=> (\E b \in B : b.important)
  BY <1>1, DoubleIs
<1>4. D = {} <=> B = {}
  OBVIOUS
<1>5. S = {} <=> A = {} /\ B = {}
  OBVIOUS
<1>6. {IF r.rewrite THEN "rewrite" ELSE "block" : r \in Match!MostSpecific(D)}
           = {IF r.rewrite THEN "rewrite" ELSE "block" : r \in {b \in B : \A c \in B : Match!Better(b, c)}}
  BY <1>1, BestIs
<1>7. (\E r \in S : ~r.block /\ (r.important \/ ~\E b \in B : b.important))
        <=> A # {} /\ ~((\E r \in D : r.important) /\ ~(\E r \in A : r.important))
  BY <1>3
<1>8. Match!Match(Match!Compile(R), q) =
        IF A # {} /\ ~((\E r \in D : r.important) /\ ~(\E r \in A : r.important)) THEN {"allow"}
        ELSE IF D # {} THEN {IF r.rewrite THEN "rewrite" ELSE "block" : r \in Match!MostSpecific(D)}
        ELSE {"none"}
  BY <1>2 DEF Match!Match
<1>9. Match!Verdict(R, q) =
        CASE S = {} -> {"none"}
          [] \E r \in S : ~r.block /\ (r.important \/ ~\E b \in B : b.important) -> {"allow"}
          [] OTHER -> {IF r.rewrite THEN "rewrite" ELSE "block" : r \in {b \in B : \A c \in B : Match!Better(b, c)}}
  BY DEF Match!Verdict
<1> QED  BY <1>4, <1>5, <1>6, <1>7, <1>8, <1>9

LEMMA MatchRight ==
  ASSUME rules \subseteq Pool, own \subseteq Pool
  PROVE  Match!MatchIsReference
<1>1. \A q : Match!Match(Match!Compile(rules), q) = Match!Verdict(rules, q) /\ Match!Match(Match!Compile(own), q) = Match!Verdict(own, q)
  BY MatchIs
<1> QED  BY <1>1 DEF Match!MatchIsReference, Match!Layered

-----------------------------------------------------------------------------
(* The table.  A filled slot holds what the first list that named the name *)
(* said, and the name is found before any empty slot.                      *)
Item == [d : Domain, s : Sources]
Place == 0 .. Slots - 1
Filled == {i \in Place : slots[i] # None}
Holds(d, k) == slots[Match!Probe(hash[d], k)] # None /\ slots[Match!Probe(hash[d], k)].d = d
Comes(d, k) == Match!Stops(d, k) /\ \A j \in 0 .. k - 1 : ~Match!Stops(d, j)

FirstListed ==
  \A i \in Place : slots[i] # None =>
    \E n \in 1 .. Len(items) : items[n] = slots[i] /\ \A m \in 1 .. n - 1 : items[m].d # slots[i].d
Reached == \A n \in 1 .. Len(items) : \E k \in Place : Holds(items[n].d, k) /\ Comes(items[n].d, k)

TableTypes ==
  /\ items \in Seq(Item) /\ Len(items) <= MaxItems
  /\ hash \in [Domain -> Place]
  /\ slots \in [Place -> Item \cup {None}]
TableInv == TableTypes /\ Cardinality(Filled) <= Len(items) /\ FirstListed /\ Reached

LEMMA TableBound == Slots \in Nat /\ MaxItems \in Nat /\ MaxItems < Slots /\ None \notin Item /\ None \notin Sources
BY FilterAssumption DEF Match!FilterConstants, Item

LEMMA Below ==
  ASSUME NEW m \in Nat, NEW n \in Nat, m < n
  PROVE  <<m, n>> \in OpToRel(<, Nat)
BY Zenon DEF OpToRel

LEMMA NatMin ==
  ASSUME NEW T, T \subseteq Nat, T # {}
  PROVE  \E x \in T : \A y \in T : x <= y
<1>1. \E x \in T : \A y \in T : ~(y < x)
  <2>1. \E x \in T : \A y \in T : ~(<<y, x>> \in OpToRel(<, Nat))
    BY WFMin, NatLessThanWellFounded, Zenon
  <2> QED  BY <2>1, Below, Zenon
<1> QED  BY <1>1

(* A probe comes round to every slot.                                      *)
LEMMA ProbeIs ==
  ASSUME NEW i \in Place, NEW k \in Place
  PROVE  /\ Match!Probe(i, k) = IF i + k < Slots THEN i + k ELSE i + k - Slots
         /\ Match!Probe(i, k) \in Place
<1>1. Slots \in Nat /\ Slots > 0 /\ i \in Nat /\ k \in Nat /\ i < Slots /\ k < Slots
  BY TableBound DEF Place
<1>2. CASE i + k < Slots
  <2>1. (i + k) % Slots = i + k
    BY <1>1, <1>2
  <2> QED  BY <1>1, <1>2, <2>1 DEF Match!Probe, Place
<1>3. CASE ~(i + k < Slots)
  <2> DEFINE a == i + k - Slots
  <2>1. a \in Nat /\ a < Slots /\ i + k = a + Slots
    BY <1>1, <1>3
  <2> HIDE DEF a
  <2>2. (a + Slots) % Slots = a
    BY <1>1, <2>1
  <2>3. Match!Probe(i, k) = a
    BY <2>1, <2>2 DEF Match!Probe
  <2> QED  BY <1>1, <1>3, <2>1, <2>3 DEF Place, a
<1> QED  BY <1>2, <1>3

LEMMA ProbeReaches ==
  ASSUME NEW i \in Place, NEW e \in Place
  PROVE  \E k \in Place : Match!Probe(i, k) = e
<1> DEFINE k == IF i <= e THEN e - i ELSE e - i + Slots
<1>1. k \in Place /\ (IF i + k < Slots THEN i + k ELSE i + k - Slots) = e
  BY TableBound DEF Place
<1> HIDE DEF k
<1>2. Match!Probe(i, k) = e
  BY <1>1, ProbeIs
<1> QED  BY <1>1, <1>2

(* As many slots are filled as names were put at most, and one is free.    *)
LEMMA SlotFree ==
  ASSUME TableTypes, Cardinality(Filled) <= Len(items)
  PROVE  \E e \in Place : slots[e] = None
<1>1. PICK l \in Nat : l = Len(items) /\ l <= MaxItems
  BY DEF TableTypes
<1>2. IsFiniteSet(Place) /\ Cardinality(Place) = Slots
  <2>1. 0 \in Int /\ Slots - 1 \in Int
    BY TableBound
  <2>2. IsFiniteSet(0 .. Slots - 1) /\ Cardinality(0 .. Slots - 1) = IF 0 > Slots - 1 THEN 0 ELSE Slots - 1 - 0 + 1
    BY <2>1, FS_Interval
  <2> QED  BY <2>2, TableBound DEF Place
<1>3. Filled # Place
  BY <1>1, <1>2, TableBound
<1> QED  BY <1>3 DEF Filled

LEMMA SlotOfIs ==
  ASSUME TableTypes, Cardinality(Filled) <= Len(items), NEW d \in Domain
  PROVE  /\ \E k \in Place : Match!SlotOf(d) = Match!Probe(hash[d], k) /\ Comes(d, k)
         /\ \A k \in Place : Comes(d, k) => Match!SlotOf(d) = Match!Probe(hash[d], k)
<1>1. PICK e \in Place : slots[e] = None
  BY SlotFree
<1>2. hash[d] \in Place
  BY DEF TableTypes
<1>3. PICK k \in Place : Match!Probe(hash[d], k) = e
  BY <1>2, ProbeReaches
<1> DEFINE T == {j \in Place : Match!Stops(d, j)}
<1>4. k \in T /\ T \subseteq Nat
  BY <1>1, <1>3, TableBound DEF Match!Stops, Place
<1>5. PICK f \in T : \A j \in T : f <= j
  <2> HIDE DEF T
  <2> QED  BY <1>4, NatMin
<1>6. f \in Place /\ Comes(d, f)
  BY <1>5, TableBound DEF Comes, Place
<1>7. \A j \in Place : Comes(d, j) => j = f
  BY <1>6, TableBound DEF Comes, Place
<1>8. (CHOOSE j \in Place : Comes(d, j)) = f
  BY <1>6, <1>7
<1>9. Match!SlotOf(d) = Match!Probe(hash[d], CHOOSE j \in Place : Comes(d, j))
  BY DEF Match!SlotOf, Comes, Place
<1> QED  BY <1>6, <1>7, <1>8, <1>9

LEMMA TableRight == TableInv => Match!TableIsExact
<1> SUFFICES ASSUME TableInv, NEW d \in Domain
             PROVE  LET S == {i \in DOMAIN items : items[i].d = d}
                    IN Match!Get(d) = IF S = {} \/ d \in removed THEN None ELSE items[CHOOSE i \in S : \A j \in S : i <= j].s
  BY DEF Match!TableIsExact
<1> DEFINE S == {i \in DOMAIN items : items[i].d = d}
           v == slots[Match!SlotOf(d)]
<1>0. TableTypes /\ Cardinality(Filled) <= Len(items) /\ FirstListed /\ Reached
  BY DEF TableInv
<1>1. DOMAIN items = 1 .. Len(items) /\ Len(items) \in Nat /\ \A i \in DOMAIN items : items[i] \in Item
  BY <1>0 DEF TableTypes
<1>2. PICK k \in Place : Match!SlotOf(d) = Match!Probe(hash[d], k) /\ Comes(d, k)
  BY <1>0, SlotOfIs
<1>3. Match!SlotOf(d) \in Place /\ (v = None \/ v.d = d)
  <2>1. hash[d] \in Place
    BY <1>0 DEF TableTypes
  <2> QED  BY <1>2, <2>1, ProbeIs DEF Comes, Match!Stops
<1>4. CASE S = {}
  <2>1. v = None
    BY <1>0, <1>1, <1>3, <1>4 DEF FirstListed
  <2> QED  BY <1>4, <2>1 DEF Match!Get
<1>5. CASE S # {}
  <2>1. PICK n \in DOMAIN items : items[n].d = d
    BY <1>5
  <2>2. PICK h \in Place : Holds(d, h) /\ Comes(d, h)
    BY <1>0, <1>1, <2>1 DEF Reached
  <2>3. Match!SlotOf(d) = Match!Probe(hash[d], h)
    BY <1>0, <2>2, SlotOfIs
  <2>4. v # None /\ v.d = d
    BY <2>2, <2>3 DEF Holds
  <2>5. PICK m \in 1 .. Len(items) : items[m] = v /\ \A o \in 1 .. m - 1 : items[o].d # v.d
    BY <1>0, <1>3, <2>4 DEF FirstListed
  <2>6. m \in S /\ \A j \in S : m <= j
    BY <1>1, <2>4, <2>5
  <2>7. \A i \in S : (\A j \in S : i <= j) => i = m
    BY <1>1, <2>6
  <2>8. (CHOOSE i \in S : \A j \in S : i <= j) = m
    <3> HIDE DEF S
    <3> QED  BY <2>6, <2>7
  <2> QED  BY <1>5, <2>4, <2>5, <2>8 DEF Match!Get
<1> QED  BY <1>4, <1>5

LEMMA TableInit == Match!Init => TableInv
<1> SUFFICES ASSUME Match!Init PROVE TableInv
  OBVIOUS
<1>1. items = <<>> /\ Len(items) = 0 /\ slots = [i \in Place |-> None] /\ hash \in [Domain -> Place]
  BY DEF Match!Init, Place
<1>2. Filled = {} /\ Cardinality(Filled) = 0
  BY <1>1, FS_EmptySet DEF Filled
<1> QED  BY <1>1, <1>2, TableBound DEF TableInv, TableTypes, FirstListed, Reached

(* One more name: it goes to the first free slot on its way, unless an     *)
(* earlier list named it; nobody's way passed through a free slot.         *)
LEMMA AddItemKeeps ==
  ASSUME TableInv, NEW d \in Domain, NEW s \in Sources, Match!AddItem(d, s)
  PROVE  TableInv'
<1> DEFINE item == [d |-> d, s |-> s]
           p == Match!SlotOf(d)
<1>0. TableTypes /\ Cardinality(Filled) <= Len(items) /\ FirstListed /\ Reached
  BY DEF TableInv
<1>1. /\ items' = Append(items, item) /\ hash' = hash /\ Len(items) < MaxItems
      /\ slots' = IF slots[p] = None THEN [slots EXCEPT ![p] = item] ELSE slots
  BY DEF Match!AddItem, Match!Put
<1>2. item \in Item /\ item.d = d /\ item # None
  BY TableBound DEF Item
<1>3. PICK n \in Nat : n = Len(items) /\ n < MaxItems
  BY <1>0, <1>1 DEF TableTypes
<1>4. /\ items' \in Seq(Item) /\ Len(items') = n + 1 /\ items'[n + 1] = item
      /\ \A i \in 1 .. n : items'[i] = items[i] /\ items[i] \in Item
  BY <1>0, <1>1, <1>2, <1>3 DEF TableTypes
<1>5. \A e \in Domain : hash[e] \in Place
  BY <1>0 DEF TableTypes
<1>6. PICK k \in Place : p = Match!Probe(hash[d], k) /\ Comes(d, k)
  BY <1>0, SlotOfIs
<1>7. p \in Place
  BY <1>5, <1>6, ProbeIs
<1>8. TableTypes'
  BY <1>0, <1>1, <1>2, <1>3, <1>4, <1>7, TableBound DEF TableTypes
<1>9. Cardinality(Filled)' <= Len(items')
  <2>1. IsFiniteSet(Place)
    BY TableBound, FS_Interval DEF Place
  <2>2. IsFiniteSet(Filled) /\ Cardinality(Filled) \in Nat
    BY <2>1, FS_Subset, FS_CardinalityType DEF Filled
  <2>3. Filled' \subseteq Filled \cup {p}
    BY <1>0, <1>1, <1>7 DEF Filled, TableTypes
  <2>4. IsFiniteSet(Filled \cup {p}) /\ Cardinality(Filled \cup {p}) <= Cardinality(Filled) + 1
    <3> DEFINE F == Filled
    <3>1. IsFiniteSet(F) /\ Cardinality(F) \in Nat
      BY <2>2
    <3> HIDE DEF F, p
    <3>2. IsFiniteSet(F \cup {p}) /\ Cardinality(F \cup {p}) = IF p \in F THEN Cardinality(F) ELSE Cardinality(F) + 1
      BY <3>1, FS_AddElement
    <3>3. IsFiniteSet(F \cup {p}) /\ Cardinality(F \cup {p}) <= Cardinality(F) + 1
      BY <3>1, <3>2
    <3> QED  BY <3>3 DEF F
  <2>5. Cardinality(Filled') <= Cardinality(Filled \cup {p}) /\ Cardinality(Filled \cup {p}) \in Nat
    BY <2>3, <2>4, FS_Subset, FS_CardinalityType
  <2>6. Cardinality(Filled') \in Nat
    BY <2>3, <2>4, FS_Subset, FS_CardinalityType
  <2> QED  BY <1>0, <1>3, <1>4, <2>2, <2>4, <2>5, <2>6
<1>10. CASE slots[p] = None
  <2>1. slots' = [slots EXCEPT ![p] = item]
    BY <1>1, <1>10
  <2>2. slots'[p] = item /\ \A i \in Place : i # p => slots'[i] = slots[i]
    BY <1>0, <1>7, <2>1 DEF TableTypes
  <2>3. \A i \in 1 .. n : items[i].d # d
    <3> SUFFICES ASSUME NEW i \in 1 .. n, items[i].d = d PROVE FALSE
      OBVIOUS
    <3>1. PICK h \in Place : Holds(d, h) /\ Comes(d, h)
      BY <1>0, <1>3 DEF Reached
    <3>2. Match!SlotOf(d) = Match!Probe(hash[d], h)
      BY <1>0, <3>1, SlotOfIs
    <3> QED  BY <1>10, <3>1, <3>2 DEF Holds
  <2>4. FirstListed'
    <3> SUFFICES ASSUME NEW i \in Place, slots'[i] # None
                 PROVE  \E o \in 1 .. n + 1 : items'[o] = slots'[i] /\ \A m \in 1 .. o - 1 : items'[m].d # slots'[i].d
      BY <1>4 DEF FirstListed
    <3>1. CASE i = p
      BY <1>2, <1>3, <1>4, <2>2, <2>3, <3>1
    <3>2. CASE i # p
      <4>1. slots'[i] = slots[i]
        BY <2>2, <3>2
      <4>2. PICK o \in 1 .. n : items[o] = slots[i] /\ \A m \in 1 .. o - 1 : items[m].d # slots[i].d
        BY <1>0, <1>3, <4>1 DEF FirstListed
      <4>3. o \in 1 .. n + 1 /\ items'[o] = slots'[i] /\ \A m \in 1 .. o - 1 : items'[m].d # slots'[i].d
        BY <1>3, <1>4, <4>1, <4>2
      <4> QED  BY <4>3
    <3> QED  BY <3>1, <3>2
  <2>5. \A e \in Domain, h \in Place : Holds(e, h) => Holds(e, h)' /\ Match!Probe(hash[e], h) # p
    BY <1>1, <1>5, <1>10, <2>2, ProbeIs DEF Holds, Match!Probe
  <2>6. \A e \in Domain, h \in Place : ~Match!Stops(e, h) => ~Match!Stops(e, h)'
    BY <1>1, <1>5, <1>10, <2>2, ProbeIs DEF Match!Stops, Match!Probe
  <2>7. \A e \in Domain, h \in Place : Holds(e, h) /\ Comes(e, h) => Holds(e, h)' /\ Comes(e, h)'
    <3> SUFFICES ASSUME NEW e \in Domain, NEW h \in Place, Holds(e, h), Comes(e, h)
                 PROVE  Holds(e, h)' /\ Comes(e, h)'
      OBVIOUS
    <3>1. Holds(e, h)' /\ Match!Stops(e, h)'
      BY <2>5 DEF Holds, Match!Stops
    <3>2. \A j \in 0 .. h - 1 : j \in Place
      BY TableBound DEF Place
    <3> QED  BY <2>6, <3>1, <3>2 DEF Comes
  <2>8. Holds(d, k)' /\ Comes(d, k)'
    <3>1. Holds(d, k)'
      BY <1>1, <1>2, <1>6, <2>2 DEF Holds, Match!Probe
    <3>2. Match!Stops(d, k)'
      BY <3>1 DEF Holds, Match!Stops
    <3>3. \A j \in 0 .. k - 1 : j \in Place
      BY TableBound DEF Place
    <3> QED  BY <1>6, <2>6, <3>1, <3>2, <3>3 DEF Comes
  <2>9. Reached'
    <3> SUFFICES ASSUME NEW i \in 1 .. n + 1
                 PROVE  \E h \in Place : (Holds(items[i].d, h) /\ Comes(items[i].d, h))'
      BY <1>4 DEF Reached
    <3>1. CASE i = n + 1
      <4>1. items'[i].d = d
        BY <1>2, <1>4, <3>1
      <4> QED  BY <2>8, <4>1 DEF Holds, Comes, Match!Stops
    <3>2. CASE i \in 1 .. n
      <4>1. items'[i].d = items[i].d /\ items[i].d \in Domain
        BY <1>4, <3>2 DEF Item
      <4>2. PICK h \in Place : Holds(items[i].d, h) /\ Comes(items[i].d, h)
        BY <1>0, <1>3, <3>2 DEF Reached
      <4>3. PICK e \in Domain : e = items[i].d /\ items'[i].d = e
        BY <4>1
      <4>4. Holds(e, h)' /\ Comes(e, h)'
        BY <2>7, <4>2, <4>3
      <4> QED  BY <4>3, <4>4 DEF Holds, Comes, Match!Stops
    <3> QED  BY <1>3, <3>1, <3>2
  <2> QED  BY <1>8, <1>9, <2>4, <2>9 DEF TableInv
<1>11. CASE slots[p] # None
  <2>1. slots' = slots
    BY <1>1, <1>11
  <2>2. slots[p].d = d
    BY <1>6, <1>11 DEF Comes, Match!Stops
  <2>3. FirstListed'
    <3> SUFFICES ASSUME NEW i \in Place, slots[i] # None
                 PROVE  \E o \in 1 .. n + 1 : items'[o] = slots[i] /\ \A m \in 1 .. o - 1 : items'[m].d # slots[i].d
      BY <1>4, <2>1 DEF FirstListed
    <3>1. PICK o \in 1 .. n : items[o] = slots[i] /\ \A m \in 1 .. o - 1 : items[m].d # slots[i].d
      BY <1>0, <1>3 DEF FirstListed
    <3>2. o \in 1 .. n + 1 /\ items'[o] = slots[i] /\ \A m \in 1 .. o - 1 : items'[m].d # slots[i].d
      BY <1>3, <1>4, <3>1
    <3> QED  BY <3>2
  <2>4. \A e, h : Holds(e, h)' = Holds(e, h) /\ Comes(e, h)' = Comes(e, h)
    BY <1>1, <2>1 DEF Holds, Comes, Match!Stops, Match!Probe
  <2>5. Holds(d, k) /\ Comes(d, k)
    BY <1>6, <1>11, <2>2 DEF Holds
  <2>6. Reached'
    <3> SUFFICES ASSUME NEW i \in 1 .. n + 1
                 PROVE  \E h \in Place : (Holds(items[i].d, h) /\ Comes(items[i].d, h))'
      BY <1>4 DEF Reached
    <3>1. CASE i = n + 1
      <4>1. items'[i].d = d
        BY <1>2, <1>4, <3>1
      <4> QED  BY <1>1, <2>1, <2>5, <4>1 DEF Holds, Comes, Match!Stops, Match!Probe
    <3>2. CASE i \in 1 .. n
      <4>1. items'[i].d = items[i].d
        BY <1>4, <3>2
      <4>2. PICK h \in Place : Holds(items[i].d, h) /\ Comes(items[i].d, h)
        BY <1>0, <1>3, <3>2 DEF Reached
      <4> QED  BY <1>1, <2>1, <4>1, <4>2 DEF Holds, Comes, Match!Stops, Match!Probe
    <3> QED  BY <1>3, <3>1, <3>2
  <2> QED  BY <1>8, <1>9, <2>3, <2>6 DEF TableInv
<1> QED  BY <1>10, <1>11

LEMMA TableAside == TableInv /\ UNCHANGED <<hash, items, slots>> => TableInv'
<1> SUFFICES ASSUME TableInv, UNCHANGED <<hash, items, slots>> PROVE TableInv'
  OBVIOUS
<1>1. TableTypes' /\ Filled' = Filled /\ FirstListed'
  BY DEF TableInv, TableTypes, Filled, FirstListed
<1>2. \A d, k : Match!Stops(d, k)' = Match!Stops(d, k) /\ Holds(d, k)' = Holds(d, k)
  BY DEF Holds, Match!Stops, Match!Probe
<1>3. \A d, k : Comes(d, k)' = Comes(d, k)
  BY <1>2 DEF Comes
<1>4. Reached'
  BY <1>2, <1>3 DEF TableInv, Reached
<1> QED  BY <1>1, <1>4 DEF TableInv

-----------------------------------------------------------------------------
(* The glob.                                                               *)
GlobTypes == glob \in Seq(Seq(Letter)) /\ glob # <<>> /\ text \in Seq(Letter)

(* A place for each piece, the first at the start and the last at the end. *)
Placement ==
  {at \in [1 .. Len(glob) -> 1 .. Len(text) + 1] :
     /\ at[1] = 1 /\ at[Len(glob)] + Len(glob[Len(glob)]) = Len(text) + 1
     /\ \A i \in 1 .. Len(glob) : Match!Occurs(glob[i], at[i])
     /\ \A i \in 1 .. Len(glob) - 1 : at[i] + Len(glob[i]) <= at[i + 1]}

Step(i, p) ==
  IF i = 1 THEN Len(glob[1]) + 1
  ELSE LET at == IF p = 0 THEN 0 ELSE Match!Find(glob[i], p, Match!Stop)
       IN IF at = 0 THEN 0 ELSE at + Len(glob[i])

(* The scan is defined: the prefixes that have one grow by a piece.        *)
LEMMA FromIs ==
  ASSUME GlobTypes
  PROVE  \A i \in 1 .. Len(glob) : Match!From[i] = Step(i, Match!From[i - 1])
<1>1. PICK n \in Nat : n = Len(glob)
  BY DEF GlobTypes
<1> DEFINE Scans(k, f) == f = [i \in 1 .. k |-> Step(i, f[i - 1])]
           T == {k \in 0 .. n : ~\E f : Scans(k, f)}
<1>2. T = {}
  <2> SUFFICES ASSUME T # {} PROVE FALSE
    OBVIOUS
  <2>1. PICK k \in T : \A j \in T : k <= j
    <3>1. T \subseteq Nat
      OBVIOUS
    <3> HIDE DEF T
    <3> QED  BY <3>1, NatMin
  <2>2. CASE k = 0
    <3>1. Scans(0, [i \in 1 .. 0 |-> 0])
      OBVIOUS
    <3> QED  BY <2>1, <2>2, <3>1
  <2>3. CASE k # 0
    <3>1. k - 1 \in 0 .. n /\ k - 1 \notin T
      <4>1. k \in 0 .. n
        BY <2>1
      <4>2. k - 1 \in 0 .. n /\ ~(k <= k - 1)
        BY <1>1, <2>3, <4>1
      <4> HIDE DEF T
      <4> QED  BY <2>1, <4>2
    <3>2. PICK f : Scans(k - 1, f)
      BY <3>1
    <3> DEFINE g == [i \in 1 .. k |-> IF i = k THEN Step(k, f[k - 1]) ELSE f[i]]
    <3>3. k \in Nat /\ k > 0
      BY <2>1, <2>3
    <3>4. \A i \in 1 .. k : g[i] = Step(i, g[i - 1])
      <4> SUFFICES ASSUME NEW i \in 1 .. k PROVE g[i] = Step(i, g[i - 1])
        OBVIOUS
      <4>1. CASE i = 1
        <5>1. \A p, r : Step(1, p) = Step(1, r)
          BY DEF Step
        <5>2. g[1] = IF 1 = k THEN Step(k, f[k - 1]) ELSE f[1]
          BY <3>3
        <5>3. 1 # k => f[1] = Step(1, f[1 - 1])
          BY <3>2, <3>3
        <5> QED  BY <4>1, <5>1, <5>2, <5>3
      <4>2. CASE i # 1
        <5>1. g[i - 1] = f[i - 1]
          BY <3>3, <4>2
        <5>2. g[i] = IF i = k THEN Step(k, f[k - 1]) ELSE f[i]
          OBVIOUS
        <5>3. i # k => f[i] = Step(i, f[i - 1])
          BY <3>2, <3>3
        <5> HIDE DEF g
        <5> QED  BY <5>1, <5>2, <5>3
      <4> QED  BY <4>1, <4>2
    <3>5. g = [i \in 1 .. k |-> Step(i, g[i - 1])]
      <4>1. g = [i \in 1 .. k |-> g[i]]
        OBVIOUS
      <4> HIDE DEF g
      <4> QED  BY <3>4, <4>1
    <3>6. Scans(k, g)
      BY <3>5
    <3> HIDE DEF g, Scans
    <3> QED  BY <2>1, <3>6
  <2> QED  BY <2>2, <2>3
<1>3. PICK f : f = [i \in 1 .. Len(glob) |-> Step(i, f[i - 1])]
  BY <1>1, <1>2
<1>4. Match!From = CHOOSE h : h = [i \in 1 .. Len(glob) |-> Step(i, h[i - 1])]
  BY DEF Match!From, Step
<1>5. Match!From = [i \in 1 .. Len(glob) |-> Step(i, Match!From[i - 1])]
  BY <1>3, <1>4
<1> QED  BY <1>5

LEMMA PieceIs ==
  ASSUME GlobTypes
  PROVE  /\ Len(glob) \in Nat /\ Len(glob) > 0 /\ Len(text) \in Nat /\ Match!Stop \in Int
         /\ \A i \in 1 .. Len(glob) : glob[i] \in Seq(Letter) /\ Len(glob[i]) \in Nat
         /\ \A i \in 1 .. Len(glob) : glob[i] = <<>> <=> Len(glob[i]) = 0
BY DEF GlobTypes, Match!Stop

(* The leftmost place, when there is one.                                  *)
LEMMA FindIs ==
  ASSUME GlobTypes, NEW i \in 1 .. Len(glob), NEW p \in Nat, p > 0, glob[i] # <<>>
  PROVE  /\ Match!Find(glob[i], p, Match!Stop) # 0 =>
              /\ Match!Find(glob[i], p, Match!Stop) \in Nat /\ Match!Find(glob[i], p, Match!Stop) >= p
              /\ Match!Find(glob[i], p, Match!Stop) + Len(glob[i]) <= Match!Stop + 1
              /\ Match!Occurs(glob[i], Match!Find(glob[i], p, Match!Stop))
         /\ \A a \in Nat : a >= p /\ a + Len(glob[i]) <= Match!Stop + 1 /\ Match!Occurs(glob[i], a) =>
              Match!Find(glob[i], p, Match!Stop) # 0 /\ Match!Find(glob[i], p, Match!Stop) <= a
<1> DEFINE S == {a \in p .. Match!Stop : a + Len(glob[i]) - 1 <= Match!Stop /\ Match!Occurs(glob[i], a)}
<1>0. PICK stop \in Int : stop = Match!Stop
  BY PieceIs
<1>1. PICK l \in Nat : l = Len(glob[i]) /\ l > 0
  BY PieceIs
<1>2. \A a : a \in S <=> a \in Nat /\ a >= p /\ a + l <= stop + 1 /\ Match!Occurs(glob[i], a)
  BY <1>0, <1>1
<1>3. Match!Find(glob[i], p, Match!Stop) = IF S = {} THEN 0 ELSE CHOOSE a \in S : \A b \in S : a <= b
  BY DEF Match!Find
<1> HIDE DEF S
<1>4. CASE S = {}
  BY <1>0, <1>1, <1>2, <1>3, <1>4
<1>5. CASE S # {}
  <2>1. PICK m \in S : \A b \in S : m <= b
    <3>1. S \subseteq Nat
      BY <1>2
    <3> QED  BY <1>5, <3>1, NatMin
  <2>2. (CHOOSE a \in S : \A b \in S : a <= b) \in S /\ \A b \in S : (CHOOSE a \in S : \A b2 \in S : a <= b2) <= b
    BY <2>1
  <2>3. Match!Find(glob[i], p, Match!Stop) \in S /\ \A b \in S : Match!Find(glob[i], p, Match!Stop) <= b
    BY <1>3, <1>5, <2>2
  <2>4. PICK f : f = Match!Find(glob[i], p, Match!Stop) /\ f \in S /\ \A b \in S : f <= b
    BY <2>3
  <2>5. f \in Nat /\ f >= p /\ f + l <= stop + 1 /\ Match!Occurs(glob[i], f)
    BY <1>2, <2>4
  <2>6. \A a \in Nat : a >= p /\ a + l <= stop + 1 /\ Match!Occurs(glob[i], a) => f # 0 /\ f <= a
    <3>1. \A a \in Nat : a >= p /\ a + l <= stop + 1 /\ Match!Occurs(glob[i], a) => f <= a
      BY <1>2, <2>4
    <3>2. f # 0
      BY <2>5
    <3> QED  BY <3>1, <3>2
  <2> QED  BY <1>0, <1>1, <2>4, <2>5, <2>6
<1> QED  BY <1>4, <1>5

(* What the scan has of a piece between the first and the last.            *)
LEMMA StepIs ==
  ASSUME GlobTypes, NEW i \in 2 .. Len(glob), NEW p \in Nat
  PROVE  /\ Step(i, p) \in Nat
         /\ p = 0 => Step(i, p) = 0
         /\ Step(i, p) # 0 /\ p <= Match!Stop + 1 =>
              /\ Step(i, p) - Len(glob[i]) \in Nat /\ Step(i, p) - Len(glob[i]) >= p
              /\ Step(i, p) <= Match!Stop + 1
              /\ glob[i] # <<>> => Match!Occurs(glob[i], Step(i, p) - Len(glob[i]))
         /\ \A a \in Nat : p # 0 /\ a >= p /\ a + Len(glob[i]) <= Match!Stop + 1 /\ Match!Occurs(glob[i], a) =>
              Step(i, p) # 0 /\ Step(i, p) <= a + Len(glob[i])
<1>0. PICK stop \in Int : stop = Match!Stop
  BY PieceIs
<1>1. i \in 1 .. Len(glob) /\ i # 1
  BY PieceIs
<1>2. PICK l \in Nat : l = Len(glob[i]) /\ (glob[i] = <<>> <=> l = 0)
  BY <1>1, PieceIs
<1>3. CASE p = 0
  BY <1>1, <1>2, <1>3 DEF Step
<1>4. CASE p # 0
  <2>1. PICK f : f = Match!Find(glob[i], p, Match!Stop)
    OBVIOUS
  <2>2. Step(i, p) = IF f = 0 THEN 0 ELSE f + l
    BY <1>1, <1>2, <1>4, <2>1 DEF Step
  <2>3. CASE glob[i] = <<>>
    <3>1. f = p
      BY <2>1, <2>3 DEF Match!Find
    <3> QED  BY <1>0, <1>2, <1>4, <2>2, <2>3, <3>1
  <2>4. CASE glob[i] # <<>>
    <3>1. /\ f # 0 => f \in Nat /\ f >= p /\ f + l <= stop + 1 /\ Match!Occurs(glob[i], f)
          /\ \A a \in Nat : a >= p /\ a + l <= stop + 1 /\ Match!Occurs(glob[i], a) => f # 0 /\ f <= a
      BY <1>0, <1>1, <1>2, <1>4, <2>1, <2>4, FindIs
    <3>2. f = 0 \/ f \in Nat
      BY <3>1
    <3> QED  BY <1>0, <1>2, <1>4, <2>2, <2>4, <3>1, <3>2
  <2> QED  BY <2>3, <2>4
<1> QED  BY <1>3, <1>4

(* Up and down the pieces.                                                 *)
LEMMA Upward ==
  ASSUME NEW n \in Nat, NEW G, 1 \in G, \A i \in 1 .. n - 1 : i \in G => i + 1 \in G
  PROVE  1 .. n \subseteq G
<1> SUFFICES ASSUME (1 .. n) \ G # {} PROVE FALSE
  OBVIOUS
<1>1. (1 .. n) \ G \subseteq Nat
  OBVIOUS
<1>2. PICK k \in (1 .. n) \ G : \A j \in (1 .. n) \ G : k <= j
  BY <1>1, NatMin
<1>3. k - 1 \in 1 .. n - 1 /\ ~(k <= k - 1) /\ (k - 1) + 1 = k
  BY <1>2
<1>4. k - 1 \in G
  BY <1>2, <1>3
<1> QED  BY <1>2, <1>3, <1>4

LEMMA Downward ==
  ASSUME NEW n \in Nat, NEW G, n \in G, \A i \in 1 .. n - 1 : i + 1 \in G => i \in G
  PROVE  1 .. n \subseteq G
<1> DEFINE H == {j \in 1 .. n : n + 1 - j \in G}
<1>1. \A j \in 1 .. n - 1 : j \in H => j + 1 \in H
  <2> SUFFICES ASSUME NEW j \in 1 .. n - 1, n + 1 - j \in G PROVE n + 1 - (j + 1) \in G
    OBVIOUS
  <2>1. n - j \in 1 .. n - 1 /\ (n - j) + 1 = n + 1 - j /\ n + 1 - (j + 1) = n - j
    OBVIOUS
  <2> QED  BY <2>1
<1>2. CASE n = 0
  BY <1>2
<1>3. CASE n > 0
  <2>1. 1 \in H
    <3>1. n + 1 - 1 = n
      OBVIOUS
    <3> QED  BY <1>3, <3>1
  <2> HIDE DEF H
  <2>2. 1 .. n \subseteq H
    BY <1>1, <2>1, Upward
  <2> USE DEF H
  <2> SUFFICES ASSUME NEW i \in 1 .. n PROVE i \in G
    OBVIOUS
  <2>3. n + 1 - i \in 1 .. n /\ n + 1 - (n + 1 - i) = i
    OBVIOUS
  <2> QED  BY <2>2, <2>3
<1> QED  BY <1>2, <1>3

LEMMA Nowhere ==
  ASSUME GlobTypes, NEW a \in 1 .. Len(text) + 1
  PROVE  Match!Occurs(<<>>, a)
<1>1. SubSeq(text, a, a - 1) = <<>>
  BY DEF GlobTypes
<1>2. PICK t \in Nat : t = Len(text)
  BY DEF GlobTypes
<1>3. Len(<<>>) = 0
  OBVIOUS
<1>4. a \in Nat /\ a + Len(<<>>) - 1 = a - 1 /\ a - 1 <= Len(text)
  BY <1>2, <1>3
<1> QED  BY <1>1, <1>4 DEF Match!Occurs

(* A glob without a star is the text itself.                               *)
LEMMA PlainGlob ==
  ASSUME GlobTypes, Len(glob) = 1
  PROVE  Match!Search <=> Placement # {}
<1>1. Match!Search <=> text = glob[1]
  BY DEF Match!Search
<1>2. 1 .. Len(glob) = {1} /\ glob[1] \in Seq(Letter) /\ text \in Seq(Letter)
  BY PieceIs DEF GlobTypes
<1>3. PICK t \in Nat : t = Len(text)
  BY <1>2
<1>4. SubSeq(text, 1, t) = text
  BY <1>2, <1>3
<1>5. ASSUME text = glob[1] PROVE Placement # {}
  <2> DEFINE at == [i \in 1 .. Len(glob) |-> 1]
  <2>1. Match!Occurs(glob[1], 1)
    <3>1. 1 + t - 1 = t
      OBVIOUS
    <3> QED  BY <1>3, <1>4, <1>5, <3>1 DEF Match!Occurs
  <2>2. at[1] = 1 /\ at \in [1 .. Len(glob) -> 1 .. Len(text) + 1]
    BY <1>2, <1>3
  <2>3. at[Len(glob)] + Len(glob[Len(glob)]) = Len(text) + 1
    BY <1>2, <1>3, <1>5, <2>2
  <2> HIDE DEF at
  <2>4. at \in Placement
    BY <1>2, <2>1, <2>2, <2>3 DEF Placement
  <2> QED  BY <2>4
<1>6. ASSUME NEW at \in Placement PROVE text = glob[1]
  <2>1. at[1] = 1 /\ at[1] + Len(glob[1]) = Len(text) + 1 /\ Match!Occurs(glob[1], 1)
    BY <1>2 DEF Placement
  <2>2. PICK l \in Nat : l = Len(glob[1])
    BY <1>2
  <2>3. l = t /\ 1 + l - 1 = t
    BY <1>3, <2>1, <2>2
  <2> QED  BY <1>3, <1>4, <2>1, <2>2, <2>3 DEF Match!Occurs
<1> QED  BY <1>1, <1>5, <1>6

(* What the scan finds is a placement.                                     *)
LEMMA ScanFound ==
  ASSUME GlobTypes, Len(glob) > 1, Match!Search
  PROVE  Placement # {}
<1>1. PICK n \in Nat : n = Len(glob) /\ n > 1
  BY PieceIs
<1>2. PICK t \in Nat, l \in [1 .. n -> Nat] : t = Len(text) /\ l = [i \in 1 .. n |-> Len(glob[i])]
  BY <1>1, PieceIs
<1>3. /\ \A i \in 1 .. n : l[i] \in Nat /\ Len(glob[i]) = l[i] /\ (glob[i] = <<>> <=> l[i] = 0)
      /\ l[1] \in Nat /\ l[n] \in Nat /\ Len(glob[1]) = l[1] /\ Len(glob[n]) = l[n]
      /\ Match!Stop = t - l[n]
  <2>1. \A i \in 1 .. n : l[i] \in Nat /\ Len(glob[i]) = l[i] /\ (glob[i] = <<>> <=> l[i] = 0)
    BY <1>1, <1>2, PieceIs
  <2>2. 1 \in 1 .. n /\ n \in 1 .. n
    BY <1>1
  <2> QED  BY <1>1, <1>2, <2>1, <2>2 DEF Match!Stop
<1>4. /\ t >= l[1] + l[n]
      /\ Match!Occurs(glob[1], 1) /\ Match!Occurs(glob[n], Match!Stop + 1)
      /\ Match!From[n - 1] # 0
  <2>1. /\ Len(text) >= Len(glob[1]) + Len(glob[Len(glob)])
        /\ Match!Occurs(glob[1], 1) /\ Match!Occurs(glob[Len(glob)], Match!Stop + 1)
        /\ Match!From[Len(glob) - 1] # 0
    <3>1. Len(glob) # 1
      BY <1>1
    <3> QED  BY <3>1 DEF Match!Search
  <2> QED  BY <1>1, <1>2, <1>3, <2>1
<1>5. Match!From[1] = l[1] + 1 /\ \A i \in 2 .. n : Match!From[i] = Step(i, Match!From[i - 1])
  BY <1>1, <1>3, FromIs DEF Step
<1> DEFINE G == {i \in 1 .. n - 1 : Match!From[i] \in Nat /\ Match!From[i] <= Match!Stop + 1}
           H == {i \in 1 .. n - 1 : Match!From[i] # 0}
<1>6. 1 .. n - 1 \subseteq G
  <2>1. 1 \in G
    <3>1. l[1] + 1 \in Nat /\ l[1] + 1 <= Match!Stop + 1
      <4> DEFINE a == l[1]
                 z == l[n]
      <4>1. a \in Nat /\ z \in Nat /\ t >= a + z /\ Match!Stop = t - z
        BY <1>3, <1>4
      <4> HIDE DEF a, z
      <4>2. a + 1 \in Nat /\ a + 1 <= Match!Stop + 1
        BY <1>2, <4>1
      <4> QED  BY <4>2 DEF a
    <3> QED  BY <1>1, <1>5, <3>1
  <2>2. ASSUME NEW i \in 1 .. (n - 1) - 1, i \in G PROVE i + 1 \in G
    <3>1. Match!From[i] \in Nat /\ Match!From[i] <= Match!Stop + 1
      BY <2>2
    <3>2. i + 1 \in 2 .. n /\ i + 1 \in 2 .. Len(glob) /\ i + 1 \in 1 .. n - 1 /\ (i + 1) - 1 = i
      BY <1>1
    <3>3. Match!From[i + 1] = Step(i + 1, Match!From[i])
      BY <1>5, <3>2
    <3>4. /\ Step(i + 1, Match!From[i]) \in Nat
          /\ Step(i + 1, Match!From[i]) # 0 => Step(i + 1, Match!From[i]) <= Match!Stop + 1
      BY <3>1, <3>2, StepIs
    <3>5. 0 \in Nat /\ 0 <= Match!Stop + 1
      BY <3>1, PieceIs
    <3> QED  BY <3>2, <3>3, <3>4, <3>5
  <2>3. n - 1 \in Nat
    BY <1>1
  <2> HIDE DEF G
  <2> QED  BY <2>1, <2>2, <2>3, Upward
<1>7. 1 .. n - 1 \subseteq H
  <2>1. n - 1 \in H
    BY <1>1, <1>4
  <2>2. ASSUME NEW i \in 1 .. (n - 1) - 1, i + 1 \in H PROVE i \in H
    <3>2. i + 1 \in 2 .. n /\ i + 1 \in 2 .. Len(glob) /\ i \in 1 .. n - 1 /\ (i + 1) - 1 = i
      BY <1>1
    <3>3. Match!From[i + 1] = Step(i + 1, Match!From[i])
      BY <1>5, <3>2
    <3>4. Match!From[i] \in Nat
      BY <1>6, <3>2
    <3>5. Match!From[i] = 0 => Step(i + 1, Match!From[i]) = 0
      BY <3>2, <3>4, StepIs
    <3> QED  BY <2>2, <3>2, <3>3, <3>5
  <2>3. n - 1 \in Nat
    BY <1>1
  <2> HIDE DEF H
  <2> QED  BY <2>1, <2>2, <2>3, Downward
<1>8. \A i \in 1 .. n - 1 : Match!From[i] \in Nat /\ Match!From[i] # 0 /\ Match!From[i] <= Match!Stop + 1
  BY <1>6, <1>7
<1> HIDE DEF G, H
<1> DEFINE at == [i \in 1 .. n |-> IF i = 1 THEN 1 ELSE IF i = n THEN Match!Stop + 1 ELSE Match!From[i] - l[i]]
<1>9. ASSUME NEW i \in 2 .. n - 1
      PROVE  /\ Match!From[i] - l[i] \in Nat /\ Match!From[i] - l[i] >= Match!From[i - 1]
             /\ l[i] # 0 => Match!Occurs(glob[i], Match!From[i] - l[i])
  <2>1. i \in 1 .. n /\ i \in 1 .. n - 1 /\ i - 1 \in 1 .. n - 1 /\ i \in 2 .. n /\ i \in 2 .. Len(glob)
    BY <1>1
  <2>2. /\ Match!From[i] = Step(i, Match!From[i - 1]) /\ Match!From[i] # 0
        /\ Match!From[i - 1] \in Nat /\ Match!From[i - 1] <= Match!Stop + 1
    BY <1>5, <1>8, <2>1
  <2> QED  BY <1>3, <2>1, <2>2, StepIs
<1>10. at \in [1 .. Len(glob) -> 1 .. Len(text) + 1]
  <2> SUFFICES ASSUME NEW i \in 1 .. n
               PROVE  (IF i = 1 THEN 1 ELSE IF i = n THEN Match!Stop + 1 ELSE Match!From[i] - l[i]) \in 1 .. t + 1
    BY <1>1, <1>2
  <2>1. l[n] \in Nat /\ l[1] \in Nat /\ l[i] \in Nat
    BY <1>1, <1>2
  <2>2. Match!Stop + 1 \in 1 .. t + 1
    <3> DEFINE a == l[1]
               z == l[n]
    <3>1. a \in Nat /\ z \in Nat /\ t >= a + z /\ Match!Stop = t - z
      BY <1>3, <1>4
    <3> HIDE DEF a, z
    <3> QED  BY <3>1
  <2>3. CASE i = 1 \/ i = n
    BY <2>2, <2>3, <1>2
  <2>4. CASE i # 1 /\ i # n
    <3>1. i \in 2 .. n - 1 /\ i \in 1 .. n - 1 /\ i - 1 \in 1 .. n - 1
      BY <1>1, <2>4
    <3>2. Match!From[i] - l[i] >= Match!From[i - 1] /\ Match!From[i] - l[i] \in Nat
      BY <1>9, <3>1
    <3>3. Match!From[i - 1] \in Nat /\ Match!From[i - 1] # 0 /\ Match!From[i] \in Nat /\ Match!From[i] <= Match!Stop + 1
      BY <1>8, <3>1
    <3> DEFINE a == Match!From[i]
               b == Match!From[i - 1]
               m == l[i]
    <3>4. a \in Nat /\ b \in Nat /\ b # 0 /\ m \in Nat /\ a - m >= b /\ a <= Match!Stop + 1 /\ Match!Stop + 1 \in 1 .. t + 1
      BY <2>1, <2>2, <3>2, <3>3
    <3> HIDE DEF a, b, m
    <3>5. a - m \in 1 .. t + 1
      BY <3>4
    <3> QED  BY <2>4, <3>5 DEF a, m
  <2> QED  BY <2>3, <2>4
<1>11. at[1] = 1 /\ at[n] = Match!Stop + 1 /\ \A i \in 2 .. n - 1 : at[i] = Match!From[i] - l[i]
  BY <1>1
<1> HIDE DEF at
<1>12. \A i \in 1 .. n : Match!Occurs(glob[i], at[i])
  <2> SUFFICES ASSUME NEW i \in 1 .. n PROVE Match!Occurs(glob[i], at[i])
    OBVIOUS
  <2>1. CASE i = 1 \/ i = n
    BY <1>4, <1>11, <2>1
  <2>2. CASE i \in 2 .. n - 1
    <3>1. CASE l[i] = 0
      <4>1. at[i] \in 1 .. Len(text) + 1 /\ glob[i] = <<>>
        BY <1>1, <1>3, <1>10, <3>1
      <4> QED  BY <4>1, Nowhere
    <3>2. CASE l[i] # 0
      BY <1>9, <1>11, <2>2, <3>2
    <3> QED  BY <3>1, <3>2
  <2> QED  BY <1>1, <2>1, <2>2
<1>13. \A i \in 1 .. n - 1 : at[i] + l[i] <= at[i + 1]
  <2> SUFFICES ASSUME NEW i \in 1 .. n - 1 PROVE at[i] + l[i] <= at[i + 1]
    OBVIOUS
  <2>1. l[i] \in Nat /\ Match!From[i] \in Nat /\ Match!From[i] <= Match!Stop + 1 /\ Match!Stop \in Int
    BY <1>1, <1>2, <1>8, PieceIs
  <2>2. at[i] + l[i] = Match!From[i]
    BY <1>1, <1>5, <1>11, <2>1
  <2>3. CASE i = n - 1
    BY <1>1, <1>11, <2>1, <2>2, <2>3
  <2>4. CASE i # n - 1
    <3>1. i + 1 \in 2 .. n - 1 /\ (i + 1) - 1 = i
      BY <1>1, <2>4
    <3> QED  BY <1>9, <1>11, <2>2, <3>1
  <2> QED  BY <2>3, <2>4
<1>14. at[n] + l[n] = t + 1
  BY <1>1, <1>2, <1>3, <1>11
<1>15. at \in Placement
  <2>1. /\ at[1] = 1 /\ at[Len(glob)] + Len(glob[Len(glob)]) = Len(text) + 1
        /\ \A i \in 1 .. Len(glob) : Match!Occurs(glob[i], at[i])
    BY <1>1, <1>2, <1>3, <1>11, <1>12, <1>14
  <2>2. \A i \in 1 .. Len(glob) - 1 : at[i] + Len(glob[i]) <= at[i + 1]
    BY <1>1, <1>3, <1>13
  <2> QED  BY <1>10, <2>1, <2>2 DEF Placement
<1> QED  BY <1>15

(* The scan is never past a placement.                                     *)
LEMMA ScanComplete ==
  ASSUME GlobTypes, Len(glob) > 1, NEW at \in Placement
  PROVE  Match!Search
<1>1. PICK n \in Nat : n = Len(glob) /\ n > 1 /\ n # 1
  BY PieceIs
<1>2. PICK t \in Nat, l \in [1 .. n -> Nat] : t = Len(text) /\ l = [i \in 1 .. n |-> Len(glob[i])]
  BY <1>1, PieceIs
<1>3. /\ \A i \in 1 .. n : l[i] \in Nat /\ Len(glob[i]) = l[i]
      /\ l[1] \in Nat /\ l[n] \in Nat /\ Len(glob[1]) = l[1] /\ Len(glob[n]) = l[n]
      /\ Match!Stop = t - l[n] /\ Match!Stop \in Int
  <2>1. \A i \in 1 .. n : l[i] \in Nat /\ Len(glob[i]) = l[i]
    BY <1>1, <1>2, PieceIs
  <2>2. 1 \in 1 .. n /\ n \in 1 .. n
    BY <1>1
  <2> QED  BY <1>1, <1>2, <2>1, <2>2, PieceIs DEF Match!Stop
<1>4. /\ \A i \in 1 .. n : at[i] \in Nat /\ at[i] > 0 /\ Match!Occurs(glob[i], at[i])
      /\ at[1] = 1 /\ at[n] = Match!Stop + 1
      /\ \A i \in 1 .. n - 1 : at[i] + l[i] <= at[i + 1]
  <2>1. /\ at \in [1 .. n -> 1 .. t + 1] /\ at[1] = 1 /\ at[n] + l[n] = t + 1
        /\ \A i \in 1 .. n : Match!Occurs(glob[i], at[i])
    BY <1>1, <1>2, <1>3 DEF Placement
  <2>2. \A i \in 1 .. n - 1 : at[i] + l[i] <= at[i + 1]
    BY <1>1, <1>3 DEF Placement
  <2>3. n \in 1 .. n
    BY <1>1
  <2>4. at[n] \in Nat
    BY <1>2, <2>1, <2>3
  <2>5. at[n] = Match!Stop + 1
    <3> DEFINE a == at[n]
               z == l[n]
    <3>1. a \in Nat /\ z \in Nat /\ a + z = t + 1 /\ Match!Stop = t - z
      BY <1>3, <2>1, <2>4
    <3> HIDE DEF a, z
    <3>2. a = Match!Stop + 1
      BY <1>2, <3>1
    <3> QED  BY <3>2 DEF a
  <2>6. \A i \in 1 .. n : at[i] \in 1 .. t + 1
    BY <2>1
  <2>7. \A i \in 1 .. n : at[i] \in Nat /\ at[i] > 0
    BY <2>6
  <2> QED  BY <2>1, <2>2, <2>5, <2>7
<1>5. Match!From[1] = l[1] + 1 /\ \A i \in 2 .. n : Match!From[i] = Step(i, Match!From[i - 1])
  BY <1>1, <1>3, FromIs DEF Step
<1> DEFINE G == {i \in 1 .. n - 1 : at[i] + l[i] <= Match!Stop + 1}
           H == {i \in 1 .. n - 1 : Match!From[i] \in Nat /\ Match!From[i] # 0 /\ Match!From[i] <= at[i] + l[i]}
<1>6. 1 .. n - 1 \subseteq G
  <2>1. n - 1 \in G
    <3>1. n - 1 \in 1 .. n - 1 /\ (n - 1) + 1 = n
      BY <1>1
    <3> QED  BY <1>4, <3>1
  <2>2. ASSUME NEW i \in 1 .. (n - 1) - 1, i + 1 \in G PROVE i \in G
    <3>1. i \in 1 .. n - 1 /\ i \in 1 .. n /\ i + 1 \in 1 .. n
      BY <1>1
    <3>2. at[i] + l[i] <= at[i + 1] /\ at[i + 1] + l[i + 1] <= Match!Stop + 1
      BY <1>4, <2>2, <3>1
    <3>3. at[i] \in Nat /\ l[i] \in Nat /\ at[i + 1] \in Nat /\ l[i + 1] \in Nat
      BY <1>3, <1>4, <3>1
    <3>4. at[i] + l[i] <= Match!Stop + 1
      <4> DEFINE a == at[i]
                 m == l[i]
                 b == at[i + 1]
                 c == l[i + 1]
                 e == Match!Stop
      <4>1. a \in Nat /\ m \in Nat /\ b \in Nat /\ c \in Nat /\ a + m <= b /\ b + c <= e + 1
        BY <3>2, <3>3
      <4>2. e \in Int
        BY <1>3
      <4> HIDE DEF a, m, b, c, e
      <4>3. a + m <= e + 1
        BY <4>1, <4>2
      <4> QED  BY <4>3 DEF a, m, e
    <3> QED  BY <3>1, <3>4
  <2>3. n - 1 \in Nat
    BY <1>1
  <2> HIDE DEF G
  <2> QED  BY <2>1, <2>2, <2>3, Downward
<1>7. 1 .. n - 1 \subseteq H
  <2>1. 1 \in H
    <3>1. 1 \in 1 .. n - 1
      BY <1>1
    <3>2. Match!From[1] \in Nat /\ Match!From[1] # 0 /\ Match!From[1] <= at[1] + l[1]
      <4> DEFINE a == l[1]
      <4>1. a \in Nat /\ Match!From[1] = a + 1 /\ at[1] = 1
        BY <1>3, <1>4, <1>5
      <4> HIDE DEF a
      <4>2. Match!From[1] \in Nat /\ Match!From[1] # 0 /\ Match!From[1] <= at[1] + a
        BY <4>1
      <4> QED  BY <4>2 DEF a
    <3> QED  BY <3>1, <3>2
  <2>2. ASSUME NEW i \in 1 .. (n - 1) - 1, i \in H PROVE i + 1 \in H
    <3>1. i \in 1 .. n - 1 /\ i \in 1 .. n /\ i + 1 \in 1 .. n - 1 /\ i + 1 \in 1 .. n
      BY <1>1
    <3>2. i + 1 \in 2 .. n /\ i + 1 \in 2 .. Len(glob) /\ (i + 1) - 1 = i
      BY <1>1
    <3>3. Match!From[i] \in Nat /\ Match!From[i] # 0 /\ Match!From[i] <= at[i] + l[i] /\ at[i] + l[i] <= at[i + 1]
      BY <1>4, <2>2, <3>1
    <3>4. at[i] \in Nat /\ l[i] \in Nat /\ at[i + 1] \in Nat /\ l[i + 1] = Len(glob[i + 1])
      BY <1>3, <1>4, <3>1
    <3>5. Match!From[i + 1] = Step(i + 1, Match!From[i])
      BY <1>5, <3>2
    <3>6. at[i + 1] >= Match!From[i] /\ at[i + 1] + Len(glob[i + 1]) <= Match!Stop + 1 /\ Match!Occurs(glob[i + 1], at[i + 1])
      <4>1. at[i + 1] + l[i + 1] <= Match!Stop + 1
        BY <1>6, <3>1
      <4>2. at[i + 1] >= Match!From[i]
        BY <3>3, <3>4
      <4> QED  BY <1>4, <3>1, <3>4, <4>1, <4>2
    <3>7. Step(i + 1, Match!From[i]) \in Nat
      BY <3>2, <3>3, StepIs
    <3>8. Step(i + 1, Match!From[i]) # 0 /\ Step(i + 1, Match!From[i]) <= at[i + 1] + Len(glob[i + 1])
      BY <3>2, <3>3, <3>4, <3>6, StepIs
    <3> QED  BY <3>1, <3>4, <3>5, <3>7, <3>8
  <2>3. n - 1 \in Nat
    BY <1>1
  <2> HIDE DEF H
  <2> QED  BY <2>1, <2>2, <2>3, Upward
<1>8. 1 \in 1 .. n - 1 /\ n - 1 \in 1 .. n - 1 /\ 1 \in 1 .. n /\ n \in 1 .. n
  BY <1>1
<1>9. 1 + l[1] <= Match!Stop + 1 /\ Match!From[n - 1] # 0
  BY <1>4, <1>6, <1>7, <1>8
<1>10. Match!Occurs(glob[1], 1) /\ Match!Occurs(glob[n], Match!Stop + 1)
  BY <1>4, <1>8
<1> HIDE DEF G, H
<1>11. t >= l[1] + l[n]
  <2> DEFINE a == l[1]
             z == l[n]
  <2>1. a \in Nat /\ z \in Nat /\ Match!Stop = t - z /\ 1 + a <= Match!Stop + 1
    BY <1>3, <1>9
  <2> HIDE DEF a, z
  <2>2. t >= a + z
    BY <1>2, <2>1
  <2> QED  BY <2>2 DEF a, z
<1>12. Len(glob) # 1
  BY <1>1
<1>13. /\ Len(text) >= Len(glob[1]) + Len(glob[Len(glob)])
       /\ Match!Occurs(glob[1], 1) /\ Match!Occurs(glob[Len(glob)], Match!Stop + 1)
       /\ Match!From[Len(glob) - 1] # 0
  BY <1>1, <1>2, <1>3, <1>9, <1>10, <1>11
<1> QED  BY <1>12, <1>13 DEF Match!Search

LEMMA GlobRight == GlobTypes => Match!GlobIsExact
<1> SUFFICES ASSUME GlobTypes PROVE Match!GlobIsExact
  OBVIOUS
<1>1. Match!Search <=> Placement # {}
  <2>1. CASE Len(glob) = 1
    BY <2>1, PlainGlob
  <2>2. CASE Len(glob) > 1
    BY <2>2, ScanFound, ScanComplete
  <2>3. PICK n \in Nat : n = Len(glob) /\ n > 0
    BY PieceIs
  <2>4. n = 1 \/ n > 1
    BY <2>3
  <2> QED  BY <2>1, <2>2, <2>3, <2>4
<1> QED  BY <1>1 DEF Match!GlobIsExact, Placement

-----------------------------------------------------------------------------
FilterInv == rules \subseteq Pool /\ own \subseteq Pool /\ TableInv /\ GlobTypes

LEMMA FilterInit == Match!Init => FilterInv
<1> SUFFICES ASSUME Match!Init PROVE FilterInv
  OBVIOUS
<1>1. GlobTypes
  BY DEF Match!Init, GlobTypes
<1>2. rules \subseteq Pool /\ own \subseteq Pool
  BY DEF Match!Init
<1> QED  BY <1>1, <1>2, TableInit DEF FilterInv

LEMMA FilterStep == FilterInv /\ [Match!Next]_(Match!vars) => FilterInv'
<1> SUFFICES ASSUME FilterInv, [Match!Next]_(Match!vars) PROVE FilterInv'
  OBVIOUS
<1> USE DEF FilterInv
<1>1. ASSUME NEW r \in Pool, Match!AddRule(r) PROVE FilterInv'
  <2>1. rules' \subseteq Pool /\ own' \subseteq Pool /\ UNCHANGED <<hash, items, slots, glob, text>>
    BY <1>1 DEF Match!AddRule
  <2> QED  BY <2>1, TableAside DEF GlobTypes
<1>2. ASSUME NEW d \in Domain, NEW s \in Sources, Match!AddItem(d, s) PROVE FilterInv'
  <2>1. UNCHANGED <<rules, own, glob, text>>
    BY <1>2 DEF Match!AddItem
  <2> QED  BY <1>2, <2>1, AddItemKeeps DEF GlobTypes
<1>3. ASSUME NEW d \in Domain, Match!Discard(d) PROVE FilterInv'
  <2>1. UNCHANGED <<rules, own, hash, items, slots, glob, text>>
    BY <1>3 DEF Match!Discard
  <2> QED  BY <2>1, TableAside DEF GlobTypes
<1>4. CASE Match!GrowGlob
  <2>1. UNCHANGED <<rules, own, hash, items, slots, text>>
    BY <1>4 DEF Match!GrowGlob
  <2>2. glob' \in Seq(Seq(Letter)) /\ glob' # <<>>
    <3>1. ASSUME NEW c \in Letter, glob' = [glob EXCEPT ![Len(glob)] = Append(@, c)]
          PROVE  glob' \in Seq(Seq(Letter)) /\ glob' # <<>>
      <4>1. glob \in Seq(Seq(Letter)) /\ Len(glob) \in 1 .. Len(glob) /\ Append(glob[Len(glob)], c) \in Seq(Letter)
        BY PieceIs DEF GlobTypes
      <4>2. glob' \in Seq(Seq(Letter)) /\ Len(glob') = Len(glob)
        BY <3>1, <4>1
      <4> QED  BY <4>2, PieceIs
    <3>2. ASSUME glob' = Append(glob, <<>>) PROVE glob' \in Seq(Seq(Letter)) /\ glob' # <<>>
      <4>1. <<>> \in Seq(Letter) /\ glob \in Seq(Seq(Letter))
        BY DEF GlobTypes
      <4> HIDE DEF FilterInv
      <4>2. glob' \in Seq(Seq(Letter)) /\ Len(glob') = Len(glob) + 1
        BY <3>2, <4>1
      <4> QED  BY <4>1, <4>2
    <3> QED  BY <1>4, <3>1, <3>2 DEF Match!GrowGlob
  <2> QED  BY <2>1, <2>2, TableAside DEF GlobTypes
<1>5. CASE Match!GrowText
  <2>1. UNCHANGED <<rules, own, hash, items, slots, glob>> /\ text' \in Seq(Letter)
    BY <1>5 DEF Match!GrowText, GlobTypes
  <2> QED  BY <2>1, TableAside DEF GlobTypes
<1>6. CASE UNCHANGED Match!vars
  BY <1>6, TableAside DEF Match!vars, GlobTypes
<1> QED  BY <1>1, <1>2, <1>3, <1>4, <1>5, <1>6 DEF Match!Next

(* The compiled index decides what the rules read one by one would, a      *)
(* group's answer is its own rules' or the default's, the table holds a    *)
(* name for the first list that named it whatever collides, and the pieces *)
(* of a glob are found whenever there is a place for them, for any rules,  *)
(* questions, hash, names, slots, globs and texts (FilterEngine,           *)
(* LayeredFilter, SharedBlockTable, Glob.search).                          *)
THEOREM FilterExact == Match!Spec => []FilterIsExact
<1>1. FilterInv => FilterIsExact
  BY MatchRight, TableRight, GlobRight DEF FilterInv, FilterIsExact, Match!FilterIsExact
<1> QED  BY <1>1, FilterInit, FilterStep, PTL DEF Match!Spec

=============================================================================
