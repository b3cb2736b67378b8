-------------------------- MODULE FreshnessProofs --------------------------
(***************************************************************************)
(* What the workers hold and serve is current, for any number of workers,  *)
(* keys and lifetimes: nothing is served as fresh past its TTL, nothing    *)
(* from before a worker's flush comes back to it, and the stores keep      *)
(* their bounds.                                                           *)
(***************************************************************************)
EXTENDS MCFreshness, SequenceTheorems, WellFoundedInduction, TLAPS

(* An entry of worker w: unless it was restored from a dump, it lives no   *)
(* longer than its answer was stored for, and is newer than w's flushes.   *)
Good(w, e) ==
  /\ e \in Cache!Entry
  /\ ~e.disk => e.rem <= e.due /\ w \notin e.flushed

Distinct(s) == \A i, j \in 1 .. Len(s) : s[i].key = s[j].key => i = j

Stored(w, s) == s \in Seq(Cache!Entry) /\ Distinct(s) /\ \A i \in 1 .. Len(s) : Good(w, s[i])

(* What the workers share comes from no dump, was stored after the last    *)
(* flush of any worker, and has time left.                                 *)
Shared(k, e) ==
  /\ e \in Cache!Entry /\ e.key = k /\ 0 < e.rem /\ e.rem <= e.due
  /\ e.flushed = {} /\ ~e.disk

StoresSound ==
  /\ l1 \in [Worker -> Seq(Cache!Entry)]
  /\ \A w \in Worker : Stored(w, l1[w]) /\ Len(l1[w]) <= MaxEntries
SharedSound == l2 \in [Key -> Cache!Entry \cup {None}] /\ \A k \in Key : l2[k] # None => Shared(k, l2[k])
FileSound == file \in Seq(Cache!Dumped) /\ Distinct(file)
ServedSound == served \in Cache!Served \cup {None} /\ Cache!ServedInTime

FreshnessInv == StoresSound /\ SharedSound /\ FileSound /\ ServedSound /\ upC \in BOOLEAN

-----------------------------------------------------------------------------
LEMMA LivesTyped == Cache!Lives \subseteq Nat
<1>1. \A t \in Nat : Cache!Clamp(t) \in Nat
  BY CacheAssumption DEF Cache!AnswerCacheConstants, Cache!Clamp
<1>2. \A kind, t \in TTL : Cache!Lifetime(kind, t) \in Nat
  BY <1>1, CacheAssumption DEF Cache!AnswerCacheConstants, Cache!Lifetime
<1>3. ASSUME NEW x \in {"answer", "negative"} \X TTL PROVE Cache!Lifetime(x[1], x[2]) \in Nat
  <2>1. x[2] \in TTL /\ x[2] \in Nat
    BY CacheAssumption DEF Cache!AnswerCacheConstants
  <2> QED BY <2>1, <1>1, CacheAssumption DEF Cache!AnswerCacheConstants, Cache!Lifetime
<1> QED BY <1>3 DEF Cache!Lives

(* The place of a key that is held.                                        *)
LEMMA PlaceIs ==
  ASSUME NEW S, NEW s \in Seq(S), NEW k, Cache!Held(s, k) # {}
  PROVE  /\ Cache!Place(s, k) \in 1 .. Len(s) /\ s[Cache!Place(s, k)].key = k
         /\ Cache!At(s, k) = s[Cache!Place(s, k)]
<1>1. \E i \in DOMAIN s : s[i].key = k
  BY DEF Cache!Held
<1>2. Cache!Place(s, k) \in DOMAIN s /\ s[Cache!Place(s, k)].key = k
  BY <1>1, Zenon DEF Cache!Place
<1> QED BY <1>2 DEF Cache!At

LEMMA Removed ==
  ASSUME NEW s \in Seq(Cache!Entry), NEW p \in 1 .. Len(s), NEW t, t = Cache!RemoveAt(s, p)
  PROVE  /\ t \in Seq(Cache!Entry) /\ Len(t) = Len(s) - 1
         /\ \A i \in 1 .. Len(t) : t[i] = IF i < p THEN s[i] ELSE s[i + 1]
<1> DEFINE a == SubSeq(s, 1, p - 1)
           b == SubSeq(s, p + 1, Len(s))
<1>1. a \in Seq(Cache!Entry) /\ Len(a) = p - 1 /\ \A i \in 1 .. p - 1 : a[i] = s[i]
  OBVIOUS
<1>2. b \in Seq(Cache!Entry) /\ Len(b) = Len(s) - p /\ \A i \in 1 .. Len(s) - p : b[i] = s[p + i]
  OBVIOUS
<1>3. t = a \o b
  BY DEF Cache!RemoveAt
<1> HIDE DEF a, b
<1>4. /\ t \in Seq(Cache!Entry) /\ Len(t) = Len(a) + Len(b)
      /\ \A i \in 1 .. Len(a) + Len(b) : t[i] = IF i <= Len(a) THEN a[i] ELSE b[i - Len(a)]
  <2>1. PICK x \in Seq(Cache!Entry), y \in Seq(Cache!Entry) : x = a /\ y = b
    BY <1>1, <1>2
  <2>2. /\ x \o y \in Seq(Cache!Entry) /\ Len(x \o y) = Len(x) + Len(y)
        /\ \A i \in 1 .. Len(x) + Len(y) : (x \o y)[i] = IF i <= Len(x) THEN x[i] ELSE y[i - Len(x)]
    BY ConcatProperties
  <2> QED BY <1>3, <2>1, <2>2
<1>5. p \in Nat /\ Len(s) \in Nat /\ 1 <= p /\ p <= Len(s)
  OBVIOUS
<1>6. ASSUME NEW i \in 1 .. Len(t) PROVE t[i] = IF i < p THEN s[i] ELSE s[i + 1]
  <2>1. CASE i < p
    <3>1. i \in 1 .. p - 1 /\ i <= Len(a) /\ i \in 1 .. Len(a) + Len(b)
      BY <1>1, <1>2, <1>4, <1>5, <2>1
    <3> QED BY <3>1, <1>1, <1>4, <2>1
  <2>2. CASE ~(i < p)
    <3>1. ~(i <= Len(a)) /\ i - Len(a) \in 1 .. Len(s) - p /\ p + (i - Len(a)) = i + 1 /\ i \in 1 .. Len(a) + Len(b)
      BY <1>1, <1>2, <1>4, <1>5, <2>2
    <3> QED BY <3>1, <1>2, <1>4, <2>2
  <2> QED BY <2>1, <2>2
<1> QED BY <1>1, <1>2, <1>4, <1>5, <1>6

-----------------------------------------------------------------------------
(* A store without a key is a store, and has room for it.                  *)
LEMMA WithoutStored ==
  ASSUME NEW w \in Worker, NEW s, Stored(w, s), NEW k, NEW t, t = Cache!Without(s, k)
  PROVE  /\ Stored(w, t) /\ \A i \in 1 .. Len(t) : t[i].key # k
         /\ Len(t) <= Len(s) /\ (Cache!Held(s, k) # {} => Len(t) < Len(s))
<1>1. CASE Cache!Held(s, k) = {}
  <2>1. t = s
    BY <1>1 DEF Cache!Without
  <2>2. \A i \in 1 .. Len(s) : s[i].key # k
    BY <1>1 DEF Cache!Held, Stored
  <2>3. Len(s) \in Nat
    BY DEF Stored
  <2> QED BY <1>1, <2>1, <2>2, <2>3
<1>2. CASE Cache!Held(s, k) # {}
  <2>1. PICK p \in 1 .. Len(s) : p = Cache!Place(s, k) /\ s[p].key = k
    BY <1>2, PlaceIs DEF Stored
  <2>2. t = Cache!RemoveAt(s, p)
    BY <1>2, <2>1 DEF Cache!Without
  <2>3. /\ t \in Seq(Cache!Entry) /\ Len(t) = Len(s) - 1
        /\ \A i \in 1 .. Len(t) : t[i] = IF i < p THEN s[i] ELSE s[i + 1]
    <3>1. s \in Seq(Cache!Entry)
      BY DEF Stored
    <3> QED BY <2>2, <3>1, Removed
  <2>4. Len(s) \in Nat /\ Len(t) \in Nat
    BY <2>3 DEF Stored
  <2>5. ASSUME NEW i \in 1 .. Len(t)
        PROVE  \E n \in 1 .. Len(s) : n # p /\ t[i] = s[n] /\ n = IF i < p THEN i ELSE i + 1
    <3>1. CASE i < p
      BY <3>1, <2>1, <2>3, <2>4
    <3>2. CASE ~(i < p)
      <4>1. i + 1 \in 1 .. Len(s) /\ i + 1 # p
        BY <3>2, <2>1, <2>3, <2>4
      <4> QED BY <3>2, <4>1, <2>3
    <3> QED BY <3>1, <3>2
  <2>6. \A i \in 1 .. Len(t) : Good(w, t[i]) /\ t[i].key # k
    BY <2>1, <2>5 DEF Stored, Distinct
  <2>7. ASSUME NEW i \in 1 .. Len(t), NEW j \in 1 .. Len(t), t[i].key = t[j].key PROVE i = j
    <3>1. PICK m \in 1 .. Len(s) : t[i] = s[m] /\ m = IF i < p THEN i ELSE i + 1
      BY <2>5
    <3>2. PICK n \in 1 .. Len(s) : t[j] = s[n] /\ n = IF j < p THEN j ELSE j + 1
      BY <2>5
    <3>3. m = n
      BY <2>7, <3>1, <3>2 DEF Stored, Distinct
    <3> QED BY <3>1, <3>2, <3>3, <2>1
  <2> QED BY <2>3, <2>4, <2>6, <2>7 DEF Stored, Distinct
<1> QED BY <1>1, <1>2

LEMMA AppendStored ==
  ASSUME NEW w \in Worker, NEW s, Stored(w, s), NEW e, Good(w, e), \A i \in 1 .. Len(s) : s[i].key # e.key,
         NEW t, t = Append(s, e)
  PROVE  Stored(w, t) /\ Len(t) = Len(s) + 1
<1>1. s \in Seq(Cache!Entry) /\ e \in Cache!Entry /\ Len(s) \in Nat
  BY DEF Stored, Good
<1>2. /\ t \in Seq(Cache!Entry) /\ Len(t) = Len(s) + 1 /\ t[Len(s) + 1] = e
      /\ \A i \in 1 .. Len(s) : t[i] = s[i]
  BY <1>1
<1>3. ASSUME NEW i \in 1 .. Len(t) PROVE Good(w, t[i])
  <2>1. i \in 1 .. Len(s) \/ i = Len(s) + 1
    BY <1>1, <1>2
  <2> QED BY <2>1, <1>2 DEF Stored
<1>4. ASSUME NEW i \in 1 .. Len(t), NEW j \in 1 .. Len(t), t[i].key = t[j].key PROVE i = j
  <2>1. (i \in 1 .. Len(s) \/ i = Len(s) + 1) /\ (j \in 1 .. Len(s) \/ j = Len(s) + 1)
    BY <1>1, <1>2
  <2>2. CASE i \in 1 .. Len(s) /\ j \in 1 .. Len(s)
    BY <2>2, <1>2, <1>4 DEF Stored, Distinct
  <2>3. CASE ~(i \in 1 .. Len(s) /\ j \in 1 .. Len(s))
    BY <2>1, <2>3, <1>2, <1>4
  <2> QED BY <2>2, <2>3
<1> QED BY <1>2, <1>3, <1>4 DEF Stored, Distinct

(* What is evicted are the coldest entries, and no more are kept than fit. *)
LEMMA TrimStored ==
  ASSUME NEW w \in Worker, NEW s, Stored(w, s), NEW t, t = Cache!Trim(s)
  PROVE  Stored(w, t) /\ Len(t) <= MaxEntries
<1>1. s \in Seq(Cache!Entry) /\ Len(s) \in Nat /\ MaxEntries \in Nat \ {0}
  BY CacheAssumption DEF Stored, Cache!AnswerCacheConstants
<1>2. CASE Len(s) > MaxEntries
  <2> DEFINE d == Len(s) - MaxEntries
  <2>1. d \in Nat /\ d = Len(s) - MaxEntries /\ d + 1 \in 1 .. Len(s) /\ Len(s) - d = MaxEntries
    BY <1>1, <1>2
  <2> HIDE DEF d
  <2>2. t = SubSeq(s, d + 1, Len(s))
    BY <1>2, <2>1 DEF Cache!Trim
  <2>3. t \in Seq(Cache!Entry) /\ Len(t) = Len(s) - d /\ \A i \in 1 .. Len(s) - d : t[i] = s[d + i]
    <3> DEFINE n == Len(s)
               m == d + 1
    <3>1. n \in Nat /\ m \in Nat /\ n = Len(s) /\ m = d + 1
      BY <1>1, <2>1
    <3> HIDE DEF n, m
    <3>2. t = SubSeq(s, m, n) /\ m \in 1 .. n /\ n - m + 1 = n - d
      BY <2>1, <2>2, <3>1
    <3>3. /\ t \in Seq(Cache!Entry) /\ Len(t) = n - m + 1
          /\ \A i \in 1 .. n - m + 1 : t[i] = s[m + i - 1]
      BY <1>1, <3>1, <3>2
    <3>4. \A i \in 1 .. n - d : m + i - 1 = d + i
      BY <2>1, <3>1
    <3> QED BY <3>1, <3>2, <3>3, <3>4
  <2>4. \A i \in 1 .. Len(t) : d + i \in 1 .. Len(s) /\ t[i] = s[d + i]
    BY <1>1, <2>1, <2>3
  <2>5. \A i \in 1 .. Len(t) : Good(w, t[i])
    BY <2>4 DEF Stored
  <2>6. ASSUME NEW i \in 1 .. Len(t), NEW j \in 1 .. Len(t), t[i].key = t[j].key PROVE i = j
    <3>1. PICK m \in 1 .. Len(s), n \in 1 .. Len(s) : m = d + i /\ n = d + j /\ t[i] = s[m] /\ t[j] = s[n]
      BY <2>4
    <3>2. m = n
      BY <2>6, <3>1 DEF Stored, Distinct
    <3>3. i \in Nat /\ j \in Nat
      BY <2>3
    <3> QED BY <3>1, <3>2, <3>3, <2>1
  <2> QED BY <2>1, <2>3, <2>5, <2>6 DEF Stored, Distinct
<1>3. CASE ~(Len(s) > MaxEntries)
  BY <1>1, <1>3 DEF Cache!Trim
<1> QED BY <1>2, <1>3

(* Entries that change in their places, and keep their keys.               *)
LEMMA ChangedStored ==
  ASSUME NEW w \in Worker, NEW s, Stored(w, s), NEW t, t \in [DOMAIN s -> Cache!Entry],
         \A i \in 1 .. Len(s) : t[i].key = s[i].key /\ Good(w, t[i])
  PROVE  Stored(w, t) /\ Len(t) = Len(s)
<1>1. PICK n \in Nat : n = Len(s) /\ DOMAIN s = 1 .. n
  BY DEF Stored
<1>2. t \in [1 .. n -> Cache!Entry]
  BY <1>1
<1>3. t \in Seq(Cache!Entry)
  BY <1>2, SeqDef
<1>4. Len(t) = Len(s)
  BY <1>1, <1>2, <1>3
<1> QED BY <1>3, <1>4 DEF Stored, Distinct

-----------------------------------------------------------------------------
(* Entries: written, promoted, flushed elsewhere, grown older, restored.   *)
LEMMA NewGood ==
  ASSUME NEW w \in Worker, NEW k \in Key, NEW life \in Nat
  PROVE  LET e == Cache!New(k, life) IN
         Good(w, e) /\ e.key = k /\ e \in Cache!Entry /\ (e.rem > 0 => Shared(k, e))
<1>1. StaleMax \in Nat
  BY CacheAssumption DEF Cache!AnswerCacheConstants
<1> QED BY <1>1 DEF Cache!New, Cache!Entry, Good, Shared

LEMMA PromotedGood ==
  ASSUME NEW w \in Worker, NEW k \in Key, NEW e, Shared(k, e)
  PROVE  LET p == Cache!Promoted(e) IN
         Good(w, p) /\ p.key = k /\ p.due > 0 /\ ~p.disk /\ p.rem > 0
<1>1. StaleMax \in Nat
  BY CacheAssumption DEF Cache!AnswerCacheConstants
<1> QED BY <1>1 DEF Cache!Promoted, Cache!Entry, Good, Shared

LEMMA SinceGood ==
  ASSUME NEW v \in Worker, NEW w \in Worker, v # w, NEW e, Good(v, e)
  PROVE  Good(v, Cache!Since(e, w)) /\ Cache!Since(e, w).key = e.key /\ Cache!Since(e, w) \in Cache!Entry
<1>1. CASE e.disk
  BY <1>1 DEF Cache!Since, Good
<1>2. CASE ~e.disk
  <2> DEFINE f == e.flushed \cup {w}
  <2>1. f = e.flushed \cup {w} /\ f \in SUBSET Worker /\ v \notin f
    BY <1>2 DEF Good, Cache!Entry
  <2> HIDE DEF f
  <2>2. Cache!Since(e, w) = [e EXCEPT !.flushed = f]
    BY <1>2, <2>1 DEF Cache!Since
  <2> QED BY <1>2, <2>1, <2>2 DEF Cache!Entry, Good
<1> QED BY <1>1, <1>2

LEMMA OlderIs ==
  ASSUME NEW e \in Cache!Entry
  PROVE  LET o == Cache!Older(e) IN
         /\ o \in Cache!Entry /\ o.key = e.key /\ o.disk = e.disk /\ o.flushed = e.flushed
         /\ o.rem = Cache!Less(e.rem) /\ o.due = Cache!Less(e.due)
<1>1. PICK r \in Nat, d \in Nat, k \in Nat :
        r = Cache!Less(e.rem) /\ d = Cache!Less(e.due) /\ k = Cache!Less(e.keep)
  BY DEF Cache!Less, Cache!Entry
<1>2. Cache!Older(e) = [e EXCEPT !.rem = r, !.due = d, !.keep = k]
  BY <1>1 DEF Cache!Older
<1> QED BY <1>1, <1>2 DEF Cache!Entry

LEMMA OlderGood ==
  ASSUME NEW w \in Worker, NEW e, Good(w, e)
  PROVE  Good(w, Cache!Older(e)) /\ Cache!Older(e).key = e.key /\ Cache!Older(e) \in Cache!Entry
<1>1. PICK o : o = Cache!Older(e) /\ o \in Cache!Entry /\ o.key = e.key /\ o.disk = e.disk /\ o.flushed = e.flushed
              /\ o.rem = Cache!Less(e.rem) /\ o.due = Cache!Less(e.due)
  BY OlderIs DEF Good
<1>2. e.rem \in Nat /\ e.due \in Nat /\ (~e.disk => e.rem <= e.due)
  BY DEF Good, Cache!Entry
<1>3. e.rem <= e.due => o.rem <= o.due
  BY <1>1, <1>2 DEF Cache!Less
<1> QED BY <1>1, <1>3 DEF Good

LEMMA OlderShared ==
  ASSUME NEW k \in Key, NEW e, Shared(k, e), ~(e.rem <= 1)
  PROVE  Shared(k, Cache!Older(e))
<1>1. PICK o : o = Cache!Older(e) /\ o \in Cache!Entry /\ o.key = e.key /\ o.disk = e.disk /\ o.flushed = e.flushed
              /\ o.rem = Cache!Less(e.rem) /\ o.due = Cache!Less(e.due)
  BY OlderIs DEF Shared
<1>2. e.rem \in Nat /\ e.due \in Nat /\ e.rem <= e.due
  BY DEF Shared, Cache!Entry
<1>3. 0 < o.rem /\ o.rem <= o.due
  BY <1>1, <1>2 DEF Cache!Less
<1> QED BY <1>1, <1>3 DEF Shared

LEMMA RestoredGood ==
  ASSUME NEW w \in Worker, NEW d \in Cache!Dumped
  PROVE  Good(w, Cache!Restored(d)) /\ Cache!Restored(d).key = d.key /\ Cache!Restored(d) \in Cache!Entry
<1>1. StaleMax \in Nat /\ MaxTTL \in Nat
  BY CacheAssumption DEF Cache!AnswerCacheConstants
<1>2. PICK n \in Nat : n = IF d.rem < MaxTTL THEN d.rem ELSE MaxTTL
  BY <1>1 DEF Cache!Dumped
<1>3. PICK e \in Cache!Entry : e = Cache!New(d.key, n) /\ e.key = d.key
  <2>1. d.key \in Key
    BY DEF Cache!Dumped
  <2>2. PICK k \in Key : k = d.key
    BY <2>1
  <2>3. Cache!New(k, n) \in Cache!Entry /\ Cache!New(k, n).key = k
    BY NewGood
  <2> QED BY <2>2, <2>3
<1>4. PICK c \in Nat : c = d.due
  BY DEF Cache!Dumped
<1>5. PICK r : r = [e EXCEPT !.due = c, !.disk = TRUE]
  OBVIOUS
<1>6. r \in Cache!Entry /\ r.key = e.key /\ r.disk
  BY <1>5 DEF Cache!Entry
<1>7. Cache!Restored(d) = r
  BY <1>2, <1>3, <1>4, <1>5 DEF Cache!Restored
<1> QED BY <1>3, <1>6, <1>7 DEF Good

-----------------------------------------------------------------------------
(* A nonempty set of numbers has a least one.                              *)
LEMMA Least == \A S \in SUBSET Nat : S # {} => \E x \in S : \A y \in S : x <= y
<1> SUFFICES ASSUME NEW S \in SUBSET Nat, S # {} PROVE \E x \in S : \A y \in S : x <= y
  OBVIOUS
<1> DEFINE R == OpToRel(<, Nat)
<1>1. R = {ss \in Nat \X Nat : ss[1] < ss[2]}
  BY DEF OpToRel
<1>2. IsWellFoundedOn(R, Nat)
  BY NatLessThanWellFounded
<1> HIDE DEF R
<1>3. PICK x \in S : \A y \in S : ~(<<y, x>> \in R)
  BY <1>2, WFMin
<1>4. ASSUME NEW y \in S PROVE x <= y
  <2>1. ~(<<y, x>> \in {ss \in Nat \X Nat : ss[1] < ss[2]})
    BY <1>1, <1>3
  <2>2. x \in Nat /\ y \in Nat
    OBVIOUS
  <2> QED BY <2>1, <2>2
<1> QED BY <1>4

(* The dump: what is written has the key of an entry, and no key twice.    *)
Items(s, items) ==
  items = [n \in 0 .. Len(s) |->
             IF n = 0 THEN <<>>
             ELSE IF s[n].rem = 0 THEN items[n - 1]
             ELSE Append(items[n - 1], [key |-> s[n].key, rem |-> s[n].rem, due |-> s[n].due])]

(* There is such a list for every number of places: a least number without *)
(* one would be the successor of a number that has one.                    *)
LEMMA ItemsExist ==
  ASSUME NEW s \in Seq(Cache!Entry)
  PROVE  \E items : Items(s, items)
<1> DEFINE Step(items, n) == IF n = 0 THEN <<>>
             ELSE IF s[n].rem = 0 THEN items[n - 1]
             ELSE Append(items[n - 1], [key |-> s[n].key, rem |-> s[n].rem, due |-> s[n].due])
           Upto(m) == \E items : items = [n \in 0 .. m |-> Step(items, n)]
<1>1. Upto(0)
  <2> DEFINE one == [n \in 0 .. 0 |-> <<>>]
  <2>1. one = [n \in 0 .. 0 |-> Step(one, n)]
    OBVIOUS
  <2> QED BY <2>1
<1>2. ASSUME NEW m \in Nat, Upto(m) PROVE Upto(m + 1)
  <2>1. PICK f : f = [n \in 0 .. m |-> Step(f, n)]
    BY <1>2
  <2> DEFINE g == [n \in 0 .. m + 1 |-> IF n <= m THEN f[n] ELSE Step(f, m + 1)]
  <2>2. \A n \in 0 .. m : g[n] = f[n]
    OBVIOUS
  <2>3. g[m + 1] = Step(f, m + 1)
    OBVIOUS
  <2>4. \A n \in 0 .. m + 1 : Step(g, n) = Step(f, n)
    <3> SUFFICES ASSUME NEW n \in 0 .. m + 1 PROVE Step(g, n) = Step(f, n)
      OBVIOUS
    <3>1. CASE n = 0
      BY <3>1
    <3>2. CASE n # 0
      <4>1. n - 1 \in 0 .. m
        BY <3>2
      <4>2. g[n - 1] = f[n - 1]
        BY <4>1, <2>2
      <4> HIDE DEF g
      <4> QED BY <4>2
    <3> QED BY <3>1, <3>2
  <2>5. \A n \in 0 .. m + 1 : g[n] = Step(f, n)
    <3> SUFFICES ASSUME NEW n \in 0 .. m + 1 PROVE g[n] = Step(f, n)
      OBVIOUS
    <3>1. CASE n \in 0 .. m
      <4>1. f[n] = Step(f, n)
        <5> HIDE DEF Step
        <5> QED BY <2>1, <3>1
      <4> HIDE DEF g, Step
      <4> QED BY <4>1, <3>1, <2>2
    <3>2. CASE n = m + 1
      <4> HIDE DEF g, Step
      <4> QED BY <3>2, <2>3
    <3> QED BY <3>1, <3>2
  <2>6. g = [n \in 0 .. m + 1 |-> Step(g, n)]
    <3>1. DOMAIN g = 0 .. m + 1 /\ g = [n \in 0 .. m + 1 |-> g[n]]
      OBVIOUS
    <3> HIDE DEF g, Step
    <3> QED BY <3>1, <2>4, <2>5
  <2> HIDE DEF g
  <2> QED BY <2>6
<1>3. Upto(Len(s))
  <2> DEFINE Bad == {m \in Nat : ~Upto(m)}
  <2> HIDE DEF Upto
  <2>1. CASE Bad = {}
    BY <2>1
  <2>2. CASE Bad # {}
    <3>1. PICK x \in Bad : \A y \in Bad : x <= y
      BY <2>2, Least
    <3>2. x \in Nat /\ x # 0 /\ ~Upto(x)
      BY <1>1
    <3>3. x - 1 \in Nat /\ Upto(x - 1)
      BY <3>1, <3>2
    <3>4. Upto(x - 1 + 1)
      BY <1>2, <3>3
    <3> QED BY <3>2, <3>4
  <2> QED BY <2>1, <2>2
<1> QED BY <1>3 DEF Items


LEMMA SerializedIs ==
  ASSUME NEW s \in Seq(Cache!Entry)
  PROVE  \E items : Items(s, items) /\ Cache!Serialized(s) = items[Len(s)]
<1> DEFINE it == CHOOSE items : Items(s, items)
<1>1. Items(s, it)
  BY ItemsExist
<1>2. Cache!Serialized(s) = it[Len(s)]
  BY DEF Cache!Serialized, Items
<1> QED BY <1>1, <1>2

(* The list after n places: entries before that place, no two from one.    *)
ItemsSound(s, t, n) ==
  /\ t \in Seq(Cache!Dumped) /\ Distinct(t)
  /\ \A i \in 1 .. Len(t) : \E p \in 1 .. n : t[i].key = s[p].key

LEMMA ItemAppended ==
  ASSUME NEW w \in Worker, NEW s, Stored(w, s), NEW n \in Nat, n + 1 \in 1 .. Len(s), NEW t, ItemsSound(s, t, n),
         NEW d \in Cache!Dumped, d.key = s[n + 1].key
  PROVE  ItemsSound(s, Append(t, d), n + 1)
<1> DEFINE u == Append(t, d)
<1>1. t \in Seq(Cache!Dumped) /\ Len(t) \in Nat /\ Len(s) \in Nat
  BY DEF ItemsSound, Stored
<1>2. /\ u \in Seq(Cache!Dumped) /\ Len(u) = Len(t) + 1 /\ u[Len(t) + 1] = d
      /\ \A i \in 1 .. Len(t) : u[i] = t[i]
  BY <1>1
<1> HIDE DEF u
<1>3. ASSUME NEW i \in 1 .. Len(t) PROVE u[i].key # d.key /\ \E p \in 1 .. n : u[i].key = s[p].key
  <2>1. PICK p \in 1 .. n : t[i].key = s[p].key
    BY DEF ItemsSound
  <2>2. p \in 1 .. Len(s) /\ p # n + 1
    BY <1>1
  <2>3. s[p].key # s[n + 1].key
    BY <2>2 DEF Stored, Distinct
  <2> QED BY <2>1, <2>3, <1>2
<1>4. ASSUME NEW i \in 1 .. Len(u) PROVE \E p \in 1 .. n + 1 : u[i].key = s[p].key
  <2>1. CASE i \in 1 .. Len(t)
    <3>1. PICK p \in 1 .. n : u[i].key = s[p].key
      BY <2>1, <1>3
    <3>2. p \in 1 .. n + 1
      OBVIOUS
    <3> QED BY <3>1, <3>2
  <2>2. CASE i = Len(t) + 1
    <3>1. n + 1 \in 1 .. n + 1
      OBVIOUS
    <3> QED BY <2>2, <3>1, <1>2
  <2> QED BY <2>1, <2>2, <1>1, <1>2
<1>5. ASSUME NEW i \in 1 .. Len(u), NEW j \in 1 .. Len(u), u[i].key = u[j].key PROVE i = j
  <2>1. (i \in 1 .. Len(t) \/ i = Len(t) + 1) /\ (j \in 1 .. Len(t) \/ j = Len(t) + 1)
    BY <1>1, <1>2
  <2>2. CASE i \in 1 .. Len(t) /\ j \in 1 .. Len(t)
    BY <2>2, <1>2, <1>5 DEF ItemsSound, Distinct
  <2>3. CASE i \in 1 .. Len(t) /\ j = Len(t) + 1
    BY <2>3, <1>2, <1>3, <1>5
  <2>4. CASE j \in 1 .. Len(t) /\ i = Len(t) + 1
    BY <2>4, <1>2, <1>3, <1>5
  <2> QED BY <2>1, <2>2, <2>3, <2>4
<1> QED BY <1>2, <1>4, <1>5 DEF ItemsSound, Distinct, u

LEMMA ItemSkipped ==
  ASSUME NEW s, NEW n \in Nat, NEW t, ItemsSound(s, t, n)
  PROVE  ItemsSound(s, t, n + 1)
<1>1. \A p \in 1 .. n : p \in 1 .. n + 1
  OBVIOUS
<1> QED BY <1>1 DEF ItemsSound

LEMMA SerializedSound ==
  ASSUME NEW w \in Worker, NEW s, Stored(w, s)
  PROVE  Cache!Serialized(s) \in Seq(Cache!Dumped) /\ Distinct(Cache!Serialized(s))
<1>1. s \in Seq(Cache!Entry) /\ Len(s) \in Nat
  BY DEF Stored
<1>2. PICK f : Items(s, f) /\ Cache!Serialized(s) = f[Len(s)]
  BY <1>1, SerializedIs
<1>3. ItemsSound(s, f[0], 0)
  <2>1. f[0] = <<>>
    BY <1>1, <1>2 DEF Items
  <2>2. <<>> \in Seq(Cache!Dumped) /\ 1 .. Len(<<>>) = {}
    OBVIOUS
  <2> QED BY <2>1, <2>2 DEF ItemsSound, Distinct
<1>4. ASSUME NEW n \in Nat, n + 1 \in 1 .. Len(s), ItemsSound(s, f[n], n) PROVE ItemsSound(s, f[n + 1], n + 1)
  <2> DEFINE d == [key |-> s[n + 1].key, rem |-> s[n + 1].rem, due |-> s[n + 1].due]
  <2>1. n + 1 \in 0 .. Len(s) /\ n + 1 # 0 /\ n + 1 - 1 = n
    BY <1>1, <1>4
  <2>2. f[n + 1] = IF s[n + 1].rem = 0 THEN f[n] ELSE Append(f[n], d)
    <3>1. PICK m \in 0 .. Len(s) : m = n + 1 /\ m # 0 /\ m - 1 = n
      BY <2>1
    <3>2. f[m] = IF m = 0 THEN <<>>
                 ELSE IF s[m].rem = 0 THEN f[m - 1]
                 ELSE Append(f[m - 1], [key |-> s[m].key, rem |-> s[m].rem, due |-> s[m].due])
      BY <1>2 DEF Items
    <3> QED BY <3>1, <3>2
  <2>3. d \in Cache!Dumped /\ d.key = s[n + 1].key
    <3>1. s[n + 1] \in Cache!Entry
      BY <1>1, <1>4
    <3> QED BY <3>1 DEF Cache!Entry, Cache!Dumped
  <2> HIDE DEF d
  <2>4. CASE s[n + 1].rem = 0
    BY <2>2, <2>4, <1>4, ItemSkipped
  <2>5. CASE s[n + 1].rem # 0
    <3>1. PICK t, m : t = f[n] /\ m \in Nat /\ m = n
      OBVIOUS
    <3>2. PICK e \in Cache!Dumped : e = d
      BY <2>3
    <3>3. m \in Nat /\ ItemsSound(s, t, m) /\ m + 1 \in 1 .. Len(s) /\ e.key = s[m + 1].key
      BY <3>1, <3>2, <1>4, <2>3
    <3>4. ItemsSound(s, Append(t, e), m + 1)
      BY <3>3, ItemAppended
    <3> QED BY <2>2, <2>5, <3>1, <3>2, <3>4
  <2> QED BY <2>4, <2>5
<1>5. ItemsSound(s, f[Len(s)], Len(s))
  <2> DEFINE Bad == {n \in 0 .. Len(s) : ~ItemsSound(s, f[n], n)}
  <2>1. CASE Bad = {}
    BY <2>1, <1>1
  <2>2. CASE Bad # {}
    <3>1. Bad \in SUBSET Nat
      OBVIOUS
    <3>2. PICK x \in Bad : \A y \in Bad : x <= y
      BY <2>2, <3>1, Least
    <3>3. x \in 0 .. Len(s) /\ x # 0 /\ ~ItemsSound(s, f[x], x)
      BY <1>3
    <3>4. PICK n \in Nat : n + 1 = x /\ n \in 0 .. Len(s)
      <4>1. x - 1 \in Nat /\ (x - 1) + 1 = x /\ x - 1 \in 0 .. Len(s)
        BY <3>3, <1>1
      <4> QED BY <4>1
    <3>5. ItemsSound(s, f[n], n)
      BY <3>2, <3>4, <1>1
    <3>6. n + 1 \in 1 .. Len(s)
      BY <3>3, <3>4, <1>1
    <3>7. ItemsSound(s, f[n + 1], n + 1)
      BY <1>4, <3>5, <3>6
    <3> QED BY <3>3, <3>4, <3>7
  <2> QED BY <2>1, <2>2
<1> QED BY <1>2, <1>5 DEF ItemsSound


-----------------------------------------------------------------------------
(* One worker's store is replaced.                                         *)
LEMMA StoreChanged ==
  ASSUME StoresSound, NEW w \in Worker, NEW t, Stored(w, t), Len(t) <= MaxEntries,
         l1' = [l1 EXCEPT ![w] = t]
  PROVE  StoresSound'
<1>1. DOMAIN l1' = Worker /\ l1'[w] = t /\ \A v \in Worker : v # w => l1'[v] = l1[v]
  BY DEF StoresSound
<1>2. ASSUME NEW v \in Worker PROVE Stored(v, l1'[v]) /\ Len(l1'[v]) <= MaxEntries
  BY <1>1 DEF StoresSound
<1>3. t \in Seq(Cache!Entry)
  BY DEF Stored
<1> QED BY <1>2, <1>3 DEF StoresSound

LEMMA AtGood ==
  ASSUME NEW w \in Worker, NEW s, Stored(w, s), NEW k, Cache!Held(s, k) # {}
  PROVE  Good(w, Cache!At(s, k)) /\ Cache!At(s, k).key = k
<1>1. PICK p \in 1 .. Len(s) : s[p].key = k /\ Cache!At(s, k) = s[p]
  BY PlaceIs DEF Stored
<1> QED BY <1>1 DEF Stored

LEMMA TouchedStored ==
  ASSUME NEW w \in Worker, NEW s, Stored(w, s), Len(s) <= MaxEntries, NEW k, Cache!Held(s, k) # {}
  PROVE  Stored(w, Cache!Touched(s, k)) /\ Len(Cache!Touched(s, k)) <= MaxEntries
<1>1. PICK u : u = Cache!Without(s, k)
  OBVIOUS
<1>2. PICK e : e = Cache!At(s, k) /\ Good(w, e) /\ e.key = k
  BY AtGood
<1>3. /\ Stored(w, u) /\ \A i \in 1 .. Len(u) : u[i].key # k
      /\ Len(u) < Len(s)
  BY <1>1, WithoutStored
<1>4. PICK t : t = Append(u, e)
  OBVIOUS
<1>5. Stored(w, t) /\ Len(t) = Len(u) + 1
  BY <1>2, <1>3, <1>4, AppendStored
<1>6. Len(s) \in Nat /\ Len(u) \in Nat /\ MaxEntries \in Nat
  BY <1>3, CacheAssumption DEF Stored, Cache!AnswerCacheConstants
<1> QED BY <1>1, <1>2, <1>3, <1>4, <1>5, <1>6 DEF Cache!Touched

(* What is handed out fresh is within the TTL it was stored with.          *)
LEMMA ServedFresh ==
  ASSUME NEW w \in Worker, NEW e, Good(w, e), e.rem > 0, Cache!Serve(e, FALSE)
  PROVE  ServedSound'
<1>1. e.rem \in Nat /\ e.due \in Nat /\ e.disk \in BOOLEAN /\ (~e.disk => e.due > 0)
  BY DEF Good, Cache!Entry
<1>2. served' = [stale |-> FALSE, late |-> e.due = 0, disk |-> e.disk]
  BY DEF Cache!Serve
<1>3. (e.due = 0) \in BOOLEAN /\ (e.disk \/ ~(e.due = 0))
  BY <1>1
<1>4. PICK a \in BOOLEAN, b \in BOOLEAN : served' = [stale |-> FALSE, late |-> a, disk |-> b] /\ (b \/ ~a)
  BY <1>1, <1>2, <1>3
<1> QED BY <1>4 DEF ServedSound, Cache!Served, Cache!ServedInTime

LEMMA ServedStale ==
  ASSUME NEW w \in Worker, NEW e, Good(w, e), Cache!Serve(e, TRUE)
  PROVE  ServedSound'
<1>1. e.disk \in BOOLEAN
  BY DEF Good, Cache!Entry
<1>2. served' = [stale |-> TRUE, late |-> e.due = 0, disk |-> e.disk]
  BY DEF Cache!Serve
<1>3. PICK a \in BOOLEAN, b \in BOOLEAN : served' = [stale |-> TRUE, late |-> a, disk |-> b]
  BY <1>1, <1>2
<1> QED BY <1>3 DEF ServedSound, Cache!Served, Cache!ServedInTime

LEMMA ServedNothing ==
  ASSUME Cache!Nothing
  PROVE  ServedSound'
BY DEF Cache!Nothing, ServedSound, Cache!ServedInTime

-----------------------------------------------------------------------------
LEMMA PutKeeps ==
  ASSUME FreshnessInv, NEW w \in Worker, NEW k \in Key, NEW life \in Cache!Lives, Cache!Put(w, k, life)
  PROVE  FreshnessInv'
<1>1. PICK e : /\ e = Cache!New(k, life) /\ Good(w, e) /\ e.key = k /\ e \in Cache!Entry
               /\ (e.rem > 0 => Shared(k, e))
  BY LivesTyped, NewGood
<1>2. /\ l1' = [l1 EXCEPT ![w] = Cache!Trim(Append(Cache!Without(l1[w], k), e))]
      /\ l2' = IF e.rem > 0 THEN [l2 EXCEPT ![k] = e] ELSE l2
      /\ Cache!Nothing /\ UNCHANGED <<file, upC>>
  BY <1>1 DEF Cache!Put, StoresSound, FreshnessInv
<1>3. StoresSound'
  <2>1. PICK s : s = l1[w] /\ Stored(w, s)
    BY DEF FreshnessInv, StoresSound
  <2>2. PICK u : u = Cache!Without(s, k) /\ Stored(w, u) /\ \A i \in 1 .. Len(u) : u[i].key # k
    BY <2>1, WithoutStored
  <2>3. PICK a : a = Append(u, e) /\ Stored(w, a)
    BY <1>1, <2>2, AppendStored
  <2>4. PICK t : t = Cache!Trim(a) /\ Stored(w, t) /\ Len(t) <= MaxEntries
    BY <2>3, TrimStored
  <2>5. l1' = [l1 EXCEPT ![w] = t]
    BY <1>2, <2>1, <2>2, <2>3, <2>4
  <2> QED BY <2>4, <2>5, StoreChanged DEF FreshnessInv
<1>4. SharedSound'
  <2>1. CASE e.rem > 0
    <3>1. l2' = [l2 EXCEPT ![k] = e] /\ Shared(k, e)
      BY <1>1, <1>2, <2>1
    <3> QED BY <3>1, <1>1 DEF FreshnessInv, SharedSound
  <2>2. CASE ~(e.rem > 0)
    BY <1>2, <2>2 DEF FreshnessInv, SharedSound
  <2> QED BY <2>1, <2>2
<1>5. FileSound' /\ upC' \in BOOLEAN
  BY <1>2 DEF FreshnessInv, FileSound, Distinct
<1> QED BY <1>2, <1>3, <1>4, <1>5, ServedNothing DEF FreshnessInv

LEMMA GetKeeps ==
  ASSUME FreshnessInv, NEW w \in Worker, NEW k \in Key, Cache!GetFresh(w, k) \/ Cache!GetStale(w, k)
  PROVE  FreshnessInv'
<1>1. Stored(w, l1[w]) /\ Len(l1[w]) <= MaxEntries /\ Cache!Held(l1[w], k) # {}
  BY DEF FreshnessInv, StoresSound, Cache!GetFresh, Cache!GetStale
<1>2. PICK e : e = Cache!At(l1[w], k) /\ Good(w, e)
  BY <1>1, AtGood
<1>3. /\ l1' = [l1 EXCEPT ![w] = Cache!Touched(l1[w], k)] /\ UNCHANGED <<l2, file, upC>>
      /\ (e.rem > 0 /\ Cache!Serve(e, FALSE)) \/ Cache!Serve(e, TRUE)
  BY <1>2 DEF Cache!GetFresh, Cache!GetStale, FreshnessInv, StoresSound
<1>4. StoresSound'
  <2>1. PICK t : t = Cache!Touched(l1[w], k) /\ Stored(w, t) /\ Len(t) <= MaxEntries
    BY <1>1, TouchedStored
  <2> QED BY <1>3, <2>1, StoreChanged DEF FreshnessInv
<1>5. ServedSound'
  BY <1>2, <1>3, ServedFresh, ServedStale
<1> QED BY <1>3, <1>4, <1>5 DEF FreshnessInv, SharedSound, FileSound, Distinct

LEMMA DroppedStored ==
  ASSUME NEW w \in Worker, NEW s, Stored(w, s), NEW k, NEW t, t = Cache!Dropped(s, k)
  PROVE  Stored(w, t) /\ Len(t) <= Len(s)
<1>1. Len(s) \in Nat
  BY DEF Stored
<1>2. t = Cache!Without(s, k) \/ t = s
  BY DEF Cache!Dropped
<1> QED BY <1>1, <1>2, WithoutStored


(* A promoted answer goes to the end, or into the place of the expired one.*)
Refilled(s, k, e) ==
  IF Cache!Held(Cache!Dropped(s, k), k) = {} THEN Append(Cache!Dropped(s, k), e)
  ELSE [i \in DOMAIN s |-> IF s[i].key = k THEN e ELSE s[i]]

LEMMA MissStored ==
  ASSUME NEW w \in Worker, NEW s, Stored(w, s), NEW k, NEW e, Good(w, e), e.key = k,
         NEW t, t = Refilled(s, k, e)
  PROVE  Stored(w, t)
<1>1. CASE Cache!Held(Cache!Dropped(s, k), k) = {}
  <2>1. PICK d : d = Cache!Dropped(s, k) /\ Stored(w, d)
    BY DroppedStored
  <2>2. \A i \in 1 .. Len(d) : d[i].key # e.key
    BY <1>1, <2>1 DEF Cache!Held, Stored
  <2>3. t = Append(d, e)
    BY <1>1, <2>1 DEF Refilled
  <2> QED BY <2>1, <2>2, <2>3, AppendStored
<1>2. CASE Cache!Held(Cache!Dropped(s, k), k) # {}
  <2>1. t = [i \in DOMAIN s |-> IF s[i].key = k THEN e ELSE s[i]]
    BY <1>2 DEF Refilled
  <2>2. DOMAIN s = 1 .. Len(s)
    BY DEF Stored
  <2>4. \A i \in 1 .. Len(s) : t[i].key = s[i].key /\ Good(w, t[i])
    <3> SUFFICES ASSUME NEW i \in DOMAIN s PROVE t[i].key = s[i].key /\ Good(w, t[i])
      BY <2>2
    <3>1. t[i] = IF s[i].key = k THEN e ELSE s[i]
      BY <2>1
    <3>2. Good(w, s[i])
      BY <2>2 DEF Stored
    <3> QED BY <3>1, <3>2
  <2>5. t \in [DOMAIN s -> Cache!Entry]
    <3>1. \A i \in DOMAIN s : t[i] \in Cache!Entry
      BY <2>2, <2>4 DEF Good
    <3> QED BY <2>1, <3>1
  <2> QED BY <2>4, <2>5, ChangedStored
<1> QED BY <1>1, <1>2

LEMMA MissKeeps ==
  ASSUME FreshnessInv, NEW w \in Worker, NEW k \in Key, Cache!Miss(w, k)
  PROVE  FreshnessInv'
<1>1. PICK s : s = l1[w] /\ Stored(w, s) /\ Len(s) <= MaxEntries
  BY DEF FreshnessInv, StoresSound
<1>2. Len(s) \in Nat /\ MaxEntries \in Nat
  BY <1>1, CacheAssumption DEF Stored, Cache!AnswerCacheConstants
<1>3. UNCHANGED <<l2, file, upC>>
  BY DEF Cache!Miss
<1>4. StoresSound' /\ ServedSound'
  <2>1. CASE l2[k] = None /\ l1' = [l1 EXCEPT ![w] = Cache!Dropped(@, k)] /\ Cache!Nothing
    <3>1. PICK t : t = Cache!Dropped(s, k) /\ Stored(w, t) /\ Len(t) <= Len(s)
      BY <1>1, DroppedStored
    <3>2. Len(t) <= MaxEntries
      BY <1>1, <1>2, <3>1 DEF Stored
    <3>3. l1' = [l1 EXCEPT ![w] = t]
      BY <1>1, <2>1, <3>1
    <3> QED BY <2>1, <3>1, <3>2, <3>3, StoreChanged, ServedNothing DEF FreshnessInv
  <2>2. CASE l2[k] # None
    <3>1. PICK e : /\ e = Cache!Promoted(l2[k]) /\ Good(w, e) /\ e.key = k /\ e.rem > 0
      BY <2>2, PromotedGood DEF FreshnessInv, SharedSound
    <3>2. PICK u : u = Refilled(s, k, e)
      OBVIOUS
    <3>3. Stored(w, u)
      BY <1>1, <3>1, <3>2, MissStored
    <3>4. PICK t : t = Cache!Trim(u) /\ Stored(w, t) /\ Len(t) <= MaxEntries
      BY <3>3, TrimStored
    <3>5. l1' = [l1 EXCEPT ![w] = Cache!Trim(
                   IF Cache!Held(Cache!Dropped(@, k), k) = {} THEN Append(Cache!Dropped(@, k), Cache!Promoted(l2[k]))
                   ELSE [i \in DOMAIN @ |-> IF @[i].key = k THEN Cache!Promoted(l2[k]) ELSE @[i]])]
          /\ Cache!Serve(e, FALSE)
      BY <2>2, <3>1 DEF Cache!Miss
    <3>6. l1' = [l1 EXCEPT ![w] = t]
      BY <1>1, <3>1, <3>2, <3>4, <3>5 DEF Refilled
    <3> QED BY <3>1, <3>4, <3>5, <3>6, StoreChanged, ServedFresh DEF FreshnessInv
  <2> QED BY <2>1, <2>2 DEF Cache!Miss
<1> QED BY <1>3, <1>4 DEF FreshnessInv, SharedSound, FileSound, Distinct

(* A flush marks what the other workers hold, and empties the shared table.*)
LEMMA FlushKeeps ==
  ASSUME FreshnessInv, NEW w \in Worker, NEW ks, NEW rest, Stored(w, rest), Len(rest) <= MaxEntries,
         Cache!Flush(w, ks, rest)
  PROVE  FreshnessInv'
<1>1. /\ l1' = [v \in Worker |-> IF v = w THEN rest ELSE Cache!Flushed(w, ks, l1[v])]
      /\ l2' = [k \in Key |-> None] /\ Cache!Nothing /\ UNCHANGED <<file, upC>>
  BY DEF Cache!Flush, Cache!SharedAfterFlush
<1>2. ASSUME NEW v \in Worker, v # w PROVE Stored(v, l1'[v]) /\ Len(l1'[v]) <= MaxEntries
  <2>1. PICK s : s = l1[v] /\ Stored(v, s) /\ Len(s) <= MaxEntries
    BY DEF FreshnessInv, StoresSound
  <2>2. PICK t : t = l1'[v]
    OBVIOUS
  <2>3. t = [i \in DOMAIN s |-> IF s[i].key \in ks THEN Cache!Since(s[i], w) ELSE s[i]]
    BY <1>1, <1>2, <2>1, <2>2 DEF Cache!Flushed
  <2>4. DOMAIN s = 1 .. Len(s) /\ t = [i \in DOMAIN s |-> t[i]]
    BY <2>1, <2>3 DEF Stored
  <2>5. \A i \in 1 .. Len(s) : t[i].key = s[i].key /\ Good(v, t[i])
    <3> SUFFICES ASSUME NEW i \in 1 .. Len(s) PROVE t[i].key = s[i].key /\ Good(v, t[i])
      OBVIOUS
    <3>1. PICK e : e = s[i] /\ Good(v, e)
      BY <2>1 DEF Stored
    <3>2. Good(v, Cache!Since(e, w)) /\ Cache!Since(e, w).key = e.key
      BY <1>2, <3>1, SinceGood
    <3>3. t[i] = IF s[i].key \in ks THEN Cache!Since(s[i], w) ELSE s[i]
      BY <2>3, <2>4
    <3> QED BY <3>1, <3>2, <3>3
  <2>6. t \in [DOMAIN s -> Cache!Entry]
    BY <2>3, <2>4, <2>5 DEF Good
  <2>7. Stored(v, t) /\ Len(t) = Len(s)
    BY <2>1, <2>5, <2>6, ChangedStored
  <2> QED BY <2>1, <2>2, <2>7
<1>3. StoresSound'
  <2>1. \A v \in Worker : Stored(v, l1'[v]) /\ Len(l1'[v]) <= MaxEntries
    BY <1>1, <1>2
  <2>2. \A v \in Worker : l1'[v] \in Seq(Cache!Entry)
    BY <2>1 DEF Stored
  <2>3. l1' \in [Worker -> Seq(Cache!Entry)]
    BY <1>1, <2>2
  <2> QED BY <2>1, <2>3 DEF StoresSound
<1>4. SharedSound' /\ FileSound'
  BY <1>1 DEF FreshnessInv, SharedSound, FileSound, Distinct
<1> QED BY <1>1, <1>3, <1>4, ServedNothing DEF FreshnessInv

LEMMA TickKeeps ==
  ASSUME FreshnessInv, Cache!Tick
  PROVE  FreshnessInv'
<1>1. /\ l1' = [w \in Worker |-> [i \in DOMAIN l1[w] |-> Cache!Older(l1[w][i])]]
      /\ l2' = [k \in Key |-> IF l2[k] = None THEN None
                              ELSE IF l2[k].rem <= 1 THEN None ELSE Cache!Older(l2[k])]
      /\ file' = [i \in DOMAIN file |-> [file[i] EXCEPT !.due = Cache!Less(@)]]
      /\ Cache!Nothing /\ UNCHANGED upC
  BY DEF Cache!Tick
<1>2. ASSUME NEW w \in Worker PROVE Stored(w, l1'[w]) /\ Len(l1'[w]) <= MaxEntries
  <2>1. PICK s : s = l1[w] /\ Stored(w, s) /\ Len(s) <= MaxEntries
    BY DEF FreshnessInv, StoresSound
  <2>2. PICK t : t = l1'[w] /\ t = [i \in DOMAIN s |-> Cache!Older(s[i])]
    BY <1>1, <2>1
  <2>3. DOMAIN s = 1 .. Len(s) /\ t = [i \in DOMAIN s |-> t[i]]
    BY <2>1, <2>2 DEF Stored
  <2>4. \A i \in 1 .. Len(s) : t[i].key = s[i].key /\ Good(w, t[i])
    <3> SUFFICES ASSUME NEW i \in 1 .. Len(s) PROVE t[i].key = s[i].key /\ Good(w, t[i])
      OBVIOUS
    <3>1. PICK e : e = s[i] /\ Good(w, e)
      BY <2>1 DEF Stored
    <3>2. Good(w, Cache!Older(e)) /\ Cache!Older(e).key = e.key
      BY <3>1, OlderGood
    <3>3. t[i] = Cache!Older(e)
      BY <2>2, <2>3, <3>1
    <3> QED BY <3>1, <3>2, <3>3
  <2>5. t \in [DOMAIN s -> Cache!Entry]
    BY <2>2, <2>3, <2>4 DEF Good
  <2>6. Stored(w, t) /\ Len(t) = Len(s)
    BY <2>1, <2>4, <2>5, ChangedStored
  <2> QED BY <2>1, <2>2, <2>6
<1>3. StoresSound'
  <2>1. \A v \in Worker : Stored(v, l1'[v]) /\ Len(l1'[v]) <= MaxEntries
    BY <1>2
  <2>2. \A v \in Worker : l1'[v] \in Seq(Cache!Entry)
    BY <2>1 DEF Stored
  <2>3. l1' \in [Worker -> Seq(Cache!Entry)]
    BY <1>1, <2>2
  <2> QED BY <2>1, <2>3 DEF StoresSound
<1>4. SharedSound'
  <2>1. ASSUME NEW k \in Key PROVE l2'[k] = None \/ Shared(k, l2'[k])
    <3>1. PICK e : e = l2[k] /\ (e # None => Shared(k, e))
      BY DEF FreshnessInv, SharedSound
    <3>2. l2'[k] = IF e = None THEN None ELSE IF e.rem <= 1 THEN None ELSE Cache!Older(e)
      BY <1>1, <3>1
    <3>3. e # None /\ ~(e.rem <= 1) => Shared(k, Cache!Older(e))
      BY <3>1, OlderShared
    <3> QED BY <3>2, <3>3
  <2>2. \A k \in Key : l2'[k] \in Cache!Entry \cup {None}
    BY <2>1 DEF Shared
  <2>3. DOMAIN l2' = Key /\ l2' = [k \in Key |-> l2'[k]]
    BY <1>1
  <2> QED BY <2>1, <2>2, <2>3 DEF SharedSound
<1>5. FileSound'
  <2>1. PICK s : s = file /\ s \in Seq(Cache!Dumped) /\ Distinct(s) /\ Len(s) \in Nat
    BY DEF FreshnessInv, FileSound
  <2>2. PICK t : t = file' /\ t = [i \in 1 .. Len(s) |-> [s[i] EXCEPT !.due = Cache!Less(@)]]
    BY <1>1, <2>1
  <2>3. ASSUME NEW i \in 1 .. Len(s) PROVE t[i] \in Cache!Dumped /\ t[i].key = s[i].key
    <3>1. PICK d \in Cache!Dumped : d = s[i]
      BY <2>1
    <3>2. PICK n \in Nat : n = Cache!Less(d.due)
      BY DEF Cache!Less, Cache!Dumped
    <3>3. t[i] = [d EXCEPT !.due = n]
      BY <2>2, <3>1, <3>2
    <3> QED BY <3>1, <3>3 DEF Cache!Dumped
  <2>4. t \in Seq(Cache!Dumped) /\ Len(t) = Len(s)
    <3>1. PICK n \in Nat : n = Len(s)
      BY <2>1
    <3>2. t \in [1 .. n -> Cache!Dumped]
      BY <2>2, <2>3, <3>1
    <3>3. t \in Seq(Cache!Dumped)
      BY <3>2, SeqDef
    <3> QED BY <3>1, <3>2, <3>3
  <2> QED BY <2>1, <2>2, <2>3, <2>4 DEF FileSound, Distinct
<1> QED BY <1>1, <1>3, <1>4, <1>5, ServedNothing DEF FreshnessInv

-----------------------------------------------------------------------------
(* An empty store, or an empty dump.                                       *)
LEMMA EmptyStored ==
  /\ \A w \in Worker : Stored(w, <<>>) /\ Len(<<>>) <= MaxEntries
  /\ <<>> \in Seq(Cache!Dumped) /\ Distinct(<<>>)
<1>1. Len(<<>>) = 0 /\ 1 .. Len(<<>>) = {} /\ <<>> \in Seq(Cache!Entry) /\ <<>> \in Seq(Cache!Dumped)
  OBVIOUS
<1>2. 0 <= MaxEntries
  BY CacheAssumption DEF Cache!AnswerCacheConstants
<1> QED BY <1>1, <1>2 DEF Stored, Distinct

(* flush(): by domain, and of everything.                                  *)
LEMMA FlushesKeep ==
  ASSUME FreshnessInv, NEW w \in Worker,
         \/ \E k \in Key : Cache!Flush(w, {k}, Cache!Without(l1[w], k))
         \/ Cache!Flush(w, Key, <<>>)
  PROVE  FreshnessInv'
<1>1. ASSUME NEW k \in Key, Cache!Flush(w, {k}, Cache!Without(l1[w], k)) PROVE FreshnessInv'
  <2>1. PICK s : s = l1[w] /\ Stored(w, s) /\ Len(s) <= MaxEntries
    BY DEF FreshnessInv, StoresSound
  <2>2. PICK t : t = Cache!Without(s, k) /\ Stored(w, t) /\ Len(t) <= Len(s)
    BY <2>1, WithoutStored
  <2>3. Len(t) <= MaxEntries
    BY <2>1, <2>2, CacheAssumption DEF Stored, Cache!AnswerCacheConstants
  <2>4. PICK ks : ks = {k}
    OBVIOUS
  <2>5. Cache!Flush(w, ks, t)
    BY <1>1, <2>1, <2>2, <2>4
  <2> QED BY <2>2, <2>3, <2>5, FlushKeeps
<1>2. CASE Cache!Flush(w, Key, <<>>)
  BY <1>2, EmptyStored, FlushKeeps
<1> QED BY <1>1, <1>2

(* stop() dumps what the primary holds, a crash keeps the previous dump.   *)
LEMMA GoneKeeps ==
  ASSUME FreshnessInv, Cache!Gone, FileSound'
  PROVE  FreshnessInv'
<1>1. /\ upC' = FALSE /\ l1' = [w \in Worker |-> <<>>] /\ l2' = [k \in Key |-> None] /\ Cache!Nothing
  BY DEF Cache!Gone
<1>2. StoresSound'
  BY <1>1, EmptyStored DEF StoresSound
<1>3. SharedSound'
  BY <1>1 DEF SharedSound
<1> QED BY <1>1, <1>2, <1>3, ServedNothing DEF FreshnessInv

LEMMA StopKeeps ==
  ASSUME FreshnessInv, Cache!Stop \/ Cache!Crash
  PROVE  FreshnessInv'
<1>1. CASE Cache!Stop
  <2>1. Primary \in Worker
    BY CacheAssumption DEF Cache!AnswerCacheConstants
  <2>2. PICK w \in Worker : w = Primary
    BY <2>1
  <2>3. PICK s : s = l1[w] /\ Stored(w, s)
    BY DEF FreshnessInv, StoresSound
  <2>4. Cache!Serialized(s) \in Seq(Cache!Dumped) /\ Distinct(Cache!Serialized(s))
    BY <2>3, SerializedSound
  <2>5. file' = Cache!Serialized(s)
    BY <1>1, <2>2, <2>3 DEF Cache!Stop
  <2> QED BY <1>1, <2>4, <2>5, GoneKeeps DEF Cache!Stop, FileSound
<1>2. CASE Cache!Crash
  BY <1>2, GoneKeeps DEF Cache!Crash, FreshnessInv, FileSound, Distinct
<1> QED BY <1>1, <1>2

(* load(): what the dump holds fits the primary's store again.             *)
LEMMA StartKeeps ==
  ASSUME FreshnessInv, Cache!Start
  PROVE  FreshnessInv'
<1>1. Primary \in Worker
  BY CacheAssumption DEF Cache!AnswerCacheConstants
<1>2. PICK w \in Worker : w = Primary
  BY <1>1
<1>3. PICK s : s = file /\ s \in Seq(Cache!Dumped) /\ Distinct(s)
  BY DEF FreshnessInv, FileSound
<1>4. PICK n \in Nat : n = Len(s) /\ DOMAIN s = 1 .. n
  BY <1>3
<1>5. PICK a : a = [i \in DOMAIN s |-> Cache!Restored(s[i])]
  OBVIOUS
<1>6. \A i \in 1 .. n : a[i] \in Cache!Entry /\ Good(w, a[i]) /\ a[i].key = s[i].key
  <2> SUFFICES ASSUME NEW i \in 1 .. n PROVE a[i] \in Cache!Entry /\ Good(w, a[i]) /\ a[i].key = s[i].key
    OBVIOUS
  <2>1. PICK d \in Cache!Dumped : d = s[i]
    BY <1>3, <1>4
  <2>2. a[i] = Cache!Restored(d)
    BY <1>4, <1>5, <2>1
  <2> QED BY <2>1, <2>2, RestoredGood
<1>7. a \in Seq(Cache!Entry) /\ Len(a) = n
  <2>1. a \in [1 .. n -> Cache!Entry]
    BY <1>4, <1>5, <1>6
  <2>2. a \in Seq(Cache!Entry)
    BY <2>1, SeqDef
  <2> QED BY <2>1, <2>2
<1>8. Stored(w, a)
  BY <1>3, <1>4, <1>6, <1>7 DEF Stored, Distinct
<1>9. PICK t : t = Cache!Trim(a) /\ Stored(w, t) /\ Len(t) <= MaxEntries
  BY <1>8, TrimStored
<1>10. l1' = [l1 EXCEPT ![w] = t] /\ Cache!Nothing /\ UNCHANGED <<l2, file>> /\ upC' = TRUE
  BY <1>2, <1>3, <1>5, <1>9 DEF Cache!Start
<1>11. StoresSound'
  BY <1>9, <1>10, StoreChanged DEF FreshnessInv
<1> QED BY <1>10, <1>11, ServedNothing DEF FreshnessInv, SharedSound, FileSound, Distinct

-----------------------------------------------------------------------------
LEMMA FreshnessInit == Cache!Init => FreshnessInv
<1> SUFFICES ASSUME Cache!Init PROVE FreshnessInv
  OBVIOUS
<1>1. StoresSound
  BY EmptyStored DEF Cache!Init, StoresSound
<1>2. SharedSound
  BY DEF Cache!Init, SharedSound
<1>3. FileSound
  BY EmptyStored DEF Cache!Init, FileSound
<1>4. ServedSound
  BY DEF Cache!Init, ServedSound, Cache!ServedInTime
<1> QED BY <1>1, <1>2, <1>3, <1>4 DEF Cache!Init, FreshnessInv

LEMMA FreshnessStep == FreshnessInv /\ [Cache!Next]_(Cache!vars) => FreshnessInv'
<1> SUFFICES ASSUME FreshnessInv, [Cache!Next]_(Cache!vars) PROVE FreshnessInv'
  OBVIOUS
<1>1. ASSUME NEW life \in Cache!Lives, NEW w \in Worker, NEW k \in Key, Cache!Put(w, k, life) PROVE FreshnessInv'
  BY <1>1, PutKeeps
<1>2. ASSUME NEW w \in Worker, NEW k \in Key, Cache!GetFresh(w, k) \/ Cache!GetStale(w, k) PROVE FreshnessInv'
  BY <1>2, GetKeeps
<1>3. ASSUME NEW w \in Worker, NEW k \in Key, Cache!Miss(w, k) PROVE FreshnessInv'
  BY <1>3, MissKeeps
<1>4. ASSUME NEW w \in Worker, NEW k \in Key, Cache!Flush(w, {k}, Cache!Without(l1[w], k)) PROVE FreshnessInv'
  BY <1>4, FlushesKeep
<1>5. ASSUME NEW w \in Worker, Cache!Flush(w, Key, <<>>) PROVE FreshnessInv'
  BY <1>5, FlushesKeep
<1>6. CASE Cache!Tick
  BY <1>6, TickKeeps
<1>7. CASE Cache!Stop \/ Cache!Crash
  BY <1>7, StopKeeps
<1>8. CASE Cache!Start
  BY <1>8, StartKeeps
<1>9. CASE UNCHANGED Cache!vars
  BY <1>9 DEF Cache!vars, FreshnessInv, StoresSound, SharedSound, FileSound, ServedSound, Cache!ServedInTime,
              Distinct
<1> QED BY <1>1, <1>2, <1>3, <1>4, <1>5, <1>6, <1>7, <1>8, <1>9 DEF Cache!Next

(* What the invariant says of the answers: a key is held in one place, and *)
(* what was flushed or has run out is not there.                           *)
LEMMA CurrentByInv == FreshnessInv => AnswersCurrent
<1> SUFFICES ASSUME FreshnessInv PROVE AnswersCurrent
  OBVIOUS
<1>1. ASSUME NEW w \in Worker, NEW i \in DOMAIN l1[w], NEW j \in DOMAIN l1[w], l1[w][i].key = l1[w][j].key
      PROVE  i = j
  BY <1>1 DEF FreshnessInv, StoresSound, Stored, Distinct
<1>2. Cache!StoreBounded
  BY <1>1 DEF FreshnessInv, StoresSound, Cache!StoreBounded
<1>3. l1 \in [Worker -> Seq(Cache!Entry)]
  BY DEF FreshnessInv, StoresSound
<1>4. Cache!TypeOK
  BY <1>2, <1>3 DEF FreshnessInv, SharedSound, FileSound, ServedSound, Cache!TypeOK
<1>5. Cache!FlushIsFinal
  <2> SUFFICES ASSUME NEW w \in Worker, NEW i \in DOMAIN l1[w]
               PROVE  l1[w][i].disk \/ w \notin l1[w][i].flushed
    BY DEF Cache!FlushIsFinal
  <2>1. Good(w, l1[w][i])
    BY DEF FreshnessInv, StoresSound, Stored
  <2> QED BY <2>1 DEF Good
<1> QED BY <1>4, <1>5 DEF FreshnessInv, ServedSound, AnswersCurrent, Cache!AnswersCurrent

(* The stores keep their bounds, an answer is served as fresh only within  *)
(* the TTL it was stored with, and what a worker flushed does not come     *)
(* back to it, through any number of promotions from the shared table      *)
(* (Cache.get, put, get_stale, flush).                                     *)
THEOREM AnswersStayCurrent == Cache!Spec => []AnswersCurrent
<1>1. FreshnessInv /\ [Cache!Next]_(Cache!vars) => FreshnessInv'
  BY FreshnessStep
<1> QED BY <1>1, FreshnessInit, CurrentByInv, PTL DEF Cache!Spec

=============================================================================
