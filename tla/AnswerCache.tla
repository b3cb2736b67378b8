---------------------------- MODULE AnswerCache ----------------------------
(***************************************************************************)
(* The answer cache of each worker (L1: TTL, LRU, negative answers, stale  *)
(* retention), the table the workers share behind it (L2, atomic here; its *)
(* locks are module SharedCache), flushes, and the dump that carries the   *)
(* primary's entries across a restart.                                     *)
(*                                                                         *)
(* Source: trench/cache/cache.py; trench/app.py for when it is dumped and  *)
(* loaded.                                                                 *)
(*                                                                         *)
(* Clocks are kept as time left, counted down by Tick, so no bound on time *)
(* is needed.  Beside the lifetime the code works with (rem), an entry     *)
(* carries the lifetime its answer was really stored with (due), which the *)
(* code does not have.                                                     *)
(***************************************************************************)
EXTENDS Integers, Sequences, SequencesExt

CONSTANTS
  Worker,
  Primary,     \* the worker that dumps and loads
  Key,
  TTL,         \* record TTLs the upstream sends
  MinTTL, MaxTTL, NegativeTTL, StaleMax,   \* config.cache
  MaxEntries,
  None

AnswerCacheConstants ==
  /\ Primary \in Worker
  /\ TTL \subseteq Nat
  /\ MinTTL \in Nat /\ MaxTTL \in Nat /\ MinTTL <= MaxTTL
  /\ NegativeTTL \in Nat /\ StaleMax \in Nat
  /\ MaxEntries \in Nat \ {0}
  /\ None \notin Key

VARIABLES
  l1,      \* worker -> its _store, least recently used first
  l2,      \* key -> the shared table's entry, or None
  file,    \* cache.json: the dumped entries, in LRU order
  up,      \* the service is running
  served   \* the answer the last step handed out, or None

vars == <<l1, l2, file, up, served>>

(* rem: seconds of TTL left; due: seconds left of the TTL the answer was   *)
(* stored with; keep: seconds until even stale use ends; flushed: workers  *)
(* that flushed since the answer was stored; disk: restored from a dump.   *)
Entry == [key : Key, rem : Nat, due : Nat, keep : Nat,
          flushed : SUBSET Worker, disk : BOOLEAN]

Dumped == [key : Key, rem : Nat, due : Nat]

(* An answer handed out: whether as stale data, past the TTL it was stored *)
(* with, restored from a dump.                                             *)
Served == [stale : BOOLEAN, late : BOOLEAN, disk : BOOLEAN]

Init ==
  /\ l1 = [w \in Worker |-> <<>>]
  /\ l2 = [k \in Key |-> None]
  /\ file = <<>>
  /\ up = TRUE
  /\ served = None

-----------------------------------------------------------------------------
Clamp(t) == LET m == IF t < MaxTTL THEN t ELSE MaxTTL
            IN  IF m < MinTTL THEN MinTTL ELSE m

(* _derive_ttl: a negative answer is further capped by negative_ttl.       *)
Lifetime(kind, t) ==
  Clamp(IF kind = "negative" /\ NegativeTTL < t THEN NegativeTTL ELSE t)

(* put stores neither failures nor answers whose lifetime is zero.         *)
Storable(kind, t) ==
  \/ kind = "negative"
  \/ kind = "answer" /\ Lifetime(kind, t) > 0

Lives == {Lifetime(x[1], x[2]) : x \in {y \in {"answer", "negative"} \X TTL : Storable(y[1], y[2])}}

Held(s, k) == {i \in DOMAIN s : s[i].key = k}
Place(s, k) == CHOOSE i \in DOMAIN s : s[i].key = k
At(s, k) == s[Place(s, k)]
Without(s, k) == IF Held(s, k) = {} THEN s ELSE RemoveAt(s, Place(s, k))

(* The while loop after every insertion: the coldest entries go.           *)
Trim(s) == IF Len(s) > MaxEntries
           THEN SubSeq(s, Len(s) - MaxEntries + 1, Len(s)) ELSE s

(* move_to_end                                                             *)
Touched(s, k) == Append(Without(s, k), At(s, k))

New(k, t) == [key |-> k, rem |-> t, due |-> t, keep |-> t + StaleMax,
              flushed |-> {}, disk |-> FALSE]

Serve(e, stale) == served' = [stale |-> stale, late |-> e.due = 0, disk |-> e.disk]

Nothing == served' = None

(* put(): into the worker's own store, and through to L2, which takes no   *)
(* entry without a TTL.                                                    *)
Put(w, k, life) ==
  LET e == New(k, life) IN
  /\ up
  /\ l1' = [l1 EXCEPT ![w] = Trim(Append(Without(@, k), e))]
  /\ l2' = IF e.rem > 0 THEN [l2 EXCEPT ![k] = e] ELSE l2
  /\ Nothing
  /\ UNCHANGED <<file, up>>

(* get(): a fresh entry is served and becomes the most recently used.      *)
GetFresh(w, k) ==
  /\ up
  /\ Held(l1[w], k) # {} /\ At(l1[w], k).rem > 0
  /\ l1' = [l1 EXCEPT ![w] = Touched(@, k)]
  /\ Serve(At(l1[w], k), FALSE)
  /\ UNCHANGED <<l2, file, up>>

(* An expired entry is served only to a caller that allows stale data.     *)
GetStale(w, k) ==
  /\ up
  /\ Held(l1[w], k) # {} /\ At(l1[w], k).rem = 0 /\ At(l1[w], k).keep > 0
  /\ l1' = [l1 EXCEPT ![w] = Touched(@, k)]
  /\ Serve(At(l1[w], k), TRUE)
  /\ UNCHANGED <<l2, file, up>>

(* A local miss: an entry past its stale deadline is dropped, and L2 is    *)
(* asked; what it has is promoted with the time it has left, in the place  *)
(* of the expired entry if one is still retained.                          *)
Promoted(e) == [e EXCEPT !.keep = e.rem + StaleMax]

Dropped(s, k) == IF \E i \in Held(s, k) : s[i].keep = 0 THEN Without(s, k) ELSE s

Miss(w, k) ==
  /\ up
  /\ \A i \in Held(l1[w], k) : l1[w][i].rem = 0
  /\ \/ /\ l2[k] = None
        /\ l1' = [l1 EXCEPT ![w] = Dropped(@, k)]
        /\ Nothing
     \/ /\ l2[k] # None
        /\ l1' = [l1 EXCEPT ![w] = Trim(
             IF Held(Dropped(@, k), k) = {} THEN Append(Dropped(@, k), Promoted(l2[k]))
             ELSE [i \in DOMAIN @ |-> IF @[i].key = k THEN Promoted(l2[k]) ELSE @[i]])]
        /\ Serve(Promoted(l2[k]), FALSE)
  /\ UNCHANGED <<l2, file, up>>

(* flush(): everything in this worker's store, and all of L2; a flush by   *)
(* domain drops the matching names from the store and still clears L2,     *)
(* which has no index to sweep by.                                         *)
Since(e, w) == IF e.disk THEN e ELSE [e EXCEPT !.flushed = @ \cup {w}]
Flushed(w, ks, s) == [i \in DOMAIN s |-> IF s[i].key \in ks THEN Since(s[i], w) ELSE s[i]]

SharedAfterFlush_Victims(w, ks) ==   \* mutant: only this worker's own victims
  [k \in Key |-> IF k \in ks /\ Held(l1[w], k) # {} THEN None
                 ELSE IF k \in ks /\ l2[k] # None THEN Since(l2[k], w) ELSE l2[k]]

SharedAfterFlush(w, ks) == [k \in Key |-> None]

Flush(w, ks, rest) ==
  /\ up
  /\ l1' = [v \in Worker |-> IF v = w THEN rest ELSE Flushed(w, ks, l1[v])]
  /\ l2' = SharedAfterFlush(w, ks)
  /\ Nothing
  /\ UNCHANGED <<file, up>>

(* A second passes: every lifetime shortens, except the one written in the *)
(* dump, which is a number in a file.  L2 drops what has run out.          *)
Less(n) == IF n = 0 THEN 0 ELSE n - 1
Older(e) == [e EXCEPT !.rem = Less(@), !.due = Less(@), !.keep = Less(@)]

Tick ==
  /\ l1' = [w \in Worker |-> [i \in DOMAIN l1[w] |-> Older(l1[w][i])]]
  /\ l2' = [k \in Key |-> IF l2[k] = None THEN None
                          ELSE IF l2[k].rem <= 1 THEN None ELSE Older(l2[k])]
  /\ file' = [i \in DOMAIN file |-> [file[i] EXCEPT !.due = Less(@)]]
  /\ Nothing
  /\ UNCHANGED up

(* stop() dumps the primary's fresh entries; a crash dumps nothing and     *)
(* leaves the previous dump.  Either way the workers and L2 are gone.      *)
Gone ==
  /\ up /\ up' = FALSE
  /\ l1' = [w \in Worker |-> <<>>]
  /\ l2' = [k \in Key |-> None]
  /\ Nothing

Serialized(s) ==
  LET items[n \in 0 .. Len(s)] ==
        IF n = 0 THEN <<>>
        ELSE IF s[n].rem = 0 THEN items[n - 1]
        ELSE Append(items[n - 1], [key |-> s[n].key, rem |-> s[n].rem, due |-> s[n].due])
  IN items[Len(s)]

Stop == Gone /\ file' = Serialized(l1[Primary])

Crash == Gone /\ UNCHANGED file

(* load(): the TTL in the file is the entry's time left, capped, never     *)
(* raised, and the LRU bound holds.                                        *)
Restored(e) ==
  LET t == IF e.rem < MaxTTL THEN e.rem ELSE MaxTTL
  IN  [New(e.key, t) EXCEPT !.due = e.due, !.disk = TRUE]

Start ==
  /\ ~up /\ up' = TRUE
  /\ l1' = [l1 EXCEPT ![Primary] = Trim([i \in DOMAIN file |-> Restored(file[i])])]
  /\ Nothing
  /\ UNCHANGED <<l2, file>>

Next ==
  \/ \E life \in Lives : \E w \in Worker, k \in Key : Put(w, k, life)
  \/ \E w \in Worker, k \in Key :
       \/ GetFresh(w, k) \/ GetStale(w, k) \/ Miss(w, k)
       \/ Flush(w, {k}, Without(l1[w], k))
  \/ \E w \in Worker : Flush(w, Key, <<>>)
  \/ Tick \/ Stop \/ Crash \/ Start

Spec == Init /\ [][Next]_vars

-----------------------------------------------------------------------------
(* max_entries bounds a worker's store on every way in (put, promotion     *)
(* from L2, a restored dump), and a key is held once.                      *)
StoreBounded ==
  \A w \in Worker :
    /\ Len(l1[w]) <= MaxEntries
    /\ \A i, j \in DOMAIN l1[w] : l1[w][i].key = l1[w][j].key => i = j

(* Type invariant.                                                         *)
TypeOK ==
  /\ l1 \in [Worker -> Seq(Entry)]
  /\ l2 \in [Key -> Entry \cup {None}]
  /\ file \in Seq(Dumped)
  /\ up \in BOOLEAN
  /\ served \in Served \cup {None}
  /\ StoreBounded

(* An answer is served as fresh only inside the TTL it was stored with,    *)
(* through any number of promotions and workers.  An answer restored from  *)
(* a dump is exempt: load gives it the TTL it had when the dump was        *)
(* written, and the time the service was down is not counted.              *)
ServedInTime ==
  served # None => (served.disk \/ served.stale \/ ~served.late)

(* A flush is final for the worker that made it: nothing stored before it  *)
(* comes back out of L2, although another worker stored it there.          *)
FlushIsFinal ==
  \A w \in Worker : \A i \in DOMAIN l1[w] :
    l1[w][i].disk \/ w \notin l1[w][i].flushed

(* What a worker holds and serves is current, whichever worker stored it.  *)
AnswersCurrent == TypeOK /\ ServedInTime /\ FlushIsFinal

=============================================================================
