------------------------- MODULE SharedCacheProofs -------------------------
(***************************************************************************)
(* Proofs about what the workers share and store: SharedCache, for any     *)
(* number of workers, keys, slots, stripes and clears, QueryLog, for any   *)
(* numbers of records, slots, writes of others and faults, and Rollup, for *)
(* any log, times, chunk and numbers of rows and faults.                   *)
(***************************************************************************)
EXTENDS MCStorage, FiniteSetTheorems, SequenceTheorems, WellFoundedInduction, TLAPS

(* _slot: every key has a bucket and every bucket a stripe.                *)
LEMMA SlotInRange ==
  /\ \A k \in Keys : BucketOf(k) \in Bucket
  /\ \A b \in Bucket : StripeOf(b) \in Stripe
  BY SharedCacheAssumption DEF BucketOf, StripeOf, Bucket, Stripe

(* Updates of a call record, one lemma per shape used by the actions.      *)
LEMMA IdleOp == Idle \in Op
  BY SharedCacheAssumption DEF Op, Idle, Kinds, Steps, Stripe

LEMMA SetStep ==
  ASSUME op \in [Worker -> Op], NEW w \in Worker, NEW st \in Steps
  PROVE  [op EXCEPT ![w].step = st] \in [Worker -> Op]
<1>1. [op[w] EXCEPT !.step = st] \in Op
  BY DEF Op
<1> QED
  BY <1>1

LEMMA SetCall ==
  ASSUME NEW o \in Op, NEW kind \in Kinds, NEW k \in Keys, NEW s \in Stripe
  PROVE  [o EXCEPT !.kind = kind, !.key = k, !.step = "want", !.at = s] \in Op
  BY DEF Op, Steps

LEMMA SetClear ==
  ASSUME NEW o \in Op, NEW e \in 0 .. MaxClears
  PROVE  [o EXCEPT !.kind = "clear", !.step = "want", !.mine = e] \in Op
  BY DEF Op, Steps, Kinds

LEMMA SetStripe ==
  ASSUME NEW o \in Op, NEW s \in Stripe, NEW sk \in SUBSET Stripe
  PROVE  [o EXCEPT !.step = "want", !.at = s, !.skipped = sk] \in Op
  BY DEF Op, Steps

(* Whatever branch of hold() a call leaves by, it goes on to the next      *)
(* stripe of a clear, or returns.                                          *)
LEMMA AdvanceType ==
  ASSUME op \in [Worker -> Op], NEW w \in Worker, NEW held \in BOOLEAN
  PROVE  Advance(w, held) \in Op
<1> DEFINE o == op[w]
           skip == IF held THEN o.skipped ELSE o.skipped \cup {o.at}
<1>1. o \in Op /\ o.at \in Stripe /\ skip \in SUBSET Stripe
  BY DEF Op
<1>2. CASE o.kind = "clear" /\ o.at + 1 < Stripes
  <2>1. o.at + 1 \in Stripe
    BY <1>1, <1>2, SharedCacheAssumption DEF Stripe
  <2> HIDE DEF o, skip
  <2>2. [o EXCEPT !.step = "want", !.at = o.at + 1, !.skipped = skip] \in Op
    BY <1>1, <2>1, SetStripe
  <2> QED
    BY <1>2, <2>2 DEF Advance, o, skip
<1>3. CASE ~(o.kind = "clear" /\ o.at + 1 < Stripes)
  BY <1>3, IdleOp DEF Advance
<1> QED
  BY <1>2, <1>3

(* A call for one key stays on that key's stripe, and only a put is ever   *)
(* between its two writes.                                                 *)
Placed ==
  \A w \in Worker :
    /\ op[w].step # "idle" /\ op[w].kind # "clear" =>
         /\ op[w].kind \in {"get", "put", "delete"}
         /\ op[w].key \in Keys
         /\ op[w].at = StripeOf(BucketOf(op[w].key))
    /\ op[w].step = "mid" => op[w].kind = "put"
    /\ op[w].step # "idle" => op[w].kind # "none"

LEMMA AdvancePlaced ==
  ASSUME op \in [Worker -> Op], NEW w \in Worker, NEW held \in BOOLEAN
  PROVE  \/ Advance(w, held) = Idle
         \/ /\ Advance(w, held).kind = "clear" /\ op[w].kind = "clear"
            /\ Advance(w, held).step = "want"
  BY DEF Advance, Op

LEMMA TypeInductive ==
  ASSUME TypeOK, Placed, [Next]_vars
  PROVE  TypeOK' /\ Placed'
<1> USE SharedCacheAssumption, SlotInRange
<1>0. /\ op \in [Worker -> Op]
      /\ \A w \in Worker : /\ op[w].at \in Stripe
                           /\ op[w].key \in Keys \cup {0}
                           /\ op[w].step \in Steps
  BY DEF TypeOK, Op
<1>a. \A w \in Worker, held \in BOOLEAN : Advance(w, held) \in Op
  BY <1>0, AdvanceType
<1>b. \A w \in Worker, st \in Steps : [op EXCEPT ![w].step = st] \in [Worker -> Op]
  BY <1>0, SetStep
<1>c. ASSUME NEW w \in Worker, NEW held \in BOOLEAN,
             op' = [op EXCEPT ![w] = Advance(w, held)]
      PROVE  op' \in [Worker -> Op] /\ Placed'
  <2>1. op' \in [Worker -> Op] /\ op'[w] = Advance(w, held)
    BY <1>0, <1>a, <1>c
  <2>2. \A v \in Worker \ {w} : op'[v] = op[v]
    BY <1>0, <1>c
  <2>3. CASE Advance(w, held) = Idle
    BY <2>1, <2>2, <2>3 DEF Placed, Idle
  <2>4. CASE Advance(w, held).kind = "clear" /\ Advance(w, held).step = "want"
    BY <2>1, <2>2, <2>4 DEF Placed
  <2> QED
    BY <1>0, <2>1, <2>3, <2>4, AdvancePlaced
<1>d. ASSUME NEW w \in Worker, NEW st \in {"wait", "crit", "mid"},
             op[w].step # "idle", st = "mid" => op[w].kind = "put",
             op' = [op EXCEPT ![w].step = st]
      PROVE  op' \in [Worker -> Op] /\ Placed'
  <2>1. op' \in [Worker -> Op]
    BY <1>b, <1>d DEF Steps
  <2>2. /\ \A v \in Worker \ {w} : op'[v] = op[v]
        /\ op'[w].step = st /\ op'[w].kind = op[w].kind
        /\ op'[w].key = op[w].key /\ op'[w].at = op[w].at
    BY <1>0, <1>d DEF Op
  <2> QED
    BY <1>d, <2>1, <2>2 DEF Placed
<1>e. op' = op => op' \in [Worker -> Op] /\ Placed'
  BY <1>0 DEF Placed
<1>1. ASSUME NEW w \in Worker, NEW kind \in {"get", "put", "delete"}, NEW k \in Keys,
             Call(w, kind, k)
      PROVE  TypeOK' /\ Placed'
  <2> DEFINE o == [Idle EXCEPT !.kind = kind, !.key = k, !.step = "want",
                               !.at = StripeOf(BucketOf(k))]
  <2>1. o \in Op
    BY IdleOp, SetCall DEF Kinds
  <2>2. o.kind = kind /\ o.key = k /\ o.step = "want" /\ o.at = StripeOf(BucketOf(k))
    BY DEF Idle
  <2> HIDE DEF o
  <2>3. op' = [op EXCEPT ![w] = o]
    BY <1>1 DEF Call, o
  <2>4. Placed'
    BY <1>0, <2>2, <2>3 DEF Placed
  <2> QED
    BY <1>1, <2>1, <2>3, <2>4 DEF Call, TypeOK
<1>2. ASSUME NEW w \in Worker, CallClear(w)
      PROVE  TypeOK' /\ Placed'
  <2> DEFINE o == [Idle EXCEPT !.kind = "clear", !.step = "want", !.mine = era + 1]
  <2>1. era + 1 \in 0 .. MaxClears
    BY <1>2 DEF CallClear, TypeOK
  <2>2. o \in Op
    BY <2>1, IdleOp, SetClear
  <2>3. o.kind = "clear" /\ o.step = "want"
    BY DEF Idle
  <2> HIDE DEF o
  <2>4. op' = [op EXCEPT ![w] = o]
    BY <1>2 DEF CallClear, o
  <2>5. Placed'
    BY <1>0, <2>3, <2>4 DEF Placed
  <2> QED
    BY <1>2, <2>1, <2>2, <2>4, <2>5 DEF CallClear, TypeOK
<1>3. ASSUME NEW w \in Worker, SkipWrittenOff(w)
      PROVE  TypeOK' /\ Placed'
  <2>1. op' \in [Worker -> Op] /\ Placed'
    BY <1>3, <1>c DEF SkipWrittenOff
  <2> QED
    BY <1>3, <2>1 DEF SkipWrittenOff, TypeOK
<1>4. ASSUME NEW w \in Worker, Probe(w)
      PROVE  TypeOK' /\ Placed'
  <2>1. CASE lock[op[w].at] = NoOne
    <3>1. op' = [op EXCEPT ![w].step = "crit"] /\ op[w].step # "idle"
      BY <1>4, <2>1 DEF Probe
    <3>2. op' \in [Worker -> Op] /\ Placed'
      BY <3>1, <1>d
    <3>3. retry' = [retry EXCEPT ![w][op[w].at] = "ok"]
      BY <1>4, <2>1 DEF Probe
    <3>4. retry' \in [Worker -> [Stripe -> {"ok", "cooling", "due"}]]
      BY <1>0, <3>3 DEF TypeOK
    <3>5. lock' = [lock EXCEPT ![op[w].at] = w]
      BY <1>4, <2>1 DEF Probe
    <3>6. UNCHANGED <<hdr, body, alive, got, era, stalls>>
      BY <1>4 DEF Probe
    <3> QED
      BY <3>2, <3>4, <3>5, <3>6 DEF TypeOK
  <2>2. CASE lock[op[w].at] # NoOne
    <3>1. op' = [op EXCEPT ![w] = Advance(w, FALSE)]
      BY <1>4, <2>2 DEF Probe
    <3>2. op' \in [Worker -> Op] /\ Placed'
      BY <3>1, <1>c
    <3>3. retry' = [retry EXCEPT ![w][op[w].at] = "cooling"]
      BY <1>4, <2>2 DEF Probe
    <3>4. retry' \in [Worker -> [Stripe -> {"ok", "cooling", "due"}]]
      BY <1>0, <3>3 DEF TypeOK
    <3> QED
      BY <1>4, <2>2, <3>2, <3>4 DEF Probe, TypeOK
  <2> QED
    BY <2>1, <2>2
<1>5. ASSUME NEW w \in Worker, Acquire(w)
      PROVE  TypeOK' /\ Placed'
  <2>1. op' \in [Worker -> Op] /\ Placed'
    BY <1>5, <1>d DEF Acquire
  <2> QED
    BY <1>5, <2>1 DEF Acquire, TypeOK
<1>6. ASSUME NEW w \in Worker, Block(w)
      PROVE  TypeOK' /\ Placed'
  <2>1. op' \in [Worker -> Op] /\ Placed'
    BY <1>6, <1>d DEF Block
  <2> QED
    BY <1>6, <2>1 DEF Block, TypeOK
<1>7. ASSUME NEW w \in Worker, Timeout(w)
      PROVE  TypeOK' /\ Placed'
  <2>1. op' \in [Worker -> Op] /\ Placed'
    BY <1>7, <1>c DEF Timeout
  <2>2. retry' \in [Worker -> [Stripe -> {"ok", "cooling", "due"}]]
    BY <1>0, <1>7 DEF Timeout, TypeOK
  <2>3. stalls' \in [Worker -> [Stripe -> Nat]]
    BY <1>0, <1>7 DEF Timeout, TypeOK
  <2> QED
    BY <1>7, <2>1, <2>2, <2>3 DEF Timeout, TypeOK
<1>8. ASSUME NEW w \in Worker, GetBody(w)
      PROVE  TypeOK' /\ Placed'
  <2>1. op' \in [Worker -> Op] /\ Placed'
    BY <1>8, <1>c DEF GetBody
  <2>2. BucketOf(op[w].key) \in Bucket
    BY <1>8 DEF GetBody, Holds, Placed
  <2>3. got' \in [Worker -> Wire \cup {NoWire}]
    BY <1>8, <2>2 DEF GetBody, TypeOK
  <2> QED
    BY <1>8, <2>1, <2>3 DEF GetBody, Release, TypeOK
<1>9. ASSUME NEW w \in Worker, PutHeader(w)
      PROVE  TypeOK' /\ Placed'
  <2>1. op' \in [Worker -> Op] /\ Placed'
    BY <1>9, <1>d DEF PutHeader, Holds
  <2>2. [kh |-> op[w].key, fresh |-> TRUE, era |-> era] \in Header
    BY <1>0 DEF TypeOK, Header
  <2> QED
    BY <1>9, <2>1, <2>2 DEF PutHeader, TypeOK
<1>10. ASSUME NEW w \in Worker, PutBody(w)
       PROVE  TypeOK' /\ Placed'
  <2>1. op' \in [Worker -> Op] /\ Placed'
    BY <1>10, <1>c DEF PutBody
  <2>2. op[w].key \in Keys /\ hdr[BucketOf(op[w].key)] \in Header
    BY <1>10 DEF PutBody, Holds, Placed, TypeOK
  <2>3. [key |-> op[w].key, by |-> w, era |-> hdr[BucketOf(op[w].key)].era] \in Wire
    BY <2>2 DEF Header, Wire
  <2> QED
    BY <1>10, <2>1, <2>3 DEF PutBody, Release, TypeOK
<1>11. ASSUME NEW w \in Worker, DeleteBody(w)
       PROVE  TypeOK' /\ Placed'
  <2>1. op' \in [Worker -> Op] /\ Placed'
    BY <1>11, <1>c DEF DeleteBody
  <2>2. Blank \in Header
    BY DEF Blank, Header
  <2> QED
    BY <1>11, <2>1, <2>2 DEF DeleteBody, Release, TypeOK
<1>12. ASSUME NEW w \in Worker, ClearBody(w)
       PROVE  TypeOK' /\ Placed'
  <2>1. op' \in [Worker -> Op] /\ Placed'
    BY <1>12, <1>c DEF ClearBody
  <2>2. Blank \in Header
    BY DEF Blank, Header
  <2> QED
    BY <1>12, <2>1, <2>2 DEF ClearBody, Release, TypeOK
<1>13. ASSUME NEW w \in Worker, NEW s \in Stripe, RetryDue(w, s)
       PROVE  TypeOK' /\ Placed'
  BY <1>13, <1>e DEF RetryDue, TypeOK
<1>14. ASSUME NEW w \in Worker, Kill(w)
       PROVE  TypeOK' /\ Placed'
  BY <1>14, <1>e DEF Kill, TypeOK
<1>15. ASSUME NEW b \in Bucket, Expire(b)
       PROVE  TypeOK' /\ Placed'
  <2>1. [hdr[b] EXCEPT !.fresh = FALSE] \in Header
    <3>1. hdr[b] \in Header
      BY DEF TypeOK
    <3> QED BY <3>1 DEF Header
  <2>2. hdr' \in [Bucket -> Header]
    BY <1>15, <2>1 DEF Expire, TypeOK
  <2>3. op' \in [Worker -> Op] /\ Placed'
    BY <1>15, <1>e DEF Expire, TypeOK
  <2>4. UNCHANGED <<body, lock, retry, alive, got, era, stalls>>
    BY <1>15 DEF Expire
  <2> QED
    BY <2>2, <2>3, <2>4 DEF TypeOK
<1>16. CASE UNCHANGED vars
  BY <1>16, <1>e DEF vars, TypeOK
<1> QED
  BY <1>1, <1>2, <1>3, <1>4, <1>5, <1>6, <1>7, <1>8, <1>9, <1>10, <1>11, <1>12,
     <1>13, <1>14, <1>15, <1>16 DEF Next, Step

LEMMA InitTyped == Init => TypeOK /\ Placed
<1> SUFFICES ASSUME Init PROVE TypeOK /\ Placed
  OBVIOUS
<1>1. Blank \in Header /\ NoWire \in Wire \cup {NoWire}
  BY SharedCacheAssumption DEF Blank, Header
<1>2. TypeOK
  BY <1>1, IdleOp, SharedCacheAssumption DEF Init, TypeOK
<1>3. Placed
  BY DEF Init, Placed, Idle
<1> QED
  BY <1>2, <1>3

(* Every variable stays in its type through every operation of every       *)
(* worker, a kill at any point included.                                   *)
THEOREM TypeCorrect == Spec => [](TypeOK /\ Placed)
  BY InitTyped, TypeInductive, PTL DEF Spec

-----------------------------------------------------------------------------
(* Mutual exclusion.  Locks only change hands in three ways, and each of   *)
(* them moves exactly one worker into or out of a critical section.        *)

Inside(w) == op[w].step \in {"crit", "mid"}

Takes(w) ==
  /\ lock[op[w].at] = NoOne
  /\ ~ Inside(w)
  /\ lock' = [lock EXCEPT ![op[w].at] = w]
  /\ op' = [op EXCEPT ![w].step = "crit"]

Gives(w) ==
  /\ Inside(w)
  /\ lock' = [lock EXCEPT ![op[w].at] = NoOne]
  /\ op' = [op EXCEPT ![w] = Advance(w, TRUE)]

Keeps ==
  /\ lock' = lock
  /\ \A v \in Worker : Inside(v)' <=> Inside(v)
  /\ \A v \in Worker : Inside(v) => op'[v].at = op[v].at

LEMMA AdvanceOutside ==
  ASSUME op \in [Worker -> Op], NEW w \in Worker, NEW held \in BOOLEAN
  PROVE  Advance(w, held).step \in {"idle", "want"}
  BY DEF Advance, Op, Idle

LEMMA LockFootprint ==
  ASSUME TypeOK, [Next]_vars
  PROVE  \/ \E w \in Worker : Takes(w) \/ Gives(w)
         \/ Keeps
<1>0. op \in [Worker -> Op]
  BY DEF TypeOK
<1>a. ASSUME NEW w \in Worker, NEW held \in BOOLEAN, ~ Inside(w), lock' = lock,
             op' = [op EXCEPT ![w] = Advance(w, held)]
      PROVE  Keeps
  <2>1. op'[w] = Advance(w, held) /\ \A v \in Worker \ {w} : op'[v] = op[v]
    BY <1>0, <1>a
  <2>2. op'[w].step \in {"idle", "want"}
    BY <1>0, <2>1, AdvanceOutside
  <2> QED
    BY <1>a, <2>1, <2>2 DEF Keeps, Inside
<1>b. ASSUME NEW w \in Worker, NEW st \in Steps, lock' = lock,
             Inside(w) <=> st \in {"crit", "mid"},
             op' = [op EXCEPT ![w].step = st]
      PROVE  Keeps
  <2>1. /\ op'[w].step = st /\ op'[w].at = op[w].at
        /\ \A v \in Worker \ {w} : op'[v] = op[v]
    BY <1>0, <1>b DEF Op
  <2> QED
    BY <1>b, <2>1 DEF Keeps, Inside
<1>c. ASSUME NEW w \in Worker, NEW o, o.step = "want", ~ Inside(w), lock' = lock,
             op' = [op EXCEPT ![w] = o]
      PROVE  Keeps
  BY <1>0, <1>c DEF Keeps, Inside
<1>d. lock' = lock /\ op' = op => Keeps
  BY DEF Keeps, Inside
<1>1. ASSUME NEW w \in Worker, NEW kind \in {"get", "put", "delete"}, NEW k \in Keys,
             Call(w, kind, k)
      PROVE  Keeps
  BY <1>1, <1>c DEF Call, Inside, Idle
<1>2. ASSUME NEW w \in Worker, CallClear(w)
      PROVE  Keeps
  BY <1>2, <1>c DEF CallClear, Inside, Idle
<1>3. ASSUME NEW w \in Worker, SkipWrittenOff(w)
      PROVE  Keeps
  BY <1>3, <1>a DEF SkipWrittenOff, Inside
<1>4. ASSUME NEW w \in Worker, Probe(w)
      PROVE  Takes(w) \/ Keeps
  <2>1. CASE lock[op[w].at] = NoOne
    BY <1>4, <2>1 DEF Probe, Takes, Inside
  <2>2. CASE lock[op[w].at] # NoOne
    BY <1>4, <2>2, <1>a DEF Probe, Inside
  <2> QED
    BY <2>1, <2>2
<1>5. ASSUME NEW w \in Worker, Acquire(w)
      PROVE  Takes(w)
  BY <1>5 DEF Acquire, Takes, Inside
<1>6. ASSUME NEW w \in Worker, Block(w)
      PROVE  Keeps
  BY <1>6, <1>b DEF Block, Inside, Steps
<1>7. ASSUME NEW w \in Worker, Timeout(w)
      PROVE  Keeps
  BY <1>7, <1>a DEF Timeout, Inside
<1>8. ASSUME NEW w \in Worker, PutHeader(w)
      PROVE  Keeps
  BY <1>8, <1>b DEF PutHeader, Holds, Inside, Steps
<1>9. ASSUME NEW w \in Worker,
             GetBody(w) \/ PutBody(w) \/ DeleteBody(w) \/ ClearBody(w)
      PROVE  Gives(w)
  BY <1>9 DEF GetBody, PutBody, DeleteBody, ClearBody, Holds, Release, Gives, Inside
<1>10. ASSUME \/ \E w \in Worker : Kill(w) \/ \E s \in Stripe : RetryDue(w, s)
              \/ \E b \in Bucket : Expire(b)
              \/ UNCHANGED vars
       PROVE  Keeps
  BY <1>10, <1>d DEF Kill, RetryDue, Expire, vars
<1> QED
  BY <1>1, <1>2, <1>3, <1>4, <1>5, <1>6, <1>7, <1>8, <1>9, <1>10 DEF Next, Step

LEMMA ExclusionInductive ==
  ASSUME TypeOK, HoldsIffCritical, [Next]_vars
  PROVE  HoldsIffCritical'
<1> USE SharedCacheAssumption
<1>0. /\ op \in [Worker -> Op]
      /\ lock \in [Stripe -> Worker \cup {NoOne}]
      /\ \A w \in Worker : op[w].at \in Stripe
  BY DEF TypeOK, Op
<1>1. ASSUME NEW w \in Worker, Takes(w)
      PROVE  HoldsIffCritical'
  <2>1. /\ op'[w].step = "crit" /\ op'[w].at = op[w].at
        /\ \A v \in Worker \ {w} : op'[v] = op[v]
    BY <1>0, <1>1 DEF Takes, Op
  <2>2. lock'[op[w].at] = w /\ \A s \in Stripe \ {op[w].at} : lock'[s] = lock[s]
    BY <1>0, <1>1 DEF Takes
  <2>3. \A v \in Worker : lock[op[w].at] # v
    BY <1>1 DEF Takes
  <2> QED
    BY <1>0, <1>1, <2>1, <2>2, <2>3 DEF HoldsIffCritical, Takes, Inside
<1>2. ASSUME NEW w \in Worker, Gives(w)
      PROVE  HoldsIffCritical'
  <2>1. op'[w] = Advance(w, TRUE) /\ \A v \in Worker \ {w} : op'[v] = op[v]
    BY <1>0, <1>2 DEF Gives
  <2>2. op'[w].step \in {"idle", "want"}
    BY <1>0, <2>1, AdvanceOutside
  <2>3. lock'[op[w].at] = NoOne /\ \A s \in Stripe \ {op[w].at} : lock'[s] = lock[s]
    BY <1>0, <1>2 DEF Gives
  <2>4. lock[op[w].at] = w
    BY <1>0, <1>2 DEF HoldsIffCritical, Gives, Inside
  <2>5. ASSUME NEW s \in Stripe
        PROVE  lock'[s] = w <=> op'[w].step \in {"crit", "mid"} /\ op'[w].at = s
    BY <1>0, <2>2, <2>3, <2>4 DEF HoldsIffCritical
  <2>6. ASSUME NEW v \in Worker \ {w}, NEW s \in Stripe
        PROVE  lock'[s] = v <=> op'[v].step \in {"crit", "mid"} /\ op'[v].at = s
    BY <1>0, <2>1, <2>3, <2>4 DEF HoldsIffCritical
  <2> QED
    BY <2>5, <2>6 DEF HoldsIffCritical
<1>3. CASE Keeps
  BY <1>3 DEF Keeps, HoldsIffCritical, Inside
<1> QED
  BY <1>1, <1>2, <1>3, LockFootprint

(* At most one worker is ever between acquire and release on a stripe, and *)
(* it is the one the lock names: BoundedLocks.hold, with its timeouts,     *)
(* write-offs and probes, and with workers killed while holding.           *)
THEOREM Exclusion == Spec => []HoldsIffCritical
<1>1. Init => HoldsIffCritical
  BY SharedCacheAssumption DEF Init, HoldsIffCritical, Idle
<1> QED
  BY <1>1, TypeCorrect, ExclusionInductive, PTL DEF Spec

-----------------------------------------------------------------------------
(* A dead holder is waited for once.  A worker that has sat out a full     *)
(* LOCK_TIMEOUT on a dead holder never trusts that lock again, because the *)
(* lock stays with the dead; and only a trusted lock is waited for.        *)

WaitTrusts == \A w \in Worker : op[w].step = "wait" => retry[w][op[w].at] = "ok"

StallExplained ==
  \A w \in Worker, s \in Stripe :
    stalls[w][s] # 0 => /\ stalls[w][s] = 1
                        /\ lock[s] \in Worker \ alive
                        /\ retry[w][s] # "ok"

LEMMA WaitTrustsInductive ==
  ASSUME TypeOK, WaitTrusts, [Next]_vars
  PROVE  WaitTrusts'
<1>0. /\ op \in [Worker -> Op]
      /\ retry \in [Worker -> [Stripe -> {"ok", "cooling", "due"}]]
      /\ \A w \in Worker : op[w].at \in Stripe
  BY DEF TypeOK, Op
<1>a. ASSUME NEW w \in Worker, NEW held \in BOOLEAN,
             op' = [op EXCEPT ![w] = Advance(w, held)],
             \A v \in Worker \ {w} : retry'[v] = retry[v]
      PROVE  WaitTrusts'
  <2>1. op'[w].step \in {"idle", "want"} /\ \A v \in Worker \ {w} : op'[v] = op[v]
    BY <1>0, <1>a, AdvanceOutside
  <2> QED
    BY <1>a, <2>1 DEF WaitTrusts
<1>b. ASSUME NEW w \in Worker, NEW st \in {"crit", "mid"},
             op' = [op EXCEPT ![w].step = st],
             \A v \in Worker \ {w} : retry'[v] = retry[v]
      PROVE  WaitTrusts'
  <2>1. op'[w].step = st /\ \A v \in Worker \ {w} : op'[v] = op[v]
    BY <1>0, <1>b DEF Op
  <2> QED
    BY <1>b, <2>1 DEF WaitTrusts
<1>c. ASSUME NEW w \in Worker, NEW o, o.step = "want", retry' = retry,
             op' = [op EXCEPT ![w] = o]
      PROVE  WaitTrusts'
  BY <1>0, <1>c DEF WaitTrusts
<1>1. ASSUME NEW w \in Worker, NEW kind \in {"get", "put", "delete"}, NEW k \in Keys,
             Call(w, kind, k)
      PROVE  WaitTrusts'
  BY <1>1, <1>c DEF Call, Idle
<1>2. ASSUME NEW w \in Worker, CallClear(w)
      PROVE  WaitTrusts'
  BY <1>2, <1>c DEF CallClear, Idle
<1>3. ASSUME NEW w \in Worker, SkipWrittenOff(w)
      PROVE  WaitTrusts'
  BY <1>3, <1>a DEF SkipWrittenOff
<1>4. ASSUME NEW w \in Worker, Probe(w)
      PROVE  WaitTrusts'
  <2>1. \A v \in Worker \ {w} : retry'[v] = retry[v]
    BY <1>0, <1>4 DEF Probe
  <2>2. CASE lock[op[w].at] = NoOne
    BY <1>4, <2>1, <2>2, <1>b DEF Probe
  <2>3. CASE lock[op[w].at] # NoOne
    BY <1>4, <2>1, <2>3, <1>a DEF Probe
  <2> QED
    BY <2>2, <2>3
<1>5. ASSUME NEW w \in Worker, Acquire(w)
      PROVE  WaitTrusts'
  BY <1>5, <1>b DEF Acquire
<1>6. ASSUME NEW w \in Worker, Block(w)
      PROVE  WaitTrusts'
  <2>1. op'[w].at = op[w].at /\ \A v \in Worker \ {w} : op'[v] = op[v]
    BY <1>0, <1>6 DEF Block, Op
  <2> QED
    BY <1>0, <1>6, <2>1 DEF Block, WaitTrusts
<1>7. ASSUME NEW w \in Worker, Timeout(w)
      PROVE  WaitTrusts'
  <2>1. \A v \in Worker \ {w} : retry'[v] = retry[v]
    BY <1>0, <1>7 DEF Timeout
  <2> QED
    BY <1>7, <2>1, <1>a DEF Timeout
<1>8. ASSUME NEW w \in Worker, PutHeader(w)
      PROVE  WaitTrusts'
  BY <1>8, <1>b DEF PutHeader
<1>9. ASSUME NEW w \in Worker,
             GetBody(w) \/ PutBody(w) \/ DeleteBody(w) \/ ClearBody(w)
      PROVE  WaitTrusts'
  BY <1>9, <1>a DEF GetBody, PutBody, DeleteBody, ClearBody
<1>10. ASSUME NEW w \in Worker, NEW s \in Stripe, RetryDue(w, s)
       PROVE  WaitTrusts'
  <2>1. retry' = [retry EXCEPT ![w][s] = "due"] /\ retry[w][s] = "cooling" /\ op' = op
    BY <1>10 DEF RetryDue
  <2>2. \A v \in Worker, t \in Stripe : retry[v][t] = "ok" => retry'[v][t] = "ok"
    BY <1>0, <2>1
  <2> QED
    BY <1>0, <2>1, <2>2 DEF WaitTrusts
<1>11. ASSUME op' = op, retry' = retry
       PROVE  WaitTrusts'
  BY <1>11 DEF WaitTrusts
<1>12. ASSUME NEW w \in Worker, Kill(w)
       PROVE  WaitTrusts'
  BY <1>11, <1>12 DEF Kill
<1>13. ASSUME NEW b \in Bucket, Expire(b)
       PROVE  WaitTrusts'
  BY <1>11, <1>13 DEF Expire
<1>14. CASE UNCHANGED vars
  BY <1>11, <1>14 DEF vars
<1> QED
  BY <1>1, <1>2, <1>3, <1>4, <1>5, <1>6, <1>7, <1>8, <1>9, <1>10, <1>12, <1>13, <1>14
     DEF Next, Step

(* A lock with a dead holder keeps it: only its holder gives a lock back.  *)
LEMMA DeadKeepTheirLocks ==
  ASSUME TypeOK, HoldsIffCritical, [Next]_vars, NEW s \in Stripe,
         lock[s] \in Worker \ alive
  PROVE  lock'[s] = lock[s] /\ lock'[s] \in Worker \ alive'
<1> USE SharedCacheAssumption
<1>0. /\ op \in [Worker -> Op]
      /\ lock \in [Stripe -> Worker \cup {NoOne}]
      /\ \A w \in Worker : op[w].at \in Stripe
  BY DEF TypeOK, Op
<1>1. ASSUME NEW w \in alive, NEW v \in Worker \cup {NoOne},
             lock' = [lock EXCEPT ![op[w].at] = v], alive' = alive,
             lock[op[w].at] \in {w, NoOne}
      PROVE  lock'[s] = lock[s] /\ lock'[s] \in Worker \ alive'
  BY <1>0, <1>1
<1>2. ASSUME lock' = lock, alive' \subseteq alive
      PROVE  lock'[s] = lock[s] /\ lock'[s] \in Worker \ alive'
  BY <1>2
<1>3. ASSUME NEW w \in Worker,
             GetBody(w) \/ PutBody(w) \/ DeleteBody(w) \/ ClearBody(w)
      PROVE  lock'[s] = lock[s] /\ lock'[s] \in Worker \ alive'
  <2>1. /\ w \in alive /\ Inside(w) /\ alive' = alive
        /\ lock' = [lock EXCEPT ![op[w].at] = NoOne]
    BY <1>3 DEF GetBody, PutBody, DeleteBody, ClearBody, Holds, Release, Inside
  <2>2. lock[op[w].at] = w
    BY <1>0, <2>1 DEF HoldsIffCritical, Inside
  <2> QED
    BY <2>1, <2>2, <1>1
<1>4. ASSUME NEW w \in Worker, Probe(w) \/ Acquire(w)
      PROVE  lock'[s] = lock[s] /\ lock'[s] \in Worker \ alive'
  <2>1. CASE lock[op[w].at] = NoOne
    <3>1. w \in alive /\ alive' = alive /\ lock' = [lock EXCEPT ![op[w].at] = w]
      BY <1>4, <2>1 DEF Probe, Acquire
    <3> QED
      BY <2>1, <3>1, <1>1
  <2>2. CASE lock[op[w].at] # NoOne
    BY <1>2, <1>4, <2>2 DEF Probe, Acquire
  <2> QED
    BY <2>1, <2>2
<1>5. ASSUME NEW w \in Worker,
             \/ SkipWrittenOff(w) \/ Block(w) \/ Timeout(w) \/ PutHeader(w)
             \/ CallClear(w) \/ Kill(w) \/ \E r \in Stripe : RetryDue(w, r)
             \/ \E kind \in {"get", "put", "delete"}, k \in Keys : Call(w, kind, k)
      PROVE  lock' = lock /\ alive' \subseteq alive
  BY <1>5 DEF SkipWrittenOff, Block, Timeout, PutHeader, CallClear, Kill, RetryDue, Call
<1>6. ASSUME \/ \E b \in Bucket : Expire(b)
             \/ UNCHANGED vars
      PROVE  lock' = lock /\ alive' \subseteq alive
  BY <1>6 DEF Expire, vars
<1> QED
  BY <1>2, <1>3, <1>4, <1>5, <1>6 DEF Next, Step

(* What a step does to a worker's opinion of a lock, and to its count of   *)
(* full waits.                                                             *)
LEMMA StallFootprint ==
  ASSUME TypeOK, WaitTrusts, [Next]_vars, NEW w \in Worker, NEW s \in Stripe
  PROVE  \/ /\ stalls'[w][s] = stalls[w][s]
            /\ retry'[w][s] = "ok" => retry[w][s] = "ok" \/ lock[s] = NoOne
         \/ /\ stalls'[w][s] = stalls[w][s] + 1
            /\ retry[w][s] = "ok" /\ retry'[w][s] # "ok"
            /\ lock'[s] = lock[s] /\ lock[s] \in Worker \ alive /\ alive' = alive
<1> USE SharedCacheAssumption
<1>0. /\ lock \in [Stripe -> Worker \cup {NoOne}]
      /\ retry \in [Worker -> [Stripe -> {"ok", "cooling", "due"}]]
      /\ stalls \in [Worker -> [Stripe -> Nat]]
      /\ \A v \in Worker : op[v].at \in Stripe
  BY DEF TypeOK, Op
<1> DEFINE Same == /\ stalls'[w][s] = stalls[w][s]
                   /\ retry'[w][s] = "ok" => retry[w][s] = "ok" \/ lock[s] = NoOne
<1>1. ASSUME NEW v \in Worker, Timeout(v), v # w \/ op[v].at # s
      PROVE  Same
  BY <1>0, <1>1 DEF Timeout
<1>2. ASSUME Timeout(w), op[w].at = s
      PROVE  \/ Same
             \/ /\ stalls'[w][s] = stalls[w][s] + 1
                /\ retry[w][s] = "ok" /\ retry'[w][s] # "ok"
                /\ lock'[s] = lock[s] /\ lock[s] \in Worker \ alive /\ alive' = alive
  <2>1. /\ retry[w][s] = "ok" /\ lock' = lock /\ alive' = alive /\ lock[s] # NoOne
        /\ retry' = [retry EXCEPT ![w][s] = "cooling"]
        /\ stalls' = [stalls EXCEPT ![w][s] = IF lock[s] \in alive THEN @ ELSE @ + 1]
    BY <1>2 DEF Timeout, WaitTrusts
  <2>2. /\ retry'[w][s] = "cooling"
        /\ stalls'[w][s] = IF lock[s] \in alive THEN stalls[w][s] ELSE stalls[w][s] + 1
    BY <1>0, <2>1
  <2> QED
    BY <1>0, <2>1, <2>2
<1>3. ASSUME NEW v \in Worker, Probe(v)
      PROVE  Same
  <2>1. CASE lock[op[v].at] = NoOne
    <3>1. retry' = [retry EXCEPT ![v][op[v].at] = "ok"] /\ stalls' = stalls
      BY <1>3, <2>1 DEF Probe
    <3>2. retry'[w][s] = IF w = v /\ s = op[v].at THEN "ok" ELSE retry[w][s]
      BY <1>0, <3>1
    <3> QED
      BY <2>1, <3>1, <3>2
  <2>2. CASE lock[op[v].at] # NoOne
    <3>1. retry' = [retry EXCEPT ![v][op[v].at] = "cooling"] /\ stalls' = stalls
      BY <1>3, <2>2 DEF Probe
    <3>2. retry'[w][s] = IF w = v /\ s = op[v].at THEN "cooling" ELSE retry[w][s]
      BY <1>0, <3>1
    <3> QED
      BY <3>1, <3>2
  <2> QED
    BY <2>1, <2>2
<1>4. ASSUME NEW v \in Worker, NEW r \in Stripe, RetryDue(v, r)
      PROVE  Same
  <2>1. retry' = [retry EXCEPT ![v][r] = "due"] /\ stalls' = stalls
    BY <1>4 DEF RetryDue
  <2>2. retry'[w][s] = IF w = v /\ s = r THEN "due" ELSE retry[w][s]
    BY <1>0, <2>1
  <2> QED
    BY <2>1, <2>2
<1>5. ASSUME NEW v \in Worker,
             \/ SkipWrittenOff(v) \/ Acquire(v) \/ Block(v) \/ PutHeader(v)
             \/ GetBody(v) \/ PutBody(v) \/ DeleteBody(v) \/ ClearBody(v)
             \/ CallClear(v) \/ Kill(v)
             \/ \E kind \in {"get", "put", "delete"}, k \in Keys : Call(v, kind, k)
      PROVE  retry' = retry /\ stalls' = stalls
  BY <1>5 DEF SkipWrittenOff, Acquire, Block, PutHeader, GetBody, PutBody, DeleteBody,
              ClearBody, CallClear, Kill, Call
<1>6. ASSUME \/ \E b \in Bucket : Expire(b)
             \/ UNCHANGED vars
      PROVE  retry' = retry /\ stalls' = stalls
  BY <1>6 DEF Expire, vars
<1> QED
  BY <1>1, <1>2, <1>3, <1>4, <1>5, <1>6 DEF Next, Step

LEMMA StallInductive ==
  ASSUME TypeOK, TypeOK', HoldsIffCritical, WaitTrusts, StallExplained, [Next]_vars
  PROVE  StallExplained'
<1> SUFFICES ASSUME NEW w \in Worker, NEW s \in Stripe, stalls'[w][s] # 0
             PROVE  /\ stalls'[w][s] = 1
                    /\ lock'[s] \in Worker \ alive'
                    /\ retry'[w][s] # "ok"
  BY DEF StallExplained
<1>0. stalls[w][s] \in Nat
  BY DEF TypeOK
<1>1. CASE stalls[w][s] = 0
  BY <1>0, <1>1, StallFootprint
<1>2. CASE stalls[w][s] # 0
  <2>1. stalls[w][s] = 1 /\ lock[s] \in Worker \ alive /\ retry[w][s] # "ok"
    BY <1>2 DEF StallExplained
  <2>2. lock'[s] \in Worker \ alive' /\ lock[s] # NoOne
    BY <2>1, DeadKeepTheirLocks, SharedCacheAssumption
  <2> QED
    BY <2>1, <2>2, StallFootprint
<1> QED
  BY <1>1, <1>2

(* A holder that was killed costs every other worker one LOCK_TIMEOUT per  *)
(* stripe at most, over any number of calls: afterwards BoundedLocks.hold  *)
(* only probes that lock.                                                  *)
THEOREM StallOnce == Spec => []OneStallPerDeadLock
<1>1. Init => WaitTrusts /\ StallExplained
  BY DEF Init, WaitTrusts, StallExplained, Idle
<1>2. TypeOK /\ StallExplained => OneStallPerDeadLock
  BY DEF TypeOK, StallExplained, OneStallPerDeadLock
<1> QED
  BY <1>1, <1>2, TypeCorrect, Exclusion, WaitTrustsInductive, StallInductive, PTL DEF Spec

-----------------------------------------------------------------------------
(* clear().  The strided range range(i, slots, _STRIPES) visits exactly    *)
(* the buckets the lock of stripe i guards.                                *)

LEMMA DivMod ==
  ASSUME NEW S \in Nat \ {0}, NEW b \in Nat
  PROVE  b = S * (b \div S) + (b % S) /\ b \div S \in Nat /\ b % S \in 0 .. S - 1
  OBVIOUS

LEMMA ModOfSum ==
  ASSUME NEW S \in Nat \ {0}, NEW q \in Nat, NEW r \in 0 .. S - 1
  PROVE  (S * q + r) % S = r
  OBVIOUS

LEMMA StrideHits ==
  ASSUME NEW S \in Nat \ {0}, NEW b \in Nat
  PROVE  b >= b % S /\ (b - (b % S)) % S = 0
<1> DEFINE r == b % S
<1>1. PICK q \in Nat : b = S * q + r /\ r \in 0 .. S - 1
  BY DivMod
<1>2. (S * q + 0) % S = 0
  BY ModOfSum
<1>3. S * q \in Nat
  OBVIOUS
<1> HIDE DEF r
<1>4. b - r = S * q + 0 /\ b >= r
  BY <1>1, <1>3
<1>5. (b - r) % S = 0
  BY <1>2, <1>4
<1> QED
  BY <1>4, <1>5 DEF r

LEMMA StrideMisses ==
  ASSUME NEW S \in Nat \ {0}, NEW b \in Nat, NEW i \in 0 .. S - 1,
         b >= i, (b - i) % S = 0
  PROVE  b % S = i
<1> DEFINE c == b - i
           m == S * (c \div S)
<1>1. c = m + 0 /\ c \div S \in Nat /\ m \in Nat
  BY DivMod
<1>2. (m + i) % S = i
  BY <1>1, ModOfSum
<1> HIDE DEF m
<1>3. b = m + i
  BY <1>1
<1> QED
  BY <1>2, <1>3

LEMMA VisitedIsStripe ==
  ASSUME NEW i \in Stripe, NEW b \in Bucket
  PROVE  b \in Visited(i) <=> StripeOf(b) = i
<1>1. b \in Nat /\ Stripes \in Nat \ {0} /\ i \in 0 .. Stripes - 1
  BY SharedCacheAssumption DEF Bucket, Stripe
<1>2. StripeOf(b) = i => b \in Visited(i)
  BY <1>1, StrideHits DEF StripeOf, Visited
<1>3. b \in Visited(i) => StripeOf(b) = i
  BY <1>1, StrideMisses DEF StripeOf, Visited
<1> QED
  BY <1>2, <1>3

(* What a step may do to a slot: blank it, age it, or write it for the     *)
(* era the step runs in.                                                   *)
LEMMA SlotFootprint ==
  ASSUME TypeOK, Placed, [Next]_vars, NEW b \in Bucket
  PROVE  /\ \/ hdr'[b] = Blank
            \/ hdr[b] # Blank /\ hdr'[b].era = hdr[b].era
            \/ hdr'[b].era = era
         /\ era' >= era /\ era \in Nat
<1> USE SharedCacheAssumption, SlotInRange
<1> DEFINE Goal == /\ \/ hdr'[b] = Blank
                      \/ hdr[b] # Blank /\ hdr'[b].era = hdr[b].era
                      \/ hdr'[b].era = era
                   /\ era' >= era /\ era \in Nat
<1>0. /\ hdr \in [Bucket -> Header] /\ era \in Nat
      /\ \A v \in Worker : op[v].step # "idle" /\ op[v].kind \in {"put", "delete"}
                           => BucketOf(op[v].key) \in Bucket
  <2>1. hdr \in [Bucket -> Header] /\ era \in Nat
    BY DEF TypeOK
  <2>2. ASSUME NEW v \in Worker, op[v].step # "idle", op[v].kind \in {"put", "delete"}
        PROVE  BucketOf(op[v].key) \in Bucket
    BY <2>2 DEF Placed
  <2> QED
    BY <2>1, <2>2
<1>1. ASSUME hdr' = hdr, era' >= era
      PROVE  Goal
  BY <1>0, <1>1
<1>2. ASSUME NEW w \in Worker, PutHeader(w)
      PROVE  Goal
  <2>1. /\ hdr' = [hdr EXCEPT ![BucketOf(op[w].key)] =
                     [kh |-> op[w].key, fresh |-> TRUE, era |-> era]]
        /\ era' = era
    BY <1>2 DEF PutHeader
  <2>2. CASE b = BucketOf(op[w].key)
    BY <1>0, <2>1, <2>2
  <2>3. CASE b # BucketOf(op[w].key)
    BY <1>0, <2>1, <2>3
  <2> QED
    BY <2>2, <2>3
<1>3. ASSUME NEW w \in Worker, DeleteBody(w)
      PROVE  Goal
  BY <1>0, <1>3 DEF DeleteBody
<1>4. ASSUME NEW w \in Worker, ClearBody(w)
      PROVE  Goal
  BY <1>0, <1>4 DEF ClearBody
<1>5. ASSUME NEW c \in Bucket, Expire(c)
      PROVE  Goal
  <2>1. hdr[c].fresh /\ hdr' = [hdr EXCEPT ![c].fresh = FALSE] /\ era' = era
    BY <1>5 DEF Expire
  <2>2. hdr[c] # Blank
    BY <2>1 DEF Blank
  <2>3. hdr'[b].era = hdr[b].era /\ (b # c => hdr'[b] = hdr[b])
    BY <1>0, <2>1 DEF Header
  <2> QED
    BY <1>0, <2>1, <2>2, <2>3
<1>6. ASSUME NEW w \in Worker,
             \/ SkipWrittenOff(w) \/ Probe(w) \/ Acquire(w) \/ Block(w) \/ Timeout(w)
             \/ GetBody(w) \/ PutBody(w) \/ Kill(w)
             \/ \E r \in Stripe : RetryDue(w, r)
             \/ \E kind \in {"get", "put", "delete"}, k \in Keys : Call(w, kind, k)
      PROVE  hdr' = hdr /\ era' = era
  BY <1>6 DEF SkipWrittenOff, Probe, Acquire, Block, Timeout, GetBody, PutBody,
              Kill, RetryDue, Call
<1>7. ASSUME NEW w \in Worker, CallClear(w)
      PROVE  hdr' = hdr /\ era' = era + 1
  BY <1>7 DEF CallClear
<1>8. CASE UNCHANGED vars
  BY <1>0, <1>1, <1>8 DEF vars
<1>9. ASSUME era' = era \/ era' = era + 1
      PROVE  era' >= era
  BY <1>0, <1>9
<1> QED
  BY <1>1, <1>2, <1>3, <1>4, <1>5, <1>6, <1>7, <1>8, <1>9 DEF Next, Step

LEMMA AdvanceClear ==
  ASSUME op \in [Worker -> Op], NEW w \in Worker, NEW held \in BOOLEAN,
         Advance(w, held).kind = "clear"
  PROVE  /\ op[w].kind = "clear"
         /\ Advance(w, held).mine = op[w].mine
         /\ Advance(w, held).at = op[w].at + 1
         /\ Advance(w, held).skipped =
              IF held THEN op[w].skipped ELSE op[w].skipped \cup {op[w].at}
  BY DEF Advance, Op, Idle

(* How a clear moves: it starts at stripe 0 with an era of its own, and    *)
(* passes a stripe only by skipping it or by blanking all of it.           *)
LEMMA ClearFootprint ==
  ASSUME TypeOK, [Next]_vars, NEW w \in Worker, op'[w].kind = "clear"
  PROVE  \/ op'[w].at = 0 /\ op'[w].mine = era'
         \/ /\ op[w].kind = "clear" /\ op'[w].mine = op[w].mine
            /\ \/ op'[w].at = op[w].at /\ op'[w].skipped = op[w].skipped
               \/ /\ op'[w].at = op[w].at + 1
                  /\ op'[w].skipped = op[w].skipped \cup {op[w].at}
               \/ /\ op'[w].at = op[w].at + 1
                  /\ op'[w].skipped = op[w].skipped
                  /\ \A b \in Bucket : StripeOf(b) = op[w].at => hdr'[b] = Blank
<1> USE SharedCacheAssumption
<1>0. op \in [Worker -> Op] /\ \A v \in Worker : op[v].at \in Stripe
  BY DEF TypeOK, Op
<1> DEFINE Same == /\ op[w].kind = "clear" /\ op'[w].mine = op[w].mine
                   /\ op'[w].at = op[w].at /\ op'[w].skipped = op[w].skipped
           Skip == /\ op[w].kind = "clear" /\ op'[w].mine = op[w].mine
                   /\ op'[w].at = op[w].at + 1
                   /\ op'[w].skipped = op[w].skipped \cup {op[w].at}
           Wipe == /\ op[w].kind = "clear" /\ op'[w].mine = op[w].mine
                   /\ op'[w].at = op[w].at + 1
                   /\ op'[w].skipped = op[w].skipped
                   /\ \A b \in Bucket : StripeOf(b) = op[w].at => hdr'[b] = Blank
<1>a. ASSUME NEW v \in Worker, op' = [op EXCEPT ![v] = Advance(v, FALSE)]
      PROVE  Same \/ Skip
  BY <1>0, <1>a, AdvanceClear
<1>b. ASSUME NEW v \in Worker, op' = [op EXCEPT ![v] = Advance(v, TRUE)],
             op[v].kind = "clear" =>
               \A b \in Bucket : StripeOf(b) = op[v].at => hdr'[b] = Blank
      PROVE  Same \/ Wipe
  BY <1>0, <1>b, AdvanceClear
<1>c. ASSUME NEW v \in Worker, NEW st, op' = [op EXCEPT ![v].step = st]
      PROVE  Same
  BY <1>0, <1>c DEF Op
<1>d. ASSUME op' = op
      PROVE  Same
  BY <1>d
<1>1. ASSUME NEW v \in Worker, NEW kind \in {"get", "put", "delete"}, NEW k \in Keys,
             Call(v, kind, k)
      PROVE  Same
  <2> DEFINE o == [Idle EXCEPT !.kind = kind, !.key = k, !.step = "want",
                               !.at = StripeOf(BucketOf(k))]
  <2>1. o.kind # "clear"
    BY DEF Idle
  <2> HIDE DEF o
  <2>2. op' = [op EXCEPT ![v] = o]
    BY <1>1 DEF Call, o
  <2> QED
    BY <1>0, <2>1, <2>2
<1>2. ASSUME NEW v \in Worker, CallClear(v)
      PROVE  Same \/ (op'[w].at = 0 /\ op'[w].mine = era')
  <2> DEFINE o == [Idle EXCEPT !.kind = "clear", !.step = "want", !.mine = era + 1]
  <2>1. o.at = 0 /\ o.mine = era + 1
    BY DEF Idle
  <2> HIDE DEF o
  <2>2. op' = [op EXCEPT ![v] = o] /\ era' = era + 1
    BY <1>2 DEF CallClear, o
  <2> QED
    BY <1>0, <2>1, <2>2
<1>3. ASSUME NEW v \in Worker, SkipWrittenOff(v) \/ Timeout(v)
      PROVE  Same \/ Skip
  BY <1>3, <1>a DEF SkipWrittenOff, Timeout
<1>4. ASSUME NEW v \in Worker, Probe(v)
      PROVE  Same \/ Skip
  BY <1>4, <1>a, <1>c DEF Probe
<1>5. ASSUME NEW v \in Worker, Acquire(v) \/ Block(v) \/ PutHeader(v)
      PROVE  Same
  BY <1>5, <1>c DEF Acquire, Block, PutHeader
<1>6. ASSUME NEW v \in Worker, GetBody(v) \/ PutBody(v) \/ DeleteBody(v)
      PROVE  Same \/ Wipe
  BY <1>6, <1>b DEF GetBody, PutBody, DeleteBody, Holds
<1>7. ASSUME NEW v \in Worker, ClearBody(v)
      PROVE  Same \/ Wipe
  <2>1. ASSUME NEW b \in Bucket, StripeOf(b) = op[v].at
        PROVE  hdr'[b] = Blank
    BY <1>0, <1>7, <2>1, VisitedIsStripe DEF ClearBody
  <2> QED
    BY <1>7, <2>1, <1>b DEF ClearBody
<1>8. ASSUME \/ \E v \in Worker : Kill(v) \/ \E r \in Stripe : RetryDue(v, r)
             \/ \E b \in Bucket : Expire(b)
             \/ UNCHANGED vars
      PROVE  Same
  BY <1>8, <1>d DEF Kill, RetryDue, Expire, vars
<1> QED
  BY <1>1, <1>2, <1>3, <1>4, <1>5, <1>6, <1>7, <1>8 DEF Next, Step

(* A clear's own era has begun.                                            *)
ErasBegun == \A w \in Worker : op[w].kind = "clear" => op[w].mine <= era

LEMMA ClearedInductive ==
  ASSUME TypeOK, TypeOK', Placed, ErasBegun, ClearedIsCleared, [Next]_vars
  PROVE  ErasBegun' /\ ClearedIsCleared'
<1> USE SharedCacheAssumption
<1>0. ASSUME NEW w \in Worker
      PROVE  op[w].mine \in Nat /\ op'[w].mine \in Nat /\ op[w].at \in Nat
             /\ era \in Nat /\ era' \in Nat /\ op[w].at \in Stripe
  BY DEF TypeOK, Op, Stripe
<1>1. ErasBegun'
  <2>1. era' >= era
    BY SlotFootprint, SlotInRange DEF Bucket
  <2> SUFFICES ASSUME NEW w \in Worker, op'[w].kind = "clear"
               PROVE  op'[w].mine <= era'
    BY DEF ErasBegun
  <2> QED
    BY <1>0, <2>1, ClearFootprint DEF ErasBegun
<1>2. ClearedIsCleared'
  <2> SUFFICES ASSUME NEW w \in Worker, NEW b \in Bucket,
                      op'[w].kind = "clear", StripeOf(b) < op'[w].at,
                      StripeOf(b) \notin op'[w].skipped, hdr'[b] # Blank
               PROVE  hdr'[b].era >= op'[w].mine
    BY DEF ClearedIsCleared
  <2>0. StripeOf(b) \in Nat /\ hdr[b].era \in Nat
    BY SlotInRange DEF Stripe, TypeOK, Header
  <2>1. /\ op[w].kind = "clear" /\ op'[w].mine = op[w].mine
        /\ StripeOf(b) < op[w].at /\ StripeOf(b) \notin op[w].skipped
    BY <1>0, <2>0, ClearFootprint
  <2>2. CASE hdr[b] # Blank /\ hdr'[b].era = hdr[b].era
    BY <2>1, <2>2 DEF ClearedIsCleared
  <2>3. CASE hdr'[b].era = era
    BY <1>0, <2>1, <2>3 DEF ErasBegun
  <2> QED
    BY <2>2, <2>3, SlotFootprint
<1> QED
  BY <1>1, <1>2

(* Whatever other workers put while a clear runs, no slot of a stripe the  *)
(* clear took and has passed holds an answer from before it began.         *)
THEOREM ClearSweeps == Spec => []ClearedIsCleared
<1>1. Init => ErasBegun /\ ClearedIsCleared
  BY DEF Init, ErasBegun, ClearedIsCleared, Idle
<1> QED
  BY <1>1, TypeCorrect, ClearedInductive, PTL DEF Spec

-----------------------------------------------------------------------------
(* Reads never tear.  Between the two writes of a put the slot disagrees   *)
(* with itself, but then some worker, alive or dead, is still inside that  *)
(* put and holds the slot's lock.                                          *)

Mid(w, b) == op[w].step = "mid" /\ BucketOf(op[w].key) = b

Matches(b) == body[b].key = hdr[b].kh /\ body[b].era = hdr[b].era

SlotsWhole ==
  /\ \A b \in Bucket : hdr[b].kh = 0 \/ Matches(b) \/ \E w \in Worker : Mid(w, b)
  /\ \A b \in Bucket, w \in Worker : Mid(w, b) => hdr[b].kh = op[w].key

(* Two workers are never inside critical sections of the same stripe.      *)
LEMMA OneInside ==
  ASSUME TypeOK, HoldsIffCritical, NEW v \in Worker, NEW w \in Worker,
         Inside(v), Inside(w), op[v].at = op[w].at
  PROVE  v = w
<1>1. op[w].at \in Stripe
  BY DEF TypeOK, Op
<1> QED
  BY <1>1 DEF HoldsIffCritical, Inside

LEMMA MidIsInside ==
  ASSUME TypeOK, Placed, HoldsIffCritical, NEW v \in Worker, NEW w \in Worker,
         NEW b \in Bucket, Mid(v, b), Inside(w), op[w].at = StripeOf(b)
  PROVE  v = w
<1>1. Inside(v) /\ op[v].at = StripeOf(b)
  BY DEF Mid, Inside, Placed
<1> QED
  BY <1>1, OneInside

(* Steps that leave slots alone and move nobody into or out of a put.      *)
MidKept ==
  \A v \in Worker : /\ op'[v].step = "mid" <=> op[v].step = "mid"
                    /\ op[v].step = "mid" => op'[v].key = op[v].key

LEMMA MidFootprint ==
  ASSUME TypeOK, Placed, [Next]_vars
  PROVE  \/ MidKept
         \/ \E w \in Worker : PutHeader(w) \/ PutBody(w)
<1>0. op \in [Worker -> Op]
  BY DEF TypeOK
<1>a. ASSUME NEW w \in Worker, NEW held \in BOOLEAN, op[w].step # "mid",
             op' = [op EXCEPT ![w] = Advance(w, held)]
      PROVE  MidKept
  <2>1. op'[w].step # "mid" /\ \A v \in Worker \ {w} : op'[v] = op[v]
    BY <1>0, <1>a, AdvanceOutside
  <2> QED
    BY <1>a, <2>1 DEF MidKept
<1>b. ASSUME NEW w \in Worker, NEW st \in {"crit", "wait"}, op[w].step # "mid",
             op' = [op EXCEPT ![w].step = st]
      PROVE  MidKept
  <2>1. op'[w].step = st /\ \A v \in Worker \ {w} : op'[v] = op[v]
    BY <1>0, <1>b DEF Op
  <2> QED
    BY <1>b, <2>1 DEF MidKept
<1>c. ASSUME NEW w \in Worker, NEW o, o.step = "want", op[w].step # "mid",
             op' = [op EXCEPT ![w] = o]
      PROVE  MidKept
  BY <1>0, <1>c DEF MidKept
<1>d. op' = op => MidKept
  BY DEF MidKept
<1>1. ASSUME NEW w \in Worker, NEW kind \in {"get", "put", "delete"}, NEW k \in Keys,
             Call(w, kind, k)
      PROVE  MidKept
  BY <1>1, <1>c DEF Call, Idle
<1>2. ASSUME NEW w \in Worker, CallClear(w)
      PROVE  MidKept
  BY <1>2, <1>c DEF CallClear, Idle
<1>3. ASSUME NEW w \in Worker, SkipWrittenOff(w) \/ Timeout(w)
      PROVE  MidKept
  BY <1>3, <1>a DEF SkipWrittenOff, Timeout
<1>4. ASSUME NEW w \in Worker, Probe(w)
      PROVE  MidKept
  BY <1>4, <1>a, <1>b DEF Probe
<1>5. ASSUME NEW w \in Worker, Acquire(w) \/ Block(w)
      PROVE  MidKept
  BY <1>5, <1>b DEF Acquire, Block
<1>6. ASSUME NEW w \in Worker, GetBody(w) \/ DeleteBody(w) \/ ClearBody(w)
      PROVE  MidKept
  BY <1>6, <1>a DEF GetBody, DeleteBody, ClearBody, Holds
<1>7. ASSUME \/ \E w \in Worker : Kill(w) \/ \E r \in Stripe : RetryDue(w, r)
             \/ \E b \in Bucket : Expire(b)
             \/ UNCHANGED vars
      PROVE  MidKept
  BY <1>7, <1>d DEF Kill, RetryDue, Expire, vars
<1> QED
  BY <1>1, <1>2, <1>3, <1>4, <1>5, <1>6, <1>7 DEF Next, Step

(* A slot written or blanked by anything but a put is not in the middle of *)
(* one.                                                                    *)
LEMMA QuietFootprint ==
  ASSUME TypeOK, Placed, HoldsIffCritical, [Next]_vars, NEW b \in Bucket,
         ~ \E w \in Worker : PutHeader(w) \/ PutBody(w)
  PROVE  /\ body'[b] = body[b]
         /\ \/ hdr'[b].kh = hdr[b].kh /\ hdr'[b].era = hdr[b].era
            \/ hdr'[b].kh = 0 /\ \A v \in Worker : ~ Mid(v, b)
<1> USE SharedCacheAssumption, SlotInRange
<1> DEFINE Same == hdr'[b].kh = hdr[b].kh /\ hdr'[b].era = hdr[b].era
           Wipe == hdr'[b].kh = 0 /\ \A v \in Worker : ~ Mid(v, b)
<1>0. hdr \in [Bucket -> Header]
  BY DEF TypeOK
<1>1. ASSUME NEW w \in Worker, DeleteBody(w)
      PROVE  body' = body /\ (Same \/ Wipe)
  <2>1. /\ hdr' = [hdr EXCEPT ![BucketOf(op[w].key)] = IF @.kh = op[w].key THEN Blank ELSE @]
        /\ body' = body /\ op[w].step = "crit" /\ Inside(w)
        /\ op[w].at = StripeOf(BucketOf(op[w].key))
    BY <1>1 DEF DeleteBody, Holds, Inside, Placed
  <2>2. CASE b # BucketOf(op[w].key)
    BY <1>0, <2>1, <2>2
  <2>3. CASE b = BucketOf(op[w].key)
    <3>1. \A v \in Worker : ~ Mid(v, b)
      BY <2>1, <2>3, MidIsInside DEF Mid
    <3>2. hdr'[b] = Blank \/ hdr'[b] = hdr[b]
      BY <1>0, <2>1, <2>3
    <3> QED
      BY <2>1, <3>1, <3>2 DEF Blank
  <2> QED
    BY <2>2, <2>3
<1>2. ASSUME NEW w \in Worker, ClearBody(w)
      PROVE  body' = body /\ (Same \/ Wipe)
  <2>1. /\ hdr'[b] = IF b \in Visited(op[w].at) THEN Blank ELSE hdr[b]
        /\ body' = body /\ op[w].step = "crit" /\ Inside(w)
        /\ op[w].at \in Stripe
    BY <1>2 DEF ClearBody, Holds, Inside, TypeOK, Op
  <2>2. CASE b \notin Visited(op[w].at)
    BY <2>1, <2>2
  <2>3. CASE b \in Visited(op[w].at)
    <3>1. op[w].at = StripeOf(b)
      BY <2>1, <2>3, VisitedIsStripe
    <3>2. \A v \in Worker : ~ Mid(v, b)
      BY <2>1, <3>1, MidIsInside DEF Mid
    <3> QED
      BY <2>1, <2>3, <3>2 DEF Blank
  <2> QED
    BY <2>2, <2>3
<1>3. ASSUME NEW c \in Bucket, Expire(c)
      PROVE  body' = body /\ Same
  <2>1. hdr' = [hdr EXCEPT ![c].fresh = FALSE] /\ body' = body
    BY <1>3 DEF Expire
  <2>2. Same
    BY <1>0, <2>1 DEF Header
  <2> QED
    BY <2>1, <2>2
<1>4. ASSUME NEW w \in Worker,
             \/ SkipWrittenOff(w) \/ Probe(w) \/ Acquire(w) \/ Block(w) \/ Timeout(w)
             \/ GetBody(w) \/ Kill(w) \/ CallClear(w)
             \/ \E r \in Stripe : RetryDue(w, r)
             \/ \E kind \in {"get", "put", "delete"}, k \in Keys : Call(w, kind, k)
      PROVE  body' = body /\ hdr' = hdr
  BY <1>4 DEF SkipWrittenOff, Probe, Acquire, Block, Timeout, GetBody,
              Kill, CallClear, RetryDue, Call
<1>5. CASE UNCHANGED vars
  BY <1>5 DEF vars
<1> QED
  BY <1>1, <1>2, <1>3, <1>4, <1>5 DEF Next, Step

LEMMA WholeInductive ==
  ASSUME TypeOK, Placed, HoldsIffCritical, SlotsWhole, [Next]_vars
  PROVE  SlotsWhole'
<1> USE SharedCacheAssumption, SlotInRange
<1>0. op \in [Worker -> Op] /\ hdr \in [Bucket -> Header] /\ body \in [Bucket -> Wire \cup {NoWire}]
  BY DEF TypeOK
<1>1. ASSUME NEW w \in Worker, PutHeader(w)
      PROVE  SlotsWhole'
  <2>0. PICK k \in Keys, c \in Bucket : k = op[w].key /\ c = BucketOf(k)
    BY <1>1 DEF PutHeader, Holds, Placed
  <2>1. /\ op[w].at = StripeOf(c)
        /\ op[w].step = "crit" /\ Inside(w) /\ body' = body
    BY <1>1, <2>0 DEF PutHeader, Holds, Placed, Inside
  <2>2. hdr'[c].kh = k /\ \A b \in Bucket \ {c} : hdr'[b] = hdr[b]
    BY <1>0, <1>1, <2>0 DEF PutHeader
  <2>3. /\ op'[w].step = "mid" /\ op'[w].key = k
        /\ \A v \in Worker \ {w} : op'[v] = op[v]
    BY <1>0, <1>1, <2>0 DEF PutHeader, Op
  <2>4. \A v \in Worker : ~ Mid(v, c)
    BY <2>1, MidIsInside DEF Mid
  <2>5. Mid(w, c)' /\ \A b \in Bucket \ {c} : ~ Mid(w, b)'
    BY <2>0, <2>3 DEF Mid
  <2>6. \A v \in Worker \ {w}, b \in Bucket : Mid(v, b)' <=> Mid(v, b)
    BY <2>3 DEF Mid
  <2>7. \A b \in Bucket \ {c} : (Matches(b)' <=> Matches(b)) /\ ~ Mid(w, b)
    BY <2>1, <2>2 DEF Matches, Mid
  <2> QED
    BY <2>2, <2>3, <2>4, <2>5, <2>6, <2>7 DEF SlotsWhole
<1>2. ASSUME NEW w \in Worker, PutBody(w)
      PROVE  SlotsWhole'
  <2>0. PICK k \in Keys, c \in Bucket : k = op[w].key /\ c = BucketOf(k)
    BY <1>2 DEF PutBody, Holds, Placed
  <2>1. /\ Mid(w, c) /\ hdr' = hdr
        /\ body' = [body EXCEPT ![c] = [key |-> k, by |-> w, era |-> hdr[c].era]]
    BY <1>2, <2>0 DEF PutBody, Holds, Mid
  <2>2. /\ body'[c].key = k /\ body'[c].era = hdr[c].era
        /\ \A b \in Bucket \ {c} : body'[b] = body[b]
    BY <1>0, <2>1
  <2>3. hdr[c].kh = k
    BY <2>0, <2>1 DEF SlotsWhole
  <2>4. op'[w].step # "mid" /\ \A v \in Worker \ {w} : op'[v] = op[v]
    BY <1>0, <1>2, AdvanceOutside DEF PutBody
  <2>5. \A b \in Bucket \ {c} : ~ Mid(w, b)
    BY <2>0 DEF Mid
  <2>6. Matches(c)' /\ \A b \in Bucket \ {c} : Matches(b)' <=> Matches(b)
    BY <2>1, <2>2, <2>3 DEF Matches
  <2>7. /\ \A v \in Worker \ {w}, b \in Bucket : Mid(v, b)' <=> Mid(v, b)
        /\ \A b \in Bucket : ~ Mid(w, b)'
    BY <2>4 DEF Mid
  <2> QED
    BY <2>1, <2>4, <2>5, <2>6, <2>7 DEF SlotsWhole
<1>3. ASSUME ~ \E w \in Worker : PutHeader(w) \/ PutBody(w)
      PROVE  SlotsWhole'
  <2>1. MidKept
    BY <1>3, MidFootprint
  <2>2. \A v \in Worker, b \in Bucket : (Mid(v, b)' <=> Mid(v, b))
                                        /\ (Mid(v, b) => op'[v].key = op[v].key)
    BY <2>1 DEF MidKept, Mid
  <2>3. ASSUME NEW b \in Bucket
        PROVE  /\ body'[b] = body[b]
               /\ \/ hdr'[b].kh = hdr[b].kh /\ hdr'[b].era = hdr[b].era
                  \/ hdr'[b].kh = 0 /\ \A v \in Worker : ~ Mid(v, b)
    BY <1>3, QuietFootprint
  <2>4. ASSUME NEW b \in Bucket
        PROVE  hdr'[b].kh = 0 \/ Matches(b)' \/ \E w \in Worker : Mid(w, b)'
    BY <2>2, <2>3 DEF SlotsWhole, Matches
  <2>5. ASSUME NEW b \in Bucket, NEW w \in Worker, Mid(w, b)'
        PROVE  hdr'[b].kh = op'[w].key
    BY <2>2, <2>3, <2>5 DEF SlotsWhole
  <2> QED
    BY <2>4, <2>5 DEF SlotsWhole
<1> QED
  BY <1>1, <1>2, <1>3

(* What a step adds to a worker's results.                                 *)
LEMMA ReadFootprint ==
  ASSUME TypeOK, Placed, HoldsIffCritical, SlotsWhole, [Next]_vars, NEW w \in Worker,
         got'[w] # got[w], got'[w] # NoWire
  PROVE  LET b == BucketOf(op[w].key) IN
           got'[w].key = op[w].key /\ got'[w].era = hdr[b].era
<1> USE SharedCacheAssumption, SlotInRange
<1>0. got \in [Worker -> Wire \cup {NoWire}]
  BY DEF TypeOK
<1>1. ASSUME NEW v \in Worker, NEW kind \in {"get", "put", "delete"}, NEW k \in Keys,
             Call(v, kind, k)
      PROVE  FALSE
  BY <1>0, <1>1 DEF Call
<1>2. ASSUME NEW v \in Worker,
             \/ SkipWrittenOff(v) \/ Probe(v) \/ Acquire(v) \/ Block(v) \/ Timeout(v)
             \/ PutHeader(v) \/ PutBody(v) \/ DeleteBody(v) \/ ClearBody(v)
             \/ Kill(v) \/ CallClear(v) \/ \E r \in Stripe : RetryDue(v, r)
      PROVE  got' = got
  BY <1>2 DEF SkipWrittenOff, Probe, Acquire, Block, Timeout, PutHeader, PutBody,
              DeleteBody, ClearBody, Kill, CallClear, RetryDue
<1>3. ASSUME (\E b \in Bucket : Expire(b)) \/ UNCHANGED vars
      PROVE  got' = got
  BY <1>3 DEF Expire, vars
<1>4. GetBody(w)
  <2>1. PICK v \in Worker : GetBody(v)
    BY <1>1, <1>2, <1>3 DEF Next, Step
  <2>2. v = w
    BY <1>0, <2>1 DEF GetBody
  <2> QED
    BY <2>1, <2>2
<1> DEFINE k == op[w].key
           b == BucketOf(k)
<1>5. /\ k \in Keys /\ k # 0 /\ b \in Bucket
      /\ Inside(w) /\ op[w].step = "crit" /\ op[w].at = StripeOf(b)
  BY <1>4 DEF GetBody, Holds, Placed, Inside
<1>6. got'[w] = body[b] /\ hdr[b].kh = k
  BY <1>0, <1>4 DEF GetBody
<1>7. \A v \in Worker : ~ Mid(v, b)
  BY <1>5, MidIsInside DEF Mid
<1>8. Matches(b)
  BY <1>5, <1>6, <1>7 DEF SlotsWhole
<1> QED
  BY <1>6, <1>8 DEF Matches

(* "Reads never tear": whatever a get returns was written, header and      *)
(* bytes, by one put for the key asked for, with workers racing on the     *)
(* slot and dying between the two writes.                                  *)
THEOREM ReadsWhole == Spec => NoTornRead
<1>1. Init => SlotsWhole
  <2> SUFFICES ASSUME Init PROVE SlotsWhole
    OBVIOUS
  <2>1. \A b \in Bucket : hdr[b].kh = 0
    BY DEF Init, Blank
  <2>2. \A b \in Bucket, w \in Worker : ~ Mid(w, b)
    BY DEF Init, Mid, Idle
  <2> QED
    BY <2>1, <2>2 DEF SlotsWhole
<1> DEFINE Read(w) == got'[w] # got[w] /\ got'[w] # NoWire =>
                        LET b == BucketOf(op[w].key) IN
                          got'[w].key = op[w].key /\ got'[w].era = hdr[b].era
<1>2. TypeOK /\ Placed /\ HoldsIffCritical /\ SlotsWhole /\ [Next]_vars
        => [\A w \in Worker : Read(w)]_vars
  BY ReadFootprint
<1> QED
  BY <1>1, <1>2, TypeCorrect, Exclusion, WholeInductive, PTL DEF Spec, NoTornRead

-----------------------------------------------------------------------------
(* The query log.  What a process made stays in order along its way: the   *)
(* table, the open transaction, the jobs, the lane, the queues.            *)
Els(s) == {s[i] : i \in 1 .. Len(s)}
Precedes(x, y) == x[1] = y[1] => x[2] < y[2]
InOrder(s) == \A i, j \in 1 .. Len(s) : i < j => Precedes(s[i], s[j])
Before(A, B) == \A x \in A, y \in B : Precedes(x, y)

Ops == {"insert", "commit", "rollback"}
LogTyped ==
  /\ made \in [Log!Process -> Nat] /\ \A w \in Log!Process : made[w] <= MaxRecords[w]
  /\ queue \in [Log!Process -> Seq(Log!Rec)] /\ \A w \in Log!Process : Len(queue[w]) <= QueueSize
  /\ lane \in Seq(Log!Rec) /\ Len(lane) <= LaneSlots
  /\ shed \subseteq Log!Rec /\ failed \subseteq Log!Rec
  /\ task \in [Log!Task -> [at : Log!At, rows : Seq(Log!Rec)]]
  /\ jobs \in Seq([by : Log!Task, op : Ops, rows : Seq(Log!Rec)])
  /\ txn \in Seq(Log!Rec) /\ table \in Seq(Log!Rec)
  /\ running \in BOOLEAN /\ swept \in BOOLEAN
  /\ others \in 0 .. MaxOther /\ faultsQ \in 0 .. MaxFaults

(* What has left the queues and the lane.                                  *)
Handed == Els(table) \cup Els(txn) \cup UNION {Els(jobs[k].rows) : k \in 1 .. Len(jobs)}
Waiting == Els(lane) \cup Els(queue["primary"]) \cup Els(queue["sibling"])

RowsInOrder == InOrder(table) /\ InOrder(txn) /\ Before(Els(table), Els(txn))
JobsInOrder ==
  /\ \A k \in 1 .. Len(jobs) : /\ InOrder(jobs[k].rows)
                               /\ Before(Els(table) \cup Els(txn), Els(jobs[k].rows))
  /\ \A k, l \in 1 .. Len(jobs) : k < l => Before(Els(jobs[k].rows), Els(jobs[l].rows))
WaitingInOrder ==
  /\ InOrder(lane) /\ \A w \in Log!Process : InOrder(queue[w]) /\ Before(Els(lane), Els(queue[w]))
  /\ \A x \in Els(lane) : x[1] = "sibling"
  /\ \A w \in Log!Process : \A x \in Els(queue[w]) : x[1] = w
  /\ \A x \in Handed \cup Waiting : x[2] <= made[x[1]]
  /\ Before(Handed, Waiting)

(* stop() begins its last sweep, and ends, with an empty queue.            *)
StopSound ==
  /\ swept => ~running /\ queue["primary"] = <<>>
  /\ task["stop"].at = "gone" => ~running /\ queue["primary"] = <<>>
  /\ \A t \in Log!Task : task[t].at = "unwind" => t = "writer"

LogInv == LogTyped /\ RowsInOrder /\ JobsInOrder /\ WaitingInOrder /\ StopSound

LEMMA LogConstants ==
  /\ MaxRecords \in [Log!Process -> Nat]
  /\ QueueSize \in Nat /\ MaxBatch \in Nat /\ MaxBatch # 0 /\ LaneSlots \in Nat /\ MaxOther \in Nat
  /\ MaxFaults \in Nat
BY LogAssumption DEF Log!QueryLogConstants

LEMMA RecIs ==
  /\ \A w \in Log!Process : \A n \in 1 .. MaxRecords[w] :
       <<w, n>> \in Log!Rec /\ <<w, n>>[1] = w /\ <<w, n>>[2] = n
  /\ \A r \in Log!Rec : r[1] \in Log!Process /\ r[2] \in Nat
<1>1. ASSUME NEW w \in Log!Process, NEW n \in 1 .. MaxRecords[w] PROVE <<w, n>> \in Log!Rec
  <2>1. <<w, n>> \in {w} \X (1 .. MaxRecords[w])
    OBVIOUS
  <2> QED BY <2>1 DEF Log!Rec
<1>2. ASSUME NEW r \in Log!Rec PROVE r[1] \in Log!Process /\ r[2] \in Nat
  <2>1. PICK w \in Log!Process : r \in {w} \X (1 .. MaxRecords[w])
    BY DEF Log!Rec
  <2>2. MaxRecords[w] \in Nat
    BY LogConstants
  <2> QED BY <2>1, <2>2
<1> QED BY <1>1, <1>2

-----------------------------------------------------------------------------
(* Sequences of records.                                                   *)
LEMMA ToSetIs ==
  ASSUME NEW s \in Seq(Log!Rec)
  PROVE  Log!ToSet(s) = Els(s) /\ Els(s) \subseteq Log!Rec
BY DEF Log!ToSet, Els

LEMMA NothingIs == <<>> \in Seq(Log!Rec) /\ Len(<<>>) = 0 /\ Els(<<>>) = {} /\ InOrder(<<>>)
<1>1. 1 .. Len(<<>>) = {} /\ Len(<<>>) = 0 /\ <<>> \in Seq(Log!Rec)
  OBVIOUS
<1> QED BY <1>1 DEF Els, InOrder

LEMMA JoinIs ==
  ASSUME NEW s \in Seq(Log!Rec), NEW t \in Seq(Log!Rec)
  PROVE  /\ s \o t \in Seq(Log!Rec) /\ Len(s \o t) = Len(s) + Len(t)
         /\ Els(s \o t) = Els(s) \cup Els(t)
         /\ InOrder(s) /\ InOrder(t) /\ Before(Els(s), Els(t)) => InOrder(s \o t)
<1>1. PICK u : u = s \o t
  OBVIOUS
<1>2. PICK m \in Nat, n \in Nat : m = Len(s) /\ n = Len(t)
  OBVIOUS
<1>3. /\ u \in Seq(Log!Rec) /\ Len(u) = m + n
      /\ \A i \in 1 .. m : u[i] = s[i]
      /\ \A i \in 1 .. n : u[m + i] = t[i]
  BY <1>1, <1>2
<1>4. \A i \in 1 .. m + n : i \in 1 .. m \/ (i - m \in 1 .. n /\ i = m + (i - m))
  BY <1>2
<1>5. Els(u) = Els(s) \cup Els(t)
  <2>1. ASSUME NEW x \in Els(u) PROVE x \in Els(s) \cup Els(t)
    <3>1. PICK i \in 1 .. m + n : x = u[i]
      BY <1>3 DEF Els
    <3>2. CASE i \in 1 .. m
      BY <1>2, <1>3, <3>1, <3>2 DEF Els
    <3>3. CASE i \notin 1 .. m
      <4>1. PICK k \in 1 .. n : i = m + k
        BY <1>4, <3>3
      <4> QED BY <1>2, <1>3, <3>1, <4>1 DEF Els
    <3> QED BY <3>2, <3>3
  <2>2. ASSUME NEW x \in Els(s) PROVE x \in Els(u)
    <3>1. PICK i \in 1 .. m : x = s[i]
      BY <1>2 DEF Els
    <3>2. i \in 1 .. m + n
      BY <1>2
    <3> QED BY <1>3, <3>1, <3>2 DEF Els
  <2>3. ASSUME NEW x \in Els(t) PROVE x \in Els(u)
    <3>1. PICK i \in 1 .. n : x = t[i]
      BY <1>2 DEF Els
    <3>2. m + i \in 1 .. m + n
      BY <1>2
    <3> QED BY <1>3, <3>1, <3>2 DEF Els
  <2> QED BY <2>1, <2>2, <2>3
<1>6. ASSUME InOrder(s), InOrder(t), Before(Els(s), Els(t)) PROVE InOrder(u)
  <2> SUFFICES ASSUME NEW i \in 1 .. m + n, NEW j \in 1 .. m + n, i < j PROVE Precedes(u[i], u[j])
    BY <1>3 DEF InOrder
  <2>1. CASE i \in 1 .. m /\ j \in 1 .. m
    BY <1>2, <1>3, <1>6, <2>1 DEF InOrder
  <2>2. CASE i \in 1 .. m /\ j \notin 1 .. m
    <3>1. PICK k \in 1 .. n : j = m + k
      BY <1>4, <2>2
    <3>2. s[i] \in Els(s) /\ t[k] \in Els(t)
      BY <1>2, <2>2 DEF Els
    <3> QED BY <1>3, <1>6, <2>2, <3>1, <3>2 DEF Before
  <2>3. CASE i \notin 1 .. m
    <3>1. PICK k \in 1 .. n : i = m + k
      BY <1>4, <2>3
    <3>5. i > m /\ j \notin 1 .. m
      BY <1>2, <2>3
    <3>2. PICK l \in 1 .. n : j = m + l
      BY <1>4, <3>5
    <3>3. k < l
      BY <1>2, <3>1, <3>2
    <3>4. Precedes(t[k], t[l])
      BY <1>2, <1>6, <3>3 DEF InOrder
    <3> QED BY <1>3, <3>1, <3>2, <3>4
  <2> QED BY <2>1, <2>2, <2>3
<1> QED BY <1>1, <1>2, <1>3, <1>5, <1>6

LEMMA SplitIs ==
  ASSUME NEW s \in Seq(Log!Rec), NEW n \in 0 .. Len(s)
  PROVE  LET a == SubSeq(s, 1, n)  b == SubSeq(s, n + 1, Len(s)) IN
         /\ a \in Seq(Log!Rec) /\ Len(a) = n /\ b \in Seq(Log!Rec) /\ Len(b) = Len(s) - n
         /\ Els(a) \subseteq Els(s) /\ Els(b) \subseteq Els(s)
         /\ InOrder(s) => InOrder(a) /\ InOrder(b) /\ Before(Els(a), Els(b))
<1>1. PICK a, b : a = SubSeq(s, 1, n) /\ b = SubSeq(s, n + 1, Len(s))
  OBVIOUS
<1>2. PICK m \in Nat : m = Len(s)
  OBVIOUS
<1>3. n \in Nat /\ n <= m
  BY <1>2
<1>4. a \in Seq(Log!Rec) /\ Len(a) = n /\ \A i \in 1 .. n : a[i] = s[i] /\ i \in 1 .. m
  BY <1>1, <1>2, <1>3
<1>5. b \in Seq(Log!Rec) /\ Len(b) = m - n /\ \A i \in 1 .. m - n : b[i] = s[n + i] /\ n + i \in 1 .. m
  BY <1>1, <1>2, <1>3
<1>6. Els(a) \subseteq Els(s)
  BY <1>2, <1>4 DEF Els
<1>7. Els(b) \subseteq Els(s)
  BY <1>2, <1>5 DEF Els
<1>8. ASSUME InOrder(s) PROVE InOrder(a) /\ InOrder(b) /\ Before(Els(a), Els(b))
  <2>1. \A i, j \in 1 .. m : i < j => Precedes(s[i], s[j])
    BY <1>2, <1>8 DEF InOrder
  <2>2. InOrder(a)
    BY <1>4, <2>1 DEF InOrder
  <2>3. InOrder(b)
    <3>1. ASSUME NEW i \in 1 .. m - n, NEW j \in 1 .. m - n, i < j PROVE Precedes(b[i], b[j])
      <4>1. n + i < n + j /\ n + i \in 1 .. m /\ n + j \in 1 .. m
        BY <1>3, <1>5, <3>1
      <4> QED BY <1>5, <2>1, <4>1
    <3> QED BY <1>5, <3>1 DEF InOrder
  <2>4. ASSUME NEW x \in Els(a), NEW y \in Els(b) PROVE Precedes(x, y)
    <3>1. PICK i \in 1 .. n : x = s[i]
      BY <1>4 DEF Els
    <3>2. PICK j \in 1 .. m - n : y = s[n + j]
      BY <1>5 DEF Els
    <3>3. i \in 1 .. m /\ n + j \in 1 .. m /\ i < n + j
      BY <1>3, <1>4, <1>5
    <3> QED BY <2>1, <3>1, <3>2, <3>3
  <2> QED BY <2>2, <2>3, <2>4 DEF Before
<1> QED BY <1>1, <1>2, <1>4, <1>5, <1>6, <1>7, <1>8

-----------------------------------------------------------------------------
(* A batch is the head of a queue, and what is left its rest.              *)
LEMMA BatchIs ==
  ASSUME LogTyped, NEW w \in Log!Process
  PROVE  \E n \in 0 .. Len(queue[w]) :
           /\ Log!Batch(w) = SubSeq(queue[w], 1, n)
           /\ Log!Left(w) = SubSeq(queue[w], n + 1, Len(queue[w]))
           /\ n = 0 => Len(queue[w]) = 0
<1>1. PICK s \in Seq(Log!Rec) : s = queue[w]
  BY DEF LogTyped
<1>2. PICK m \in Nat : m = Len(s)
  BY <1>1
<1>3. PICK n : n = Log!Min({MaxBatch, m})
  OBVIOUS
<1>4. n \in {MaxBatch, m} /\ n <= m
  BY <1>2, <1>3, LogConstants DEF Log!Min
<1>5. n \in 0 .. m /\ (n = 0 => m = 0)
  BY <1>2, <1>4, LogConstants
<1>6. Log!Batch(w) = SubSeq(s, 1, n)
  BY <1>1, <1>2, <1>3 DEF Log!Batch
<1>7. Len(SubSeq(s, 1, n)) = n
  BY <1>1, <1>2, <1>5, SplitIs
<1>8. Log!Left(w) = SubSeq(s, n + 1, Len(s))
  BY <1>1, <1>6, <1>7 DEF Log!Left
<1> QED BY <1>1, <1>2, <1>5, <1>6, <1>8

LEMMA TakenIs ==
  ASSUME LogTyped, NEW w \in Log!Process
  PROVE  /\ Log!Batch(w) \in Seq(Log!Rec) /\ Log!Left(w) \in Seq(Log!Rec)
         /\ Len(Log!Left(w)) <= Len(queue[w])
         /\ Els(Log!Batch(w)) \subseteq Els(queue[w]) /\ Els(Log!Left(w)) \subseteq Els(queue[w])
         /\ queue[w] = <<>> => Log!Left(w) = <<>>
         /\ Log!Batch(w) = <<>> => queue[w] = <<>>
         /\ InOrder(queue[w]) => /\ InOrder(Log!Batch(w)) /\ InOrder(Log!Left(w))
                                 /\ Before(Els(Log!Batch(w)), Els(Log!Left(w)))
<1>1. PICK s \in Seq(Log!Rec) : s = queue[w]
  BY DEF LogTyped
<1>2. PICK n \in 0 .. Len(s) :
        /\ Log!Batch(w) = SubSeq(s, 1, n) /\ Log!Left(w) = SubSeq(s, n + 1, Len(s))
        /\ n = 0 => Len(s) = 0
  BY <1>1, BatchIs
<1>3. PICK a, b : a = Log!Batch(w) /\ b = Log!Left(w)
  OBVIOUS
<1>4. /\ a \in Seq(Log!Rec) /\ Len(a) = n /\ b \in Seq(Log!Rec) /\ Len(b) = Len(s) - n
      /\ Els(a) \subseteq Els(s) /\ Els(b) \subseteq Els(s)
      /\ InOrder(s) => InOrder(a) /\ InOrder(b) /\ Before(Els(a), Els(b))
  BY <1>2, <1>3, SplitIs
<1>5. Len(s) \in Nat /\ n \in Nat
  BY <1>1
<1>6. s = <<>> => b = <<>>
  <2>1. s = <<>> => Len(s) = 0
    OBVIOUS
  <2>2. Len(s) = 0 => Len(b) = 0
    <3>1. PICK m \in Nat : m = Len(s)
      BY <1>5
    <3>2. n <= m /\ Len(b) = m - n
      BY <1>4, <1>5, <3>1
    <3>3. m = 0 => m - n = 0
      BY <1>5, <3>2
    <3> QED BY <3>1, <3>2, <3>3
  <2> QED BY <1>4, <2>1, <2>2, EmptySeq
<1>7. a = <<>> => s = <<>>
  <2>1. a = <<>> => n = 0
    BY <1>4
  <2> QED BY <1>1, <1>2, <2>1, EmptySeq
<1> QED BY <1>1, <1>3, <1>4, <1>5, <1>6, <1>7

-----------------------------------------------------------------------------
(* The connection's jobs.                                                  *)
JobRec == [by : Log!Task, op : Ops, rows : Seq(Log!Rec)]

LEMMA JobIs ==
  ASSUME NEW t \in Log!Task, NEW o \in Ops, NEW r \in Seq(Log!Rec)
  PROVE  Log!Job(t, o, r) \in JobRec /\ Log!Job(t, o, r).rows = r
BY DEF Log!Job, JobRec

LEMMA RowsAre ==
  ASSUME LogTyped
  PROVE  \A k \in 1 .. Len(jobs) : jobs[k] \in JobRec /\ jobs[k].rows \in Seq(Log!Rec)
<1>1. PICK s \in Seq(JobRec) : s = jobs
  BY DEF LogTyped, JobRec
<1>2. \A k \in 1 .. Len(s) : s[k] \in JobRec
  OBVIOUS
<1> QED BY <1>1, <1>2 DEF JobRec

LEMMA TailIs ==
  ASSUME LogTyped, jobs # <<>>, jobs' = Tail(jobs)
  PROVE  /\ jobs' \in Seq(JobRec) /\ Head(jobs) = jobs[1] /\ 1 \in 1 .. Len(jobs) /\ jobs[1] \in JobRec
         /\ \A k \in 1 .. Len(jobs') : k \in Nat /\ jobs'[k] = jobs[k + 1] /\ k + 1 \in 1 .. Len(jobs)
<1>1. PICK s \in Seq(JobRec) : s = jobs
  BY DEF LogTyped, JobRec
<1>2. Len(s) \in Nat \ {0}
  BY <1>1
<1> QED BY <1>1, <1>2

LEMMA AddIs ==
  ASSUME LogTyped, NEW j \in JobRec, jobs' = Append(jobs, j)
  PROVE  /\ jobs' \in Seq(JobRec) /\ Len(jobs) \in Nat /\ Len(jobs') = Len(jobs) + 1
         /\ jobs'[Len(jobs) + 1] = j
         /\ \A k \in 1 .. Len(jobs') : k \in 1 .. Len(jobs) \/ k = Len(jobs) + 1
         /\ \A k \in 1 .. Len(jobs) : jobs'[k] = jobs[k]
<1>1. PICK s \in Seq(JobRec) : s = jobs
  BY DEF LogTyped, JobRec
<1> QED BY <1>1

(* A job is done: its rows go where they go, and the rest stay in line.    *)
LEMMA DoneKeeps ==
  ASSUME LogTyped, JobsInOrder, jobs # <<>>, jobs' = Tail(jobs),
         Els(table') \cup Els(txn') \subseteq Els(table) \cup Els(txn) \cup Els(jobs[1].rows)
  PROVE  JobsInOrder' /\ Handed' \subseteq Handed
<1>1. /\ 1 \in 1 .. Len(jobs)
      /\ \A k \in 1 .. Len(jobs') : k \in Nat /\ jobs'[k] = jobs[k + 1] /\ k + 1 \in 1 .. Len(jobs)
  BY TailIs
<1>2. ASSUME NEW k \in 1 .. Len(jobs')
      PROVE  InOrder(jobs'[k].rows) /\ Before(Els(table') \cup Els(txn'), Els(jobs'[k].rows))
  <2>1. jobs'[k] = jobs[k + 1] /\ k + 1 \in 1 .. Len(jobs) /\ 1 < k + 1
    BY <1>1
  <2>2. /\ InOrder(jobs[k + 1].rows) /\ Before(Els(table) \cup Els(txn), Els(jobs[k + 1].rows))
        /\ Before(Els(jobs[1].rows), Els(jobs[k + 1].rows))
    BY <1>1, <2>1 DEF JobsInOrder
  <2> QED BY <2>1, <2>2 DEF Before
<1>3. ASSUME NEW k \in 1 .. Len(jobs'), NEW l \in 1 .. Len(jobs'), k < l
      PROVE  Before(Els(jobs'[k].rows), Els(jobs'[l].rows))
  <2>1. /\ jobs'[k] = jobs[k + 1] /\ k + 1 \in 1 .. Len(jobs)
        /\ jobs'[l] = jobs[l + 1] /\ l + 1 \in 1 .. Len(jobs) /\ k + 1 < l + 1
    BY <1>1, <1>3
  <2> QED BY <2>1 DEF JobsInOrder
<1>4. \A k \in 1 .. Len(jobs') : Els(jobs'[k].rows) = Els(jobs[k + 1].rows) /\ k + 1 \in 1 .. Len(jobs)
  BY <1>1
<1>5. Handed' \subseteq Handed
  <2>1. UNION {Els(jobs'[k].rows) : k \in 1 .. Len(jobs')} \subseteq UNION {Els(jobs[k].rows) : k \in 1 .. Len(jobs)}
    BY <1>4
  <2>2. Els(jobs[1].rows) \subseteq UNION {Els(jobs[k].rows) : k \in 1 .. Len(jobs)}
    BY <1>1
  <2>3. Handed' = Els(table') \cup Els(txn') \cup UNION {Els(jobs'[k].rows) : k \in 1 .. Len(jobs')}
    BY DEF Handed, Els
  <2> QED BY <2>1, <2>2, <2>3 DEF Handed
<1>6. JobsInOrder'
  BY <1>2, <1>3 DEF JobsInOrder, InOrder, Before, Els, Precedes
<1> QED BY <1>5, <1>6

(* A job is handed in, with rows that come after all that was handed in.   *)
LEMMA AddKeeps ==
  ASSUME LogTyped, JobsInOrder, NEW j \in JobRec, jobs' = Append(jobs, j), UNCHANGED <<txn, table>>,
         InOrder(j.rows), Before(Handed, Els(j.rows))
  PROVE  JobsInOrder' /\ Handed' \subseteq Handed \cup Els(j.rows)
<1>1. PICK m \in Nat : m = Len(jobs)
  BY AddIs
<1>2. /\ jobs'[m + 1] = j /\ Len(jobs') = m + 1
      /\ \A k \in 1 .. Len(jobs') : k \in 1 .. m \/ k = m + 1
      /\ \A k \in 1 .. m : jobs'[k] = jobs[k]
  BY <1>1, AddIs
<1>3. \A k \in 1 .. m : Els(jobs[k].rows) \subseteq Handed
  BY <1>1 DEF Handed
<1>4. Els(table) \cup Els(txn) \subseteq Handed
  BY DEF Handed
<1>5. ASSUME NEW k \in 1 .. Len(jobs')
      PROVE  InOrder(jobs'[k].rows) /\ Before(Els(table') \cup Els(txn'), Els(jobs'[k].rows))
  <2>1. CASE k \in 1 .. m
    <3>1. InOrder(jobs[k].rows) /\ Before(Els(table) \cup Els(txn), Els(jobs[k].rows))
      BY <1>1, <2>1 DEF JobsInOrder
    <3> QED BY <1>2, <2>1, <3>1
  <2>2. CASE k = m + 1
    <3>1. Before(Els(table) \cup Els(txn), Els(j.rows))
      BY <1>4 DEF Before
    <3> QED BY <1>2, <2>2, <3>1
  <2> QED BY <1>2, <2>1, <2>2
<1>6. ASSUME NEW k \in 1 .. Len(jobs'), NEW l \in 1 .. Len(jobs'), k < l
      PROVE  Before(Els(jobs'[k].rows), Els(jobs'[l].rows))
  <2>1. k \in 1 .. m
    BY <1>1, <1>2, <1>6
  <2>2. CASE l \in 1 .. m
    <3>1. Before(Els(jobs[k].rows), Els(jobs[l].rows))
      BY <1>1, <1>6, <2>1, <2>2 DEF JobsInOrder
    <3> QED BY <1>2, <2>1, <2>2, <3>1
  <2>3. CASE l = m + 1
    <3>1. Before(Els(jobs[k].rows), Els(j.rows))
      BY <1>3, <2>1 DEF Before
    <3> QED BY <1>2, <2>1, <2>3, <3>1
  <2> QED BY <1>2, <2>2, <2>3
<1>7. Handed' \subseteq Handed \cup Els(j.rows)
  <2>1. Handed' = Els(table') \cup Els(txn') \cup UNION {Els(jobs'[k].rows) : k \in 1 .. Len(jobs')}
    BY DEF Handed, Els
  <2>2. \A k \in 1 .. Len(jobs') : Els(jobs'[k].rows) \subseteq Handed \cup Els(j.rows)
    BY <1>2, <1>3
  <2> QED BY <1>4, <2>1, <2>2
<1>8. JobsInOrder'
  BY <1>5, <1>6 DEF JobsInOrder, InOrder, Before, Els, Precedes
<1> QED BY <1>7, <1>8

LEMMA WaitingKept ==
  ASSUME WaitingInOrder, UNCHANGED <<made, queue, lane>>, Handed' \subseteq Handed
  PROVE  WaitingInOrder'
<1>1. Waiting' = Waiting
  BY DEF Waiting, Els
<1>2. \A x \in Handed' \cup Waiting' : x[2] <= made'[x[1]]
  BY <1>1 DEF WaitingInOrder
<1>3. Before(Handed', Waiting')
  BY <1>1 DEF WaitingInOrder, Before
<1> QED BY <1>2, <1>3 DEF WaitingInOrder, InOrder, Before, Els, Precedes

LEMMA OrderKept ==
  ASSUME LogInv, UNCHANGED <<made, queue, lane, jobs, txn, table>>
  PROVE  RowsInOrder' /\ JobsInOrder' /\ WaitingInOrder'
<1>1. Handed' = Handed
  BY DEF Handed, Els
<1>2. RowsInOrder' /\ JobsInOrder'
  BY DEF LogInv, RowsInOrder, JobsInOrder, InOrder, Before, Els, Precedes
<1> QED BY <1>1, <1>2, WaitingKept DEF LogInv

-----------------------------------------------------------------------------
(* The tasks.                                                              *)
TaskRec == [at : Log!At, rows : Seq(Log!Rec)]

LEMMA TaskSet ==
  ASSUME LogTyped, NEW t \in Log!Task, NEW f \in TaskRec, task' = [task EXCEPT ![t] = f]
  PROVE  /\ task' \in [Log!Task -> TaskRec] /\ task'[t] = f
         /\ \A u \in Log!Task : u # t => task'[u] = task[u]
BY DEF LogTyped, TaskRec

LEMMA TaskMoves ==
  ASSUME LogTyped, NEW t \in Log!Task, NEW a \in Log!At, task' = [task EXCEPT ![t].at = a]
  PROVE  /\ task' \in [Log!Task -> TaskRec] /\ task'[t].at = a
         /\ \A u \in Log!Task : u # t => task'[u] = task[u]
<1>1. PICK e \in TaskRec : e = task[t]
  BY DEF LogTyped, TaskRec
<1>2. PICK f : f = [e EXCEPT !.at = a]
  OBVIOUS
<1>3. f \in TaskRec /\ f.at = a
  BY <1>2 DEF TaskRec
<1>4. task' = [task EXCEPT ![t] = f]
  BY <1>1, <1>2 DEF LogTyped
<1> QED BY <1>3, <1>4, TaskSet

LEMMA ToldIs ==
  ASSUME LogTyped, NEW j \in JobRec, NEW a \in Log!At, task' = Log!Told(j, a)
  PROVE  task' \in [Log!Task -> TaskRec] /\ \A u \in Log!Task : task'[u].at \in {task[u].at, a}
<1>1. j.by \in Log!Task
  BY DEF JobRec
<1>2. CASE task[j.by].at = j.op
  <2>1. task' = [task EXCEPT ![j.by].at = a]
    BY <1>2 DEF Log!Told
  <2> QED BY <1>1, <2>1, TaskMoves
<1>3. CASE task[j.by].at # j.op
  <2>1. task' = task
    BY <1>3 DEF Log!Told
  <2> QED BY <2>1 DEF LogTyped, TaskRec
<1> QED BY <1>2, <1>3

LEMMA StopKept ==
  ASSUME StopSound, UNCHANGED <<running, swept>>,
         ~running /\ queue["primary"] = <<>> => queue'["primary"] = <<>>,
         \A t \in Log!Task : task'[t].at \notin {task[t].at, "idle", "insert", "inserted", "refused", "commit",
                                                 "committed", "rollback"}
                               => t = "writer"
  PROVE  StopSound'
<1>1. {"stop", "writer"} \subseteq Log!Task
  BY DEF Log!Task
<1>2. task'["stop"].at = "gone" => task["stop"].at = "gone"
  BY <1>1
<1>3. \A t \in Log!Task : task'[t].at = "unwind" => t = "writer"
  BY DEF StopSound
<1> QED BY <1>2, <1>3 DEF StopSound

-----------------------------------------------------------------------------
LEMMA EnqueueKeeps ==
  ASSUME LogInv, NEW w \in Log!Process, Log!Enqueue(w)
  PROVE  LogInv'
<1>1. /\ made[w] < MaxRecords[w] /\ (w = "primary" => running)
      /\ made' = [made EXCEPT ![w] = made[w] + 1]
      /\ UNCHANGED <<lane, failed, task, jobs, txn, table, running, swept, others, faultsQ>>
  BY DEF Log!Enqueue, Log!db, LogInv, LogTyped
<1>2. PICK n \in Nat : n = made[w] + 1
  BY DEF LogInv, LogTyped
<1>3. PICK r : r = <<w, n>>
  OBVIOUS
<1>4. r \in Log!Rec /\ r[1] = w /\ r[2] = n
  <2>1. made[w] \in Nat /\ MaxRecords[w] \in Nat
    BY LogConstants DEF LogInv, LogTyped
  <2>2. n \in 1 .. MaxRecords[w]
    BY <1>1, <1>2, <2>1
  <2> QED BY <1>3, <2>2, RecIs
<1>5. /\ made' \in [Log!Process -> Nat] /\ made'[w] = n
      /\ \A v \in Log!Process : made[v] <= made'[v] /\ made'[v] <= MaxRecords[v]
      /\ \A v \in Log!Process : v # w => made'[v] = made[v]
  <2>1. /\ made \in [Log!Process -> Nat] /\ MaxRecords \in [Log!Process -> Nat]
        /\ \A v \in Log!Process : made[v] <= MaxRecords[v]
    BY LogConstants DEF LogInv, LogTyped
  <2>2. /\ made' \in [Log!Process -> Nat] /\ made'[w] = n
        /\ \A v \in Log!Process : v # w => made'[v] = made[v]
    BY <1>1, <1>2, <2>1
  <2>3. made[w] <= n /\ n <= MaxRecords[w]
    BY <1>1, <1>2, <2>1
  <2>4. ASSUME NEW v \in Log!Process PROVE made[v] <= made'[v] /\ made'[v] <= MaxRecords[v]
    <3>1. CASE v = w
      BY <2>2, <2>3, <3>1
    <3>2. CASE v # w
      BY <2>1, <2>2, <3>2
    <3> QED BY <3>1, <3>2
  <2> QED BY <2>2, <2>4
<1>6. Handed' = Handed /\ RowsInOrder' /\ JobsInOrder'
  BY <1>1 DEF LogInv, Handed, Els, RowsInOrder, JobsInOrder, InOrder, Before, Precedes
<1>7. Handed \cup Waiting \subseteq Log!Rec
  <2>1. \A k \in 1 .. Len(jobs) : jobs[k].rows \in Seq(Log!Rec)
    BY RowsAre DEF LogInv
  <2>2. \A k \in 1 .. Len(jobs) : Els(jobs[k].rows) \subseteq Log!Rec
    BY <2>1, ToSetIs
  <2>3. /\ table \in Seq(Log!Rec) /\ txn \in Seq(Log!Rec) /\ lane \in Seq(Log!Rec)
        /\ queue["primary"] \in Seq(Log!Rec) /\ queue["sibling"] \in Seq(Log!Rec)
    BY DEF LogInv, LogTyped, Log!Process
  <2>4. /\ Els(table) \subseteq Log!Rec /\ Els(txn) \subseteq Log!Rec /\ Els(lane) \subseteq Log!Rec
        /\ Els(queue["primary"]) \subseteq Log!Rec /\ Els(queue["sibling"]) \subseteq Log!Rec
    BY <2>3, ToSetIs
  <2>5. UNION {Els(jobs[k].rows) : k \in 1 .. Len(jobs)} \subseteq Log!Rec
    BY <2>2
  <2> QED BY <2>4, <2>5 DEF Handed, Waiting
<1>8. \A x \in Handed \cup Waiting : x[1] \in Log!Process /\ x[2] \in Nat /\ x[2] <= made[x[1]]
  BY <1>7, RecIs DEF LogInv, WaitingInOrder
<1>9. \A x \in Handed \cup Waiting : x[2] <= made'[x[1]] /\ Precedes(x, r)
  <2>1. ASSUME NEW x \in Handed \cup Waiting PROVE x[2] <= made'[x[1]] /\ Precedes(x, r)
    <3>1. PICK v \in Log!Process, k \in Nat : v = x[1] /\ k = x[2] /\ k <= made[v]
      BY <1>8
    <3>2. made[v] \in Nat /\ made'[v] \in Nat /\ made[v] <= made'[v]
      BY <1>5 DEF LogInv, LogTyped
    <3>3. v = w => k < n
      BY <1>2, <3>1, <3>2
    <3> QED BY <1>4, <3>1, <3>2, <3>3 DEF Precedes
  <2> QED BY <2>1
<1>10. CASE Len(queue[w]) < QueueSize
  <2>1. PICK s \in Seq(Log!Rec) : s = queue[w]
    BY DEF LogInv, LogTyped
  <2>2. PICK t : t = s \o <<r>>
    OBVIOUS
  <2>3. queue' = [queue EXCEPT ![w] = t] /\ shed' = shed
    <3>1. Append(s, r) = s \o <<r>>
      BY <1>4, <2>1
    <3> QED BY <1>2, <1>3, <1>10, <2>1, <2>2, <3>1 DEF Log!Enqueue, LogInv, LogTyped
  <2>4. <<r>> \in Seq(Log!Rec) /\ Len(<<r>>) = 1 /\ Els(<<r>>) = {r} /\ InOrder(<<r>>)
    <3>1. PICK u : u = <<r>>
      OBVIOUS
    <3>2. u \in Seq(Log!Rec) /\ Len(u) = 1 /\ u[1] = r
      BY <1>4, <3>1
    <3>3. 1 .. Len(u) = {1}
      BY <3>2
    <3> QED BY <3>1, <3>2, <3>3 DEF Els, InOrder
  <2>5. Els(s) \subseteq Waiting
    BY <2>1 DEF Waiting, Log!Process
  <2>6. Before(Els(s), {r})
    BY <1>9, <2>5 DEF Before
  <2>7. InOrder(s)
    BY <2>1 DEF LogInv, WaitingInOrder
  <2>8. t \in Seq(Log!Rec) /\ Len(t) = Len(s) + 1 /\ Els(t) = Els(s) \cup {r} /\ InOrder(t)
    BY <2>2, <2>4, <2>6, <2>7, JoinIs
  <2>9. queue' \in [Log!Process -> Seq(Log!Rec)] /\ queue'[w] = t /\ \A v \in Log!Process : v # w => queue'[v] = queue[v]
    BY <2>3, <2>8 DEF LogInv, LogTyped
  <2>10. \A v \in Log!Process : Len(queue'[v]) <= QueueSize
    <3>1. Len(s) \in Nat /\ Len(s) < QueueSize
      BY <1>10, <2>1
    <3>2. Len(t) <= QueueSize
      BY <2>8, <3>1, LogConstants
    <3>3. \A v \in Log!Process : Len(queue[v]) <= QueueSize
      BY DEF LogInv, LogTyped
    <3> QED BY <2>9, <3>2, <3>3
  <2>11. Waiting' = Waiting \cup {r}
    <3>1. Waiting' = Els(lane') \cup Els(queue'["primary"]) \cup Els(queue'["sibling"])
      BY DEF Waiting, Els
    <3> QED BY <1>1, <2>1, <2>8, <2>9, <3>1 DEF Waiting, Log!Process
  <2>12. LogTyped'
    BY <1>1, <1>5, <2>3, <2>9, <2>10 DEF LogInv, LogTyped
  <2>13. WaitingInOrder'
    <3>1. \A v \in Log!Process : InOrder(queue'[v]) /\ Before(Els(lane'), Els(queue'[v]))
                                /\ \A x \in Els(queue'[v]) : x[1] = v
      <4>1. Els(lane) \subseteq Waiting
        BY DEF Waiting
      <4>2. Before(Els(lane), Els(s)) /\ \A x \in Els(s) : x[1] = w
        BY <2>1 DEF LogInv, WaitingInOrder
      <4>3. Before(Els(lane), Els(t)) /\ \A x \in Els(t) : x[1] = w
        BY <1>4, <1>9, <2>8, <4>1, <4>2 DEF Before
      <4> QED BY <1>1, <2>8, <2>9, <4>3 DEF LogInv, WaitingInOrder
    <3>2. \A x \in Handed' \cup Waiting' : x[2] <= made'[x[1]]
      <4>1. r[2] <= made'[r[1]]
        BY <1>2, <1>4, <1>5
      <4> QED BY <1>6, <1>9, <2>11, <4>1
    <3>3. Before(Handed', Waiting')
      <4>1. Before(Handed, Waiting)
        BY DEF LogInv, WaitingInOrder
      <4> QED BY <1>6, <1>9, <2>11, <4>1 DEF Before
    <3>4. InOrder(lane') /\ \A x \in Els(lane') : x[1] = "sibling"
      BY <1>1 DEF LogInv, WaitingInOrder
    <3> QED BY <3>1, <3>2, <3>3, <3>4 DEF WaitingInOrder, InOrder, Before, Els, Precedes
  <2>14. StopSound'
    BY <1>1, <2>9 DEF LogInv, StopSound, Log!Process
  <2> QED BY <1>6, <2>12, <2>13, <2>14 DEF LogInv
<1>11. CASE ~(Len(queue[w]) < QueueSize)
  <2>1. queue' = queue /\ shed' = shed \cup {r}
    BY <1>2, <1>3, <1>11 DEF Log!Enqueue
  <2>2. LogTyped'
    BY <1>1, <1>4, <1>5, <2>1 DEF LogInv, LogTyped
  <2>3. WaitingInOrder'
    <3>1. Waiting' = Waiting
      BY <1>1, <2>1 DEF Waiting, Els
    <3>2. \A x \in Handed' \cup Waiting' : x[2] <= made'[x[1]]
      BY <1>6, <1>9, <3>1
    <3>3. Before(Handed', Waiting')
      BY <1>6, <3>1 DEF LogInv, WaitingInOrder
    <3>4. /\ InOrder(lane') /\ \A v \in Log!Process : InOrder(queue'[v]) /\ Before(Els(lane'), Els(queue'[v]))
          /\ \A x \in Els(lane') : x[1] = "sibling"
          /\ \A v \in Log!Process : \A x \in Els(queue'[v]) : x[1] = v
      BY <1>1, <2>1 DEF LogInv, WaitingInOrder
    <3> QED BY <3>2, <3>3, <3>4 DEF WaitingInOrder, InOrder, Before, Els, Precedes
  <2>4. StopSound'
    BY <1>1, <2>1 DEF LogInv, StopSound
  <2> QED BY <1>6, <2>2, <2>3, <2>4 DEF LogInv
<1> QED BY <1>10, <1>11

(* A job without rows is handed in, and nothing else moves.                *)
LEMMA AskKeeps ==
  ASSUME LogInv, NEW t \in Log!Task, NEW o \in Ops, jobs' = Append(jobs, Log!Job(t, o, <<>>)),
         UNCHANGED <<made, queue, lane, shed, failed, txn, table, running, swept, faultsQ>>,
         task' \in [Log!Task -> TaskRec], others' \in 0 .. MaxOther,
         \A u \in Log!Task : task'[u].at \in {task[u].at, "insert", "commit", "rollback"}
                             \/ (u = "writer" /\ task'[u].at = "unwind")
  PROVE  LogInv'
<1>0. <<>> \in Seq(Log!Rec)
  BY NothingIs
<1>1. PICK j \in JobRec : j = Log!Job(t, o, <<>>) /\ j.rows = <<>>
  BY <1>0, JobIs, ZenonT(30)
<1>2. jobs' \in Seq(JobRec)
  BY <1>1, AddIs DEF LogInv
<1>3. LogTyped'
  <2>1. LogTyped
    BY DEF LogInv
  <2> QED BY <1>2, <2>1 DEF LogTyped, JobRec, TaskRec
<1>4. RowsInOrder'
  <2>1. RowsInOrder
    BY DEF LogInv
  <2>2. table' = table /\ txn' = txn
    OBVIOUS
  <2> QED BY ONLY <2>1, <2>2 DEF RowsInOrder, InOrder, Before, Els, Precedes
<1>5. JobsInOrder' /\ Handed' \subseteq Handed
  <2>1. InOrder(j.rows) /\ Els(j.rows) = {} /\ Before(Handed, Els(j.rows))
    BY <1>1, NothingIs DEF Before
  <2> QED BY <1>1, <2>1, AddKeeps DEF LogInv
<1>6. WaitingInOrder'
  BY <1>5, WaitingKept DEF LogInv
<1>7. StopSound'
  BY StopKept DEF LogInv
<1> QED BY <1>3, <1>4, <1>5, <1>6, <1>7 DEF LogInv

(* The thread has run a job.                                               *)
LEMMA RunKeeps ==
  ASSUME LogInv, jobs # <<>>, jobs' = Tail(jobs),
         UNCHANGED <<made, queue, lane, shed, running, swept, others>>,
         failed' \subseteq Log!Rec, faultsQ' \in 0 .. MaxFaults,
         task' \in [Log!Task -> TaskRec],
         \A u \in Log!Task : task'[u].at \in {task[u].at, "idle", "inserted", "refused", "committed"}
                             \/ (u = "writer" /\ task'[u].at = "gone"),
         table' \in Seq(Log!Rec), txn' \in Seq(Log!Rec),
         Els(table') \cup Els(txn') \subseteq Els(table) \cup Els(txn) \cup Els(jobs[1].rows),
         RowsInOrder'
  PROVE  LogInv'
<1>1. LogTyped'
  BY TailIs DEF LogInv, LogTyped, JobRec, TaskRec
<1>2. JobsInOrder' /\ Handed' \subseteq Handed
  BY DoneKeeps DEF LogInv
<1>3. WaitingInOrder'
  BY <1>2, WaitingKept DEF LogInv
<1>4. StopSound'
  BY StopKept DEF LogInv
<1> QED BY <1>1, <1>2, <1>3, <1>4 DEF LogInv

LEMMA InsertKeeps ==
  ASSUME LogInv, Log!Insert
  PROVE  LogInv'
<1>1. /\ jobs # <<>> /\ jobs' = Tail(jobs)
      /\ UNCHANGED <<made, queue, lane, shed, failed, table, running, swept, others>>
  BY DEF Log!Insert
<1>2. PICK j \in JobRec : j = jobs[1] /\ j = Head(jobs)
  BY <1>1, TailIs DEF LogInv
<1>3. j.rows \in Seq(Log!Rec) /\ InOrder(j.rows) /\ Before(Els(table) \cup Els(txn), Els(j.rows))
  BY <1>1, <1>2, TailIs DEF LogInv, JobsInOrder, JobRec
<1>4. txn \in Seq(Log!Rec) /\ table \in Seq(Log!Rec) /\ InOrder(table) /\ InOrder(txn) /\ Before(Els(table), Els(txn))
  BY DEF LogInv, LogTyped, RowsInOrder
<1>5. PICK n \in 0 .. Len(j.rows) : txn' = txn \o SubSeq(j.rows, 1, n)
  <2>1. CASE txn' = txn \o j.rows
    <3>1. SubSeq(j.rows, 1, Len(j.rows)) = j.rows /\ Len(j.rows) \in 0 .. Len(j.rows)
      BY <1>3
    <3> QED BY <2>1, <3>1
  <2>2. CASE \E n \in 0 .. Len(j.rows) : txn' = txn \o SubSeq(j.rows, 1, n)
    BY <2>2
  <2> QED BY <1>2, <2>1, <2>2 DEF Log!Insert
<1>6. PICK p : p = SubSeq(j.rows, 1, n)
  OBVIOUS
<1>7. p \in Seq(Log!Rec) /\ Els(p) \subseteq Els(j.rows) /\ InOrder(p)
  BY <1>3, <1>6, SplitIs
<1>8. Before(Els(table), Els(p)) /\ Before(Els(txn), Els(p))
  BY <1>3, <1>7 DEF Before
<1>9. txn' \in Seq(Log!Rec) /\ Els(txn') = Els(txn) \cup Els(p) /\ InOrder(txn')
  BY <1>4, <1>5, <1>6, <1>7, <1>8, JoinIs
<1>10. RowsInOrder'
  <2>1. InOrder(table') /\ InOrder(txn') /\ Before(Els(table'), Els(txn'))
    BY <1>1, <1>4, <1>8, <1>9 DEF Before
  <2> QED BY ONLY <2>1 DEF RowsInOrder, InOrder, Before, Els, Precedes
<1>11. /\ task' \in [Log!Task -> TaskRec] /\ faultsQ' \in 0 .. MaxFaults
       /\ \A u \in Log!Task : task'[u].at \in {task[u].at, "inserted", "refused"}
  <2>1. CASE task' = Log!Told(j, "inserted") /\ UNCHANGED faultsQ
    BY <2>1, ToldIs DEF Log!At, LogInv, LogTyped
  <2>2. CASE task' = Log!Told(j, "refused") /\ faultsQ < MaxFaults /\ faultsQ' = faultsQ + 1
    <3>1. faultsQ' \in 0 .. MaxFaults
      BY <2>2, LogConstants DEF LogInv, LogTyped
    <3> QED BY <2>2, <3>1, ToldIs DEF Log!At, LogInv
  <2> QED BY <1>2, <2>1, <2>2 DEF Log!Insert
<1>12. failed' \subseteq Log!Rec /\ table' \in Seq(Log!Rec)
  BY <1>1 DEF LogInv, LogTyped
<1>13. Els(table') \cup Els(txn') \subseteq Els(table) \cup Els(txn) \cup Els(jobs[1].rows)
  BY <1>1, <1>2, <1>7, <1>9
<1> QED BY <1>1, <1>9, <1>10, <1>11, <1>12, <1>13, RunKeeps

LEMMA CommitKeeps ==
  ASSUME LogInv, Log!Commit
  PROVE  LogInv'
<1>1. /\ jobs # <<>> /\ jobs' = Tail(jobs) /\ table' = table \o txn /\ txn' = <<>>
      /\ UNCHANGED <<made, queue, lane, shed, failed, running, swept, others, faultsQ>>
  BY DEF Log!Commit
<1>2. PICK j \in JobRec : j = jobs[1] /\ j = Head(jobs)
  BY <1>1, TailIs DEF LogInv
<1>3. txn \in Seq(Log!Rec) /\ table \in Seq(Log!Rec) /\ InOrder(table) /\ InOrder(txn) /\ Before(Els(table), Els(txn))
  BY DEF LogInv, LogTyped, RowsInOrder
<1>4. table' \in Seq(Log!Rec) /\ Els(table') = Els(table) \cup Els(txn) /\ InOrder(table')
  BY <1>1, <1>3, JoinIs
<1>5. txn' \in Seq(Log!Rec) /\ Els(txn') = {} /\ InOrder(txn')
  BY <1>1, NothingIs
<1>6. RowsInOrder'
  <2>1. Before(Els(table'), Els(txn'))
    BY <1>5 DEF Before
  <2> QED BY ONLY <1>4, <1>5, <2>1 DEF RowsInOrder, InOrder, Before, Els, Precedes
<1>7. /\ task' \in [Log!Task -> TaskRec]
      /\ \A u \in Log!Task : task'[u].at \in {task[u].at, "committed"}
  <2>1. task' = Log!Told(j, "committed")
    BY <1>2 DEF Log!Commit
  <2> QED BY <2>1, ToldIs DEF Log!At, LogInv
<1>8. failed' \subseteq Log!Rec /\ faultsQ' \in 0 .. MaxFaults
  BY <1>1 DEF LogInv, LogTyped
<1>9. Els(table') \cup Els(txn') \subseteq Els(table) \cup Els(txn) \cup Els(jobs[1].rows)
  BY <1>4, <1>5
<1> QED BY <1>1, <1>4, <1>5, <1>6, <1>7, <1>8, <1>9, RunKeeps

LEMMA RollbackKeeps ==
  ASSUME LogInv, Log!Rollback
  PROVE  LogInv'
<1>1. /\ jobs # <<>> /\ jobs' = Tail(jobs) /\ txn' = <<>>
      /\ UNCHANGED <<made, queue, lane, shed, table, running, swept, others, faultsQ>>
  BY DEF Log!Rollback
<1>2. PICK j \in JobRec : j = jobs[1] /\ j = Head(jobs)
  BY <1>1, TailIs DEF LogInv
<1>3. PICK t \in Log!Task : t = j.by
  BY DEF JobRec
<1>4. task[t].rows \in Seq(Log!Rec) /\ failed \subseteq Log!Rec
  BY DEF LogInv, LogTyped
<1>5. failed' \subseteq Log!Rec
  <2>1. failed' \in {failed, failed \cup Log!ToSet(task[t].rows)}
    BY <1>2, <1>3 DEF Log!Rollback
  <2> QED BY <1>4, <2>1, ToSetIs
<1>6. Log!Rest \in TaskRec /\ Log!Over \in TaskRec /\ Log!Rest.at = "idle" /\ Log!Over.at = "gone"
  BY NothingIs DEF Log!Rest, Log!Over, TaskRec, Log!At
<1>7. /\ task' \in [Log!Task -> TaskRec]
      /\ \A u \in Log!Task : task'[u].at \in {task[u].at, "idle"} \/ (u = "writer" /\ task'[u].at = "gone")
  <2>1. CASE task[t].at = "rollback"
    <3>1. task' = [task EXCEPT ![t] = Log!Rest]
      BY <1>2, <1>3, <2>1 DEF Log!Rollback
    <3> QED BY <1>6, <3>1, TaskSet DEF LogInv
  <2>2. CASE task[t].at = "unwind"
    <3>1. task' = [task EXCEPT ![t] = Log!Over]
      BY <1>2, <1>3, <2>2 DEF Log!Rollback
    <3>2. t = "writer"
      BY <2>2 DEF LogInv, StopSound
    <3> QED BY <1>6, <3>1, <3>2, TaskSet DEF LogInv
  <2>3. CASE task[t].at \notin {"rollback", "unwind"}
    <3>1. task' = task
      BY <1>2, <1>3, <2>3 DEF Log!Rollback
    <3> QED BY <3>1 DEF LogInv, LogTyped, TaskRec
  <2> QED BY <2>1, <2>2, <2>3
<1>8. txn' \in Seq(Log!Rec) /\ Els(txn') = {} /\ InOrder(txn')
  BY <1>1, NothingIs
<1>9. RowsInOrder'
  <2>1. InOrder(table') /\ InOrder(txn') /\ Before(Els(table'), Els(txn'))
    BY <1>1, <1>8 DEF LogInv, RowsInOrder, Before
  <2> QED BY ONLY <2>1 DEF RowsInOrder, InOrder, Before, Els, Precedes
<1>10. table' \in Seq(Log!Rec) /\ faultsQ' \in 0 .. MaxFaults
  BY <1>1 DEF LogInv, LogTyped
<1>11. Els(table') \cup Els(txn') \subseteq Els(table) \cup Els(txn) \cup Els(jobs[1].rows)
  BY <1>1, <1>8
<1> QED BY <1>1, <1>5, <1>7, <1>8, <1>9, <1>10, <1>11, RunKeeps

-----------------------------------------------------------------------------
(* A sibling publishes: the head of its queue follows what is in its lane. *)
LEMMA RoomIs ==
  ASSUME LogTyped, NEW s \in Seq(Log!Rec)
  PROVE  /\ Log!Room(s) \in Seq(Log!Rec) /\ Len(lane) + Len(Log!Room(s)) <= LaneSlots
         /\ Els(Log!Room(s)) \subseteq Els(s)
         /\ InOrder(s) => InOrder(Log!Room(s))
<1>1. PICK m \in Nat, d \in Nat : m = Len(s) /\ d = LaneSlots - Len(lane)
  <2>1. Len(s) \in Nat /\ LaneSlots - Len(lane) \in Nat
    BY LogConstants DEF LogTyped
  <2> QED BY <2>1
<1>2. PICK n : n = Log!Min({m, d})
  OBVIOUS
<1>3. n \in {m, d} /\ n <= m /\ n <= d
  BY <1>1, <1>2 DEF Log!Min
<1>4. n \in 0 .. Len(s)
  BY <1>1, <1>3
<1>5. Log!Room(s) = SubSeq(s, 1, n)
  BY <1>1, <1>2 DEF Log!Room
<1>6. Len(lane) + n <= LaneSlots
  <2>1. Len(lane) \in Nat /\ LaneSlots \in Nat
    BY LogConstants DEF LogTyped
  <2> QED BY <1>1, <1>3, <2>1
<1> QED BY <1>4, <1>5, <1>6, SplitIs

LEMMA PublishKeeps ==
  ASSUME LogInv, Log!Publish
  PROVE  LogInv'
<1>1. PICK s, b, l, r : /\ s = queue["sibling"] /\ b = Log!Batch("sibling") /\ l = Log!Left("sibling")
                        /\ r = Log!Room(b)
  OBVIOUS
<1>2. /\ lane' = lane \o r /\ shed' = shed \cup (Log!ToSet(b) \ Log!ToSet(r))
      /\ queue' = [queue EXCEPT !["sibling"] = l]
      /\ UNCHANGED <<made, failed, task, jobs, txn, table, running, swept, others, faultsQ>>
  BY <1>1 DEF Log!Publish, Log!db
<1>3. "sibling" \in Log!Process /\ "primary" \in Log!Process
  BY DEF Log!Process
<1>4. LogTyped /\ s \in Seq(Log!Rec) /\ lane \in Seq(Log!Rec)
  BY <1>1, <1>3 DEF LogInv, LogTyped
<1>5. /\ InOrder(s) /\ InOrder(lane) /\ Before(Els(lane), Els(s)) /\ \A x \in Els(s) : x[1] = "sibling"
      /\ \A x \in Els(lane) : x[1] = "sibling"
      /\ \A x \in Els(queue["primary"]) : x[1] = "primary"
      /\ InOrder(queue["primary"])
  BY <1>1, <1>3 DEF LogInv, WaitingInOrder
<1>6. /\ b \in Seq(Log!Rec) /\ l \in Seq(Log!Rec) /\ Len(l) <= Len(s)
      /\ Els(b) \subseteq Els(s) /\ Els(l) \subseteq Els(s)
      /\ InOrder(b) /\ InOrder(l) /\ Before(Els(b), Els(l))
  BY <1>1, <1>3, <1>4, <1>5, TakenIs
<1>7. r \in Seq(Log!Rec) /\ Len(lane) + Len(r) <= LaneSlots /\ Els(r) \subseteq Els(b) /\ InOrder(r)
  <2>1. r = Log!Room(b) /\ b \in Seq(Log!Rec) /\ LogTyped /\ InOrder(b)
    BY <1>1, <1>4, <1>6
  <2>2. /\ Log!Room(b) \in Seq(Log!Rec) /\ Len(lane) + Len(Log!Room(b)) <= LaneSlots
        /\ Els(Log!Room(b)) \subseteq Els(b)
        /\ InOrder(b) => InOrder(Log!Room(b))
    BY <2>1, RoomIs
  <2> QED BY <2>1, <2>2
<1>8. Before(Els(lane), Els(r)) /\ Before(Els(lane), Els(l)) /\ Before(Els(r), Els(l))
  BY <1>5, <1>6, <1>7 DEF Before
<1>9. /\ lane' \in Seq(Log!Rec) /\ Len(lane') <= LaneSlots /\ InOrder(lane')
      /\ Els(lane') = Els(lane) \cup Els(r)
  BY <1>2, <1>4, <1>5, <1>7, <1>8, JoinIs
<1>10. /\ queue' \in [Log!Process -> Seq(Log!Rec)] /\ queue'["sibling"] = l
       /\ queue'["primary"] = queue["primary"]
  BY <1>2, <1>3, <1>6 DEF LogInv, LogTyped
<1>11. \A w \in Log!Process : Len(queue'[w]) <= QueueSize
  <2>1. Len(l) \in Nat /\ Len(s) \in Nat /\ Len(s) <= QueueSize /\ Len(queue["primary"]) <= QueueSize
    BY <1>1, <1>3, <1>4, <1>6 DEF LogTyped
  <2>2. Len(l) <= QueueSize
    BY <1>6, <2>1, LogConstants
  <2> QED BY <1>10, <2>1, <2>2 DEF Log!Process
<1>12. shed' \subseteq Log!Rec
  BY <1>2, <1>6, ToSetIs DEF LogInv, LogTyped
<1>13. LogTyped'
  BY <1>2, <1>9, <1>10, <1>11, <1>12 DEF LogInv, LogTyped
<1>14. Handed' = Handed /\ RowsInOrder' /\ JobsInOrder'
  <2>1. Handed' = Handed
    BY <1>2 DEF Handed, Els
  <2>2. RowsInOrder'
    <3>1. RowsInOrder
      BY DEF LogInv
    <3>2. table' = table /\ txn' = txn
      BY <1>2
    <3> QED BY ONLY <3>1, <3>2 DEF RowsInOrder, InOrder, Before, Els, Precedes
  <2>3. JobsInOrder' = JobsInOrder
    <3>1. table' = table /\ txn' = txn /\ jobs' = jobs
      BY <1>2
    <3> QED BY <3>1 DEF JobsInOrder
  <2> QED BY <2>1, <2>2, <2>3 DEF LogInv
<1>15. Waiting' \subseteq Waiting
  <2>1. Waiting' = Els(lane') \cup Els(queue'["primary"]) \cup Els(queue'["sibling"])
    BY DEF Waiting, Els
  <2> QED BY <1>1, <1>6, <1>7, <1>9, <1>10, <2>1 DEF Waiting
<1>16. WaitingInOrder'
  <2>1. \A w \in Log!Process : InOrder(queue'[w]) /\ Before(Els(lane'), Els(queue'[w]))
                              /\ \A x \in Els(queue'[w]) : x[1] = w
    <3>1. InOrder(l) /\ Before(Els(lane'), Els(l)) /\ \A x \in Els(l) : x[1] = "sibling"
      BY <1>5, <1>6, <1>8, <1>9 DEF Before
    <3>2. \A x \in Els(lane') : x[1] = "sibling"
      BY <1>5, <1>6, <1>7, <1>9
    <3>3. Before(Els(lane'), Els(queue["primary"]))
      BY <1>5, <3>2 DEF Before, Precedes
    <3> QED BY <1>5, <1>10, <3>1, <3>3 DEF Log!Process
  <2>2. \A x \in Handed' \cup Waiting' : x[2] <= made'[x[1]]
    BY <1>2, <1>14, <1>15 DEF LogInv, WaitingInOrder
  <2>3. Before(Handed', Waiting')
    BY <1>14, <1>15 DEF LogInv, WaitingInOrder, Before
  <2>4. InOrder(lane') /\ \A x \in Els(lane') : x[1] = "sibling"
    BY <1>5, <1>6, <1>7, <1>9
  <2> QED BY <2>1, <2>2, <2>3, <2>4 DEF WaitingInOrder, InOrder, Before, Els, Precedes
<1>17. StopSound'
  BY <1>2, <1>10 DEF LogInv, StopSound
<1> QED BY <1>13, <1>14, <1>16, <1>17 DEF LogInv

(* A flush: the head of the primary's queue and the lane become a batch.   *)
LEMMA FlushKeeps ==
  ASSUME LogInv, NEW t \in Log!Task, Log!Flush(t),
         UNCHANGED <<made, shed, failed, txn, table, others, faultsQ>>,
         running' \in BOOLEAN, swept' \in BOOLEAN
  PROVE  /\ LogTyped' /\ RowsInOrder' /\ JobsInOrder' /\ WaitingInOrder'
         /\ queue["primary"] = <<>> => queue'["primary"] = <<>>
         /\ \A u \in Log!Task : task'[u].at \in {task[u].at, "insert"}
         /\ task'[t].at = "insert"
<1>1. PICK p, b, l, r : /\ p = queue["primary"] /\ b = Log!Batch("primary") /\ l = Log!Left("primary")
                        /\ r = b \o lane
  OBVIOUS
<1>2. /\ queue' = [queue EXCEPT !["primary"] = l] /\ lane' = <<>>
      /\ jobs' = Append(jobs, Log!Job(t, "insert", r))
      /\ task' = [task EXCEPT ![t] = [at |-> "insert", rows |-> r]]
  BY <1>1 DEF Log!Flush, Log!Drained
<1>3. "sibling" \in Log!Process /\ "primary" \in Log!Process
  BY DEF Log!Process
<1>4. LogTyped /\ p \in Seq(Log!Rec) /\ lane \in Seq(Log!Rec)
  BY <1>1, <1>3 DEF LogInv, LogTyped
<1>5. /\ InOrder(p) /\ InOrder(lane) /\ \A x \in Els(p) : x[1] = "primary"
      /\ \A x \in Els(lane) : x[1] = "sibling"
      /\ \A x \in Els(queue["sibling"]) : x[1] = "sibling"
      /\ InOrder(queue["sibling"]) /\ Before(Els(lane), Els(queue["sibling"]))
  BY <1>1, <1>3 DEF LogInv, WaitingInOrder
<1>6. /\ b \in Seq(Log!Rec) /\ l \in Seq(Log!Rec) /\ Len(l) <= Len(p)
      /\ Els(b) \subseteq Els(p) /\ Els(l) \subseteq Els(p)
      /\ InOrder(b) /\ InOrder(l) /\ Before(Els(b), Els(l))
      /\ p = <<>> => l = <<>>
  BY <1>1, <1>3, <1>4, <1>5, TakenIs
<1>7. Before(Els(b), Els(lane))
  BY <1>5, <1>6 DEF Before, Precedes
<1>8. r \in Seq(Log!Rec) /\ Els(r) = Els(b) \cup Els(lane) /\ InOrder(r)
  <2>1. r = b \o lane /\ b \in Seq(Log!Rec) /\ lane \in Seq(Log!Rec) /\ InOrder(b) /\ InOrder(lane)
    BY <1>1, <1>4, <1>5, <1>6
  <2> QED BY <1>7, <2>1, JoinIs
<1>9. Els(r) \subseteq Waiting
  BY <1>1, <1>6, <1>8 DEF Waiting
<1>10. PICK j \in JobRec : j = Log!Job(t, "insert", r) /\ j.rows = r
  BY <1>8, JobIs DEF Ops
<1>11. JobsInOrder' /\ Handed' \subseteq Handed \cup Els(r)
  <2>1. Before(Handed, Els(j.rows)) /\ InOrder(j.rows)
    BY <1>8, <1>9, <1>10 DEF LogInv, WaitingInOrder, Before
  <2> QED BY <1>2, <1>10, <2>1, AddKeeps DEF LogInv
<1>12. RowsInOrder'
  <2>1. RowsInOrder
    BY DEF LogInv
  <2>2. table' = table /\ txn' = txn
    OBVIOUS
  <2> QED BY ONLY <2>1, <2>2 DEF RowsInOrder, InOrder, Before, Els, Precedes
<1>13. /\ queue' \in [Log!Process -> Seq(Log!Rec)] /\ queue'["primary"] = l
       /\ queue'["sibling"] = queue["sibling"]
  BY <1>2, <1>3, <1>6 DEF LogInv, LogTyped
<1>14. \A w \in Log!Process : Len(queue'[w]) <= QueueSize
  <2>1. Len(l) \in Nat /\ Len(p) \in Nat /\ Len(p) <= QueueSize /\ Len(queue["sibling"]) <= QueueSize
    BY <1>1, <1>3, <1>4, <1>6 DEF LogTyped
  <2>2. Len(l) <= QueueSize
    BY <1>6, <2>1, LogConstants
  <2> QED BY <1>13, <2>1, <2>2 DEF Log!Process
<1>15. lane' \in Seq(Log!Rec) /\ Len(lane') <= LaneSlots /\ Els(lane') = {} /\ InOrder(lane')
  BY <1>2, NothingIs, LogConstants
<1>16. /\ task' \in [Log!Task -> TaskRec] /\ task'[t].at = "insert"
       /\ \A u \in Log!Task : u # t => task'[u] = task[u]
  <2>1. PICK f : f = [at |-> "insert", rows |-> r]
    OBVIOUS
  <2>2. f \in TaskRec /\ f.at = "insert"
    BY <1>8, <2>1 DEF TaskRec, Log!At
  <2> QED BY <1>2, <1>4, <2>1, <2>2, TaskSet
<1>17. jobs' \in Seq(JobRec)
  BY <1>2, <1>4, <1>10, AddIs
<1>18. LogTyped'
  BY <1>13, <1>14, <1>15, <1>16, <1>17 DEF LogInv, LogTyped, JobRec, TaskRec
<1>19. Waiting' = Els(l) \cup Els(queue["sibling"]) /\ Waiting' \subseteq Waiting
  <2>1. Waiting' = Els(lane') \cup Els(queue'["primary"]) \cup Els(queue'["sibling"])
    BY DEF Waiting, Els
  <2> QED BY <1>1, <1>6, <1>13, <1>15, <2>1 DEF Waiting
<1>20. WaitingInOrder'
  <2>1. \A w \in Log!Process : InOrder(queue'[w]) /\ Before(Els(lane'), Els(queue'[w]))
                              /\ \A x \in Els(queue'[w]) : x[1] = w
    <3>1. \A x \in Els(l) : x[1] = "primary"
      BY <1>5, <1>6
    <3>2. \A S : Before(Els(lane'), S)
      BY <1>15 DEF Before
    <3> QED BY <1>5, <1>6, <1>13, <3>1, <3>2 DEF Log!Process
  <2>2. \A x \in Handed' \cup Waiting' : x[2] <= made'[x[1]]
    BY <1>9, <1>11, <1>19 DEF LogInv, WaitingInOrder
  <2>3. Before(Handed', Waiting')
    <3>1. Before(Handed, Waiting)
      BY DEF LogInv, WaitingInOrder
    <3>2. Before(Els(b), Els(queue["sibling"])) /\ Before(Els(lane), Els(l))
      BY <1>5, <1>6 DEF Before, Precedes
    <3>3. Before(Els(r), Waiting')
      <4>1. Before(Els(b), Els(l)) /\ Before(Els(lane), Els(queue["sibling"]))
        BY <1>5, <1>6
      <4>2. \A x \in Els(b) \cup Els(lane), y \in Els(l) \cup Els(queue["sibling"]) : Precedes(x, y)
        BY <3>2, <4>1 DEF Before
      <4> QED BY <1>8, <1>19, <4>2 DEF Before
    <3> QED BY <1>11, <1>19, <3>1, <3>3 DEF Before
  <2>4. InOrder(lane') /\ \A x \in Els(lane') : x[1] = "sibling"
    BY <1>15
  <2> QED BY <2>1, <2>2, <2>3, <2>4 DEF WaitingInOrder, InOrder, Before, Els, Precedes
<1>21. queue["primary"] = <<>> => queue'["primary"] = <<>>
  BY <1>1, <1>6, <1>13
<1>22. \A u \in Log!Task : task'[u].at \in {task[u].at, "insert"}
  BY <1>16
<1> QED BY <1>11, <1>12, <1>16, <1>18, <1>20, <1>21, <1>22

LEMMA StopRoundKeeps ==
  ASSUME LogInv, Log!StopRound, running' = FALSE, swept => ~running
  PROVE  LogInv'
<1>1. "stop" \in Log!Task /\ "primary" \in Log!Process
  BY DEF Log!Task, Log!Process
<1>2. /\ swept' = (queue["primary"] = <<>>)
      /\ UNCHANGED <<made, shed, failed, txn, table, others, faultsQ>>
  BY DEF Log!StopRound
<1>3. swept' \in BOOLEAN /\ running' \in BOOLEAN
  BY <1>2
<1>4. CASE Log!Batch("primary") \o lane = <<>> \/ swept
  <2>1. task' = [task EXCEPT !["stop"] = Log!Over] /\ UNCHANGED <<queue, lane, jobs>>
    BY <1>4 DEF Log!StopRound
  <2>2. queue["primary"] = <<>>
    <3>1. CASE swept
      BY <3>1 DEF LogInv, StopSound
    <3>2. CASE Log!Batch("primary") \o lane = <<>>
      <4>1. PICK b, l : b = Log!Batch("primary") /\ l = lane
        OBVIOUS
      <4>2. b \in Seq(Log!Rec) /\ l \in Seq(Log!Rec) /\ (b = <<>> => queue["primary"] = <<>>)
        BY <1>1, <4>1, TakenIs DEF LogInv, LogTyped
      <4>3. b \o l = <<>>
        BY <3>2, <4>1
      <4>4. Len(b) + Len(l) = 0
        BY <4>2, <4>3, JoinIs, NothingIs
      <4>5. Len(b) = 0
        BY <4>2, <4>4
      <4> QED BY <4>2, <4>5, EmptySeq
    <3> QED BY <1>4, <3>1, <3>2
  <2>3. Log!Over \in TaskRec /\ Log!Over.at = "gone"
    BY NothingIs DEF Log!Over, TaskRec, Log!At
  <2>4. /\ task' \in [Log!Task -> TaskRec] /\ task'["stop"].at = "gone"
        /\ \A u \in Log!Task : u # "stop" => task'[u] = task[u]
    BY <1>1, <2>1, <2>3, TaskSet DEF LogInv
  <2>5. LogTyped'
    BY <1>2, <1>3, <2>1, <2>4 DEF LogInv, LogTyped, TaskRec
  <2>6. RowsInOrder' /\ JobsInOrder' /\ WaitingInOrder'
    BY <1>2, <2>1, OrderKept
  <2>7. StopSound'
    BY <1>2, <2>1, <2>2, <2>4 DEF LogInv, StopSound
  <2> QED BY <2>5, <2>6, <2>7 DEF LogInv
<1>5. CASE ~(Log!Batch("primary") \o lane = <<>> \/ swept)
  <2>1. Log!Flush("stop")
    BY <1>5 DEF Log!StopRound
  <2>2. /\ LogTyped' /\ RowsInOrder' /\ JobsInOrder' /\ WaitingInOrder'
        /\ queue["primary"] = <<>> => queue'["primary"] = <<>>
        /\ \A u \in Log!Task : task'[u].at \in {task[u].at, "insert"}
        /\ task'["stop"].at = "insert"
    BY <1>1, <1>2, <1>3, <2>1, FlushKeeps
  <2>3. StopSound'
    BY <1>2, <2>2 DEF LogInv, StopSound
  <2> QED BY <2>2, <2>3 DEF LogInv
<1> QED BY <1>4, <1>5

-----------------------------------------------------------------------------
LEMMA LogInit == Log!Init => LogInv
<1> SUFFICES ASSUME Log!Init PROVE LogInv
  OBVIOUS
<1>1. /\ table = <<>> /\ txn = <<>> /\ jobs = <<>> /\ lane = <<>> /\ \A w \in Log!Process : queue[w] = <<>>
      /\ running = TRUE /\ swept = FALSE
  BY DEF Log!Init
<1>2. Log!Rest \in TaskRec /\ Log!Rest.at = "idle"
  BY NothingIs DEF Log!Rest, TaskRec, Log!At
<1>3. task \in [Log!Task -> TaskRec] /\ \A t \in Log!Task : task[t].at = "idle"
  <2>1. task = [t \in Log!Task |-> Log!Rest]
    BY DEF Log!Init
  <2> QED BY <1>2, <2>1
<1>4. made \in [Log!Process -> Nat] /\ \A w \in Log!Process : made[w] <= MaxRecords[w]
  BY LogConstants DEF Log!Init
<1>5. queue \in [Log!Process -> Seq(Log!Rec)] /\ \A w \in Log!Process : Len(queue[w]) <= QueueSize
  BY NothingIs, LogConstants DEF Log!Init
<1>6. shed \subseteq Log!Rec /\ failed \subseteq Log!Rec /\ others \in 0 .. MaxOther /\ faultsQ \in 0 .. MaxFaults
  BY LogConstants DEF Log!Init
<1>7. LogTyped
  <2>1. jobs \in Seq(JobRec)
    BY <1>1
  <2>2. lane \in Seq(Log!Rec) /\ Len(lane) <= LaneSlots /\ txn \in Seq(Log!Rec) /\ table \in Seq(Log!Rec)
    BY <1>1, NothingIs, LogConstants
  <2> QED BY <1>1, <1>3, <1>4, <1>5, <1>6, <2>1, <2>2 DEF LogTyped, TaskRec, JobRec
<1>8. 1 .. Len(jobs) = {}
  BY <1>1
<1>9. Els(table) = {} /\ Els(txn) = {} /\ Els(lane) = {} /\ \A w \in Log!Process : Els(queue[w]) = {} /\ InOrder(queue[w])
  BY <1>1, NothingIs
<1>10. Handed = {} /\ Waiting = {}
  BY <1>8, <1>9 DEF Handed, Waiting, Log!Process
<1>11. RowsInOrder /\ JobsInOrder /\ WaitingInOrder
  BY <1>1, <1>8, <1>9, <1>10, NothingIs DEF RowsInOrder, JobsInOrder, WaitingInOrder, Before
<1>12. StopSound
  BY <1>1, <1>3 DEF StopSound, Log!Task
<1> QED BY <1>7, <1>11, <1>12 DEF LogInv

LEMMA LogStep == LogInv /\ [Log!Next]_(Log!vars) => LogInv'
<1> SUFFICES ASSUME LogInv, [Log!Next]_(Log!vars) PROVE LogInv'
  OBVIOUS
<1>1. {"writer", "stop", "other"} = Log!Task
  BY DEF Log!Task
<1>2. task \in [Log!Task -> TaskRec] /\ {running, swept} \subseteq BOOLEAN /\ others \in 0 .. MaxOther
  BY DEF LogInv, LogTyped, TaskRec
<1>3. CASE UNCHANGED Log!vars
  <2>1. UNCHANGED <<made, queue, lane, shed, failed, task, jobs, txn, table, running, swept, others, faultsQ>>
    BY <1>3 DEF Log!vars
  <2>2. LogTyped' /\ StopSound'
    BY <2>1 DEF LogInv, LogTyped, StopSound
  <2> QED BY <2>1, <2>2, OrderKept DEF LogInv
<1>4. ASSUME NEW t \in Log!Task, Log!Inserted(t) PROVE LogInv'
  <2>1. /\ jobs' = Append(jobs, Log!Job(t, "commit", <<>>)) /\ task' = [task EXCEPT ![t].at = "commit"]
        /\ UNCHANGED <<made, queue, lane, shed, failed, txn, table, running, swept, others, faultsQ>>
    BY <1>4 DEF Log!Inserted
  <2>2. task' \in [Log!Task -> TaskRec] /\ \A u \in Log!Task : task'[u].at \in {task[u].at, "commit"}
    BY <2>1, TaskMoves DEF Log!At, LogInv
  <2> QED BY <1>2, <2>1, <2>2, AskKeeps DEF Ops
<1>5. ASSUME NEW t \in Log!Task, Log!Refused(t) PROVE LogInv'
  <2>1. /\ jobs' = Append(jobs, Log!Job(t, "rollback", <<>>)) /\ task' = [task EXCEPT ![t].at = "rollback"]
        /\ UNCHANGED <<made, queue, lane, shed, failed, txn, table, running, swept, others, faultsQ>>
    BY <1>5 DEF Log!Refused
  <2>2. task' \in [Log!Task -> TaskRec] /\ \A u \in Log!Task : task'[u].at \in {task[u].at, "rollback"}
    BY <2>1, TaskMoves DEF Log!At, LogInv
  <2> QED BY <1>2, <2>1, <2>2, AskKeeps DEF Ops
<1>6. ASSUME NEW t \in Log!Task, Log!Committed(t) PROVE LogInv'
  <2>1. /\ task' = [task EXCEPT ![t] = Log!Rest]
        /\ UNCHANGED <<made, queue, lane, shed, failed, jobs, txn, table, running, swept, others, faultsQ>>
    BY <1>6 DEF Log!Committed, Log!db
  <2>2. Log!Rest \in TaskRec /\ Log!Rest.at = "idle"
    BY NothingIs DEF Log!Rest, TaskRec, Log!At
  <2>3. task' \in [Log!Task -> TaskRec] /\ \A u \in Log!Task : task'[u].at \in {task[u].at, "idle"}
    BY <2>1, <2>2, TaskSet DEF LogInv
  <2>4. LogTyped'
    BY <2>1, <2>3 DEF LogInv, LogTyped, TaskRec
  <2>5. RowsInOrder' /\ JobsInOrder' /\ WaitingInOrder'
    BY <2>1, OrderKept
  <2>6. StopSound'
    BY <2>1, <2>3, StopKept DEF LogInv
  <2> QED BY <2>4, <2>5, <2>6 DEF LogInv
<1>7. CASE Log!OtherWrite
  <2>1. /\ jobs' = Append(jobs, Log!Job("other", "insert", <<>>))
        /\ task' = [task EXCEPT !["other"] = [at |-> "insert", rows |-> <<>>]]
        /\ others < MaxOther /\ others' = others + 1
        /\ UNCHANGED <<made, queue, lane, shed, failed, txn, table, running, swept, faultsQ>>
    BY <1>7 DEF Log!OtherWrite
  <2>2. PICK f : f = [at |-> "insert", rows |-> <<>>]
    OBVIOUS
  <2>3. task' \in [Log!Task -> TaskRec] /\ \A u \in Log!Task : task'[u].at \in {task[u].at, "insert"}
    <3>1. f \in TaskRec /\ f.at = "insert"
      BY <2>2, NothingIs DEF TaskRec, Log!At
    <3> QED BY <1>1, <2>1, <2>2, <3>1, TaskSet DEF LogInv
  <2>4. others' \in 0 .. MaxOther
    BY <1>2, <2>1, LogConstants
  <2> QED BY <1>1, <2>1, <2>3, <2>4, AskKeeps DEF Ops
<1>8. CASE Log!WriterFlush
  <2>1. /\ running /\ Log!Flush("writer")
        /\ UNCHANGED <<made, shed, failed, txn, table, running, swept, others, faultsQ>>
    BY <1>8 DEF Log!WriterFlush
  <2>2. /\ LogTyped' /\ RowsInOrder' /\ JobsInOrder' /\ WaitingInOrder'
        /\ queue["primary"] = <<>> => queue'["primary"] = <<>>
        /\ \A u \in Log!Task : task'[u].at \in {task[u].at, "insert"}
    BY <1>1, <1>2, <2>1, FlushKeeps
  <2>3. StopSound'
    BY <2>1, <2>2, StopKept DEF LogInv
  <2> QED BY <2>2, <2>3 DEF LogInv
<1>9. CASE Log!Stop \/ Log!StopFlush
  <2>1. Log!StopRound /\ running' = FALSE
    BY <1>2, <1>9 DEF Log!Stop, Log!StopFlush
  <2>2. swept => ~running
    BY DEF LogInv, StopSound
  <2> QED BY <2>1, <2>2, StopRoundKeeps
<1>10. CASE Log!WriterCancelled
  <2>1. UNCHANGED <<made, queue, lane, shed, failed, txn, table, running, swept, others, faultsQ>>
    BY <1>10 DEF Log!WriterCancelled
  <2>2. CASE task["writer"].at \in {"idle", "rollback"}
    <3>1. task' = [task EXCEPT !["writer"] = Log!Over] /\ UNCHANGED jobs
      BY <1>10, <2>2 DEF Log!WriterCancelled
    <3>2. Log!Over \in TaskRec
      BY NothingIs DEF Log!Over, TaskRec, Log!At
    <3>3. task' \in [Log!Task -> TaskRec] /\ \A u \in Log!Task : u # "writer" => task'[u] = task[u]
      BY <1>1, <3>1, <3>2, TaskSet DEF LogInv
    <3>4. LogTyped'
      BY <2>1, <3>1, <3>3 DEF LogInv, LogTyped, TaskRec
    <3>5. RowsInOrder' /\ JobsInOrder' /\ WaitingInOrder'
      BY <2>1, <3>1, OrderKept
    <3>6. StopSound'
      BY <2>1, <3>3, StopKept DEF LogInv
    <3> QED BY <3>4, <3>5, <3>6 DEF LogInv
  <2>3. CASE task["writer"].at \notin {"idle", "rollback"}
    <3>1. /\ task' = [task EXCEPT !["writer"].at = "unwind"]
          /\ jobs' = Append(jobs, Log!Job("writer", "rollback", <<>>))
      BY <1>10, <2>3 DEF Log!WriterCancelled
    <3>2. /\ task' \in [Log!Task -> TaskRec] /\ task'["writer"].at = "unwind"
          /\ \A u \in Log!Task : u # "writer" => task'[u] = task[u]
      BY <1>1, <3>1, TaskMoves DEF Log!At, LogInv
    <3> QED BY <1>1, <1>2, <2>1, <3>1, <3>2, AskKeeps DEF Ops
  <2> QED BY <2>2, <2>3
<1>11. CASE Log!Next
  BY <1>4, <1>5, <1>6, <1>7, <1>8, <1>9, <1>10, <1>11, EnqueueKeeps, PublishKeeps, InsertKeeps, CommitKeeps,
     RollbackKeeps DEF Log!Next, Log!Thread, Log!Resume
<1> QED BY <1>3, <1>11

LEMMA OnceByInv == LogInv => WrittenOnceInOrder
<1> SUFFICES ASSUME LogInv PROVE WrittenOnceInOrder
  OBVIOUS
<1>1. Log!TypeOK
  <2>1. /\ \A w \in Log!Process : made[w] \in 0 .. MaxRecords[w]
        /\ \A w \in Log!Process : Log!ToSet(queue[w]) \subseteq Log!Rec
        /\ Log!ToSet(lane) \subseteq Log!Rec /\ Log!ToSet(txn) \subseteq Log!Rec /\ Log!ToSet(table) \subseteq Log!Rec
        /\ \A t \in Log!Task : task[t].at \in Log!At /\ Log!ToSet(task[t].rows) \subseteq Log!Rec
    BY ToSetIs, LogConstants DEF LogInv, LogTyped
  <2> QED BY <2>1 DEF LogInv, LogTyped, Log!TypeOK
<1>2. Log!WrittenOnceInOrder
  <2>1. PICK s \in Seq(Log!Rec) : s = table
    BY DEF LogInv, LogTyped
  <2>2. DOMAIN s = 1 .. Len(s)
    BY <2>1
  <2>3. \A i, j \in 1 .. Len(s) : i < j => Precedes(s[i], s[j])
    BY <2>1 DEF LogInv, RowsInOrder, InOrder
  <2> QED BY <2>1, <2>2, <2>3 DEF Log!WrittenOnceInOrder, Precedes
<1>3. Log!StopDrains
  BY DEF LogInv, StopSound, Log!StopDrains, Log!Stopped
<1> QED BY <1>1, <1>2, <1>3 DEF WrittenOnceInOrder

(* No record is written twice or out of the order its process made it in,  *)
(* whatever jobs of other tasks, failures, rollbacks and cancellations run *)
(* on the connection in between; and stop() leaves nothing in the queue    *)
(* (QueryLog._flush, stop, Database.executemany).                          *)
THEOREM LogInOrder == Log!Spec => []WrittenOnceInOrder
<1>1. LogInv /\ [Log!Next]_(Log!vars) => LogInv'
  BY LogStep
<1> QED BY <1>1, LogInit, OnceByInv, PTL DEF Log!Spec

-----------------------------------------------------------------------------
(* What of Rollup its totals rest on.  No row before the cutoff is left    *)
(* when the sweep's script runs (SweepInv); a half hour a row can still    *)
(* come in lies after the mark, or in the hour before it where the newest  *)
(* row the migration found is (MarkInv); the backfill's hour has a row and *)
(* nothing lies or comes between it and the mark (FillInv); and an empty   *)
(* hour before the mark has no totals, or nothing is or comes up to it     *)
(* (EmptyInv).                                                             *)
Due(t) == since <= t /\ now <= t + Lag

SweepInv ==
  /\ cut = 0 \/ cut + Retention <= now
  /\ sweep # None => cut = sweep.cutoff /\ sweep.cutoff + Retention <= now
  /\ sweep # None /\ sweep.at = "script" => Totals!Below(sweep.cutoff) = {}

RowsInv == \A x \in raw : x.id <= inserted /\ x.ts <= now

AtMark(t) ==
  from = Totals!HourOf(t) + 1 /\ Totals!HourOf(since) = Totals!HourOf(t) /\ \E x \in raw : x.ts = since

MarkInv == \A t \in Totals!Time : Due(t) => from <= Totals!HourOf(t) \/ AtMark(t)

Gap(t) == Totals!HourOf(t) <= fill.h \/ fill.start <= Totals!HourOf(t)

FillInv ==
  /\ fill # None => fill.start <= Totals!HourOf(now) + 1
  /\ fill # None /\ fill.at = "script" => fill.h < fill.start
  /\ ~overtaken /\ Totals!Reading => fill.start <= from
  /\ ~overtaken /\ fill # None /\ fill.at = "script" =>
       /\ Totals!During(fill.h) # {}
       /\ \A x \in raw : Gap(x.ts)
       /\ \A t \in Totals!Time : Due(t) => Gap(t)

Over(k) ==
  /\ \A x \in raw : k < Totals!HourOf(x.ts)
  /\ \A t \in Totals!Time : Due(t) => k < Totals!HourOf(t)

EmptyInv ==
  ~overtaken => \A k \in Totals!Hour : k < from /\ cut <= 2 * k /\ Totals!During(k) = {} =>
    roll[k] = 0 \/ Over(k)

RollInv ==
  /\ Totals!TypeOK /\ SweepInv /\ RowsInv /\ MarkInv /\ FillInv /\ EmptyInv
  /\ Totals!ExactUnlessOvertaken

(* Hours of half hours.                                                    *)
LEMMA SizeIs == \A S : Totals!Cardinality(S) = Cardinality(S)
  BY DEF Totals!Cardinality, Cardinality

LEMMA HourIs ==
  ASSUME NEW t \in Nat
  PROVE  Totals!HourOf(t) \in Nat /\ 2 * Totals!HourOf(t) <= t /\ t <= 2 * Totals!HourOf(t) + 1
  BY DEF Totals!HourOf

LEMMA HoursGrow ==
  ASSUME NEW t \in Nat, NEW u \in Nat, t <= u
  PROVE  Totals!HourOf(t) <= Totals!HourOf(u) /\ (t + 2 <= u => Totals!HourOf(t) + 1 <= Totals!HourOf(u))
  BY DEF Totals!HourOf

LEMMA HourIn ==
  ASSUME NEW t \in Totals!Time
  PROVE  t \in Nat /\ Totals!HourOf(t) \in Totals!Hour /\ Totals!HourOf(t) \in Nat
  BY HourIs, HoursGrow, TotalsAssumption DEF Totals!RollupConstants, Totals!Time, Totals!Hour

LEMMA HourNat == \A h \in Totals!Hour : h \in Nat /\ h <= Totals!HourOf(MaxTime) /\ Totals!HourOf(MaxTime) \in Nat
  BY HourIs, TotalsAssumption DEF Totals!RollupConstants, Totals!Hour

(* The larger and the smaller of two, and the newest of the rows.          *)
LEMMA LargerIs ==
  ASSUME NEW a \in Nat, NEW b \in Nat
  PROVE  Totals!Max({a, b}) \in {a, b} /\ a <= Totals!Max({a, b}) /\ b <= Totals!Max({a, b})
<1>1. \E x \in {a, b} : \A y \in {a, b} : x >= y
  BY a <= b \/ b <= a
<1>2. Totals!Max({a, b}) \in {a, b} /\ \A y \in {a, b} : Totals!Max({a, b}) >= y
  BY <1>1 DEF Totals!Max
<1> QED BY <1>2

LEMMA SmallerIs ==
  ASSUME NEW a \in Nat, NEW b \in Nat
  PROVE  Totals!Min({a, b}) \in {a, b} /\ Totals!Min({a, b}) <= a /\ Totals!Min({a, b}) <= b
<1>1. \E x \in {a, b} : \A y \in {a, b} : x <= y
  BY a <= b \/ b <= a
<1>2. Totals!Min({a, b}) \in {a, b} /\ \A y \in {a, b} : Totals!Min({a, b}) <= y
  BY <1>1 DEF Totals!Min
<1> QED BY <1>2

LEMMA LatestOf ==
  ASSUME NEW S \in SUBSET Totals!Time, S # {}
  PROVE  Totals!Max(S) \in S /\ \A y \in S : y <= Totals!Max(S)
<1> DEFINE R == {n \in Nat : \E s \in S : n + s = MaxTime}
<1> USE TotalsAssumption DEF Totals!RollupConstants, Totals!Time
<1>1. R \in SUBSET Nat /\ R # {}
  <2>1. PICK s \in S : TRUE
    OBVIOUS
  <2>2. MaxTime - s \in Nat /\ (MaxTime - s) + s = MaxTime
    OBVIOUS
  <2> QED BY <2>1, <2>2
<1>2. PICK n \in R : \A m \in R : ~(<<m, n>> \in OpToRel(<, Nat))
  <2> HIDE DEF R
  <2> QED BY <1>1, WFMin, NatLessThanWellFounded, Zenon
<1>3. \A m \in R : n <= m
  <2>1. \A a, b \in Nat : a < b => <<a, b>> \in OpToRel(<, Nat)
    BY DEF OpToRel
  <2> HIDE DEF R
  <2>2. ASSUME NEW m \in R PROVE n <= m
    <3>1. m \in Nat /\ n \in Nat
      BY <1>1
    <3>2. ~(m < n)
      BY <1>2, <2>1, <3>1
    <3> QED BY <3>1, <3>2
  <2> QED BY <2>2
<1>4. PICK s \in S : n + s = MaxTime
  OBVIOUS
<1>5. \A y \in S : s >= y
  <2> SUFFICES ASSUME NEW y \in S PROVE s >= y
    OBVIOUS
  <2>1. MaxTime - y \in R
    <3>1. MaxTime - y \in Nat /\ (MaxTime - y) + y = MaxTime
      OBVIOUS
    <3> QED BY <3>1
  <2>2. n <= MaxTime - y /\ n \in Nat
    <3> HIDE DEF R
    <3> QED BY <1>1, <1>3, <2>1
  <2> QED BY ONLY <1>4, <2>2, s \in Nat, y \in Nat, MaxTime \in Nat
<1>6. Totals!Max(S) \in S /\ \A y \in S : Totals!Max(S) >= y
  BY <1>5 DEF Totals!Max
<1>7. \A y \in S : y \in Nat
  OBVIOUS
<1> QED BY <1>6, <1>7

LEMMA NewestIs ==
  ASSUME NEW R \in SUBSET Totals!Row, R # {}
  PROVE  /\ \E x \in R : x.ts = Totals!Newest(R)
         /\ \A x \in R : x.ts <= Totals!Newest(R)
<1> DEFINE S == {x.ts : x \in R}
<1>1. S \in SUBSET Totals!Time /\ S # {}
  BY DEF Totals!Row
<1>2. Totals!Max(S) \in S /\ \A y \in S : y <= Totals!Max(S)
  <2> HIDE DEF S
  <2> QED BY <1>1, LatestOf
<1> QED BY <1>2 DEF Totals!Newest

(* The table is finite, and so is every part of it.                        *)
LEMMA RowsFinite ==
  ASSUME NEW R \in SUBSET Totals!Row
  PROVE  IsFiniteSet(R) /\ Totals!Cardinality(R) \in Nat
<1> DEFINE P == Totals!Time \X (0 .. MaxRows)
           f == [p \in P |-> [ts |-> p[1], id |-> p[2]]]
<1>1. IsFiniteSet(Totals!Time) /\ IsFiniteSet(0 .. MaxRows)
  BY FS_Interval, TotalsAssumption DEF Totals!RollupConstants, Totals!Time
<1>2. IsFiniteSet(P)
  BY <1>1, FS_Product
<1>3. f \in Surjection(P, Totals!Row)
  <2>1. f \in [P -> Totals!Row]
    BY DEF Totals!Row
  <2>2. ASSUME NEW x \in Totals!Row PROVE \E p \in P : f[p] = x
    <3>1. <<x.ts, x.id>> \in P /\ f[<<x.ts, x.id>>] = x
      BY DEF Totals!Row
    <3> QED BY <3>1
  <2> QED BY <2>1, <2>2 DEF Surjection
<1>4. IsFiniteSet(Totals!Row)
  <2> HIDE DEF P, f
  <2> QED BY <1>2, <1>3, FS_Surjection
<1> QED BY <1>4, FS_Subset, FS_CardinalityType, SizeIs

LEMMA RowIn ==
  ASSUME Totals!TypeOK, NEW x \in raw
  PROVE  x.ts \in Totals!Time /\ x.ts \in Nat /\ Totals!HourOf(x.ts) \in Totals!Hour /\ Totals!HourOf(x.ts) \in Nat
<1>1. x.ts \in Totals!Time
  BY DEF Totals!TypeOK, Totals!Row
<1> QED BY <1>1, HourIn

LEMMA SweepIs ==
  ASSUME NEW s \in Totals!Sweep
  PROVE  /\ s # None /\ s.cutoff \in Totals!Time /\ s.at \in {"prune", "script"}
         /\ [s EXCEPT !.at = "script"] \in Totals!Sweep
         /\ [s EXCEPT !.at = "script"].cutoff = s.cutoff
         /\ [s EXCEPT !.at = "script"].at = "script"
  BY TotalsAssumption DEF Totals!RollupConstants, Totals!Sweep

LEMMA FillIs ==
  ASSUME NEW f \in Totals!Fill
  PROVE  /\ f # None /\ f.start \in 0 .. Totals!HourOf(MaxTime) + 1 /\ f.h \in Totals!Hour
         /\ f.at \in {"mark", "newest", "script"} /\ f.start \in Nat /\ f.h \in Nat
  BY TotalsAssumption, HourIs DEF Totals!RollupConstants, Totals!Fill, Totals!Hour

LEMMA IdleIs == Totals!Idle \in Totals!Fill /\ Totals!Idle # None /\ Totals!Idle.at = "mark" /\ Totals!Idle.start = 0
<1>1. Totals!HourOf(MaxTime) \in Nat
  BY TotalsAssumption, HourIs DEF Totals!RollupConstants
<1>2. Totals!Idle \in Totals!Fill
  BY <1>1 DEF Totals!Idle, Totals!Fill, Totals!Hour
<1> QED BY <1>2, FillIs DEF Totals!Idle

LEMMA Bounds ==
  /\ MaxTime \in Nat /\ Upgrades \subseteq Totals!Time /\ Lag \in Nat /\ Retention \in Nat
  /\ Lag + 2 <= Retention /\ Chunk \in Nat /\ Chunk # 0
  /\ MaxRows \in Nat /\ MaxFaults \in Nat
  BY TotalsAssumption DEF Totals!RollupConstants

LEMMA Typed ==
  ASSUME Totals!TypeOK
  PROVE  /\ now \in Nat /\ from \in Nat /\ since \in Nat /\ cut \in Nat /\ inserted \in Nat
         /\ Totals!HourOf(now) \in Nat /\ from <= Totals!HourOf(now) + 1
         /\ sweep # None => sweep \in Totals!Sweep /\ sweep.cutoff \in Nat
         /\ fill # None => fill \in Totals!Fill /\ fill.start \in Nat /\ fill.h \in Nat /\ fill.h \in Totals!Hour
<1>1. now \in Nat /\ since \in Nat /\ cut \in Nat
  BY Bounds DEF Totals!TypeOK, Totals!Time
<1>2. Totals!HourOf(now) \in Nat
  BY <1>1, HourIs
<1>3. from \in Nat /\ from <= Totals!HourOf(now) + 1 /\ inserted \in Nat
  BY <1>2, Bounds DEF Totals!TypeOK
<1>4. sweep # None => sweep \in Totals!Sweep /\ sweep.cutoff \in Nat
  <2>1. ASSUME sweep \in Totals!Sweep PROVE sweep.cutoff \in Nat
    BY <2>1, Bounds DEF Totals!Sweep, Totals!Time
  <2> QED BY <2>1 DEF Totals!TypeOK
<1>5. fill # None => fill \in Totals!Fill /\ fill.start \in Nat /\ fill.h \in Nat /\ fill.h \in Totals!Hour
  <2>1. ASSUME fill \in Totals!Fill PROVE fill.start \in Nat /\ fill.h \in Nat /\ fill.h \in Totals!Hour
    BY <2>1, FillIs
  <2> QED BY <2>1 DEF Totals!TypeOK
<1> QED BY <1>1, <1>2, <1>3, <1>4, <1>5

LEMMA RollInit == Totals!Init => RollInv
<1> SUFFICES ASSUME Totals!Init PROVE RollInv
  OBVIOUS
<1> USE Bounds DEF Totals!Time
<1>1. now \in Totals!Time /\ now \in Nat /\ raw \in SUBSET Totals!Row
  <2>1. now \in Totals!Time
    BY DEF Totals!Init
  <2>2. \A x \in raw : x \in [ts : 0 .. now, id : {0}]
    BY DEF Totals!Init
  <2> QED BY <2>1, <2>2 DEF Totals!Row
<1>2. ASSUME NEW x \in raw PROVE x.ts \in Nat /\ x.ts <= now /\ x.id = 0
  BY <1>1 DEF Totals!Init
<1>3. CASE raw = {}
  <2>1. from = 0 /\ since = 0
    BY <1>3 DEF Totals!Init, Totals!MarkOf
  <2>2. Totals!TypeOK
    <3>1. Totals!HourOf(now) \in Nat
      BY <1>1, HourIs
    <3>2. roll \in [Totals!Hour -> Nat] /\ overtaken \in BOOLEAN
      BY DEF Totals!Init
    <3>3. from \in 0 .. Totals!HourOf(now) + 1 /\ since \in Totals!Time
      BY <2>1, <3>1
    <3>4. fill \in Totals!Fill \cup {None} /\ sweep \in Totals!Sweep \cup {None}
      BY IdleIs DEF Totals!Init
    <3>5. cut \in Totals!Time /\ inserted \in 0 .. MaxRows /\ faultsR \in 0 .. MaxFaults
      BY DEF Totals!Init
    <3> QED BY <1>1, <3>2, <3>3, <3>4, <3>5 DEF Totals!TypeOK
  <2>3. MarkInv
    BY <2>1, HourIs DEF MarkInv
  <2>4. SweepInv /\ RowsInv
    BY <1>3 DEF Totals!Init, SweepInv, RowsInv
  <2>5. FillInv /\ EmptyInv
    <3>1. Totals!HourOf(now) \in Nat
      BY <1>1, HourIs
    <3> QED BY <2>1, <3>1, IdleIs DEF Totals!Init, FillInv, EmptyInv, Totals!Reading, Totals!Hour
  <2>6. Totals!ExactUnlessOvertaken
    <3>1. \A h \in Totals!Hour : Totals!During(h) = {}
      BY <1>3 DEF Totals!During
    <3> QED BY <3>1, FS_EmptySet, SizeIs DEF Totals!Init, Totals!ExactUnlessOvertaken, Totals!RollupExact
  <2> QED BY <2>2, <2>3, <2>4, <2>5, <2>6 DEF RollInv
<1>4. CASE raw # {}
  <2>1. PICK z \in raw : z.ts = Totals!Newest(raw)
    BY <1>1, <1>4, NewestIs
  <2>2. \A x \in raw : x.ts <= z.ts
    BY <1>1, <1>4, <2>1, NewestIs
  <2>3. since = z.ts /\ from = Totals!HourOf(z.ts) + 1
    BY <1>4, <2>1 DEF Totals!Init, Totals!MarkOf
  <2>4. z.ts \in Nat /\ z.ts <= now
    BY <1>2
  <2>5. Totals!HourOf(z.ts) \in Nat /\ Totals!HourOf(z.ts) <= Totals!HourOf(now) /\ Totals!HourOf(now) \in Nat
    BY <1>1, <2>4, HourIs, HoursGrow
  <2>6. Totals!TypeOK
    <3>2. roll \in [Totals!Hour -> Nat] /\ overtaken \in BOOLEAN
      BY DEF Totals!Init
    <3>3. from \in 0 .. Totals!HourOf(now) + 1 /\ since \in Totals!Time
      BY <1>1, <2>3, <2>4, <2>5
    <3>4. fill \in Totals!Fill \cup {None} /\ sweep \in Totals!Sweep \cup {None}
      BY IdleIs DEF Totals!Init
    <3>5. cut \in Totals!Time /\ inserted \in 0 .. MaxRows /\ faultsR \in 0 .. MaxFaults
      BY DEF Totals!Init
    <3> QED BY <1>1, <3>2, <3>3, <3>4, <3>5 DEF Totals!TypeOK
  <2>7. MarkInv
    <3> SUFFICES ASSUME NEW t \in Totals!Time, since <= t PROVE from <= Totals!HourOf(t) \/ AtMark(t)
      BY DEF MarkInv, Due
    <3>1. t \in Nat /\ Totals!HourOf(t) \in Nat
      BY HourIs
    <3>2. Totals!HourOf(z.ts) <= Totals!HourOf(t)
      BY <2>3, <2>4, <3>1, HoursGrow
    <3> QED BY <2>1, <2>3, <2>5, <3>1, <3>2 DEF AtMark
  <2>8. SweepInv /\ RowsInv
    BY <1>2 DEF Totals!Init, SweepInv, RowsInv
  <2>9. FillInv /\ EmptyInv
    BY <2>5, IdleIs DEF Totals!Init, FillInv, EmptyInv, Totals!Reading, Totals!Hour
  <2>10. Totals!ExactUnlessOvertaken
    <3>1. ASSUME NEW h \in Totals!Hour, from <= h PROVE Totals!During(h) = {} /\ roll[h] = 0
      <4>1. ASSUME NEW x \in raw PROVE Totals!HourOf(x.ts) # h
        <5>1. Totals!HourOf(x.ts) \in Nat /\ Totals!HourOf(x.ts) <= Totals!HourOf(z.ts)
          BY <1>2, <2>2, <2>4, HourIs, HoursGrow
        <5> QED BY <2>3, <2>5, <3>1, <5>1 DEF Totals!Hour
      <4> QED BY <4>1 DEF Totals!During, Totals!Init
    <3> QED BY <3>1, FS_EmptySet, SizeIs DEF Totals!ExactUnlessOvertaken, Totals!RollupExact
  <2> QED BY <2>6, <2>7, <2>8, <2>9, <2>10 DEF RollInv
<1> QED BY <1>3, <1>4

(* Time passes: what was due by then still is the most that can be.        *)
LEMMA TickKeeps ==
  ASSUME RollInv, Totals!Tick
  PROVE  RollInv'
<1> USE Bounds
<1>1. now \in Nat /\ now' = now + 1 /\ now' \in Totals!Time /\ now' \in Nat /\ since \in Nat
  BY DEF RollInv, Totals!TypeOK, Totals!Tick, Totals!Time
<1>2. /\ raw' = raw /\ roll' = roll /\ from' = from /\ since' = since /\ sweep' = sweep
      /\ fill' = fill /\ cut' = cut /\ overtaken' = overtaken
      /\ inserted' = inserted /\ faultsR' = faultsR
  BY DEF Totals!Tick, Totals!store
<1>3. \A t \in Totals!Time : Due(t)' => Due(t)
  BY <1>1, <1>2 DEF Due, Totals!Time
<1>4. Totals!HourOf(now) \in Nat /\ Totals!HourOf(now') \in Nat /\ Totals!HourOf(now) <= Totals!HourOf(now')
  <2>1. Totals!HourOf(now) \in Nat /\ Totals!HourOf(now + 1) \in Nat
    BY <1>1, HourIs
  <2>2. Totals!HourOf(now) <= Totals!HourOf(now + 1)
    BY <1>1, HoursGrow
  <2> QED BY <1>1, <2>1, <2>2
<1>5. Totals!TypeOK'
  BY <1>1, <1>2, <1>4 DEF RollInv, Totals!TypeOK
<1>6. SweepInv'
  <2>1. cut \in Nat /\ (sweep # None => sweep.cutoff \in Nat)
    BY Typed DEF RollInv
  <2> QED BY <1>1, <1>2, <2>1 DEF RollInv, SweepInv, Totals!Below
<1>7. RowsInv'
  <2>1. \A x \in raw : x.ts \in Nat
    BY RowIn DEF RollInv
  <2> QED BY <1>1, <1>2, <2>1 DEF RollInv, RowsInv
<1>8. MarkInv'
  BY <1>2, <1>3 DEF RollInv, MarkInv, AtMark
<1>9. FillInv'
  <2>1. fill # None => fill.start \in Nat
    BY Typed DEF RollInv
  <2> QED BY <1>2, <1>3, <1>4, <2>1 DEF RollInv, FillInv, Totals!Reading, Totals!During, Gap
<1>10. EmptyInv'
  <2>1. \A k \in Totals!Hour : Over(k) => Over(k)'
    BY <1>2, <1>3 DEF Over
  <2> QED BY <1>2, <2>1 DEF RollInv, EmptyInv, Totals!During
<1>11. Totals!ExactUnlessOvertaken'
  BY <1>2 DEF RollInv, Totals!ExactUnlessOvertaken, Totals!RollupExact, Totals!During
<1> QED BY <1>5, <1>6, <1>7, <1>8, <1>9, <1>10, <1>11 DEF RollInv

(* A row comes in where one was due: after the mark, or in its hour.       *)
LEMMA RowInsertKeeps ==
  ASSUME RollInv, Totals!Insert
  PROVE  RollInv'
<1>0. Totals!TypeOK /\ SweepInv /\ RowsInv /\ MarkInv /\ FillInv /\ EmptyInv /\ Totals!ExactUnlessOvertaken
  BY DEF RollInv
<1>1. PICK t \in Totals!Time :
        /\ since <= t /\ t <= now /\ now <= t + Lag
        /\ raw' = raw \cup {[ts |-> t, id |-> inserted + 1]}
        /\ roll' = Totals!Counted(t)
  BY DEF Totals!Insert
<1>2. /\ inserted < MaxRows /\ inserted' = inserted + 1
      /\ now' = now /\ from' = from /\ since' = since /\ sweep' = sweep
      /\ fill' = fill /\ cut' = cut /\ overtaken' = overtaken /\ faultsR' = faultsR
  BY DEF Totals!Insert
<1>3. t \in Nat /\ Totals!HourOf(t) \in Totals!Hour /\ Totals!HourOf(t) \in Nat
  BY HourIn
<1>4. PICK n \in Totals!Row : n.ts = t /\ n.id = inserted + 1 /\ raw' = raw \cup {n} /\ n \notin raw
  <2>1. [ts |-> t, id |-> inserted + 1] \in Totals!Row
    BY <1>0, <1>2, Typed, Bounds DEF Totals!Row
  <2>2. \A x \in raw : x.id # inserted + 1
    <3>1. \A x \in raw : x.id \in Nat /\ x.id <= inserted
      BY <1>0, Bounds DEF Totals!TypeOK, Totals!Row, RowsInv
    <3> QED BY <1>0, <3>1, Typed
  <2> QED BY <1>1, <2>1, <2>2
<1>5. Due(t)
  BY <1>1 DEF Due
<1>6. \A u \in Totals!Time : Due(u)' = Due(u)
  BY <1>2 DEF Due
<1>7. \A h \in Totals!Hour : Totals!During(h)' = IF h = Totals!HourOf(t) THEN Totals!During(h) \cup {n} ELSE Totals!During(h)
  BY <1>4 DEF Totals!During
<1>8. \A h \in Totals!Hour : roll[h] \in Nat /\ roll'[h] = IF h = Totals!HourOf(t) THEN roll[h] + 1 ELSE roll[h]
  BY <1>0, <1>1, <1>3 DEF Totals!TypeOK, Totals!Counted
<1>9. \A h \in Totals!Hour : Totals!During(h) \in SUBSET Totals!Row /\ n \notin Totals!During(h)
  BY <1>0, <1>4 DEF Totals!During, Totals!TypeOK
<1>10. Totals!TypeOK'
  <2>1. raw' \in SUBSET Totals!Row
    BY <1>0, <1>4 DEF Totals!TypeOK
  <2>2. roll' \in [Totals!Hour -> Nat]
    BY <1>0, <1>1, <1>3 DEF Totals!TypeOK, Totals!Counted
  <2>3. inserted' \in 0 .. MaxRows
    BY <1>0, <1>2, Bounds DEF Totals!TypeOK
  <2> QED BY <1>0, <1>2, <2>1, <2>2, <2>3 DEF Totals!TypeOK
<1>11. SweepInv'
  <2>1. ASSUME sweep # None, sweep.at = "script" PROVE Totals!Below(sweep.cutoff)' = {}
    <3>1. sweep.cutoff \in Nat /\ sweep.cutoff + Retention <= now /\ Totals!Below(sweep.cutoff) = {}
      BY <1>0, <2>1, Typed DEF SweepInv
    <3>2. ~(t < sweep.cutoff)
      BY <1>0, <1>1, <1>3, <3>1, Bounds, Typed
    <3> QED BY <1>2, <1>4, <3>1, <3>2 DEF Totals!Below
  <2> QED BY <1>0, <1>2, <2>1 DEF SweepInv
<1>12. RowsInv'
  <2>1. \A x \in raw : x.id \in Nat /\ x.id <= inserted /\ x.ts <= now
    BY <1>0, Bounds DEF Totals!TypeOK, Totals!Row, RowsInv
  <2> QED BY <1>0, <1>1, <1>2, <1>4, <2>1, Typed DEF RowsInv
<1>13. MarkInv'
  BY <1>0, <1>2, <1>4, <1>6 DEF MarkInv, AtMark
<1>14. FillInv'
  <2>1. ASSUME ~overtaken, fill # None, fill.at = "script"
        PROVE  Totals!During(fill.h)' # {} /\ (\A x \in raw' : Gap(x.ts)') /\ \A u \in Totals!Time : Due(u)' => Gap(u)'
    <3>1. Totals!During(fill.h) # {} /\ (\A x \in raw : Gap(x.ts)) /\ \A u \in Totals!Time : Due(u) => Gap(u)
      BY <1>0, <2>1 DEF FillInv
    <3>2. \A u : Gap(u)' = Gap(u)
      BY <1>2 DEF Gap
    <3>3. Totals!During(fill.h)' # {}
      BY <1>2, <1>4, <3>1 DEF Totals!During
    <3> QED BY <1>4, <1>5, <1>6, <3>1, <3>2, <3>3
  <2> QED BY <1>0, <1>2, <2>1 DEF FillInv, Totals!Reading
<1>15. EmptyInv'
  <2> SUFFICES ASSUME ~overtaken, NEW k \in Totals!Hour, k < from, cut <= 2 * k, Totals!During(k)' = {}
               PROVE  roll'[k] = 0 \/ Over(k)'
    BY <1>2 DEF EmptyInv
  <2>1. k # Totals!HourOf(t) /\ Totals!During(k) = {} /\ roll'[k] = roll[k]
    BY <1>7, <1>8
  <2>2. roll[k] = 0 \/ Over(k)
    BY <1>0, <2>1 DEF EmptyInv
  <2>3. ASSUME Over(k) PROVE Over(k)'
    BY <1>4, <1>5, <1>6, <2>3 DEF Over
  <2> QED BY <2>1, <2>2, <2>3
<1>16. Totals!ExactUnlessOvertaken'
  <2> SUFFICES ASSUME ~overtaken, NEW h \in Totals!Hour, from <= h, cut <= 2 * h
               PROVE  roll'[h] = Totals!Cardinality(Totals!During(h)')
    BY <1>2 DEF Totals!ExactUnlessOvertaken, Totals!RollupExact
  <2>1. roll[h] = Totals!Cardinality(Totals!During(h))
    BY <1>0 DEF Totals!ExactUnlessOvertaken, Totals!RollupExact
  <2>2. IsFiniteSet(Totals!During(h)) /\ n \notin Totals!During(h)
    BY <1>9, RowsFinite
  <2>3. Totals!Cardinality(Totals!During(h) \cup {n}) = Totals!Cardinality(Totals!During(h)) + 1
    BY <2>2, FS_AddElement, SizeIs
  <2> QED BY <1>7, <1>8, <2>1, <2>3
<1> QED BY <1>10, <1>11, <1>12, <1>13, <1>14, <1>15, <1>16 DEF RollInv

LEMMA SweepStartKeeps ==
  ASSUME RollInv, Totals!SweepStart
  PROVE  RollInv'
<1>0. Totals!TypeOK /\ SweepInv /\ RowsInv /\ MarkInv /\ FillInv /\ EmptyInv /\ Totals!ExactUnlessOvertaken
  BY DEF RollInv
<1>1. /\ now' = now /\ raw' = raw /\ roll' = roll /\ from' = from /\ since' = since
      /\ fill' = fill /\ overtaken' = overtaken /\ inserted' = inserted /\ faultsR' = faultsR
  BY DEF Totals!SweepStart, Totals!store
<1>2. PICK c \in Nat : c = now - Retention /\ c + Retention = now
  <2>1. now >= Retention
    BY DEF Totals!SweepStart
  <2> QED BY <1>0, <2>1, Typed, Bounds
<1>3. sweep' = [at |-> "prune", cutoff |-> c] /\ cut' = Totals!Max({cut, c})
  BY <1>2 DEF Totals!SweepStart
<1>4. cut' = c
  <2>1. cut <= c
    BY <1>0, <1>2, Typed, Bounds DEF SweepInv
  <2>2. Totals!Max({cut, c}) \in {cut, c} /\ c <= Totals!Max({cut, c})
    BY <1>0, <1>2, Typed, LargerIs
  <2> QED BY <1>0, <1>2, <1>3, <2>1, <2>2, Typed
<1>5. c \in Totals!Time /\ sweep' \in Totals!Sweep
  BY <1>0, <1>2, <1>3, Typed, Bounds DEF Totals!TypeOK, Totals!Time, Totals!Sweep
<1>6. Totals!TypeOK'
  BY <1>0, <1>1, <1>4, <1>5 DEF Totals!TypeOK
<1>7. SweepInv'
  <2>1. sweep'.cutoff = c /\ sweep'.at # "script"
    BY <1>3
  <2> QED BY <1>0, <1>1, <1>2, <1>4, <2>1, Typed, Bounds DEF SweepInv
<1>8. RowsInv' /\ MarkInv' /\ FillInv'
  BY <1>0, <1>1 DEF RowsInv, MarkInv, AtMark, Due, FillInv, Gap, Totals!During, Totals!Reading
<1>9. \A h \in Totals!Hour : cut' <= 2 * h => cut <= 2 * h
  <2>1. cut <= c /\ cut \in Nat
    BY <1>0, <1>2, Typed, Bounds DEF SweepInv
  <2> QED BY <1>2, <1>4, <2>1, Bounds, HourIs DEF Totals!Hour
<1>10. EmptyInv'
  BY <1>0, <1>1, <1>9 DEF EmptyInv, Over, Due, Totals!During
<1>11. Totals!ExactUnlessOvertaken'
  BY <1>0, <1>1, <1>9 DEF Totals!ExactUnlessOvertaken, Totals!RollupExact, Totals!During
<1> QED BY <1>6, <1>7, <1>8, <1>10, <1>11 DEF RollInv

(* A row that is deleted lies before the cutoff, so in no hour the totals  *)
(* are judged by; and the newest row the migration found goes only when    *)
(* nothing can come into its hour any more.                                *)
LEMMA PruneKeeps ==
  ASSUME RollInv, Totals!Prune
  PROVE  RollInv'
<1>0. Totals!TypeOK /\ SweepInv /\ RowsInv /\ MarkInv /\ FillInv /\ EmptyInv /\ Totals!ExactUnlessOvertaken
  BY DEF RollInv
<1>1. /\ now' = now /\ roll' = roll /\ from' = from /\ since' = since
      /\ fill' = fill /\ cut' = cut /\ inserted' = inserted /\ faultsR' = faultsR
  BY DEF Totals!Prune
<1>2. PICK c \in Nat : /\ sweep # None /\ sweep \in Totals!Sweep /\ sweep.cutoff = c
                       /\ cut = c /\ c + Retention <= now
  BY <1>0, Typed DEF Totals!Prune, SweepInv
<1>3. Totals!Below(c) \in SUBSET Totals!Row
  BY <1>0 DEF Totals!TypeOK, Totals!Below
<1>4. PICK k \in Nat : k = Totals!Cardinality(Totals!Below(c))
  BY <1>3, RowsFinite
<1>5. PICK n \in Nat : n = Totals!Min({k, Chunk}) /\ n \in {k, Chunk}
  BY <1>4, SmallerIs, Bounds
<1>6. PICK D \in SUBSET Totals!Below(c) : Totals!Cardinality(D) = n /\ Totals!Deleted(n, D)
  BY <1>2, <1>4, <1>5 DEF Totals!Prune, Totals!kSubset
<1>7. raw' = raw \ D /\ raw' \in SUBSET Totals!Row /\ raw' \subseteq raw
  BY <1>0, <1>6 DEF Totals!Deleted, Totals!TypeOK
<1>8. \A x \in D : x \in raw /\ x.ts < c /\ x.ts \in Nat
  BY <1>0, <1>6, RowIn DEF Totals!Below
<1>9. sweep' = [sweep EXCEPT !.at = "script"] \/ sweep' = sweep
  BY <1>6 DEF Totals!Deleted
<1>10. sweep' # None /\ sweep' \in Totals!Sweep /\ sweep'.cutoff = c
  BY <1>2, <1>9, SweepIs
<1>11. sweep'.at = "script" => n < Chunk
  <2>1. sweep.at = "prune"
    BY DEF Totals!Prune
  <2> QED BY <1>6, <2>1 DEF Totals!Deleted
<1>12. n < Chunk => D = Totals!Below(c)
  <2> SUFFICES ASSUME n < Chunk PROVE D = Totals!Below(c)
    OBVIOUS
  <2>1. Totals!Cardinality(Totals!Below(c)) = Totals!Cardinality(D)
    BY <1>4, <1>5, <1>6, Bounds
  <2> QED BY <1>3, <1>6, <2>1, RowsFinite, FS_Subset, SizeIs
<1>13. overtaken' \in BOOLEAN /\ (~overtaken' => ~overtaken /\ (D = {} \/ ~Totals!Reading))
  BY <1>0, <1>6 DEF Totals!Deleted, Totals!TypeOK
<1>14. \A h \in Totals!Hour : cut <= 2 * h => Totals!During(h)' = Totals!During(h)
  <2> SUFFICES ASSUME NEW h \in Totals!Hour, c <= 2 * h PROVE Totals!During(h)' = Totals!During(h)
    BY <1>2
  <2>1. ASSUME NEW x \in D PROVE Totals!HourOf(x.ts) # h
    <3>1. h \in Nat /\ x.ts < c /\ x.ts \in Nat
      BY <1>8, HourNat
    <3>2. Totals!HourOf(x.ts) \in Nat /\ 2 * Totals!HourOf(x.ts) <= x.ts
      BY <3>1, HourIs
    <3> QED BY <1>2, <3>1, <3>2
  <2> QED BY <1>7, <2>1 DEF Totals!During
<1>15. \A u \in Totals!Time : Due(u)' = Due(u)
  BY <1>1 DEF Due
<1>16. Totals!TypeOK'
  BY <1>0, <1>1, <1>7, <1>10, <1>13 DEF Totals!TypeOK
<1>17. SweepInv'
  <2>1. sweep'.at = "script" => Totals!Below(c)' = {}
    BY <1>7, <1>11, <1>12 DEF Totals!Below
  <2> QED BY <1>0, <1>1, <1>2, <1>10, <2>1 DEF SweepInv, Totals!Below
<1>18. RowsInv'
  BY <1>0, <1>1, <1>7 DEF RowsInv
<1>19. MarkInv'
  <2> SUFFICES ASSUME NEW u \in Totals!Time, Due(u) PROVE from <= Totals!HourOf(u) \/ AtMark(u)'
    BY <1>1, <1>15 DEF MarkInv
  <2>1. CASE from <= Totals!HourOf(u)
    BY <2>1
  <2>2. CASE AtMark(u)
    <3>1. PICK x \in raw : x.ts = since /\ Totals!HourOf(since) = Totals!HourOf(u) /\ from = Totals!HourOf(u) + 1
      BY <2>2 DEF AtMark
    <3>2. x \notin D
      <4> SUFFICES ASSUME x \in D PROVE FALSE
        OBVIOUS
      <4>1. since < c /\ now <= u + Lag /\ u \in Nat /\ since \in Nat /\ now \in Nat
        BY <1>0, <1>8, <3>1, Typed, HourIn DEF Due
      <4>2. since + 2 <= u
        BY <1>2, <4>1, Bounds
      <4>3. Totals!HourOf(since) + 1 <= Totals!HourOf(u)
        BY <4>1, <4>2, HoursGrow
      <4>4. Totals!HourOf(u) \in Nat
        BY <4>1, HourIs
      <4> QED BY <3>1, <4>3, <4>4
    <3> QED BY <1>1, <1>7, <3>1, <3>2 DEF AtMark
  <2> QED BY <1>0, <2>1, <2>2 DEF MarkInv
<1>20. FillInv'
  <2>1. ASSUME ~overtaken', fill # None, fill.at = "script"
        PROVE  Totals!During(fill.h)' # {} /\ (\A x \in raw' : Gap(x.ts)') /\ \A u \in Totals!Time : Due(u)' => Gap(u)'
    <3>1. D = {} /\ ~overtaken
      BY <1>13, <2>1 DEF Totals!Reading
    <3>2. raw' = raw
      BY <1>7, <3>1
    <3> QED BY <1>0, <1>1, <1>15, <2>1, <3>1, <3>2 DEF FillInv, Gap, Totals!During
  <2> QED BY <1>0, <1>1, <1>13, <2>1 DEF FillInv, Totals!Reading
<1>21. EmptyInv'
  <2> SUFFICES ASSUME ~overtaken, NEW h \in Totals!Hour, h < from, cut <= 2 * h, Totals!During(h)' = {}
               PROVE  roll[h] = 0 \/ Over(h)'
    BY <1>1, <1>13 DEF EmptyInv
  <2>1. roll[h] = 0 \/ Over(h)
    BY <1>0, <1>14 DEF EmptyInv
  <2> QED BY <1>7, <1>15, <2>1 DEF Over
<1>22. Totals!ExactUnlessOvertaken'
  BY <1>0, <1>1, <1>13, <1>14 DEF Totals!ExactUnlessOvertaken, Totals!RollupExact
<1> QED BY <1>16, <1>17, <1>18, <1>19, <1>20, <1>21, <1>22 DEF RollInv

(* The script of the sweep cuts the totals at the hour of the cutoff, up   *)
(* to which nothing is left but in that hour itself.                       *)
LEMMA SweepScriptKeeps ==
  ASSUME RollInv, Totals!SweepScript
  PROVE  RollInv'
<1>0. Totals!TypeOK /\ SweepInv /\ RowsInv /\ MarkInv /\ FillInv /\ EmptyInv /\ Totals!ExactUnlessOvertaken
  BY DEF RollInv
<1>1. /\ now' = now /\ raw' = raw /\ since' = since /\ overtaken' = overtaken
      /\ inserted' = inserted /\ faultsR' = faultsR /\ sweep' = None /\ fill' = Totals!StartFill
  BY DEF Totals!SweepScript
<1>2. PICK u \in Nat : /\ sweep # None /\ sweep \in Totals!Sweep /\ sweep.cutoff = u /\ u \in Totals!Time
                       /\ cut = u /\ u + Retention <= now /\ Totals!Below(u) = {}
  <2>1. sweep # None /\ sweep.at = "script"
    BY DEF Totals!SweepScript
  <2> QED BY <1>0, <2>1, Typed, SweepIs DEF SweepInv
<1>3. PICK c \in Nat : c = Totals!HourOf(u) /\ 2 * c <= u /\ u <= 2 * c + 1
  BY HourIs
<1>4. /\ roll' = [h \in Totals!Hour |-> IF h < c THEN 0 ELSE roll[h]]
      /\ from' = Totals!MarkAfter(c) /\ cut' = 0
  BY <1>2, <1>3 DEF Totals!SweepScript
<1>5. from' \in Nat /\ from <= from' /\ c + 1 <= from' /\ (from' = from \/ from' = c + 1)
  BY <1>0, <1>4, Typed, LargerIs DEF Totals!MarkAfter
<1>6. c <= Totals!HourOf(now) /\ now \in Nat /\ Totals!HourOf(now) \in Nat
  BY <1>0, <1>2, <1>3, Typed, Bounds, HoursGrow
<1>7. \A t \in Totals!Time : Due(t)' = Due(t)
  BY <1>1 DEF Due
<1>8. \A t \in Totals!Time : Due(t) => c + 1 <= Totals!HourOf(t)
  <2> SUFFICES ASSUME NEW t \in Totals!Time, Due(t) PROVE c + 1 <= Totals!HourOf(t)
    OBVIOUS
  <2>1. t \in Nat /\ now <= t + Lag
    BY HourIn DEF Due
  <2>2. u + 2 <= t
    BY <1>2, <1>6, <2>1, Bounds
  <2> QED BY <1>3, <2>1, <2>2, HoursGrow
<1>9. \A x \in raw : x.ts \in Nat /\ Totals!HourOf(x.ts) \in Nat /\ c <= Totals!HourOf(x.ts)
  <2> SUFFICES ASSUME NEW x \in raw PROVE x.ts \in Nat /\ Totals!HourOf(x.ts) \in Nat /\ c <= Totals!HourOf(x.ts)
    OBVIOUS
  <2>1. x.ts \in Nat /\ Totals!HourOf(x.ts) \in Nat
    BY <1>0, RowIn
  <2>2. u <= x.ts
    BY <1>2, <2>1 DEF Totals!Below
  <2> QED BY <1>3, <2>1, <2>2, HoursGrow
<1>10. fill' \in Totals!Fill /\ ((fill' = fill /\ fill # None) \/ fill' = Totals!Idle)
  <2>1. fill \in Totals!Fill \cup {None}
    BY <1>0 DEF Totals!TypeOK
  <2> QED BY <1>1, <2>1, IdleIs DEF Totals!StartFill
<1>11. Totals!TypeOK'
  <2>1. from' \in 0 .. Totals!HourOf(now) + 1
    BY <1>0, <1>5, <1>6, Typed
  <2>2. roll' \in [Totals!Hour -> Nat]
    BY <1>0, <1>4 DEF Totals!TypeOK
  <2>3. cut' \in Totals!Time
    BY <1>4, Bounds DEF Totals!Time
  <2> QED BY <1>0, <1>1, <1>10, <2>1, <2>2, <2>3 DEF Totals!TypeOK
<1>12. SweepInv' /\ RowsInv'
  BY <1>0, <1>1, <1>4 DEF SweepInv, RowsInv
<1>13. MarkInv'
  <2> SUFFICES ASSUME NEW t \in Totals!Time, Due(t) PROVE from' <= Totals!HourOf(t) \/ AtMark(t)'
    BY <1>7 DEF MarkInv
  <2>1. CASE from' = c + 1
    BY <1>8, <2>1
  <2>2. CASE from' = from
    BY <1>0, <1>1, <2>2 DEF MarkInv, AtMark
  <2> QED BY <1>5, <2>1, <2>2
<1>14. FillInv'
  <2>1. CASE fill' = Totals!Idle
    BY <1>1, <1>6, <2>1, IdleIs DEF FillInv, Totals!Reading
  <2>2. CASE fill' = fill /\ fill # None
    <3>1. \A t : Gap(t)' = Gap(t)
      BY <2>2 DEF Gap
    <3>2. Totals!During(fill.h)' = Totals!During(fill.h)
      BY <1>1, <2>2 DEF Totals!During
    <3>3. ~overtaken /\ Totals!Reading => fill.start <= from'
      BY <1>0, <1>5, <2>2, Typed DEF FillInv
    <3> QED BY <1>0, <1>1, <1>7, <2>2, <3>1, <3>2, <3>3 DEF FillInv, Totals!Reading
  <2> QED BY <1>10, <2>1, <2>2
<1>15. EmptyInv'
  <2> SUFFICES ASSUME ~overtaken, NEW k \in Totals!Hour, k < from', Totals!During(k) = {}
               PROVE  roll'[k] = 0 \/ Over(k)
    BY <1>1, <1>7 DEF EmptyInv, Totals!During, Over
  <2>1. k \in Nat
    BY HourNat
  <2>2. CASE k < c
    BY <1>4, <2>2
  <2>3. CASE k = c
    <3>1. \A x \in raw : k < Totals!HourOf(x.ts)
      BY <1>9, <2>3 DEF Totals!During
    <3>2. \A t \in Totals!Time : Due(t) => k < Totals!HourOf(t)
      BY <1>8, <2>3, HourIn
    <3> QED BY <3>1, <3>2 DEF Over
  <2>4. CASE c < k
    <3>1. k < from /\ cut <= 2 * k
      BY <1>0, <1>2, <1>3, <1>5, <2>1, <2>4, Typed
    <3>2. roll'[k] = roll[k]
      BY <1>3, <1>4, <2>1, <2>4
    <3> QED BY <1>0, <3>1, <3>2 DEF EmptyInv
  <2> QED BY <1>3, <2>1, <2>2, <2>3, <2>4
<1>16. Totals!ExactUnlessOvertaken'
  <2> SUFFICES ASSUME ~overtaken, NEW h \in Totals!Hour, from' <= h
               PROVE  roll'[h] = Totals!Cardinality(Totals!During(h))
    BY <1>1 DEF Totals!ExactUnlessOvertaken, Totals!RollupExact, Totals!During
  <2>1. h \in Nat /\ c < h /\ from <= h /\ cut <= 2 * h
    BY <1>0, <1>2, <1>3, <1>5, HourNat, Typed
  <2>2. roll'[h] = roll[h]
    BY <1>3, <1>4, <2>1
  <2> QED BY <1>0, <2>1, <2>2 DEF Totals!ExactUnlessOvertaken, Totals!RollupExact
<1> QED BY <1>11, <1>12, <1>13, <1>14, <1>15, <1>16 DEF RollInv

LEMMA SweepCancelledKeeps ==
  ASSUME RollInv, Totals!SweepCancelled
  PROVE  RollInv'
<1>1. /\ now' = now /\ raw' = raw /\ roll' = roll /\ from' = from /\ since' = since
      /\ fill' = fill /\ cut' = cut /\ overtaken' = overtaken /\ inserted' = inserted
      /\ sweep' = None /\ faultsR' \in 0 .. MaxFaults
  BY Bounds DEF RollInv, Totals!TypeOK, Totals!SweepCancelled, Totals!store
<1>2. Totals!TypeOK' /\ SweepInv'
  BY <1>1 DEF RollInv, Totals!TypeOK, SweepInv
<1>3. RowsInv' /\ MarkInv' /\ FillInv'
  BY <1>1 DEF RollInv, RowsInv, MarkInv, AtMark, Due, FillInv, Gap, Totals!During, Totals!Reading
<1>4. EmptyInv' /\ Totals!ExactUnlessOvertaken'
  BY <1>1 DEF RollInv, EmptyInv, Over, Due, Totals!During, Totals!ExactUnlessOvertaken, Totals!RollupExact
<1> QED BY <1>2, <1>3, <1>4 DEF RollInv

LEMMA RestartKeeps ==
  ASSUME RollInv, Totals!Restart
  PROVE  RollInv'
<1>1. /\ now' = now /\ raw' = raw /\ roll' = roll /\ from' = from /\ since' = since
      /\ cut' = cut /\ overtaken' = overtaken /\ inserted' = inserted
      /\ sweep' = None /\ fill' = Totals!Idle /\ faultsR' \in 0 .. MaxFaults
  BY Bounds DEF RollInv, Totals!TypeOK, Totals!Restart, Totals!store
<1>2. Totals!TypeOK' /\ SweepInv'
  BY <1>1, IdleIs DEF RollInv, Totals!TypeOK, SweepInv
<1>3. RowsInv' /\ MarkInv'
  BY <1>1 DEF RollInv, RowsInv, MarkInv, AtMark, Due
<1>4. FillInv'
  <2>1. Totals!HourOf(now) \in Nat
    BY Typed DEF RollInv
  <2> QED BY <1>1, <2>1, IdleIs DEF FillInv, Totals!Reading
<1>5. EmptyInv' /\ Totals!ExactUnlessOvertaken'
  BY <1>1 DEF RollInv, EmptyInv, Over, Due, Totals!During, Totals!ExactUnlessOvertaken, Totals!RollupExact
<1> QED BY <1>2, <1>3, <1>4, <1>5 DEF RollInv

LEMMA PurgeKeeps ==
  ASSUME RollInv, Totals!Purge
  PROVE  RollInv'
<1>0. Totals!TypeOK /\ SweepInv /\ RowsInv /\ MarkInv /\ FillInv /\ EmptyInv /\ Totals!ExactUnlessOvertaken
  BY DEF RollInv
<1>1. /\ now' = now /\ since' = since /\ sweep' = sweep /\ fill' = fill
      /\ inserted' = inserted /\ faultsR' = faultsR
      /\ raw' = {} /\ roll' = [h \in Totals!Hour |-> 0] /\ from' = 0
      /\ cut' = (IF sweep = None THEN 0 ELSE cut) /\ overtaken' = (overtaken \/ Totals!Reading)
  BY DEF Totals!Purge
<1>2. overtaken' \in BOOLEAN /\ (~overtaken' => ~overtaken /\ ~Totals!Reading)
  BY <1>0, <1>1 DEF Totals!TypeOK
<1>3. Totals!TypeOK'
  <2>1. from' \in 0 .. Totals!HourOf(now) + 1 /\ roll' \in [Totals!Hour -> Nat] /\ raw' \in SUBSET Totals!Row
    BY <1>0, <1>1, Typed
  <2>2. cut' \in Totals!Time
    BY <1>0, <1>1, Bounds DEF Totals!TypeOK, Totals!Time
  <2> QED BY <1>0, <1>1, <1>2, <2>1, <2>2 DEF Totals!TypeOK
<1>4. SweepInv' /\ RowsInv'
  BY <1>0, <1>1 DEF SweepInv, RowsInv, Totals!Below
<1>5. MarkInv'
  BY <1>1, HourIn DEF MarkInv
<1>6. FillInv'
  BY <1>0, <1>1, <1>2 DEF FillInv, Totals!Reading
<1>7. EmptyInv'
  BY <1>1 DEF EmptyInv
<1>8. Totals!ExactUnlessOvertaken'
  BY <1>1, FS_EmptySet, SizeIs DEF Totals!ExactUnlessOvertaken, Totals!RollupExact, Totals!During
<1> QED BY <1>3, <1>4, <1>5, <1>6, <1>7, <1>8 DEF RollInv

(* What a step of the backfill that writes nothing leaves as it was.       *)
LEMMA ReadKeeps ==
  ASSUME RollInv, UNCHANGED <<now, Totals!store, since, sweep, cut, overtaken, inserted, faultsR>>,
         fill' \in Totals!Fill \cup {None}, FillInv'
  PROVE  RollInv'
<1>1. /\ now' = now /\ raw' = raw /\ roll' = roll /\ from' = from /\ since' = since
      /\ cut' = cut /\ overtaken' = overtaken /\ inserted' = inserted
      /\ sweep' = sweep /\ faultsR' = faultsR
  BY DEF Totals!store
<1>2. Totals!TypeOK' /\ SweepInv'
  BY <1>1 DEF RollInv, Totals!TypeOK, SweepInv, Totals!Below
<1>3. RowsInv' /\ MarkInv'
  BY <1>1 DEF RollInv, RowsInv, MarkInv, AtMark, Due
<1>4. EmptyInv' /\ Totals!ExactUnlessOvertaken'
  BY <1>1 DEF RollInv, EmptyInv, Over, Due, Totals!During, Totals!ExactUnlessOvertaken, Totals!RollupExact
<1> QED BY <1>2, <1>3, <1>4 DEF RollInv

LEMMA FillMarkKeeps ==
  ASSUME RollInv, Totals!FillMark
  PROVE  RollInv'
<1>1. fill # None /\ fill \in Totals!Fill /\ from \in Nat /\ from <= Totals!HourOf(now) + 1 /\ Totals!HourOf(now) \in Nat
  BY Typed DEF RollInv, Totals!FillMark
<1>2. from \in 0 .. Totals!HourOf(MaxTime) + 1
  <2>1. Totals!HourOf(now) <= Totals!HourOf(MaxTime) /\ Totals!HourOf(MaxTime) \in Nat
    <3>1. now \in Nat /\ now <= MaxTime /\ MaxTime \in Nat
      BY Bounds DEF RollInv, Totals!TypeOK, Totals!Time
    <3>2. Totals!HourOf(MaxTime) \in Nat
      BY <3>1, HourIs
    <3> QED BY <3>1, <3>2, HoursGrow
  <2> QED BY <1>1, <2>1
<1>3. fill' = [fill EXCEPT !.at = "newest", !.start = from]
  BY DEF Totals!FillMark
<1>4. fill' \in Totals!Fill /\ fill'.at = "newest" /\ fill'.start = from
  <2>1. PICK f, m, g : f = fill /\ m = from /\ g = [f EXCEPT !.at = "newest", !.start = m]
    OBVIOUS
  <2>2. f \in Totals!Fill /\ m \in 0 .. Totals!HourOf(MaxTime) + 1
    BY <1>1, <1>2, <2>1
  <2>3. g.at = "newest" /\ g.start = m
    BY <2>1, <2>2 DEF Totals!Fill
  <2>4. g \in Totals!Fill
    BY <2>1, <2>2 DEF Totals!Fill
  <2> QED BY <1>3, <2>1, <2>3, <2>4
<1>5. UNCHANGED <<now, Totals!store, since, sweep, cut, overtaken, inserted, faultsR>>
  BY DEF Totals!FillMark
<1>6. FillInv'
  BY <1>1, <1>4, <1>5, FillIs DEF FillInv, Totals!Reading, Totals!store
<1> QED BY <1>4, <1>5, <1>6, ReadKeeps

(* SELECT MAX: nothing lies between the hour it finds and the mark, and if *)
(* something can still come in before the mark, it is that hour's.         *)
LEMMA FillNewestKeeps ==
  ASSUME RollInv, Totals!FillNewest
  PROVE  RollInv'
<1>0. Totals!TypeOK /\ SweepInv /\ RowsInv /\ MarkInv /\ FillInv /\ EmptyInv /\ Totals!ExactUnlessOvertaken
  BY DEF RollInv
<1>1. /\ fill # None /\ fill \in Totals!Fill /\ fill.at = "newest"
      /\ fill.start \in Nat /\ fill.start <= Totals!HourOf(now) + 1 /\ from \in Nat
      /\ (~overtaken => fill.start <= from)
  BY <1>0, Typed DEF Totals!FillNewest, FillInv, Totals!Reading
<1>2. UNCHANGED <<now, Totals!store, since, sweep, cut, overtaken, inserted, faultsR>>
  BY DEF Totals!FillNewest
<1>3. raw' = raw /\ now' = now /\ since' = since /\ from' = from /\ overtaken' = overtaken
  BY <1>2 DEF Totals!store
<1> DEFINE R == Totals!Between(0, fill.start)
<1>4. R \in SUBSET Totals!Row /\ R \subseteq raw
  BY <1>0 DEF Totals!Between, Totals!TypeOK
<1>5. \A x \in raw : x.ts \in Nat /\ Totals!HourOf(x.ts) \in Nat /\ Totals!HourOf(x.ts) \in Totals!Hour
  BY <1>0, RowIn
<1>6. CASE R = {}
  <2>1. fill' = None
    BY <1>6 DEF Totals!FillNewest
  <2>2. FillInv'
    BY <2>1 DEF FillInv, Totals!Reading
  <2> QED BY <1>2, <2>1, <2>2, ReadKeeps
<1>7. CASE R # {}
  <2>1. PICK z \in R : z.ts = Totals!Newest(R) /\ \A x \in R : x.ts <= z.ts
    <3> HIDE DEF R
    <3> QED BY <1>4, <1>7, NewestIs
  <2>2. PICK k \in Totals!Hour : k = Totals!HourOf(z.ts) /\ k \in Nat /\ k < fill.start /\ z \in raw
    BY <1>4, <1>5 DEF Totals!Between
  <2>3. fill' = [fill EXCEPT !.at = "script", !.h = k]
    BY <1>7, <2>1, <2>2 DEF Totals!FillNewest
  <2>4. fill' \in Totals!Fill /\ fill'.at = "script" /\ fill'.start = fill.start /\ fill'.h = k
    <3>1. PICK f, g : f = fill /\ g = [f EXCEPT !.at = "script", !.h = k]
      OBVIOUS
    <3>2. f \in Totals!Fill
      BY <1>1, <3>1
    <3>3. g.at = "script" /\ g.start = f.start /\ g.h = k
      BY <3>1, <3>2 DEF Totals!Fill
    <3>4. g \in Totals!Fill
      BY <3>1, <3>2 DEF Totals!Fill
    <3> QED BY <2>3, <3>1, <3>3, <3>4
  <2>5. \A x \in raw : Totals!HourOf(x.ts) <= k \/ fill.start <= Totals!HourOf(x.ts)
    <3> SUFFICES ASSUME NEW x \in raw, ~(fill.start <= Totals!HourOf(x.ts)) PROVE Totals!HourOf(x.ts) <= k
      OBVIOUS
    <3>1. x \in R
      BY <1>1, <1>5 DEF Totals!Between
    <3>2. x.ts <= z.ts /\ x.ts \in Nat /\ z.ts \in Nat
      BY <1>5, <2>1, <2>2, <3>1
    <3> QED BY <2>2, <3>2, HoursGrow
  <2>6. ASSUME ~overtaken, NEW t \in Totals!Time, Due(t) PROVE Totals!HourOf(t) <= k \/ fill.start <= Totals!HourOf(t)
    <3>1. Totals!HourOf(t) \in Nat
      BY HourIn
    <3>2. CASE from <= Totals!HourOf(t)
      BY <1>1, <2>6, <3>1, <3>2
    <3>3. CASE AtMark(t)
      <4>1. PICK x \in raw : x.ts = since /\ Totals!HourOf(since) = Totals!HourOf(t) /\ from = Totals!HourOf(t) + 1
        BY <3>3 DEF AtMark
      <4>2. Totals!HourOf(x.ts) <= k \/ fill.start <= Totals!HourOf(x.ts)
        BY <2>5
      <4> QED BY <4>1, <4>2
    <3> QED BY <1>0, <2>6, <3>2, <3>3 DEF MarkInv
  <2>7. Totals!During(k) # {}
    BY <2>2 DEF Totals!During
  <2>8. FillInv'
    <3>1. \A t : Gap(t)' = (Totals!HourOf(t) <= k \/ fill.start <= Totals!HourOf(t))
      BY <2>4 DEF Gap
    <3>2. Totals!During(fill.h)' # {}
      BY <1>3, <2>4, <2>7 DEF Totals!During
    <3>3. \A t \in Totals!Time : Due(t)' = Due(t)
      BY <1>3 DEF Due
    <3> QED BY <1>1, <1>3, <2>2, <2>4, <2>5, <2>6, <3>1, <3>2, <3>3 DEF FillInv
  <2> QED BY <1>2, <2>4, <2>8, ReadKeeps
<1> QED BY <1>6, <1>7

(* The script counts what there is between its hour and the mark it read,  *)
(* which is its hour's; and the mark moves over hours without rows, whose  *)
(* totals say so.                                                          *)
LEMMA FillScriptKeeps ==
  ASSUME RollInv, Totals!FillScript
  PROVE  RollInv'
<1>0. Totals!TypeOK /\ SweepInv /\ RowsInv /\ MarkInv /\ FillInv /\ EmptyInv /\ Totals!ExactUnlessOvertaken
  BY DEF RollInv
<1>1. /\ now' = now /\ raw' = raw /\ since' = since /\ sweep' = sweep /\ cut' = cut
      /\ overtaken' = overtaken /\ inserted' = inserted /\ faultsR' = faultsR /\ fill' = Totals!Idle
  BY DEF Totals!FillScript
<1>2. PICK k \in Totals!Hour, s \in Nat :
        /\ fill # None /\ fill.at = "script" /\ fill.h = k /\ fill.start = s /\ k \in Nat
        /\ k < s
  BY <1>0, Typed DEF Totals!FillScript, FillInv
<1>3. /\ roll' = [roll EXCEPT ![k] = Totals!Cardinality(Totals!Between(k, s))]
      /\ (from = s /\ from' = k) \/ (from # s /\ from' = from)
  BY <1>2 DEF Totals!FillScript, Totals!Recount, Totals!MarkFilled
<1>4. from \in Nat /\ from' \in Nat /\ from' <= from
  BY <1>0, <1>2, <1>3, Typed
<1>5. \A h \in Totals!Hour : roll'[h] = IF h = k THEN Totals!Cardinality(Totals!Between(k, s)) ELSE roll[h]
  BY <1>0, <1>2, <1>3 DEF Totals!TypeOK
<1>6. \A t \in Totals!Time : Due(t)' = Due(t)
  BY <1>1 DEF Due
<1>7. ASSUME ~overtaken
      PROVE  /\ s <= from /\ Totals!During(k) # {} /\ Totals!Between(k, s) = Totals!During(k)
             /\ \A x \in raw : Totals!HourOf(x.ts) \in Nat /\ (Totals!HourOf(x.ts) <= k \/ s <= Totals!HourOf(x.ts))
  <2>1. s <= from /\ Totals!During(k) # {} /\ \A x \in raw : Totals!HourOf(x.ts) <= k \/ s <= Totals!HourOf(x.ts)
    BY <1>0, <1>2, <1>7 DEF FillInv, Totals!Reading, Gap
  <2>2. \A x \in raw : Totals!HourOf(x.ts) \in Nat
    BY <1>0, RowIn
  <2>3. \A x \in raw : k <= Totals!HourOf(x.ts) /\ Totals!HourOf(x.ts) < s <=> Totals!HourOf(x.ts) = k
    BY <1>2, <2>1, <2>2
  <2> QED BY <2>1, <2>2, <2>3 DEF Totals!Between, Totals!During
<1>8. Totals!TypeOK'
  <2>1. Totals!Between(k, s) \in SUBSET Totals!Row
    BY <1>0 DEF Totals!TypeOK, Totals!Between
  <2>2. Totals!Cardinality(Totals!Between(k, s)) \in Nat
    BY <2>1, RowsFinite
  <2>3. roll' \in [Totals!Hour -> Nat]
    BY <1>0, <1>3, <2>2 DEF Totals!TypeOK
  <2>4. from' \in 0 .. Totals!HourOf(now) + 1
    BY <1>0, <1>4, Typed
  <2> QED BY <1>0, <1>1, <2>3, <2>4, IdleIs DEF Totals!TypeOK
<1>9. SweepInv' /\ RowsInv'
  BY <1>0, <1>1 DEF SweepInv, Totals!Below, RowsInv
<1>10. MarkInv'
  <2> SUFFICES ASSUME NEW t \in Totals!Time, Due(t) PROVE from' <= Totals!HourOf(t) \/ AtMark(t)'
    BY <1>6 DEF MarkInv
  <2>1. Totals!HourOf(t) \in Nat
    BY HourIn
  <2>2. from <= Totals!HourOf(t) \/ AtMark(t)
    BY <1>0 DEF MarkInv
  <2>3. CASE from' = from
    BY <1>1, <2>2, <2>3 DEF AtMark
  <2>4. CASE from = s /\ from' = k
    <3>1. from <= Totals!HourOf(t) + 1
      BY <1>4, <2>1, <2>2 DEF AtMark
    <3> QED BY <1>2, <2>1, <2>4, <3>1
  <2> QED BY <1>3, <2>3, <2>4
<1>11. FillInv'
  <2>1. Totals!HourOf(now) \in Nat
    BY <1>0, Typed
  <2> QED BY <1>1, <2>1, IdleIs DEF FillInv, Totals!Reading
<1>12. EmptyInv'
  <2> SUFFICES ASSUME ~overtaken, NEW h \in Totals!Hour, h < from', cut <= 2 * h, Totals!During(h) = {}
               PROVE  roll'[h] = 0 \/ Over(h)
    BY <1>1, <1>6 DEF EmptyInv, Totals!During, Over
  <2>1. h # k /\ roll'[h] = roll[h]
    BY <1>5, <1>7
  <2>2. h < from
    BY <1>4, HourNat
  <2> QED BY <1>0, <2>1, <2>2 DEF EmptyInv
<1>13. Totals!ExactUnlessOvertaken'
  <2> SUFFICES ASSUME ~overtaken, NEW h \in Totals!Hour, from' <= h, cut <= 2 * h
               PROVE  roll'[h] = Totals!Cardinality(Totals!During(h))
    BY <1>1 DEF Totals!ExactUnlessOvertaken, Totals!RollupExact, Totals!During
  <2>0. h \in Nat
    BY HourNat
  <2>1. CASE h = k
    BY <1>5, <1>7, <2>1
  <2>2. CASE h # k /\ from <= h
    BY <1>0, <1>5, <2>2 DEF Totals!ExactUnlessOvertaken, Totals!RollupExact
  <2>3. CASE h # k /\ h < from
    <3>1. from = s /\ k < h /\ h < s
      BY <1>2, <1>3, <1>4, <2>0, <2>3
    <3>2. Totals!During(h) = {}
      BY <1>2, <1>7, <2>0, <3>1 DEF Totals!During
    <3>3. ~Over(h)
      <4>1. PICK x \in raw : Totals!HourOf(x.ts) = k
        BY <1>7 DEF Totals!During
      <4> QED BY <1>2, <2>0, <3>1, <4>1 DEF Over
    <3>4. roll[h] = 0
      BY <1>0, <2>3, <3>2, <3>3 DEF EmptyInv
    <3> QED BY <1>5, <2>3, <3>2, <3>4, FS_EmptySet, SizeIs
  <2> QED BY <1>4, <2>0, <2>1, <2>2, <2>3
<1> QED BY <1>8, <1>9, <1>10, <1>11, <1>12, <1>13 DEF RollInv

LEMMA RollStep == RollInv /\ [Totals!Next]_(Totals!vars) => RollInv'
<1> SUFFICES ASSUME RollInv, [Totals!Next]_(Totals!vars) PROVE RollInv'
  OBVIOUS
<1>1. CASE UNCHANGED Totals!vars
  <2>1. /\ now' = now /\ raw' = raw /\ roll' = roll /\ from' = from /\ since' = since
        /\ cut' = cut /\ overtaken' = overtaken /\ inserted' = inserted
        /\ sweep' = sweep /\ fill' = fill /\ faultsR' = faultsR
        /\ UNCHANGED Totals!store
    BY <1>1 DEF Totals!vars, Totals!store
  <2>2. fill' \in Totals!Fill \cup {None}
    BY <2>1 DEF RollInv, Totals!TypeOK
  <2>3. FillInv'
    BY <2>1 DEF RollInv, FillInv, Totals!Reading, Totals!During, Gap, Due
  <2> QED BY <2>1, <2>2, <2>3, ReadKeeps
<1>2. CASE Totals!Next
  BY <1>2, TickKeeps, RowInsertKeeps, PurgeKeeps, RestartKeeps, SweepStartKeeps, PruneKeeps,
     SweepScriptKeeps, SweepCancelledKeeps, FillMarkKeeps, FillNewestKeeps, FillScriptKeeps DEF Totals!Next
<1> QED BY <1>1, <1>2

(* From complete_from on the hourly totals are what counting the rows would *)
(* give, through every interleaving of inserts, late ones too, sweeps,     *)
(* cancelled sweeps, purges, backfills and restarts, for any log, times,   *)
(* chunk and numbers of rows and faults; only rows deleted between a       *)
(* backfill's reads and its script may break it (querylog.py, schema.py).  *)
THEOREM TotalsExact == Totals!Spec => []ExactUnlessOvertaken
<1>1. RollInv => ExactUnlessOvertaken
  BY DEF RollInv, ExactUnlessOvertaken
<1> QED BY <1>1, RollInit, RollStep, PTL DEF Totals!Spec

=============================================================================
