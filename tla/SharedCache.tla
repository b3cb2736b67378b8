---------------------------- MODULE SharedCache ----------------------------
(***************************************************************************)
(* The cross-worker answer cache (L2): a direct-mapped table of slots in   *)
(* one shared mapping, guarded by striped cross-process locks that a       *)
(* worker killed inside its critical section never releases.               *)
(*                                                                         *)
(* Source: trench/cache/shared.py and trench/shmlock.py.                   *)
(*                                                                         *)
(* Workers are processes: they interleave at every lock operation and      *)
(* between the two writes of `put`.  Time is abstracted to the facts the   *)
(* code reads off the clock: a slot's TTL has run out (field fresh), and a *)
(* lock written off by a worker is still inside its RETRY pause (cooling)  *)
(* or due for a probe (due).                                               *)
(***************************************************************************)
EXTENDS Naturals, FiniteSets

CONSTANTS
  Worker,      \* the forked worker processes
  Keys,        \* 64-bit key hashes in use, as positive numbers
  Slots,       \* number of slots in the table
  Stripes,     \* number of locks (_STRIPES)
  NoOne,       \* "no worker holds this lock"
  MaxClears    \* bound: how many clears a run may start

ASSUME SharedCacheAssumption ==
  /\ Keys \subseteq Nat \ {0}
  /\ Slots \in Nat \ {0}
  /\ Stripes \in Nat \ {0}
  /\ MaxClears \in Nat
  /\ NoOne \notin Worker

VARIABLES
  hdr,      \* bucket -> the slot's header, or Blank
  body,     \* bucket -> the wire bytes stored behind the header
  lock,     \* stripe -> its holder, or NoOne
  retry,    \* worker -> stripe -> "ok" | "cooling" | "due" (BoundedLocks._retry_at)
  op,       \* worker -> the call it is executing
  alive,    \* the workers not killed
  got,      \* worker -> what its last `get` returned
  era,      \* clears started so far
  stalls    \* worker -> stripe -> full LOCK_TIMEOUT waits on a dead holder

vars == <<hdr, body, lock, retry, op, alive, got, era, stalls>>

Bucket == 0 .. Slots - 1
Stripe == 0 .. Stripes - 1

(* _slot: where a key lives, and which lock guards a bucket.               *)
BucketOf(k) == k % Slots
StripeOf(b) == b % Stripes

(* The wire bytes of one put, identified by who wrote them, for what key,  *)
(* and how many clears had started when the writer took the lock.          *)
Wire  == [key : Keys, by : Worker, era : 0 .. MaxClears]
Blank == [kh |-> 0, fresh |-> FALSE, era |-> 0]
Header == [kh : Keys \cup {0}, fresh : BOOLEAN, era : 0 .. MaxClears]
NoWire == [key |-> 0, by |-> NoOne, era |-> 0]

Kinds == {"none", "get", "put", "delete", "clear"}
Steps == {"idle", "want", "wait", "crit", "mid"}

(* at: the stripe being visited; mine: for a clear, the era it opened;     *)
(* skipped: for a clear, the stripes it could not take.                    *)
Op == [kind : Kinds, key : Keys \cup {0}, step : Steps, at : Stripe,
       mine : 0 .. MaxClears, skipped : SUBSET Stripe]
Idle == [kind |-> "none", key |-> 0, step |-> "idle", at |-> 0,
         mine |-> 0, skipped |-> {}]

-----------------------------------------------------------------------------

Init ==
  /\ hdr    = [b \in Bucket |-> Blank]
  /\ body   = [b \in Bucket |-> NoWire]
  /\ lock   = [s \in Stripe |-> NoOne]
  /\ retry  = [w \in Worker |-> [s \in Stripe |-> "ok"]]
  /\ op     = [w \in Worker |-> Idle]
  /\ alive  = Worker
  /\ got    = [w \in Worker |-> NoWire]
  /\ era    = 0
  /\ stalls = [w \in Worker |-> [s \in Stripe |-> 0]]

(* A worker calls get, put or delete for one key.  A put of an empty or    *)
(* oversized wire, or with no TTL, returns before touching the table and   *)
(* is no step at all.                                                      *)
Call(w, kind, k) ==
  /\ w \in alive
  /\ op[w].step = "idle"
  /\ op' = [op EXCEPT ![w] = [Idle EXCEPT !.kind = kind, !.key = k,
                                !.step = "want", !.at = StripeOf(BucketOf(k))]]
  /\ got' = [got EXCEPT ![w] = NoWire]
  /\ UNCHANGED <<hdr, body, lock, retry, alive, era, stalls>>

(* A worker calls clear(): every stripe in turn, starting with stripe 0.   *)
CallClear(w) ==
  /\ w \in alive
  /\ op[w].step = "idle"
  /\ era < MaxClears
  /\ era' = era + 1
  /\ op' = [op EXCEPT ![w] = [Idle EXCEPT !.kind = "clear", !.step = "want",
                                          !.mine = era + 1]]
  /\ UNCHANGED <<hdr, body, lock, retry, alive, got, stalls>>

(* What a call does next when hold() gave it nothing (held = FALSE) or its *)
(* critical section on the current stripe is over: a clear moves to the    *)
(* next stripe, anything else returns.                                     *)
Advance_OffByOne(w, held) ==   \* mutant: range(_STRIPES + 1)
  LET o == op[w] IN
  IF o.kind = "clear" /\ o.at < Stripes
  THEN [o EXCEPT !.step = "want", !.at = o.at + 1] ELSE Idle

Advance(w, held) ==
  LET o    == op[w]
      skip == IF held THEN o.skipped ELSE o.skipped \cup {o.at}
  IN  IF o.kind = "clear" /\ o.at + 1 < Stripes
      THEN [o EXCEPT !.step = "want", !.at = o.at + 1, !.skipped = skip]
      ELSE Idle

(* hold(), first branch: the stripe is written off and not due yet.        *)
SkipWrittenOff(w) ==
  /\ w \in alive /\ op[w].step = "want"
  /\ retry[w][op[w].at] = "cooling"
  /\ op' = [op EXCEPT ![w] = Advance(w, FALSE)]
  /\ UNCHANGED <<hdr, body, lock, retry, alive, got, era, stalls>>

(* hold(), second branch: one non-blocking acquire of a written-off lock.  *)
Probe(w) ==
  LET s == op[w].at IN
  /\ w \in alive /\ op[w].step = "want"
  /\ retry[w][s] = "due"
  /\ \/ /\ lock[s] = NoOne
        /\ lock' = [lock EXCEPT ![s] = w]
        /\ retry' = [retry EXCEPT ![w][s] = "ok"]
        /\ op' = [op EXCEPT ![w].step = "crit"]
     \/ /\ lock[s] # NoOne
        /\ retry' = [retry EXCEPT ![w][s] = "cooling"]
        /\ op' = [op EXCEPT ![w] = Advance(w, FALSE)]
        /\ UNCHANGED lock
  /\ UNCHANGED <<hdr, body, alive, got, era, stalls>>

(* hold(), third branch: the acquire with LOCK_TIMEOUT.  It succeeds as    *)
(* soon as the lock is free ...                                            *)
Acquire(w) ==
  LET s == op[w].at IN
  /\ w \in alive /\ op[w].step \in {"want", "wait"}
  /\ retry[w][s] = "ok"
  /\ lock[s] = NoOne
  /\ lock' = [lock EXCEPT ![s] = w]
  /\ op' = [op EXCEPT ![w].step = "crit"]
  /\ UNCHANGED <<hdr, body, retry, alive, got, era, stalls>>

(* ... blocks while somebody holds it ...                                  *)
Block(w) ==
  /\ w \in alive /\ op[w].step = "want"
  /\ retry[w][op[w].at] = "ok"
  /\ lock[op[w].at] # NoOne
  /\ op' = [op EXCEPT ![w].step = "wait"]
  /\ UNCHANGED <<hdr, body, lock, retry, alive, got, era, stalls>>

(* ... and gives up, writing the lock off, when the holder outlasts it.    *)
(* The holder may be dead or merely slow.                                  *)
Timeout_GoesOn(w) ==   \* mutant: yields True after the timeout
  /\ w \in alive /\ op[w].step = "wait"
  /\ lock[op[w].at] # NoOne
  /\ op' = [op EXCEPT ![w].step = "crit"]
  /\ UNCHANGED <<hdr, body, lock, retry, alive, got, era, stalls>>

Timeout_Retries(w) ==   \* mutant: the acquire is tried again instead of given up
  /\ w \in alive /\ op[w].step = "wait"
  /\ lock[op[w].at] # NoOne
  /\ op' = [op EXCEPT ![w].step = "want"]
  /\ UNCHANGED <<hdr, body, lock, retry, alive, got, era, stalls>>

Timeout(w) ==
  LET s == op[w].at IN
  /\ w \in alive /\ op[w].step = "wait"
  /\ lock[s] # NoOne
  /\ retry' = [retry EXCEPT ![w][s] = "cooling"]
  /\ op' = [op EXCEPT ![w] = Advance(w, FALSE)]
  /\ stalls' = [stalls EXCEPT ![w][s] =
                  IF lock[s] \in alive THEN @ ELSE @ + 1]
  /\ UNCHANGED <<hdr, body, lock, alive, got, era>>

(* RETRY seconds pass for one written-off lock of one worker.              *)
RetryDue_Blocking(w, s) ==   \* mutant: forget the write-off, wait in full again
  /\ w \in alive
  /\ retry[w][s] = "cooling"
  /\ retry' = [retry EXCEPT ![w][s] = "ok"]
  /\ UNCHANGED <<hdr, body, lock, op, alive, got, era, stalls>>

RetryDue(w, s) ==
  /\ w \in alive
  /\ retry[w][s] = "cooling"
  /\ retry' = [retry EXCEPT ![w][s] = "due"]
  /\ UNCHANGED <<hdr, body, lock, op, alive, got, era, stalls>>

Holds(w, kind, step) ==
  /\ w \in alive
  /\ op[w].kind = kind /\ op[w].step = step

Release(w) == lock' = [lock EXCEPT ![op[w].at] = NoOne]

(* get(): a miss when the slot belongs to another key, is blank or is      *)
(* past its TTL; otherwise the bytes behind the header.                    *)
GetBody_NoKeyCheck(w) ==   \* mutant: the stored key hash is not compared
  LET b == BucketOf(op[w].key) IN
  /\ Holds(w, "get", "crit")
  /\ got' = [got EXCEPT ![w] = IF hdr[b].fresh THEN body[b] ELSE NoWire]
  /\ Release(w)
  /\ op' = [op EXCEPT ![w] = Advance(w, TRUE)]
  /\ UNCHANGED <<hdr, body, retry, alive, era, stalls>>

GetBody(w) ==
  LET k == op[w].key
      b == BucketOf(k)
  IN  /\ Holds(w, "get", "crit")
      /\ got' = [got EXCEPT ![w] = IF hdr[b].kh = k /\ hdr[b].fresh
                                   THEN body[b] ELSE NoWire]
      /\ Release(w)
      /\ op' = [op EXCEPT ![w] = Advance(w, TRUE)]
      /\ UNCHANGED <<hdr, body, retry, alive, era, stalls>>

(* put(): the header is packed first, then the bytes are copied.           *)
PutHeader(w) ==
  LET k == op[w].key IN
  /\ Holds(w, "put", "crit")
  /\ hdr' = [hdr EXCEPT ![BucketOf(k)] = [kh |-> k, fresh |-> TRUE, era |-> era]]
  /\ op' = [op EXCEPT ![w].step = "mid"]
  /\ UNCHANGED <<body, lock, retry, alive, got, era, stalls>>

PutBody(w) ==
  LET k == op[w].key
      b == BucketOf(k)
  IN  /\ Holds(w, "put", "mid")
      /\ body' = [body EXCEPT ![b] = [key |-> k, by |-> w, era |-> hdr[b].era]]
      /\ Release(w)
      /\ op' = [op EXCEPT ![w] = Advance(w, TRUE)]
      /\ UNCHANGED <<hdr, retry, alive, got, era, stalls>>

(* delete(): blank the slot only if it is still this key's.                *)
DeleteBody(w) ==
  LET b == BucketOf(op[w].key) IN
  /\ Holds(w, "delete", "crit")
  /\ hdr' = [hdr EXCEPT ![b] = IF @.kh = op[w].key THEN Blank ELSE @]
  /\ Release(w)
  /\ op' = [op EXCEPT ![w] = Advance(w, TRUE)]
  /\ UNCHANGED <<body, retry, alive, got, era, stalls>>

(* The buckets a clear blanks while it holds stripe i: i, i+Stripes, ...   *)
Visited_FirstOnly(i) == {b \in Bucket : b = i}   \* mutant: no stride

Visited(i) == {b \in Bucket : b >= i /\ (b - i) % Stripes = 0}

ClearBody(w) ==
  /\ Holds(w, "clear", "crit")
  /\ hdr' = [b \in Bucket |-> IF b \in Visited(op[w].at) THEN Blank ELSE hdr[b]]
  /\ Release(w)
  /\ op' = [op EXCEPT ![w] = Advance(w, TRUE)]
  /\ UNCHANGED <<body, retry, alive, got, era, stalls>>

(* A slot's TTL runs out.                                                  *)
Expire(b) ==
  /\ hdr[b].fresh
  /\ hdr' = [hdr EXCEPT ![b].fresh = FALSE]
  /\ UNCHANGED <<body, lock, retry, op, alive, got, era, stalls>>

(* SIGKILL or the OOM killer, at any point.  Workers are not restarted,    *)
(* and a lock the victim holds stays held.  The last worker is kept.       *)
Kill(w) ==
  /\ w \in alive /\ alive # {w}
  /\ alive' = alive \ {w}
  /\ UNCHANGED <<hdr, body, lock, retry, op, got, era, stalls>>

Step(w) ==
  \/ SkipWrittenOff(w) \/ Probe(w) \/ Acquire(w) \/ Block(w) \/ Timeout(w)
  \/ GetBody(w) \/ PutHeader(w) \/ PutBody(w) \/ DeleteBody(w) \/ ClearBody(w)

Next ==
  \/ \E w \in Worker :
       \/ \E kind \in {"get", "put", "delete"}, k \in Keys : Call(w, kind, k)
       \/ CallClear(w)
       \/ Step(w)
       \/ \E s \in Stripe : RetryDue(w, s)
       \/ Kill(w)
  \/ \E b \in Bucket : Expire(b)

(* A live worker keeps running: its event loop is never starved inside a   *)
(* call, and the kernel's lock timeout always fires.                       *)
Fairness == \A w \in Worker : WF_vars(Step(w))

Spec == Init /\ [][Next]_vars
LiveSpec == Spec /\ Fairness

-----------------------------------------------------------------------------
(* Type invariant.                                                         *)
TypeOK ==
  /\ hdr \in [Bucket -> Header]
  /\ body \in [Bucket -> Wire \cup {NoWire}]
  /\ lock \in [Stripe -> Worker \cup {NoOne}]
  /\ retry \in [Worker -> [Stripe -> {"ok", "cooling", "due"}]]
  /\ op \in [Worker -> Op]
  /\ alive \in SUBSET Worker
  /\ got \in [Worker -> Wire \cup {NoWire}]
  /\ era \in 0 .. MaxClears
  /\ stalls \in [Worker -> [Stripe -> Nat]]

(* A worker is inside a critical section exactly when it holds the lock of *)
(* the stripe it is visiting: BoundedLocks.hold never yields True without  *)
(* the lock, and nothing but the finally clause gives it back.             *)
HoldsIffCritical ==
  \A w \in Worker, s \in Stripe :
    lock[s] = w <=> op[w].step \in {"crit", "mid"} /\ op[w].at = s

(* "Reads never tear" (shared.py, module docstring): what a get returned   *)
(* was written, whole, by one put for the very key that was asked for,     *)
(* whoever was killed between the header and the bytes of some other put.  *)
NoTornRead ==
  [][\A w \in Worker :
       got'[w] # got[w] /\ got'[w] # NoWire =>
         LET b == BucketOf(op[w].key) IN
           got'[w].key = op[w].key /\ got'[w].era = hdr[b].era]_vars

(* A clear leaves nothing older than itself in any stripe it managed to    *)
(* take, while puts of other workers go on around it.                      *)
ClearedIsCleared ==
  \A w \in Worker, b \in Bucket :
    /\ op[w].kind = "clear"
    /\ StripeOf(b) < op[w].at
    /\ StripeOf(b) \notin op[w].skipped
    /\ hdr[b] # Blank
    => hdr[b].era >= op[w].mine

(* A dead holder costs each worker at most one LOCK_TIMEOUT per stripe     *)
(* (shmlock.py: a lock that times out is written off and only probed).     *)
OneStallPerDeadLock == \A w \in Worker, s \in Stripe : stalls[w][s] <= 1

(* No call of a live worker hangs, whoever dies holding what.              *)
EveryCallReturns ==
  \A w \in Worker : op[w].step # "idle" ~> op[w].step = "idle" \/ w \notin alive

=============================================================================
