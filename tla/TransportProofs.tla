-------------------------- MODULE TransportProofs --------------------------
(***************************************************************************)
(* Proofs about the transports to an upstream, for any tasks, questions,   *)
(* message ids and limits: Stream keeps one connection and never ends a    *)
(* working one for another's sake, UdpPool loses neither a slot to a stray *)
(* reply nor a socket, and a call of either ends as Exchange promises.     *)
(***************************************************************************)
EXTENDS MCTransports, FiniteSetTheorems, SequenceTheorems, WellFoundedInduction, TLAPS

-----------------------------------------------------------------------------
(* The least of some naturals, and leaving a queue.                        *)
LEMMA Below ==
  ASSUME NEW m \in Nat, NEW n \in Nat, m < n
  PROVE  <<m, n>> \in OpToRel(<, Nat)
BY Zenon DEF OpToRel

LEMMA NatMin ==
  ASSUME NEW T, T \subseteq Nat, T # {}
  PROVE  \E x \in T : \A y \in T : x <= y
<1>1. \E x \in T : \A y \in T : ~(y < x)
  <2>1. \E x \in T : \A y \in T : ~(<<y, x>> \in OpToRel(<, Nat))
    BY WFMin, NatLessThanWellFounded, Zenon
  <2> QED  BY <2>1, Below, Zenon
<1> QED  BY <1>1

LEMMA FirstRemoved ==
  ASSUME NEW S, NEW s \in Seq(S), NEW e
  PROVE  \/ RemoveFirst(s, e) = s /\ \A i \in DOMAIN s : s[i] # e
         \/ \E p \in DOMAIN s : s[p] = e /\ RemoveFirst(s, e) = RemoveAt(s, p)
<1>1. CASE ~ \E i \in 1 .. Len(s) : s[i] = e
  BY <1>1 DEF RemoveFirst
<1>2. CASE \E i \in 1 .. Len(s) : s[i] = e
  <2> DEFINE I == {i \in 1 .. Len(s) : s[i] = e}
  <2>1. I # {} /\ I \subseteq Nat
    BY <1>2
  <2>2. PICK p \in I : \A j \in I : p <= j
    <3> HIDE DEF I
    <3> QED  BY <2>1, NatMin
  <2>3. Min(I) \in I
    <3> HIDE DEF I
    <3>1. Min(I) = CHOOSE x \in I : \A y \in I : x =< y
      BY DEF Min
    <3> QED  BY <2>2, <3>1
  <2>4. RemoveFirst(s, e) = RemoveAt(s, Min(I))
    <3>1. SelectInSeq(s, LAMBDA v : v = e) = IF I # {} THEN Min(I) ELSE 0
      BY Zenon DEF SelectInSeq
    <3>2. RemoveFirst(s, e) = RemoveAt(s, SelectInSeq(s, LAMBDA v : v = e))
      BY <1>2, Zenon DEF RemoveFirst
    <3> HIDE DEF I
    <3>3. SelectInSeq(s, LAMBDA v : v = e) = Min(I)
      BY <2>1, <3>1, Zenon
    <3> QED  BY <3>2, <3>3, Zenon
  <2>5. Min(I) \in DOMAIN s /\ s[Min(I)] = e
    BY <2>3
  <2> QED  BY <2>4, <2>5, Zenon
<1> QED  BY <1>1, <1>2

(* Nobody else leaves with him, and the head stays unless it is he.        *)
LEMMA QueueLeft ==
  ASSUME NEW S, NEW s \in Seq(S), NEW e
  PROVE  /\ RemoveFirst(s, e) \in Seq(S)
         /\ \A x \in Range(s) : x # e => x \in Range(RemoveFirst(s, e))
         /\ s # <<>> /\ Head(s) # e =>
              RemoveFirst(s, e) # <<>> /\ Head(RemoveFirst(s, e)) = Head(s)
<1>1. CASE RemoveFirst(s, e) = s
  BY <1>1
<1>2. CASE \E p \in DOMAIN s : s[p] = e /\ RemoveFirst(s, e) = RemoveAt(s, p)
  <2>1. PICK p \in 1 .. Len(s) : s[p] = e /\ RemoveFirst(s, e) = RemoveAt(s, p)
    BY <1>2
  <2> DEFINE r == RemoveAt(s, p)
  <2>2. /\ r \in Seq(S) /\ Len(r) = Len(s) - 1
        /\ \A i \in 1 .. p - 1 : r[i] = s[i]
        /\ \A i \in p .. Len(s) - 1 : r[i] = s[i + 1]
    <3> DEFINE u == SubSeq(s, 1, p - 1)
               v == SubSeq(s, p + 1, Len(s))
    <3>1. u \in Seq(S) /\ Len(u) = p - 1 /\ \A i \in 1 .. p - 1 : u[i] = s[i]
      OBVIOUS
    <3>2. /\ v \in Seq(S) /\ Len(v) = Len(s) - p
          /\ \A i \in 1 .. Len(s) - p : v[i] = s[i + p]
      OBVIOUS
    <3>3. r = u \o v
      BY DEF RemoveAt
    <3> HIDE DEF r, u, v
    <3>4. /\ u \o v \in Seq(S) /\ Len(u \o v) = Len(u) + Len(v)
          /\ \A i \in 1 .. Len(u) + Len(v) :
               (u \o v)[i] = IF i <= Len(u) THEN u[i] ELSE v[i - Len(u)]
      BY <3>1, <3>2, ConcatProperties
    <3>5. r \in Seq(S) /\ Len(r) = Len(s) - 1
      BY <3>1, <3>2, <3>3, <3>4
    <3>6. \A i \in 1 .. p - 1 : r[i] = s[i]
      BY <3>1, <3>2, <3>3, <3>4
    <3>7. ASSUME NEW i \in p .. Len(s) - 1 PROVE r[i] = s[i + 1]
      <4>1. i - (p - 1) \in 1 .. Len(s) - p /\ (i - (p - 1)) + p = i + 1
        OBVIOUS
      <4>2. r[i] = v[i - (p - 1)]
        BY <3>1, <3>2, <3>3, <3>4
      <4> QED  BY <3>2, <4>1, <4>2
    <3> QED  BY <3>5, <3>6, <3>7
  <2>3. RemoveFirst(s, e) = r
    BY <2>1
  <2> HIDE DEF r
  <2>4. ASSUME NEW x \in Range(s), x # e PROVE x \in Range(r)
    <3>1. PICK i \in 1 .. Len(s) : s[i] = x
      BY DEF Range
    <3>2. CASE i < p
      BY <2>2, <3>1, <3>2 DEF Range
    <3>3. CASE i > p
      <4>1. i - 1 \in p .. Len(s) - 1 /\ r[i - 1] = x
        BY <2>2, <3>1, <3>3
      <4> QED  BY <2>2, <4>1 DEF Range
    <3> QED  BY <2>1, <3>1, <3>2, <3>3, <2>4
  <2>5. ASSUME s # <<>>, Head(s) # e PROVE r # <<>> /\ Head(r) = Head(s)
    <3>1. p > 1 /\ Len(r) >= 1 /\ r[1] = s[1]
      BY <2>1, <2>2, <2>5
    <3> QED  BY <2>2, <3>1
  <2> QED  BY <2>2, <2>3, <2>4, <2>5
<1> QED  BY <1>1, <1>2, FirstRemoved

LEMMA QueueJoined ==
  ASSUME NEW S, NEW s \in Seq(S), NEW e \in S
  PROVE  /\ Append(s, e) \in Seq(S) /\ e \in Range(Append(s, e))
         /\ Range(s) \subseteq Range(Append(s, e))
         /\ s # <<>> => Append(s, e) # <<>> /\ Head(Append(s, e)) = Head(s)
<1>1. /\ Append(s, e) \in Seq(S) /\ Len(Append(s, e)) = Len(s) + 1 /\ Append(s, e)[Len(s) + 1] = e
      /\ \A i \in 1 .. Len(s) : Append(s, e)[i] = s[i]
  OBVIOUS
<1>2. ASSUME NEW x \in Range(s) PROVE x \in Range(Append(s, e))
  <2>1. PICK i \in 1 .. Len(s) : s[i] = x
    BY DEF Range
  <2>2. i \in DOMAIN Append(s, e)
    BY <1>1
  <2> QED  BY <1>1, <2>1, <2>2 DEF Range
<1>3. e \in Range(Append(s, e))
  BY <1>1 DEF Range
<1>4. ASSUME s # <<>> PROVE Append(s, e) # <<>> /\ Head(Append(s, e)) = Head(s)
  BY <1>1, <1>4
<1> QED  BY <1>1, <1>2, <1>3, <1>4

-----------------------------------------------------------------------------
(* Stream: the inductive invariant.                                        *)
TaskTypes ==
  /\ pc \in [Query -> Phase]
  /\ conn \in [Query -> Conn \cup {None}]
  /\ attempt \in [Query -> 0 .. StreamAttempts]
  /\ on \in [Query -> (LinkId \X Id) \cup {None}]
  /\ fut \in [Query -> Question \cup {None, "error"}]
  /\ heard \subseteq Query
  /\ out \in [Query -> Question \cup {None, Failed, Cancelled}]

OtherTypes ==
  /\ link \in [LinkId -> Link]
  /\ asked \in [LinkId -> SUBSET (Id \X Question)]
  /\ cur \in [Conn -> LinkId \cup {None}]
  /\ lockq \in [Conn -> Seq(Query)]
  /\ mine \in Conn \cup {None}
  /\ calls \in 0 .. MaxCalls
  /\ closing \in {"no", "await", "yes"}

Types == TaskTypes /\ OtherTypes

(* Where a task is suspended tells what it holds.                          *)
Placed(q) ==
  /\ on[q] # None <=> pc[q] \in {"wait", "drop", "droptimeout"}
  /\ conn[q] # None <=> pc[q] \notin {"idle", "done"}
  /\ pc[q] # "done" => out[q] = None
  /\ pc[q] = "lock" => q \in Range(lockq[conn[q]])

(* Whoever connects holds the lock, and nobody has a link meanwhile.       *)
AtDoor(q) ==
  pc[q] = "connect" =>
    /\ lockq[conn[q]] # <<>> /\ Head(lockq[conn[q]]) = q
    /\ ~Usable(cur[conn[q]])

Pending ==
  \A l \in LinkId, i \in Id : link[l].pending[i] # None => on[link[l].pending[i]] = <<l, i>>

Opened == \A c \in Conn : cur[c] # None => link[cur[c]].st # "free"

(* A query told of an error has lost its link.                             *)
Lost ==
  \A q \in Query : pc[q] = "wait" /\ fut[q] = "error" => link[on[q][1]].st \in {"dead", "closed"}

StreamInv ==
  /\ Types /\ (\A q \in Query : Placed(q) /\ AtDoor(q))
  /\ Pending /\ Opened /\ Lost /\ OneConnection

LEMMA Nones ==
  /\ None \notin Query /\ None \notin Question /\ None \notin LinkId /\ None \notin Conn
  /\ None \notin LinkId \X Id
  /\ "error" \notin Question /\ "error" # None
  /\ Failed \notin Question \cup {None} /\ Cancelled \notin Question \cup {None}
  /\ 0 \in Id
BY StreamAssumption DEF Id

LEMMA StreamTypes == StreamInv => TypeOK
<1> SUFFICES ASSUME StreamInv PROVE TypeOK
  OBVIOUS
<1>1. ASSUME NEW l \in LinkId, NEW q \in Waiting(l) PROVE on[q] # None /\ on[q][1] = l
  <2>1. PICK i \in Id : link[l].pending[i] = q
    BY DEF Waiting
  <2>2. on[q] = <<l, i>>
    BY <2>1, Nones DEF StreamInv, Pending, Waiting
  <2> QED  BY <2>2, Nones
<1> QED  BY <1>1 DEF StreamInv, Types, TaskTypes, OtherTypes, TypeOK

-----------------------------------------------------------------------------
(* Stream: what the steps make of a link.                                  *)
LEMMA ClosedFacts ==
  ASSUME link \in [LinkId -> Link], NEW l \in LinkId
  PROVE  LET k == ClosedLink(l) IN
         /\ k \in [LinkId -> Link]
         /\ k[l].st = "closed"
         /\ \A m \in LinkId : m # l => k[m] = link[m]
         /\ \A i \in Id : k[l].pending[i] = None
BY DEF ClosedLink, Link

LEMMA DroppedFacts ==
  ASSUME link \in [LinkId -> Link], NEW l \in LinkId
  PROVE  LET k == [link EXCEPT ![l].st = "dead", ![l].pending = [i \in Id |-> None]] IN
         /\ k \in [LinkId -> Link]
         /\ k[l].st = "dead"
         /\ \A m \in LinkId : m # l => k[m] = link[m]
         /\ \A i \in Id : k[l].pending[i] = None
BY DEF Link

LEMMA FreedFacts ==
  ASSUME NEW k \in [LinkId -> Link], NEW l \in LinkId, NEW i \in Id
  PROVE  LET n == [k EXCEPT ![l].pending[i] = None] IN
         /\ n \in [LinkId -> Link]
         /\ \A m \in LinkId : n[m].st = k[m].st
         /\ n[l].pending[i] = None
         /\ \A m \in LinkId, j \in Id :
              <<m, j>> # <<l, i>> => n[m].pending[j] = k[m].pending[j]
<1> DEFINE n == [k EXCEPT ![l].pending[i] = None]
<1>1. \A m \in LinkId : k[m] \in Link
  OBVIOUS
<1>2. /\ n[l] = [k[l] EXCEPT !.pending[i] = None]
      /\ n \in [LinkId -> Link]
      /\ \A m \in LinkId : m # l => n[m] = k[m]
  BY <1>1 DEF Link
<1>3. /\ n[l].st = k[l].st /\ n[l].pending[i] = None
      /\ \A j \in Id : j # i => n[l].pending[j] = k[l].pending[j]
  BY <1>1, <1>2 DEF Link
<1> QED  BY <1>2, <1>3

Stamped(k, l, i, q) == [k EXCEPT ![l].pending[i] = q, ![l].nextId = i]

LEMMA SentFacts ==
  ASSUME NEW k \in [LinkId -> Link], NEW l \in LinkId, NEW i \in Id, NEW q \in Query,
         NEW n, n = Stamped(k, l, i, q)
  PROVE  /\ n \in [LinkId -> Link]
         /\ \A m \in LinkId : n[m].st = k[m].st
         /\ n[l].pending[i] = q
         /\ \A m \in LinkId, j \in Id :
              <<m, j>> # <<l, i>> => n[m].pending[j] = k[m].pending[j]
<1>1. \A m \in LinkId : k[m] \in Link
  OBVIOUS
<1>2. /\ n[l] = [k[l] EXCEPT !.pending[i] = q, !.nextId = i]
      /\ n \in [LinkId -> Link]
      /\ \A m \in LinkId : m # l => n[m] = k[m]
  BY <1>1 DEF Link, Stamped
<1>3. /\ n[l].st = k[l].st /\ n[l].pending[i] = q
      /\ \A j \in Id : j # i => n[l].pending[j] = k[l].pending[j]
  BY <1>1, <1>2 DEF Link
<1> QED  BY <1>2, <1>3

LEMMA OpenedFacts ==
  ASSUME link \in [LinkId -> Link], NEW l \in LinkId
  PROVE  LET n == [link EXCEPT ![l].st = "open"] IN
         /\ n \in [LinkId -> Link]
         /\ n[l].st = "open"
         /\ \A m \in LinkId : m # l => n[m] = link[m]
         /\ n[l].pending = link[l].pending /\ n[l].nextId = link[l].nextId
BY DEF Link

(* alloc_id finds an id nobody waits on, if there is one.                  *)
LEMMA AllocFacts ==
  ASSUME link \in [LinkId -> Link], NEW l \in LinkId, Free(l) # {}
  PROVE  AllocId(l) \in Id /\ link[l].pending[AllocId(l)] = None
<1> DEFINE T == {Offset(l, i) : i \in Free(l)}
<1>1. link[l].nextId \in Id
  BY DEF Link
<1>2. \A i \in Id : Offset(l, i) \in Nat
  BY <1>1, StreamAssumption DEF Offset, Id
<1>3. T \subseteq Nat /\ T # {}
  BY <1>2 DEF Free
<1>4. \E x \in T : \A y \in T : x <= y
  <2> HIDE DEF T
  <2> QED  BY <1>3, NatMin
<1>5. \E i \in Free(l) : \A j \in Free(l) : Offset(l, i) <= Offset(l, j)
  BY <1>4
<1>6. AllocId(l) \in Free(l)
  BY <1>5 DEF AllocId
<1> QED  BY <1>6 DEF Free

-----------------------------------------------------------------------------
(* Stream: a step that moves the tasks of M and nobody else.               *)
Keeps(s, r, M) ==
  \A c \in Conn :
    /\ \A x \in Range(s[c]) \ M : x \in Range(r[c])
    /\ s[c] # <<>> /\ Head(s[c]) \notin M => r[c] # <<>> /\ Head(r[c]) = Head(s[c])

Others(M) ==
  /\ \A p \in Query \ M : /\ pc'[p] = pc[p] /\ conn'[p] = conn[p]
                          /\ on'[p] = on[p] /\ out'[p] = out[p]
  /\ Keeps(lockq, lockq', M)

(* Links only end, and are only forgotten.                                 *)
Fewer ==
  /\ \A l \in LinkId : link'[l].st # link[l].st => link'[l].st \in {"dead", "closed"}
  /\ \A c \in Conn :
       cur'[c] # cur[c] =>
         cur'[c] = None /\ (cur[c] # None => link'[cur[c]].st \in {"dead", "closed"})

(* Waiters only leave, and those of M only with what they registered.      *)
Thinner(M) ==
  /\ \A l \in LinkId, i \in Id : link'[l].pending[i] \in {link[l].pending[i], None}
  /\ \A l \in LinkId, i \in Id, q \in M :
       link'[l].pending[i] = q => on'[q] = on[q]

LEMMA OthersKept ==
  ASSUME StreamInv, Types', NEW M \in SUBSET Query, Others(M),
         NEW p \in Query \ M,
         pc[p] = "connect" => ~Usable(cur[conn[p]])'
  PROVE  (Placed(p) /\ AtDoor(p))'
<1>1. /\ pc'[p] = pc[p] /\ conn'[p] = conn[p] /\ on'[p] = on[p] /\ out'[p] = out[p]
      /\ Placed(p) /\ AtDoor(p) /\ conn[p] \in Conn \cup {None}
  BY DEF Others, StreamInv, Types, TaskTypes
<1>2. pc[p] = "lock" => p \in Range(lockq'[conn[p]])
  BY <1>1 DEF Others, Keeps, Placed
<1>3. Placed(p)'
  BY <1>1, <1>2 DEF Placed
<1>4. ASSUME pc[p] = "connect" PROVE AtDoor(p)'
  <2>1. conn[p] \in Conn /\ lockq[conn[p]] # <<>> /\ Head(lockq[conn[p]]) = p
    BY <1>1, <1>4 DEF Placed, AtDoor
  <2>2. lockq'[conn[p]] # <<>> /\ Head(lockq'[conn[p]]) = p
    BY <2>1 DEF Others, Keeps
  <2>3. ~Usable(cur[conn[p]])'
    BY <1>1, <1>4
  <2> QED  BY <1>1, <2>2, <2>3, Zenon DEF AtDoor
<1>5. ASSUME pc[p] # "connect" PROVE AtDoor(p)'
  <2>1. pc'[p] # "connect"
    BY <1>1, <1>5
  <2> QED  BY <2>1 DEF AtDoor
<1> QED  BY <1>3, <1>4, <1>5

LEMMA FewerLinks ==
  ASSUME StreamInv, Types', Fewer
  PROVE  /\ Opened' /\ OneConnection'
         /\ \A c \in Conn : ~Usable(cur[c]) => ~Usable(cur[c])'
<1>1. \A c \in Conn : cur[c] \in LinkId \cup {None} /\ cur'[c] \in LinkId \cup {None}
  BY DEF StreamInv, Types, TaskTypes, OtherTypes
<1>2. Opened'
  BY <1>1, Nones DEF Fewer, Opened, StreamInv
<1>3. OneConnection'
  <2> SUFFICES ASSUME NEW l \in LinkId, Usable(l)' PROVE \E c \in Conn : cur'[c] = l
    BY DEF OneConnection
  <2>1. link[l].st = "open"
    BY DEF Usable, Fewer
  <2>2. PICK c \in Conn : cur[c] = l
    BY <2>1, Nones DEF StreamInv, OneConnection, Usable
  <2>3. cur'[c] = l
    BY <2>2, Nones DEF Usable, Fewer
  <2> QED  BY <2>3
<1>4. ASSUME NEW c \in Conn, ~Usable(cur[c]) PROVE ~Usable(cur[c])'
  BY <1>1, <1>4, Nones DEF Usable, Fewer
<1> QED  BY <1>2, <1>3, <1>4

LEMMA ThinnerPending ==
  ASSUME StreamInv, Types', NEW M \in SUBSET Query, Others(M), Thinner(M)
  PROVE  Pending'
<1> SUFFICES ASSUME NEW l \in LinkId, NEW i \in Id, link'[l].pending[i] # None
             PROVE  on'[link'[l].pending[i]] = <<l, i>>
  BY DEF Pending
<1> DEFINE p == link[l].pending[i]
<1>1. link'[l].pending[i] = p /\ p # None
  BY DEF Thinner
<1>2. on[p] = <<l, i>>
  BY <1>1 DEF StreamInv, Pending
<1>3. p \in Query
  <2>1. link[l] \in Link
    BY DEF StreamInv, Types, TaskTypes, OtherTypes
  <2> QED  BY <1>1, <2>1 DEF Link
<1> HIDE DEF p
<1>4. on'[p] = on[p]
  BY <1>1, <1>3 DEF Others, Thinner
<1> QED  BY <1>1, <1>2, <1>4

(* A step of that kind keeps the invariant.                                *)
LEMMA FewerKept ==
  ASSUME StreamInv, Types', NEW M \in SUBSET Query, Others(M), Fewer, Pending', Lost',
         \A q \in M : (Placed(q) /\ AtDoor(q))'
  PROVE  StreamInv'
<1>1. Opened' /\ OneConnection' /\ \A c \in Conn : ~Usable(cur[c]) => ~Usable(cur[c])'
  BY FewerLinks
<1>2. Pending'
  OBVIOUS
<1>3. ASSUME NEW p \in Query \ M PROVE (Placed(p) /\ AtDoor(p))'
  <2>1. ASSUME pc[p] = "connect" PROVE ~Usable(cur[conn[p]])'
    <3>1. Placed(p) /\ AtDoor(p) /\ conn[p] \in Conn \cup {None} /\ conn'[p] = conn[p]
      BY DEF StreamInv, Types, TaskTypes, Others
    <3>2. conn[p] \in Conn /\ ~Usable(cur[conn[p]])
      BY <2>1, <3>1 DEF Placed, AtDoor
    <3> QED  BY <1>1, <3>1, <3>2 DEF Usable
  <2> QED  BY <2>1, OthersKept
<1> QED  BY <1>1, <1>2, <1>3 DEF StreamInv

-----------------------------------------------------------------------------
(* Stream: the queue at the lock.                                          *)
LEMMA ReleasedKeeps ==
  ASSUME lockq \in [Conn -> Seq(Query)], NEW c, NEW q \in Query
  PROVE  Released(c, q) \in [Conn -> Seq(Query)] /\ Keeps(lockq, Released(c, q), {q})
<1> DEFINE r == Released(c, q)
<1>1. \A d \in Conn : lockq[d] \in Seq(Query) /\ RemoveFirst(lockq[d], q) \in Seq(Query)
  BY QueueLeft
<1>2. r \in [Conn -> Seq(Query)]
  BY <1>1 DEF Released
<1>3. \A d \in Conn : r[d] = lockq[d] \/ r[d] = RemoveFirst(lockq[d], q)
  BY DEF Released
<1> HIDE DEF r
<1>4. ASSUME NEW d \in Conn
      PROVE  /\ \A x \in Range(lockq[d]) \ {q} : x \in Range(r[d])
             /\ lockq[d] # <<>> /\ Head(lockq[d]) \notin {q}
                  => r[d] # <<>> /\ Head(r[d]) = Head(lockq[d])
  <2>1. CASE r[d] = lockq[d]
    BY <2>1
  <2>2. CASE r[d] = RemoveFirst(lockq[d], q)
    BY <1>1, <2>2, QueueLeft
  <2> QED  BY <1>3, <2>1, <2>2
<1>5. Keeps(lockq, r, {q})
  BY <1>4 DEF Keeps
<1> QED  BY <1>2, <1>5 DEF r

LEMMA JoinedKeeps ==
  ASSUME NEW s \in [Conn -> Seq(Query)], NEW c \in Conn, NEW q \in Query, NEW M
  PROVE  LET r == [s EXCEPT ![c] = Append(@, q)] IN
         r \in [Conn -> Seq(Query)] /\ Keeps(s, r, M) /\ q \in Range(r[c])
<1> DEFINE r == [s EXCEPT ![c] = Append(@, q)]
<1>1. /\ Append(s[c], q) \in Seq(Query) /\ q \in Range(Append(s[c], q))
      /\ Range(s[c]) \subseteq Range(Append(s[c], q))
      /\ s[c] # <<>> => Append(s[c], q) # <<>> /\ Head(Append(s[c], q)) = Head(s[c])
  BY QueueJoined
<1>2. r \in [Conn -> Seq(Query)] /\ r[c] = Append(s[c], q)
      /\ \A d \in Conn : d # c => r[d] = s[d]
  BY <1>1
<1> HIDE DEF r
<1>3. ASSUME NEW d \in Conn
      PROVE  /\ \A x \in Range(s[d]) \ M : x \in Range(r[d])
             /\ s[d] # <<>> /\ Head(s[d]) \notin M => r[d] # <<>> /\ Head(r[d]) = Head(s[d])
  <2>1. CASE d = c
    BY <1>1, <1>2, <2>1
  <2>2. CASE d # c
    BY <1>2, <2>2
  <2> QED  BY <2>1, <2>2
<1>4. Keeps(s, r, M)
  BY <1>3 DEF Keeps
<1> QED  BY <1>1, <1>2, <1>4 DEF r

LEMMA KeepsTwice ==
  ASSUME NEW s, NEW r, NEW u, NEW M, Keeps(s, r, M), Keeps(r, u, M)
  PROVE  Keeps(s, u, M)
BY DEF Keeps

LEMMA KeepsAll ==
  ASSUME NEW s, NEW M
  PROVE  Keeps(s, s, M)
BY DEF Keeps

-----------------------------------------------------------------------------
(* Stream: how a task goes on.                                             *)
Alone(q) ==
  \A p \in Query \ {q} : /\ pc'[p] = pc[p] /\ conn'[p] = conn[p] /\ fut'[p] = fut[p]
                         /\ on'[p] = on[p] /\ out'[p] = out[p]

LEMMA ReturnFacts ==
  ASSUME TaskTypes, NEW q \in Query, NEW r \in Question \cup {Failed, Cancelled}, Return(q, r)
  PROVE  /\ TaskTypes' /\ Alone(q) /\ (Placed(q) /\ AtDoor(q))'
         /\ on'[q] = None /\ fut'[q] = None /\ pc'[q] = "done"
<1>1. /\ pc' \in [Query -> Phase] /\ conn' \in [Query -> Conn \cup {None}]
      /\ on' \in [Query -> (LinkId \X Id) \cup {None}]
      /\ fut' \in [Query -> Question \cup {None, "error"}]
      /\ out' \in [Query -> Question \cup {None, Failed, Cancelled}]
  BY DEF Return, TaskTypes, Phase
<1>2. attempt' \in [Query -> 0 .. StreamAttempts] /\ heard' \subseteq Query
  BY StreamAssumption DEF Return, TaskTypes
<1>3. /\ pc'[q] = "done" /\ conn'[q] = None /\ on'[q] = None /\ fut'[q] = None
  BY DEF Return, TaskTypes
<1>4. Alone(q)
  BY DEF Return, TaskTypes, Alone
<1>5. (Placed(q) /\ AtDoor(q))'
  BY <1>3 DEF Placed, AtDoor
<1> QED  BY <1>1, <1>2, <1>3, <1>4, <1>5 DEF TaskTypes

LEMMA EnterFacts ==
  ASSUME TaskTypes, lockq \in [Conn -> Seq(Query)],
         NEW q \in Query, NEW c \in Conn, NEW n \in 0 .. StreamAttempts, Enter(q, c, n)
  PROVE  /\ TaskTypes' /\ Alone(q) /\ (Placed(q) /\ AtDoor(q))'
         /\ lockq' \in [Conn -> Seq(Query)] /\ Keeps(lockq, lockq', {q})
         /\ on'[q] = None /\ fut'[q] = None /\ pc'[q] = "lock" /\ out'[q] = None
<1>1. /\ pc' \in [Query -> Phase] /\ conn' \in [Query -> Conn \cup {None}]
      /\ on' \in [Query -> (LinkId \X Id) \cup {None}]
      /\ fut' \in [Query -> Question \cup {None, "error"}]
      /\ out' \in [Query -> Question \cup {None, Failed, Cancelled}]
  BY DEF Enter, TaskTypes, Phase
<1>2. attempt' \in [Query -> 0 .. StreamAttempts] /\ heard' \subseteq Query
  BY DEF Enter, TaskTypes
<1>3. /\ pc'[q] = "lock" /\ conn'[q] = c /\ on'[q] = None /\ fut'[q] = None /\ out'[q] = None
  BY DEF Enter, TaskTypes
<1>4. Alone(q)
  BY DEF Enter, TaskTypes, Alone
<1>5. lockq' \in [Conn -> Seq(Query)] /\ Keeps(lockq, lockq', {q}) /\ q \in Range(lockq'[c])
  BY JoinedKeeps DEF Enter
<1>6. (Placed(q) /\ AtDoor(q))'
  BY <1>3, <1>5, Nones DEF Placed, AtDoor
<1> QED  BY <1>1, <1>2, <1>3, <1>4, <1>5, <1>6 DEF TaskTypes

(* What the steps of one task have in common.                              *)
LEMMA TaskKept ==
  ASSUME StreamInv, Types', NEW q \in Query, Alone(q), Keeps(lockq, lockq', {q}),
         Fewer, Pending', (Placed(q) /\ AtDoor(q))', fut'[q] = None
  PROVE  StreamInv'
<1>1. Others({q})
  BY DEF Others, Alone
<1>2. ASSUME NEW p \in Query, pc'[p] = "wait", fut'[p] = "error"
      PROVE  link'[on'[p][1]].st \in {"dead", "closed"}
  <2>1. p # q
    BY <1>2, Nones
  <2>2. pc[p] = "wait" /\ fut[p] = "error" /\ on'[p] = on[p]
    BY <1>2, <2>1 DEF Alone
  <2>3. on[p] \in LinkId \X Id
    BY <2>2 DEF StreamInv, Types, TaskTypes, Placed
  <2>4. link[on[p][1]].st \in {"dead", "closed"} /\ on[p][1] \in LinkId
    BY <2>2, <2>3 DEF StreamInv, Lost
  <2> QED  BY <2>2, <2>4 DEF Fewer
<1>3. Lost'
  BY <1>2 DEF Lost
<1> QED  BY <1>1, <1>3, FewerKept

LEMMA Unregistered ==
  ASSUME StreamInv, NEW q \in Query, on[q] = None
  PROVE  /\ \A l \in LinkId, i \in Id : link[l].pending[i] # q
         /\ (link' = link => Thinner({q}))
<1>1. \A l \in LinkId, i \in Id : link[l].pending[i] # q
  <2> SUFFICES ASSUME NEW l \in LinkId, NEW i \in Id, link[l].pending[i] = q PROVE FALSE
    OBVIOUS
  <2>1. on[q] = <<l, i>>
    BY Nones DEF StreamInv, Pending
  <2> QED  BY <2>1, Nones
<1> QED  BY <1>1 DEF Thinner

LEMMA PoppedThinner ==
  ASSUME StreamInv, NEW q \in Query, on[q] # None, link' = Popped(link, q)
  PROVE  /\ link' \in [LinkId -> Link] /\ Thinner({q})
         /\ \A l \in LinkId : link'[l].st = link[l].st
<1>1. on[q] \in LinkId \X Id /\ link \in [LinkId -> Link]
  BY DEF StreamInv, Types, TaskTypes, OtherTypes
<1>2. PICK l \in LinkId, i \in Id : on[q] = <<l, i>>
  BY <1>1
<1>3. link' = [link EXCEPT ![l].pending[i] = None]
  BY <1>2 DEF Popped
<1>4. /\ link' \in [LinkId -> Link]
      /\ \A m \in LinkId : link'[m].st = link[m].st
      /\ link'[l].pending[i] = None
      /\ \A m \in LinkId, j \in Id :
           <<m, j>> # <<l, i>> => link'[m].pending[j] = link[m].pending[j]
  BY <1>1, <1>3, FreedFacts
<1>5. ASSUME NEW m \in LinkId, NEW j \in Id PROVE link'[m].pending[j] # q
  <2>1. CASE <<m, j>> = <<l, i>>
    BY <1>4, <2>1, Nones
  <2>2. CASE <<m, j>> # <<l, i>>
    <3>1. ASSUME link[m].pending[j] = q PROVE FALSE
      <4>1. on[q] = <<m, j>>
        BY <3>1, Nones DEF StreamInv, Pending
      <4> QED  BY <1>2, <2>2, <4>1
    <3> QED  BY <1>4, <2>2, <3>1
  <2> QED  BY <2>1, <2>2
<1>6. \A m \in LinkId, j \in Id : link'[m].pending[j] \in {link[m].pending[j], None}
  <2> TAKE m \in LinkId, j \in Id
  <2>1. CASE <<m, j>> = <<l, i>>
    BY <1>4, <2>1
  <2>2. CASE <<m, j>> # <<l, i>>
    BY <1>4, <2>2
  <2> QED  BY <2>1, <2>2
<1> QED  BY <1>4, <1>5, <1>6 DEF Thinner

(* A link is closed and its waiters are told.                              *)
LEMMA ToldFacts ==
  ASSUME StreamInv, NEW l \in LinkId, link' \in [LinkId -> Link],
         fut' = FailedFuts(l), on' = on, NEW M \in SUBSET Query,
         link'[l].st \in {"dead", "closed"}, \A i \in Id : link'[l].pending[i] = None,
         \A m \in LinkId : m # l => link'[m] = link[m],
         \A p \in Query : pc'[p] = "wait" => pc[p] = "wait"
  PROVE  /\ fut' \in [Query -> Question \cup {None, "error"}]
         /\ Thinner(M) /\ Lost'
<1>1. fut' \in [Query -> Question \cup {None, "error"}]
  BY DEF FailedFuts, StreamInv, Types, TaskTypes
<1>2. Thinner(M)
  BY DEF Thinner
<1>3. ASSUME NEW p \in Query, pc'[p] = "wait", fut'[p] = "error"
      PROVE  link'[on[p][1]].st \in {"dead", "closed"}
  <2>1. pc[p] = "wait" /\ on[p] \in LinkId \X Id
    BY <1>3 DEF StreamInv, Types, TaskTypes, Placed
  <2>2. CASE fut[p] = "error"
    <3>1. link[on[p][1]].st \in {"dead", "closed"}
      BY <2>1, <2>2 DEF StreamInv, Lost
    <3> QED  BY <2>1, <3>1
  <2>3. CASE fut[p] # "error"
    <3>1. p \in Waiting(l)
      BY <1>3, <2>3 DEF FailedFuts
    <3>2. PICK i \in Id : link[l].pending[i] = p
      BY <3>1 DEF Waiting
    <3>3. on[p] = <<l, i>>
      BY <3>2, Nones DEF StreamInv, Pending
    <3> QED  BY <3>3
  <2> QED  BY <2>2, <2>3
<1>4. Lost'
  BY <1>3 DEF Lost
<1> QED  BY <1>1, <1>2, <1>4

(* query() from the return of _current to its first await.                 *)
LEMMA SendFacts ==
  ASSUME StreamInv, NEW q \in Query, pc[q] \in {"lock", "connect"}, NEW l \in LinkId,
         NEW lk \in [LinkId -> Link], lk[l].pending = link[l].pending,
         \A m \in LinkId : m # l => lk[m] = link[m],
         Send(q, l, lk)
  PROVE  /\ TaskTypes' /\ Alone(q) /\ (Placed(q) /\ AtDoor(q))' /\ fut'[q] = None
         /\ link' \in [LinkId -> Link] /\ asked' \in [LinkId -> SUBSET (Id \X Question)]
         /\ Pending'
         /\ \A m \in LinkId : link'[m].st = lk[m].st
<1>1. TaskTypes /\ OtherTypes /\ Placed(q) /\ on[q] = None /\ conn[q] # None /\ out[q] = None
  BY DEF StreamInv, Types, Placed
<1>2. \A m \in LinkId, j \in Id : link[m].pending[j] # q
  BY <1>1, Unregistered
<1>3. \A m \in LinkId : lk[m].pending = link[m].pending
  OBVIOUS
<1>4. \A m \in LinkId, j \in Id : link[m].pending[j] \in Query \cup {None}
  <2>1. \A m \in LinkId : link[m] \in Link
    BY <1>1 DEF OtherTypes
  <2> QED  BY <2>1 DEF Link
<1>5. CASE Free(l) = {}
  <2>1. Return(q, Failed) /\ link' = lk /\ asked' = asked
    BY <1>5 DEF Send
  <2>2. TaskTypes' /\ Alone(q) /\ (Placed(q) /\ AtDoor(q))' /\ fut'[q] = None
    BY <1>1, <2>1, ReturnFacts
  <2>3. Pending'
    <3> SUFFICES ASSUME NEW m \in LinkId, NEW j \in Id, link'[m].pending[j] # None
                 PROVE  on'[link'[m].pending[j]] = <<m, j>>
      BY DEF Pending
    <3>1. link'[m].pending[j] = link[m].pending[j]
      BY <1>3, <2>1
    <3>2. on[link[m].pending[j]] = <<m, j>>
      BY <3>1 DEF StreamInv, Pending
    <3> QED  BY <1>2, <1>4, <2>2, <3>1, <3>2 DEF Alone
  <2> QED  BY <1>1, <2>1, <2>2, <2>3 DEF OtherTypes
<1>6. CASE Free(l) # {}
  <2> DEFINE i == AllocId(l)
  <2>1. i \in Id /\ link[l].pending[i] = None
    BY <1>1, <1>6, AllocFacts DEF OtherTypes
  <2>2. /\ pc' = [pc EXCEPT ![q] = "wait"] /\ on' = [on EXCEPT ![q] = <<l, i>>]
        /\ fut' = [fut EXCEPT ![q] = None]
        /\ link' = [lk EXCEPT ![l].pending[i] = q, ![l].nextId = i]
        /\ asked' = [asked EXCEPT ![l] = @ \cup {<<i, Asks[q]>>}]
        /\ UNCHANGED <<conn, attempt, heard, out>>
    BY <1>6 DEF Send
  <2> HIDE DEF i
  <2>3. /\ link' \in [LinkId -> Link]
        /\ \A m \in LinkId : link'[m].st = lk[m].st
        /\ link'[l].pending[i] = q
        /\ \A m \in LinkId, j \in Id :
             <<m, j>> # <<l, i>> => link'[m].pending[j] = lk[m].pending[j]
    <3>1. link' = Stamped(lk, l, i, q)
      BY <2>2 DEF Stamped
    <3> QED  BY <2>1, <3>1, SentFacts
  <2>4. asked' \in [LinkId -> SUBSET (Id \X Question)]
    BY <1>1, <2>1, <2>2, StreamAssumption DEF OtherTypes
  <2>5. TaskTypes'
    BY <1>1, <2>1, <2>2 DEF TaskTypes, Phase
  <2>6. Alone(q) /\ fut'[q] = None /\ pc'[q] = "wait" /\ on'[q] = <<l, i>>
        /\ conn'[q] = conn[q] /\ out'[q] = None
    BY <1>1, <2>2 DEF TaskTypes, Alone
  <2>7. (Placed(q) /\ AtDoor(q))'
    BY <1>1, <2>1, <2>6, Nones DEF Placed, AtDoor
  <2>8. Pending'
    <3> SUFFICES ASSUME NEW m \in LinkId, NEW j \in Id, link'[m].pending[j] # None
                 PROVE  on'[link'[m].pending[j]] = <<m, j>>
      BY DEF Pending
    <3>1. CASE <<m, j>> = <<l, i>>
      BY <2>3, <2>6, <3>1
    <3>2. CASE <<m, j>> # <<l, i>>
      <4>1. link'[m].pending[j] = link[m].pending[j]
        BY <1>3, <2>3, <3>2
      <4>2. on[link[m].pending[j]] = <<m, j>>
        BY <4>1 DEF StreamInv, Pending
      <4> QED  BY <1>2, <1>4, <2>6, <4>1, <4>2 DEF Alone
    <3> QED  BY <3>1, <3>2
  <2> QED  BY <2>3, <2>4, <2>5, <2>6, <2>7, <2>8
<1> QED  BY <1>5, <1>6

-----------------------------------------------------------------------------
(* Stream: the steps of a task.                                            *)
LEMMA FewerSame ==
  ASSUME \A l \in LinkId : link'[l].st = link[l].st, cur' = cur
  PROVE  Fewer
BY DEF Fewer

LEMMA StartKeeps ==
  ASSUME StreamInv, NEW q \in Query, Start(q)
  PROVE  StreamInv'
<1>1. TaskTypes /\ OtherTypes /\ on[q] = None
  BY DEF StreamInv, Types, Placed, Start
<1>2. PICK c \in Conn : mine' = c /\ Enter(q, c, 1)
  <2>1. mine # None => mine \in Conn
    BY <1>1 DEF OtherTypes
  <2> QED  BY <2>1 DEF Start, Conn
<1>3. 1 \in 0 .. StreamAttempts
  BY StreamAssumption
<1>4. /\ TaskTypes' /\ Alone(q) /\ (Placed(q) /\ AtDoor(q))'
      /\ lockq' \in [Conn -> Seq(Query)] /\ Keeps(lockq, lockq', {q}) /\ fut'[q] = None
  BY <1>1, <1>2, <1>3, EnterFacts DEF OtherTypes
<1>5. UNCHANGED <<net, cur, closing>> /\ calls' \in 0 .. MaxCalls
  BY <1>1, StreamAssumption DEF Start, OtherTypes
<1>6. Fewer /\ Thinner({q})
  BY <1>1, <1>5, FewerSame, Unregistered DEF net
<1>7. Types'
  BY <1>1, <1>2, <1>4, <1>5 DEF Types, OtherTypes, net
<1>8. Others({q})
  BY <1>4 DEF Others, Alone
<1>9. Pending'
  BY <1>6, <1>7, <1>8, ThinnerPending
<1> QED  BY <1>4, <1>6, <1>7, <1>9, TaskKept

LEMMA ReuseKeeps ==
  ASSUME StreamInv, NEW q \in Query, Reuse(q)
  PROVE  StreamInv'
<1> DEFINE l == cur[conn[q]]
<1>1. TaskTypes /\ OtherTypes /\ Placed(q) /\ pc[q] = "lock"
  BY DEF StreamInv, Types, Reuse, AtLock
<1>2. conn[q] \in Conn
  BY <1>1 DEF TaskTypes, Placed
<1>3. l \in LinkId /\ link \in [LinkId -> Link]
  BY <1>1, <1>2 DEF OtherTypes, Reuse, Usable
<1>4. Send(q, l, link) /\ lockq' = Released(conn[q], q)
      /\ UNCHANGED <<cur, mine, closing, calls>>
  BY DEF Reuse
<1> HIDE DEF l
<1>5. /\ TaskTypes' /\ Alone(q) /\ (Placed(q) /\ AtDoor(q))' /\ fut'[q] = None
      /\ link' \in [LinkId -> Link] /\ asked' \in [LinkId -> SUBSET (Id \X Question)]
      /\ Pending'
      /\ \A m \in LinkId : link'[m].st = link[m].st
  BY <1>1, <1>3, <1>4, SendFacts
<1>6. lockq' \in [Conn -> Seq(Query)] /\ Keeps(lockq, lockq', {q})
  BY <1>1, <1>4, ReleasedKeeps DEF OtherTypes
<1>7. Types'
  BY <1>1, <1>4, <1>5, <1>6 DEF Types, OtherTypes
<1>8. Fewer
  BY <1>4, <1>5, FewerSame
<1> QED  BY <1>4, <1>5, <1>6, <1>7, <1>8, TaskKept

LEMMA OpenKeeps ==
  ASSUME StreamInv, NEW q \in Query, Open(q)
  PROVE  StreamInv'
<1> DEFINE c == conn[q]
<1>1. TaskTypes /\ OtherTypes /\ Placed(q) /\ pc[q] = "lock" /\ Head(lockq[c]) = q
  BY DEF StreamInv, Types, Open, AtLock
<1>2. c \in Conn /\ q \in Range(lockq[c]) /\ on[q] = None /\ conn[q] # None /\ out[q] = None
  BY <1>1 DEF TaskTypes, Placed
<1>3. cur[c] \in LinkId \cup {None} /\ ~Usable(cur[c])
  BY <1>1, <1>2 DEF OtherTypes, Open
<1>4. lockq[c] # <<>>
  BY <1>1, <1>2 DEF OtherTypes, Range
<1>5. /\ pc' = [pc EXCEPT ![q] = "connect"]
      /\ UNCHANGED <<conn, attempt, on, heard, out, asked, cur, lockq, mine, closing, calls>>
      /\ link' = IF cur[c] = None THEN link ELSE ClosedLink(cur[c])
      /\ fut' = IF cur[c] = None THEN fut ELSE FailedFuts(cur[c])
  BY DEF Open
<1> HIDE DEF c
<1>6. \A p \in Query : pc'[p] = "wait" => pc[p] = "wait" /\ p # q
  BY <1>1, <1>5 DEF TaskTypes
<1>7. /\ link' \in [LinkId -> Link] /\ fut' \in [Query -> Question \cup {None, "error"}]
      /\ Thinner({q}) /\ Lost' /\ Fewer
  <2>1. CASE cur[c] = None
    <3>1. link' = link /\ fut' = fut /\ on' = on /\ cur' = cur
      BY <1>5, <2>1
    <3>2. Lost'
      BY <1>6, <3>1 DEF StreamInv, Lost
    <3> QED  BY <1>1, <3>1, <3>2, FewerSame DEF TaskTypes, OtherTypes, Thinner
  <2>2. CASE cur[c] # None
    <3>1. cur[c] \in LinkId /\ link' = ClosedLink(cur[c]) /\ fut' = FailedFuts(cur[c])
          /\ on' = on /\ cur' = cur
      BY <1>3, <1>5, <2>2
    <3>2. /\ link' \in [LinkId -> Link] /\ link'[cur[c]].st = "closed"
          /\ \A m \in LinkId : m # cur[c] => link'[m] = link[m]
          /\ \A i \in Id : link'[cur[c]].pending[i] = None
      BY <1>1, <3>1, ClosedFacts DEF OtherTypes
    <3>3. /\ fut' \in [Query -> Question \cup {None, "error"}]
          /\ Thinner({q}) /\ Lost'
      BY <1>6, <3>1, <3>2, ToldFacts
    <3>4. Fewer
      BY <3>1, <3>2 DEF Fewer
    <3> QED  BY <3>2, <3>3, <3>4
  <2> QED  BY <2>1, <2>2
<1>8. Types'
  BY <1>1, <1>5, <1>7 DEF Types, TaskTypes, OtherTypes, Phase
<1>9. Others({q})
  BY <1>1, <1>5, KeepsAll DEF Others, TaskTypes
<1>10. pc'[q] = "connect" /\ conn'[q] = c /\ on'[q] = None /\ out'[q] = None
  BY <1>1, <1>2, <1>5 DEF TaskTypes, c
<1>11. cur'[c] = None \/ link'[cur'[c]].st # "open"
  <2>1. cur'[c] = cur[c] /\ (cur[c] # None => link[cur[c]].st # "open")
    BY <1>3, <1>5 DEF Usable
  <2> QED  BY <1>3, <1>7, <2>1 DEF Fewer
<1>12. (Placed(q) /\ AtDoor(q))'
  <2>1. Placed(q)'
    BY <1>2, <1>10, Nones DEF Placed
  <2>2. lockq'[c] # <<>> /\ Head(lockq'[c]) = q
    BY <1>1, <1>4, <1>5 DEF c
  <2>3. ~Usable(cur[conn[q]])'
    BY <1>5, <1>11 DEF c, Usable
  <2>4. AtDoor(q)'
    BY <1>10, <2>2, <2>3 DEF AtDoor
  <2> QED  BY <2>1, <2>4
<1>13. Pending'
  BY <1>7, <1>8, <1>9, ThinnerPending
<1> QED  BY <1>7, <1>8, <1>9, <1>12, <1>13, FewerKept

LEMMA ConnectedKeeps ==
  ASSUME StreamInv, NEW q \in Query, Connected(q)
  PROVE  StreamInv'
<1> DEFINE c == conn[q]
<1>1. TaskTypes /\ OtherTypes /\ Placed(q) /\ AtDoor(q) /\ pc[q] = "connect"
  BY DEF StreamInv, Types, Connected
<1>2. c \in Conn /\ lockq[c] # <<>> /\ Head(lockq[c]) = q /\ ~Usable(cur[c])
  BY <1>1 DEF TaskTypes, Placed, AtDoor
<1>3. PICK l \in LinkId :
        /\ link[l].st = "free"
        /\ Send(q, l, [link EXCEPT ![l].st = "open"])
        /\ cur' = [cur EXCEPT ![c] = l]
  BY DEF Connected
<1>4. lockq' = Released(c, q) /\ UNCHANGED <<mine, closing, calls>>
  BY DEF Connected
<1> DEFINE lk == [link EXCEPT ![l].st = "open"]
<1>5. /\ lk \in [LinkId -> Link] /\ lk[l].st = "open" /\ lk[l].pending = link[l].pending
      /\ \A m \in LinkId : m # l => lk[m] = link[m]
  BY <1>1, OpenedFacts DEF OtherTypes
<1>6. Send(q, l, lk)
  BY <1>3
<1> HIDE DEF c, lk
<1>7. /\ TaskTypes' /\ Alone(q) /\ (Placed(q) /\ AtDoor(q))' /\ fut'[q] = None
      /\ link' \in [LinkId -> Link] /\ asked' \in [LinkId -> SUBSET (Id \X Question)]
      /\ Pending'
      /\ \A m \in LinkId : link'[m].st = lk[m].st
  BY <1>1, <1>5, <1>6, SendFacts
<1>8. lockq' \in [Conn -> Seq(Query)] /\ Keeps(lockq, lockq', {q})
  BY <1>1, <1>4, ReleasedKeeps DEF OtherTypes
<1>9. /\ cur' \in [Conn -> LinkId \cup {None}] /\ cur'[c] = l
      /\ \A d \in Conn : d # c => cur'[d] = cur[d]
  BY <1>1, <1>2, <1>3 DEF OtherTypes
<1>10. Types'
  BY <1>1, <1>4, <1>7, <1>8, <1>9 DEF Types, OtherTypes
<1>11. \A m \in LinkId : m # l => link'[m].st = link[m].st
  BY <1>5, <1>7
<1>12. link'[l].st = "open"
  BY <1>5, <1>7
<1>13. \A d \in Conn : cur[d] \in LinkId \cup {None} /\ cur[d] # l
  BY <1>1, <1>3, Nones DEF StreamInv, OtherTypes, Opened
<1>14. Opened'
  <2> SUFFICES ASSUME NEW d \in Conn, cur'[d] # None PROVE link'[cur'[d]].st # "free"
    BY DEF Opened
  <2>1. CASE d = c
    BY <1>9, <1>12, <2>1
  <2>2. CASE d # c
    BY <1>9, <1>11, <1>13, <2>2 DEF StreamInv, Opened
  <2> QED  BY <2>1, <2>2
<1>15. OneConnection'
  <2> SUFFICES ASSUME NEW m \in LinkId, link'[m].st = "open" PROVE \E d \in Conn : cur'[d] = m
    BY DEF OneConnection, Usable
  <2>1. CASE m = l
    BY <1>2, <1>9, <2>1
  <2>2. CASE m # l
    <3>1. Usable(m)
      BY <1>11, <2>2, Nones DEF Usable
    <3>2. PICK d \in Conn : cur[d] = m
      BY <3>1 DEF StreamInv, OneConnection
    <3>3. d # c
      BY <1>2, <3>1, <3>2
    <3> QED  BY <1>9, <3>2, <3>3
  <2> QED  BY <2>1, <2>2
<1>16. Lost'
  <2> SUFFICES ASSUME NEW p \in Query, pc'[p] = "wait", fut'[p] = "error"
               PROVE  link'[on'[p][1]].st \in {"dead", "closed"}
    BY DEF Lost
  <2>1. p # q
    BY <1>7, Nones
  <2>2. pc[p] = "wait" /\ fut[p] = "error" /\ on'[p] = on[p]
    BY <1>7, <2>1 DEF Alone
  <2>3. on[p] \in LinkId \X Id
    BY <2>2 DEF StreamInv, Types, TaskTypes, Placed
  <2>4. link[on[p][1]].st \in {"dead", "closed"} /\ on[p][1] \in LinkId
    BY <2>2, <2>3 DEF StreamInv, Lost
  <2>5. on[p][1] # l
    BY <1>3, <2>4
  <2> QED  BY <1>11, <2>2, <2>4, <2>5
<1>17. Others({q})
  BY <1>7, <1>8 DEF Others, Alone
<1>18. ASSUME NEW p \in Query \ {q} PROVE (Placed(p) /\ AtDoor(p))'
  <2>1. ASSUME pc[p] = "connect" PROVE ~Usable(cur[conn[p]])'
    <3>1. Placed(p) /\ AtDoor(p) /\ conn[p] \in Conn \cup {None} /\ conn'[p] = conn[p]
      BY <1>17 DEF StreamInv, Types, TaskTypes, Others
    <3>2. conn[p] \in Conn /\ ~Usable(cur[conn[p]]) /\ Head(lockq[conn[p]]) = p
      BY <2>1, <3>1 DEF Placed, AtDoor
    <3>3. conn[p] # c
      BY <1>2, <3>2
    <3>4. cur'[conn[p]] = cur[conn[p]] /\ cur[conn[p]] # l /\ cur[conn[p]] \in LinkId \cup {None}
      BY <1>9, <1>13, <3>2, <3>3
    <3> QED  BY <1>11, <3>1, <3>2, <3>4 DEF Usable
  <2> QED  BY <1>10, <1>17, <2>1, OthersKept
<1> QED  BY <1>7, <1>10, <1>14, <1>15, <1>16, <1>18 DEF StreamInv

(* A task that goes no further leaves what it held.                        *)
LEMMA LeavingLink ==
  ASSUME StreamInv, NEW q \in Query,
         link' = IF on[q] = None THEN link ELSE Popped(link, q)
  PROVE  /\ link' \in [LinkId -> Link] /\ Thinner({q})
         /\ \A l \in LinkId : link'[l].st = link[l].st
<1>1. CASE on[q] = None
  BY <1>1, Unregistered DEF StreamInv, Types, OtherTypes
<1>2. CASE on[q] # None
  BY <1>2, PoppedThinner
<1> QED  BY <1>1, <1>2

LEMMA ReturnKeeps ==
  ASSUME StreamInv, NEW q \in Query, NEW r \in Question \cup {Failed, Cancelled}, Return(q, r),
         link' = IF on[q] = None THEN link ELSE Popped(link, q),
         lockq' \in {lockq, Released(conn[q], q)},
         UNCHANGED <<asked, cur, mine, closing, calls>>
  PROVE  StreamInv'
<1>1. TaskTypes /\ OtherTypes
  BY DEF StreamInv, Types
<1>2. TaskTypes' /\ Alone(q) /\ (Placed(q) /\ AtDoor(q))' /\ fut'[q] = None
  BY <1>1, ReturnFacts
<1>3. lockq' \in [Conn -> Seq(Query)] /\ Keeps(lockq, lockq', {q})
  BY <1>1, ReleasedKeeps, KeepsAll DEF OtherTypes
<1>4. /\ link' \in [LinkId -> Link] /\ Thinner({q})
      /\ \A l \in LinkId : link'[l].st = link[l].st
  BY LeavingLink
<1>5. Types'
  BY <1>1, <1>2, <1>3, <1>4 DEF Types, OtherTypes
<1>6. Fewer /\ Others({q})
  BY <1>2, <1>3, <1>4, FewerSame DEF Others, Alone
<1>7. Pending'
  BY <1>4, <1>5, <1>6, ThinnerPending
<1> QED  BY <1>2, <1>3, <1>5, <1>6, <1>7, TaskKept

LEMMA AgainKeeps ==
  ASSUME StreamInv, NEW q \in Query, Again(q) \/ Raise(q),
         link' = IF on[q] = None THEN link ELSE Popped(link, q),
         UNCHANGED <<asked, cur, mine, closing, calls>>
  PROVE  StreamInv'
<1>1. TaskTypes /\ OtherTypes
  BY DEF StreamInv, Types
<1>2. CASE Raise(q)
  BY <1>2, ReturnKeeps DEF Raise
<1>3. CASE attempt[q] < StreamAttempts /\ mine # None /\ Enter(q, mine, attempt[q] + 1)
  <2>1. mine \in Conn /\ attempt[q] + 1 \in 0 .. StreamAttempts
    BY <1>1, <1>3, StreamAssumption DEF TaskTypes, OtherTypes
  <2>2. /\ TaskTypes' /\ Alone(q) /\ (Placed(q) /\ AtDoor(q))' /\ fut'[q] = None
        /\ lockq' \in [Conn -> Seq(Query)] /\ Keeps(lockq, lockq', {q})
    BY <1>1, <1>3, <2>1, EnterFacts DEF OtherTypes
  <2>3. /\ link' \in [LinkId -> Link] /\ Thinner({q})
        /\ \A l \in LinkId : link'[l].st = link[l].st
    BY LeavingLink
  <2>4. Types'
    BY <1>1, <2>2, <2>3 DEF Types, OtherTypes
  <2>5. Fewer /\ Others({q})
    BY <2>2, <2>3, FewerSame DEF Others, Alone
  <2>6. Pending'
    BY <2>3, <2>4, <2>5, ThinnerPending
  <2> QED  BY <2>2, <2>4, <2>5, <2>6, TaskKept
<1> QED  BY <1>2, <1>3 DEF Again

LEMMA ConnectFailsKeeps ==
  ASSUME StreamInv, NEW q \in Query, ConnectFails(q)
  PROVE  StreamInv'
<1>1. TaskTypes /\ OtherTypes /\ Placed(q) /\ pc[q] = "connect" /\ on[q] = None
      /\ conn[q] # None /\ out[q] = None
  BY DEF StreamInv, Types, ConnectFails, Placed
<1>2. link' = link /\ UNCHANGED <<asked, cur, mine, closing, calls>>
  BY DEF ConnectFails, net
<1>3. CASE Return(q, Failed) /\ lockq' = Released(conn[q], q)
  BY <1>1, <1>2, <1>3, ReturnKeeps
<1>4. CASE /\ attempt[q] < StreamAttempts /\ mine # None
           /\ pc' = [pc EXCEPT ![q] = "lock"]
           /\ conn' = [conn EXCEPT ![q] = mine]
           /\ attempt' = [attempt EXCEPT ![q] = @ + 1]
           /\ lockq' = [Released(conn[q], q) EXCEPT ![mine] = Append(@, q)]
           /\ UNCHANGED <<on, fut, heard, out>>
  <2>1. mine \in Conn /\ attempt[q] + 1 \in 0 .. StreamAttempts
    BY <1>1, <1>4, StreamAssumption DEF TaskTypes, OtherTypes
  <2>2. TaskTypes'
    BY <1>1, <1>4, <2>1 DEF TaskTypes, Phase
  <2>3. /\ Released(conn[q], q) \in [Conn -> Seq(Query)]
        /\ Keeps(lockq, Released(conn[q], q), {q})
    BY <1>1, ReleasedKeeps DEF OtherTypes
  <2>4. /\ lockq' \in [Conn -> Seq(Query)] /\ q \in Range(lockq'[mine])
        /\ Keeps(Released(conn[q], q), lockq', {q})
    BY <1>4, <2>1, <2>3, JoinedKeeps
  <2>5. Keeps(lockq, lockq', {q})
    BY <2>3, <2>4, KeepsTwice
  <2>6. pc'[q] = "lock" /\ conn'[q] = mine /\ on'[q] = None /\ out'[q] = None
    BY <1>1, <1>4 DEF TaskTypes
  <2>7. (Placed(q) /\ AtDoor(q))'
    BY <2>1, <2>4, <2>6, Nones DEF Placed, AtDoor
  <2>8. Others({q})
    BY <1>1, <1>4, <2>5 DEF Others, TaskTypes
  <2>9. Types'
    BY <1>1, <1>2, <2>2, <2>4 DEF Types, OtherTypes
  <2>10. Fewer /\ Thinner({q})
    BY <1>1, <1>2, FewerSame, Unregistered
  <2>11. Lost'
    <3> SUFFICES ASSUME NEW p \in Query, pc'[p] = "wait", fut'[p] = "error"
                 PROVE  link'[on'[p][1]].st \in {"dead", "closed"}
      BY DEF Lost
    <3>1. pc[p] = "wait" /\ fut[p] = "error" /\ on'[p] = on[p]
      BY <1>1, <1>4 DEF TaskTypes
    <3> QED  BY <1>2, <3>1 DEF StreamInv, Lost
  <2>12. Pending'
    BY <2>8, <2>9, <2>10, ThinnerPending
  <2> QED  BY <2>7, <2>8, <2>9, <2>10, <2>11, <2>12, FewerKept
<1> QED  BY <1>3, <1>4 DEF ConnectFails

LEMMA ConnectTimesOutKeeps ==
  ASSUME StreamInv, NEW q \in Query, ConnectTimesOut(q)
  PROVE  StreamInv'
<1>1. on[q] = None
  BY DEF StreamInv, Placed, ConnectTimesOut
<1> QED  BY <1>1, ReturnKeeps DEF ConnectTimesOut, net

LEMMA AnsweredKeeps ==
  ASSUME StreamInv, NEW q \in Query, Answered(q)
  PROVE  StreamInv'
<1>1. on[q] # None
  BY DEF StreamInv, Placed, Answered
<1>2. (IF CheckResponse(q) THEN fut[q] ELSE Failed) \in Question \cup {Failed, Cancelled}
  BY DEF Answered
<1>3. lockq' = lockq /\ UNCHANGED <<asked, cur, mine, closing, calls>> /\ link' = Popped(link, q)
  BY DEF Answered
<1>4. Return(q, IF CheckResponse(q) THEN fut[q] ELSE Failed)
  BY DEF Answered
<1> QED  BY <1>1, <1>2, <1>3, <1>4, ReturnKeeps

LEMMA DropKeeps ==
  ASSUME StreamInv, NEW q \in Query, pc[q] = "wait",
         NEW then \in {"drop", "droptimeout"}, Drop(q, then)
  PROVE  StreamInv'
<1> DEFINE l == on[q][1]
           c == conn[q]
<1>1. TaskTypes /\ OtherTypes /\ Placed(q) /\ on[q] \in LinkId \X Id /\ c \in Conn
      /\ out[q] = None
  BY DEF StreamInv, Types, TaskTypes, Placed
<1>2. l \in LinkId
  BY <1>1
<1>3. /\ cur' = [cur EXCEPT ![c] = IF @ = l THEN None ELSE @]
      /\ link' = ClosedLink(l) /\ fut' = FailedFuts(l)
      /\ pc' = [pc EXCEPT ![q] = then]
      /\ UNCHANGED <<conn, attempt, on, heard, out, asked, lockq, mine, closing, calls>>
  BY DEF Drop, Dropped
<1> HIDE DEF l, c
<1>4. /\ link' \in [LinkId -> Link] /\ link'[l].st = "closed"
      /\ \A m \in LinkId : m # l => link'[m] = link[m]
      /\ \A i \in Id : link'[l].pending[i] = None
  BY <1>1, <1>2, <1>3, ClosedFacts DEF OtherTypes
<1>5. \A p \in Query : pc'[p] = "wait" => pc[p] = "wait"
  BY <1>1, <1>3 DEF TaskTypes
<1>6. fut' \in [Query -> Question \cup {None, "error"}] /\ Thinner({q}) /\ Lost'
  BY <1>2, <1>3, <1>4, <1>5, ToldFacts
<1>7. /\ cur' \in [Conn -> LinkId \cup {None}]
      /\ \A d \in Conn : cur'[d] # cur[d] => cur'[d] = None /\ cur[d] = l
  BY <1>1, <1>3 DEF OtherTypes
<1>8. Fewer
  BY <1>4, <1>7 DEF Fewer
<1>9. Types'
  BY <1>1, <1>3, <1>4, <1>6, <1>7 DEF Types, TaskTypes, OtherTypes, Phase
<1>10. Others({q})
  BY <1>1, <1>3, KeepsAll DEF Others, TaskTypes
<1>11. pc'[q] = then /\ conn'[q] = conn[q] /\ on'[q] = on[q] /\ out'[q] = None
  BY <1>1, <1>3 DEF TaskTypes
<1>12. (Placed(q) /\ AtDoor(q))'
  BY <1>1, <1>11 DEF Placed, AtDoor
<1>13. Pending'
  BY <1>6, <1>9, <1>10, ThinnerPending
<1> QED  BY <1>6, <1>8, <1>9, <1>10, <1>12, <1>13, FewerKept

LEMMA TimeoutKeeps ==
  ASSUME StreamInv, NEW q \in Query, Timeout(q)
  PROVE  StreamInv'
<1>1. on[q] # None
  BY DEF StreamInv, Placed, Timeout
<1>2. CASE Drop(q, "droptimeout")
  BY <1>2, DropKeeps DEF Timeout
<1>3. CASE /\ Return(q, Failed) /\ link' = Popped(link, q)
           /\ UNCHANGED <<asked, cur, lockq, mine, closing, calls>>
  BY <1>1, <1>3, ReturnKeeps
<1> QED  BY <1>2, <1>3 DEF Timeout

LEMMA AfterDropKeeps ==
  ASSUME StreamInv, NEW q \in Query, AfterDrop(q)
  PROVE  StreamInv'
<1>1. on[q] # None
  BY DEF StreamInv, Placed, AfterDrop
<1> QED  BY <1>1, AgainKeeps DEF AfterDrop

LEMMA CancelKeeps ==
  ASSUME StreamInv, NEW q \in Query, Cancel(q)
  PROVE  StreamInv'
BY ReturnKeeps DEF Cancel

LEMMA LinkLostKeeps ==
  ASSUME StreamInv, NEW q \in Query, LinkLost(q)
  PROVE  StreamInv'
BY DropKeeps DEF LinkLost

-----------------------------------------------------------------------------
(* Stream: the reader of a link, its peer, and the close of the upstream.  *)
LEMMA NobodyMoves ==
  ASSUME StreamInv, UNCHANGED <<pc, conn, on, out, lockq>>
  PROVE  Others({})
BY KeepsAll DEF Others

LEMMA ReceiveKeeps ==
  ASSUME StreamInv, NEW l \in LinkId, Receive(l)
  PROVE  StreamInv'
<1>1. TaskTypes /\ OtherTypes
  BY DEF StreamInv, Types
<1>2. PICK r \in asked[l] :
        /\ asked' = [asked EXCEPT ![l] = @ \ {r}]
        /\ link' = [link EXCEPT ![l].pending[r[1]] = None]
        /\ LET q == link[l].pending[r[1]] IN
           fut' = IF q # None /\ fut[q] = None THEN [fut EXCEPT ![q] = r[2]] ELSE fut
  BY DEF Receive
<1>3. /\ heard' = heard \cup {q \in Query : pc[q] = "wait" /\ on[q][1] = l}
      /\ UNCHANGED <<pc, conn, attempt, on, out, cur, lockq, mine, closing, calls>>
  BY DEF Receive
<1>4. r[1] \in Id /\ r[2] \in Question
  BY <1>1 DEF OtherTypes
<1> DEFINE i == r[1]
           v == r[2]
           p == link[l].pending[i]
<1>5. link' = [link EXCEPT ![l].pending[i] = None]
  BY <1>2
<1>6. fut' = fut \/ fut' = [fut EXCEPT ![p] = v]
  BY <1>2
<1>7. i \in Id /\ v \in Question /\ link \in [LinkId -> Link]
  BY <1>1, <1>4 DEF OtherTypes
<1> HIDE DEF i, v, p
<1>8. /\ link' \in [LinkId -> Link]
      /\ \A m \in LinkId : link'[m].st = link[m].st
      /\ link'[l].pending[i] = None
      /\ \A m \in LinkId, j \in Id :
           <<m, j>> # <<l, i>> => link'[m].pending[j] = link[m].pending[j]
  BY <1>5, <1>7, FreedFacts
<1>9. /\ fut' \in [Query -> Question \cup {None, "error"}]
      /\ \A x \in Query : fut'[x] = "error" => fut[x] = "error"
  BY <1>1, <1>6, <1>7, Nones DEF TaskTypes
<1>10. Types'
  BY <1>1, <1>2, <1>3, <1>8, <1>9 DEF Types, TaskTypes, OtherTypes
<1>11. Fewer /\ Others({})
  BY <1>3, <1>8, FewerSame, NobodyMoves
<1>12. Thinner({})
  <2>1. ASSUME NEW m \in LinkId, NEW j \in Id
        PROVE  link'[m].pending[j] \in {link[m].pending[j], None}
    <3>1. CASE <<m, j>> = <<l, i>>
      BY <1>8, <3>1
    <3>2. CASE <<m, j>> # <<l, i>>
      BY <1>8, <3>2
    <3> QED  BY <3>1, <3>2
  <2> QED  BY <2>1 DEF Thinner
<1>13. Pending'
  BY <1>10, <1>11, <1>12, ThinnerPending
<1>14. Lost'
  <2> SUFFICES ASSUME NEW x \in Query, pc'[x] = "wait", fut'[x] = "error"
               PROVE  link'[on'[x][1]].st \in {"dead", "closed"}
    BY DEF Lost
  <2>1. pc[x] = "wait" /\ fut[x] = "error" /\ on'[x] = on[x]
    BY <1>3, <1>9
  <2>2. on[x] \in LinkId \X Id
    BY <2>1 DEF StreamInv, Types, TaskTypes, Placed
  <2>3. link[on[x][1]].st \in {"dead", "closed"} /\ on[x][1] \in LinkId
    BY <2>1, <2>2 DEF StreamInv, Lost
  <2> QED  BY <1>8, <2>1, <2>3
<1> QED  BY <1>10, <1>11, <1>13, <1>14, FewerKept

(* A link ends and its waiters are told, while no task moves.              *)
LEMMA EndedKeeps ==
  ASSUME StreamInv, NEW l \in LinkId,
         link' \in [LinkId -> Link], link'[l].st \in {"dead", "closed"},
         \A m \in LinkId : m # l => link'[m] = link[m],
         \A i \in Id : link'[l].pending[i] = None,
         fut' = FailedFuts(l),
         asked' \in [LinkId -> SUBSET (Id \X Question)],
         cur' \in [Conn -> LinkId \cup {None}],
         \A c \in Conn : cur'[c] # cur[c] => cur'[c] = None /\ cur[c] = l,
         closing' \in {"no", "await", "yes"},
         UNCHANGED <<pc, conn, attempt, on, heard, out, lockq, mine, calls>>
  PROVE  StreamInv'
<1>1. TaskTypes /\ OtherTypes
  BY DEF StreamInv, Types
<1>2. fut' \in [Query -> Question \cup {None, "error"}] /\ Thinner({}) /\ Lost'
  BY ToldFacts
<1>3. Fewer /\ Others({})
  BY NobodyMoves DEF Fewer
<1>4. Types'
  BY <1>1, <1>2 DEF Types, TaskTypes, OtherTypes
<1>5. Pending'
  BY <1>2, <1>3, <1>4, ThinnerPending
<1> QED  BY <1>2, <1>3, <1>4, <1>5, FewerKept

LEMMA PeerDropsKeeps ==
  ASSUME StreamInv, NEW l \in LinkId, PeerDrops(l)
  PROVE  StreamInv'
<1>1. TaskTypes /\ OtherTypes
  BY DEF StreamInv, Types
<1>2. /\ link' \in [LinkId -> Link] /\ link'[l].st = "dead"
      /\ \A m \in LinkId : m # l => link'[m] = link[m]
      /\ \A i \in Id : link'[l].pending[i] = None
  BY <1>1, DroppedFacts DEF PeerDrops, OtherTypes
<1>3. asked' \in [LinkId -> SUBSET (Id \X Question)]
  BY <1>1 DEF PeerDrops, OtherTypes
<1>4. /\ fut' = FailedFuts(l)
      /\ UNCHANGED <<pc, conn, attempt, on, heard, out, cur, lockq, mine, closing, calls>>
  BY DEF PeerDrops
<1> QED  BY <1>1, <1>2, <1>3, <1>4, EndedKeeps DEF OtherTypes

LEMMA CloseKeeps ==
  ASSUME StreamInv, CloseBegin \/ CloseEnd
  PROVE  StreamInv'
<1>1. TaskTypes /\ OtherTypes
  BY DEF StreamInv, Types
<1>2. ASSUME UNCHANGED <<task, net, cur, lockq, calls>>,
             closing' = "yes", mine' = None
      PROVE  StreamInv'
  <2>1. UNCHANGED <<pc, conn, attempt, on, fut, heard, out, link, asked, cur, lockq, calls>>
    BY <1>2 DEF task, net
  <2>2. Types'
    BY <1>1, <1>2, <2>1 DEF Types, TaskTypes, OtherTypes
  <2>3. /\ Pending' /\ Opened' /\ Lost' /\ OneConnection'
        /\ \A q \in Query : Placed(q)' /\ AtDoor(q)'
    BY <2>1 DEF StreamInv, Pending, Opened, Lost, OneConnection, Usable, Placed, AtDoor
  <2> QED  BY <2>2, <2>3 DEF StreamInv
<1>3. CASE CloseEnd
  BY <1>2, <1>3 DEF CloseEnd
<1>4. CASE CloseBegin /\ ~(mine # None /\ cur[mine] # None)
  BY <1>2, <1>4 DEF CloseBegin, task, net
<1>5. CASE CloseBegin /\ mine # None /\ cur[mine] # None
  <2> DEFINE l == cur[mine]
  <2>1. mine \in Conn /\ l \in LinkId
    BY <1>1, <1>5 DEF OtherTypes
  <2>2. /\ cur' = [cur EXCEPT ![mine] = None] /\ link' = ClosedLink(l) /\ fut' = FailedFuts(l)
        /\ closing' = "await"
        /\ UNCHANGED <<pc, conn, attempt, on, heard, out, asked, lockq, mine, calls>>
    BY <1>5 DEF CloseBegin
  <2>3. /\ cur' \in [Conn -> LinkId \cup {None}]
        /\ \A c \in Conn : cur'[c] # cur[c] => cur'[c] = None /\ cur[c] = l
    BY <1>1, <2>1, <2>2 DEF OtherTypes
  <2> HIDE DEF l
  <2>4. /\ link' \in [LinkId -> Link] /\ link'[l].st = "closed"
        /\ \A m \in LinkId : m # l => link'[m] = link[m]
        /\ \A i \in Id : link'[l].pending[i] = None
    BY <1>1, <2>1, <2>2, ClosedFacts DEF OtherTypes
  <2> QED  BY <1>1, <2>1, <2>2, <2>3, <2>4, EndedKeeps DEF OtherTypes
<1> QED  BY <1>3, <1>4, <1>5

LEMMA StreamInit == Init => StreamInv
<1> SUFFICES ASSUME Init PROVE StreamInv
  OBVIOUS
<1>1. TaskTypes
  BY StreamAssumption DEF Init, TaskTypes, Phase
<1>2. Fresh \in Link
  BY Nones DEF Fresh, Link
<1>3. <<>> \in Seq(Query)
  OBVIOUS
<1>4. OtherTypes
  BY <1>2, <1>3, StreamAssumption DEF Init, OtherTypes
<1>5. \A l \in LinkId, i \in Id : link[l].pending[i] = None
  BY DEF Init, Fresh
<1>6. \A l \in LinkId : link[l].st = "free"
  BY DEF Init, Fresh
<1>7. Pending /\ Opened /\ Lost /\ OneConnection
  BY <1>5, <1>6 DEF Pending, Opened, Lost, OneConnection, Usable, Init
<1>8. \A q \in Query : Placed(q) /\ AtDoor(q)
  BY DEF Init, Placed, AtDoor
<1> QED  BY <1>1, <1>4, <1>7, <1>8 DEF StreamInv, Types

LEMMA StreamNext == StreamInv /\ [Next]_vars => StreamInv'
<1> SUFFICES ASSUME StreamInv, [Next]_vars PROVE StreamInv'
  OBVIOUS
<1>1. CASE UNCHANGED vars
  <2>1. UNCHANGED <<pc, conn, attempt, on, fut, heard, out, link, asked, cur, lockq, mine,
                    closing, calls>>
    BY <1>1 DEF vars, task, net
  <2>2. Types'
    BY <2>1 DEF StreamInv, Types, TaskTypes, OtherTypes
  <2>3. /\ Pending' /\ Opened' /\ Lost' /\ OneConnection'
        /\ \A q \in Query : Placed(q)' /\ AtDoor(q)'
    BY <2>1 DEF StreamInv, Pending, Opened, Lost, OneConnection, Usable, Placed, AtDoor
  <2> QED  BY <2>2, <2>3 DEF StreamInv
<1>2. ASSUME NEW q \in Query, Start(q) \/ Step(q) \/ Cancel(q) PROVE StreamInv'
  BY <1>2, StartKeeps, ReuseKeeps, OpenKeeps, ConnectedKeeps, ConnectFailsKeeps,
     ConnectTimesOutKeeps, AnsweredKeeps, LinkLostKeeps, TimeoutKeeps, AfterDropKeeps,
     CancelKeeps DEF Step
<1>3. ASSUME NEW l \in LinkId, Receive(l) \/ PeerDrops(l) PROVE StreamInv'
  BY <1>3, ReceiveKeeps, PeerDropsKeeps
<1> QED  BY <1>1, <1>2, <1>3, CloseKeeps DEF Next

(* In any state the connection a query is to use is the one there is:      *)
(* however many find it gone at once, one of them opens another.           *)
THEOREM StreamKeepsOne == Spec => [](TypeOK /\ OneConnection)
<1>1. StreamInv => TypeOK /\ OneConnection
  BY StreamTypes DEF StreamInv
<1> QED  BY <1>1, StreamInit, StreamNext, PTL DEF Spec

-----------------------------------------------------------------------------
(* Stream: what ends a working link.                                       *)
LEMMA SameLinks ==
  ASSUME \A l \in LinkId : link'[l].st = link[l].st
  PROVE  \A l \in LinkId : LinkKept(l)
BY DEF LinkKept, Usable

LEMMA OnlyThatOne ==
  ASSUME link \in [LinkId -> Link], NEW k \in LinkId, link' = ClosedLink(k), LinkKept(k)
  PROVE  \A l \in LinkId : LinkKept(l)
<1>1. \A l \in LinkId : l # k => link'[l] = link[l]
  BY ClosedFacts
<1>2. ASSUME NEW l \in LinkId, l # k PROVE LinkKept(l)
  BY <1>1, <1>2 DEF LinkKept, Usable
<1> QED  BY <1>2

(* query(): no id of the link is free, or its request goes out on it.      *)
LEMMA SendLinks ==
  ASSUME link \in [LinkId -> Link], NEW q \in Query, NEW l \in LinkId,
         NEW lk \in [LinkId -> Link], lk[l].pending = link[l].pending, Send(q, l, lk)
  PROVE  \A m \in LinkId : link'[m].st = lk[m].st
<1>1. CASE Free(l) = {}
  BY <1>1 DEF Send
<1>2. CASE Free(l) # {}
  <2>1. AllocId(l) \in Id
    BY <1>2, AllocFacts
  <2>2. link' = Stamped(lk, l, AllocId(l), q)
    BY <1>2 DEF Send, Stamped
  <2> QED  BY <2>1, <2>2, SentFacts
<1> QED  BY <1>1, <1>2

LEMMA TasksKeepLinks ==
  ASSUME StreamInv, NEW q \in Query, Start(q) \/ Step(q) \/ Cancel(q)
  PROVE  \A l \in LinkId : LinkKept(l)
<1>1. TaskTypes /\ OtherTypes /\ Placed(q) /\ link \in [LinkId -> Link]
  BY DEF StreamInv, Types, OtherTypes
<1>2. CASE link' = link \/ (link' = Popped(link, q) /\ on[q] # None)
  <2>1. \A l \in LinkId : link'[l].st = link[l].st
    BY <1>2, PoppedThinner
  <2> QED  BY <2>1, SameLinks
<1>3. CASE Start(q) \/ ConnectFails(q) \/ ConnectTimesOut(q)
  BY <1>2, <1>3 DEF Start, ConnectFails, ConnectTimesOut, net
<1>4. CASE Answered(q) \/ AfterDrop(q)
  BY <1>1, <1>2, <1>4 DEF Answered, AfterDrop, Placed
<1>5. CASE Cancel(q)
  BY <1>2, <1>5 DEF Cancel
<1>6. CASE Reuse(q)
  <2>1. cur[conn[q]] \in LinkId
    <3>1. conn[q] \in Conn
      BY <1>1, <1>6 DEF TaskTypes, Placed, Reuse, AtLock
    <3> QED  BY <1>1, <1>6, <3>1 DEF OtherTypes, Reuse, Usable
  <2>2. Send(q, cur[conn[q]], link)
    BY <1>6 DEF Reuse
  <2>3. \A l \in LinkId : link'[l].st = link[l].st
    BY <1>1, <2>1, <2>2, SendLinks
  <2> QED  BY <2>3, SameLinks
<1>7. CASE Connected(q)
  <2>1. PICK k \in LinkId : link[k].st = "free" /\ Send(q, k, [link EXCEPT ![k].st = "open"])
    BY <1>7 DEF Connected
  <2> DEFINE lk == [link EXCEPT ![k].st = "open"]
  <2>2. /\ lk \in [LinkId -> Link] /\ lk[k].st = "open" /\ lk[k].pending = link[k].pending
        /\ \A m \in LinkId : m # k => lk[m] = link[m]
    BY <1>1, OpenedFacts
  <2>3. Send(q, k, lk)
    BY <2>1
  <2> HIDE DEF lk
  <2>4. \A m \in LinkId : link'[m].st = lk[m].st
    BY <1>1, <2>2, <2>3, SendLinks
  <2> QED  BY <2>2, <2>4, Nones DEF LinkKept, Usable
<1>8. CASE Open(q)
  <2>1. conn[q] \in Conn /\ cur[conn[q]] \in LinkId \cup {None} /\ ~Usable(cur[conn[q]])
    <3>1. conn[q] \in Conn
      BY <1>1, <1>8 DEF TaskTypes, Placed, Open, AtLock
    <3> QED  BY <1>1, <1>8, <3>1 DEF OtherTypes, Open
  <2>2. CASE cur[conn[q]] = None
    BY <1>2, <1>8, <2>2 DEF Open
  <2>3. CASE cur[conn[q]] # None
    <3>1. PICK k \in LinkId : k = cur[conn[q]] /\ link' = ClosedLink(k) /\ ~Usable(k)
      BY <1>8, <2>1, <2>3 DEF Open
    <3>2. LinkKept(k)
      BY <3>1 DEF LinkKept
    <3> QED  BY <1>1, <3>1, <3>2, OnlyThatOne
  <2> QED  BY <2>2, <2>3
<1>9. CASE LinkLost(q) \/ Timeout(q)
  <2>1. on[q] \in LinkId \X Id /\ pc[q] = "wait"
    BY <1>1, <1>9 DEF TaskTypes, Placed, LinkLost, Timeout
  <2> PICK k \in LinkId : k = on[q][1]
    BY <2>1
  <2>2. CASE LinkLost(q)
    <3>1. link[k].st \in {"dead", "closed"}
      BY <2>1, <2>2 DEF LinkLost, StreamInv, Lost
    <3>2. LinkKept(k)
      BY <3>1 DEF LinkKept, Usable
    <3>3. link' = ClosedLink(k)
      BY <2>2 DEF LinkLost, Drop
    <3> QED  BY <1>1, <3>2, <3>3, OnlyThatOne
  <2>3. CASE Timeout(q) /\ SilentLink(q)
    <3>1. link' = ClosedLink(k) /\ pc'[q] = "droptimeout"
      BY <1>1, <2>3 DEF Timeout, Drop, TaskTypes
    <3>2. LinkKept(k)
      BY <2>1, <2>3, <3>1 DEF LinkKept, SilentLink
    <3> QED  BY <1>1, <3>1, <3>2, OnlyThatOne
  <2>4. CASE Timeout(q) /\ ~SilentLink(q)
    BY <1>1, <1>2, <2>4 DEF Timeout, Placed
  <2> QED  BY <1>9, <2>2, <2>3, <2>4
<1> QED  BY <1>3, <1>4, <1>5, <1>6, <1>7, <1>8, <1>9 DEF Step

LEMMA OthersKeepLinks ==
  ASSUME StreamInv, NEW k \in LinkId, Receive(k) \/ PeerDrops(k) \/ CloseBegin \/ CloseEnd
  PROVE  \A l \in LinkId : LinkKept(l)
<1>1. OtherTypes /\ link \in [LinkId -> Link]
  BY DEF StreamInv, Types, OtherTypes
<1>2. CASE Receive(k)
  <2>1. PICK r \in asked[k] : link' = [link EXCEPT ![k].pending[r[1]] = None]
    BY <1>2 DEF Receive
  <2>2. r[1] \in Id
    BY <1>1 DEF OtherTypes
  <2> DEFINE i == r[1]
  <2>3. i \in Id /\ link' = [link EXCEPT ![k].pending[i] = None]
    BY <2>1, <2>2
  <2> HIDE DEF i
  <2>4. \A l \in LinkId : link'[l].st = link[l].st
    BY <1>1, <2>3, FreedFacts
  <2> QED  BY <2>4, SameLinks
<1>3. CASE PeerDrops(k)
  <2>1. /\ link'[k].st = "dead"
        /\ \A m \in LinkId : m # k => link'[m] = link[m]
    BY <1>1, <1>3, DroppedFacts DEF PeerDrops
  <2>2. ASSUME NEW l \in LinkId PROVE LinkKept(l)
    BY <2>1 DEF LinkKept, Usable
  <2> QED  BY <2>2
<1>4. CASE CloseBegin \/ CloseEnd
  BY <1>4 DEF CloseBegin, CloseEnd, LinkKept
<1> QED  BY <1>2, <1>3, <1>4

LEMMA LinksOutlive == StreamInv /\ [Next]_vars => [\A l \in LinkId : LinkKept(l)]_vars
<1> SUFFICES ASSUME StreamInv, Next PROVE \A l \in LinkId : LinkKept(l)
  OBVIOUS
<1>1. ASSUME CloseBegin \/ CloseEnd, NEW l \in LinkId PROVE LinkKept(l)
  BY <1>1 DEF CloseBegin, CloseEnd, LinkKept
<1> QED  BY <1>1, TasksKeepLinks, OthersKeepLinks DEF Next

(* A working link goes by the peer's doing, by the close of the upstream,  *)
(* or because a query waited its whole time on it in silence: the error a  *)
(* query is told of, and what _current finds left over, are links already  *)
(* gone (_drop, _current).                                                 *)
THEOREM BurstContained == Spec => WorkingLinkKept
BY StreamInit, StreamNext, LinksOutlive, PTL DEF Spec, WorkingLinkKept

-----------------------------------------------------------------------------
(* UdpPool: its library operators are the ones of this module.             *)
LEMMA SameCardinality ==
  ASSUME NEW S
  PROVE  Udp!Cardinality(S) = Cardinality(S)
BY DEF Udp!Cardinality, Cardinality

LEMMA SameRemoveFirst ==
  ASSUME NEW s, NEW e
  PROVE  Udp!RemoveFirst(s, e) = RemoveFirst(s, e)
<1>1. Udp!SelectInSeq(s, LAMBDA v : v = e) = SelectInSeq(s, LAMBDA v : v = e)
  <2>1. \A S : Udp!Min(S) = Min(S)
    BY DEF Udp!Min, Min
  <2> QED  BY <2>1 DEF Udp!SelectInSeq, SelectInSeq
<1>2. \A i : Udp!RemoveAt(s, i) = RemoveAt(s, i)
  BY DEF Udp!RemoveAt, RemoveAt
<1>3. CASE \E i \in 1 .. Len(s) : s[i] = e
  <2>1. Udp!RemoveFirst(s, e) = Udp!RemoveAt(s, Udp!SelectInSeq(s, LAMBDA v : v = e))
    BY <1>3, Zenon DEF Udp!RemoveFirst
  <2>2. RemoveFirst(s, e) = RemoveAt(s, SelectInSeq(s, LAMBDA v : v = e))
    BY <1>3, Zenon DEF RemoveFirst
  <2> QED  BY <1>1, <1>2, <2>1, <2>2, Zenon
<1>4. CASE ~ \E i \in 1 .. Len(s) : s[i] = e
  BY <1>4 DEF Udp!RemoveFirst, RemoveFirst
<1> QED  BY <1>3, <1>4

-----------------------------------------------------------------------------
(* UdpPool: the inductive invariant.                                       *)
PoolPhase == {"idle", "lock", "fill", "wait", "done"}
Seat == [sock : Udp!Sock, id : TxId]

PoolTasks ==
  /\ pcU \in [Query -> PoolPhase]
  /\ sent \in [Query -> Seat \cup {None}]
  /\ futU \in [Query -> Udp!Reply \cup {None, "error"}]
  /\ outU \in [Query -> Udp!Reply \cup {None, "mismatch", "failed"}]
  /\ own \subseteq Query /\ evicted \subseteq Query

PoolOthers ==
  /\ socks \subseteq Udp!Sock /\ fill \subseteq Udp!Sock /\ stray \subseteq Udp!Sock
  /\ target \in 1 .. Size
  /\ lockqU \in Seq(Query)
  /\ closed \in BOOLEAN
  /\ callsU \in 0 .. MaxUdpCalls

PoolNet ==
  /\ sk \in [Udp!Sock -> Udp!Socket]
  /\ wire \subseteq [sock : Udp!Sock, id : TxId, question : Question]

PoolTypes == PoolTasks /\ PoolNet /\ PoolOthers

(* Where a task is suspended tells what it holds, and a future only ever   *)
(* has what would be a reply to its query, or an error.                    *)
Settled(q) ==
  /\ sent[q] # None <=> pcU[q] = "wait"
  /\ futU[q] \in {None, "error", Udp!Bare, Asks[q]}
  /\ futU[q] # None => pcU[q] = "wait"
  /\ pcU[q] # "done" => outU[q] = None

(* Who waits has his slot, unless it was taken, and what came for it.      *)
HasSlot(q) ==
  pcU[q] = "wait" /\ q \notin evicted =>
    /\ futU[q] = None => sk[sent[q].sock].pending[sent[q].id] = q
    /\ q \in own => futU[q] # None

Judged(q) == outU[q] = "mismatch" => q \notin own \/ q \in evicted

Seated ==
  \A s \in Udp!Sock, t \in TxId :
    sk[s].pending[t] # None => sent[sk[s].pending[t]] = [sock |-> s, id |-> t]

(* Whoever fills the pool holds the lock, and loses nothing of the pool.   *)
InLine(q) ==
  /\ pcU[q] = "lock" => q \in Range(lockqU)
  /\ pcU[q] = "fill" => lockqU # <<>> /\ Head(lockqU) = q /\ socks \subseteq fill

Filling == (fill # {} => \E q \in Query : pcU[q] = "fill") /\ Cardinality(fill) < Size

(* A socket outside the pool is retired, and somebody is still on it.      *)
Carried(s) == \E q \in Query : sent[q] # None /\ sent[q].sock = s
Watched ==
  \A s \in Udp!Sock \ stray : sk[s].st = "open" =>
    s \in socks \cup fill \/ (sk[s].retired = TRUE /\ Carried(s))

PoolInv ==
  /\ PoolTypes /\ Seated /\ Filling /\ Watched
  /\ \A q \in Query : Settled(q) /\ HasSlot(q) /\ Judged(q) /\ InLine(q)

LEMMA Words ==
  /\ None \notin Query /\ None \notin Seat /\ None \notin Question /\ None # Udp!Bare
  /\ Asks \in [Query -> Question] /\ Udp!Bare \notin Question
  /\ "error" \notin Question \cup {Udp!Bare, None}
  /\ "mismatch" \notin Question \cup {Udp!Bare, None}
  /\ "failed" \notin Question \cup {Udp!Bare, None}
  /\ Size \in Nat \ {0} /\ Life \subseteq Nat /\ MaxSocks \in Nat /\ MaxUdpCalls \in Nat
BY PoolAssumption DEF Udp!PoolConstants, Udp!Reply, Seat

LEMMA PoolSafe == PoolInv => Udp!TypeOK /\ Udp!NoSlotStolen /\ Udp!NoSocketLost
<1> SUFFICES ASSUME PoolInv PROVE Udp!TypeOK /\ Udp!NoSlotStolen /\ Udp!NoSocketLost
  OBVIOUS
<1>1. Udp!TypeOK
  BY DEF PoolInv, PoolTypes, PoolTasks, PoolNet, PoolOthers, Seated, Udp!TypeOK, Seat, PoolPhase
<1>2. Udp!NoSlotStolen
  BY DEF PoolInv, Judged, Udp!NoSlotStolen
<1>3. Udp!NoSocketLost
  BY DEF PoolInv, Watched, Carried, Udp!NoSocketLost
<1> QED  BY <1>1, <1>2, <1>3

LEMMA PoolInit == Udp!Init => PoolInv
<1> SUFFICES ASSUME Udp!Init PROVE PoolInv
  OBVIOUS
<1>1. PoolTasks
  BY DEF Udp!Init, PoolTasks, PoolPhase
<1>2. PoolOthers
  <2>1. <<>> \in Seq(Query)
    OBVIOUS
  <2>2. closed \in BOOLEAN
    BY DEF Udp!Init
  <2>3. target \in 1 .. Size /\ callsU \in 0 .. MaxUdpCalls
    BY Words DEF Udp!Init
  <2> QED  BY <2>1, <2>2, <2>3 DEF Udp!Init, PoolOthers
<1>3. PoolNet
  <2>1. Udp!NoOne \in [TxId -> Query \cup {None}] /\ Udp!NoOne \in [TxId -> Udp!Reply \cup {None}]
    BY DEF Udp!NoOne
  <2>2. [st |-> "free", left |-> 0, retired |-> FALSE,
         pending |-> Udp!NoOne, rejected |-> Udp!NoOne] \in Udp!Socket
    BY <2>1 DEF Udp!Socket
  <2> QED  BY <2>2 DEF Udp!Init, PoolNet
<1>4. \A s \in Udp!Sock : sk[s].st = "free" /\ \A t \in TxId : sk[s].pending[t] = None
  BY DEF Udp!Init, Udp!NoOne
<1>5. Seated /\ Watched
  BY <1>4 DEF Seated, Watched
<1>6. Filling
  <2>1. fill = {} /\ Cardinality({}) = 0
    BY FS_EmptySet DEF Udp!Init
  <2> QED  BY <2>1, Words DEF Filling
<1>7. \A q \in Query : Settled(q) /\ HasSlot(q) /\ Judged(q) /\ InLine(q)
  BY DEF Udp!Init, Settled, HasSlot, Judged, InLine
<1> QED  BY <1>1, <1>2, <1>3, <1>5, <1>6, <1>7 DEF PoolInv, PoolTypes

-----------------------------------------------------------------------------
(* UdpPool: what the steps make of a socket.                               *)
LEMMA SocketFields ==
  ASSUME NEW x \in Udp!Socket
  PROVE  /\ x.st \in {"free", "open", "closing", "closed"} /\ x.left \in Int
         /\ x.retired \in BOOLEAN
         /\ x.pending \in [TxId -> Query \cup {None}]
         /\ x.rejected \in [TxId -> Udp!Reply \cup {None}]
BY DEF Udp!Socket

Remade(x, t, q, w) == [x EXCEPT !.left = @ - 1, !.retired = w, !.pending[t] = q]

LEMMA RemadeFacts ==
  ASSUME NEW x \in Udp!Socket, NEW w \in BOOLEAN, NEW t \in TxId, NEW q \in Query
  PROVE  LET y == Remade(x, t, q, w) IN
         /\ y \in Udp!Socket /\ y.st = x.st /\ y.retired = w
         /\ y.pending = [x.pending EXCEPT ![t] = q]
<1> DEFINE y == Remade(x, t, q, w)
<1>1. y.retired = w
  BY DEF Remade, Udp!Socket
<1>2. y.st = x.st
  BY DEF Remade, Udp!Socket
<1>3. y.pending = [x.pending EXCEPT ![t] = q]
  BY DEF Remade, Udp!Socket
<1>4. y \in Udp!Socket
  <2>1. ASSUME NEW n \in Int, NEW p \in [TxId -> Query \cup {None}]
        PROVE  [x EXCEPT !.left = n, !.retired = w, !.pending = p] \in Udp!Socket
    BY DEF Udp!Socket
  <2>2. x.left - 1 \in Int /\ [x.pending EXCEPT ![t] = q] \in [TxId -> Query \cup {None}]
    BY SocketFields
  <2>3. y = [x EXCEPT !.left = x.left - 1, !.retired = w, !.pending = [x.pending EXCEPT ![t] = q]]
    BY DEF Remade
  <2> HIDE DEF y
  <2>4. [x EXCEPT !.left = x.left - 1, !.retired = w, !.pending = [x.pending EXCEPT ![t] = q]]
        \in Udp!Socket
    BY <2>1, <2>2, Zenon
  <2> QED  BY <2>3, <2>4
<1> QED  BY <1>1, <1>2, <1>3, <1>4

Carrying(k, s, t, q, w) ==
  [k EXCEPT ![s].left = @ - 1, ![s].retired = w, ![s].pending[t] = q]

LEMMA CarryingFacts ==
  ASSUME NEW k \in [Udp!Sock -> Udp!Socket], NEW s \in Udp!Sock, NEW t \in TxId,
         NEW q \in Query, NEW w \in BOOLEAN
  PROVE  LET n == Carrying(k, s, t, q, w) IN
         /\ n \in [Udp!Sock -> Udp!Socket]
         /\ \A r \in Udp!Sock : r # s => n[r] = k[r]
         /\ n[s].st = k[s].st /\ n[s].pending = [k[s].pending EXCEPT ![t] = q]
         /\ n[s].retired = w
<1> DEFINE x == k[s]
           y == Remade(x, t, q, w)
           n == Carrying(k, s, t, q, w)
<1>1. x \in Udp!Socket
  OBVIOUS
<1>2. n = [k EXCEPT ![s] = y]
  BY DEF Carrying, Remade
<1> HIDE DEF x, n
<1>3. /\ y \in Udp!Socket /\ y.st = x.st /\ y.pending = [x.pending EXCEPT ![t] = q]
      /\ y.retired = w
  BY <1>1, RemadeFacts
<1> HIDE DEF y
<1>4. /\ n \in [Udp!Sock -> Udp!Socket] /\ n[s] = y
      /\ \A r \in Udp!Sock : r # s => n[r] = k[r]
  BY <1>2, <1>3
<1> QED  BY <1>3, <1>4 DEF x, n

LEMMA ForgotFacts ==
  ASSUME NEW x \in Udp!Socket, NEW t \in TxId
  PROVE  LET y == Udp!Forgot(x, t) IN
         /\ y \in Udp!Socket /\ y.st = x.st /\ y.retired = x.retired
         /\ y.pending = [x.pending EXCEPT ![t] = None]
<1> DEFINE y == Udp!Forgot(x, t)
<1>1. y.retired = x.retired
  BY DEF Udp!Forgot, Udp!Socket
<1>2. y.st = x.st
  BY DEF Udp!Forgot, Udp!Socket
<1>3. y.pending = [x.pending EXCEPT ![t] = None]
  BY DEF Udp!Forgot, Udp!Socket
<1>4. y \in Udp!Socket
  BY DEF Udp!Forgot, Udp!Socket
<1> QED  BY <1>1, <1>2, <1>3, <1>4

LEMMA StatedFacts ==
  ASSUME NEW x \in Udp!Socket, NEW v \in {"free", "open", "closing", "closed"}
  PROVE  LET y == [x EXCEPT !.st = v] IN
         /\ y \in Udp!Socket /\ y.st = v /\ y.retired = x.retired
         /\ y.pending = x.pending
<1> DEFINE y == [x EXCEPT !.st = v]
<1>1. y.retired = x.retired
  BY DEF Udp!Socket
<1>2. y.st = v /\ y.pending = x.pending
  BY DEF Udp!Socket
<1>3. y \in Udp!Socket
  BY DEF Udp!Socket
<1> QED  BY <1>1, <1>2, <1>3

LEMMA LeftFacts ==
  ASSUME NEW x \in Udp!Socket, NEW t \in TxId
  PROVE  LET y == Udp!Left(x, t) IN
         /\ y \in Udp!Socket /\ y.st \in {x.st, "closing"} /\ y.retired = x.retired
         /\ y.pending = [x.pending EXCEPT ![t] = None]
         /\ x.retired = TRUE /\ y.pending = Udp!NoOne => y.st # "open"
<1> DEFINE f == Udp!Forgot(x, t)
<1>1. /\ f \in Udp!Socket /\ f.st = x.st /\ f.retired = x.retired
      /\ f.pending = [x.pending EXCEPT ![t] = None]
  BY ForgotFacts
<1>2. Udp!Left(x, t) = IF f.retired /\ f.pending = Udp!NoOne /\ f.st = "open"
                       THEN [f EXCEPT !.st = "closing"] ELSE f
  BY DEF Udp!Left
<1> HIDE DEF f
<1>3. CASE f.retired /\ f.pending = Udp!NoOne /\ f.st = "open"
  <2>1. Udp!Left(x, t) = [f EXCEPT !.st = "closing"]
    BY <1>2, <1>3, Zenon
  <2>2. LET y == [f EXCEPT !.st = "closing"] IN
        y \in Udp!Socket /\ y.st = "closing" /\ y.retired = f.retired /\ y.pending = f.pending
    BY <1>1, StatedFacts
  <2> QED  BY <1>1, <2>1, <2>2, Zenon
<1>4. CASE ~(f.retired /\ f.pending = Udp!NoOne /\ f.st = "open")
  <2>1. Udp!Left(x, t) = f
    BY <1>2, <1>4, Zenon
  <2>2. x.retired = TRUE /\ f.pending = Udp!NoOne => f.st # "open"
    BY <1>1, <1>4, Zenon
  <2> QED  BY <1>1, <2>1, <2>2, Zenon
<1> QED  BY <1>3, <1>4

LEMMA EmptiedFacts ==
  ASSUME NEW x \in Udp!Socket
  PROVE  LET y == Udp!Emptied(x) IN
         /\ y \in Udp!Socket /\ y.st = x.st /\ y.retired = x.retired
         /\ \A t \in TxId : y.pending[t] = None
<1> DEFINE y == Udp!Emptied(x)
<1>1. y.retired = x.retired
  BY DEF Udp!Emptied, Udp!Socket
<1>2. y.st = x.st
  BY DEF Udp!Emptied, Udp!Socket
<1>3. \A t \in TxId : y.pending[t] = None
  BY DEF Udp!Emptied, Udp!NoOne, Udp!Socket
<1>4. y \in Udp!Socket
  <2>1. Udp!NoOne \in [TxId -> Query \cup {None}] /\ Udp!NoOne \in [TxId -> Udp!Reply \cup {None}]
    BY DEF Udp!NoOne
  <2> QED  BY <2>1 DEF Udp!Emptied, Udp!Socket
<1> QED  BY <1>1, <1>2, <1>3, <1>4

LEMMA HeldBackFacts ==
  ASSUME NEW x \in Udp!Socket, NEW t \in TxId, NEW r \in Udp!Reply
  PROVE  LET y == [x EXCEPT !.rejected[t] = IF @ = None THEN r ELSE @] IN
         /\ y \in Udp!Socket /\ y.st = x.st /\ y.retired = x.retired
         /\ y.pending = x.pending
<1> DEFINE y == [x EXCEPT !.rejected[t] = IF @ = None THEN r ELSE @]
<1>1. y.retired = x.retired
  BY DEF Udp!Socket
<1>2. y.st = x.st /\ y.pending = x.pending
  BY DEF Udp!Socket
<1>3. y \in Udp!Socket
  <2> DEFINE p == [x.rejected EXCEPT ![t] = IF @ = None THEN r ELSE @]
  <2>1. p \in [TxId -> Udp!Reply \cup {None}]
    BY SocketFields
  <2>2. y = [x EXCEPT !.rejected = p]
    OBVIOUS
  <2> HIDE DEF p, y
  <2>3. [x EXCEPT !.rejected = p] \in Udp!Socket
    BY <2>1 DEF Udp!Socket
  <2> QED  BY <2>2, <2>3
<1> QED  BY <1>1, <1>2, <1>3

-----------------------------------------------------------------------------
(* UdpPool: what a step leaves to the tasks it does not move.              *)
Apart(q) ==
  \A p \in Query \ {q} :
    /\ pcU'[p] = pcU[p] /\ sent'[p] = sent[p] /\ futU'[p] = futU[p] /\ outU'[p] = outU[p]
    /\ p \in own' => p \in own
    /\ p \in evicted => p \in evicted'

Spares(q) ==
  \A s \in Udp!Sock, t \in TxId :
    sk[s].pending[t] \in Query \ {q} =>
      sk'[s].pending[t] = sk[s].pending[t] \/ sk[s].pending[t] \in evicted'

InOrder(s, r, q) ==
  /\ \A x \in Range(s) \ {q} : x \in Range(r)
  /\ s # <<>> /\ Head(s) # q => r # <<>> /\ Head(r) = Head(s)

LEMMA ApartKept ==
  ASSUME PoolInv, NEW q \in Query, Apart(q), Spares(q), NEW p \in Query \ {q}
  PROVE  (Settled(p) /\ HasSlot(p) /\ Judged(p))'
<1>1. Settled(p) /\ HasSlot(p) /\ Judged(p) /\ PoolTasks
  BY DEF PoolInv, PoolTypes
<1>2. /\ pcU'[p] = pcU[p] /\ sent'[p] = sent[p] /\ futU'[p] = futU[p] /\ outU'[p] = outU[p]
      /\ p \in own' => p \in own
      /\ p \in evicted => p \in evicted'
  BY DEF Apart
<1>3. Settled(p)' /\ Judged(p)'
  BY <1>1, <1>2 DEF Settled, Judged
<1>4. ASSUME pcU'[p] = "wait", p \notin evicted'
      PROVE  /\ futU'[p] = None => sk'[sent'[p].sock].pending[sent'[p].id] = p
             /\ p \in own' => futU'[p] # None
  <2>1. sent[p] \in Seat
    BY <1>1, <1>2, <1>4 DEF Settled, PoolTasks
  <2>2. sent[p].sock \in Udp!Sock /\ sent[p].id \in TxId
    BY <2>1 DEF Seat
  <2> QED  BY <1>1, <1>2, <1>4, <2>2 DEF HasSlot, Spares
<1> QED  BY <1>3, <1>4 DEF HasSlot

LEMMA LineKept ==
  ASSUME PoolInv, NEW q \in Query, Apart(q), NEW p \in Query \ {q},
         InOrder(lockqU, lockqU', q),
         \/ socks' \subseteq socks /\ fill' = fill
         \/ lockqU # <<>> /\ Head(lockqU) = q
  PROVE  InLine(p)'
<1>1. InLine(p) /\ pcU'[p] = pcU[p]
  BY DEF PoolInv, Apart
<1> QED  BY <1>1 DEF InLine, InOrder

LEMMA ReleasedLine ==
  ASSUME lockqU \in Seq(Query), NEW q \in Query
  PROVE  Udp!Released(q) \in Seq(Query) /\ InOrder(lockqU, Udp!Released(q), q)
BY QueueLeft, SameRemoveFirst DEF Udp!Released, InOrder

-----------------------------------------------------------------------------
(* UdpPool: a query leaves its socket.                                     *)
LEMMA GoneFacts ==
  ASSUME PoolTasks, NEW q \in Query, Udp!Return(q, "failed") \/ \E r \in Udp!Reply \cup {"mismatch"} : Udp!Return(q, r),
         evicted' \subseteq Query
  PROVE  /\ PoolTasks' /\ Settled(q)' /\ HasSlot(q)'
         /\ pcU'[q] = "done" /\ sent'[q] = None /\ futU'[q] = None
         /\ evicted \subseteq evicted' => Apart(q)
<1>1. PICK r \in Udp!Reply \cup {"mismatch", "failed"} : Udp!Return(q, r)
  OBVIOUS
<1>2. PoolTasks'
  BY <1>1 DEF Udp!Return, PoolTasks, PoolPhase
<1>3. pcU'[q] = "done" /\ sent'[q] = None /\ futU'[q] = None
  BY <1>1 DEF Udp!Return, PoolTasks
<1>4. evicted \subseteq evicted' => Apart(q)
  BY <1>1 DEF Udp!Return, PoolTasks, Apart
<1>5. Settled(q)' /\ HasSlot(q)'
  BY <1>3 DEF Settled, HasSlot
<1> QED  BY <1>2, <1>3, <1>4, <1>5

LEMMA LeaveFacts ==
  ASSUME PoolInv, NEW q \in Query, pcU[q] = "wait", Udp!Leave(q),
         sent'[q] = None, \A p \in Query \ {q} : sent'[p] = sent[p]
  PROVE  /\ sk' \in [Udp!Sock -> Udp!Socket] /\ evicted' \subseteq Query
         /\ evicted \subseteq evicted' /\ Spares(q) /\ Seated'
         /\ \A s \in Udp!Sock :
              sk'[s].st = "open" =>
                /\ sk[s].st = "open" /\ sk'[s].retired = sk[s].retired
                /\ sk[s].retired = TRUE /\ Carried(s) => Carried(s)'
<1>1. /\ sk \in [Udp!Sock -> Udp!Socket] /\ Seated
      /\ sent[q] \in Seat /\ sent \in [Query -> Seat \cup {None}] /\ evicted \subseteq Query
  BY DEF PoolInv, PoolTypes, PoolTasks, PoolNet, Settled
<1>2. PICK z \in Udp!Sock, i \in TxId : sent[q] = [sock |-> z, id |-> i]
  BY <1>1 DEF Seat
<1>3. /\ sk' = [sk EXCEPT ![z] = Udp!Left(sk[z], i)]
      /\ evicted' = evicted \cup ({sk[z].pending[i]} \ {q, None})
  BY <1>2 DEF Udp!Leave
<1> DEFINE y == Udp!Left(sk[z], i)
<1>4. /\ y \in Udp!Socket /\ y.st \in {sk[z].st, "closing"} /\ y.retired = sk[z].retired
      /\ y.pending = [sk[z].pending EXCEPT ![i] = None]
      /\ sk[z].retired = TRUE /\ y.pending = Udp!NoOne => y.st # "open"
  BY <1>1, LeftFacts
<1>5. sk[z].pending \in [TxId -> Query \cup {None}]
  BY <1>1, SocketFields
<1> HIDE DEF y
<1>6. /\ sk' \in [Udp!Sock -> Udp!Socket] /\ sk'[z] = y
      /\ \A s \in Udp!Sock : s # z => sk'[s] = sk[s]
  BY <1>1, <1>3, <1>4 DEF y
<1>7. evicted' \subseteq Query /\ evicted \subseteq evicted'
  BY <1>1, <1>3, <1>5
<1>8. /\ sk'[z].pending[i] = None
      /\ \A t \in TxId : t # i => sk'[z].pending[t] = sk[z].pending[t]
  BY <1>4, <1>5, <1>6
<1>9. Spares(q)
  <2> SUFFICES ASSUME NEW s \in Udp!Sock, NEW t \in TxId, sk[s].pending[t] \in Query \ {q}
               PROVE  sk'[s].pending[t] = sk[s].pending[t] \/ sk[s].pending[t] \in evicted'
    BY DEF Spares
  <2>1. CASE s = z /\ t = i
    BY <1>3, <2>1, Words
  <2>2. CASE ~(s = z /\ t = i)
    BY <1>6, <1>8, <2>2
  <2> QED  BY <2>1, <2>2
<1>10. Seated'
  <2> SUFFICES ASSUME NEW s \in Udp!Sock, NEW t \in TxId, sk'[s].pending[t] # None
               PROVE  sent'[sk'[s].pending[t]] = [sock |-> s, id |-> t]
    BY DEF Seated
  <2> DEFINE p == sk[s].pending[t]
  <2>1. ~(s = z /\ t = i) /\ sk'[s].pending[t] = p /\ p # None
    BY <1>6, <1>8
  <2>2. sent[p] = [sock |-> s, id |-> t]
    BY <1>1, <2>1 DEF Seated
  <2>3. p \in Query
    BY <1>1, <2>1, SocketFields
  <2>4. p # q
    <3>1. [sock |-> s, id |-> t] # [sock |-> z, id |-> i]
      BY <2>1
    <3> QED  BY <1>2, <2>2, <3>1
  <2> QED  BY <2>1, <2>2, <2>3, <2>4
<1>11. ASSUME NEW s \in Udp!Sock, sk'[s].st = "open"
       PROVE  sk[s].st = "open" /\ sk'[s].retired = sk[s].retired
  BY <1>4, <1>6, <1>11
<1>12. ASSUME NEW s \in Udp!Sock, sk'[s].st = "open", sk[s].retired = TRUE, Carried(s)
       PROVE  Carried(s)'
  <2>1. PICK p \in Query : sent[p] # None /\ sent[p].sock = s
    BY <1>12 DEF Carried
  <2>2. CASE p # q
    BY <2>1, <2>2 DEF Carried
  <2>3. CASE p = q
    <3>1. s = z
      BY <1>2, <2>1, <2>3
    <3>2. y.st = "open" /\ y.pending # Udp!NoOne
      BY <1>4, <1>6, <1>12, <3>1
    <3>3. y.pending \in [TxId -> Query \cup {None}]
      BY <1>4, SocketFields
    <3>4. PICK t \in TxId : y.pending[t] # None
      BY <3>2, <3>3 DEF Udp!NoOne
    <3>5. sent'[y.pending[t]] = [sock |-> s, id |-> t] /\ y.pending[t] \in Query
      BY <1>6, <1>10, <3>1, <3>3, <3>4 DEF Seated
    <3>6. [sock |-> s, id |-> t] # None /\ [sock |-> s, id |-> t].sock = s
      BY Words DEF Seat
    <3> QED  BY <3>5, <3>6 DEF Carried
  <2> QED  BY <2>2, <2>3
<1> QED  BY <1>6, <1>7, <1>9, <1>10, <1>11, <1>12

LEMMA DoneKeeps ==
  ASSUME PoolInv, NEW q \in Query, pcU[q] = "wait", Udp!Leave(q),
         NEW r \in Udp!Reply \cup {"mismatch", "failed"}, Udp!Return(q, r),
         r = "mismatch" => q \notin own \/ q \in evicted,
         lockqU' \in {lockqU, Udp!Released(q)},
         UNCHANGED <<wire, socks, fill, stray, target, closed, callsU>>
  PROVE  PoolInv'
<1>1. PoolTasks /\ PoolNet /\ PoolOthers /\ Filling /\ Watched
  BY DEF PoolInv, PoolTypes
<1>2. sent'[q] = None /\ own' = own /\ \A p \in Query \ {q} : sent'[p] = sent[p]
  BY <1>1 DEF Udp!Return, PoolTasks
<1>3. /\ sk' \in [Udp!Sock -> Udp!Socket] /\ evicted' \subseteq Query
      /\ evicted \subseteq evicted' /\ Spares(q) /\ Seated'
      /\ \A s \in Udp!Sock :
           sk'[s].st = "open" =>
             /\ sk[s].st = "open" /\ sk'[s].retired = sk[s].retired
             /\ sk[s].retired = TRUE /\ Carried(s) => Carried(s)'
  BY <1>2, LeaveFacts
<1>4. /\ PoolTasks' /\ Settled(q)' /\ HasSlot(q)' /\ Apart(q)
      /\ pcU'[q] = "done" /\ sent'[q] = None /\ futU'[q] = None
  BY <1>1, <1>3, GoneFacts
<1>5. lockqU' \in Seq(Query) /\ InOrder(lockqU, lockqU', q)
  BY <1>1, ReleasedLine DEF PoolOthers, InOrder
<1>6. PoolTypes'
  BY <1>1, <1>3, <1>4, <1>5 DEF PoolTypes, PoolNet, PoolOthers
<1>7. Judged(q)'
  BY <1>1, <1>2, <1>3 DEF Judged, Udp!Return, PoolTasks
<1>8. InLine(q)'
  BY <1>4 DEF InLine
<1>9. ASSUME NEW p \in Query \ {q} PROVE (Settled(p) /\ HasSlot(p) /\ Judged(p) /\ InLine(p))'
  BY <1>3, <1>4, <1>5, ApartKept, LineKept
<1>10. Filling'
  <2>1. fill' # {} => \E p \in Query : pcU'[p] = "fill"
    BY <1>1, <1>4 DEF Filling, Apart
  <2> QED  BY <1>1, <2>1 DEF Filling
<1>11. Watched'
  BY <1>1, <1>3 DEF Watched
<1> QED  BY <1>3, <1>4, <1>6, <1>7, <1>8, <1>9, <1>10, <1>11 DEF PoolInv

LEMMA PoolAnsweredKeeps ==
  ASSUME PoolInv, NEW q \in Query, Udp!Answered(q)
  PROVE  PoolInv'
<1>1. futU[q] \in {"error", Udp!Bare, Asks[q]} /\ pcU[q] = "wait" /\ Asks[q] \in Question
  BY Words DEF PoolInv, Settled, Udp!Answered
<1> DEFINE r == IF futU[q] = "error" THEN "failed" ELSE Udp!Checked(q, futU[q])
<1>2. r \in Udp!Reply \cup {"failed"} /\ r # "mismatch"
  BY <1>1, Words DEF Udp!Checked, Udp!Reply
<1>3. Udp!Return(q, r) /\ Udp!Leave(q)
  BY DEF Udp!Answered
<1>4. UNCHANGED <<wire, socks, fill, stray, target, lockqU, closed, callsU>>
  BY DEF Udp!Answered, Udp!pool
<1> HIDE DEF r
<1> QED  BY <1>1, <1>2, <1>3, <1>4, DoneKeeps

LEMMA PoolTimeoutKeeps ==
  ASSUME PoolInv, NEW q \in Query, Udp!Timeout(q)
  PROVE  PoolInv'
<1>1. pcU[q] = "wait" /\ HasSlot(q) /\ sent[q] \in Seat /\ sk \in [Udp!Sock -> Udp!Socket]
  BY DEF PoolInv, PoolTypes, PoolTasks, PoolNet, Settled, Udp!Timeout
<1>2. sent[q].sock \in Udp!Sock /\ sent[q].id \in TxId
  BY <1>1 DEF Seat
<1>3. sk[sent[q].sock].rejected[sent[q].id] \in Udp!Reply \cup {None}
  BY <1>1, <1>2, SocketFields
<1> DEFINE r == IF Udp!Held(q) = None THEN "failed" ELSE Udp!Checked(q, Udp!Held(q))
<1>4. Udp!Held(q) \in Udp!Reply \cup {None} /\ (Udp!Held(q) # None => futU[q] = None)
  BY <1>3 DEF Udp!Held
<1>5. r \in Udp!Reply \cup {"mismatch", "failed"}
  BY <1>4 DEF Udp!Checked
<1>6. r = "mismatch" => q \notin own \/ q \in evicted
  <2>1. r = "mismatch" => Udp!Held(q) # None
    BY <1>4, Words
  <2> QED  BY <1>1, <1>4, <2>1 DEF HasSlot
<1>7. Udp!Return(q, r) /\ Udp!Leave(q)
  BY DEF Udp!Timeout
<1>8. UNCHANGED <<wire, socks, fill, stray, target, lockqU, closed, callsU>>
  BY DEF Udp!Timeout, Udp!pool
<1> HIDE DEF r
<1> QED  BY <1>1, <1>5, <1>6, <1>7, <1>8, DoneKeeps

(* A query that never came to a socket gives up: if it was filling the     *)
(* pool, its list is gone.                                                 *)
LEMMA QuitKeeps ==
  ASSUME PoolInv, NEW q \in Query, pcU[q] \in {"lock", "fill"}, Udp!Return(q, "failed"),
         lockqU' = Udp!Released(q),
         UNCHANGED <<sk, evicted, wire, socks, target, closed, callsU>>,
         \/ UNCHANGED <<fill, stray>> /\ pcU[q] = "lock"
         \/ fill' = {} /\ stray \subseteq stray' /\ stray' \subseteq Udp!Sock
            /\ fill \subseteq socks \cup stray' /\ pcU[q] = "fill"
  PROVE  PoolInv'
<1>1. PoolTasks /\ PoolNet /\ PoolOthers /\ Filling /\ Watched /\ Seated /\ Settled(q) /\ InLine(q)
  BY DEF PoolInv, PoolTypes
<1>2. /\ PoolTasks' /\ Settled(q)' /\ HasSlot(q)' /\ Apart(q)
      /\ pcU'[q] = "done" /\ sent'[q] = None /\ futU'[q] = None
  BY <1>1, GoneFacts DEF PoolTasks
<1>3. lockqU' \in Seq(Query) /\ InOrder(lockqU, lockqU', q)
  BY <1>1, ReleasedLine DEF PoolOthers
<1>4. PoolTypes'
  <2>1. fill' \subseteq Udp!Sock /\ stray' \subseteq Udp!Sock
    BY <1>1 DEF PoolOthers
  <2> QED  BY <1>1, <1>2, <1>3, <2>1 DEF PoolTypes, PoolNet, PoolOthers
<1>5. sent[q] = None /\ sent' = sent
  <2>1. sent[q] = None
    BY <1>1 DEF Settled
  <2> QED  BY <1>1, <2>1 DEF Udp!Return, PoolTasks
<1>6. Seated'
  BY <1>1, <1>5 DEF Seated
<1>7. Spares(q)
  BY DEF Spares
<1>8. Judged(q)'
  BY <1>1, Words DEF Judged, Udp!Return, PoolTasks
<1>9. InLine(q)'
  BY <1>2 DEF InLine
<1>10. ASSUME NEW p \in Query \ {q} PROVE (Settled(p) /\ HasSlot(p) /\ Judged(p) /\ InLine(p))'
  <2>1. \/ socks' \subseteq socks /\ fill' = fill
        \/ lockqU # <<>> /\ Head(lockqU) = q
    BY <1>1 DEF InLine
  <2> QED  BY <1>2, <1>3, <1>7, <2>1, ApartKept, LineKept
<1>11. Filling'
  <2>1. CASE fill' = {}
    <3>1. Cardinality({}) = 0
      BY FS_EmptySet
    <3> QED  BY <2>1, <3>1, Words DEF Filling
  <2>2. CASE UNCHANGED <<fill, stray>> /\ pcU[q] = "lock"
    <3>1. fill # {} => \E p \in Query : pcU'[p] = "fill"
      BY <1>1, <1>2, <2>2 DEF Filling, Apart
    <3> QED  BY <1>1, <2>2, <3>1 DEF Filling
  <2> QED  BY <2>1, <2>2
<1>12. Watched'
  <2>1. \A s \in Udp!Sock : Carried(s) => Carried(s)'
    BY <1>5 DEF Carried
  <2>2. stray \subseteq stray' /\ fill \subseteq fill' \cup socks' \cup stray'
    BY <1>1
  <2> QED  BY <1>1, <2>1, <2>2 DEF Watched
<1> QED  BY <1>2, <1>4, <1>6, <1>8, <1>9, <1>10, <1>11, <1>12 DEF PoolInv

LEMMA PoolCancelKeeps ==
  ASSUME PoolInv, NEW q \in Query, Udp!Cancel(q)
  PROVE  PoolInv'
<1>1. /\ pcU[q] \in {"lock", "fill", "wait"} /\ Udp!Return(q, "failed")
      /\ lockqU' = Udp!Released(q) /\ UNCHANGED <<wire, socks, target, closed, callsU>>
  BY DEF Udp!Cancel
<1>2. CASE pcU[q] = "wait"
  <2>1. Udp!Leave(q) /\ UNCHANGED <<fill, stray>>
    BY <1>2 DEF Udp!Cancel
  <2> QED  BY <1>1, <1>2, <2>1, Words, DoneKeeps
<1>3. CASE pcU[q] \in {"lock", "fill"}
  <2>1. UNCHANGED <<sk, evicted>>
    BY <1>3 DEF Udp!Cancel
  <2>2. \/ UNCHANGED <<fill, stray>> /\ pcU[q] = "lock"
        \/ fill' = {} /\ stray' = stray \cup (fill \ socks) /\ pcU[q] = "fill"
    BY <1>3 DEF Udp!Cancel
  <2>3. fill \subseteq Udp!Sock /\ stray \subseteq Udp!Sock
    BY DEF PoolInv, PoolTypes, PoolOthers
  <2> QED  BY <1>1, <1>3, <2>1, <2>2, <2>3, QuitKeeps
<1> QED  BY <1>1, <1>2, <1>3

-----------------------------------------------------------------------------
(* UdpPool: the callbacks of the protocol, while no task moves.            *)
LEMMA CallbackKeeps ==
  ASSUME PoolInv, PoolNet', socks' \subseteq socks, closed' \in BOOLEAN,
         futU' \in [Query -> Udp!Reply \cup {None, "error"}], own' \subseteq Query,
         UNCHANGED <<pcU, sent, outU, evicted, fill, stray, target, lockqU, callsU>>,
         \A s \in Udp!Sock : sk'[s].st = "open" =>
           /\ sk[s].st = "open" /\ sk'[s].retired = sk[s].retired
           /\ s \in socks => s \in socks',
         Seated', \A q \in Query : (Settled(q) /\ HasSlot(q) /\ Judged(q))'
  PROVE  PoolInv'
<1>1. PoolTasks /\ PoolNet /\ PoolOthers /\ Filling /\ Watched
  BY DEF PoolInv, PoolTypes
<1>2. PoolTypes'
  BY <1>1 DEF PoolTypes, PoolTasks, PoolOthers
<1>3. Filling'
  BY <1>1 DEF Filling
<1>4. Watched'
  BY <1>1 DEF Watched, Carried
<1>5. \A q \in Query : InLine(q)'
  BY DEF PoolInv, InLine
<1> QED  BY <1>2, <1>3, <1>4, <1>5 DEF PoolInv

(* The queries on a socket are told that it failed.                        *)
LEMMA FailedFacts ==
  ASSUME PoolInv, NEW s \in Udp!Sock, futU' = Udp!FailedFuts(s),
         UNCHANGED <<pcU, sent, outU, own, evicted>>,
         sk' \in [Udp!Sock -> Udp!Socket], \A t \in TxId : sk'[s].pending[t] = None,
         \A r \in Udp!Sock : r # s => sk'[r] = sk[r]
  PROVE  /\ futU' \in [Query -> Udp!Reply \cup {None, "error"}] /\ Seated'
         /\ \A q \in Query : (Settled(q) /\ HasSlot(q) /\ Judged(q))'
<1>1. PoolTasks /\ PoolNet /\ Seated /\ \A q \in Query : Settled(q) /\ HasSlot(q) /\ Judged(q)
  BY DEF PoolInv, PoolTypes
<1>2. futU' \in [Query -> Udp!Reply \cup {None, "error"}]
  BY <1>1 DEF Udp!FailedFuts, PoolTasks
<1>3. Seated'
  BY <1>1 DEF Seated
<1>4. ASSUME NEW q \in Query PROVE (Settled(q) /\ HasSlot(q) /\ Judged(q))'
  <2>1. futU'[q] = IF q \in Udp!Busy(s) /\ futU[q] = None THEN "error" ELSE futU[q]
    BY DEF Udp!FailedFuts
  <2>2. q \in Udp!Busy(s) => sent[q] # None /\ sent[q].sock = s
    <3>1. ASSUME q \in Udp!Busy(s) PROVE sent[q] # None /\ sent[q].sock = s
      <4>1. PICK t \in TxId : sk[s].pending[t] = q
        BY <3>1 DEF Udp!Busy
      <4>2. sent[q] = [sock |-> s, id |-> t] /\ sent[q] \in Seat
        BY <1>1, <4>1, Words DEF Seated, Seat
      <4> QED  BY <4>2, Words
    <3> QED  BY <3>1
  <2>3. Settled(q)' /\ Judged(q)'
    BY <1>1, <2>1, <2>2 DEF Settled, Judged
  <2>4. ASSUME pcU[q] = "wait", q \notin evicted
        PROVE  /\ futU'[q] = None => sk'[sent[q].sock].pending[sent[q].id] = q
               /\ q \in own => futU'[q] # None
    <3>1. sent[q] \in Seat /\ sent[q].sock \in Udp!Sock /\ sent[q].id \in TxId
      BY <1>1, <2>4 DEF PoolTasks, Settled, Seat
    <3>2. ASSUME futU'[q] = None PROVE sk'[sent[q].sock].pending[sent[q].id] = q
      <4>1. futU[q] = None /\ q \notin Udp!Busy(s)
        BY <2>1, <3>2, Words
      <4>2. sk[sent[q].sock].pending[sent[q].id] = q
        BY <1>1, <2>4, <4>1 DEF HasSlot
      <4>3. sent[q].sock # s
        BY <3>1, <4>1, <4>2 DEF Udp!Busy
      <4> QED  BY <3>1, <4>2, <4>3
    <3>3. q \in own => futU'[q] # None
      BY <1>1, <2>1, <2>4, Words DEF HasSlot
    <3> QED  BY <3>2, <3>3
  <2>5. HasSlot(q)'
    BY <2>4 DEF HasSlot
  <2> QED  BY <2>3, <2>5
<1> QED  BY <1>2, <1>3, <1>4

LEMMA IcmpErrorKeeps ==
  ASSUME PoolInv, NEW s \in Udp!Sock, Udp!IcmpError(s)
  PROVE  PoolInv'
<1>1. PoolTasks /\ PoolNet /\ PoolOthers
  BY DEF PoolInv, PoolTypes
<1>2. /\ sk' = [sk EXCEPT ![s] = Udp!Emptied(sk[s])] /\ futU' = Udp!FailedFuts(s)
      /\ UNCHANGED <<pcU, sent, outU, own, evicted, wire, callsU>>
      /\ UNCHANGED <<socks, fill, stray, target, lockqU, closed>>
  BY DEF Udp!IcmpError, Udp!pool
<1> DEFINE y == Udp!Emptied(sk[s])
<1>3. /\ y \in Udp!Socket /\ y.st = sk[s].st /\ y.retired = sk[s].retired
      /\ \A t \in TxId : y.pending[t] = None
  BY <1>1, EmptiedFacts DEF PoolNet
<1> HIDE DEF y
<1>4. /\ sk' \in [Udp!Sock -> Udp!Socket] /\ sk'[s] = y
      /\ \A r \in Udp!Sock : r # s => sk'[r] = sk[r]
  BY <1>1, <1>2, <1>3 DEF PoolNet, y
<1>5. /\ futU' \in [Query -> Udp!Reply \cup {None, "error"}] /\ Seated'
      /\ \A q \in Query : (Settled(q) /\ HasSlot(q) /\ Judged(q))'
  BY <1>2, <1>3, <1>4, FailedFacts
<1>6. PoolNet' /\ closed' \in BOOLEAN /\ own' \subseteq Query
  BY <1>1, <1>2, <1>4 DEF PoolNet, PoolOthers, PoolTasks
<1>7. \A r \in Udp!Sock : sk'[r].st = sk[r].st /\ sk'[r].retired = sk[r].retired
  BY <1>3, <1>4
<1> QED  BY <1>2, <1>5, <1>6, <1>7, CallbackKeeps

LEMMA ConnectionLostKeeps ==
  ASSUME PoolInv, NEW s \in Udp!Sock, Udp!ConnectionLost(s)
  PROVE  PoolInv'
<1>1. PoolTasks /\ PoolNet /\ PoolOthers
  BY DEF PoolInv, PoolTypes
<1>2. /\ sk' = [sk EXCEPT ![s] = [Udp!Emptied(sk[s]) EXCEPT !.st = "closed"]]
      /\ futU' = Udp!FailedFuts(s) /\ wire' = {w \in wire : w.sock # s}
      /\ socks' \in {socks, socks \ {s}}
      /\ UNCHANGED <<pcU, sent, outU, own, evicted, fill, stray, target, lockqU, closed, callsU>>
  BY DEF Udp!ConnectionLost
<1> DEFINE x == Udp!Emptied(sk[s])
           y == [x EXCEPT !.st = "closed"]
<1>3. x \in Udp!Socket /\ \A t \in TxId : x.pending[t] = None
  BY <1>1, EmptiedFacts DEF PoolNet
<1>4. sk' = [sk EXCEPT ![s] = y]
  BY <1>2
<1> HIDE DEF x
<1>5. y \in Udp!Socket /\ y.st = "closed" /\ y.pending = x.pending
  BY <1>3, StatedFacts
<1> HIDE DEF y
<1>6. /\ sk' \in [Udp!Sock -> Udp!Socket] /\ sk'[s] = y
      /\ \A r \in Udp!Sock : r # s => sk'[r] = sk[r]
  BY <1>1, <1>4, <1>5 DEF PoolNet
<1>7. /\ futU' \in [Query -> Udp!Reply \cup {None, "error"}] /\ Seated'
      /\ \A q \in Query : (Settled(q) /\ HasSlot(q) /\ Judged(q))'
  <2>1. futU' = Udp!FailedFuts(s) /\ UNCHANGED <<pcU, sent, outU, own, evicted>>
    BY <1>2
  <2>2. \A t \in TxId : sk'[s].pending[t] = None
    BY <1>3, <1>5, <1>6
  <2> QED BY <1>6, <2>1, <2>2, FailedFacts
<1>8. PoolNet' /\ closed' \in BOOLEAN /\ own' \subseteq Query
  BY <1>1, <1>2, <1>6 DEF PoolNet, PoolOthers, PoolTasks
<1>9. \A r \in Udp!Sock : sk'[r].st = "open" => r # s /\ sk'[r] = sk[r]
  BY <1>5, <1>6
<1> QED  BY <1>2, <1>7, <1>8, <1>9, CallbackKeeps

LEMMA PoolCloseKeeps ==
  ASSUME PoolInv, Udp!Close
  PROVE  PoolInv'
<1>1. /\ PoolTasks /\ PoolNet /\ PoolOthers /\ Seated
      /\ \A q \in Query : Settled(q) /\ HasSlot(q) /\ Judged(q)
  BY DEF PoolInv, PoolTypes
<1>2. /\ closed' = TRUE /\ socks' = {}
      /\ sk' = [s \in Udp!Sock |-> IF s \in socks /\ sk[s].st = "open"
                                   THEN [sk[s] EXCEPT !.st = "closing"] ELSE sk[s]]
      /\ UNCHANGED <<pcU, sent, futU, outU, own, evicted, wire, fill, stray, target, lockqU, callsU>>
  BY DEF Udp!Close, Udp!task
<1>3. ASSUME NEW s \in Udp!Sock
      PROVE  /\ sk'[s] \in Udp!Socket /\ sk'[s].pending = sk[s].pending
             /\ sk'[s].retired = sk[s].retired
             /\ sk'[s].st = "open" => sk[s].st = "open" /\ s \notin socks
  <2>1. sk[s] \in Udp!Socket
    BY <1>1 DEF PoolNet
  <2>2. CASE s \in socks /\ sk[s].st = "open"
    <3>1. sk'[s] = [sk[s] EXCEPT !.st = "closing"]
      BY <1>2, <2>2
    <3> DEFINE y == [sk[s] EXCEPT !.st = "closing"]
    <3>2. y \in Udp!Socket /\ y.st = "closing" /\ y.retired = sk[s].retired
          /\ y.pending = sk[s].pending
      BY <2>1, StatedFacts
    <3> QED  BY <3>1, <3>2
  <2>3. CASE ~(s \in socks /\ sk[s].st = "open")
    BY <1>2, <2>1, <2>3
  <2> QED  BY <2>2, <2>3
<1>4. sk' \in [Udp!Sock -> Udp!Socket]
  BY <1>2, <1>3
<1>5. Seated'
  BY <1>1, <1>2, <1>3 DEF Seated
<1>6. ASSUME NEW q \in Query PROVE (Settled(q) /\ HasSlot(q) /\ Judged(q))'
  <2>1. Settled(q)' /\ Judged(q)'
    BY <1>1, <1>2 DEF Settled, Judged
  <2>2. pcU[q] = "wait" => sent[q].sock \in Udp!Sock
    BY <1>1 DEF Settled, PoolTasks, Seat
  <2>3. HasSlot(q)'
    BY <1>1, <1>2, <1>3, <2>2 DEF HasSlot
  <2> QED  BY <2>1, <2>3
<1>7. PoolNet' /\ closed' \in BOOLEAN /\ own' \subseteq Query /\ socks' \subseteq socks
      /\ futU' \in [Query -> Udp!Reply \cup {None, "error"}]
  BY <1>1, <1>2, <1>4 DEF PoolNet, PoolOthers, PoolTasks
<1> QED  BY <1>2, <1>3, <1>5, <1>6, <1>7, CallbackKeeps

(* A reply is given to the query under its id, or held back, or dropped;   *)
(* the future of a query that has its slot has its reply from then on.     *)
LEMMA PoolReceiveKeeps ==
  ASSUME PoolInv, NEW s \in Udp!Sock, Udp!Receive(s)
  PROVE  PoolInv'
<1>1. /\ PoolTasks /\ PoolNet /\ PoolOthers /\ Seated
      /\ \A p \in Query : Settled(p) /\ HasSlot(p) /\ Judged(p)
  BY DEF PoolInv, PoolTypes
<1>2. PICK m \in wire, r \in Udp!Reply :
        LET q == sk[s].pending[m.id] IN
        /\ m.sock = s /\ r \in {Udp!Bare, m.question}
        /\ own' = own \cup {p \in Query : /\ pcU[p] = "wait" /\ r = Asks[p]
                                          /\ sent[p] = [sock |-> s, id |-> m.id]}
        /\ IF q = None \/ futU[q] # None THEN UNCHANGED <<sk, futU>>
           ELSE IF Udp!Matches(q, r)
           THEN /\ sk' = [sk EXCEPT ![s] = Udp!Forgot(sk[s], m.id)]
                /\ futU' = [futU EXCEPT ![q] = r]
           ELSE /\ sk' = [sk EXCEPT ![s].rejected[m.id] = IF @ = None THEN r ELSE @]
                /\ UNCHANGED futU
  <2>1. \A m \in wire : m.question \in Udp!Reply
    BY <1>1 DEF PoolNet, Udp!Reply
  <2>2. Udp!Bare \in Udp!Reply
    BY DEF Udp!Reply
  <2> QED  BY <2>1, <2>2 DEF Udp!Receive
<1>3. UNCHANGED <<pcU, sent, outU, evicted, wire, socks, fill, stray, target, lockqU, closed, callsU>>
  BY DEF Udp!Receive, Udp!pool
<1> DEFINE i == m.id
           q == sk[s].pending[i]
<1>4. i \in TxId /\ r \in Udp!Reply
  BY <1>1 DEF PoolNet
<1>5. sk[s] \in Udp!Socket /\ q \in Query \cup {None}
  BY <1>1, <1>4, SocketFields DEF PoolNet
<1>6. own' = own \cup {p \in Query : /\ pcU[p] = "wait" /\ r = Asks[p]
                                     /\ sent[p] = [sock |-> s, id |-> i]}
  BY <1>2
<1>7. \/ (q = None \/ futU[q] # None) /\ UNCHANGED <<sk, futU>>
      \/ /\ q # None /\ futU[q] = None /\ r \in {Udp!Bare, Asks[q]}
         /\ sk' = [sk EXCEPT ![s] = Udp!Forgot(sk[s], i)]
         /\ futU' = [futU EXCEPT ![q] = r]
      \/ /\ q # None /\ futU[q] = None /\ r \notin {Udp!Bare, Asks[q]}
         /\ sk' = [sk EXCEPT ![s].rejected[i] = IF @ = None THEN r ELSE @]
         /\ futU' = futU
  BY <1>2 DEF Udp!Matches
<1> HIDE DEF i, q
<1>8. /\ sk' \in [Udp!Sock -> Udp!Socket]
      /\ \A z \in Udp!Sock : z # s => sk'[z] = sk[z]
      /\ sk'[s].st = sk[s].st /\ sk'[s].retired = sk[s].retired
      /\ \A t \in TxId : t # i => sk'[s].pending[t] = sk[s].pending[t]
      /\ \/ futU' = futU /\ sk'[s].pending[i] = q
         \/ /\ q \in Query /\ r \in {Udp!Bare, Asks[q]} /\ sk'[s].pending[i] = None
            /\ futU' = [futU EXCEPT ![q] = r]
  <2>1. CASE UNCHANGED <<sk, futU>>
    BY <1>1, <2>1 DEF PoolNet, q
  <2>2. CASE /\ q # None /\ r \in {Udp!Bare, Asks[q]}
             /\ sk' = [sk EXCEPT ![s] = Udp!Forgot(sk[s], i)]
             /\ futU' = [futU EXCEPT ![q] = r]
    <3> DEFINE y == Udp!Forgot(sk[s], i)
    <3>1. /\ y \in Udp!Socket /\ y.st = sk[s].st /\ y.retired = sk[s].retired
          /\ y.pending = [sk[s].pending EXCEPT ![i] = None]
      BY <1>4, <1>5, ForgotFacts
    <3>2. sk[s].pending \in [TxId -> Query \cup {None}]
      BY <1>5, SocketFields
    <3>3. sk' = [sk EXCEPT ![s] = y]
      BY <2>2
    <3> HIDE DEF y
    <3>4. sk' \in [Udp!Sock -> Udp!Socket] /\ sk'[s] = y
          /\ \A z \in Udp!Sock : z # s => sk'[z] = sk[z]
      BY <1>1, <3>1, <3>3 DEF PoolNet
    <3> QED  BY <1>4, <1>5, <2>2, <3>1, <3>2, <3>4
  <2>3. CASE /\ futU' = futU
             /\ sk' = [sk EXCEPT ![s].rejected[i] = IF @ = None THEN r ELSE @]
    <3> DEFINE y == [sk[s] EXCEPT !.rejected[i] = IF @ = None THEN r ELSE @]
    <3>1. /\ y \in Udp!Socket /\ y.st = sk[s].st /\ y.retired = sk[s].retired
          /\ y.pending = sk[s].pending
      BY <1>4, <1>5, HeldBackFacts
    <3>2. sk' = [sk EXCEPT ![s] = y]
      BY <2>3
    <3> HIDE DEF y
    <3>3. sk' \in [Udp!Sock -> Udp!Socket] /\ sk'[s] = y
          /\ \A z \in Udp!Sock : z # s => sk'[z] = sk[z]
      BY <1>1, <3>1, <3>2 DEF PoolNet
    <3> QED  BY <2>3, <3>1, <3>3 DEF q
  <2> QED  BY <1>5, <1>7, <2>1, <2>2, <2>3
<1>9. futU' \in [Query -> Udp!Reply \cup {None, "error"}] /\ own' \subseteq Query
  BY <1>1, <1>4, <1>6, <1>8 DEF PoolTasks
<1>10. Seated'
  <2> SUFFICES ASSUME NEW z \in Udp!Sock, NEW t \in TxId, sk'[z].pending[t] # None
               PROVE  sent'[sk'[z].pending[t]] = [sock |-> z, id |-> t]
    BY DEF Seated
  <2>1. sk'[z].pending[t] = sk[z].pending[t]
    BY <1>8 DEF q
  <2> QED  BY <1>1, <1>3, <2>1 DEF Seated
<1>11. q # None => sent[q] = [sock |-> s, id |-> i] /\ pcU[q] = "wait"
  <2>1. q # None => sent[q] = [sock |-> s, id |-> i]
    BY <1>1, <1>4 DEF Seated, q
  <2>2. [sock |-> s, id |-> i] \in Seat
    BY <1>4 DEF Seat
  <2> QED  BY <1>1, <1>5, <2>1, <2>2, Words DEF Settled
<1>12. ASSUME NEW p \in Query PROVE (Settled(p) /\ HasSlot(p) /\ Judged(p))'
  <2>1. futU'[p] = futU[p] \/ (p = q /\ futU'[p] = r /\ r \in {Udp!Bare, Asks[p]})
    BY <1>1, <1>8 DEF PoolTasks
  <2>2. Settled(p)'
    BY <1>1, <1>3, <1>5, <1>11, <2>1, Words DEF Settled
  <2>3. Judged(p)'
    BY <1>1, <1>3, <1>6, Words DEF Settled, Judged
  <2>4. ASSUME pcU[p] = "wait", p \notin evicted
        PROVE  /\ futU'[p] = None => sk'[sent[p].sock].pending[sent[p].id] = p
               /\ p \in own' => futU'[p] # None
    <3>1. sent[p] \in Seat /\ sent[p].sock \in Udp!Sock /\ sent[p].id \in TxId
      BY <1>1, <2>4 DEF PoolTasks, Settled, Seat
    <3>2. futU'[p] = None => futU[p] = None
      BY <2>1, Words
    <3>3. ASSUME futU'[p] = None PROVE sk'[sent[p].sock].pending[sent[p].id] = p
      <4>1. sk[sent[p].sock].pending[sent[p].id] = p
        BY <1>1, <2>4, <3>2, <3>3 DEF HasSlot
      <4>2. CASE sent[p].sock = s /\ sent[p].id = i
        <5>1. q = p
          BY <4>1, <4>2 DEF q
        <5> QED  BY <1>1, <1>8, <3>3, <4>2, <5>1, Words DEF PoolTasks
      <4>3. CASE ~(sent[p].sock = s /\ sent[p].id = i)
        BY <1>8, <3>1, <4>1, <4>3
      <4> QED  BY <4>2, <4>3
    <3>4. ASSUME p \in own', p \notin own, futU'[p] = None PROVE FALSE
      <4>1. r = Asks[p] /\ sent[p] = [sock |-> s, id |-> i]
        BY <1>6, <3>4
      <4>2. sk[s].pending[i] = p /\ futU[p] = None
        BY <1>1, <2>4, <3>2, <3>4, <4>1 DEF HasSlot
      <4>3. q = p /\ q # None
        BY <4>2, Words DEF q
      <4>4. futU' = [futU EXCEPT ![q] = r]
        BY <1>7, <4>1, <4>2, <4>3
      <4> QED  BY <1>1, <1>4, <3>4, <4>3, <4>4, Words DEF PoolTasks, Udp!Reply
    <3> QED  BY <1>1, <2>1, <2>4, <3>2, <3>3, <3>4 DEF HasSlot
  <2>5. HasSlot(p)'
    BY <1>3, <2>4 DEF HasSlot
  <2> QED  BY <2>2, <2>3, <2>5
<1>13. PoolNet' /\ closed' \in BOOLEAN
  BY <1>1, <1>3, <1>8 DEF PoolNet, PoolOthers
<1>14. \A z \in Udp!Sock : sk'[z].st = sk[z].st /\ sk'[z].retired = sk[z].retired
  BY <1>8
<1> QED  BY <1>3, <1>9, <1>10, <1>12, <1>13, <1>14, CallbackKeeps

-----------------------------------------------------------------------------
(* UdpPool: a query takes a socket.                                        *)
LEMMA ChoiceFacts ==
  ASSUME NEW k, NEW S, NEW t, NEW first \in S, NEW s \in Udp!Choice(k, S, t, first)
  PROVE  s \in S /\ k[s].pending[t] = None
<1>1. CASE k[first].pending[t] = None
  BY <1>1 DEF Udp!Choice
<1>2. CASE k[first].pending[t] # None
  <2>1. \A n : Udp!kSubset(n, S) \subseteq SUBSET S
    BY DEF Udp!kSubset
  <2> QED  BY <1>2, <2>1 DEF Udp!Choice
<1> QED  BY <1>1, <1>2

LEMMA PickFacts ==
  ASSUME PoolInv, NEW q \in Query, pcU[q] # "wait",
         NEW k \in [Udp!Sock -> Udp!Socket], \A s \in Udp!Sock : k[s].pending = sk[s].pending,
         NEW S \in SUBSET Udp!Sock, Udp!Pick(q, k, S)
  PROVE  /\ PoolTasks' /\ PoolNet' /\ Apart(q) /\ Spares(q) /\ Seated'
         /\ (Settled(q) /\ HasSlot(q) /\ Judged(q))' /\ pcU'[q] \in {"wait", "done"}
         /\ socks' \subseteq S
         /\ \A s \in Udp!Sock : /\ sk'[s].st = k[s].st
                                /\ k[s].retired = TRUE => sk'[s].retired = TRUE
                                /\ Carried(s) => Carried(s)'
         /\ \A s \in S \ socks' : sk'[s].retired = TRUE /\ Carried(s)'
<1>1. PoolTasks /\ PoolNet /\ Seated /\ Settled(q) /\ sent[q] = None
  BY DEF PoolInv, PoolTypes, Settled
<1>2. PICK t \in TxId, first \in S :
        LET C == Udp!Choice(k, S, t, first) IN
        \/ /\ C = {} /\ Udp!Return(q, "failed") /\ sk' = k /\ socks' = S
           /\ UNCHANGED <<wire, evicted>>
        \/ \E s \in C : Udp!Register(q, k, s, t) /\ socks' = Udp!Kept(k, S, s)
  BY DEF Udp!Pick
<1>3. \A s \in Udp!Sock, i \in TxId : sk[s].pending[i] \in Query \cup {None}
  BY <1>1, SocketFields DEF PoolNet
<1>4. \A s \in Udp!Sock, i \in TxId : sk[s].pending[i] # q
  <2> SUFFICES ASSUME NEW s \in Udp!Sock, NEW i \in TxId, sk[s].pending[i] = q PROVE FALSE
    OBVIOUS
  <2>1. sent[q] = [sock |-> s, id |-> i] /\ [sock |-> s, id |-> i] \in Seat
    BY <1>1, Words DEF Seated, Seat
  <2> QED  BY <1>1, <2>1, Words
<1>5. CASE Udp!Return(q, "failed") /\ sk' = k /\ socks' = S /\ UNCHANGED <<wire, evicted>>
  <2>1. /\ PoolTasks' /\ Settled(q)' /\ HasSlot(q)' /\ Apart(q)
        /\ pcU'[q] = "done" /\ sent'[q] = None
    BY <1>1, <1>5, GoneFacts DEF PoolTasks
  <2>2. Judged(q)'
    BY <1>1, <1>5, Words DEF Judged, Udp!Return, PoolTasks
  <2>3. sent' = sent
    BY <1>1, <1>5 DEF Udp!Return, PoolTasks
  <2>4. PoolNet' /\ Seated' /\ Spares(q)
    BY <1>1, <1>5, <2>3 DEF PoolNet, Seated, Spares
  <2>5. \A s \in Udp!Sock : Carried(s) => Carried(s)'
    BY <2>3 DEF Carried
  <2> QED  BY <1>5, <2>1, <2>2, <2>4, <2>5
<1>6. ASSUME NEW s \in Udp!Choice(k, S, t, first),
             Udp!Register(q, k, s, t), socks' = Udp!Kept(k, S, s)
      PROVE  /\ PoolTasks' /\ PoolNet' /\ Apart(q) /\ Spares(q) /\ Seated'
             /\ (Settled(q) /\ HasSlot(q) /\ Judged(q))' /\ pcU'[q] = "wait"
             /\ socks' \subseteq S
             /\ \A z \in Udp!Sock : /\ sk'[z].st = k[z].st
                                    /\ k[z].retired = TRUE => sk'[z].retired = TRUE
                                    /\ Carried(z) => Carried(z)'
             /\ \A z \in S \ socks' : sk'[z].retired = TRUE /\ Carried(z)'
  <2>1. s \in Udp!Sock /\ k[s].pending[t] = None
    BY ChoiceFacts
  <2> DEFINE w == k[s].retired \/ Udp!Worn(k[s])
  <2>2. sk' = Carrying(k, s, t, q, w)
    BY <1>6, Zenon DEF Udp!Register, Carrying
  <2>3. /\ w \in BOOLEAN
        /\ k[s].retired = TRUE => w = TRUE
        /\ Udp!Worn(k[s]) => w = TRUE
    <3>1. k[s].retired \in BOOLEAN
      BY <2>1, SocketFields
    <3>2. Udp!Worn(k[s]) \in BOOLEAN
      BY DEF Udp!Worn
    <3> QED  BY <3>1, <3>2
  <2> HIDE DEF w
  <2>4. /\ sk' \in [Udp!Sock -> Udp!Socket]
        /\ \A z \in Udp!Sock : z # s => sk'[z] = k[z]
        /\ sk'[s].st = k[s].st /\ sk'[s].pending = [k[s].pending EXCEPT ![t] = q]
        /\ sk'[s].retired = w
    BY <2>1, <2>2, <2>3, CarryingFacts
  <2>5. /\ pcU' = [pcU EXCEPT ![q] = "wait"]
        /\ sent' = [sent EXCEPT ![q] = [sock |-> s, id |-> t]]
        /\ futU' = [futU EXCEPT ![q] = None] /\ outU' = [outU EXCEPT ![q] = None]
        /\ own' = own \ {q} /\ evicted' = evicted \ {q}
        /\ wire' \in {wire, wire \cup {[sock |-> s, id |-> t, question |-> Asks[q]]}}
    BY <1>6 DEF Udp!Register
  <2>6. [sock |-> s, id |-> t] \in Seat
    BY <2>1 DEF Seat
  <2>7. PoolTasks'
    BY <1>1, <2>5, <2>6 DEF PoolTasks, PoolPhase
  <2>8. PoolNet'
    <3>1. wire' \subseteq [sock : Udp!Sock, id : TxId, question : Question]
      BY <1>1, <2>1, <2>5, Words DEF PoolNet
    <3> QED  BY <2>4, <3>1 DEF PoolNet
  <2>9. Apart(q)
    BY <1>1, <2>5 DEF Apart, PoolTasks
  <2>10. pcU'[q] = "wait" /\ sent'[q] = [sock |-> s, id |-> t] /\ futU'[q] = None
         /\ outU'[q] = None /\ q \notin own' /\ q \notin evicted'
    BY <1>1, <2>5 DEF PoolTasks
  <2>11. k[s].pending \in [TxId -> Query \cup {None}]
    BY <2>1, SocketFields
  <2>12. /\ sk'[s].pending[t] = q
         /\ \A z \in Udp!Sock, i \in TxId :
              ~(z = s /\ i = t) => sk'[z].pending[i] = sk[z].pending[i]
    BY <2>1, <2>4, <2>11
  <2>13. sk[s].pending[t] = None
    BY <2>1
  <2>14. Spares(q)
    BY <2>12, <2>13, Words DEF Spares
  <2>15. Seated'
    <3> SUFFICES ASSUME NEW z \in Udp!Sock, NEW i \in TxId, sk'[z].pending[i] # None
                 PROVE  sent'[sk'[z].pending[i]] = [sock |-> z, id |-> i]
      BY DEF Seated
    <3>1. CASE z = s /\ i = t
      BY <2>10, <2>12, <3>1
    <3>2. CASE ~(z = s /\ i = t)
      <4>1. sk'[z].pending[i] = sk[z].pending[i]
        BY <2>12, <3>2
      <4>2. sk[z].pending[i] \in Query \ {q}
        BY <1>3, <1>4, <4>1
      <4> QED  BY <1>1, <2>9, <4>1, <4>2 DEF Seated, Apart
    <3> QED  BY <3>1, <3>2
  <2>16. (Settled(q) /\ HasSlot(q) /\ Judged(q))'
    <3>1. Settled(q)' /\ Judged(q)'
      BY <2>6, <2>10, Words DEF Settled, Judged
    <3>2. HasSlot(q)'
      BY <2>10, <2>12 DEF HasSlot
    <3> QED  BY <3>1, <3>2
  <2>17. ASSUME NEW z \in Udp!Sock, Carried(z) PROVE Carried(z)'
    BY <1>1, <2>9, <2>17 DEF Carried, Apart
  <2>18. Carried(s)'
    BY <2>6, <2>10, Words DEF Carried
  <2>19. socks' \subseteq S /\ \A z \in S \ socks' : z = s /\ Udp!Worn(k[s])
    BY <1>6 DEF Udp!Kept
  <2>20. ASSUME NEW z \in Udp!Sock
         PROVE  sk'[z].st = k[z].st /\ (k[z].retired = TRUE => sk'[z].retired = TRUE)
    <3>1. CASE z = s
      BY <2>3, <2>4, <3>1
    <3>2. CASE z # s
      BY <2>4, <3>2
    <3> QED  BY <3>1, <3>2
  <2>21. ASSUME NEW z \in S \ socks' PROVE sk'[z].retired = TRUE /\ Carried(z)'
    BY <2>3, <2>4, <2>18, <2>19
  <2> QED  BY <2>7, <2>8, <2>9, <2>10, <2>14, <2>15, <2>16, <2>17, <2>19, <2>20, <2>21
<1> QED  BY <1>2, <1>5, <1>6

LEMMA PickKeeps ==
  ASSUME PoolInv, NEW q \in Query, pcU[q] # "wait",
         NEW k \in [Udp!Sock -> Udp!Socket], \A s \in Udp!Sock : k[s].pending = sk[s].pending,
         NEW S \in SUBSET Udp!Sock, Udp!Pick(q, k, S),
         lockqU' \in Seq(Query), InOrder(lockqU, lockqU', q),
         fill' \subseteq Udp!Sock, Cardinality(fill') < Size,
         fill' # {} => \E p \in Query \ {q} : pcU[p] = "fill",
         target' \in 1 .. Size, callsU' \in 0 .. MaxUdpCalls, UNCHANGED <<stray, closed>>,
         (S \subseteq socks /\ fill' = fill) \/ (lockqU # <<>> /\ Head(lockqU) = q),
         \A s \in Udp!Sock \ stray : k[s].st = "open" =>
           s \in S \cup fill' \/ (k[s].retired = TRUE /\ Carried(s))
  PROVE  PoolInv'
<1>1. PoolOthers
  BY DEF PoolInv, PoolTypes
<1>2. /\ PoolTasks' /\ PoolNet' /\ Apart(q) /\ Spares(q) /\ Seated'
      /\ (Settled(q) /\ HasSlot(q) /\ Judged(q))' /\ pcU'[q] \in {"wait", "done"}
      /\ socks' \subseteq S
      /\ \A s \in Udp!Sock : /\ sk'[s].st = k[s].st
                             /\ k[s].retired = TRUE => sk'[s].retired = TRUE
                             /\ Carried(s) => Carried(s)'
      /\ \A s \in S \ socks' : sk'[s].retired = TRUE /\ Carried(s)'
  BY PickFacts
<1>3. PoolTypes'
  BY <1>1, <1>2 DEF PoolTypes, PoolOthers
<1>4. InLine(q)'
  BY <1>2 DEF InLine
<1>5. ASSUME NEW p \in Query \ {q} PROVE (Settled(p) /\ HasSlot(p) /\ Judged(p) /\ InLine(p))'
  BY <1>2, ApartKept, LineKept
<1>6. Filling'
  BY <1>2 DEF Filling, Apart
<1>7. Watched'
  BY <1>2 DEF Watched
<1> QED  BY <1>2, <1>3, <1>4, <1>5, <1>6, <1>7 DEF PoolInv

LEMMA SomeOtherFills ==
  ASSUME PoolInv, NEW q \in Query, pcU[q] # "fill"
  PROVE  fill # {} => \E p \in Query \ {q} : pcU[p] = "fill"
BY DEF PoolInv, Filling

LEMMA PoolStartKeeps ==
  ASSUME PoolInv, NEW q \in Query, Udp!Start(q)
  PROVE  PoolInv'
<1>1. PoolTasks /\ PoolNet /\ PoolOthers /\ Filling /\ Watched /\ Seated /\ Settled(q)
  BY DEF PoolInv, PoolTypes
<1>2. /\ pcU[q] \in {"idle", "done"} /\ callsU' = callsU + 1 /\ callsU < MaxUdpCalls
      /\ UNCHANGED <<fill, stray, target, closed>>
  BY DEF Udp!Start
<1>3. callsU' \in 0 .. MaxUdpCalls
  BY <1>1, <1>2, Words DEF PoolOthers
<1>4. CASE Udp!Pick(q, sk, socks) /\ UNCHANGED lockqU
  <2>1. fill # {} => \E p \in Query \ {q} : pcU[p] = "fill"
    BY <1>2, SomeOtherFills
  <2>2. InOrder(lockqU, lockqU', q)
    BY <1>4 DEF InOrder
  <2> QED  BY <1>1, <1>2, <1>3, <1>4, <2>1, <2>2, PickKeeps
           DEF PoolNet, PoolOthers, Filling, Watched
<1>5. CASE /\ pcU' = [pcU EXCEPT ![q] = "lock"] /\ outU' = [outU EXCEPT ![q] = None]
           /\ lockqU' = Append(lockqU, q)
           /\ UNCHANGED <<sent, futU, own, evicted, sk, wire, socks>>
  <2>1. /\ lockqU' \in Seq(Query) /\ q \in Range(lockqU') /\ InOrder(lockqU, lockqU', q)
    BY <1>1, <1>5, QueueJoined DEF PoolOthers, InOrder
  <2>2. PoolTypes'
    BY <1>1, <1>2, <1>3, <1>5, <2>1 DEF PoolTypes, PoolTasks, PoolNet, PoolOthers, PoolPhase
  <2>3. Apart(q) /\ Spares(q) /\ pcU'[q] = "lock" /\ outU'[q] = None
    BY <1>1, <1>5 DEF Apart, Spares, PoolTasks
  <2>4. Settled(q)' /\ HasSlot(q)' /\ Judged(q)' /\ InLine(q)'
    <3>1. sent[q] = None /\ futU[q] = None
      BY <1>1, <1>2 DEF Settled
    <3> QED  BY <1>5, <2>1, <2>3, <3>1, Words DEF Settled, HasSlot, Judged, InLine
  <2>5. ASSUME NEW p \in Query \ {q} PROVE (Settled(p) /\ HasSlot(p) /\ Judged(p) /\ InLine(p))'
    BY <1>2, <1>5, <2>1, <2>3, ApartKept, LineKept
  <2>6. Filling'
    BY <1>1, <1>2, <2>3, SomeOtherFills DEF Filling, Apart
  <2>7. Seated' /\ Watched'
    BY <1>1, <1>2, <1>5 DEF Seated, Watched, Carried
  <2> QED  BY <2>2, <2>4, <2>5, <2>6, <2>7 DEF PoolInv
<1> QED  BY <1>4, <1>5 DEF Udp!Start

(* What fits between the sockets there are and the size of the pool.       *)
LEMMA SocketsFinite ==
  ASSUME NEW S \in SUBSET Udp!Sock
  PROVE  IsFiniteSet(S) /\ Cardinality(S) \in Nat /\ (S # {} => Cardinality(S) > 0)
<1>1. IsFiniteSet(Udp!Sock)
  <2>1. Udp!Sock = 1 .. MaxSocks /\ MaxSocks \in Int
    BY Words DEF Udp!Sock
  <2>2. IsFiniteSet(1 .. MaxSocks)
    BY <2>1, FS_Interval
  <2> QED  BY <2>1, <2>2
<1>2. IsFiniteSet(S)
  BY <1>1, FS_Subset
<1>3. Cardinality(S) \in Nat /\ (Cardinality(S) = 0 <=> S = {})
  BY <1>2, FS_CardinalityType, FS_EmptySet
<1> QED  BY <1>2, <1>3

LEMMA PoolLockedKeeps ==
  ASSUME PoolInv, NEW q \in Query, Udp!Locked(q)
  PROVE  PoolInv'
<1>1. PoolTasks /\ PoolNet /\ PoolOthers /\ Filling /\ Watched /\ Seated /\ Settled(q) /\ InLine(q)
  BY DEF PoolInv, PoolTypes
<1>2. pcU[q] = "lock" /\ Head(lockqU) = q /\ UNCHANGED <<stray, target, closed, callsU>>
  BY DEF Udp!Locked
<1>3. lockqU # <<>>
  BY <1>1, <1>2 DEF InLine, PoolOthers, Range
<1>4. CASE Udp!Pick(q, sk, socks) /\ lockqU' = Udp!Released(q) /\ UNCHANGED fill
  <2>1. fill # {} => \E p \in Query \ {q} : pcU[p] = "fill"
    BY <1>2, SomeOtherFills
  <2>2. lockqU' \in Seq(Query) /\ InOrder(lockqU, lockqU', q)
    BY <1>1, <1>4, ReleasedLine DEF PoolOthers
  <2> QED  BY <1>1, <1>2, <1>4, <2>1, <2>2, PickKeeps
           DEF PoolNet, PoolOthers, Filling, Watched
<1>5. CASE /\ ~Udp!Full /\ pcU' = [pcU EXCEPT ![q] = "fill"] /\ fill' = socks
           /\ UNCHANGED <<sent, futU, outU, own, evicted, sk, wire, socks, lockqU>>
  <2>1. fill = {}
    BY <1>1, <1>2, SomeOtherFills DEF PoolInv, InLine
  <2>2. PoolTypes'
    BY <1>1, <1>2, <1>5 DEF PoolTypes, PoolTasks, PoolNet, PoolOthers, PoolPhase
  <2>3. Apart(q) /\ Spares(q) /\ pcU'[q] = "fill"
    BY <1>1, <1>5 DEF Apart, Spares, PoolTasks
  <2>4. Settled(q)' /\ HasSlot(q)' /\ Judged(q)' /\ InLine(q)'
    <3>1. sent[q] = None /\ futU[q] = None /\ outU[q] = None
      BY <1>1, <1>2 DEF Settled
    <3> QED  BY <1>2, <1>3, <1>5, <2>3, <3>1, Words DEF Settled, HasSlot, Judged, InLine
  <2>5. InOrder(lockqU, lockqU', q)
    BY <1>5 DEF InOrder
  <2>6. ASSUME NEW p \in Query \ {q} PROVE (Settled(p) /\ HasSlot(p) /\ Judged(p) /\ InLine(p))'
    BY <1>2, <1>3, <2>3, <2>5, ApartKept, LineKept
  <2>7. Filling'
    <3>1. ~(Cardinality(socks) >= target)
      BY <1>5, SameCardinality DEF Udp!Full
    <3>2. Cardinality(socks) \in Nat /\ target \in 1 .. Size
      BY <1>1, SocketsFinite DEF PoolOthers
    <3>3. Cardinality(socks) < Size
      BY <3>1, <3>2, Words
    <3> QED  BY <1>5, <2>3, <3>3 DEF Filling
  <2>8. Seated' /\ Watched'
    BY <1>1, <1>2, <1>5, <2>1 DEF Seated, Watched, Carried
  <2> QED  BY <2>2, <2>4, <2>6, <2>7, <2>8 DEF PoolInv
<1> QED  BY <1>4, <1>5 DEF Udp!Locked

LEMMA PoolOpenFailsKeeps ==
  ASSUME PoolInv, NEW q \in Query, Udp!OpenFails(q)
  PROVE  PoolInv'
<1>1. PoolTasks /\ PoolNet /\ PoolOthers /\ Filling /\ Watched /\ InLine(q)
  BY DEF PoolInv, PoolTypes
<1>2. /\ pcU[q] = "fill" /\ fill' = {} /\ lockqU' = Udp!Released(q)
      /\ UNCHANGED <<stray, closed, callsU>>
  BY DEF Udp!OpenFails
<1>3. lockqU # <<>> /\ Head(lockqU) = q /\ socks \subseteq fill
  BY <1>1, <1>2 DEF InLine
<1>4. CASE fill = {}
  <2>1. Udp!Return(q, "failed") /\ UNCHANGED <<sk, wire, socks, target, evicted>>
    BY <1>4 DEF Udp!OpenFails
  <2> QED  BY <1>1, <1>2, <1>4, <2>1, QuitKeeps DEF PoolOthers
<1>5. CASE fill # {}
  <2>1. Udp!Pick(q, sk, fill) /\ target' = Cardinality(fill)
    BY <1>5, SameCardinality DEF Udp!OpenFails
  <2>2. lockqU' \in Seq(Query) /\ InOrder(lockqU, lockqU', q)
    BY <1>1, <1>2, ReleasedLine DEF PoolOthers
  <2>3. target' \in 1 .. Size
    BY <1>1, <1>5, <2>1, SocketsFinite, Words DEF PoolOthers, Filling
  <2>4. \A s \in Udp!Sock \ stray : sk[s].st = "open" =>
          s \in fill \cup fill' \/ (sk[s].retired = TRUE /\ Carried(s))
    BY <1>1, <1>3 DEF Watched
  <2>5. sk \in [Udp!Sock -> Udp!Socket] /\ fill \in SUBSET Udp!Sock /\ callsU' \in 0 .. MaxUdpCalls
    BY <1>1, <1>2 DEF PoolNet, PoolOthers
  <2>6. fill' \subseteq Udp!Sock /\ Cardinality(fill') < Size /\ pcU[q] # "wait"
    BY <1>2, FS_EmptySet, Words
  <2>7. fill' # {} => \E p \in Query \ {q} : pcU[p] = "fill"
    BY <1>2
  <2> QED  BY <1>2, <1>3, <2>1, <2>2, <2>3, <2>4, <2>5, <2>6, <2>7, PickKeeps
<1> QED  BY <1>4, <1>5

Endpoint(k, s, n) == [k EXCEPT ![s].st = "open", ![s].left = n]

LEMMA EndpointFacts ==
  ASSUME NEW k \in [Udp!Sock -> Udp!Socket], NEW s \in Udp!Sock, NEW n \in Nat
  PROVE  LET y == Endpoint(k, s, n) IN
         /\ y \in [Udp!Sock -> Udp!Socket]
         /\ \A r \in Udp!Sock : y[r].pending = k[r].pending /\ y[r].retired = k[r].retired
         /\ \A r \in Udp!Sock : r # s => y[r] = k[r]
<1> DEFINE x == [k[s] EXCEPT !.st = "open", !.left = n]
           y == Endpoint(k, s, n)
<1>1. k[s] \in Udp!Socket
  OBVIOUS
<1>2. x.retired = k[s].retired
  BY <1>1 DEF Udp!Socket
<1>3. x.pending = k[s].pending
  BY <1>1 DEF Udp!Socket
<1>4. x \in Udp!Socket
  <2>1. ASSUME NEW v \in {"free", "open", "closing", "closed"}, NEW m \in Int
        PROVE  [k[s] EXCEPT !.st = v, !.left = m] \in Udp!Socket
    BY <1>1 DEF Udp!Socket
  <2>2. n \in Int
    OBVIOUS
  <2> QED  BY <2>1, <2>2, Zenon
<1>5. y = [k EXCEPT ![s] = x]
  BY DEF Endpoint
<1> HIDE DEF x, y
<1>6. y \in [Udp!Sock -> Udp!Socket] /\ y[s] = x /\ \A r \in Udp!Sock : r # s => y[r] = k[r]
  BY <1>4, <1>5
<1> QED  BY <1>2, <1>3, <1>6 DEF y

LEMMA PoolOpenedKeeps ==
  ASSUME PoolInv, NEW q \in Query, Udp!Opened(q)
  PROVE  PoolInv'
<1>1. PoolTasks /\ PoolNet /\ PoolOthers /\ Filling /\ Watched /\ Seated /\ InLine(q) /\ Settled(q)
  BY DEF PoolInv, PoolTypes
<1>2. pcU[q] = "fill" /\ UNCHANGED <<stray, target, closed, callsU>>
  BY DEF Udp!Opened
<1>3. lockqU # <<>> /\ Head(lockqU) = q /\ socks \subseteq fill
  BY <1>1, <1>2 DEF InLine
<1>4. PICK s \in Udp!Sock, n \in Life :
        LET y == [sk EXCEPT ![s].st = "open", ![s].left = n]
            f == fill \cup {s}
        IN IF Udp!Cardinality(f) = Size
           THEN Udp!Pick(q, y, f) /\ fill' = {} /\ lockqU' = Udp!Released(q)
           ELSE sk' = y /\ fill' = f /\ UNCHANGED <<Udp!task, wire, socks, lockqU>>
  BY DEF Udp!Opened
<1> DEFINE y == Endpoint(sk, s, n)
           f == fill \cup {s}
<1>5. /\ y \in [Udp!Sock -> Udp!Socket]
      /\ \A r \in Udp!Sock : y[r].pending = sk[r].pending /\ y[r].retired = sk[r].retired
      /\ \A r \in Udp!Sock : r # s => y[r] = sk[r]
  <2>1. n \in Nat /\ sk \in [Udp!Sock -> Udp!Socket]
    BY <1>1, Words DEF PoolNet
  <2> QED  BY <2>1, EndpointFacts
<1>6. f \subseteq Udp!Sock /\ fill \subseteq f /\ s \in f /\ socks \subseteq f
  BY <1>1, <1>3 DEF PoolOthers
<1>7. \A r \in Udp!Sock \ stray : y[r].st = "open" =>
        r \in f \/ (y[r].retired = TRUE /\ Carried(r))
  BY <1>1, <1>3, <1>5, <1>6 DEF Watched
<1>8. Cardinality(f) <= Cardinality(fill) + 1 /\ Cardinality(fill) \in Nat /\ Cardinality(f) \in Nat
  <2>1. IsFiniteSet(fill) /\ Cardinality(fill) \in Nat
    BY <1>1, SocketsFinite DEF PoolOthers
  <2>2. Cardinality(f) = IF s \in fill THEN Cardinality(fill) ELSE Cardinality(fill) + 1
    BY <2>1, FS_AddElement
  <2> QED  BY <2>1, <2>2
<1>9. \/ Cardinality(f) = Size /\ Udp!Pick(q, y, f) /\ fill' = {} /\ lockqU' = Udp!Released(q)
      \/ /\ Cardinality(f) # Size /\ sk' = y /\ fill' = f
         /\ UNCHANGED <<pcU, sent, futU, outU, own, evicted, wire, socks, lockqU>>
  BY <1>4, SameCardinality DEF Udp!task, Endpoint
<1> HIDE DEF y, f
<1>10. CASE Udp!Pick(q, y, f) /\ fill' = {} /\ lockqU' = Udp!Released(q)
  <2>1. lockqU' \in Seq(Query) /\ InOrder(lockqU, lockqU', q)
    BY <1>1, <1>10, ReleasedLine DEF PoolOthers
  <2>2. \A r \in Udp!Sock : y[r].pending = sk[r].pending
    BY <1>5
  <2>3. \A r \in Udp!Sock \ stray : y[r].st = "open" =>
          r \in f \cup fill' \/ (y[r].retired = TRUE /\ Carried(r))
    BY <1>7
  <2>4. y \in [Udp!Sock -> Udp!Socket] /\ f \in SUBSET Udp!Sock /\ callsU' \in 0 .. MaxUdpCalls
        /\ target' \in 1 .. Size
    BY <1>1, <1>2, <1>5, <1>6 DEF PoolOthers
  <2>5. fill' \subseteq Udp!Sock /\ Cardinality(fill') < Size /\ pcU[q] # "wait"
    BY <1>2, <1>10, FS_EmptySet, Words
  <2>6. fill' # {} => \E p \in Query \ {q} : pcU[p] = "fill"
    BY <1>10
  <2> QED  BY <1>2, <1>3, <1>10, <2>1, <2>2, <2>3, <2>4, <2>5, <2>6, PickKeeps
<1>11. CASE /\ Cardinality(f) # Size /\ sk' = y /\ fill' = f
            /\ UNCHANGED <<pcU, sent, futU, outU, own, evicted, wire, socks, lockqU>>
  <2>1. PoolTypes'
    BY <1>1, <1>2, <1>5, <1>6, <1>11 DEF PoolTypes, PoolTasks, PoolNet, PoolOthers
  <2>2. Seated'
    BY <1>1, <1>5, <1>11 DEF Seated
  <2>3. Filling'
    BY <1>1, <1>2, <1>8, <1>11, Words DEF Filling
  <2>4. Watched'
    BY <1>2, <1>7, <1>11 DEF Watched, Carried
  <2>5. ASSUME NEW p \in Query PROVE (Settled(p) /\ HasSlot(p) /\ Judged(p) /\ InLine(p))'
    <3>1. Settled(p) /\ HasSlot(p) /\ Judged(p) /\ InLine(p)
      BY DEF PoolInv
    <3>2. Settled(p)' /\ Judged(p)'
      BY <1>11, <3>1 DEF Settled, Judged
    <3>3. InLine(p)'
      BY <1>3, <1>6, <1>11, <3>1 DEF InLine
    <3>4. pcU[p] = "wait" => sent[p].sock \in Udp!Sock
      BY <1>1, <3>1 DEF Settled, PoolTasks, Seat
    <3>5. HasSlot(p)'
      BY <1>5, <1>11, <3>1, <3>4 DEF HasSlot
    <3> QED  BY <3>2, <3>3, <3>5
  <2> QED  BY <2>1, <2>2, <2>3, <2>4, <2>5 DEF PoolInv
<1> QED  BY <1>9, <1>10, <1>11

LEMMA PoolNext == PoolInv /\ [Udp!Next]_(Udp!vars) => PoolInv'
<1> SUFFICES ASSUME PoolInv, [Udp!Next]_(Udp!vars) PROVE PoolInv'
  OBVIOUS
<1>1. CASE UNCHANGED Udp!vars
  <2>1. UNCHANGED <<pcU, sent, futU, outU, own, evicted, sk, wire, socks, fill, stray, target,
                    lockqU, closed, callsU>>
    BY <1>1 DEF Udp!vars, Udp!task, Udp!pool
  <2>2. PoolTypes'
    BY <2>1 DEF PoolInv, PoolTypes, PoolTasks, PoolNet, PoolOthers
  <2>3. Seated' /\ Filling' /\ Watched'
    BY <2>1 DEF PoolInv, Seated, Filling, Watched, Carried
  <2>4. \A q \in Query : (Settled(q) /\ HasSlot(q) /\ Judged(q) /\ InLine(q))'
    BY <2>1 DEF PoolInv, Settled, HasSlot, Judged, InLine
  <2> QED  BY <2>2, <2>3, <2>4 DEF PoolInv
<1>2. ASSUME NEW q \in Query, Udp!Start(q) \/ Udp!Step(q) \/ Udp!Cancel(q) PROVE PoolInv'
  BY <1>2, PoolStartKeeps, PoolLockedKeeps, PoolOpenedKeeps, PoolOpenFailsKeeps,
     PoolAnsweredKeeps, PoolTimeoutKeeps, PoolCancelKeeps DEF Udp!Step
<1>3. ASSUME NEW s \in Udp!Sock, Udp!Receive(s) \/ Udp!IcmpError(s) \/ Udp!ConnectionLost(s)
      PROVE  PoolInv'
  BY <1>3, PoolReceiveKeeps, IcmpErrorKeeps, ConnectionLostKeeps
<1> QED  BY <1>1, <1>2, <1>3, PoolCloseKeeps DEF Udp!Next

-----------------------------------------------------------------------------
(* Both transports.                                                        *)
LEMMA BothInit == MCInit => StreamInv /\ PoolInv
BY StreamInit, PoolInit DEF MCInit

LEMMA BothNext ==
  StreamInv /\ PoolInv /\ [MCNext]_<<part, vars, pool>> => StreamInv' /\ PoolInv'
<1> SUFFICES ASSUME StreamInv, PoolInv, [MCNext]_<<part, vars, pool>>
             PROVE  StreamInv' /\ PoolInv'
  OBVIOUS
<1>1. [Next]_vars
  BY DEF MCNext, StreamMoves, UdpMoves
<1>2. [Udp!Next]_(Udp!vars)
  BY DEF MCNext, StreamMoves, UdpMoves, pool, Udp!vars, Udp!task, Udp!pool
<1> QED  BY <1>1, <1>2, StreamNext, PoolNext

(* One connection, which every query of it uses; no reply lost to a stray  *)
(* one; no socket nothing would close (_current, _drop, UdpPool.query,     *)
(* datagram_received).                                                     *)
THEOREM TransportsSound == MCSpec => []LinksSound
<1>1. StreamInv /\ PoolInv => LinksSound
  BY StreamTypes, PoolSafe DEF StreamInv, LinksSound
<1> QED  BY <1>1, BothInit, BothNext, PTL DEF MCSpec

(* The same of a working link, whichever transport carries the queries.    *)
THEOREM WorkingLinkSafe == MCSpec => WorkingLinkKept
<1>1. StreamInv /\ [MCNext]_<<part, vars, pool>> => [\A l \in LinkId : LinkKept(l)]_vars
  <2> SUFFICES ASSUME StreamInv, [MCNext]_<<part, vars, pool>>
               PROVE  [\A l \in LinkId : LinkKept(l)]_vars
    OBVIOUS
  <2>1. [Next]_vars
    BY DEF MCNext, StreamMoves, UdpMoves
  <2> QED  BY <2>1, LinksOutlive
<1> QED  BY <1>1, BothInit, BothNext, PTL DEF MCSpec, WorkingLinkKept

-----------------------------------------------------------------------------
(* A call of either ends as Exchange says: how each step looks to a caller.*)
View(p, r) == [asking |-> {q \in Query : p[q] \notin {"idle", "done"}}, result |-> r]

Asked(q, v, w) ==
  /\ q \notin v.asking /\ w.asking = v.asking \cup {q}
  /\ w.result = [v.result EXCEPT ![q] = None]
Given(q, v, w) ==
  /\ q \in v.asking /\ w.asking = v.asking \ {q}
  /\ \E r \in {Asks[q], "bare", "failed"} : w.result = [v.result EXCEPT ![q] = r]
Refused(q, v, w) ==
  /\ q \notin v.asking /\ w.asking = v.asking
  /\ w.result = [v.result EXCEPT ![q] = "failed"]

Turn(v, w) == w = v \/ \E q \in Query : Asked(q, v, w) \/ Given(q, v, w) \/ Refused(q, v, w)

LEMMA TurnKinds ==
  ASSUME NEW S, NEW p \in [Query -> S], NEW q \in Query, NEW x, NEW r, NEW e
  PROVE  LET v == View(p, r)
             w == View([p EXCEPT ![q] = x], [r EXCEPT ![q] = e])
         IN /\ p[q] \in {"idle", "done"} /\ x \notin {"idle", "done"} /\ e = None => Turn(v, w)
            /\ p[q] \notin {"idle", "done"} /\ x = "done" /\ e \in {Asks[q], "bare", "failed"}
                 => Turn(v, w)
            /\ p[q] \in {"idle", "done"} /\ x = "done" /\ e = "failed" => Turn(v, w)
<1> DEFINE v == View(p, r)
           w == View([p EXCEPT ![q] = x], [r EXCEPT ![q] = e])
<1>1. /\ v.asking = {y \in Query : p[y] \notin {"idle", "done"}} /\ v.result = r
      /\ w.asking = {y \in Query : [p EXCEPT ![q] = x][y] \notin {"idle", "done"}}
      /\ w.result = [r EXCEPT ![q] = e]
  BY DEF View
<1>2. \A y \in Query : [p EXCEPT ![q] = x][y] = IF y = q THEN x ELSE p[y]
  OBVIOUS
<1> HIDE DEF v, w
<1>3. p[q] \in {"idle", "done"} /\ x \notin {"idle", "done"} /\ e = None => Asked(q, v, w)
  <2> SUFFICES ASSUME p[q] \in {"idle", "done"}, x \notin {"idle", "done"}, e = None
               PROVE  Asked(q, v, w)
    OBVIOUS
  <2>1. w.asking = v.asking \cup {q}
    BY <1>1, <1>2
  <2> QED  BY <1>1, <2>1 DEF Asked
<1>4. p[q] \notin {"idle", "done"} /\ x = "done" /\ e \in {Asks[q], "bare", "failed"}
        => Given(q, v, w)
  <2> SUFFICES ASSUME p[q] \notin {"idle", "done"}, x = "done", e \in {Asks[q], "bare", "failed"}
               PROVE  Given(q, v, w)
    OBVIOUS
  <2>1. w.asking = v.asking \ {q}
    BY <1>1, <1>2
  <2> QED  BY <1>1, <2>1 DEF Given
<1>5. p[q] \in {"idle", "done"} /\ x = "done" /\ e = "failed" => Refused(q, v, w)
  <2> SUFFICES ASSUME p[q] \in {"idle", "done"}, x = "done", e = "failed"
               PROVE  Refused(q, v, w)
    OBVIOUS
  <2>1. w.asking = v.asking
    BY <1>1, <1>2
  <2> QED  BY <1>1, <2>1 DEF Refused
<1> QED  BY <1>3, <1>4, <1>5, Zenon DEF Turn, v, w

LEMMA TurnQuiet ==
  ASSUME NEW S, NEW p \in [Query -> S], NEW q \in Query, NEW x, NEW r
  PROVE  p[q] \notin {"idle", "done"} /\ x \notin {"idle", "done"}
           => Turn(View(p, r), View([p EXCEPT ![q] = x], r))
<1> SUFFICES ASSUME p[q] \notin {"idle", "done"}, x \notin {"idle", "done"}
             PROVE  View([p EXCEPT ![q] = x], r) = View(p, r)
  BY DEF Turn
<1>1. \A y \in Query : [p EXCEPT ![q] = x][y] = IF y = q THEN x ELSE p[y]
  OBVIOUS
<1>2. {y \in Query : [p EXCEPT ![q] = x][y] \notin {"idle", "done"}}
      = {y \in Query : p[y] \notin {"idle", "done"}}
  BY <1>1
<1> QED  BY <1>2 DEF View

(* The results a caller sees.                                              *)
StreamResult == [q \in Query |-> IF out[q] \in Question \cup {None} THEN out[q] ELSE "failed"]
PoolResult == [q \in Query |-> IF outU[q] \in Udp!Reply \cup {None} THEN outU[q] ELSE "failed"]

LEMMA StreamResultSet ==
  ASSUME StreamInv, NEW q \in Query, NEW r, out' = [out EXCEPT ![q] = r]
  PROVE  StreamResult' = [StreamResult EXCEPT ![q] =
           IF r \in Question \cup {None} THEN r ELSE "failed"]
BY DEF StreamInv, Types, TaskTypes, StreamResult

LEMMA PoolResultSet ==
  ASSUME PoolInv, NEW q \in Query, NEW r, outU' = [outU EXCEPT ![q] = r]
  PROVE  PoolResult' = [PoolResult EXCEPT ![q] =
           IF r \in Udp!Reply \cup {None} THEN r ELSE "failed"]
BY DEF PoolInv, PoolTypes, PoolTasks, PoolResult

(* Every step of Stream is one of these, for one query or for none.        *)
StreamAsked(q) ==
  /\ pc[q] \in {"idle", "done"}
  /\ \E x \in Phase \ {"idle", "done"} : pc' = [pc EXCEPT ![q] = x]
  /\ out' = [out EXCEPT ![q] = None]
StreamGiven(q) ==
  /\ pc[q] \notin {"idle", "done"}
  /\ pc' = [pc EXCEPT ![q] = "done"]
  /\ \E r \in {Asks[q], Failed, Cancelled} : out' = [out EXCEPT ![q] = r]
StreamGoesOn(q) ==
  /\ pc[q] \notin {"idle", "done"}
  /\ \E x \in Phase \ {"idle", "done"} : pc' = [pc EXCEPT ![q] = x]
  /\ out' = out \/ out' = [out EXCEPT ![q] = None]

LEMMA StreamViews ==
  /\ StreamCaller = View(pc, StreamResult)
  /\ StreamCaller' = View(pc', StreamResult')
BY DEF StreamCaller, View, StreamResult

LEMMA StreamShapes ==
  ASSUME StreamInv, NEW q \in Query,
         StreamAsked(q) \/ StreamGiven(q) \/ StreamGoesOn(q)
  PROVE  Turn(StreamCaller, StreamCaller')
<1>1. pc \in [Query -> Phase] /\ Asks[q] \in Question
  BY StreamAssumption DEF StreamInv, Types, TaskTypes
<1>2. CASE StreamAsked(q)
  <2>1. PICK x \in Phase \ {"idle", "done"} : pc' = [pc EXCEPT ![q] = x]
    BY <1>2 DEF StreamAsked
  <2>2. StreamResult' = [StreamResult EXCEPT ![q] = None]
    BY <1>2, StreamResultSet DEF StreamAsked
  <2>3. pc[q] \in {"idle", "done"} /\ x \notin {"idle", "done"}
    BY <1>2 DEF StreamAsked
  <2> QED  BY <1>1, <2>1, <2>2, <2>3, TurnKinds, StreamViews
<1>3. CASE StreamGiven(q)
  <2>1. PICK r \in {Asks[q], Failed, Cancelled} : out' = [out EXCEPT ![q] = r]
    BY <1>3 DEF StreamGiven
  <2> DEFINE e == IF r \in Question \cup {None} THEN r ELSE "failed"
  <2>2. StreamResult' = [StreamResult EXCEPT ![q] = e]
    BY <2>1, StreamResultSet
  <2>3. e \in {Asks[q], "bare", "failed"}
    BY <1>1, Nones
  <2>4. pc[q] \notin {"idle", "done"} /\ pc' = [pc EXCEPT ![q] = "done"]
    BY <1>3 DEF StreamGiven
  <2> HIDE DEF e
  <2> QED  BY <1>1, <2>2, <2>3, <2>4, TurnKinds, StreamViews
<1>4. CASE StreamGoesOn(q)
  <2>1. PICK x \in Phase \ {"idle", "done"} : pc' = [pc EXCEPT ![q] = x]
    BY <1>4 DEF StreamGoesOn
  <2>2. pc[q] \notin {"idle", "done"} /\ x \notin {"idle", "done"}
    BY <1>4 DEF StreamGoesOn
  <2>3. out' = out
    <3>1. out[q] = None /\ out \in [Query -> Question \cup {None, Failed, Cancelled}]
      BY <2>2 DEF StreamInv, Placed, Types, TaskTypes
    <3> QED  BY <1>4, <3>1 DEF StreamGoesOn
  <2>4. StreamResult' = StreamResult
    BY <2>3 DEF StreamResult
  <2> QED  BY <1>1, <2>1, <2>2, <2>4, TurnQuiet, StreamViews
<1> QED  BY <1>2, <1>3, <1>4

LEMMA StreamTurns ==
  ASSUME StreamInv, [Next]_vars
  PROVE  Turn(StreamCaller, StreamCaller')
<1>1. CASE pc' = pc /\ out' = out
  BY <1>1 DEF Turn, StreamCaller
<1>2. ASSUME NEW q \in Query, Start(q) PROVE StreamAsked(q)
  BY <1>2 DEF Start, Enter, StreamAsked, Phase
<1>3. ASSUME NEW q \in Query, NEW l, NEW k, Send(q, l, k), pc[q] \notin {"idle", "done"}
      PROVE  StreamGiven(q) \/ StreamGoesOn(q)
  BY <1>3 DEF Send, Return, StreamGiven, StreamGoesOn, Phase
<1>4. ASSUME NEW q \in Query, Again(q), pc[q] \notin {"idle", "done"}
      PROVE  StreamGiven(q) \/ StreamGoesOn(q)
  BY <1>4 DEF Again, Raise, Enter, Return, StreamGiven, StreamGoesOn, Phase
<1>5. ASSUME NEW q \in Query, NEW r \in {Asks[q], Failed, Cancelled}, Return(q, r),
             pc[q] \notin {"idle", "done"}
      PROVE  StreamGiven(q)
  BY <1>5 DEF Return, StreamGiven
<1>6. ASSUME NEW q \in Query, NEW then \in {"drop", "droptimeout"}, Drop(q, then),
             pc[q] \notin {"idle", "done"}
      PROVE  StreamGoesOn(q)
  BY <1>6 DEF Drop, StreamGoesOn, Phase
<1>7. ASSUME NEW q \in Query, Step(q) PROVE StreamGiven(q) \/ StreamGoesOn(q)
  <2>1. CASE Reuse(q)
    BY <1>3, <2>1 DEF Reuse, AtLock
  <2>2. CASE Open(q)
    BY <2>2 DEF Open, AtLock, StreamGoesOn, Phase
  <2>3. CASE Connected(q)
    BY <1>3, <2>3 DEF Connected
  <2>4. CASE ConnectFails(q)
    BY <1>5, <2>4 DEF ConnectFails, StreamGoesOn, Phase
  <2>5. CASE ConnectTimesOut(q)
    BY <1>5, <2>5 DEF ConnectTimesOut
  <2>6. CASE Answered(q)
    BY <1>5, <2>6 DEF Answered, CheckResponse
  <2>7. CASE LinkLost(q)
    BY <1>6, <2>7 DEF LinkLost
  <2>8. CASE Timeout(q)
    BY <1>5, <1>6, <2>8 DEF Timeout
  <2>9. CASE AfterDrop(q)
    BY <1>4, <1>5, <2>9 DEF AfterDrop, Raise
  <2> QED  BY <1>7, <2>1, <2>2, <2>3, <2>4, <2>5, <2>6, <2>7, <2>8, <2>9 DEF Step
<1>8. ASSUME NEW q \in Query, Cancel(q) PROVE StreamGiven(q)
  BY <1>5, <1>8 DEF Cancel
<1>9. ASSUME (\E l \in LinkId : Receive(l) \/ PeerDrops(l)) \/ CloseBegin \/ CloseEnd
             \/ UNCHANGED vars
      PROVE  pc' = pc /\ out' = out
  BY <1>9 DEF Receive, PeerDrops, CloseBegin, CloseEnd, task, vars
<1> QED  BY <1>1, <1>2, <1>7, <1>8, <1>9, StreamShapes DEF Next

(* And of UdpPool, whose call may also end before its first await.         *)
PoolAsked(q) ==
  /\ pcU[q] \in {"idle", "done"}
  /\ \E x \in PoolPhase \ {"idle", "done"} : pcU' = [pcU EXCEPT ![q] = x]
  /\ outU' = [outU EXCEPT ![q] = None]
PoolRefused(q) ==
  /\ pcU[q] \in {"idle", "done"}
  /\ pcU' = [pcU EXCEPT ![q] = "done"]
  /\ outU' = [outU EXCEPT ![q] = "failed"]
PoolGiven(q) ==
  /\ pcU[q] \notin {"idle", "done"}
  /\ pcU' = [pcU EXCEPT ![q] = "done"]
  /\ \E r \in {Asks[q], Udp!Bare, "mismatch", "failed"} : outU' = [outU EXCEPT ![q] = r]
PoolGoesOn(q) ==
  /\ pcU[q] \notin {"idle", "done"}
  /\ \E x \in PoolPhase \ {"idle", "done"} : pcU' = [pcU EXCEPT ![q] = x]
  /\ outU' = outU \/ outU' = [outU EXCEPT ![q] = None]

LEMMA PoolViews ==
  /\ Udp!Caller = View(pcU, PoolResult)
  /\ Udp!Caller' = View(pcU', PoolResult')
BY DEF Udp!Caller, View, PoolResult

LEMMA PoolShapes ==
  ASSUME PoolInv, NEW q \in Query,
         PoolAsked(q) \/ PoolRefused(q) \/ PoolGiven(q) \/ PoolGoesOn(q)
  PROVE  Turn(Udp!Caller, Udp!Caller')
<1>1. pcU \in [Query -> PoolPhase] /\ Asks[q] \in Question
  BY Words DEF PoolInv, PoolTypes, PoolTasks
<1>2. CASE PoolAsked(q)
  <2>1. PICK x \in PoolPhase \ {"idle", "done"} : pcU' = [pcU EXCEPT ![q] = x]
    BY <1>2 DEF PoolAsked
  <2>2. PoolResult' = [PoolResult EXCEPT ![q] = None]
    BY <1>2, PoolResultSet DEF PoolAsked
  <2>3. pcU[q] \in {"idle", "done"} /\ x \notin {"idle", "done"}
    BY <1>2 DEF PoolAsked
  <2> QED  BY <1>1, <2>1, <2>2, <2>3, TurnKinds, PoolViews
<1>3. CASE PoolRefused(q)
  <2>1. PoolResult' = [PoolResult EXCEPT ![q] = "failed"]
    BY <1>3, PoolResultSet DEF PoolRefused
  <2>2. pcU[q] \in {"idle", "done"} /\ pcU' = [pcU EXCEPT ![q] = "done"]
    BY <1>3 DEF PoolRefused
  <2> QED  BY <1>1, <2>1, <2>2, TurnKinds, PoolViews
<1>4. CASE PoolGiven(q)
  <2>1. PICK r \in {Asks[q], Udp!Bare, "mismatch", "failed"} : outU' = [outU EXCEPT ![q] = r]
    BY <1>4 DEF PoolGiven
  <2> DEFINE e == IF r \in Udp!Reply \cup {None} THEN r ELSE "failed"
  <2>2. PoolResult' = [PoolResult EXCEPT ![q] = e]
    BY <2>1, PoolResultSet
  <2>3. e \in {Asks[q], "bare", "failed"}
    BY <1>1, Words DEF Udp!Reply, Udp!Bare
  <2>4. pcU[q] \notin {"idle", "done"} /\ pcU' = [pcU EXCEPT ![q] = "done"]
    BY <1>4 DEF PoolGiven
  <2> HIDE DEF e
  <2> QED  BY <1>1, <2>2, <2>3, <2>4, TurnKinds, PoolViews
<1>5. CASE PoolGoesOn(q)
  <2>1. PICK x \in PoolPhase \ {"idle", "done"} : pcU' = [pcU EXCEPT ![q] = x]
    BY <1>5 DEF PoolGoesOn
  <2>2. pcU[q] \notin {"idle", "done"} /\ x \notin {"idle", "done"}
    BY <1>5 DEF PoolGoesOn
  <2>3. outU' = outU
    <3>1. outU[q] = None /\ outU \in [Query -> Udp!Reply \cup {None, "mismatch", "failed"}]
      BY <2>2 DEF PoolInv, Settled, PoolTypes, PoolTasks
    <3> QED  BY <1>5, <3>1 DEF PoolGoesOn
  <2>4. PoolResult' = PoolResult
    BY <2>3 DEF PoolResult
  <2> QED  BY <1>1, <2>1, <2>2, <2>4, TurnQuiet, PoolViews
<1> QED  BY <1>2, <1>3, <1>4, <1>5

LEMMA PoolTurns ==
  ASSUME PoolInv, [Udp!Next]_(Udp!vars)
  PROVE  Turn(Udp!Caller, Udp!Caller')
<1>1. CASE pcU' = pcU /\ outU' = outU
  BY <1>1 DEF Turn, Udp!Caller
<1>2. ASSUME NEW q \in Query, NEW k, NEW S, Udp!Pick(q, k, S)
      PROVE  /\ pcU[q] \in {"idle", "done"} => PoolRefused(q) \/ PoolAsked(q)
             /\ pcU[q] \notin {"idle", "done"} => PoolGiven(q) \/ PoolGoesOn(q)
  <2>1. \/ Udp!Return(q, "failed")
        \/ \E s, t : Udp!Register(q, k, s, t)
    BY <1>2 DEF Udp!Pick
  <2>2. \/ pcU' = [pcU EXCEPT ![q] = "done"] /\ outU' = [outU EXCEPT ![q] = "failed"]
        \/ pcU' = [pcU EXCEPT ![q] = "wait"] /\ outU' = [outU EXCEPT ![q] = None]
    BY <2>1 DEF Udp!Return, Udp!Register
  <2> QED  BY <2>2 DEF PoolRefused, PoolAsked, PoolGiven, PoolGoesOn, PoolPhase
<1>3. ASSUME NEW q \in Query, Udp!Start(q) PROVE PoolRefused(q) \/ PoolAsked(q)
  <2>1. \/ Udp!Pick(q, sk, socks)
        \/ pcU' = [pcU EXCEPT ![q] = "lock"] /\ outU' = [outU EXCEPT ![q] = None]
    BY <1>3 DEF Udp!Start
  <2>2. pcU[q] \in {"idle", "done"}
    BY <1>3 DEF Udp!Start
  <2> QED  BY <1>2, <2>1, <2>2 DEF PoolAsked, PoolPhase
<1>4. ASSUME NEW q \in Query, NEW r \in {Asks[q], Udp!Bare, "mismatch", "failed"},
             Udp!Return(q, r), pcU[q] \notin {"idle", "done"}
      PROVE  PoolGiven(q)
  BY <1>4 DEF Udp!Return, PoolGiven
<1>5. ASSUME NEW q \in Query, NEW r
      PROVE  Udp!Checked(q, r) \in {Asks[q], Udp!Bare, "mismatch"}
  BY DEF Udp!Checked
<1>6. ASSUME NEW q \in Query, Udp!Step(q) PROVE PoolGiven(q) \/ PoolGoesOn(q)
  <2>1. CASE Udp!Locked(q)
    <3>1. \/ Udp!Pick(q, sk, socks)
          \/ pcU' = [pcU EXCEPT ![q] = "fill"] /\ outU' = outU
      BY <2>1 DEF Udp!Locked
    <3>2. pcU[q] \notin {"idle", "done"}
      BY <2>1 DEF Udp!Locked
    <3> QED  BY <1>2, <3>1, <3>2 DEF PoolGoesOn, PoolPhase
  <2>2. CASE Udp!Opened(q)
    <3>1. \/ \E k, S : Udp!Pick(q, k, S)
          \/ pcU' = pcU /\ outU' = outU
      BY <2>2 DEF Udp!Opened, Udp!task
    <3>2. pcU[q] = "fill"
      BY <2>2 DEF Udp!Opened
    <3>3. pcU = [pcU EXCEPT ![q] = "fill"]
      BY <3>2 DEF PoolInv, PoolTypes, PoolTasks
    <3> QED  BY <1>2, <3>1, <3>2, <3>3 DEF PoolGoesOn, PoolPhase
  <2>3. CASE Udp!OpenFails(q)
    <3>1. Udp!Return(q, "failed") \/ Udp!Pick(q, sk, fill)
      BY <2>3 DEF Udp!OpenFails
    <3>2. pcU[q] \notin {"idle", "done"}
      BY <2>3 DEF Udp!OpenFails
    <3> QED  BY <1>2, <1>4, <3>1, <3>2
  <2>4. CASE Udp!Answered(q)
    BY <1>4, <1>5, <2>4 DEF Udp!Answered
  <2>5. CASE Udp!Timeout(q)
    BY <1>4, <1>5, <2>5 DEF Udp!Timeout
  <2> QED  BY <1>6, <2>1, <2>2, <2>3, <2>4, <2>5 DEF Udp!Step
<1>7. ASSUME NEW q \in Query, Udp!Cancel(q) PROVE PoolGiven(q)
  BY <1>4, <1>7 DEF Udp!Cancel
<1>8. ASSUME (\E s \in Udp!Sock : Udp!Receive(s) \/ Udp!IcmpError(s) \/ Udp!ConnectionLost(s))
             \/ Udp!Close \/ UNCHANGED Udp!vars
      PROVE  pcU' = pcU /\ outU' = outU
  BY <1>8 DEF Udp!Receive, Udp!IcmpError, Udp!ConnectionLost, Udp!Close, Udp!task, Udp!vars
<1> QED  BY <1>1, <1>3, <1>6, <1>7, <1>8, PoolShapes DEF Udp!Next

LEMMA PromiseInit == MCInit => Promise!Init
<1> SUFFICES ASSUME MCInit PROVE Promise!Init
  OBVIOUS
<1>1. /\ pc = [q \in Query |-> "idle"] /\ out = [q \in Query |-> None]
      /\ pcU = [q \in Query |-> "idle"] /\ outU = [q \in Query |-> None]
  BY DEF MCInit, Init, Udp!Init
<1>2. StreamCaller.asking = {} /\ StreamCaller.result = [q \in Query |-> None]
  BY <1>1 DEF StreamCaller
<1>3. Udp!Caller.asking = {} /\ Udp!Caller.result = [q \in Query |-> None]
  BY <1>1 DEF Udp!Caller
<1> QED  BY <1>2, <1>3 DEF Promise!Init, Caller

LEMMA PromiseNext ==
  ASSUME StreamInv, PoolInv, [MCNext]_<<part, vars, pool>>
  PROVE  [Promise!Next]_(Promise!vars)
<1>1. [Next]_vars
  BY DEF MCNext, StreamMoves, UdpMoves
<1>2. [Udp!Next]_(Udp!vars)
  BY DEF MCNext, StreamMoves, UdpMoves, pool, Udp!vars, Udp!task, Udp!pool
<1>3. part' = part
  BY DEF MCNext, StreamMoves, UdpMoves
<1>4. Turn(Caller, Caller')
  <2>1. Turn(StreamCaller, StreamCaller') /\ Turn(Udp!Caller, Udp!Caller')
    BY <1>1, <1>2, StreamTurns, PoolTurns
  <2>2. \/ Caller = Udp!Caller /\ Caller' = Udp!Caller'
        \/ Caller = StreamCaller /\ Caller' = StreamCaller'
    BY <1>3 DEF Caller
  <2> QED  BY <2>1, <2>2
<1>5. CASE Caller' = Caller
  BY <1>5 DEF Promise!vars
<1>6. ASSUME NEW q \in Query, Asked(q, Caller, Caller') \/ Given(q, Caller, Caller')
                              \/ Refused(q, Caller, Caller')
      PROVE  Promise!Next
  <2>1. Promise!Ask(q) \/ Promise!Return(q) \/ Promise!Refuse(q)
    BY <1>6 DEF Asked, Given, Refused, Promise!Ask, Promise!Return, Promise!Refuse
  <2> QED  BY <2>1 DEF Promise!Next
<1> QED  BY <1>4, <1>5, <1>6 DEF Turn

(* Either transport implements the safety part of Exchange: every step of  *)
(* a connection or of a pool, seen from the callers of Upstream.query, is  *)
(* a call that begins, a call that ends with the answer to its own         *)
(* question, an error reply or an exception, or nothing at all.            *)
THEOREM CallsEndAsPromised == MCSpec => Promise!Steps
<1>1. StreamInv /\ PoolInv /\ [MCNext]_<<part, vars, pool>> => [Promise!Next]_(Promise!vars)
  BY PromiseNext
<1> QED  BY <1>1, BothInit, BothNext, PromiseInit, PTL DEF MCSpec, Promise!Steps
=============================================================================
