------------------------------ MODULE ZoneSync ------------------------------
(***************************************************************************)
(* A zone and its mirror: signed dynamic updates at the primary, the       *)
(* journal and the transfers made from it, NOTIFY rounds, and the refresh  *)
(* loop of a secondary.                                                    *)
(*                                                                         *)
(* Source: trench/auth_zone/{update,xfr,xfr_service,secondary,handler,     *)
(* tsig}.py.  A record is a model value; the apex SOA is its serial and    *)
(* the apex NS is Ns, which no update removes.  Every handler of the       *)
(* primary is synchronous, so a transfer is of one state of the zone.  The *)
(* network (external) delivers a signed update any number of times and in  *)
(* any order, loses NOTIFYs and breaks transfers.                          *)
(***************************************************************************)
EXTENDS Naturals, Sequences, FiniteSets, SequencesExt

CONSTANTS
  Order,         \* the records, in the order a transfer sends them
  Ns,            \* the apex NS, one of them
  Signed,        \* Zone.signed
  Modulus,       \* serials are modulo this (2^32 in the code)
  FirstSerial,
  MaxJournal, PerMsg,
  Fudge,         \* how far from our clock a signature may be
  Messages,      \* the updates: name -> [pre, ops, time]
  MaxTime, MaxFaults,   \* bounds
  None

VARIABLES
  now,
  serial, recs, journal,   \* the primary's Zone
  seen,                    \* ReplayWindow._seen: [msg, time]
  high,                    \* ReplayWindow._high
  applied,                 \* how often each message took effect
  hist,                    \* serial -> the zone's records then
  rounds,                  \* AuthHandler._notifying: "none", "sending", or "ended" with the callback to come
  again,                   \* AuthHandler._notify_again
  mirror,                  \* SecondaryZone.zone: [serial, recs] or None
  wake,                    \* SecondaryZone._wake
  xfer,                    \* transfer_records: [got, rest] or None
  faults

primary == <<serial, recs, journal, hist>>
window == <<seen, high, applied>>
notes == <<rounds, again>>
second == <<mirror, wake, xfer>>
vars == <<now, primary, window, notes, second, faults>>

Init ==
  /\ now = 0
  /\ serial = FirstSerial /\ recs = {Ns} /\ journal = <<>>
  /\ hist = [s \in 0 .. Modulus - 1 |-> IF s = FirstSerial THEN {Ns} ELSE {}]
  /\ seen = {} /\ high = 0 /\ applied = [m \in DOMAIN Messages |-> 0]
  /\ rounds = "none" /\ again = FALSE
  /\ mirror = None /\ wake = FALSE /\ xfer = None
  /\ faults = 0

-----------------------------------------------------------------------------
(* RFC 2136: prerequisites, then the changes in order, then the serial and *)
(* the journal.                                                            *)

CheckPrerequisites(pre) == \A p \in pre : (p.rec \in recs) = p.there

(* _apply_one.  The accumulator keeps what was really deleted and added.   *)
ApplyOne(z, op) ==
  LET gone == CASE op.do = "clear" -> z.recs \ {Ns}
                [] op.do = "del" -> z.recs \cap ({op.rec} \ {Ns})
                [] OTHER -> {}
      new == IF op.do = "add" THEN {op.rec} \ z.recs ELSE {}
  IN [recs |-> (z.recs \ gone) \cup new, del |-> z.del \cup gone, add |-> z.add \cup new]

Trimmed(j) == IF Len(j) > MaxJournal THEN SubSeq(j, Len(j) - MaxJournal + 1, Len(j)) ELSE j

ScheduleNotify ==
  IF rounds = "none" THEN rounds' = "sending" /\ UNCHANGED again
  ELSE again' = TRUE /\ UNCHANGED rounds

ApplyUpdate(u) ==
  LET z == FoldLeft(ApplyOne, [recs |-> recs, del |-> {}, add |-> {}], u.ops)
      next == (serial + 1) % Modulus
  IN IF ~CheckPrerequisites(u.pre) THEN UNCHANGED <<primary, notes>>
     ELSE IF z.del = {} /\ z.add = {} THEN UNCHANGED primary /\ ScheduleNotify
     ELSE /\ recs' = z.recs
          /\ serial' = next
          /\ journal' = Trimmed(Append(journal, [from |-> serial, to |-> next, del |-> z.del, add |-> z.add]))
          /\ hist' = [hist EXCEPT ![next] = z.recs]
          /\ ScheduleNotify

(* verify_wire and ReplayWindow.check.                                     *)
InWindow(t) == t <= now + Fudge /\ now <= t + Fudge
Kept(m) == {x \in seen : x.time + Fudge >= now}

Update(m) ==
  LET u == Messages[m]
      stale == high > u.time + Fudge
  IN /\ u.time <= now
     /\ IF ~InWindow(u.time) \/ stale \/ (\E x \in Kept(m) : x.msg = m)
        THEN UNCHANGED <<primary, window, notes>>
        ELSE /\ seen' = Kept(m) \cup {[msg |-> m, time |-> u.time]}
             /\ high' = IF u.time > high THEN u.time ELSE high
             /\ applied' = [applied EXCEPT ![m] = @ + 1]
             /\ ApplyUpdate(u)
     /\ UNCHANGED <<now, second, faults>>

Tick == now < MaxTime /\ now' = now + 1 /\ UNCHANGED <<primary, window, notes, second, faults>>

-----------------------------------------------------------------------------
(* NOTIFY.  A round is over when every secondary has answered or has timed *)
(* out; the entry in _notifying goes with the task's callback.             *)

RoundEnds(delivered) ==
  /\ rounds = "sending"
  /\ delivered \/ faults < MaxFaults
  /\ wake' = (wake \/ delivered)
  /\ faults' = IF delivered THEN faults ELSE faults + 1
  /\ rounds' = IF again THEN "sending" ELSE "ended"
  /\ again' = FALSE
  /\ UNCHANGED <<now, primary, window, mirror, xfer>>

RoundForgotten ==
  /\ rounds = "ended"
  /\ rounds' = "none"
  /\ UNCHANGED <<now, primary, window, again, second, faults>>

-----------------------------------------------------------------------------
(* Transfers out.                                                          *)

Soa(s) == [soa |-> TRUE, serial |-> s, rec |-> None]
Rr(r) == [soa |-> FALSE, serial |-> 0, rec |-> r]
Rrs(S) == LET q == SelectSeq(Order, LAMBDA r : r \in S) IN [i \in DOMAIN q |-> Rr(q[i])]

SerialGt(a, b) == a # b /\ (a + Modulus - b) % Modulus < Modulus \div 2

AxfrRecords == <<Soa(serial)>> \o Rrs(recs) \o <<Soa(serial)>>
StepRecords(e) == <<Soa(e.from)>> \o Rrs(e.del) \o <<Soa(e.to)>> \o Rrs(e.add)
IxfrRecords(delta) ==
  <<Soa(serial)>> \o FoldLeft(LAMBDA acc, e : acc \o StepRecords(e), <<>>, delta) \o <<Soa(serial)>>

From(s) == {i \in DOMAIN journal : journal[i].from = s}
JournalDelta(s) == SubSeq(journal, CHOOSE i \in From(s) : TRUE, Len(journal))

IxfrMessages_Newest(s) ==     \* mutant: the last step whatever the client holds
  IF ~SerialGt(serial, s) THEN <<Soa(serial)>>
  ELSE IF Signed \/ journal = <<>> THEN AxfrRecords
  ELSE IxfrRecords(<<Last(journal)>>)

IxfrMessages(s) ==
  IF ~SerialGt(serial, s) THEN <<Soa(serial)>>
  ELSE IF Signed \/ From(s) = {} THEN AxfrRecords
  ELSE IxfrRecords(JournalDelta(s))

-----------------------------------------------------------------------------
(* Transfers in.                                                           *)

Opening(soas, s) == Cardinality({i \in DOMAIN soas : soas[i].soa /\ soas[i].serial = s})
IxfrComplete(got) ==
  /\ got # <<>> /\ got[1].soa
  /\ \/ Len(got) = 1
     \/ /\ Last(got).soa
        /\ Opening(got, got[1].serial) >=
             IF got[2].soa /\ got[2].serial # got[1].serial THEN 3 ELSE 2

RecsOf(got) == {got[i].rec : i \in {j \in DOMAIN got : ~got[j].soa}}

(* apply_ixfr: the SOAs after the first open sections of deletions and of  *)
(* additions in turn, and the last section that names a record decides.    *)
Deleting(got, i) == Cardinality({j \in 2 .. i : got[j].soa}) % 2 = 1
At(got, r) == {i \in DOMAIN got : got[i] = Rr(r)}
Patched(got) == {r \in Range(Order) : IF At(got, r) = {} THEN r \in mirror.recs ELSE ~Deleting(got, Max(At(got, r)))}

ApplyIxfr(got) ==
  IF Len(got) = 1 THEN mirror
  ELSE IF ~got[2].soa \/ got[2].serial = got[1].serial
  THEN [serial |-> got[1].serial, recs |-> RecsOf(got)]
  ELSE [serial |-> got[1].serial, recs |-> Patched(got)]

(* The refresh loop: a request at once, on NOTIFY, or when the SOA's timer *)
(* is up.                                                                  *)
Refresh ==
  /\ xfer = None
  /\ xfer' = [got |-> <<>>, rest |-> IF mirror = None THEN AxfrRecords ELSE IxfrMessages(mirror.serial)]
  /\ UNCHANGED <<now, primary, window, notes, mirror, wake, faults>>

(* One envelope; when it is the last, the zone is replaced and the wake    *)
(* event is cleared.                                                       *)
Envelope ==
  /\ xfer # None /\ ~IxfrComplete(xfer.got)
  /\ LET n == IF Len(xfer.rest) < PerMsg THEN Len(xfer.rest) ELSE PerMsg
         got == xfer.got \o SubSeq(xfer.rest, 1, n)
     IN IF IxfrComplete(got)
        THEN /\ mirror' = ApplyIxfr(got)
             /\ xfer' = None /\ wake' = FALSE
        ELSE /\ xfer' = [got |-> got, rest |-> SubSeq(xfer.rest, n + 1, Len(xfer.rest))]
             /\ UNCHANGED <<mirror, wake>>
  /\ UNCHANGED <<now, primary, window, notes, faults>>

(* Refused, unverifiable, out of limits or cut off: the old copy stays.    *)
TransferFails ==
  /\ xfer # None /\ faults < MaxFaults
  /\ faults' = faults + 1
  /\ xfer' = None /\ wake' = FALSE
  /\ UNCHANGED <<now, primary, window, notes, mirror>>

SecondaryRestarts ==
  /\ faults < MaxFaults
  /\ faults' = faults + 1
  /\ mirror' = None /\ xfer' = None /\ wake' = FALSE
  /\ UNCHANGED <<now, primary, window, notes>>

Next ==
  \/ \E m \in DOMAIN Messages : Update(m)
  \/ Tick
  \/ \E delivered \in BOOLEAN : RoundEnds(delivered)
  \/ RoundForgotten
  \/ Refresh \/ Envelope \/ TransferFails \/ SecondaryRestarts

Spec == Init /\ [][Next]_vars

(* The refresh timer fires and a transfer that is not cut off goes on.     *)
LiveSpec == Spec /\ WF_vars(Refresh) /\ WF_vars(Envelope) /\ WF_vars(RoundEnds(TRUE)) /\ WF_vars(RoundForgotten)

-----------------------------------------------------------------------------
(* Whatever serial the mirror carries, it holds the records the primary    *)
(* held at that serial: through deltas, full transfers, a journal that     *)
(* does not reach back, and a serial that wraps (apply_ixfr, _journal).    *)
MirrorExact == mirror # None => mirror.recs = hist[mirror.serial]

(* A signed update takes effect at most once, however often and however    *)
(* late the network delivers it (ReplayWindow).                            *)
AppliedOnce == \A m \in DOMAIN Messages : applied[m] <= 1

(* When the updates are over the mirror holds the primary's last serial    *)
(* for good, although a NOTIFY that arrives during a transfer is dropped   *)
(* by the clear at its end, an update may leave no round behind, and       *)
(* transfers fail.                                                         *)
MirrorCatchesUp == <>[](mirror # None /\ mirror.serial = serial)

=============================================================================
