------------------------------- MODULE Devices -------------------------------
(***************************************************************************)
(* Naming the devices of the network: sweeps that ask for the PTR of each  *)
(* address the resolver has seen, the table they fill, and the settings    *)
(* change that replaces table and sweeps.                                  *)
(*                                                                         *)
(* Source: trench/clients/rdns.py and App._adopt_names, _names_first and   *)
(* _names_sweep (app.py).  Names are model values; whether a PTR target is *)
(* worth showing is part of the answer.  Two sweeps can meet: the one at   *)
(* start-up, and the job, which the console may also start.                *)
(***************************************************************************)
EXTENDS Naturals, Sequences, FiniteSets, SequencesExt

CONSTANTS
  Addr, Name,                      \* private client addresses; usable names
  Ttl, NegativeTtl,
  MaxEntries, PerSweep, Concurrency,
  MaxTime, MaxAdopts,              \* bounds
  None

VARIABLES
  now,
  table,       \* ClientNames._names, oldest store first: <<[ip, name, until], ...>>
  gen,         \* which ClientNames object is the current one
  holder,      \* who holds its lock
  sweep        \* sweeper -> [at, gen, todo, asking]

vars == <<now, table, gen, holder, sweep>>

Sweeper == {"boot", "job"}

DevicesConstants == Ttl \in Nat /\ NegativeTtl \in Nat /\ None \notin Sweeper

Resting == [at |-> "idle", gen |-> 0, todo |-> {}, asking |-> {}]

Init ==
  /\ now = 0 /\ table = <<>> /\ gen = 1 /\ holder = None
  /\ sweep = [s \in Sweeper |-> Resting]

Entries(a) == {e \in Range(table) : e.ip = a}
NameOf(a) == IF Entries(a) = {} THEN None ELSE (CHOOSE e \in Entries(a) : TRUE).name

-----------------------------------------------------------------------------
(* due: addresses without an entry, or with one past its time.             *)
Due == {a \in Addr : \A e \in Entries(a) : e.until <= now}
Rounds == {t \in SUBSET Due : Cardinality(t) = PerSweep \/ (Cardinality(t) < PerSweep /\ t = Due)}

Current(s) == sweep[s].gen = gen
Set(s, v) == sweep' = [sweep EXCEPT ![s] = v]

(* _names_sweep, with the object there is.                                 *)
Sweep(s) ==
  /\ sweep[s] = Resting
  /\ Set(s, [Resting EXCEPT !.at = "lock", !.gen = gen])
  /\ UNCHANGED <<now, table, gen, holder>>

Free(s) == holder = None

Locked(s) ==
  /\ sweep[s].at = "lock" /\ Current(s) /\ Free(s)
  /\ \E round \in Rounds :
       IF round = {} THEN Set(s, Resting) /\ UNCHANGED holder
       ELSE Set(s, [sweep[s] EXCEPT !.at = "ask", !.todo = round]) /\ holder' = s
  /\ UNCHANGED <<now, table, gen>>

(* _lookup, a few at a time.                                               *)
Ask(s, a) ==
  /\ sweep[s].at = "ask" /\ a \in sweep[s].todo /\ Cardinality(sweep[s].asking) < Concurrency
  /\ Set(s, [sweep[s] EXCEPT !.todo = @ \ {a}, !.asking = @ \cup {a}])
  /\ UNCHANGED <<now, table, gen, holder>>

(* _store: silence does not erase a name; the oldest entry makes room.     *)
Kept_Not(a, n) == n             \* mutant: what the last lookup said
Kept(a, n) == IF n = None THEN NameOf(a) ELSE n

Place(a) == CHOOSE i \in DOMAIN table : table[i].ip = a
Others(a) == IF Entries(a) = {} THEN table ELSE RemoveAt(table, Place(a))

Stored(a, n) ==
  LET all == Append(Others(a), [ip |-> a, name |-> Kept(a, n),
                                until |-> now + (IF n = None THEN NegativeTtl ELSE Ttl)])
  IN IF Len(all) > MaxEntries THEN Tail(all) ELSE all

(* A name, or None: no answer in time, an error, no target worth showing.  *)
DisplayName == Name \cup {None}

(* A sweep of an object that was replaced fills that object.               *)
Answered(s, a, n) ==
  /\ a \in sweep[s].asking
  /\ table' = IF Current(s) THEN Stored(a, n) ELSE table
  /\ Set(s, [sweep[s] EXCEPT !.asking = @ \ {a}])
  /\ UNCHANGED <<now, gen, holder>>

Swept(s) ==
  /\ sweep[s].at = "ask" /\ sweep[s].todo = {} /\ sweep[s].asking = {}
  /\ Set(s, Resting)
  /\ holder' = IF holder = s THEN None ELSE holder
  /\ UNCHANGED <<now, table, gen>>

(* A sweep that still waits for the lock of a replaced object asks no      *)
(* more of the current one.                                                *)
Outdated(s) ==
  /\ sweep[s].at = "lock" /\ ~Current(s)
  /\ Set(s, Resting)
  /\ UNCHANGED <<now, table, gen, holder>>

(* _adopt_names: the sweep at start-up and the scheduled one are cancelled, *)
(* one the console started is not; a new object with nothing in it.        *)
AdoptNames(cancelled) ==
  /\ gen <= MaxAdopts
  /\ gen' = gen + 1 /\ table' = <<>> /\ holder' = None
  /\ sweep' = [s \in Sweeper |-> IF s \in cancelled THEN Resting ELSE sweep[s]]
  /\ UNCHANGED now

Tick == now < MaxTime /\ now' = now + 1 /\ UNCHANGED <<table, gen, holder, sweep>>

Next ==
  \/ \E s \in Sweeper :
       \/ Sweep(s) \/ Locked(s) \/ Swept(s) \/ Outdated(s)
       \/ \E a \in Addr : Ask(s, a) \/ \E n \in DisplayName : Answered(s, a, n)
  \/ \E cancelled \in {{"boot"}, {"boot", "job"}} : AdoptNames(cancelled)
  \/ Tick

Spec == Init /\ [][Next]_vars

-----------------------------------------------------------------------------
(* Two sweeps that meet do not ask the same question twice: an address is  *)
(* asked about by one of them at a time, and only while what is known of   *)
(* it is missing or past its time (ClientNames.sweep, due).                *)
AskedOncePerTtl ==
  \A s \in Sweeper : Current(s) =>
    /\ sweep[s].asking \cup sweep[s].todo \subseteq Due
    /\ \A t \in Sweeper \ {s} : Current(t) => sweep[s].asking \cap sweep[t].asking = {}

(* A device that had a name keeps one, whatever lookups fail: the name     *)
(* goes only when the settings change or the table is full (_store).       *)
NameKept(a) == (gen' = gen /\ NameOf(a) # None /\ Entries(a)' # {}) => NameOf(a)' # None

DeviceNamesKept == AskedOncePerTtl' /\ \A a \in Addr : NameKept(a)

=============================================================================
