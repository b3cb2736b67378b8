------------------------------ MODULE Listeners ------------------------------
(***************************************************************************)
(* The connection-oriented listeners: DNS over TCP and TLS (serve_stream), *)
(* and over QUIC and HTTP/3 (LimitedQuicProtocol), under the caps of one   *)
(* ConnectionTracker.                                                      *)
(*                                                                         *)
(* Source: trench/transport/{stream,dot,quiclimits,doq,doh3,base}.py and   *)
(* the TCP half of do53.py.  One listener of either kind, chosen in Init.  *)
(* A query is a name; what it asks and what it is answered are the         *)
(* pipeline's business (Pipeline.tla), which here takes its time and       *)
(* answers or stays silent.  Sockets, TLS and the QUIC stack are external: *)
(* their events are the client's actions.                                  *)
(***************************************************************************)
EXTENDS Naturals, Sequences, FiniteSets

CONSTANTS
  Conn, Query,
  ClientOf,            \* connection -> the address it comes from
  MaxConnections, MaxPerClient, MaxInflight,      \* StreamLimits
  None

ListenersConstants ==
  /\ IsFiniteSet(Conn) /\ IsFiniteSet(Query)
  /\ MaxConnections \in Nat /\ MaxPerClient \in Nat /\ MaxInflight \in Nat
  /\ None \notin Query \cup Conn

VARIABLES
  quic,        \* which kind of listener this is
  phase,       \* connection -> where its handler is
  total, perClient,                  \* ConnectionTracker
  held,        \* the query read while no slot was free
  peer,        \* connection -> what the client does: [sends, reads, alive]
  closed,      \* connections the server closed its side of (writer.close)
  wire,        \* connection -> queries sent and not yet read
  query,       \* query -> [at, conn]
  buffer,      \* stream of a query -> "empty", "part", or "sent" (None in _buffers)
  starts,      \* query -> handlers ever started for it
  excused      \* connections dropped for making no progress

tracker == <<total, perClient>>
vars == <<quic, phase, tracker, held, peer, closed, wire, query, buffer, starts, excused>>

Talking == [sends |-> TRUE, reads |-> TRUE, alive |-> TRUE]
Address == {ClientOf[c] : c \in Conn}
Init ==
  /\ quic \in BOOLEAN
  /\ phase = [c \in Conn |-> "new"]
  /\ total = 0 /\ perClient = [a \in Address |-> 0]
  /\ held = [c \in Conn |-> None]
  /\ peer = [c \in Conn |-> Talking]
  /\ closed = {}
  /\ wire = [c \in Conn |-> <<>>]
  /\ query = [q \in Query |-> [at |-> "unsent", conn |-> None]]
  /\ buffer = [q \in Query |-> "empty"]
  /\ starts = [q \in Query |-> 0]
  /\ excused = {}

Working == {"resolving", "draining"}
Inflight(c) == {q \in Query : query[q].conn = c /\ query[q].at \in Working}
Admitted(c) == phase[c] \in {"reading", "slot", "finishing"}

-----------------------------------------------------------------------------
(* ConnectionTracker.                                                      *)

Room(a) == total < MaxConnections /\ perClient[a] < MaxPerClient
Admit(a) == total' = total + 1 /\ perClient' = [perClient EXCEPT ![a] = @ + 1]
Release(a) ==
  /\ total' = IF total > 0 THEN total - 1 ELSE 0
  /\ perClient' = [perClient EXCEPT ![a] = IF @ > 0 THEN @ - 1 ELSE 0]

(* A new connection, or a completed handshake: admitted or turned away.    *)
Connect(c) ==
  /\ phase[c] = "new"
  /\ IF Room(ClientOf[c])
     THEN Admit(ClientOf[c]) /\ phase' = [phase EXCEPT ![c] = "reading"]
     ELSE phase' = [phase EXCEPT ![c] = "refused"] /\ UNCHANGED tracker
  /\ UNCHANGED <<quic, held, peer, closed, wire, query, buffer, starts, excused>>

(* The finally of serve_stream, and ConnectionTerminated: the handlers are *)
(* cancelled and the slot goes back.                                       *)
Cancelled(c, also) ==
  query' = [q \in Query |-> IF q \in Inflight(c) \cup also THEN [query[q] EXCEPT !.at = "cancelled"]
                            ELSE query[q]]
End(c, also) ==
  /\ Cancelled(c, also)
  /\ Release(ClientOf[c])
  /\ phase' = [phase EXCEPT ![c] = "ended"]
  /\ held' = [held EXCEPT ![c] = None]
  /\ peer' = [peer EXCEPT ![c] = Talking] /\ closed' = closed \ {c}       \* nobody looks again
  /\ wire' = [wire EXCEPT ![c] = <<>>]

-----------------------------------------------------------------------------
(* What a client does.                                                     *)

Send(c, q) ==
  /\ ~quic /\ Admitted(c) /\ peer[c].sends /\ query[q].at = "unsent"
  /\ query' = [query EXCEPT ![q] = [at |-> "sent", conn |-> c]]
  /\ wire' = [wire EXCEPT ![c] = Append(@, q)]
  /\ UNCHANGED <<quic, phase, tracker, held, peer, closed, buffer, starts, excused>>

Becomes(c, p) ==
  /\ ~quic /\ Admitted(c) /\ peer[c].alive /\ peer[c] # p
  /\ peer' = [peer EXCEPT ![c] = p]
  /\ UNCHANGED <<quic, phase, tracker, held, closed, wire, query, buffer, starts, excused>>
HalfClose(c) == Becomes(c, [peer[c] EXCEPT !.sends = FALSE])
StopReading(c) == Becomes(c, [peer[c] EXCEPT !.reads = FALSE])
Reset(c) == Becomes(c, [sends |-> FALSE, reads |-> FALSE, alive |-> FALSE])

-----------------------------------------------------------------------------
(* serve_stream.                                                           *)

ReadQuery(c) ==
  /\ ~quic /\ phase[c] = "reading" /\ c \notin closed /\ peer[c].alive /\ wire[c] # <<>>
  /\ held' = [held EXCEPT ![c] = Head(wire[c])]
  /\ wire' = [wire EXCEPT ![c] = Tail(@)]
  /\ query' = [query EXCEPT ![Head(wire[c])].at = "read"]
  /\ phase' = [phase EXCEPT ![c] = "slot"]
  /\ UNCHANGED <<quic, tracker, peer, closed, buffer, starts, excused>>

(* _read gives None: the stream is over, or the peer has fallen silent for *)
(* the idle timeout (an empty frame ends the loop in the same way).        *)
EndOfStream(c) == ~peer[c].alive \/ c \in closed \/ (wire[c] = <<>> /\ ~peer[c].sends)
Silent(c) == wire[c] = <<>>

StopsReading_AtEof(c) == ~quic /\ phase[c] = "reading" /\ EndOfStream(c)   \* mutant: no idle timeout
StopsReading(c) == ~quic /\ phase[c] = "reading" /\ (EndOfStream(c) \/ Silent(c))

ReadEnd(c) ==
  /\ StopsReading(c)
  /\ phase' = [phase EXCEPT ![c] = "finishing"]
  /\ UNCHANGED <<quic, tracker, held, peer, closed, wire, query, buffer, starts, excused>>

GetSlot(c) ==
  /\ phase[c] = "slot" /\ Cardinality(Inflight(c)) < MaxInflight
  /\ query' = [query EXCEPT ![held[c]].at = "resolving"]
  /\ starts' = [starts EXCEPT ![held[c]] = @ + 1]
  /\ held' = [held EXCEPT ![c] = None]
  /\ phase' = [phase EXCEPT ![c] = "reading"]
  /\ UNCHANGED <<quic, tracker, peer, closed, wire, buffer, excused>>

SlotTimeout_Kept(c) ==      \* mutant: leaves without giving its slot back
  /\ phase[c] = "slot" /\ Cardinality(Inflight(c)) = MaxInflight
  /\ Cancelled(c, {held[c]})
  /\ phase' = [phase EXCEPT ![c] = "ended"] /\ held' = [held EXCEPT ![c] = None]
  /\ excused' = excused \cup {c}
  /\ UNCHANGED <<quic, tracker, peer, closed, wire, buffer, starts>>
SlotTimeout(c) ==
  /\ phase[c] = "slot" /\ Cardinality(Inflight(c)) = MaxInflight
  /\ End(c, {held[c]})
  /\ excused' = excused \cup {c}
  /\ UNCHANGED <<quic, buffer, starts>>

(* The answers still owed are waited for, no longer than the idle timeout. *)
Finish_Now(c) ==            \* mutant: what is in flight is cancelled at once
  /\ phase[c] = "finishing" /\ End(c, {})
  /\ UNCHANGED <<quic, buffer, starts, excused>>
Finish(c) ==
  /\ phase[c] = "finishing" /\ Inflight(c) = {}
  /\ End(c, {})
  /\ UNCHANGED <<quic, buffer, starts, excused>>

FinishTimeout(c) ==
  /\ phase[c] = "finishing" /\ Inflight(c) # {}
  /\ End(c, {})
  /\ excused' = excused \cup {c}
  /\ UNCHANGED <<quic, buffer, starts>>

-----------------------------------------------------------------------------
(* One query's answer: _answer of stream.py, doq.py and _respond of doh3.  *)

At(q, at) == query' = [query EXCEPT ![q].at = at]

(* respond comes back with bytes to write, which on a stream are drained,  *)
(* or with nothing (a packet that is no query, a limited transfer).        *)
Answered(q) ==
  /\ query[q].at = "resolving"
  /\ At(q, IF quic THEN "answered" ELSE "draining")
  /\ UNCHANGED <<quic, phase, tracker, held, peer, closed, wire, buffer, starts, excused>>

NotAnswered(q) ==
  /\ query[q].at = "resolving" /\ At(q, "silent")
  /\ UNCHANGED <<quic, phase, tracker, held, peer, closed, wire, buffer, starts, excused>>

Drained(q) ==
  /\ query[q].at = "draining" /\ peer[query[q].conn].reads /\ query[q].conn \notin closed
  /\ At(q, "answered")
  /\ UNCHANGED <<quic, phase, tracker, held, peer, closed, wire, buffer, starts, excused>>

(* The peer does not take it, or is gone: the writer is closed, which the  *)
(* reading loop sees as the end of the stream.                             *)
DrainFails(q) ==
  LET c == query[q].conn
  IN /\ query[q].at = "draining" /\ (~peer[c].reads \/ c \in closed)
     /\ At(q, "undelivered")
     /\ closed' = closed \cup {c}
     /\ UNCHANGED <<quic, phase, tracker, held, peer, wire, buffer, starts, excused>>

-----------------------------------------------------------------------------
(* QUIC: each query has a stream of its own.                               *)

OnStream(c, q) ==
  /\ quic /\ phase[c] = "reading"
  /\ query[q].conn \in {None, c} /\ buffer[q] # "closed"

(* Bytes that do not complete the message.                                 *)
Part(c, q) ==
  /\ OnStream(c, q) /\ buffer[q] = "empty"
  /\ query' = [query EXCEPT ![q].conn = c]
  /\ buffer' = [buffer EXCEPT ![q] = "part"]
  /\ UNCHANGED <<quic, phase, tracker, held, peer, closed, wire, starts, excused>>

(* spawn: a handler, or a stream reset (a 503) at the limit.               *)
Spawn(c, q) ==
  IF Cardinality(Inflight(c)) < MaxInflight
  THEN query' = [query EXCEPT ![q] = [at |-> "resolving", conn |-> c]] /\ starts' = [starts EXCEPT ![q] = @ + 1]
  ELSE query' = [query EXCEPT ![q] = [at |-> "refused", conn |-> c]] /\ UNCHANGED starts

(* The rest of a message, with or without the peer's FIN; or bytes after a *)
(* message that was dispatched, which are ignored.                         *)
Fresh(q) == buffer[q] # "sent"

Complete(c, q, fin) ==
  /\ OnStream(c, q)
  /\ buffer' = [buffer EXCEPT ![q] = IF fin THEN "closed" ELSE "sent"]
  /\ IF Fresh(q) THEN Spawn(c, q) ELSE UNCHANGED <<query, starts>>
  /\ UNCHANGED <<quic, phase, tracker, held, peer, closed, wire, excused>>

StreamReset(c, q) ==
  /\ OnStream(c, q) /\ query[q].conn = c
  /\ buffer' = [buffer EXCEPT ![q] = "closed"]
  /\ UNCHANGED <<quic, phase, tracker, held, peer, closed, wire, query, starts, excused>>

(* ConnectionTerminated: the peer left, or the stack's own idle timeout.   *)
Terminated(c) ==
  /\ quic /\ phase[c] = "reading"
  /\ End(c, {})
  /\ buffer' = [q \in Query |-> IF query[q].conn = c THEN "closed" ELSE buffer[q]]
  /\ UNCHANGED <<quic, starts, excused>>

-----------------------------------------------------------------------------
ServerStep(c) ==
  ReadQuery(c) \/ ReadEnd(c) \/ GetSlot(c) \/ SlotTimeout(c) \/ Finish(c) \/ FinishTimeout(c) \/ Terminated(c)
AnswerStep(q) == Answered(q) \/ NotAnswered(q) \/ Drained(q) \/ DrainFails(q)

Next ==
  \/ \E c \in Conn :
       \/ Connect(c) \/ HalfClose(c) \/ StopReading(c) \/ Reset(c) \/ ServerStep(c)
       \/ \E q \in Query : \/ Send(c, q) \/ Part(c, q) \/ StreamReset(c, q)
                           \/ \E fin \in BOOLEAN : Complete(c, q, fin)
  \/ \E q \in Query : AnswerStep(q)

Spec == Init /\ [][Next]_vars

(* A handler that can step does; a drain either goes through or fails, and *)
(* an idle timeout comes (the QUIC stack's, for QUIC).                     *)
LiveSpec ==
  /\ Spec
  /\ \A c \in Conn : WF_vars(ServerStep(c))
  /\ \A q \in Query : WF_vars(AnswerStep(q))

-----------------------------------------------------------------------------
(* The caps mean something: the tracker counts exactly the connections     *)
(* that are open, so they are never exceeded and never leak away; no       *)
(* connection has more handlers than its limit, and no stream starts two   *)
(* (ConnectionTracker, serve_stream's finally, spawn, DoQProtocol._on_data). *)
CapsHold ==
  /\ total = Cardinality({c \in Conn : Admitted(c)}) /\ total <= MaxConnections
  /\ \A a \in Address :
       /\ perClient[a] = Cardinality({c \in Conn : Admitted(c) /\ ClientOf[c] = a})
       /\ perClient[a] <= MaxPerClient
  /\ \A c \in Conn : Cardinality(Inflight(c)) <= MaxInflight
  /\ \A q \in Query : starts[q] <= 1

(* A query that was read is answered, also when its client has closed its  *)
(* sending side or fallen idle; it is given up only when the peer is gone  *)
(* or stopped reading, or no progress was made for the timeout.            *)
OwedAnswers ==
  \A q \in Query :
    LET c == query[q].conn
    IN (~quic /\ query[q].at \in Working \cup {"read"} /\ query'[q].at = "cancelled")
         => c \in excused' \/ c \in closed \/ ~peer[c].reads

(* Idle and abandoned connections are reclaimed (RFC 7766 6.2.3).          *)
ConnectionsReclaimed == \A c \in Conn : phase[c] = "reading" ~> phase[c] = "ended"

=============================================================================
