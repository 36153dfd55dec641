------------------------------ MODULE Shipping ------------------------------
(***************************************************************************)
(* How an agent ships telemetry and alerts (agent.py: process, flush,      *)
(* stop; storage.py: outbox_*; transport.py: send): two buffers in memory, *)
(* an outbox of batches in SQLite for what could not be sent, and one      *)
(* request at a time to a server that may be away, fall in the middle of a *)
(* request or fail to get its answer across.                               *)
(*                                                                         *)
(* flush runs in the shipper thread every few seconds; stop() runs it once *)
(* more in the main thread, having waited for the shipper for at most five *)
(* seconds, so the two may run at the same time.  The items are the events *)
(* of the sensors and the alerts the engine raised for them: item e stands *)
(* for an event in "events" and for its alert in "alerts".                 *)
(*                                                                         *)
(* An operator named X_Y is not used by the specification: it is X with    *)
(* the mistake Y, and shows that a property of X would notice it.          *)
(***************************************************************************)
EXTENDS Integers, FiniteSets, Sequences, SequencesExt

CONSTANTS
  Items,       \* what the sensors report
  Chunk,       \* events per request of fresh data (2000)
  MaxBatch,    \* events kept of a batch that could not be sent (5000)
  OutboxCap,   \* rows of the outbox from which events are dropped (5000)
  Backlog,     \* rows of the outbox sent per flush (20)
  MaxFaults,   \* bound: requests that fail
  MaxRaises,   \* bound: exceptions other than TransportError
  MaxExits     \* bound: ends of the agent process

ASSUME ShippingAssumption ==
  /\ Chunk \in Nat \ {0} /\ MaxBatch \in Nat \ {0}
  /\ OutboxCap \in Nat /\ Backlog \in Nat \ {0}

Flushers == {"shipper", "main"}

VARIABLES
  events, alerts, \* Agent._events (in order) and Agent._alerts
  outbox,         \* table outbox: a set of rows [seq, events, alerts]
  nextSeq,        \* its AUTOINCREMENT counter
  connected,      \* Agent.connected
  flush,          \* per flusher: where it is, and its local variables
  stopping,       \* stop() has got to its own flush
  received,       \* the server's tables: [events, alerts] it has stored
  faults, raises, exits,
  raised,         \* history: [events, alerts] the agent has ever buffered
  forfeited,      \* history: what was in memory when the process ended or an
                  \* exception other than TransportError ended a flush
  truncated       \* history: events the outbox had no room for

agent == <<events, alerts, connected>>
store == <<outbox, nextSeq>>
counters == <<faults, raises, exits>>
history == <<raised, forfeited, truncated>>
vars == <<agent, store, flush, stopping, received, counters, history>>

-----------------------------------------------------------------------------
Nothing == [events |-> {}, alerts |-> {}]
Union(p, q) == [events |-> p.events \cup q.events, alerts |-> p.alerts \cup q.alerts]

\* A flusher that is not in flush(), and one that has taken the buffers.
Idle == [pc |-> "idle", events |-> << >>, alerts |-> {}, rows |-> {}, sent |-> 0]

Init ==
  /\ events = << >> /\ alerts = {}
  /\ outbox = {} /\ nextSeq = 1
  /\ connected = FALSE
  /\ flush = [f \in Flushers |-> Idle]
  /\ stopping = FALSE
  /\ received = Nothing
  /\ faults = 0 /\ raises = 0 /\ exits = 0
  /\ raised = Nothing /\ forfeited = Nothing /\ truncated = {}

(* Agent.process: the event, unless it is a metric, and the alerts raised  *)
(* for it go to the buffers under _buf_lock.                               *)
Process(e, stored, alerting) ==
  /\ e \notin raised.events \cup raised.alerts
  /\ stored \/ alerting
  /\ events' = IF stored THEN Append(events, e) ELSE events
  /\ alerts' = IF alerting THEN alerts \cup {e} ELSE alerts
  /\ raised' = Union(raised, [events |-> IF stored THEN {e} ELSE {},
                              alerts |-> IF alerting THEN {e} ELSE {}])
  /\ UNCHANGED <<connected, store, flush, stopping, received, counters, forfeited, truncated>>

-----------------------------------------------------------------------------
\* flush(), in the steps between which other threads run.

\* The buffers are swapped for empty ones.
Swap(f) ==
  /\ flush[f].pc = "idle"
  /\ f = "main" => stopping
  /\ flush' = [flush EXCEPT ![f] = [Idle EXCEPT !.pc = "peek", !.events = events,
                                                !.alerts = alerts]]
  /\ events' = << >> /\ alerts' = {}
  /\ UNCHANGED <<connected, store, stopping, received, counters, history>>

\* The row of a set that comes first by seq, and the first n of them.
Oldest(rows) == CHOOSE r \in rows : \A q \in rows : r.seq <= q.seq
FirstRows(rows, n) == {r \in rows : Cardinality({q \in rows : q.seq <= r.seq}) <= n}

\* outbox_peek(20).
Peek(f) ==
  /\ flush[f].pc = "peek"
  /\ flush' = [flush EXCEPT ![f].pc = "connect",
                            ![f].rows = FirstRows(outbox, Backlog)]
  /\ UNCHANGED <<agent, store, stopping, received, counters, history>>

Connect_LeftToHeartbeat(f) ==
  /\ flush[f].pc = "connect"
  /\ flush' = [flush EXCEPT ![f].pc = IF connected THEN "backlog" ELSE "size"]
  /\ UNCHANGED <<agent, store, stopping, received, counters, history>>

\* if not self.connected: self._register().
Connect(f) ==
  /\ flush[f].pc = "connect"
  /\ \/ /\ flush' = [flush EXCEPT ![f].pc = "backlog"]
        /\ connected' = TRUE
        /\ UNCHANGED faults
     \/ /\ ~connected
        /\ faults < MaxFaults
        /\ faults' = faults + 1
        /\ flush' = [flush EXCEPT ![f].pc = "size"]
        /\ UNCHANGED connected
  /\ UNCHANGED <<events, alerts, store, stopping, received, raises, exits, history>>

(* The server takes the events of a request in one statement, and then its *)
(* alerts one by one: E and A are what it stored of the request.           *)
Ingest(E, A) ==
  received' = Union(received, [events |-> E, alerts |-> A])

(* One request of flusher f, going on at pc "next" with local variables l, *)
(* or, when it fails, at "size".  A failed request may have been stored,   *)
(* wholly or in part.                                                      *)
Request(f, E, A, l) ==
  \/ /\ Ingest(E, A)
     /\ flush' = [flush EXCEPT ![f] = l]
     /\ UNCHANGED faults
  \/ /\ faults < MaxFaults
     /\ faults' = faults + 1
     /\ \/ UNCHANGED received
        \/ \E B \in SUBSET A : Ingest(E, B)
     /\ flush' = [flush EXCEPT ![f].pc = "size"]

\* The next row of the backlog is sent ...
SendRow(f) ==
  LET row == Oldest(flush[f].rows) IN
  /\ flush[f].pc = "backlog"
  /\ flush[f].rows # {}
  /\ Request(f, row.events, row.alerts, [flush[f] EXCEPT !.pc = "ack"])
  /\ UNCHANGED <<agent, store, stopping, raises, exits, history>>

Ack_KeepsLast(f) ==
  LET row == Oldest(flush[f].rows) IN
  /\ flush[f].pc = "ack"
  /\ outbox' = {r \in outbox : r.seq >= row.seq}
  /\ flush' = [flush EXCEPT ![f].pc = "backlog", ![f].rows = @ \ {row}]
  /\ UNCHANGED <<agent, nextSeq, stopping, received, counters, history>>

\* ... and deleted: outbox_ack(seq) deletes every row up to seq.
Ack(f) ==
  LET row == Oldest(flush[f].rows) IN
  /\ flush[f].pc = "ack"
  /\ outbox' = {r \in outbox : r.seq > row.seq}
  /\ flush' = [flush EXCEPT ![f].pc = "backlog", ![f].rows = @ \ {row}]
  /\ UNCHANGED <<agent, nextSeq, stopping, received, counters, history>>

(* The fresh batch is sent in chunks, its alerts with the first one; a     *)
(* batch without events is sent as one empty chunk.                        *)
SendChunk(f) ==
  LET l    == flush[f]
      last == IF l.sent + Chunk < Len(l.events) THEN l.sent + Chunk ELSE Len(l.events)
      A    == IF l.sent = 0 THEN l.alerts ELSE {}
      next == IF last >= Len(l.events) THEN [l EXCEPT !.pc = "sent"]
              ELSE [l EXCEPT !.sent = last]
  IN
  /\ l.pc = "backlog"
  /\ l.rows = {}
  /\ Request(f, ToSet(SubSeq(l.events, l.sent + 1, last)), A, next)
  /\ UNCHANGED <<agent, store, stopping, raises, exits, history>>

Done(f) == IF f = "main" THEN [Idle EXCEPT !.pc = "done"] ELSE Idle

\* self.connected = True, after the last chunk.
Finish(f) ==
  /\ flush[f].pc = "sent"
  /\ connected' = TRUE
  /\ flush' = [flush EXCEPT ![f] = Done(f)]
  /\ UNCHANGED <<events, alerts, store, stopping, received, counters, history>>

Measure_DropsWhenFull(f) ==
  LET l == flush[f] IN
  /\ l.pc = "size"
  /\ connected' = FALSE
  /\ flush' = [flush EXCEPT ![f] =
                 IF (l.events = << >> /\ l.alerts = {}) \/ Cardinality(outbox) >= OutboxCap THEN Done(f)
                 ELSE [l EXCEPT !.pc = "put"]]
  /\ UNCHANGED <<events, alerts, store, stopping, received, counters, history>>

(* except TransportError: the outbox is measured, if there is anything to  *)
(* keep ...                                                                *)
Measure(f) ==
  LET l == flush[f] IN
  /\ l.pc = "size"
  /\ connected' = FALSE
  /\ flush' = [flush EXCEPT ![f] =
                 IF l.events = << >> /\ l.alerts = {} THEN Done(f)
                 ELSE IF Cardinality(outbox) < OutboxCap THEN [l EXCEPT !.pc = "put"]
                 ELSE [l EXCEPT !.pc = "putAlerts"]]
  /\ UNCHANGED <<events, alerts, store, stopping, received, counters, history>>

Put_ReusesSeq(f) ==
  LET l    == flush[f]
      kept == IF l.pc = "putAlerts" THEN {} ELSE ToSet(l.events)
      seq  == IF outbox = {} THEN 1 ELSE Max({r.seq : r \in outbox}) + 1
  IN
  /\ l.pc \in {"put", "putAlerts"}
  /\ outbox' = outbox \cup {[seq |-> seq, events |-> kept, alerts |-> l.alerts]}
  /\ flush' = [flush EXCEPT ![f] = Done(f)]
  /\ UNCHANGED <<agent, nextSeq, stopping, received, counters, history>>

(* ... and the batch is put in it, with its last events or, when the       *)
(* outbox is full, with none of them.                                      *)
Put(f) ==
  LET l    == flush[f]
      n    == Len(l.events)
      kept == IF l.pc = "putAlerts" THEN {}
              ELSE ToSet(SubSeq(l.events, IF n > MaxBatch THEN n - MaxBatch + 1 ELSE 1, n))
  IN
  /\ l.pc \in {"put", "putAlerts"}
  /\ outbox' = outbox \cup {[seq |-> nextSeq, events |-> kept, alerts |-> l.alerts]}
  /\ nextSeq' = nextSeq + 1
  /\ truncated' = truncated \cup (ToSet(l.events) \ kept)
  /\ flush' = [flush EXCEPT ![f] = Done(f)]
  /\ UNCHANGED <<agent, stopping, received, counters, raised, forfeited>>

(* An exception that flush() does not catch (a reply cut short, a database *)
(* error, a reply without a token) ends it; _periodic logs it.  The batch  *)
(* taken from the buffers was only in its local variables.                 *)
Raise(f) ==
  /\ flush[f].pc \notin {"idle", "done"}
  /\ raises < MaxRaises
  /\ raises' = raises + 1
  /\ forfeited' = Union(forfeited, [events |-> ToSet(flush[f].events), alerts |-> flush[f].alerts])
  /\ flush' = [flush EXCEPT ![f] = Done(f)]
  /\ UNCHANGED <<agent, store, stopping, received, faults, exits, raised, truncated>>

\* stop(): the join of the shipper thread has ended or timed out.
Stop ==
  /\ ~stopping
  /\ exits < MaxExits
  /\ stopping' = TRUE
  /\ UNCHANGED <<agent, store, flush, received, counters, history>>

InMemory ==
  [events |-> ToSet(events) \cup UNION {ToSet(flush[f].events) : f \in Flushers},
   alerts |-> alerts \cup UNION {flush[f].alerts : f \in Flushers}]

(* The process ends, after stop(), in the middle of it or by a crash, and  *)
(* is started again: the threads go with it, and what was in memory; the   *)
(* outbox stays.                                                           *)
Exit ==
  /\ exits < MaxExits
  /\ exits' = exits + 1
  /\ forfeited' = Union(forfeited, InMemory)
  /\ events' = << >> /\ alerts' = {} /\ connected' = FALSE
  /\ flush' = [f \in Flushers |-> Idle]
  /\ stopping' = FALSE
  /\ UNCHANGED <<store, received, faults, raises, raised, truncated>>

(* The heartbeat thread shares "connected": it registers when it is unset, *)
(* and unsets it when its own request fails.                               *)
Heartbeat ==
  \/ connected' = TRUE /\ UNCHANGED faults
  \/ faults < MaxFaults /\ faults' = faults + 1 /\ connected' = FALSE

HeartbeatStep ==
  /\ Heartbeat
  /\ UNCHANGED <<events, alerts, store, flush, stopping, received, raises, exits, history>>

FlushStep(f) ==
  Swap(f) \/ Peek(f) \/ Connect(f) \/ SendRow(f) \/ Ack(f) \/ SendChunk(f)
  \/ Finish(f) \/ Measure(f) \/ Put(f)

Next ==
  \/ \E e \in Items, s, a \in BOOLEAN : Process(e, s, a)
  \/ \E f \in Flushers : Swap(f)
  \/ \E f \in Flushers : Peek(f)
  \/ \E f \in Flushers : Connect(f)
  \/ \E f \in Flushers : SendRow(f)
  \/ \E f \in Flushers : Ack(f)
  \/ \E f \in Flushers : SendChunk(f)
  \/ \E f \in Flushers : Finish(f)
  \/ \E f \in Flushers : Measure(f)
  \/ \E f \in Flushers : Put(f)
  \/ \E f \in Flushers : Raise(f)
  \/ Stop
  \/ Exit
  \/ HeartbeatStep

(* The shipper thread keeps running flush() every ship_interval, and a     *)
(* stop() that was begun comes to its end.                                 *)
Fairness ==
  /\ WF_vars(FlushStep("shipper"))
  /\ WF_vars(FlushStep("main"))
  /\ WF_vars(Exit /\ stopping /\ flush["main"].pc = "done")

Spec == Init /\ [][Next]_vars /\ Fairness

-----------------------------------------------------------------------------
Waiting ==
  [events |-> UNION {r.events : r \in outbox}, alerts |-> UNION {r.alerts : r \in outbox}]

(* Whatever was buffered is in memory, in the outbox or on the server; or  *)
(* it was in memory when the process or a flush was cut short; or, for     *)
(* events only, the outbox had no room.  Full or not, retried or not, with *)
(* two flushes at once, nothing else gets lost.                            *)
NothingSilentlyLost ==
  /\ raised.alerts \subseteq
       InMemory.alerts \cup Waiting.alerts \cup received.alerts \cup forfeited.alerts
  /\ raised.events \subseteq
       InMemory.events \cup Waiting.events \cup received.events \cup forfeited.events \cup truncated

(* A row leaves the outbox only when the server has stored all of it, even *)
(* when two flushes work on the same rows and another one adds rows.       *)
AckedWasStored ==
  [][\A r \in outbox \ outbox' :
       r.events \subseteq received'.events /\ r.alerts \subseteq received'.alerts]_vars

(* Once requests stop failing, every alert reaches the server, unless it   *)
(* was in memory when the process or a flush was cut short; the outbox     *)
(* drains behind it.                                                       *)
AlertsArrive ==
  \A e \in Items :
    e \in raised.alerts ~> e \in received.alerts \cup forfeited.alerts

OutboxDrains == <>[](outbox = {})

=============================================================================
