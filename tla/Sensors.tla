------------------------------ MODULE Sensors ------------------------------
(***************************************************************************)
(* The sensors that compare what they see with what they knew              *)
(* (collectors/base.py, files.py, persistence.py, system.py, network.py,   *)
(* process.py; storage.py: baseline_*; agent.py: emit, _pipeline).  Every  *)
(* sensor has a thread of its own: it takes a snapshot, compares it, moves *)
(* what it knows - in memory, and for some in the table baseline - and at  *)
(* the end emits the events to the queue of the pipeline.  They differ in  *)
(* what they keep over a restart, in which order they move it, and in what *)
(* they make of the first snapshot.  The process sensor has a second       *)
(* thread, which hears of every exec.                                      *)
(*                                                                         *)
(* An operator named X_Y is not used by the specification: it is X with    *)
(* the mistake Y, and shows that a property of X would notice it.          *)
(***************************************************************************)
EXTENDS Integers, FiniteSets, Sequences

CONSTANTS
  Items,      \* paths, accounts, modules, devices, sessions, ports, processes
  Own,        \* process: children of the agent
  Members,    \* accounts: that a user is a member of a privileged group
  MaxFiles,   \* max_files of files and staging
  QueueSize,  \* Agent.queue: maxsize
  MaxChanges, \* bound: changes of the endpoint
  MaxFaults   \* bound: restarts, exceptions, what cannot be read just now

ASSUME SensorsAssumption ==
  /\ IsFiniteSet(Items) /\ Own \subseteq Items /\ Members \subseteq Items
  /\ MaxFiles \in Nat
  /\ QueueSize \in Nat \ {0} /\ MaxChanges \in Nat /\ MaxFaults \in Nat

(* What an item may be: not there, over (a process that has ended does not *)
(* come back), or there, with one content or another.                      *)
Contents == {"v1", "v2"}
None == "none"
Over == "over"

\* The sensors with a baseline in the database; in which order they move it.
MemoryFirst == {"files", "staging"}
StoreFirst == {"persistence", "accounts", "kernel"}
\* Those that take what is there when they start as known; the others tell
\* everything anew.
Devices == {"devices", "sessions"}
Anew == {"network", "process"}
Kinds == MemoryFirst \cup StoreFirst \cup Devices \cup Anew
Persists(k) == k \in MemoryFirst \cup StoreFirst

\* Those whose first snapshot is told of, as what was there already.
TellsFirst == {"staging", "persistence", "kernel"} \cup Anew
\* Those that look at the content, not only whether the item is there.
SeesContent == {"files", "staging", "persistence", "accounts", "process"}
\* Those that read all items from one place, or none; the accounts and the
\* groups are in two.
ReadsAtOnce == {"accounts", "kernel", "sessions", "network"}
Places(k) == IF k = "accounts" THEN {Items, Members, Items \ Members} ELSE {Items}

VARIABLES
  sensor,   \* which one it is
  world,    \* the items as they are
  stored,   \* table baseline
  saved,    \* baseline_exists
  memory,   \* baseline, modules, usb, sessions or known
  first,    \* ~initialized, or first
  pc, snap, \* where collect is, and its snapshot
  left, item, \* process: the items of the snapshot to go, and the one at hand
  events,   \* the events that collect has so far: [item, value]
  queue,    \* Agent.queue
  listener, \* process: the listener: [pc, item, value], execs it will hear of
  told,     \* history: what the pipeline was told of each item, or what a
            \* first snapshot took as given
  lost,     \* history: items that it is not told right of any more
  overtaken, \* history: processes of which the listener and a collect told
             \* in an order of their own
  changes, faults

collector == <<pc, snap, left, item>>
known == <<stored, saved, memory, first>>
history == <<told, lost, overtaken>>
sensorVars == <<sensor, world, known, collector, events, queue, listener, history, changes, faults>>

-----------------------------------------------------------------------------
Nothing == [i \in Items |-> None]
Seen == [i \in Items |-> IF world[i] \in Contents THEN world[i] ELSE None]
Existing == {i \in Items : world[i] \in Contents}
Event(i, v) == [item |-> i, value |-> v]
ItemsOf(es) == {e.item : e \in es}
Queued == {queue[n] : n \in DOMAIN queue}
NotListening == [pc |-> "off", item |-> None, value |-> None, execs |-> {}]
Listening == [NotListening EXCEPT !.pc = "wait"]

SensorInit ==
  /\ sensor \in Kinds
  /\ world \in [Items -> {None, "v1"}]
  /\ stored = Nothing /\ saved = FALSE
  /\ memory = Nothing /\ first = TRUE
  /\ pc = "setup" /\ snap = Nothing
  /\ left = {} /\ item = None
  /\ events = {}
  /\ queue = << >>
  /\ listener = NotListening
  /\ told = Nothing
  /\ lost = {} /\ overtaken = {}
  /\ changes = 0 /\ faults = 0

(* The endpoint changes.  The listener gets a message of an exec, also of  *)
(* a process that was there and goes on under the same key.                *)
Change(i, v) ==
  /\ changes < MaxChanges
  /\ changes' = changes + 1
  /\ world[i] \notin {v, Over}
  /\ CASE v = None -> sensor # "process"
       [] v = Over -> sensor = "process" /\ world[i] # None
       [] v = "v2" -> sensor \in SeesContent /\ (sensor = "accounts" => i \notin Members)
       [] OTHER    -> TRUE
  /\ world' = [world EXCEPT ![i] = v]
  /\ \/ /\ listener.pc # "off" /\ v \in Contents
        /\ listener' = [listener EXCEPT !.execs = @ \cup {i}]
        /\ UNCHANGED lost
     \/ /\ listener.pc = "off" \/ world[i] \notin Contents \/ v = Over
        /\ lost' = IF sensor = "process" /\ {world[i], v} \subseteq Contents
                   THEN lost \cup {i} ELSE lost
        /\ UNCHANGED listener
  /\ UNCHANGED <<sensor, known, collector, events, queue, told, overtaken, faults>>

Faulty == faults < MaxFaults /\ faults' = faults + 1

-----------------------------------------------------------------------------
(* setup: what it knows is the baseline, or what there is, or nothing.     *)
Setup ==
  /\ pc = "setup"
  /\ pc' = "rest"
  /\ UNCHANGED <<sensor, world, stored, saved, snap, left, item, events, queue, lost, overtaken,
                 changes, faults>>

SetupBaseline ==
  /\ Setup /\ Persists(sensor)
  /\ memory' = stored /\ first' = ~saved
  /\ UNCHANGED <<listener, told>>

SetupDevices ==
  /\ Setup /\ sensor \in Devices
  /\ memory' = Seen /\ first' = FALSE
  /\ told' = Seen
  /\ UNCHANGED listener

\* The listener needs root; without it there is only the polling.
SetupAnew(listens) ==
  /\ Setup /\ sensor \in Anew
  /\ memory' = Nothing /\ first' = TRUE
  /\ told' = Nothing
  /\ listens => sensor = "process"
  /\ listener' = IF listens THEN Listening ELSE NotListening

(* _loop: a setup that raises is logged, and collect is called without what *)
(* setup was to set: it raises each time, until the agent starts anew.  The *)
(* last thing that setup of the process sensor does is to start the        *)
(* listener: without it collect goes on.                                   *)
SetupFails ==
  /\ pc = "setup" /\ sensor # "process" /\ Faulty
  /\ pc' = "broken"
  /\ UNCHANGED <<sensor, world, known, snap, left, item, events, queue, listener, history, changes>>

CollectRaises == pc = "broken" /\ UNCHANGED sensorVars

Snapshot_Incomplete(hidden) ==
  /\ pc = "rest"
  /\ \/ hidden = {} /\ UNCHANGED faults
     \/ /\ hidden # {} /\ Faulty
        /\ sensor \in ReadsAtOnce => hidden \in Places(sensor)
  /\ snap' = [i \in Items |-> IF i \in hidden THEN None ELSE Seen[i]]
  /\ left' = IF sensor = "process" THEN {i \in Items : snap'[i] # None} ELSE {}
  /\ pc' = IF sensor = "process" THEN "each" ELSE "compare"
  /\ UNCHANGED <<sensor, world, known, item, events, queue, listener, history, changes>>

\* _walk opens no directory any more when it has max_files: what it has not come
\* to, by an order of its own, it passes over, at every poll perhaps.
Capped(hidden) == sensor \in MemoryFirst /\ Cardinality(Existing \ hidden) >= MaxFiles

(* What is beyond max_files, or cannot be read just now, looks like what   *)
(* is not there.                                                           *)
Snapshot(hidden) ==
  /\ pc = "rest"
  /\ \/ (hidden = {} \/ Capped(hidden)) /\ UNCHANGED faults
     \/ /\ hidden # {} /\ Faulty
        /\ sensor # "process"
        /\ sensor \in ReadsAtOnce => hidden \in Places(sensor)
  /\ snap' = [i \in Items |-> IF i \in hidden THEN None ELSE Seen[i]]
  /\ left' = IF sensor = "process" THEN {i \in Items : snap'[i] # None} ELSE {}
  /\ pc' = IF sensor = "process" THEN "each" ELSE "compare"
  /\ UNCHANGED <<sensor, world, known, item, events, queue, listener, history, changes>>

Changed == {i \in Items : snap[i] # memory[i]}

\* Of a group, only what was added to it is told: nothing of who has left it, or
\* was in it when it was deleted.
Silent == {i \in Members : sensor = "accounts" /\ memory[i] # None /\ snap[i] = None}

Collecting == UNCHANGED <<sensor, world, snap, queue, listener, changes>>

\* The first snapshot, when there is no baseline.
CompareFirst ==
  /\ pc = "compare" /\ Persists(sensor) /\ first
  /\ IF sensor \in TellsFirst
     THEN /\ events' = {Event(i, snap[i]) : i \in {j \in Items : snap[j] # None}}
          /\ UNCHANGED told
     ELSE /\ told' = snap
          /\ UNCHANGED events
  /\ memory' = IF sensor \in MemoryFirst THEN snap ELSE memory
  /\ pc' = "store"
  /\ Collecting /\ UNCHANGED <<stored, saved, first, left, item, lost, overtaken, faults>>

(* The next ones.  A rename is told as two events would be: the new path   *)
(* is there, the old one is not.                                           *)
Compare ==
  /\ pc = "compare" /\ Persists(sensor) /\ ~first
  /\ events' = {Event(i, snap[i]) : i \in Changed \ Silent}
  /\ memory' = IF sensor \in MemoryFirst THEN snap ELSE memory
  /\ pc' = IF Changed # {} THEN "store" ELSE IF sensor = "kernel" THEN "more" ELSE "emit"
  /\ Collecting /\ UNCHANGED <<stored, saved, first, left, item, history, faults>>

CompareAgain ==
  /\ pc = "compare" /\ ~Persists(sensor)
  /\ events' = {Event(i, snap[i]) : i \in Changed}
  /\ memory' = snap
  /\ first' = FALSE
  /\ pc' = IF sensor = "devices" THEN "emit" ELSE "more"
  /\ Collecting /\ UNCHANGED <<stored, saved, left, item, history, faults>>

Store_NoDeletes ==
  /\ pc = "store"
  /\ stored' = [i \in Items |-> IF snap[i] # None /\ (first \/ i \in ItemsOf(events))
                                THEN snap[i] ELSE stored[i]]
  /\ saved' = TRUE /\ memory' = snap /\ first' = FALSE
  /\ lost' = IF first THEN lost ELSE lost \cup Silent
  /\ pc' = IF sensor = "kernel" THEN "more" ELSE "emit"
  /\ Collecting /\ UNCHANGED <<left, item, events, told, overtaken, faults>>

\* baseline_update: what has changed, or all of it the first time.
Store ==
  /\ pc = "store"
  /\ stored' = [i \in Items |-> IF first \/ i \in ItemsOf(events) \cup Silent THEN snap[i]
                                ELSE stored[i]]
  /\ saved' = TRUE /\ memory' = snap /\ first' = FALSE
  /\ lost' = IF first THEN lost ELSE lost \cup Silent
  /\ pc' = IF sensor = "kernel" THEN "more" ELSE "emit"
  /\ Collecting /\ UNCHANGED <<left, item, events, told, overtaken, faults>>

\* _loop: the collect that raises is logged, and its events are gone.
Raises(forgotten) ==
  /\ Faulty
  /\ events' = {} /\ pc' = "rest"
  /\ lost' = lost \cup forgotten
  /\ Collecting /\ UNCHANGED <<known, left, item, told, overtaken>>

StoreFails ==
  /\ pc = "store"
  /\ Raises(IF sensor \in MemoryFirst /\ ~first THEN ItemsOf(events) ELSE {})

(* After it has moved what it knows, a collect goes on to other things:    *)
(* hidden processes, accounts, traffic.                                    *)
MoreFails == pc = "more" /\ Raises(ItemsOf(events))

More ==
  /\ pc = "more"
  /\ pc' = "emit"
  /\ Collecting /\ UNCHANGED <<known, left, item, events, history, faults>>

-----------------------------------------------------------------------------
(* The process sensor takes its lock for each process that is new to it,   *)
(* first to look it up ...                                                 *)
LookUp(i) ==
  /\ pc = "each" /\ i \in left
  /\ left' = left \ {i}
  /\ \/ /\ memory[i] # None \/ (i \notin Own /\ world[i] \notin Contents)
        /\ UNCHANGED <<memory, pc, item, lost>>
     \/ /\ memory[i] = None /\ i \in Own
        /\ memory' = [memory EXCEPT ![i] = snap[i]]
        /\ lost' = lost \cup {i}
        /\ UNCHANGED <<pc, item>>
     \/ /\ memory[i] = None /\ i \notin Own /\ world[i] \in Contents
        /\ pc' = "add" /\ item' = i
        /\ UNCHANGED <<memory, lost>>
  /\ Collecting /\ UNCHANGED <<stored, saved, first, events, told, overtaken, faults>>

\* ... and again, when it has described it, to add it if it is still new ...
Add ==
  /\ pc = "add"
  /\ IF memory[item] = None
     THEN /\ memory' = [memory EXCEPT ![item] = snap[item]]
          /\ events' = events \cup {Event(item, snap[item])}
     ELSE UNCHANGED <<memory, events>>
  /\ pc' = "each" /\ item' = None
  /\ Collecting /\ UNCHANGED <<stored, saved, first, left, history, faults>>

Forget_Replaces ==
  /\ pc = "each" /\ left = {}
  /\ LET gone == {i \in Items : memory[i] # None /\ snap[i] = None} IN
       /\ memory' = snap
       /\ events' = IF first THEN events ELSE events \cup {Event(i, None) : i \in gone}
       /\ lost' = IF first THEN lost \cup gone ELSE lost
       /\ overtaken' = IF listener.pc = "tell" THEN overtaken \cup (gone \cap {listener.item})
                                              ELSE overtaken
  /\ first' = FALSE
  /\ pc' = "emit"
  /\ Collecting /\ UNCHANGED <<stored, saved, left, item, told, faults>>

\* ... and at last to remove those that are not in the snapshot.
Forget ==
  /\ pc = "each" /\ left = {}
  /\ LET gone == {i \in Items : memory[i] # None /\ snap[i] = None} IN
       /\ memory' = [i \in Items |-> IF i \in gone THEN None ELSE memory[i]]
       /\ events' = IF first THEN events ELSE events \cup {Event(i, None) : i \in gone}
       /\ lost' = IF first THEN lost \cup gone ELSE lost
       /\ overtaken' = IF listener.pc = "tell" THEN overtaken \cup (gone \cap {listener.item})
                                              ELSE overtaken
  /\ first' = FALSE
  /\ pc' = "emit"
  /\ Collecting /\ UNCHANGED <<stored, saved, left, item, told, faults>>

-----------------------------------------------------------------------------
\* Agent.emit: what does not fit is dropped.
Put(e) ==
  IF Len(queue) < QueueSize THEN queue' = Append(queue, e) /\ UNCHANGED lost
                            ELSE lost' = lost \cup {e.item} /\ UNCHANGED queue

\* run_once: the events are emitted when collect has returned.
Emit(e) ==
  /\ pc = "emit" /\ e \in events
  /\ events' = events \ {e}
  /\ Put(e)
  /\ UNCHANGED <<sensor, world, known, collector, listener, told, overtaken, changes, faults>>

Rest ==
  /\ pc = "emit" /\ events = {}
  /\ pc' = "rest" /\ snap' = Nothing
  /\ UNCHANGED <<sensor, world, known, left, item, events, queue, listener, history, changes, faults>>

\* _pipeline: an event gets to the detection, or processing it raises.
Deliver ==
  /\ queue # << >>
  /\ queue' = Tail(queue)
  /\ told' = [told EXCEPT ![Head(queue).item] = Head(queue).value]
  /\ UNCHANGED <<sensor, world, known, collector, events, listener, lost, overtaken, changes, faults>>

DeliverFails ==
  /\ queue # << >> /\ Faulty
  /\ queue' = Tail(queue)
  /\ lost' = lost \cup {Head(queue).item}
  /\ UNCHANGED <<sensor, world, known, collector, events, listener, told, overtaken, changes>>

-----------------------------------------------------------------------------
Listener == UNCHANGED <<sensor, world, stored, saved, first, collector, events, told, changes>>

\* _on_exec: the process is read ...
Hear(i) ==
  /\ listener.pc = "wait" /\ i \in listener.execs
  /\ listener' = IF world[i] \in Contents /\ i \notin Own
                 THEN [pc |-> "note", item |-> i, value |-> world[i], execs |-> listener.execs \ {i}]
                 ELSE [listener EXCEPT !.execs = @ \ {i}]
  /\ Listener /\ UNCHANGED <<memory, queue, lost, overtaken, faults>>

Note_KnownKey ==
  /\ listener.pc = "note"
  /\ IF memory[listener.item] # None
     THEN /\ listener' = [Listening EXCEPT !.execs = listener.execs]
          /\ UNCHANGED <<memory, overtaken>>
     ELSE /\ memory' = [memory EXCEPT ![listener.item] = listener.value]
          /\ listener' = [listener EXCEPT !.pc = "tell"]
          /\ overtaken' = IF pc # "rest" THEN overtaken \cup {listener.item} ELSE overtaken
  /\ Listener /\ UNCHANGED <<queue, lost, faults>>

\* ... noted, under the lock, unless it is known as it is ...
Note ==
  /\ listener.pc = "note"
  /\ IF memory[listener.item] = listener.value
     THEN /\ listener' = [Listening EXCEPT !.execs = listener.execs]
          /\ UNCHANGED <<memory, overtaken>>
     ELSE /\ memory' = [memory EXCEPT ![listener.item] = listener.value]
          /\ listener' = [listener EXCEPT !.pc = "tell"]
          /\ overtaken' = IF pc # "rest" THEN overtaken \cup {listener.item} ELSE overtaken
  /\ Listener /\ UNCHANGED <<queue, lost, faults>>

\* ... and told of, without it.
Tell ==
  /\ listener.pc = "tell"
  /\ Put(Event(listener.item, listener.value))
  /\ listener' = [Listening EXCEPT !.execs = listener.execs]
  /\ Listener /\ UNCHANGED <<memory, overtaken, faults>>

\* ExecListener._loop ends when the socket fails, and nobody notices.
ListenerEnds ==
  /\ listener.pc = "wait" /\ Faulty
  /\ listener' = NotListening
  /\ lost' = lost \cup listener.execs
  /\ Listener /\ UNCHANGED <<memory, queue, overtaken>>

(* The agent ends, and starts again.  The events that it had are lost,     *)
(* unless the comparison with the baseline will find them again.           *)
Restart ==
  /\ Faulty
  /\ pc' = "setup" /\ snap' = Nothing /\ left' = {} /\ item' = None
  /\ events' = {} /\ queue' = << >>
  /\ listener' = NotListening
  /\ memory' = Nothing /\ first' = TRUE
  /\ lost' = IF ~Persists(sensor) THEN {}
             ELSE lost \cup ItemsOf(Queued)
                       \cup (IF pc \in {"more", "emit"} THEN ItemsOf(events) ELSE {})
  /\ UNCHANGED <<sensor, world, stored, saved, told, overtaken, changes>>

\* What the thread does by itself.
Collect ==
  \/ SetupBaseline \/ SetupDevices \/ (\E listens \in BOOLEAN : SetupAnew(listens))
  \/ SetupFails
  \/ (\E hidden \in SUBSET Items : Snapshot(hidden) /\ UNCHANGED faults)
  \/ CompareFirst \/ Compare \/ CompareAgain \/ Store \/ More
  \/ (\E i \in Items : LookUp(i)) \/ Add \/ Forget
  \/ (\E e \in events : Emit(e)) \/ Rest

SensorNext ==
  \/ \E i \in Items, v \in Contents \cup {None, Over} : Change(i, v)
  \/ SetupBaseline
  \/ SetupDevices
  \/ \E listens \in BOOLEAN : SetupAnew(listens)
  \/ SetupFails
  \/ CollectRaises
  \/ \E hidden \in SUBSET Items : Snapshot(hidden)
  \/ CompareFirst
  \/ Compare
  \/ CompareAgain
  \/ Store
  \/ StoreFails
  \/ More
  \/ MoreFails
  \/ \E i \in Items : LookUp(i)
  \/ Add
  \/ Forget
  \/ \E e \in events : Emit(e)
  \/ Rest
  \/ Deliver
  \/ DeliverFails
  \/ \E i \in Items : Hear(i)
  \/ Note
  \/ Tell
  \/ ListenerEnds
  \/ Restart

\* The thread of the sensor, that of the pipeline and the listener go on.
Fairness ==
  /\ WF_sensorVars(Collect)
  /\ WF_sensorVars(Deliver)
  /\ \A i \in Items : WF_sensorVars(Hear(i))
  /\ WF_sensorVars(Note \/ Tell)

SensorSpec == SensorInit /\ [][SensorNext]_sensorVars /\ Fairness

-----------------------------------------------------------------------------
(* What a sensor knows at rest, the pipeline was told of.  An event is lost *)
(* only by a restart when it is out of the baseline's reach, by a collect  *)
(* that raises after the sensor has moved what it knows, by the pipeline,  *)
(* by a full queue, or by a listener that has ended, and of who leaves a    *)
(* privileged group there is none; and the listener and a collect may tell  *)
(* of one process in the wrong order.                                      *)
TellsWhatItKnows ==
  (pc = "rest" /\ ~first /\ queue = << >> /\ listener.pc \in {"off", "wait"}) =>
    \A i \in Items \ (lost \cup overtaken) : told[i] = memory[i]

\* An event that gets to the pipeline is news, also after a restart: no change
\* is told twice, unless the listener and a collect overtook each other.
ToldOnce ==
  [][(queue # << >> /\ queue' = Tail(queue) /\ faults' = faults) =>
       (told' # told \/ Head(queue).item \in lost \cup overtaken)]_sensorVars

\* A process that is said to have ended has ended, unless the listener noted it
\* after the snapshot of a collect, which then takes it for gone.
StopsAreTrue ==
  sensor = "process" =>
    \A e \in events \cup Queued :
      e.value = None => (world[e.item] \notin Contents \/ e.item \in overtaken)

(* Every change that lasts is told in the end, but for what is lost, or    *)
(* overtaken.  A sensor whose setup has raised tells of nothing, and one   *)
(* that has more files to look at than max_files may not tell of any.      *)
ChangesTold ==
  \A i \in Items :
    []<>(\/ told[i] = Seen[i] \/ i \in lost \cup overtaken
         \/ pc = "broken"
         \/ sensor \in MemoryFirst /\ Cardinality(Existing) > MaxFiles)

=============================================================================
