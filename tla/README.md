# SentinelXDR: verification project

TLA+ models of SentinelXDR (`src/xdr`), the TLC configurations that check them
and machine-checked proofs about the server and the agent. SentinelXDR is an
endpoint detection and response system: an **agent** on every endpoint collects
telemetry, detects, responds and ships what it saw; one **server** stores
it, groups alerts into incidents and sends commands back.

    sensors -> queue -> pipeline: detection -> playbooks -> response actions
                            |                                   ^
                            v                                   | commands
                     buffers, outbox  == HTTP ==>  server core -+
                                                     |-> correlation, incidents
                                                     |-> notifier
                                                     +-> console (HTTP API)

All modules are in this directory; `tlc -config X.cfg M.tla` runs a check and
`tlapm XProofs.tla` checks the proofs about the module `X` (those about
`IncidentStore` are in `CorrelationProofs`). `PROJECT.json`
lists, for every definition, the lines of the source it translates, and every
hazard of the code that the properties are for.

## 1. The system

| Component | State | Operations | Hard behaviour |
|---|---|---|---|
| Correlation, incidents (`detection/correlation.py`, `server/core.py`, `storage.py`) | tables of incidents, alerts, commands | `add_alert`, `process`, `set_incident_status`, `set_alert_status` | late and repeated alerts, merges of incidents, a console that reads and writes back without the lock, a restart between two SQL statements |
| Shipping (`agent.py` flush/stop, `storage.py` outbox, `transport.py`) | two buffers, outbox, `connected` | `process`, `flush`, `stop`, `outbox_*` | requests that fail before, within or after being stored; two flushes at once; a full outbox; exceptions; exits |
| Commands (`server/core.py`, `agent.py` heartbeat) | table of commands, the flag `isolated` of an agent | `queue_command`, `heartbeat`, `run_command`, `command_result` | lost and late answers, server threads that outlive their request, restarts of either side |
| Isolation and blocking (`response/actions.py`) | iptables chains and jumps | `isolate_host`, `release_host`, `block_ip`, `unblock_ip` | a series of commands any of which may fail; two threads at once |
| Detection (`detection/engine.py`, `behavior.py`, `rules.py`) | windows, cooldowns, deduplication, baseline | `analyze`, `flush_baselines` | three filters in a row on two clocks; a baseline saved by another thread; restarts |
| Session (`server/core.py`, `transport.py`, `api.py`, `agent.py`) | the token and the flag `connected` of the agent, the table of agents | register, authenticate, the turns of the agent's threads | three threads that share a token without a lock, requests given up that are still handled, restarts |
| Indicators (`detection/intel.py`, `server/core.py`, `agent.py`) | data and version in memory, version in `kv`, `iocs.json`, what each agent has | `add_ioc`, `remove_ioc`, `update_feeds`, the heartbeat | a version that is read and written outside the lock; three writes that a restart may come between |
| Sensors (`collectors/`) | what was known, in memory and in the table `baseline`; the queue | `collect`, the exec listener, the pipeline | snapshot against listener; memory, table and events moved one after the other; restarts |
| Quarantine and processes (`response/actions.py`, `playbooks.py`) | files and their descriptions; the pids that an action is about | quarantine, restore, delete, kill | two threads; equal ids; pids and files that change between the check and the act; exits in between |
| Notifier (`server/notify.py`) | bounded queue, one worker | submit | full queue |
| Log readers (`collectors/auth.py`) | position in a file | read new lines | rotation |
| The rest: HTTP API and console, signatures, posture, command line, configuration | none that steps change | | |

They interact by calls within a process (sensor to queue to pipeline; the
pipeline and the heartbeat thread both call the response actions), by three
kinds of HTTP request (telemetry, heartbeat, command result), and through tables
that several threads share.

What makes each one correct: *correlation* - each alert has one home, a host one
open incident, a campaign is reported when due and once; *shipping* - nothing is
lost in silence, and all of it arrives in the end; *commands* - none is run
twice, each ends, the console is right about the endpoint or visibly in doubt;
*isolation* - the server is always reachable, and what was reported is what the
packet filter does; *detection* - no attack is silenced by the filters that
keep alerts from repeating, and what was learnt stays learnt; *session* - an
agent that may connect goes on doing so and is one agent to the server;
*indicators* - a change that was answered stays, and every agent gets it;
*sensors* - a change is reported, once; *quarantine* - a file is in one place
and can be restored; *processes* - only the one that was meant is killed.

## 2. The modules

### CorrelationEngine, Correlation

`CorrelationEngine` has the decisions of `CorrelationEngine.process` as
operators on a table of incidents (`Outcomes`: the own incident of a host, one
that shares an entity, their merge, the new alerts). `Correlation` is the server
around it. Its variables `incidents`, `alerts`, `commands` are the tables of
`storage.py`; `AddAlert` and `AddInfoAlert` are `ServerCore.add_alert`, which
two locks make one step as long as only alerts are concerned. The console takes
neither lock: a change of an incident's status is `ConsoleRead` (`get_incident`),
`ConsolePut` (`upsert_incident` of what was read), `ConsoleQuery` (the alerts of
the incident, `CloseLimit` at most) and one `ConsoleAlert` for each; alerts arrive,
and the server ends (`Restart`), between any two. Where `overlapped` is set an
alert has arrived during a change. `SetAlertStatus` is one statement. An alert keeps the
time it was raised and may be delivered at any later time and any number of
times. Ties in `ORDER BY ts_update` and the order of `sorted(...)[:200]` are
left open. `info` alerts take no part in correlation.

### IncidentStore

The same operations, one SQL statement at a time. The module extends
`Correlation`, whose tables, clock and histories it keeps, and has its own steps:
`StoreSpec` is its specification. `Begin` is what happens before
the first write; `todo` holds the writes that are left, and `Write` issues one. The
console's steps are those of `Correlation`, now between any two writes as well;
`Crash` forgets what is under way. Until a crash, or a status change that overlaps
an alert, it implements `Correlation` (`ImplementsCorrelation`): the abstract tables are the tables with the rest of
`todo` applied to them (`ApplyAll`, `Settled`), so `Begin` maps to `AddAlert` and
`Write` to a stutter.

### Shipping

One agent and its server. `flush[f]` is the point of `Agent.flush` a thread has
reached, with its local variables; there are two, the shipper thread and
`stop()`, which waits for it five seconds only. `Swap`, `Peek`, `Connect`,
`SendRow`, `Ack`, `SendChunk`, `Finish`, `Measure`, `Put` are its steps. A
request (`Request`) succeeds, or fails with all, part or none of it stored.
`Raise` is any exception but `TransportError`; `Exit` the end of the process, at any
point, that of a `stop` included.

### Commands

The queue of one agent, the heartbeat thread (`agent`) and the server threads
that handle its requests (`threads`): `Select` and `Mark` are
`pending_commands`, `Complete` and `Flag` are `command_result`. After `GiveUp`
the thread of the server goes on with nobody waiting. What an action does to
the isolation of the endpoint is `Effect`, which `Isolation` has in detail.

### Isolation

`rules` and `jumps` are the packet filter; an action is a list of iptables
commands (`Isolate`, `Release`, `Block`, `Unblock`), of which `Succeed` and
`Fail` run the next one. What follows a command depends on whether it worked:
`-D` is repeated until it fails, `-I` follows a `-C` that failed, a rule that
cannot be added ends the action. `Dropped` says what the filter does to a packet.
The heartbeat thread runs any of the four actions, for the console; the pipeline
thread those a playbook may order, which do not include `release_host` and
`unblock_ip` (`Orderable`).

### Detection

What the agent remembers between events. `Analyze` is one call of
`DetectionEngine.analyze`: `Feeds` says which windows an event goes to, `Fires`
which of them raise an alert, `Rested` is `_once`, `Fresh` the deduplication.
`Save` and `Clear` are the two halves of `flush_baselines`, which run in a
thread of their own; `Restart` keeps the saved baseline only. An event carries
the time of its sensor and may be analysed up to `lag` later, in order.

### Session

One agent, whose name no other has. `thread[k]` is where the starting thread, the
shipper and the heartbeat are in their turn, `requests` holds the threads of the
server: `ByToken`, `ByName` and `Upsert` of `register` are statements of
their own, and so is `agent_for_token` (`Auth`). After `GiveUp` the thread of
the server goes on with nobody waiting; `RestartAgent` and `RestartServer` forget the memory of a side.

### Indicators

A change goes through `edit` (of data and version, under the lock of the store),
`first` (of a feed's list), and the five accesses of `_bump_intel`, which are
under no lock. A heartbeat reads version and data at different times, and the
agent merges them later. `back` notes that the version was set back, by two changes at
once or by a restart.

### Sensors

One of nine sensors, chosen at the start. They have one shape - snapshot,
comparison, what is known in memory, what is known in the table, events at the
end - and differ in the order of the last three, in what they keep and in what
they make of the first snapshot, which sets of names at the head of the module
say (`MemoryFirst`, `StoreFirst`, `Anew`, ...). `collect` is one action per step
that something else can come between; `Hear`, `Note` and `Tell` are the listener
of the process sensor; `Deliver` is the pipeline. After `SetupFails` (a `setup` that
raised and was logged) every `collect` raises until the agent starts anew.
`Snapshot` may pass over files: what cannot be read just now, which is a bounded
fault, and what `max_files` leaves out (`Capped`), at every poll if need be. Some items of the
accounts sensor are memberships in privileged groups (`Members`): they are stored
when they end, and nothing is told of it (`Silent`).

### Response

The actions on files and processes that the pipeline thread and the heartbeat
thread run. `job[a]` is where an action is; a process is its pid and the time it
was created, an id of the quarantine the second and the digest. Files are
written, processes start and end (a pid goes to another), and the agent may end,
between any two steps. A path may be `far`, on another file system than the
quarantine: then a move copies and unlinks.

### The proof modules

`CorrelationProofs` (about `Correlation` and `IncidentStore`), `ShippingProofs`,
`CommandsProofs`, `IndicatorsProofs`, `ResponseProofs`, `DetectionProofs`,
`SessionProofs` and `EndpointProofs` (about `Isolation` and `Sensors`, which share
no state): section 5. `Sensors` calls its specification `SensorSpec`, so that one
module can extend both.

In every module an operator `X_Y` is `X` with the mistake `Y`; nothing uses it.
It shows which mistake in the code a property would notice.

## 3. The runs

| Run | What it shows |
|---|---|
| `correlation` | Four alerts of two hosts and three tactics, late, repeated or sharing an entity, in a window that moves, a status change in its four statements, a restart in the middle of it, and at times more incidents than a query returns. `UniqueOpenIncident`, `OpenListsAreHomes`, `AlertHome`, `CountedOnce`: merges keep lists and rows in step. `ClosedTogether`: the alerts of a closed incident are closed. `RaisedOnce`, `ReportedUnlessMerged`: correlation alerts come when due, once. |
| `correlation_stages` | `StagesAreReported`, violated: see section 6. |
| `store` | One restart and one status change anywhere between the SQL statements. `NothingForgotten`, `RaisedOnce`, `ClosedTogether`, `IsolationsExplained`; and `ImplementsCorrelation`. |
| `shipping` | Two items, two failing requests, one exception, one stop or crash. `NothingSilentlyLost`, `AckedWasStored`; `AlertsArrive`, `OutboxDrains` under fairness. |
| `session` | Three threads of an agent, one request given up or one restart. `OneRow`, `RefusedAfterOverlap`; `HeardAgain` under fairness. |
| `indicators` | Two changes at once, a heartbeat in between, one restart of either side. `IocsSurvive`, `AgentsAreCurrent`; `IndicatorsArrive` under fairness. |
| `commands` | Two commands, one failed request, one exception, one restart of either side. `RunAtMostOnce`, `StaleFlagIsVisible`; `CommandsEnd` under fairness. |
| `isolation` | Six actions in a row, two failing commands. `ChannelKept`, `IsolatedAsReported`, `BlockedAsReported`. |
| `isolation_threads` | `ServerKept` with two threads, violated: see section 6. |
| `response` | Two actions of either thread, two changes of files or processes, one end of the agent. `Restorable`, `AlreadyIsTrue`, `KillsWhatItMeant`. |
| `detection` | Three settings. Attacks of four events, some analysed late, and one of up to eight that outlasts cooldown and deduplication: `AttackReported`, `IntrusionReported`, `AlertsApart`. The baseline, the saving thread and a restart: `NewSourceReported`, `NeverNewsAgain`. |
| `sensors` | Each sensor with two changes of the endpoint and two faults, a `setup` that raises among them, more files than `max_files`, and a member of a privileged group. `TellsWhatItKnows`, `ToldOnce`, `StopsAreTrue`; `ChangesTold` under fairness. |

Some properties state what the code does *not* promise, in their preconditions:

- `UniqueOpenIncident` and `OpenListsAreHomes` end with the first incident that
  the console reopens, and with more than 500 incidents.
- All properties of `Correlation`, and `NothingForgotten`, end with a status change
  that overlaps an alert (`overlapped`): the console writes back the whole body it
  had read, so the alert is on no list any more, and an incident that was merged
  away is open again; and an alert that lands between the write and the loop stays
  open in an incident that is closed. Only `IsolationsExplained` holds regardless.
- `ClosedTogether` also leaves out alerts whose status was set one by one
  (`touched`), and incidents that a restart left in the middle of their closing or
  of a merge, or that have more alerts than the closing asks for (`partial`):
  nothing makes up for these.
- `CountedOnce` leaves alerts delivered twice out: they are listed twice.
  `ReportedUnlessMerged` ends with the first reopened incident: it may be merged
  again, and its first target then looks as if nothing had been merged into it.
- `NothingSilentlyLost` names the three losses: what was in memory at an exit or
  when an exception ended a flush, and events the outbox had no room for.
- `OneRow` ends with two registrations at once while the host has no row
  (`raced`): both find none and insert one each. `RefusedAfterOverlap` ends with
  two registrations at once (`overlapped`): the token that the agent received last
  need not be the one the server stored last.
- `HeardAgain` excepts registrations that go on overlapping with the other
  thread's requests: the threads can take each other's token away for ever. Their
  periods of 5 and 10 seconds make it unlikely, nothing excludes it.
- `IocsSurvive` allows memory and file to differ by what a change has edited that
  is not answered yet. `AgentsAreCurrent` and `IndicatorsArrive` end when the
  version was set `back`. None of them says that a removed indicator leaves the
  agents: agents merge what they get, and keep it until they are restarted.
- `StaleFlagIsVisible` leaves out a result that the server was still handling
  when the next request came or when it stopped. Of the status no property says
  more: a late `UPDATE` to "sent", of a heartbeat that was given up, may overwrite
  "done".
- `ChannelKept` leaves a server out that was configured by name, which is cut off:
  `isolate_host` adds no rule for a name. `IsolatedAsReported` and
  `BlockedAsReported` name the commands whose failure an action does not notice.
- `Restorable` and `AlreadyIsTrue` except ids that were given again (`clashed`:
  the same content, or a file that changed after its digest was taken, within a
  second) and actions that the end of the agent or an error cut short (`cut`).
- `KillsWhatItMeant` tells of four ways to kill another process: an order
  without a time of creation; a process that took the pid over within a second,
  the tolerance of the comparison; `kill_top_writer`, which looks the pid up
  again after sampling and checks only that it is not protected; and a protected
  process may die as a descendant of the one that is killed.
- `AttackReported` leaves PROC-012 out: the deduplication does not know the
  parent process by which it counts.
- `NewSourceReported` asks for a source known from this run of the agent or
  from a save: one that was added between `baseline_update` and the emptying of
  the dictionary is lost at the next restart.
- `TellsWhatItKnows`, `ToldOnce` and `ChangesTold` except the items in `lost` - a
  restart, a full queue or an exception came between what a sensor noted as known
  and its event, or it is a membership in a privileged group that has ended, of
  which there is no event - and those of which the exec listener and a collect told in
  an order of their own (`overtaken`), where `StopsAreTrue` ends as well.
- `ChangesTold` promises nothing of a sensor whose `setup` has raised (`broken`): it
  tells of nothing until the agent starts anew. Nor of files while there
  are more than `max_files`: a poll may pass over the same ones for ever.

### Bounds

Every bound is a constant named `Max...` in a guard, or a limit of the code that
the cfg makes small so that it is reached.

- *Correlation*: a merge needs two incidents and a bridging alert, three in all,
  and the fourth is the late, repeated or following one. Two hosts have an incident
  each; three tactics are the least that raise CORR-KILLCHAIN. `CloseLimit` 2 is less
  than an incident may have. `QueryLimit` 2 cuts as soon as there are three incidents;
  `UniqueOpenIncident` and `OpenListsAreHomes` speak of the states with fewer (and
  the proofs of every limit). `MaxEntities` is 1,
  so truncation is met; `Window` 0 and two clock values have alerts inside and
  outside of it.
- *IncidentStore*: two hosts, four alerts, `QueryLimit` 5; one crash and one status
  change can fall between any two statements, and the properties are about one
  such pair.
- *Shipping*: `Chunk`, `MaxBatch` and `OutboxCap` are 1, so two items already are
  chunked, truncated and hit the cap; `Backlog` is 2, so a flush has a second row
  to go on with while another one puts or deletes rows.
- *Session*, *Indicators*, *Commands*: one failure leaves one thread of the server
  behind, which then meets every later request; or it is one restart, at any
  point. Two changes, or two commands, show order and overlap.
- *Isolation*: six actions let an action follow two failed ones of either kind.
- *Response*: one path, near or far, two contents and two pids; two actions meet
  in one second or across two, and each of them meets a change.
- *Detection*: limits are 2, cooldown 2, deduplication 3, so four events fire,
  rest, are dropped as duplicates and fire again within the clock's range. Cooldown
  and deduplication together are 5, so that only a clock that goes to 6 tells an alert
  that is too old from one that is not: the second setting, with one kind of event,
  up to eight of them. The
  baseline needs three events: two known and one that is, or is not, news after the
  restart.
- *Sensors*: two items, one of them a child of the agent (which the listener
  leaves out) or a membership in a group, `MaxFiles` 1, and a queue of one, so that
  both are full; two changes are a change and its
  reversal, or two items; two faults are a restart after an exception or after a
  setup that failed.

Deadlock is checked where the system never comes to rest: `shipping`,
`commands`, `session`, `indicators` and `sensors`; the others stop at their bounds.

### Fairness

`Shipping`: weak fairness of the steps of each flush, because `_periodic` calls
`flush` for ever, whatever it raised, and `stop` runs to its end. It
needs no fairness of the network: `MaxFaults` bounds the failures, and what
is shown is that everything arrives once they cease. Nothing is assumed of the
heartbeat thread, which shares `connected`, and an end of the process in the
middle of `stop` is possible but not fair: fair is its end after the flush. `Commands`: weak fairness of the
heartbeat thread for the same reason, and of each thread of the server
(`ThreadingHTTPServer` gives every request its own), and none of the console.
`Session`: weak fairness of each thread of the agent and of each thread of the
server. `Indicators`: weak fairness of each agent's heartbeat, none of the
changes. `Sensors`: weak fairness of `collect`, which its thread repeats whatever it
raised, of the pipeline and of the listener; none of what happens on the endpoint,
and none of a snapshot that is complete, where `max_files` cuts it.
In all of them failures are bounded, not unfair: the properties say what comes
true once they cease.

## 4. What only TLC checks

- The liveness properties: fairness and ENABLED are beyond the prover.
- `ClosedTogether` between the statements of add_alert (run `store`); it is proved of
  `Correlation`, where add_alert is one step and the console is not.
- `ChannelKept`, `IsolatedAsReported` and `BlockedAsReported` are proved for one
  thread; with two even `ServerKept` is false (section 6), and the run has one as well.

Recursion over data is within reach, of the prover too: what `ApplyAll` does for a
list of any length is proved by induction over a set of numbers (`SetInduction`,
from the library's theorem that `<` on the naturals is well-founded). A fold of the
library is not: hence `ApplyAll` is a recursive function.

## 5. What is proved

For every value of the constants, assuming only what the modules state of them
with ASSUME (types, and that bounds are numbers):

| Theorem | Module | Property |
|---|---|---|
| `TypeCorrect` | `CorrelationProofs` | `TypeOK` |
| `AlertsAreListed` | `CorrelationProofs` | `AlertHome` |
| `ClosedIncidentsStayClosed` | `CorrelationProofs` | `ClosedTogether` |
| `OneOpenIncidentPerHost` | `CorrelationProofs` | `UniqueOpenIncident` |
| `OpenIncidentsOwnTheirAlerts` | `CorrelationProofs` | `OpenListsAreHomes` |
| `MergesEnd` | `CorrelationProofs` | `NoMergeCycle`, which no run lists |
| `CorrelationAlertsAreRaisedOnce` | `CorrelationProofs` | `RaisedOnce`, of `Spec` |
| `IncidentsAreReported` | `CorrelationProofs` | `ReportedUnlessMerged` |
| `AlertsAreCountedOnce` | `CorrelationProofs` | `CountedOnce` |
| `NothingIsForgotten` | `CorrelationProofs` | `NothingForgotten` |
| `RaisedOnceInSpiteOfCrashes` | `CorrelationProofs` | `RaisedOnce`, of `StoreSpec` |
| `IsolationsAreExplained` | `CorrelationProofs` | `IsolationsExplained` |
| `StatementsImplementCorrelation` | `CorrelationProofs` | `ImplementsCorrelation` |
| `NothingIsSilentlyLost` | `ShippingProofs` | `NothingSilentlyLost` |
| `AckedRowsWereStored` | `ShippingProofs` | `AckedWasStored` |
| `NoCommandIsRunTwice` | `CommandsProofs` | `RunAtMostOnce` |
| `AWrongFlagIsVisible` | `CommandsProofs` | `StaleFlagIsVisible` |
| `AnsweredChangesSurvive` | `IndicatorsProofs` | `IocsSurvive` |
| `UpToDateAgentsAreCurrent` | `IndicatorsProofs` | `AgentsAreCurrent` |
| `KillsTheProcessItWasMeantFor` | `ResponseProofs` | `KillsWhatItMeant` |
| `TheQuarantineGivesBack` | `ResponseProofs` | `Restorable` |
| `DescriptionsAreTrue` | `ResponseProofs` | `AlreadyIsTrue` |
| `AlertsAreKeptApart` | `DetectionProofs` | `AlertsApart` |
| `SavedIsNeverNews` | `DetectionProofs` | `NeverNewsAgain` |
| `NewSourcesAreReported` | `DetectionProofs` | `NewSourceReported` |
| `AttacksAreReported` | `DetectionProofs` | `AttackReported` |
| `IntrusionsAreReported` | `DetectionProofs` | `IntrusionReported` |
| `OneRowPerHost` | `SessionProofs` | `OneRow` |
| `RefusedOnlyAfterOverlap` | `SessionProofs` | `RefusedAfterOverlap` |
| `OneThreadKeepsTheChannel` | `EndpointProofs` | `ChannelKept`, for one thread |
| `OneThreadIsolatesAsReported` | `EndpointProofs` | `IsolatedAsReported`, for one thread |
| `OneThreadBlocksAsReported` | `EndpointProofs` | `BlockedAsReported`, for one thread |
| `SensorsTellWhatTheyKnow` | `EndpointProofs` | `TellsWhatItKnows` |
| `SensorsTellNews` | `EndpointProofs` | `ToldOnce` |
| `ReportedStopsAreTrue` | `EndpointProofs` | `StopsAreTrue` |

None of these properties is inductive by itself. What each needs:

*Correlation.* `IInv` is `TypeOK`, what the console has in hand (`ConsoleFits`) and
`Undisturbed`: five of the properties and two facts more, all claimed while nothing
is `overlapped`. No step takes that back, so a step that overlaps has nothing to show
but types.

- An alert may move only because `process` reads the open incidents, so
  `UniqueOpenIncident` needs that, up to the limit, *all* rows are read: a
  result of the query with fewer rows than the limit is the whole table
  (`LimitBefore`: the rows are numbered within `1..processed`, by `TypeOK`).
  Then, a new incident is made only for a host without one, and joining one
  through an entity merges it with the own one.
- `OpenListsAreHomes` is preserved by a merge because the alerts listed by the
  merged incident are repointed and the target takes its list over. An alert
  that is placed cannot be on the list of an open incident elsewhere: a listed
  alert is of one of its incident's hosts (`ListedFits`), so that incident would
  share the alert's host with the one that takes it, against
  `UniqueOpenIncident`.
- `NoMergeCycle` holds because only an open incident is the target of a merge
  and what was merged is closed (`MergedAreClosed`): the one new edge leads
  from an incident that has just been closed to one without an outgoing edge.
  The console may reopen a merged incident, hence the precondition `~reopened`.
- `ClosedTogether` uses that the target of `AddAlert` is open afterwards, and
  that a merge takes every alert row of the incident it closes along, which is
  `AlertHome`: a row points to an incident that lists it. Between the statements of
  the console it needs `Fresh`: while no alert has arrived, the body to be written
  differs from the row in its status only, and the alerts that are to follow stand
  under incidents of the status they will get. What a restart leaves behind is
  `partial`.

*Correlation alerts.* `AInv` adds that for whatever was raised the incident has the
tactics or hosts (`RaisedFor`), and `Raising` says that an outcome raises one only
when it takes the incident over the threshold: so never twice. `ReportedUnlessMerged`
needs that an incident never loses what was merged into it, which is
`MergedAreClosed` again; it ends with the first reopened incident, because that may
be merged a second time, elsewhere.

`CountedOnce` rests on what a placing does to the number of times an alert is
listed (`Counting`): the target has it as often as the two incidents had it
before, and one time more if it is the alert that is placed or one of those
raised. These were stored nowhere, hence listed nowhere (`ListedAreStored`; a
raised alert is new by `RaisedFor`). Any other alert that came once lives in an
incident that was not merged away (`HomesAreUnmerged`), and moves exactly when
that is the one merged into the target.

*IncidentStore.* `StoreInv` has to speak of the writes that are still to come, as
add_alert decided on them from what it read. `PlanInv`: each fits the tables with
the writes before it in the list (`Fits`). A body is put only over one all of which
it has (`PutFits`), an alert is added or repointed only if an incident of the tables
or of an earlier write lists it (`AddFits`, `InTable`), and a raised one is new and
its incident bears the mark of it (`RaiseFits`). Its facts, and those about rows
(`RowsInv`, which contains `RaisedOnce`), hold until a status change overlaps an alert;
in between the console writes back a body that has not changed since it was read. `IsolateInv`: an
isolation in the list stands right after the alert it is for, so the stored alerts
are never fewer. `WritesGood` shows all this of `Writes`, `WriteStep` that it
remains so when the first write of the list is issued. A restart then only forgets a
list, and what is in the tables needs none of it.

`StatementsImplementCorrelation` goes along the refinement mapping. A write is a
stutter because `ApplyAll` may apply the first of the list first (`ApplyFirst`). That
`Begin` is `AddAlert` means that the whole list of `Writes`, applied to the tables,
does what `Placed`, `Stored` and `Isolations` say (`OutcomeIsPlaced`): the merged
incident is put before the target, links come before adds, and of two bodies of the
target the second stands. While there was no status change the console is idle
(`CountInv`), and without a restart no list is forgotten.

*Shipping.* An item is in a buffer, with a flusher, in a row, on the server or in one
of the three losses. So whatever a step lets go of has to be on the server:
`FlushInv` says what the server has of the batch that a flusher has in hand - the
chunks before `sent`, the alerts from the first chunk on, all of it at the end - and of
the row it is about to delete. `outbox_ack` deletes every row up to a seq, which is
right only as the rows a flusher read are the first of the table and stay so
(`Foremost`): another flush deletes rows or puts later ones, seq being a key that
only grows (`Keyed`).

*Commands.* What is not handed to the agent was not run, and neither was what the agent
has left to do (`QueueInv`) or what the one thread it is waiting for is going to hand
it (`ThreadsInv`); a row has an id of its own (`RowsInv`). So a thread that was given
up and still marks its rows cannot have a command run a second time. `JInv`: while
no request has overtaken the handling of a result, one thread at most handles one,
and the flag it is going to set is what the endpoint is; where there is no such
thread, a flag that is wrong has a command that shows it and that no thread is
about to mark as done.

*Indicators.* `VersionsInv`: no version on its way to an agent, or held by one, is
ahead of the server's, and what goes with the server's version has all its data.
Both end with `back`.

*Response.* `JobsInv`: the time that an action will compare with was, when it was
taken, the one of the process it is about, and no later than the pid's present one;
what it found to kill is known by pid and time. `QInv` is about the quarantine: while
an id is not spoilt (given again, or an action on it cut short), the thread between
the move and the description is alone about that id (`Holds`): the description
that another thread needs for restoring it is not there yet, a second move to it
would be the same id given again, and the history names only what this one moved.
Only one thread restores. So what was taken and is not being worked on is in the
quarantine with its description (`Told`).

*Detection.* `FilterInv`: every alert of this run has left its time, or a later one,
with the deduplication and the cooldown; so the next one of its kind is held
back for as long as `AlertsApart` says. `BaselineInv`: what is saved or pending is in
what the engine compares with, whichever half of the saving has been done.
`UsedInv`: what was seen in this run is still known.

`AttackReported` counts events of the log, the code those left in a window.
`WindowsInv`: every event of this run that is recent enough for its rule is in the
window of its group, or an alert of the group has come since, which emptied it.
`OriginInv` goes the other way: what the deduplication and the cooldown hold back
has an alert of this run behind it. So when the limit is reached in the log, the
window has reached it too or there is an alert. `TimeInv`: events are analysed in
the order of their times.

*Session.* `RowInv`: unless `raced`, all rows are the same row, a registration under
way will write that row, and while there is none there is one registration only.
`TokenInv`: unless `overlapped`, the agent's token is in the table, a
registration leaves it there until it is answered with a new one that is, and
what the agent asks for goes with its token.

*Isolation.* With one thread: in the chain of the isolation every rule that drops
comes after all the rules that protect (`ChainInv`), and of what is left of the
action (`PlanInv`), before a rule that drops everything is added, each protecting
rule either is added, by a command that ends the action if it fails, or is in
place with no command before that empties the chain. The other chain drops
only addresses that may be blocked. With two threads it is false (section 6).

For the results, `ReportInv` follows what an action has promised to be (`Promise`):
each condition of the result holds already, or a command that is left sees to it
(`Isolated`, `Hooked`, `BlockedFrom`, ...), or its failure is one of those that the
action ignores. With no command left, the promise is the result. It needs the order
of the commands (`Ordered`: no flush after the rules are added) and that an address is
blocked both ways or not at all (`Paired`), because `block_ip` looks for one of the
two rules only. The actions on the other chain, and those after it until the next of
its kind, leave a result as it stands (`Stands`).

*Sensors.* What was told and what is known are apart for most of a `collect`.
`ToldInv` says how far: every item has a value that the memory or the table has of
it (`Awaited`: which of the two depends on the sensor and on where `collect` is),
and that value is what the pipeline was told last (`Says`: by the queue, or before
it), or what an event that waits to be emitted will tell (`Awaits`). That event is
news, because the comparison made it from the difference, and no event of the queue
repeats what was said before it (`News`): so nothing is told twice. A restart throws
the events away, and what is awaited falls back to the table, which has not moved
either unless the item is `lost`. A membership that has ended is apart until the table
has it: what is awaited of it is what the table says, and with `Store` it is `lost`. A
sensor whose `setup` has failed is where it was before: its memory says nothing, and
what is awaited is in the table. `BaselineInv` says, of a
sensor with a table, where memory and table agree, and `PlaceInv` in which places of
`collect` there are events at all.

`StopInv`: a process that the sensor knows was there once, and it does not come back
under the same key; so one that is known and not in the snapshot was over when the
snapshot was taken, or the listener has noted it since.

## 6. Where code and documents differ

- `correlation_stages`: README.md says that an incident spanning three tactics raises
  "Ataque multi-etapa". `process` takes the former tactics *after* a merge, so a third
  tactic that a merge brings is never reported. (It takes the former hosts at the same
  place; what a merge does to them no run asks.) `ReportedUnlessMerged` is what does
  hold.
- `isolation_threads`: README.md says that an isolated endpoint keeps its channel
  with the server. The pipeline thread and the heartbeat thread are not kept apart: a
  `release_host` that flushes the chain between the rules of an `isolate_host` and its
  DROP leaves the DROP alone. Both report success, and a server with an address is
  cut off.

## 7. Plan

Done, in this order: `Correlation`, `IncidentStore`, `Shipping`, `Isolation`,
`Commands`, `Detection`, `Session`, `Indicators`, `Sensors`, `Response`, and the
proofs of section 5.

Left:

1. Composition of `Sensors`, `Detection` and `Shipping`: what was learnt or noted
   as known, and is not shipped, when the agent crashes.
2. Two agents of one host name (`Session` has one): the second takes the id and
   the token of the first.
3. The log readers: positions, rotation and truncation of a file, restarts.
4. Proofs: what a component promises at its edge (what `Shipping` gets of
   `Detection`), once the composition of 1 states it.

## 8. What is not modelled, and why

- Titles, timelines, scores, texts: no decision reads them. What a rule or a
  signature matches, which entities an alert has, what makes a file change
  suspicious: inputs of the models, any combination of them is tried.
- Beaconing and exfiltration: statistics over intervals and volumes. The lists
  of allowed processes, addresses and paths: filters without state.
- The sizes of requests: a row of the outbox that the server refuses for its size
  would stay at its head for ever, and `Shipping` has every request succeed once
  failures cease.
- Two status changes of incidents that overlap each other: one is under way at a
  time. One that overlaps an alert is modelled, and excepted. `IncidentStore` leaves
  the status change of a single alert out, which `Correlation` has. `prune` deletes
  events only.
- After a crash between the writes of an incident and of its correlation alert,
  neither that alert nor its isolation ever comes: the threshold has been
  crossed. The properties of `IncidentStore` say what a crash may not do.
- Two agents of one host name, and the enrolment key: `Session` has one agent whose
  key is right.
- Of the response actions: Windows, IPv6, the parameter `allow` and `dry_run` of
  the isolation; suspending and resuming processes, users and forensics, which are
  calls to the operating system without state of their own, and the table
  that chooses playbooks by severity.
- Of the sensors: canaries, hidden processes, promiscuous interfaces, traffic and
  resources, which measure and do not compare snapshots; the log readers, which
  are parsing around a position in a file.
- Steps back of the clock; clocks of agents ahead of the server's are a constant
  of `Correlation` (`ClockSkew`), 0 in the runs and anything in the proofs.
- The notifier: a bounded queue that drops, and formatting. HTTP routing, the
  console's pages, signatures, posture checks, the command line,
  configuration, simulation: no state that steps change, or pure I/O.
