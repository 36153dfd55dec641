---------------------------- MODULE Correlation ----------------------------
(***************************************************************************)
(* The server's table of incidents and alerts (server/core.py, storage.py, *)
(* detection/correlation.py).  ServerCore.add_alert runs under             *)
(* ServerCore._lock and CorrelationEngine.process under its own lock, so   *)
(* one alert at a time is placed; here that is one step, which             *)
(* IncidentStore splits into its SQL statements.  A status change made in  *)
(* the console holds neither lock: it reads the incident, writes it back,  *)
(* asks for its alerts and sets the status of each, and an alert may       *)
(* arrive, or the server end, between any two of these.  One incident's    *)
(* status is changed at a time.                                            *)
(*                                                                         *)
(* An agent's alert carries the time it was raised and may arrive at any   *)
(* later time (it waits in the agent's outbox) and more than once (the     *)
(* answer to the first delivery was lost).                                 *)
(*                                                                         *)
(* An operator named X_Y is not used by the specification: it is X with    *)
(* the mistake Y, and shows that a property of X would notice it.          *)
(***************************************************************************)
EXTENDS CorrelationEngine

CONSTANTS
  AgentAlerts,   \* the alerts the agents may raise
  AutoIsolate,   \* response.auto_isolate
  ClockSkew,     \* how far the clock of an agent may be ahead of the server's
  CloseLimit,    \* the limit=1000 of the alerts whose status follows the incident's
  MaxProcessed,  \* bound: deliveries
  MaxConsole,    \* bound: status changes made in the console
  MaxCrashes,    \* bound: restarts of the server
  MaxClock       \* bound: ticks of the server's clock

ASSUME AgentAlertsAssumption ==
  AgentAlerts \subseteq {a \in AlertType : a.rule = "AGENT" /\ a.about = NoIncident}
ASSUME AutoIsolateAssumption == AutoIsolate \in BOOLEAN
ASSUME BoundsAssumption ==
  /\ ClockSkew \in Nat /\ CloseLimit \in Nat
  /\ MaxProcessed \in Nat /\ MaxConsole \in Nat /\ MaxCrashes \in Nat /\ MaxClock \in Nat

VARIABLES
  incidents,   \* table incidents: id -> body
  alerts,      \* table alerts: alert -> [incident, status] of its row
  commands,    \* isolate_host commands add_alert has queued, per host
  clock,       \* time.time() on the server
  processed,   \* calls of process() so far; new ids are taken from it
  edits,       \* status changes made in the console so far
  console,     \* the status change of an incident in progress, see Idle
  crashes,     \* restarts so far
  redelivered, \* history: the alerts that arrived more than once
  reopened,    \* history: the console took an incident out of "closed"
  touched,     \* history: the alerts whose status was set one by one
  overlapped,  \* history: an alert arrived during the status change of an incident
  partial      \* history: the incidents left with alerts that do not follow them

tables == <<incidents, alerts, commands>>
history == <<redelivered, reopened, touched, overlapped, partial>>
vars == <<tables, clock, processed, edits, console, crashes, history>>

RowType == [incident: Nat, status: Statuses]

(* The console: no status change of an incident; its body was read; it was *)
(* written; the alerts in "left" are still to follow.                      *)
Idle == [step |-> "idle"]

ConsoleType ==
  {Idle} \cup [step: {"put"}, id: Nat, body: IncidentType]
         \cup [step: {"query"}, id: Nat, status: Statuses]
         \cup [step: {"alerts"}, status: Statuses, left: SUBSET AlertType]

StoredUnder(i) == {x \in DOMAIN alerts : alerts[x].incident = i}

\* The alerts that have yet to follow the incident whose status was changed.
Following ==
  CASE console.step = "query"  -> StoredUnder(console.id)
    [] console.step = "alerts" -> console.left
    [] OTHER                   -> {}

TypeOK ==
  /\ DOMAIN incidents \subseteq 1..processed
  /\ incidents \in [DOMAIN incidents -> IncidentType]
  /\ DOMAIN alerts \subseteq AlertType
  /\ alerts \in [DOMAIN alerts -> RowType]
  /\ commands \in [Hosts -> Nat]
  /\ clock \in Nat
  /\ processed \in Nat
  /\ edits \in Nat
  /\ console \in ConsoleType
  /\ crashes \in Nat
  /\ redelivered \subseteq AgentAlerts
  /\ reopened \in BOOLEAN
  /\ touched \subseteq AlertType
  /\ overlapped \in BOOLEAN
  /\ partial \subseteq Nat

Init ==
  /\ incidents = << >>
  /\ alerts = << >>
  /\ commands = [h \in Hosts |-> 0]
  /\ clock = 0
  /\ processed = 0
  /\ edits = 0
  /\ console = Idle
  /\ crashes = 0
  /\ redelivered = {}
  /\ reopened = FALSE
  /\ touched = {}
  /\ overlapped = FALSE
  /\ partial = {}

-----------------------------------------------------------------------------
\* The incident rows after the outcome o.
Placed(o) ==
  [i \in DOMAIN incidents \cup {o.id} |->
     IF i = o.id THEN o.final
     ELSE IF i = o.other THEN MergedAway(incidents[i], o.id)
     ELSE incidents[i]]

\* The alerts that the outcome o of placing a inserts or replaces.
Added(o, a) == {a} \cup ToSet(o.extra)

Repointed_None(o) == {}

\* The alerts repointed by the merge in o.
Repointed(o) == IF o.other = NoIncident THEN {} ELSE ToSet(incidents[o.other].alert_ids)

(* The alert rows after o: INSERT OR REPLACE takes the status carried by   *)
(* the alert, "open", whatever the row said before.                        *)
Stored(o, a) ==
  [x \in DOMAIN alerts \cup Added(o, a) |->
     IF x \in Added(o, a) THEN [incident |-> o.id, status |-> "open"]
     ELSE IF x \in Repointed(o) THEN [alerts[x] EXCEPT !.incident = o.id]
     ELSE alerts[x]]

\* Every correlation alert recommends isolate_host.
Isolations(o, a) ==
  [h \in Hosts |-> IF AutoIsolate /\ h = a.host THEN commands[h] + Len(o.extra)
                   ELSE commands[h]]

Arrive(a) ==
  /\ a.ts <= clock + ClockSkew
  /\ processed < MaxProcessed
  /\ processed' = processed + 1
  /\ redelivered' = IF a \in DOMAIN alerts THEN redelivered \cup {a} ELSE redelivered
  /\ overlapped' = (overlapped \/ console # Idle)
  /\ UNCHANGED <<clock, edits, console, crashes, reopened, touched, partial>>

\* ServerCore.add_alert of an alert that process() places.
AddAlert(a) ==
  /\ Arrive(a)
  /\ a.sev # Info
  /\ \E o \in Outcomes(incidents, a, processed + 1, clock) :
       /\ incidents' = Placed(o)
       /\ alerts' = Stored(o, a)
       /\ commands' = Isolations(o, a)

\* ServerCore.add_alert of an "info" alert: process() returns no incident.
AddInfoAlert(a) ==
  /\ Arrive(a)
  /\ a.sev = Info
  /\ alerts' = [x \in DOMAIN alerts \cup {a} |->
                  IF x = a THEN [incident |-> NoIncident, status |-> "open"] ELSE alerts[x]]
  /\ UNCHANGED <<incidents, commands>>

Edit == edits < MaxConsole /\ edits' = edits + 1

\* Storage.set_incident_status: get_incident ...
ReadIncident(i, s) ==
  /\ console = Idle
  /\ Edit
  /\ console' = [step |-> "put", id |-> i, body |-> [incidents[i] EXCEPT !.status = s]]
  /\ UNCHANGED <<tables, clock, processed, crashes, redelivered, reopened, touched, partial>>

ConsoleRead(i, s) == ReadIncident(i, s) /\ UNCHANGED overlapped

\* ... and upsert_incident of what was read.
ConsolePut ==
  /\ console.step = "put"
  /\ incidents' = [incidents EXCEPT ![console.id] = console.body]
  /\ console' = IF console.body.status \in {"closed", "false_positive"}
                THEN [step |-> "query", id |-> console.id, status |-> console.body.status]
                ELSE Idle
  /\ reopened' = (reopened \/ (/\ incidents[console.id].status = "closed"
                               /\ console.body.status # "closed"))
  /\ UNCHANGED <<alerts, commands, clock, processed, edits, crashes, redelivered, touched,
                 overlapped, partial>>

(* query_alerts(incident_id, limit=1000): those raised last; SQL leaves    *)
(* the order of alerts raised at the same time open.                       *)
AlertResults(i) ==
  {S \in SUBSET StoredUnder(i) :
     /\ Cardinality(S) <= CloseLimit
     /\ S # StoredUnder(i) => Cardinality(S) = CloseLimit
     /\ \A x \in S, y \in StoredUnder(i) \ S : y.ts <= x.ts}

\* ServerCore.set_incident_status: the alerts of the incident that was written ...
ConsoleQuery ==
  /\ console.step = "query"
  /\ \E found \in AlertResults(console.id) :
       /\ console' = [step |-> "alerts", status |-> console.status, left |-> found]
       /\ partial' = IF found = StoredUnder(console.id) THEN partial
                     ELSE partial \cup {console.id}
  /\ UNCHANGED <<tables, clock, processed, edits, crashes, redelivered, reopened, touched,
                 overlapped>>

\* ... and set_alert_status of each of them.
ConsoleAlert ==
  /\ console.step = "alerts"
  /\ IF console.left = {} THEN console' = Idle /\ UNCHANGED alerts
     ELSE \E x \in console.left :
            /\ alerts' = [alerts EXCEPT ![x].status = console.status]
            /\ console' = [console EXCEPT !.left = @ \ {x}]
  /\ UNCHANGED <<incidents, commands, clock, processed, edits, crashes, history>>

(* The server process ends and is started again: the statements already    *)
(* committed remain, and what is left of a status change is never made up. *)
ServerEnds(cut) ==
  /\ crashes < MaxCrashes
  /\ crashes' = crashes + 1
  /\ console' = Idle
  /\ partial' = partial \cup {alerts[x].incident : x \in Following} \cup cut
  /\ UNCHANGED <<tables, clock, processed, edits, redelivered, reopened, touched, overlapped>>

Restart == console # Idle /\ ServerEnds({})

SetAlertStatus(x, s) ==
  /\ Edit
  /\ alerts' = [alerts EXCEPT ![x].status = s]
  /\ touched' = touched \cup {x}
  /\ UNCHANGED <<incidents, commands, clock, processed, console, crashes, redelivered, reopened,
                 overlapped, partial>>

Tick ==
  /\ clock < MaxClock
  /\ clock' = clock + 1
  /\ UNCHANGED <<tables, processed, edits, console, crashes, history>>

Next ==
  \/ \E a \in AgentAlerts : AddAlert(a)
  \/ \E a \in AgentAlerts : AddInfoAlert(a)
  \/ \E i \in DOMAIN incidents, s \in Statuses : ConsoleRead(i, s)
  \/ ConsolePut
  \/ ConsoleQuery
  \/ ConsoleAlert
  \/ Restart
  \/ \E x \in DOMAIN alerts, s \in Statuses : SetAlertStatus(x, s)
  \/ Tick

Spec == Init /\ [][Next]_vars

-----------------------------------------------------------------------------
\* The incidents process() would find open now, were there no LIMIT.
OpenIncidents == {i \in DOMAIN incidents : Current(incidents, i, clock)}

Listed(i) == ToSet(incidents[i].alert_ids)

Occurrences(i, x) ==
  Cardinality({k \in DOMAIN incidents[i].alert_ids : incidents[i].alert_ids[k] = x})

Unmerged == {i \in DOMAIN incidents : incidents[i].merged_into = NoIncident}

(* What follows presupposes ~overlapped: the body a status change writes   *)
(* back may be older than an alert that arrived since it was read, which   *)
(* IncidentStore follows statement by statement.                           *)

(* A host takes part in at most one open incident: a new incident is made  *)
(* only for a host that has none, and joining one by a shared entity       *)
(* merges the two.  Reopening an incident breaks it, and so do more rows   *)
(* than process() reads.                                                   *)
UniqueOpenIncident ==
  (~overlapped /\ ~reopened /\ Cardinality(DOMAIN incidents) <= QueryLimit) =>
    \A i, j \in OpenIncidents :
      i # j => incidents[i].hosts \cap incidents[j].hosts = {}

(* The incident an alert row points to exists and lists the alert, across  *)
(* merges, redeliveries and reopened incidents: the incident's page and    *)
(* its counters agree.                                                     *)
AlertHome ==
  ~overlapped =>
    \A x \in DOMAIN alerts :
      alerts[x].incident # NoIncident =>
        /\ alerts[x].incident \in DOMAIN incidents
        /\ x \in Listed(alerts[x].incident)

(* What an open incident lists is stored under it: an alert that was moved *)
(* away by a merge or a late redelivery is in no other open incident.      *)
OpenListsAreHomes ==
  (~overlapped /\ ~reopened /\ Cardinality(DOMAIN incidents) <= QueryLimit) =>
    \A i \in OpenIncidents : \A x \in Listed(i) :
      x \in DOMAIN alerts /\ alerts[x].incident = i

(* An alert that arrived once is counted once among the incidents that     *)
(* were not merged away, however often incidents were merged.              *)
CountedOnce ==
  (~overlapped /\ ~reopened) =>
    \A x \in DOMAIN alerts \ redelivered :
      alerts[x].incident # NoIncident =>
        \A i \in Unmerged :
          Occurrences(i, x) = IF i = alerts[x].incident THEN 1 ELSE 0

(* merged_into never leads back: the incident an alert was merged into can *)
(* be found by following it.  No set of incidents is closed under it.      *)
NoMergeCycle ==
  (~overlapped /\ ~reopened) =>
    \A S \in SUBSET DOMAIN incidents :
      S # {} => \E i \in S : incidents[i].merged_into \notin S

(* The alerts stored under a closed incident are closed, once the console  *)
(* is done with them: no alert lands in a closed incident later, and a     *)
(* merge takes the alerts of the incident it closes away from it.  It does *)
(* not hold of an alert whose own status was set by hand, nor of the       *)
(* incidents in partial: a restart cut their closing short, or they have   *)
(* more alerts than the closing asks for.  Nor does it hold once an alert  *)
(* arrived while an incident was being closed: it stays open.              *)
ClosedTogether ==
  ~overlapped =>
    \A x \in DOMAIN alerts \ (Following \cup touched) :
      LET i == alerts[x].incident IN
      (i \notin partial \cup {NoIncident} /\ incidents[i].status = "closed") =>
        alerts[x].status = "closed"

\* The two correlation alerts are raised at most once for an incident.
RaisedOnce ==
  ~overlapped =>
    \A x, y \in DOMAIN alerts :
      (x.about # NoIncident /\ x.about = y.about /\ x.rule = y.rule) => x = y

MergedInto(i) == {j \in DOMAIN incidents : incidents[j].merged_into = i}

Reports(i, rule) == \E x \in Listed(i) : x.rule = rule

ReportsStages(i) ==
  Cardinality(incidents[i].tactics) >= 3 =>
    Reports(i, "CORR-KILLCHAIN") /\ incidents[i].severity = Critical

ReportsHosts(i) == Cardinality(incidents[i].hosts) > 1 => Reports(i, "CORR-MULTIHOST")

(* An incident that no other was merged into reports its third tactic, is  *)
(* critical from then on, and reports its second host.  What was merged    *)
(* and then reopened may be merged again, and its first target looks like  *)
(* one that nothing was merged into.                                       *)
ReportedUnlessMerged ==
  (~overlapped /\ ~reopened) =>
    \A i \in DOMAIN incidents : MergedInto(i) = {} => ReportsStages(i) /\ ReportsHosts(i)

(* README.md, "Correlación e incidentes": when an incident spans three     *)
(* tactics or more, "Ataque multi-etapa" (critical) is raised.  A merge    *)
(* that brings the third tactic raises nothing: process() compares with    *)
(* the tactics the target has after the merge.                             *)
StagesAreReported == \A i \in Unmerged : ReportsStages(i)

=============================================================================
