------------------------- MODULE CorrelationEngine -------------------------
(***************************************************************************)
(* The decisions of detection/correlation.py, as operators on a table of   *)
(* incidents: which incidents are still open, which one takes an alert,    *)
(* which one is merged into it, and which correlation alerts follow.       *)
(* Correlation and IncidentStore build their state machines on them.       *)
(*                                                                         *)
(* An incident table is a function from the ids of the rows that exist to  *)
(* incident records.  Titles, timelines, scores, rule ids and techniques   *)
(* are left out: no decision reads them.                                   *)
(*                                                                         *)
(* An operator named X_Y is not used by the specification: it is X with    *)
(* the mistake Y, and shows that a property of X would notice it.          *)
(***************************************************************************)
EXTENDS Integers, FiniteSets, Sequences, SequencesExt

CONSTANTS
  Hosts,        \* hostnames of the enrolled agents
  Tactics,      \* ATT&CK tactics; "" is an alert without one
  Entities,     \* values two alerts may share: addresses, hashes, users, IOCs
  Window,       \* CorrelationEngine.window, in ticks
  QueryLimit,   \* the LIMIT 500 of _open_incidents
  MaxEntities   \* the [:200] on the entities of an incident

ASSUME WindowAssumption == Window \in Nat
ASSUME QueryLimitAssumption == QueryLimit \in Nat
ASSUME MaxEntitiesAssumption == MaxEntities \in Nat

NoIncident == 0
Statuses == {"open", "investigating", "closed", "false_positive"}

\* SEVERITY_SCORE: the severities by rank.
Severities == 0..4
Info == 0
High == 3
Critical == 4
MaxSeverity(s, t) == IF t > s THEN t ELSE s

(* An alert. "rule" is the agent's rule or one of the two correlation      *)
(* rules; "about" is the incident a correlation alert was raised for;      *)
(* "n" distinguishes alerts that agree on the rest, as Alert.id does.      *)
AlertType ==
  [rule: {"AGENT", "CORR-KILLCHAIN", "CORR-MULTIHOST"}, n: Nat, about: Nat,
   host: Hosts, tactic: Tactics \cup {"", "lateral-movement"},
   ents: SUBSET Entities, sev: Severities, ts: Nat]

IncidentType ==
  [hosts: SUBSET Hosts, tactics: SUBSET (Tactics \cup {"", "lateral-movement"}),
   entities: SUBSET Entities, alert_ids: Seq(AlertType), severity: Severities,
   status: Statuses, ts_update: Nat, merged_into: Nat]

-----------------------------------------------------------------------------
(* query_incidents(limit=500): the rows updated last; SQL leaves the order *)
(* of rows with the same ts_update open.                                   *)
QueryResults(incs) ==
  {S \in SUBSET DOMAIN incs :
     /\ Cardinality(S) <= QueryLimit
     /\ S # DOMAIN incs => Cardinality(S) = QueryLimit
     /\ \A i \in S, j \in DOMAIN incs \ S : incs[j].ts_update <= incs[i].ts_update}

Current_Reused(incs, i, now) == now - incs[i].ts_update <= Window

\* The rows the engine goes on with: not closed and updated within the window.
Current(incs, i, now) ==
  /\ incs[i].status # "closed"
  /\ now - incs[i].ts_update <= Window

\* The first of S in descending ts_update (any of those that tie), if any.
FirstOf(incs, S) ==
  IF S = {} THEN {NoIncident}
  ELSE {i \in S : \A j \in S : incs[j].ts_update <= incs[i].ts_update}

OwnIncident(incs, open, a) ==
  FirstOf(incs, {i \in open : a.host \in incs[i].hosts})

CrossIncident(incs, open, a) ==
  FirstOf(incs, {i \in open : /\ a.host \notin incs[i].hosts
                              /\ a.ents \cap incs[i].entities # {}})

-----------------------------------------------------------------------------
NewIncident(a) ==
  [hosts |-> {}, tactics |-> {}, entities |-> {}, alert_ids |-> << >>,
   severity |-> a.sev, status |-> "open", ts_update |-> a.ts,
   merged_into |-> NoIncident]

Merge_Shallow(inc, other) ==
  [inc EXCEPT !.hosts = @ \cup other.hosts, !.entities = @ \cup other.entities]

\* What the target takes over from the incident merged into it.
Merge(inc, other) ==
  [inc EXCEPT !.hosts = @ \cup other.hosts,
              !.alert_ids = @ \o other.alert_ids,
              !.tactics = @ \cup other.tactics,
              !.entities = @ \cup other.entities,
              !.severity = MaxSeverity(@, other.severity)]

TacticsOf(a) == IF a.tactic = "" THEN {} ELSE {a.tactic}

\* The entities that may remain of S after sorted(...)[:200].
Truncations(S) ==
  {T \in SUBSET S : /\ Cardinality(T) <= MaxEntities
                    /\ T # S => Cardinality(T) = MaxEntities}

Extend(inc, a, ents) ==
  [inc EXCEPT !.hosts = @ \cup {a.host},
              !.alert_ids = Append(@, a),
              !.tactics = @ \cup TacticsOf(a),
              !.entities = ents,
              !.ts_update = IF a.ts > @ THEN a.ts ELSE @,
              !.severity = MaxSeverity(@, a.sev)]

MultiStage_Late(prev, next) ==
  Cardinality(next.tactics) > 3 /\ Cardinality(prev.tactics) <= 3

MultiStage_Again(prev, next) == Cardinality(next.tactics) >= 3

(* Both conditions compare with the target as it is AFTER a merge: "prev"  *)
(* already has the hosts and tactics of the incident merged into it.       *)
MultiStage(prev, next) ==
  Cardinality(next.tactics) >= 3 /\ Cardinality(prev.tactics) < 3

MultiHost(prev, next) ==
  Cardinality(next.hosts) > 1 /\ Cardinality(prev.hosts) = 1

RaiseSeverity(prev, next) ==
  [next EXCEPT !.severity = IF MultiStage(prev, next) THEN Critical
                            ELSE IF MultiHost(prev, next) THEN MaxSeverity(@, High)
                            ELSE @]

\* The correlation alerts, in the order they are appended to extra.
Extra(prev, next, a, id, n, now) ==
  LET killchain == [rule |-> "CORR-KILLCHAIN", n |-> n, about |-> id, host |-> a.host,
                    tactic |-> a.tactic, ents |-> {}, sev |-> Critical, ts |-> now]
      multihost == [rule |-> "CORR-MULTIHOST", n |-> n, about |-> id, host |-> a.host,
                    tactic |-> "lateral-movement", ents |-> {}, sev |-> High, ts |-> now]
  IN (IF MultiStage(prev, next) THEN <<killchain>> ELSE << >>)
     \o (IF MultiHost(prev, next) THEN <<multihost>> ELSE << >>)

(* One outcome of process(alert): the id of the incident that takes the    *)
(* alert, the incident merged into it (or NoIncident), the new body of the *)
(* target without and with the ids of the correlation alerts, and these.   *)
Outcome(incs, a, own, cross, ents, fresh, now) ==
  LET id     == IF own # NoIncident THEN own
                ELSE IF cross # NoIncident THEN cross ELSE fresh
      other  == IF own # NoIncident THEN cross ELSE NoIncident
      found  == IF id = fresh THEN NewIncident(a) ELSE incs[id]
      prev   == IF other = NoIncident THEN found ELSE Merge(found, incs[other])
      next   == RaiseSeverity(prev, Extend(prev, a, ents))
      extra  == Extra(prev, next, a, id, fresh, now)
  IN [id |-> id, other |-> other, body |-> next, extra |-> extra,
      final |-> [next EXCEPT !.alert_ids = @ \o extra]]

\* The entities of the target before truncation.
EntitiesBefore(incs, a, own, cross) ==
  a.ents \cup (IF own = NoIncident THEN {} ELSE incs[own].entities)
         \cup (IF cross = NoIncident THEN {} ELSE incs[cross].entities)

\* _open_incidents: what the engine may read at time now.
OpenLists(incs, now) ==
  {{i \in rows : Current(incs, i, now)} : rows \in QueryResults(incs)}

\* Every outcome process(a) may have on incs at time now, with fresh ids.
Outcomes(incs, a, fresh, now) ==
  UNION {UNION {UNION {
    {Outcome(incs, a, own, cross, ents, fresh, now) :
       ents \in Truncations(EntitiesBefore(incs, a, own, cross))} :
     cross \in CrossIncident(incs, open, a)} :
     own \in OwnIncident(incs, open, a)} :
     open \in OpenLists(incs, now)}

MergedAway_Open(inc, id) == [inc EXCEPT !.merged_into = id]

MergedAway_Unlinked(inc, id) == [inc EXCEPT !.status = "closed"]

\* The body written for the incident that was merged into id.
MergedAway(inc, id) == [inc EXCEPT !.status = "closed", !.merged_into = id]

=============================================================================
