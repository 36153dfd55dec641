------------------------- MODULE CorrelationProofs -------------------------
(***************************************************************************)
(* Theorems about Correlation, for any hosts, entities, alerts, window,    *)
(* limit and bounds.  The facts the proofs need of a placing are stated    *)
(* once, in PlacingFacts; after it no proof opens the definitions of       *)
(* CorrelationEngine.  The second part is about the correlation alerts of  *)
(* an incident, raised once, and when due unless another incident was      *)
(* merged into it, and about the one incident an alert is counted in; it   *)
(* rests on what a placing raises and counts, Raising and Counting.        *)
(* The third part is about IncidentStore, statement by statement.  Its     *)
(* invariant StoreInv says of each write that is still to come that it     *)
(* fits the tables and the writes before it, PlanInv: so add_alert may     *)
(* stop after any of them.  WritesGood shows it of the list add_alert      *)
(* builds, WriteStep that issuing the first of a list leaves it so.        *)
(* The fourth part is that the statements implement the one step: what a   *)
(* list of writes does, ApplyAll, is found from its first and its last     *)
(* write, and the whole list of add_alert does what the one step of        *)
(* Correlation does, OutcomeIsPlaced.  So the step is taken when the list  *)
(* is made, and each write leaves as it is what the tables settle to.      *)
(***************************************************************************)
EXTENDS IncidentStore, FiniteSetTheorems, SequenceTheorems, WellFoundedInduction, TLAPS

(* The operators by which an alert is placed have no state: those of the   *)
(* instance Atomic are these.  It is used at the end, for the refinement.  *)
LEMMA SameOutcomes ==
  ASSUME NEW i, NEW a, NEW f, NEW n
  PROVE  Atomic!Outcomes(i, a, f, n) = Outcomes(i, a, f, n)
BY ZenonT(60) DEF NoIncident, Info, High, Critical, MaxSeverity, QueryResults, Current, FirstOf,
       OwnIncident, CrossIncident, NewIncident, Merge, TacticsOf, Truncations, Extend,
       MultiStage, MultiHost, RaiseSeverity, Extra, Outcome, EntitiesBefore, OpenLists,
       Outcomes, MergedAway, Cardinality, Atomic!NoIncident, Atomic!Info, Atomic!High,
       Atomic!Critical, Atomic!MaxSeverity, Atomic!QueryResults, Atomic!Current,
       Atomic!FirstOf, Atomic!OwnIncident, Atomic!CrossIncident, Atomic!NewIncident,
       Atomic!Merge, Atomic!TacticsOf, Atomic!Truncations, Atomic!Extend,
       Atomic!MultiStage, Atomic!MultiHost, Atomic!RaiseSeverity, Atomic!Extra,
       Atomic!Outcome, Atomic!EntitiesBefore, Atomic!OpenLists, Atomic!Outcomes,
       Atomic!MergedAway, Atomic!Cardinality

LEMMA ToSetAppend ==
  ASSUME NEW S, NEW s \in Seq(S), NEW x \in S
  PROVE  ToSet(Append(s, x)) = ToSet(s) \cup {x}
<1> DEFINE t == Append(s, x)
<1>1. /\ DOMAIN t = DOMAIN s \cup {Len(s) + 1}
      /\ t[Len(s) + 1] = x
      /\ \A k \in DOMAIN s : t[k] = s[k]
  OBVIOUS
<1> HIDE DEF t
<1>2. ToSet(t) = ToSet(s) \cup {x}
  BY <1>1 DEF ToSet
<1>3. QED BY <1>2 DEF t

LEMMA ToSetConcat ==
  ASSUME NEW S, NEW s \in Seq(S), NEW t \in Seq(S)
  PROVE  ToSet(s \o t) = ToSet(s) \cup ToSet(t)
<1>1. ToSet(s \o t) \subseteq ToSet(s) \cup ToSet(t)
  BY DEF ToSet
<1>2. ToSet(s) \subseteq ToSet(s \o t)
  BY DEF ToSet
<1>3. ToSet(t) \subseteq ToSet(s \o t)
  <2>1. SUFFICES ASSUME NEW k \in DOMAIN t PROVE t[k] \in ToSet(s \o t)
    BY DEF ToSet
  <2>2. Len(s) + k \in DOMAIN (s \o t) /\ (s \o t)[Len(s) + k] = t[k]
    OBVIOUS
  <2>3. QED BY <2>2 DEF ToSet
<1>4. QED BY <1>1, <1>2, <1>3

-----------------------------------------------------------------------------
\* The shape of the table: ids are positive, bodies are incidents.
Table(incs) ==
  /\ DOMAIN incs \subseteq Nat \ {NoIncident}
  /\ \A i \in DOMAIN incs : incs[i] \in IncidentType

IdsIn(incs, i) == IF i \in DOMAIN incs THEN ToSet(incs[i].alert_ids) ELSE {}
HostsIn(incs, i) == IF i \in DOMAIN incs THEN incs[i].hosts ELSE {}

\* What Outcomes promises of an outcome o of placing a on incs.
Placing(incs, a, fresh, now, o) ==
  /\ o.id \in DOMAIN incs \cup {fresh}
  /\ o.id \in DOMAIN incs => Current(incs, o.id, now)
  /\ o.other # NoIncident =>
       /\ o.id \in DOMAIN incs /\ o.other \in DOMAIN incs
       /\ o.id # o.other
       /\ Current(incs, o.other, now)
  /\ o.final \in IncidentType
  /\ o.extra \in Seq(AlertType)
  /\ \A x \in ToSet(o.extra) : x.host = a.host /\ x.sev # Info
  /\ o.final.merged_into = IF o.id \in DOMAIN incs THEN incs[o.id].merged_into ELSE NoIncident
  /\ o.final.status = IF o.id \in DOMAIN incs THEN incs[o.id].status ELSE "open"
  /\ ToSet(o.final.alert_ids) =
       IdsIn(incs, o.id) \cup IdsIn(incs, o.other) \cup {a} \cup ToSet(o.extra)
  /\ o.final.hosts = HostsIn(incs, o.id) \cup HostsIn(incs, o.other) \cup {a.host}

(* When every row is read, the incident that takes the alert is the open   *)
(* incident of its host, if it has one.                                    *)
PlacedAtHome(incs, a, now, o) ==
  (IsFiniteSet(DOMAIN incs) /\ Cardinality(DOMAIN incs) <= QueryLimit) =>
    ((\E i \in DOMAIN incs : Current(incs, i, now) /\ a.host \in incs[i].hosts) =>
       o.id \in DOMAIN incs /\ a.host \in incs[o.id].hosts)

LEMMA IncidentFields ==
  ASSUME NEW inc \in IncidentType
  PROVE  /\ inc.hosts \subseteq Hosts
         /\ inc.entities \subseteq Entities
         /\ inc.alert_ids \in Seq(AlertType)
         /\ inc.severity \in Severities
         /\ inc.status \in Statuses
         /\ inc.ts_update \in Nat
         /\ inc.merged_into \in Nat
BY DEF IncidentType

LEMMA AlertFields ==
  ASSUME NEW a \in AlertType
  PROVE  /\ a.host \in Hosts
         /\ a.tactic \in Tactics \cup {"", "lateral-movement"}
         /\ a.ents \subseteq Entities
         /\ a.sev \in Severities
         /\ a.ts \in Nat
BY DEF AlertType

LEMMA MaxSeverityType ==
  ASSUME NEW s \in Severities, NEW t \in Severities
  PROVE  MaxSeverity(s, t) \in Severities
BY DEF MaxSeverity

LEMMA RankType == High \in Severities /\ Critical \in Severities
BY DEF Severities, High, Critical

LEMMA ExtraType ==
  ASSUME NEW prev \in IncidentType, NEW next \in IncidentType, NEW a \in AlertType,
         NEW id \in Nat, NEW n \in Nat, NEW now \in Nat
  PROVE  /\ Extra(prev, next, a, id, n, now) \in Seq(AlertType)
         /\ ToSet(Extra(prev, next, a, id, n, now)) \subseteq {x \in AlertType : x.host = a.host /\ x.sev # Info}
<1> DEFINE killchain == [rule |-> "CORR-KILLCHAIN", n |-> n, about |-> id, host |-> a.host,
                         tactic |-> a.tactic, ents |-> {}, sev |-> Critical, ts |-> now]
           multihost == [rule |-> "CORR-MULTIHOST", n |-> n, about |-> id, host |-> a.host,
                         tactic |-> "lateral-movement", ents |-> {}, sev |-> High, ts |-> now]
<1>1. killchain \in AlertType /\ multihost \in AlertType
  <2>1. /\ a.host \in Hosts
        /\ a.tactic \in Tactics \cup {"", "lateral-movement"}
        /\ Critical \in Severities /\ High \in Severities
    BY AlertFields, RankType
  <2>2. killchain \in AlertType
    BY <2>1 DEF AlertType
  <2>3. multihost \in AlertType
    BY <2>1 DEF AlertType
  <2>4. QED BY <2>2, <2>3
<1> DEFINE first  == IF MultiStage(prev, next) THEN <<killchain>> ELSE << >>
           second == IF MultiHost(prev, next) THEN <<multihost>> ELSE << >>
<1>2. /\ killchain.host = a.host /\ multihost.host = a.host
      /\ killchain.sev # Info /\ multihost.sev # Info
  BY DEF Critical, High, Info
<1> HIDE DEF killchain, multihost
<1>3. /\ first \in Seq(AlertType) /\ second \in Seq(AlertType)
      /\ ToSet(first) \subseteq {killchain} /\ ToSet(second) \subseteq {multihost}
  BY <1>1 DEF ToSet
<1>4. Extra(prev, next, a, id, n, now) = first \o second
  BY DEF Extra, killchain, multihost
<1> HIDE DEF first, second
<1>5. first \o second \in Seq(AlertType) /\ ToSet(first \o second) \subseteq {killchain, multihost}
  BY <1>3, ToSetConcat
<1>6. QED BY <1>1, <1>2, <1>4, <1>5

LEMMA MergeType ==
  ASSUME NEW inc \in IncidentType, NEW other \in IncidentType
  PROVE  /\ Merge(inc, other) \in IncidentType
         /\ Merge(inc, other).status = inc.status
         /\ Merge(inc, other).merged_into = inc.merged_into
         /\ Merge(inc, other).ts_update = inc.ts_update
         /\ Merge(inc, other).hosts = inc.hosts \cup other.hosts
         /\ Merge(inc, other).entities = inc.entities \cup other.entities
         /\ ToSet(Merge(inc, other).alert_ids) =
              ToSet(inc.alert_ids) \cup ToSet(other.alert_ids)
<1>0. inc.alert_ids \in Seq(AlertType) /\ other.alert_ids \in Seq(AlertType)
  BY IncidentFields
<1>1. inc.alert_ids \o other.alert_ids \in Seq(AlertType)
  BY <1>0
<1>2. ToSet(inc.alert_ids \o other.alert_ids) = ToSet(inc.alert_ids) \cup ToSet(other.alert_ids)
  BY <1>0, ToSetConcat
<1>3. MaxSeverity(inc.severity, other.severity) \in Severities
  BY IncidentFields, MaxSeverityType
<1>4. QED BY <1>1, <1>2, <1>3 DEF Merge, IncidentType

LEMMA MergedAwayType ==
  ASSUME NEW inc \in IncidentType, NEW id \in Nat
  PROVE  /\ MergedAway(inc, id) \in IncidentType
         /\ MergedAway(inc, id).status = "closed"
         /\ MergedAway(inc, id).merged_into = id
         /\ MergedAway(inc, id).hosts = inc.hosts
         /\ MergedAway(inc, id).alert_ids = inc.alert_ids
BY DEF MergedAway, IncidentType, Statuses

LEMMA ExtendType ==
  ASSUME NEW inc \in IncidentType, NEW a \in AlertType, NEW ents \in SUBSET Entities
  PROVE  /\ Extend(inc, a, ents) \in IncidentType
         /\ Extend(inc, a, ents).status = inc.status
         /\ Extend(inc, a, ents).merged_into = inc.merged_into
         /\ Extend(inc, a, ents).hosts = inc.hosts \cup {a.host}
         /\ Extend(inc, a, ents).ts_update = IF a.ts > inc.ts_update THEN a.ts ELSE inc.ts_update
         /\ ToSet(Extend(inc, a, ents).alert_ids) = ToSet(inc.alert_ids) \cup {a}
<1>0. inc.alert_ids \in Seq(AlertType)
  BY IncidentFields
<1>1. Append(inc.alert_ids, a) \in Seq(AlertType)
  BY <1>0
<1>2. ToSet(Append(inc.alert_ids, a)) = ToSet(inc.alert_ids) \cup {a}
  BY <1>0, ToSetAppend
<1>3. MaxSeverity(inc.severity, a.sev) \in Severities
  BY IncidentFields, AlertFields, MaxSeverityType
<1>4. a.host \in Hosts /\ TacticsOf(a) \subseteq Tactics \cup {"", "lateral-movement"} /\ a.ts \in Nat
  BY AlertFields DEF TacticsOf
<1>5. QED BY <1>1, <1>2, <1>3, <1>4 DEF Extend, IncidentType

LEMMA RaiseType ==
  ASSUME NEW prev, NEW next \in IncidentType
  PROVE  /\ RaiseSeverity(prev, next) \in IncidentType
         /\ RaiseSeverity(prev, next).status = next.status
         /\ RaiseSeverity(prev, next).merged_into = next.merged_into
         /\ RaiseSeverity(prev, next).hosts = next.hosts
         /\ RaiseSeverity(prev, next).ts_update = next.ts_update
         /\ RaiseSeverity(prev, next).alert_ids = next.alert_ids
<1>1. MaxSeverity(next.severity, High) \in Severities /\ Critical \in Severities
  BY IncidentFields, MaxSeverityType, RankType
<1>2. QED BY <1>1 DEF RaiseSeverity, IncidentType

-----------------------------------------------------------------------------
LEMMA OpenListFacts ==
  ASSUME NEW incs, Table(incs), NEW now \in Nat, NEW open \in OpenLists(incs, now)
  PROVE  /\ open \subseteq DOMAIN incs
         /\ \A i \in open : Current(incs, i, now)
         /\ (IsFiniteSet(DOMAIN incs) /\ Cardinality(DOMAIN incs) <= QueryLimit) =>
              \A i \in DOMAIN incs : Current(incs, i, now) => i \in open
<1>1. PICK rows \in QueryResults(incs) : open = {i \in rows : Current(incs, i, now)}
  BY DEF OpenLists
<1>2. /\ rows \subseteq DOMAIN incs
      /\ rows # DOMAIN incs => Cardinality(rows) = QueryLimit
  BY DEF QueryResults
<1>3. ASSUME IsFiniteSet(DOMAIN incs), Cardinality(DOMAIN incs) <= QueryLimit
      PROVE  rows = DOMAIN incs
  <2>1. Cardinality(rows) <= Cardinality(DOMAIN incs) /\ Cardinality(DOMAIN incs) \in Nat
        /\ (Cardinality(rows) = Cardinality(DOMAIN incs) => rows = DOMAIN incs)
    BY <1>2, <1>3, FS_Subset, FS_CardinalityType
  <2>2. QED BY <2>1, <1>2, <1>3, QueryLimitAssumption
<1>4. QED BY <1>1, <1>2, <1>3

LEMMA OutcomeFacts ==
  ASSUME NEW incs, Table(incs), NEW a \in AlertType, NEW fresh \in Nat \ {NoIncident},
         fresh \notin DOMAIN incs, NEW now \in Nat,
         NEW own \in DOMAIN incs \cup {NoIncident},
         own # NoIncident => Current(incs, own, now) /\ a.host \in incs[own].hosts,
         NEW cross \in DOMAIN incs \cup {NoIncident},
         cross # NoIncident => Current(incs, cross, now) /\ a.host \notin incs[cross].hosts,
         NEW ents \in SUBSET Entities
  PROVE  /\ Placing(incs, a, fresh, now, Outcome(incs, a, own, cross, ents, fresh, now))
         /\ own # NoIncident => Outcome(incs, a, own, cross, ents, fresh, now).id = own
<1> DEFINE id     == IF own # NoIncident THEN own
                     ELSE IF cross # NoIncident THEN cross ELSE fresh
           other  == IF own # NoIncident THEN cross ELSE NoIncident
           found  == IF id = fresh THEN NewIncident(a) ELSE incs[id]
           prev   == IF other = NoIncident THEN found ELSE Merge(found, incs[other])
           ext    == Extend(prev, a, ents)
           next   == RaiseSeverity(prev, ext)
           extra  == Extra(prev, next, a, id, fresh, now)
           final  == [next EXCEPT !.alert_ids = @ \o extra]
           o      == Outcome(incs, a, own, cross, ents, fresh, now)
<1>1. /\ o.id = id /\ o.other = other /\ o.extra = extra /\ o.final = final
  BY DEF Outcome
<1> HIDE DEF o
<1>2. /\ id \in DOMAIN incs \cup {fresh}
      /\ id \in Nat
      /\ id \in DOMAIN incs => Current(incs, id, now)
      /\ other \in DOMAIN incs \cup {NoIncident}
      /\ other # NoIncident => id \in DOMAIN incs /\ id # other /\ Current(incs, other, now)
      /\ NoIncident \notin DOMAIN incs
      /\ own # NoIncident => id = own
  BY DEF Table
<1> HIDE DEF id, other
<1>3. NewIncident(a) \in IncidentType /\ ToSet(NewIncident(a).alert_ids) = {}
  <2>1. << >> \in Seq(AlertType) /\ ToSet(<< >>) = {}
    BY DEF ToSet
  <2>2. "open" \in Statuses /\ NoIncident \in Nat
    BY DEF Statuses, NoIncident
  <2>3. QED BY <2>1, <2>2, AlertFields DEF NewIncident, IncidentType
<1>4. /\ found \in IncidentType
      /\ found.status = IF id \in DOMAIN incs THEN incs[id].status ELSE "open"
      /\ found.merged_into = IF id \in DOMAIN incs THEN incs[id].merged_into ELSE NoIncident
      /\ ToSet(found.alert_ids) = IdsIn(incs, id)
      /\ found.hosts = HostsIn(incs, id)
  BY <1>2, <1>3 DEF Table, IdsIn, HostsIn, NewIncident
<1> HIDE DEF found
<1>5. /\ prev \in IncidentType
      /\ prev.status = found.status
      /\ prev.merged_into = found.merged_into
      /\ ToSet(prev.alert_ids) = IdsIn(incs, id) \cup IdsIn(incs, other)
      /\ prev.hosts = HostsIn(incs, id) \cup HostsIn(incs, other)
  BY <1>2, <1>4, MergeType DEF Table, IdsIn, HostsIn
<1> HIDE DEF prev
<1>6. /\ ext \in IncidentType
      /\ ext.status = prev.status
      /\ ext.merged_into = prev.merged_into
      /\ ToSet(ext.alert_ids) = ToSet(prev.alert_ids) \cup {a}
      /\ ext.hosts = prev.hosts \cup {a.host}
  BY <1>5, ExtendType
<1> HIDE DEF ext
<1>7. /\ next \in IncidentType
      /\ next.status = ext.status
      /\ next.merged_into = ext.merged_into
      /\ next.alert_ids = ext.alert_ids
      /\ next.hosts = ext.hosts
  BY <1>6, RaiseType
<1> HIDE DEF next
<1>8. extra \in Seq(AlertType) /\ \A x \in ToSet(extra) : x.host = a.host /\ x.sev # Info
  <2>1. id \in Nat /\ fresh \in Nat
    BY <1>2
  <2>2. prev \in IncidentType /\ next \in IncidentType
    BY <1>5, <1>7
  <2>3. /\ Extra(prev, next, a, id, fresh, now) \in Seq(AlertType)
        /\ ToSet(Extra(prev, next, a, id, fresh, now)) \subseteq {x \in AlertType : x.host = a.host /\ x.sev # Info}
    BY <2>1, <2>2, ExtraType
  <2>4. QED BY <2>3 DEF extra
<1> HIDE DEF extra
<1>9. next.alert_ids \in Seq(AlertType)
  BY <1>7, IncidentFields
<1>10. /\ next.alert_ids \o extra \in Seq(AlertType)
       /\ ToSet(next.alert_ids \o extra) = ToSet(next.alert_ids) \cup ToSet(extra)
  BY <1>8, <1>9, ToSetConcat
<1>11. /\ final \in IncidentType
       /\ final.status = next.status
       /\ final.merged_into = next.merged_into
       /\ final.alert_ids = next.alert_ids \o extra
       /\ final.hosts = next.hosts
  BY <1>7, <1>10 DEF IncidentType
<1> HIDE DEF final
<1>12. /\ final.merged_into = IF id \in DOMAIN incs THEN incs[id].merged_into ELSE NoIncident
       /\ final.status = IF id \in DOMAIN incs THEN incs[id].status ELSE "open"
  BY <1>4, <1>5, <1>6, <1>7, <1>11
<1>13. ToSet(final.alert_ids) = IdsIn(incs, id) \cup IdsIn(incs, other) \cup {a} \cup ToSet(extra)
  BY <1>5, <1>6, <1>7, <1>10, <1>11
<1>14. final.hosts = HostsIn(incs, id) \cup HostsIn(incs, other) \cup {a.host}
  BY <1>5, <1>6, <1>7, <1>11
<1>15. Placing(incs, a, fresh, now, o)
  BY <1>1, <1>2, <1>8, <1>11, <1>12, <1>13, <1>14 DEF Placing
<1>16. QED BY <1>1, <1>2, <1>15 DEF o

(* Every outcome process() may have satisfies Placing, and PlacedAtHome.   *)
LEMMA PlacingFacts ==
  ASSUME NEW incs, Table(incs), NEW a \in AlertType, NEW fresh \in Nat \ {NoIncident},
         fresh \notin DOMAIN incs, NEW now \in Nat,
         NEW o \in Outcomes(incs, a, fresh, now)
  PROVE  Placing(incs, a, fresh, now, o) /\ PlacedAtHome(incs, a, now, o)
<1>1. PICK open \in OpenLists(incs, now) :
        \E own \in OwnIncident(incs, open, a) : \E cross \in CrossIncident(incs, open, a) :
          \E ents \in Truncations(EntitiesBefore(incs, a, own, cross)) :
            o = Outcome(incs, a, own, cross, ents, fresh, now)
  BY DEF Outcomes
<1>a. PICK own \in OwnIncident(incs, open, a), cross \in CrossIncident(incs, open, a) :
        \E ents \in Truncations(EntitiesBefore(incs, a, own, cross)) :
          o = Outcome(incs, a, own, cross, ents, fresh, now)
  BY <1>1
<1>b. PICK ents \in Truncations(EntitiesBefore(incs, a, own, cross)) :
        o = Outcome(incs, a, own, cross, ents, fresh, now)
  BY <1>a
<1>2. /\ open \subseteq DOMAIN incs
      /\ \A i \in open : Current(incs, i, now)
  BY OpenListFacts
<1>3. /\ own \in DOMAIN incs \cup {NoIncident}
      /\ own # NoIncident => Current(incs, own, now) /\ a.host \in incs[own].hosts
      /\ own = NoIncident => \A i \in open : a.host \notin incs[i].hosts
  BY <1>1, <1>2 DEF OwnIncident, FirstOf, Table
<1>4. /\ cross \in DOMAIN incs \cup {NoIncident}
      /\ cross # NoIncident => Current(incs, cross, now) /\ a.host \notin incs[cross].hosts
  BY <1>1, <1>2 DEF CrossIncident, FirstOf
<1>5. ents \subseteq Entities
  <2>1. ents \subseteq EntitiesBefore(incs, a, own, cross)
    BY <1>b DEF Truncations
  <2>2. EntitiesBefore(incs, a, own, cross) \subseteq Entities
    BY <1>3, <1>4, AlertFields, IncidentFields DEF EntitiesBefore, Table
  <2>3. QED BY <2>1, <2>2
<1>6. Placing(incs, a, fresh, now, o) /\ (own # NoIncident => o.id = own)
  BY <1>b, <1>3, <1>4, <1>5, OutcomeFacts
<1>7. PlacedAtHome(incs, a, now, o)
  BY <1>3, <1>6, OpenListFacts DEF PlacedAtHome, Table
<1>8. QED BY <1>6, <1>7

-----------------------------------------------------------------------------
(* Strengthening: the hosts of an incident are those of its alerts, at     *)
(* least, and an "info" alert is listed nowhere.                           *)
ListedFits ==
  ~overlapped =>
    \A i \in DOMAIN incidents : \A x \in Listed(i) :
      x.host \in incidents[i].hosts /\ x.sev # Info

\* Strengthening: what was merged away is closed, so it is never merged into.
MergedAreClosed ==
  (~overlapped /\ ~reopened) =>
    \A i \in DOMAIN incidents :
      incidents[i].merged_into # NoIncident => incidents[i].status = "closed"

(* Strengthening: the alerts that are to follow a change are stored, and   *)
(* while no alert arrived during one, the body to be written differs from  *)
(* the row in its status only, and those alerts follow what was written.   *)
Fresh ==
  /\ console.step = "put" =>
       console.body = [incidents[console.id] EXCEPT !.status = console.body.status]
  /\ console.step = "query" => incidents[console.id].status = console.status
  /\ console.step = "alerts" =>
       \A x \in console.left : incidents[alerts[x].incident].status = console.status

ConsoleFits ==
  /\ console.step \in {"put", "query"} => console.id \in DOMAIN incidents
  /\ console.step = "alerts" => console.left \subseteq DOMAIN alerts
  /\ ~overlapped => Fresh

\* Nothing but the shapes is said once an alert overlapped a status change.
Undisturbed ==
  /\ AlertHome
  /\ ClosedTogether
  /\ ListedFits
  /\ UniqueOpenIncident
  /\ OpenListsAreHomes
  /\ MergedAreClosed
  /\ NoMergeCycle

IInv ==
  /\ TypeOK
  /\ ConsoleFits
  /\ Undisturbed

LEMMA NothingOnceOverlapped == overlapped => Undisturbed
BY DEF Undisturbed, AlertHome, ClosedTogether, ListedFits, UniqueOpenIncident,
   OpenListsAreHomes, MergedAreClosed, NoMergeCycle

LEMMA IdleIsIdle ==
  ASSUME console = Idle
  PROVE  /\ console.step = "idle" /\ Following = {} /\ ConsoleFits /\ console \in ConsoleType
BY DEF Idle, Following, ConsoleFits, Fresh, ConsoleType

LEMMA InitIInv == Init => IInv
<1> SUFFICES ASSUME Init PROVE IInv
  OBVIOUS
<1>1. incidents = << >> /\ DOMAIN incidents = {} /\ alerts = << >> /\ DOMAIN alerts = {}
  BY DEF Init
<1>2. TypeOK
  <2>1. incidents \in [DOMAIN incidents -> IncidentType]
    BY <1>1
  <2>2. alerts \in [DOMAIN alerts -> RowType]
    BY <1>1
  <2>3. commands \in [Hosts -> Nat]
    BY DEF Init
  <2>4. console \in ConsoleType
    BY IdleIsIdle DEF Init
  <2>5. QED BY <1>1, <2>1, <2>2, <2>3, <2>4 DEF Init, TypeOK
<1>3. ConsoleFits
  BY IdleIsIdle DEF Init
<1>4. QED
  BY <1>1, <1>2, <1>3 DEF IInv, Undisturbed, AlertHome, ClosedTogether, ListedFits, UniqueOpenIncident,
     OpenListsAreHomes, MergedAreClosed, NoMergeCycle, OpenIncidents

(* One placing, in the terms the invariants need: the rows after it.       *)
Effect(o, a) ==
  /\ Placing(incidents, a, processed + 1, clock, o)
  /\ PlacedAtHome(incidents, a, clock, o)
  /\ NoIncident \notin DOMAIN incidents \cup {o.id}
  /\ DOMAIN incidents' = DOMAIN incidents \cup {o.id}
  /\ incidents'[o.id] = o.final
  /\ o.other # NoIncident => incidents'[o.other] = MergedAway(incidents[o.other], o.id)
  /\ \A i \in DOMAIN incidents : i \notin {o.id, o.other} => incidents'[i] = incidents[i]
  /\ DOMAIN alerts' = DOMAIN alerts \cup Added(o, a)
  /\ \A x \in Added(o, a) : alerts'[x] = [incident |-> o.id, status |-> "open"]
  /\ \A x \in DOMAIN alerts \ Added(o, a) :
       /\ x \in Repointed(o) => alerts'[x] = [alerts[x] EXCEPT !.incident = o.id]
       /\ x \notin Repointed(o) => alerts'[x] = alerts[x]
  /\ commands' = Isolations(o, a)
  /\ UNCHANGED <<clock, edits, console, crashes, reopened, touched, partial>>
  /\ overlapped' = (overlapped \/ console # Idle)
  /\ processed' = processed + 1

LEMMA AddAlertEffect ==
  ASSUME IInv, NEW a \in AgentAlerts, AddAlert(a)
  PROVE  \E o : Effect(o, a)
<1>1. a \in AlertType
  BY AgentAlertsAssumption
<1>2. /\ Table(incidents) /\ processed + 1 \in Nat \ {NoIncident}
      /\ processed + 1 \notin DOMAIN incidents /\ clock \in Nat
  BY DEF IInv, TypeOK, Table, NoIncident
<1>3. PICK o \in Outcomes(incidents, a, processed + 1, clock) :
        incidents' = Placed(o) /\ alerts' = Stored(o, a) /\ commands' = Isolations(o, a)
  BY DEF AddAlert
<1>4. /\ Placing(incidents, a, processed + 1, clock, o)
      /\ PlacedAtHome(incidents, a, clock, o)
  BY <1>1, <1>2, PlacingFacts
<1>5. /\ NoIncident \notin DOMAIN incidents \cup {o.id}
      /\ o.other # NoIncident => o.other \in DOMAIN incidents /\ o.other # o.id
  BY <1>2, <1>4 DEF Table, Placing
<1>6. Effect(o, a)
  BY <1>3, <1>4, <1>5 DEF Effect, Placed, Stored, AddAlert, Arrive
<1>7. QED BY <1>6

(* After a placing, an open incident is the one that took the alert or one *)
(* that was open before and was not touched.                               *)
LEMMA OpenAfterAddAlert ==
  ASSUME TypeOK, NEW a, NEW o, Effect(o, a), NEW i \in OpenIncidents', i # o.id
  PROVE  i \in OpenIncidents /\ i # o.other /\ incidents'[i] = incidents[i]
<1>1. i \in DOMAIN incidents /\ incidents'[i].status # "closed"
  BY DEF Effect, OpenIncidents, Current
<1>2. i # o.other
  <2>1. SUFFICES ASSUME i = o.other PROVE FALSE
    OBVIOUS
  <2>2. i # NoIncident
    BY <1>1 DEF Effect
  <2>3. incidents'[i] = MergedAway(incidents[i], o.id)
    BY <2>1, <2>2 DEF Effect
  <2>4. MergedAway(incidents[i], o.id).status = "closed"
    BY <1>1 DEF TypeOK, MergedAway, IncidentType
  <2>5. QED BY <1>1, <2>3, <2>4
<1>3. incidents'[i] = incidents[i]
  BY <1>1, <1>2 DEF Effect
<1>4. QED BY <1>1, <1>2, <1>3 DEF OpenIncidents, Current, Effect

\* The incident that took the alert was open before, unless it is new.
LEMMA TakerWasOpen ==
  ASSUME NEW a, NEW o, Effect(o, a)
  PROVE  /\ o.id \in DOMAIN incidents => o.id \in OpenIncidents
         /\ o.other # NoIncident =>
              o.other \in OpenIncidents /\ o.id \in OpenIncidents /\ o.id # o.other
BY DEF Effect, Placing, OpenIncidents

LEMMA AddAlertType ==
  ASSUME IInv, NEW a \in AgentAlerts, AddAlert(a), NEW o, Effect(o, a)
  PROVE  TypeOK'
<1>1. a \in AlertType
  BY AgentAlertsAssumption
<1>2. processed \in Nat /\ processed' = processed + 1 /\ o.id \in DOMAIN incidents \cup {processed + 1}
  BY DEF IInv, TypeOK, Effect, Placing
<1>3. DOMAIN incidents' \subseteq 1..processed'
  BY <1>2 DEF IInv, TypeOK, Effect
<1>4. incidents' \in [DOMAIN incidents' -> IncidentType]
  <2>1. \A i \in DOMAIN incidents \cup {o.id} : incidents'[i] \in IncidentType
    <3>1. \A inc \in IncidentType : MergedAway(inc, o.id) \in IncidentType
      <4>1. o.id \in Nat
        BY <1>2 DEF IInv, TypeOK
      <4>2. QED BY <4>1, MergedAwayType
    <3>2. \A i \in DOMAIN incidents : incidents[i] \in IncidentType
      BY DEF IInv, TypeOK
    <3>3. o.final \in IncidentType
      BY DEF Effect, Placing
    <3>4. QED BY <3>1, <3>2, <3>3 DEF Effect
  <2>2. PICK q \in Outcomes(incidents, a, processed + 1, clock) : incidents' = Placed(q)
    BY DEF AddAlert
  <2>3. QED BY <2>1, <2>2 DEF Effect, Placed
<1>5. Added(o, a) \subseteq AlertType
  BY <1>1 DEF Effect, Placing, Added, ToSet
<1>6. alerts' \in [DOMAIN alerts' -> RowType]
  <2>1. PICK q \in Outcomes(incidents, a, processed + 1, clock) : alerts' = Stored(q, a)
    BY DEF AddAlert
  <2>2. o.id \in Nat
    BY <1>2 DEF IInv, TypeOK
  <2>3. [incident |-> o.id, status |-> "open"] \in RowType
    BY <2>2 DEF RowType, Statuses
  <2>4. \A r \in RowType : [r EXCEPT !.incident = o.id] \in RowType
    BY <2>2 DEF RowType
  <2>5. \A x \in DOMAIN alerts : alerts[x] \in RowType
    BY DEF IInv, TypeOK
  <2>6. \A x \in DOMAIN alerts' : alerts'[x] \in RowType
    BY <2>3, <2>4, <2>5 DEF Effect
  <2>7. QED BY <2>1, <2>6 DEF Stored
<1>7. commands' \in [Hosts -> Nat]
  <2>1. o.extra \in Seq(AlertType) /\ commands' = Isolations(o, a) /\ commands \in [Hosts -> Nat]
    BY DEF Effect, Placing, IInv, TypeOK
  <2>2. Len(o.extra) \in Nat
    BY <2>1
  <2>3. QED BY <2>1, <2>2 DEF Isolations
<1>8. redelivered' \subseteq AgentAlerts
  BY DEF AddAlert, Arrive, IInv, TypeOK
<1>9. DOMAIN alerts' \subseteq AlertType
  BY <1>5 DEF Effect, IInv, TypeOK
<1>10. /\ clock' \in Nat /\ processed' \in Nat /\ edits' \in Nat /\ crashes' \in Nat
       /\ console' \in ConsoleType /\ reopened' \in BOOLEAN /\ overlapped' \in BOOLEAN
       /\ touched' \subseteq AlertType /\ partial' \subseteq Nat
  BY <1>2 DEF Effect, IInv, TypeOK
<1>11. QED BY <1>3, <1>4, <1>6, <1>7, <1>8, <1>9, <1>10 DEF TypeOK

LEMMA AddAlertHome ==
  ASSUME IInv, ~overlapped, NEW a \in AgentAlerts, NEW o, Effect(o, a)
  PROVE  AlertHome'
<1>1. SUFFICES ASSUME NEW x \in DOMAIN alerts', alerts'[x].incident # NoIncident
               PROVE  /\ alerts'[x].incident \in DOMAIN incidents'
                      /\ x \in ToSet(incidents'[alerts'[x].incident].alert_ids)
  BY DEF AlertHome, Listed
<1>2. ToSet(incidents'[o.id].alert_ids) =
        IdsIn(incidents, o.id) \cup IdsIn(incidents, o.other) \cup Added(o, a)
  BY DEF Effect, Placing, Added
<1>3. CASE x \in Added(o, a)
  BY <1>2, <1>3 DEF Effect
<1>4. CASE x \notin Added(o, a) /\ x \in Repointed(o)
  <2>1. alerts'[x].incident = o.id
    BY <1>1, <1>4 DEF Effect, IInv, TypeOK, RowType
  <2>2. x \in IdsIn(incidents, o.other)
    BY <1>4 DEF Repointed, IdsIn, Effect, Placing
  <2>3. QED BY <1>2, <2>1, <2>2 DEF Effect
<1>5. CASE x \notin Added(o, a) /\ x \notin Repointed(o)
  <2> DEFINE i == alerts[x].incident
  <2>1. alerts'[x] = alerts[x] /\ i \in DOMAIN incidents /\ x \in ToSet(incidents[i].alert_ids)
    BY <1>1, <1>5 DEF Effect, IInv, Undisturbed, AlertHome, Listed
  <2>2. i # o.other
    BY <1>5, <2>1 DEF Repointed, Effect
  <2>3. x \in ToSet(incidents'[i].alert_ids)
    BY <1>2, <2>1, <2>2 DEF Effect, IdsIn
  <2>4. QED BY <2>1, <2>3 DEF Effect
<1>6. QED BY <1>3, <1>4, <1>5

LEMMA AddAlertClosedTogether ==
  ASSUME IInv, ~overlapped', NEW a \in AgentAlerts, NEW o, Effect(o, a)
  PROVE  ClosedTogether'
<1>0. ~overlapped /\ Following = {} /\ UNCHANGED <<touched, partial>>
  BY IdleIsIdle DEF Effect
<1>1. SUFFICES ASSUME NEW x \in DOMAIN alerts', alerts'[x].incident # NoIncident,
                      x \notin touched, alerts'[x].incident \notin partial,
                      incidents'[alerts'[x].incident].status = "closed"
               PROVE  alerts'[x].status = "closed"
  BY <1>0 DEF ClosedTogether
<1>2. incidents'[o.id].status # "closed"
  BY TakerWasOpen DEF Effect, Placing, OpenIncidents, Current
<1>3. x \notin Added(o, a) /\ x \notin Repointed(o)
  <2>1. x \in Added(o, a) => alerts'[x].incident = o.id
    BY DEF Effect
  <2>2. x \notin Added(o, a) /\ x \in Repointed(o) => alerts'[x].incident = o.id
    BY <1>1 DEF Effect, IInv, TypeOK, RowType
  <2>3. QED BY <1>1, <1>2, <2>1, <2>2
<1> DEFINE i == alerts[x].incident
<1>4. /\ alerts'[x] = alerts[x] /\ i \in DOMAIN incidents /\ x \in ToSet(incidents[i].alert_ids)
      /\ i # o.id /\ touched' = touched /\ x \in DOMAIN alerts
  BY <1>0, <1>1, <1>2, <1>3 DEF Effect, IInv, Undisturbed, AlertHome, Listed
<1>5. i # o.other
  BY <1>1, <1>3, <1>4 DEF Repointed, Effect
<1>6. incidents'[i] = incidents[i]
  BY <1>4, <1>5 DEF Effect
<1>7. QED BY <1>0, <1>1, <1>4, <1>6 DEF IInv, Undisturbed, ClosedTogether

LEMMA AddAlertListedFits ==
  ASSUME IInv, ~overlapped, NEW a \in AgentAlerts, a.sev # Info, NEW o, Effect(o, a)
  PROVE  ListedFits'
<1>1. SUFFICES ASSUME NEW i \in DOMAIN incidents', NEW x \in ToSet(incidents'[i].alert_ids)
               PROVE  x.host \in incidents'[i].hosts /\ x.sev # Info
  BY DEF ListedFits, Listed
<1>2. CASE i = o.id
  <2>1. /\ ToSet(incidents'[i].alert_ids) =
             IdsIn(incidents, o.id) \cup IdsIn(incidents, o.other) \cup {a} \cup ToSet(o.extra)
        /\ incidents'[i].hosts =
             HostsIn(incidents, o.id) \cup HostsIn(incidents, o.other) \cup {a.host}
        /\ \A y \in ToSet(o.extra) : y.host = a.host /\ y.sev # Info
    BY <1>2 DEF Effect, Placing
  <2>2. \A j : \A y \in IdsIn(incidents, j) : y.host \in HostsIn(incidents, j) /\ y.sev # Info
    BY DEF IdsIn, HostsIn, IInv, Undisturbed, ListedFits, Listed
  <2>3. QED BY <1>1, <2>1, <2>2
<1>3. CASE i # o.id
  <2>1. i \in DOMAIN incidents /\ incidents[i] \in IncidentType /\ i # NoIncident
    BY <1>3 DEF Effect, IInv, TypeOK
  <2>2. incidents'[i].alert_ids = incidents[i].alert_ids /\ incidents'[i].hosts = incidents[i].hosts
    <3>1. o.id \in Nat
      BY DEF Effect, Placing, IInv, TypeOK
    <3>2. CASE i = o.other
      BY <2>1, <3>1, <3>2, MergedAwayType DEF Effect
    <3>3. CASE i # o.other
      BY <1>3, <2>1, <3>3 DEF Effect
    <3>4. QED BY <3>2, <3>3
  <2>3. QED BY <1>1, <2>1, <2>2 DEF IInv, Undisturbed, ListedFits, Listed
<1>4. QED BY <1>2, <1>3

\* Rows are only added: had the table fewer rows than LIMIT after, so before.
LEMMA LimitBefore ==
  ASSUME IInv, ~overlapped, NEW a, NEW o, Effect(o, a), Cardinality(DOMAIN incidents') <= QueryLimit
  PROVE  IsFiniteSet(DOMAIN incidents) /\ Cardinality(DOMAIN incidents) <= QueryLimit
<1>1. processed \in Int /\ DOMAIN incidents \subseteq 1..processed
  BY DEF IInv, TypeOK
<1>2. IsFiniteSet(1..processed)
  BY <1>1, FS_Interval
<1>3. IsFiniteSet(DOMAIN incidents)
  BY <1>1, <1>2, FS_Subset
<1>4. IsFiniteSet(DOMAIN incidents') /\ DOMAIN incidents \subseteq DOMAIN incidents'
  BY <1>3, FS_AddElement DEF Effect
<1>5. /\ Cardinality(DOMAIN incidents) <= Cardinality(DOMAIN incidents')
      /\ Cardinality(DOMAIN incidents) \in Nat /\ Cardinality(DOMAIN incidents') \in Nat
  BY <1>3, <1>4, FS_Subset, FS_CardinalityType
<1>6. QED BY <1>3, <1>5, QueryLimitAssumption

LEMMA AddAlertUnique ==
  ASSUME IInv, ~overlapped, NEW a \in AgentAlerts, NEW o, Effect(o, a)
  PROVE  UniqueOpenIncident'
<1>1. SUFFICES ASSUME ~reopened, Cardinality(DOMAIN incidents') <= QueryLimit,
                      NEW i \in OpenIncidents', NEW j \in OpenIncidents', i # j,
                      NEW h \in incidents'[i].hosts, h \in incidents'[j].hosts
               PROVE  FALSE
  BY DEF UniqueOpenIncident, Effect
<1>2. /\ IsFiniteSet(DOMAIN incidents) /\ Cardinality(DOMAIN incidents) <= QueryLimit
      /\ \A k, l \in OpenIncidents : k # l => incidents[k].hosts \cap incidents[l].hosts = {}
  BY <1>1, LimitBefore DEF IInv, Undisturbed, UniqueOpenIncident
<1>3. ASSUME NEW k \in OpenIncidents, k # o.id, k # o.other, incidents'[k] = incidents[k],
             NEW g \in incidents'[k].hosts
      PROVE  g \notin incidents'[o.id].hosts
  <2>1. g \in incidents[k].hosts /\ k \in DOMAIN incidents
    BY <1>3 DEF OpenIncidents
  <2>2. g \notin HostsIn(incidents, o.id)
    BY <1>2, <1>3, <2>1, TakerWasOpen DEF HostsIn
  <2>3. g \notin HostsIn(incidents, o.other)
    BY <1>2, <1>3, <2>1, TakerWasOpen DEF HostsIn, Effect
  <2>4. g # a.host
    <3>1. SUFFICES ASSUME g = a.host PROVE FALSE
      OBVIOUS
    <3>2. Current(incidents, k, clock)
      BY DEF OpenIncidents
    <3>3. o.id \in DOMAIN incidents /\ a.host \in incidents[o.id].hosts
      BY <1>2, <2>1, <3>1, <3>2 DEF Effect, PlacedAtHome
    <3>4. QED BY <1>2, <1>3, <2>1, <3>1, <3>3, TakerWasOpen
  <2>5. QED BY <2>2, <2>3, <2>4 DEF Effect, Placing
<1>4. CASE i = o.id
  BY <1>1, <1>3, <1>4, OpenAfterAddAlert DEF IInv
<1>5. CASE j = o.id
  BY <1>1, <1>3, <1>5, OpenAfterAddAlert DEF IInv
<1>6. CASE i # o.id /\ j # o.id
  <2>1. /\ i \in OpenIncidents /\ incidents'[i] = incidents[i]
        /\ j \in OpenIncidents /\ incidents'[j] = incidents[j]
    BY <1>6, OpenAfterAddAlert DEF IInv
  <2>2. QED BY <1>1, <1>2, <2>1
<1>7. QED BY <1>4, <1>5, <1>6

LEMMA AddAlertOpenLists ==
  ASSUME IInv, ~overlapped, NEW a \in AgentAlerts, NEW o, Effect(o, a)
  PROVE  OpenListsAreHomes'
<1>1. SUFFICES ASSUME ~reopened, Cardinality(DOMAIN incidents') <= QueryLimit,
                      NEW i \in OpenIncidents', NEW x \in ToSet(incidents'[i].alert_ids)
               PROVE  x \in DOMAIN alerts' /\ alerts'[x].incident = i
  BY DEF OpenListsAreHomes, Effect, Listed
<1>2. /\ IsFiniteSet(DOMAIN incidents) /\ Cardinality(DOMAIN incidents) <= QueryLimit
      /\ \A k, l \in OpenIncidents : k # l => incidents[k].hosts \cap incidents[l].hosts = {}
      /\ \A k \in OpenIncidents : \A y \in Listed(k) : y \in DOMAIN alerts /\ alerts[y].incident = k
      /\ \A k \in DOMAIN incidents : \A y \in Listed(k) : y.host \in incidents[k].hosts
      /\ \A y \in DOMAIN alerts : alerts[y] \in RowType
  BY <1>1, LimitBefore DEF IInv, Undisturbed, TypeOK, UniqueOpenIncident, OpenListsAreHomes, ListedFits
<1>3. /\ \A y \in Added(o, a) : y \in DOMAIN alerts' /\ alerts'[y].incident = o.id
      /\ \A y \in Added(o, a) : y.host = a.host
  BY DEF Effect, Placing, Added
<1>4. CASE i = o.id
  <2>1. x \in IdsIn(incidents, o.id) \cup IdsIn(incidents, o.other) \cup Added(o, a)
    BY <1>1, <1>4 DEF Effect, Placing, Added
  <2>2. CASE x \in Added(o, a)
    BY <1>3, <1>4, <2>2
  <2>3. CASE x \in IdsIn(incidents, o.id) /\ x \notin Added(o, a)
    <3>1. x \in DOMAIN alerts /\ alerts[x].incident = o.id
      BY <1>2, <2>3, TakerWasOpen DEF IdsIn, Listed
    <3>2. alerts'[x].incident = o.id
      BY <1>2, <2>3, <3>1 DEF Effect, RowType
    <3>3. QED BY <1>4, <3>1, <3>2 DEF Effect
  <2>4. CASE x \in IdsIn(incidents, o.other) /\ x \notin Added(o, a)
    <3>1. o.other # NoIncident /\ x \in Repointed(o)
      BY <2>4 DEF IdsIn, Effect, Repointed
    <3>2. x \in DOMAIN alerts
      BY <1>2, <2>4, <3>1, TakerWasOpen DEF IdsIn, Listed
    <3>3. alerts'[x].incident = o.id
      BY <1>2, <2>4, <3>1, <3>2 DEF Effect, RowType
    <3>4. QED BY <1>4, <3>2, <3>3 DEF Effect
  <2>5. QED BY <2>1, <2>2, <2>3, <2>4
<1>5. CASE i # o.id
  <2>1. i \in OpenIncidents /\ i # o.other /\ incidents'[i] = incidents[i] /\ i \in DOMAIN incidents
    BY <1>5, OpenAfterAddAlert DEF IInv, OpenIncidents
  <2>2. x \in DOMAIN alerts /\ alerts[x].incident = i /\ x.host \in incidents[i].hosts
    BY <1>2, <2>1 DEF Listed
  <2>3. x \notin Added(o, a)
    <3>1. SUFFICES ASSUME a.host \in incidents[i].hosts PROVE FALSE
      BY <1>3, <2>2
    <3>2. o.id \in DOMAIN incidents /\ a.host \in incidents[o.id].hosts
      BY <1>2, <2>1, <3>1 DEF OpenIncidents, Effect, PlacedAtHome
    <3>3. QED BY <1>2, <1>5, <2>1, <3>1, <3>2, TakerWasOpen
  <2>4. x \notin Repointed(o)
    <3>1. SUFFICES ASSUME o.other # NoIncident, x \in Listed(o.other) PROVE FALSE
      BY DEF Repointed, Listed
    <3>2. alerts[x].incident = o.other
      BY <1>2, <3>1, TakerWasOpen
    <3>3. QED BY <2>1, <2>2, <3>2
  <2>5. QED BY <2>2, <2>3, <2>4 DEF Effect
<1>6. QED BY <1>4, <1>5

LEMMA AddAlertMerged ==
  ASSUME IInv, ~overlapped, NEW a \in AgentAlerts, NEW o, Effect(o, a)
  PROVE  MergedAreClosed' /\ NoMergeCycle'
<1>1. SUFFICES ASSUME ~reopened PROVE MergedAreClosed' /\ NoMergeCycle'
  BY DEF MergedAreClosed, NoMergeCycle, Effect
<1>2. incidents'[o.id].merged_into = NoIncident
  BY <1>1, TakerWasOpen DEF IInv, Undisturbed, MergedAreClosed, OpenIncidents, Current, Effect, Placing
<1>3. /\ o.id \in Nat
      /\ \A i \in DOMAIN incidents : incidents[i] \in IncidentType
  BY DEF Effect, Placing, IInv, TypeOK
<1>4. o.other # NoIncident =>
        /\ incidents'[o.other].status = "closed" /\ incidents'[o.other].merged_into = o.id
        /\ o.other \in DOMAIN incidents
  BY <1>3, MergedAwayType DEF Effect, Placing
<1>5. MergedAreClosed'
  BY <1>1, <1>2, <1>4 DEF IInv, Undisturbed, MergedAreClosed, Effect
<1>6. NoMergeCycle'
  <2>1. SUFFICES ASSUME NEW S \in SUBSET DOMAIN incidents', S # {}
                 PROVE  \E i \in S : incidents'[i].merged_into \notin S
    BY DEF NoMergeCycle
  <2>2. NoIncident \notin S
    BY DEF Effect
  <2>3. CASE o.id \in S
    BY <1>2, <2>2, <2>3
  <2>4. CASE o.id \notin S /\ o.other \in S
    BY <1>4, <2>2, <2>4
  <2>5. CASE o.id \notin S /\ o.other \notin S
    <3>1. S \in SUBSET DOMAIN incidents /\ \A i \in S : incidents'[i] = incidents[i]
      BY <2>5 DEF Effect
    <3>2. QED BY <1>1, <2>1, <3>1 DEF IInv, Undisturbed, NoMergeCycle
  <2>6. QED BY <2>3, <2>4, <2>5
<1>7. QED BY <1>5, <1>6

(* What is to be shown of a step: the shapes, and the rest while no alert  *)
(* overlapped a status change.                                             *)
LEMMA StepSuffices ==
  ASSUME TypeOK', ConsoleFits', ~overlapped' => Undisturbed'
  PROVE  IInv'
<1>1. overlapped' => Undisturbed'
  BY DEF Undisturbed, AlertHome, ClosedTogether, ListedFits, UniqueOpenIncident,
     OpenListsAreHomes, MergedAreClosed, NoMergeCycle
<1>2. QED BY <1>1 DEF IInv

\* An alert leaves the console as it was, and overlaps it unless it is idle.
LEMMA ArriveFits ==
  ASSUME ConsoleFits, UNCHANGED console, overlapped' = (overlapped \/ console # Idle),
         DOMAIN incidents \subseteq DOMAIN incidents', DOMAIN alerts \subseteq DOMAIN alerts'
  PROVE  ConsoleFits'
<1>1. ASSUME ~overlapped' PROVE Fresh'
  <2>1. console' = Idle
    BY <1>1
  <2>2. console'.step = "idle"
    BY <2>1 DEF Idle
  <2>3. QED BY <2>2 DEF Fresh
<1>2. QED BY <1>1 DEF ConsoleFits

LEMMA AddAlertStep ==
  ASSUME IInv, NEW a \in AgentAlerts, AddAlert(a)
  PROVE  IInv'
<1>1. PICK o : Effect(o, a)
  BY AddAlertEffect
<1>2. a.sev # Info
  BY DEF AddAlert
<1>3. TypeOK'
  BY <1>1, AddAlertType
<1>4. ConsoleFits'
  BY <1>1, ArriveFits DEF Effect, IInv
<1>5. ~overlapped' => ~overlapped
  BY <1>1 DEF Effect
<1>6. ~overlapped' => Undisturbed'
  BY <1>1, <1>2, <1>5, AddAlertHome, AddAlertClosedTogether, AddAlertListedFits,
     AddAlertUnique, AddAlertOpenLists, AddAlertMerged DEF Undisturbed
<1>7. QED BY <1>3, <1>4, <1>6, StepSuffices

LEMMA AddInfoAlertStep ==
  ASSUME IInv, NEW a \in AgentAlerts, AddInfoAlert(a)
  PROVE  IInv'
<1>1. /\ UNCHANGED <<incidents, commands, clock, edits, console, crashes, reopened, touched, partial>>
      /\ processed' = processed + 1
      /\ overlapped' = (overlapped \/ console # Idle)
      /\ DOMAIN alerts' = DOMAIN alerts \cup {a}
      /\ alerts'[a] = [incident |-> NoIncident, status |-> "open"]
      /\ \A x \in DOMAIN alerts : x # a => alerts'[x] = alerts[x]
      /\ a \in AlertType /\ a.sev = Info
  BY AgentAlertsAssumption DEF AddInfoAlert, Arrive
<1>2. TypeOK'
  <2>1. [incident |-> NoIncident, status |-> "open"] \in RowType
    BY DEF RowType, Statuses, NoIncident
  <2>2. alerts' \in [DOMAIN alerts' -> RowType]
    BY <1>1, <2>1 DEF AddInfoAlert, IInv, TypeOK
  <2>3. redelivered' \subseteq AgentAlerts
    BY DEF AddInfoAlert, Arrive, IInv, TypeOK
  <2>4. processed' \in Nat /\ 1..processed \subseteq 1..processed'
    BY <1>1 DEF IInv, TypeOK
  <2>5. overlapped' \in BOOLEAN
    BY <1>1
  <2>6. QED BY <1>1, <2>2, <2>3, <2>4, <2>5 DEF IInv, TypeOK
<1>3. ConsoleFits'
  BY <1>1, ArriveFits DEF IInv
<1>4. SUFFICES ASSUME ~overlapped' PROVE Undisturbed'
  BY <1>2, <1>3, StepSuffices
<1>5. ~overlapped /\ Following = {} /\ Undisturbed
  BY <1>1, <1>4, IdleIsIdle DEF IInv
<1>6. AlertHome' /\ ClosedTogether'
  BY <1>1, <1>5 DEF Undisturbed, AlertHome, ClosedTogether, Listed
<1>7. ListedFits' /\ UniqueOpenIncident' /\ MergedAreClosed' /\ NoMergeCycle'
  BY <1>1, <1>5 DEF Undisturbed, ListedFits, UniqueOpenIncident, MergedAreClosed, NoMergeCycle,
     Listed, OpenIncidents, Current
<1>8. OpenListsAreHomes'
  <2>1. \A i \in DOMAIN incidents : a \notin Listed(i)
    BY <1>1, <1>5 DEF Undisturbed, ListedFits
  <2>2. QED BY <1>1, <1>5, <2>1 DEF Undisturbed, OpenListsAreHomes, Listed, OpenIncidents, Current
<1>9. QED BY <1>6, <1>7, <1>8 DEF Undisturbed

\* A body in which the console set the status.
LEMMA Restated ==
  ASSUME NEW inc \in IncidentType, NEW s \in Statuses
  PROVE  /\ [inc EXCEPT !.status = s] \in IncidentType
         /\ [inc EXCEPT !.status = s].hosts = inc.hosts
         /\ [inc EXCEPT !.status = s].tactics = inc.tactics
         /\ [inc EXCEPT !.status = s].severity = inc.severity
         /\ [inc EXCEPT !.status = s].alert_ids = inc.alert_ids
         /\ [inc EXCEPT !.status = s].merged_into = inc.merged_into
         /\ [inc EXCEPT !.status = s].ts_update = inc.ts_update
         /\ [inc EXCEPT !.status = s].status = s
BY DEF IncidentType

LEMMA ConsoleFields ==
  ASSUME TypeOK
  PROVE  /\ console.step = "put" => console.id \in Nat /\ console.body \in IncidentType
         /\ console.step = "query" => console.id \in Nat /\ console.status \in Statuses
         /\ console.step = "alerts" =>
              /\ console.status \in Statuses /\ console.left \subseteq AlertType
              /\ console = [step |-> "alerts", status |-> console.status, left |-> console.left]
BY DEF TypeOK, ConsoleType, Idle

\* The tables are as they were, and so is what is said of them.
LEMMA SameTables ==
  ASSUME IInv, UNCHANGED <<incidents, alerts, clock, reopened>>, ~overlapped, ClosedTogether'
  PROVE  Undisturbed'
<1>1. Undisturbed
  BY DEF IInv
<1>2. AlertHome' /\ ListedFits' /\ UniqueOpenIncident'
  BY <1>1 DEF Undisturbed, AlertHome, ListedFits, UniqueOpenIncident, Listed, OpenIncidents, Current
<1>3. OpenListsAreHomes' /\ MergedAreClosed' /\ NoMergeCycle'
  BY <1>1 DEF Undisturbed, OpenListsAreHomes, MergedAreClosed, NoMergeCycle, Listed,
     OpenIncidents, Current
<1>4. QED BY <1>2, <1>3 DEF Undisturbed

LEMMA ConsoleReadStep ==
  ASSUME IInv, NEW i \in DOMAIN incidents, NEW s \in Statuses, ConsoleRead(i, s)
  PROVE  IInv'
<1>1. /\ UNCHANGED <<incidents, alerts, commands, clock, processed, crashes, redelivered, reopened,
                     touched, overlapped, partial>>
      /\ edits' = edits + 1
      /\ console = Idle
      /\ console' = [step |-> "put", id |-> i, body |-> [incidents[i] EXCEPT !.status = s]]
  BY DEF ConsoleRead, ReadIncident, Edit, tables
<1>2. /\ [incidents[i] EXCEPT !.status = s] \in IncidentType
      /\ [incidents[i] EXCEPT !.status = s].status = s
      /\ i \in Nat
  BY Restated DEF IInv, TypeOK
<1>3. TypeOK'
  <2>1. console' \in ConsoleType
    BY <1>1, <1>2 DEF ConsoleType
  <2>2. QED BY <1>1, <2>1 DEF IInv, TypeOK
<1>4. ConsoleFits'
  BY <1>1, <1>2 DEF ConsoleFits, Fresh
<1>5. ASSUME ~overlapped' PROVE Undisturbed'
  <2>1. Following = {} /\ Following' = {}
    BY <1>1, IdleIsIdle DEF Following
  <2>2. ClosedTogether'
    BY <1>1, <1>5, <2>1 DEF IInv, Undisturbed, ClosedTogether
  <2>3. QED BY <1>1, <1>5, <2>2, SameTables
<1>6. QED BY <1>3, <1>4, <1>5, StepSuffices

LEMMA ConsolePutStep ==
  ASSUME IInv, ConsolePut
  PROVE  IInv'
<1>1. PICK i, body : i = console.id /\ body = console.body
  OBVIOUS
<1>2. /\ console.step = "put" /\ i \in DOMAIN incidents /\ body \in IncidentType
      /\ UNCHANGED <<alerts, commands, clock, processed, edits, crashes, redelivered, touched,
                     overlapped, partial>>
      /\ incidents' = [incidents EXCEPT ![i] = body]
      /\ console' = IF body.status \in {"closed", "false_positive"}
                    THEN [step |-> "query", id |-> i, status |-> body.status]
                    ELSE Idle
      /\ reopened' = (reopened \/ (incidents[i].status = "closed" /\ body.status # "closed"))
      /\ \A j \in DOMAIN incidents : incidents[j] \in IncidentType
  BY <1>1, ConsoleFields DEF ConsolePut, IInv, ConsoleFits, TypeOK
<1>3. /\ DOMAIN incidents' = DOMAIN incidents /\ incidents'[i] = body
      /\ \A j \in DOMAIN incidents : j # i => incidents'[j] = incidents[j]
      /\ body.status \in Statuses /\ i \in Nat
  BY <1>2, IncidentFields DEF IInv, TypeOK
<1>4. TypeOK'
  <2>1. incidents' \in [DOMAIN incidents' -> IncidentType]
    BY <1>2, <1>3 DEF IInv, TypeOK
  <2>2. console' \in ConsoleType
    BY <1>2, <1>3 DEF ConsoleType
  <2>3. QED BY <1>2, <1>3, <2>1, <2>2 DEF IInv, TypeOK
<1>5. ConsoleFits'
  BY <1>2, <1>3 DEF ConsoleFits, Fresh, Idle
<1>6. SUFFICES ASSUME ~overlapped' PROVE Undisturbed'
  BY <1>4, <1>5, StepSuffices
<1>7. ~overlapped /\ Undisturbed
  BY <1>2, <1>6 DEF IInv
<1>8. \A j \in DOMAIN incidents :
        /\ incidents'[j].hosts = incidents[j].hosts
        /\ incidents'[j].alert_ids = incidents[j].alert_ids
        /\ incidents'[j].merged_into = incidents[j].merged_into
        /\ incidents'[j].ts_update = incidents[j].ts_update
        /\ j # i => incidents'[j].status = incidents[j].status
  <2>1. PICK s \in Statuses : body = [incidents[i] EXCEPT !.status = s]
    BY <1>1, <1>2, <1>3, <1>7 DEF IInv, ConsoleFits, Fresh
  <2>2. /\ body.hosts = incidents[i].hosts /\ body.alert_ids = incidents[i].alert_ids
        /\ body.merged_into = incidents[i].merged_into /\ body.ts_update = incidents[i].ts_update
    BY <1>2, <1>3, <2>1, Restated
  <2>3. QED BY <1>3, <2>2
<1>9. AlertHome' /\ ListedFits'
  BY <1>2, <1>3, <1>7, <1>8 DEF Undisturbed, AlertHome, ListedFits, Listed
<1>10. ClosedTogether'
  <2>1. SUFFICES ASSUME NEW x \in DOMAIN alerts, x \notin Following', x \notin touched,
                        alerts[x].incident \notin partial \cup {NoIncident},
                        incidents'[alerts[x].incident].status = "closed"
                 PROVE  alerts[x].status = "closed"
    BY <1>2 DEF ClosedTogether
  <2>2. alerts[x].incident \in DOMAIN incidents
    BY <1>7, <2>1 DEF Undisturbed, AlertHome
  <2>3. alerts[x].incident # i
    <3>1. SUFFICES ASSUME alerts[x].incident = i PROVE FALSE
      OBVIOUS
    <3>2. console'.step = "query" /\ console'.id = i
      BY <1>2, <1>3, <2>1, <3>1
    <3>3. x \in Following'
      BY <1>2, <3>1, <3>2 DEF Following, StoredUnder
    <3>4. QED BY <2>1, <3>3
  <2>4. Following = {}
    BY <1>2 DEF Following
  <2>5. QED BY <1>3, <1>7, <2>1, <2>2, <2>3, <2>4 DEF Undisturbed, ClosedTogether
<1>11. ~reopened' => ~reopened /\ OpenIncidents' \subseteq OpenIncidents
  BY <1>2, <1>3, <1>8 DEF OpenIncidents, Current
<1>12. UniqueOpenIncident' /\ OpenListsAreHomes'
  <2>1. OpenIncidents' \subseteq DOMAIN incidents
    BY <1>3 DEF OpenIncidents
  <2>2. UniqueOpenIncident'
    BY <1>3, <1>7, <1>8, <1>11, <2>1 DEF Undisturbed, UniqueOpenIncident
  <2>3. OpenListsAreHomes'
    BY <1>2, <1>3, <1>7, <1>8, <1>11, <2>1 DEF Undisturbed, OpenListsAreHomes, Listed
  <2>4. QED BY <2>2, <2>3
<1>13. MergedAreClosed' /\ NoMergeCycle'
  <2>1. MergedAreClosed'
    <3>1. SUFFICES ASSUME ~reopened', NEW j \in DOMAIN incidents,
                          incidents'[j].merged_into # NoIncident
                   PROVE  incidents'[j].status = "closed"
      BY <1>3 DEF MergedAreClosed
    <3>2. incidents[j].status = "closed"
      BY <1>7, <1>8, <1>11, <3>1 DEF Undisturbed, MergedAreClosed
    <3>3. QED BY <1>2, <1>3, <1>8, <3>1, <3>2
  <2>2. NoMergeCycle'
    BY <1>2, <1>3, <1>7, <1>8, <1>11 DEF Undisturbed, NoMergeCycle
  <2>3. QED BY <2>1, <2>2
<1>14. QED BY <1>9, <1>10, <1>12, <1>13 DEF Undisturbed

LEMMA ConsoleQueryStep ==
  ASSUME IInv, ConsoleQuery
  PROVE  IInv'
<1>1. PICK i, found : /\ i = console.id
                      /\ found \in AlertResults(i)
                      /\ console' = [step |-> "alerts", status |-> console.status, left |-> found]
                      /\ partial' = IF found = StoredUnder(i) THEN partial ELSE partial \cup {i}
  BY DEF ConsoleQuery
<1>2. /\ console.step = "query"
      /\ UNCHANGED <<incidents, alerts, commands, clock, processed, edits, crashes, redelivered,
                     reopened, touched, overlapped>>
  BY DEF ConsoleQuery, tables
<1>3. /\ found \subseteq StoredUnder(i) /\ found \subseteq DOMAIN alerts
      /\ found \subseteq AlertType
      /\ i \in Nat /\ console.status \in Statuses
  BY <1>1, <1>2, ConsoleFields DEF AlertResults, StoredUnder, IInv, TypeOK
<1>4. TypeOK'
  <2>1. console' \in ConsoleType
    BY <1>1, <1>3 DEF ConsoleType
  <2>2. partial' \subseteq Nat
    BY <1>1, <1>3 DEF IInv, TypeOK
  <2>3. QED BY <1>2, <2>1, <2>2 DEF IInv, TypeOK
<1>5. ConsoleFits'
  <2>1. ~overlapped => \A x \in found : incidents[alerts[x].incident].status = console.status
    BY <1>1, <1>2, <1>3 DEF IInv, ConsoleFits, Fresh, StoredUnder
  <2>2. console'.step = "alerts" /\ console'.left = found /\ console'.status = console.status
    BY <1>1
  <2>3. QED BY <1>2, <1>3, <2>1, <2>2 DEF ConsoleFits, Fresh
<1>6. ASSUME ~overlapped' PROVE Undisturbed'
  <2>1. Following = StoredUnder(i) /\ Following' = found
    BY <1>1, <1>2 DEF Following
  <2>2. ClosedTogether'
    BY <1>1, <1>2, <1>6, <2>1 DEF IInv, Undisturbed, ClosedTogether, StoredUnder
  <2>3. QED BY <1>2, <1>6, <2>2, SameTables
<1>7. QED BY <1>4, <1>5, <1>6, StepSuffices

\* The status of one row is set; the rows keep their incidents.
LEMMA RowsRestated ==
  ASSUME IInv, NEW x \in DOMAIN alerts, NEW s \in Statuses,
         alerts' = [alerts EXCEPT ![x].status = s]
  PROVE  /\ DOMAIN alerts' = DOMAIN alerts /\ alerts' \in [DOMAIN alerts -> RowType]
         /\ alerts'[x].status = s
         /\ \A y \in DOMAIN alerts : y # x => alerts'[y] = alerts[y]
         /\ \A y \in DOMAIN alerts : alerts'[y].incident = alerts[y].incident
<1>1. \A r \in RowType : /\ [r EXCEPT !.status = s] \in RowType
                         /\ [r EXCEPT !.status = s].status = s
                         /\ [r EXCEPT !.status = s].incident = r.incident
  BY DEF RowType
<1>2. QED BY <1>1 DEF IInv, TypeOK

\* What does not depend on the status of the rows.
LEMMA SameHomes ==
  ASSUME IInv, UNCHANGED <<incidents, clock, reopened>>, ~overlapped, DOMAIN alerts' = DOMAIN alerts,
         \A y \in DOMAIN alerts : alerts'[y].incident = alerts[y].incident, ClosedTogether'
  PROVE  Undisturbed'
<1>1. Undisturbed
  BY DEF IInv
<1>2. AlertHome' /\ ListedFits' /\ UniqueOpenIncident'
  BY <1>1 DEF Undisturbed, AlertHome, ListedFits, UniqueOpenIncident, Listed, OpenIncidents, Current
<1>3. OpenListsAreHomes' /\ MergedAreClosed' /\ NoMergeCycle'
  BY <1>1 DEF Undisturbed, OpenListsAreHomes, MergedAreClosed, NoMergeCycle, Listed,
     OpenIncidents, Current
<1>4. QED BY <1>2, <1>3 DEF Undisturbed

LEMMA ConsoleAlertStep ==
  ASSUME IInv, ConsoleAlert
  PROVE  IInv'
<1>1. /\ console.step = "alerts" /\ console.status \in Statuses /\ console.left \subseteq AlertType
      /\ console.left \subseteq DOMAIN alerts
      /\ console = [step |-> "alerts", status |-> console.status, left |-> console.left]
      /\ UNCHANGED <<incidents, commands, clock, processed, edits, crashes, redelivered, reopened,
                     touched, overlapped, partial>>
  BY ConsoleFields DEF ConsoleAlert, IInv, ConsoleFits, history
<1>2. CASE console.left = {}
  <2>1. console' = Idle /\ UNCHANGED alerts
    BY <1>2 DEF ConsoleAlert
  <2>2. console' \in ConsoleType /\ console'.step = "idle"
    BY <2>1 DEF Idle, ConsoleType
  <2>3. TypeOK'
    BY <1>1, <2>1, <2>2 DEF IInv, TypeOK
  <2>4. ConsoleFits'
    BY <2>2 DEF ConsoleFits, Fresh
  <2>5. ASSUME ~overlapped' PROVE Undisturbed'
    <3>1. Following = {} /\ Following' = {}
      BY <1>1, <1>2, <2>2 DEF Following
    <3>2. ClosedTogether'
      BY <1>1, <2>1, <2>5, <3>1 DEF IInv, Undisturbed, ClosedTogether
    <3>3. QED BY <1>1, <2>1, <2>5, <3>2, SameTables
  <2>6. QED BY <2>3, <2>4, <2>5, StepSuffices
<1>3. CASE console.left # {}
  <2>1. PICK x \in console.left : /\ alerts' = [alerts EXCEPT ![x].status = console.status]
                                  /\ console' = [console EXCEPT !.left = @ \ {x}]
    BY <1>3 DEF ConsoleAlert
  <2>2. /\ x \in DOMAIN alerts
        /\ console' = [step |-> "alerts", status |-> console.status, left |-> console.left \ {x}]
    BY <1>1, <2>1
  <2>3. /\ DOMAIN alerts' = DOMAIN alerts /\ alerts' \in [DOMAIN alerts -> RowType]
        /\ alerts'[x].status = console.status
        /\ \A y \in DOMAIN alerts : y # x => alerts'[y] = alerts[y]
        /\ \A y \in DOMAIN alerts : alerts'[y].incident = alerts[y].incident
    BY <1>1, <2>1, <2>2, RowsRestated
  <2>4. TypeOK'
    <3>1. console' \in ConsoleType
      BY <1>1, <2>2 DEF ConsoleType
    <3>2. QED BY <1>1, <2>3, <3>1 DEF IInv, TypeOK
  <2>5. ConsoleFits'
    BY <1>1, <2>2, <2>3 DEF IInv, ConsoleFits, Fresh
  <2>6. ASSUME ~overlapped' PROVE Undisturbed'
    <3>1. Following = console.left /\ Following' = console.left \ {x}
      BY <1>1, <2>2 DEF Following
    <3>2. incidents[alerts[x].incident].status = console.status
      BY <1>1, <2>1, <2>6 DEF IInv, ConsoleFits, Fresh
    <3>3. ClosedTogether'
      BY <1>1, <2>2, <2>3, <2>6, <3>1, <3>2 DEF IInv, Undisturbed, ClosedTogether
    <3>4. QED BY <1>1, <2>3, <2>6, <3>3, SameHomes
  <2>7. QED BY <2>4, <2>5, <2>6, StepSuffices
<1>4. QED BY <1>2, <1>3

LEMMA RestartStep ==
  ASSUME IInv, Restart
  PROVE  IInv'
<1>1. /\ UNCHANGED <<incidents, alerts, commands, clock, processed, edits, redelivered, reopened,
                     touched, overlapped>>
      /\ crashes' = crashes + 1
      /\ console' = Idle
      /\ partial' = partial \cup {alerts[x].incident : x \in Following}
  BY DEF Restart, ServerEnds, tables
<1>2. console' \in ConsoleType /\ console'.step = "idle"
  BY <1>1 DEF Idle, ConsoleType
<1>3. Following \subseteq DOMAIN alerts
  BY DEF Following, StoredUnder, IInv, ConsoleFits
<1>4. TypeOK'
  <2>1. \A x \in Following : alerts[x].incident \in Nat
    BY <1>3 DEF IInv, TypeOK, RowType
  <2>2. partial' \subseteq Nat
    BY <1>1, <2>1 DEF IInv, TypeOK
  <2>3. QED BY <1>1, <1>2, <2>2 DEF IInv, TypeOK
<1>5. ConsoleFits'
  BY <1>2 DEF ConsoleFits, Fresh
<1>6. ASSUME ~overlapped' PROVE Undisturbed'
  <2>1. Following' = {}
    BY <1>2 DEF Following
  <2>2. ClosedTogether'
    BY <1>1, <1>6, <2>1 DEF IInv, Undisturbed, ClosedTogether
  <2>3. QED BY <1>1, <1>6, <2>2, SameTables
<1>7. QED BY <1>4, <1>5, <1>6, StepSuffices

\* A step that leaves the console, the list of what follows and the ids alone.
LEMMA SameConsole ==
  ASSUME ConsoleFits, UNCHANGED <<console, overlapped, incidents>>, DOMAIN alerts' = DOMAIN alerts,
         \A y \in DOMAIN alerts : alerts'[y].incident = alerts[y].incident
  PROVE  ConsoleFits' /\ Following' = Following
<1>1. ConsoleFits'
  BY DEF ConsoleFits, Fresh
<1>2. StoredUnder(console.id)' = StoredUnder(console.id)
  BY DEF StoredUnder
<1>3. QED BY <1>1, <1>2 DEF Following

LEMMA SetAlertStatusStep ==
  ASSUME IInv, NEW x \in DOMAIN alerts, NEW s \in Statuses, SetAlertStatus(x, s)
  PROVE  IInv'
<1>1. /\ UNCHANGED <<incidents, commands, clock, processed, console, crashes, redelivered, reopened,
                     overlapped, partial>>
      /\ touched' = touched \cup {x} /\ edits' = edits + 1
      /\ alerts' = [alerts EXCEPT ![x].status = s]
  BY DEF SetAlertStatus, Edit
<1>2. /\ DOMAIN alerts' = DOMAIN alerts /\ alerts' \in [DOMAIN alerts -> RowType]
      /\ \A y \in DOMAIN alerts : y # x => alerts'[y] = alerts[y]
      /\ \A y \in DOMAIN alerts : alerts'[y].incident = alerts[y].incident
  BY <1>1, RowsRestated
<1>3. TypeOK'
  BY <1>1, <1>2 DEF IInv, TypeOK
<1>4. ConsoleFits' /\ Following' = Following
  BY <1>1, <1>2, SameConsole DEF IInv
<1>5. ASSUME ~overlapped' PROVE Undisturbed'
  <2>1. ClosedTogether'
    BY <1>1, <1>2, <1>4, <1>5 DEF IInv, Undisturbed, ClosedTogether
  <2>2. QED BY <1>1, <1>2, <1>5, <2>1, SameHomes
<1>6. QED BY <1>3, <1>4, <1>5, StepSuffices

LEMMA TickStep ==
  ASSUME IInv, Tick
  PROVE  IInv'
<1>1. clock' = clock + 1 /\ clock \in Nat
      /\ UNCHANGED <<incidents, alerts, commands, processed, edits, console, crashes, redelivered,
                     reopened, touched, overlapped, partial>>
  BY DEF Tick, IInv, TypeOK, tables, history
<1>2. TypeOK'
  BY <1>1 DEF IInv, TypeOK
<1>3. ConsoleFits' /\ Following' = Following
  BY <1>1, SameConsole DEF IInv
<1>4. SUFFICES ASSUME ~overlapped' PROVE Undisturbed'
  BY <1>2, <1>3, StepSuffices
<1>5. Undisturbed
  BY DEF IInv
<1>6. OpenIncidents' \subseteq OpenIncidents
  <2>1. \A i \in DOMAIN incidents : incidents[i].ts_update \in Nat
    BY IncidentFields DEF IInv, TypeOK
  <2>2. QED BY <1>1, <2>1, WindowAssumption DEF OpenIncidents, Current
<1>7. UniqueOpenIncident' /\ OpenListsAreHomes'
  BY <1>1, <1>5, <1>6 DEF Undisturbed, UniqueOpenIncident, OpenListsAreHomes, Listed
<1>8. AlertHome' /\ ClosedTogether' /\ ListedFits' /\ MergedAreClosed' /\ NoMergeCycle'
  BY <1>1, <1>3, <1>5 DEF Undisturbed, AlertHome, ClosedTogether, ListedFits, MergedAreClosed,
     NoMergeCycle, Listed
<1>9. QED BY <1>7, <1>8 DEF Undisturbed

LEMMA StepIInv == IInv /\ [Next]_vars => IInv'
<1> SUFFICES ASSUME IInv, [Next]_vars PROVE IInv'
  OBVIOUS
<1>1. ASSUME NEW a \in AgentAlerts, AddAlert(a) PROVE IInv'
  BY <1>1, AddAlertStep
<1>2. ASSUME NEW a \in AgentAlerts, AddInfoAlert(a) PROVE IInv'
  BY <1>2, AddInfoAlertStep
<1>3. ASSUME NEW i \in DOMAIN incidents, NEW s \in Statuses, ConsoleRead(i, s) PROVE IInv'
  BY <1>3, ConsoleReadStep
<1>4. CASE ConsolePut \/ ConsoleQuery \/ ConsoleAlert \/ Restart
  BY <1>4, ConsolePutStep, ConsoleQueryStep, ConsoleAlertStep, RestartStep
<1>5. ASSUME NEW x \in DOMAIN alerts, NEW s \in Statuses, SetAlertStatus(x, s) PROVE IInv'
  BY <1>5, SetAlertStatusStep
<1>6. CASE Tick
  BY <1>6, TickStep
<1>7. CASE UNCHANGED vars
  <2>1. UNCHANGED <<incidents, alerts, commands, clock, processed, edits, console, crashes,
                    redelivered, reopened, touched, overlapped, partial>>
    BY <1>7 DEF vars, tables, history
  <2>2. TypeOK'
    BY <2>1 DEF IInv, TypeOK
  <2>3. ConsoleFits' /\ Following' = Following
    BY <2>1, SameConsole DEF IInv
  <2>4. ASSUME ~overlapped' PROVE Undisturbed'
    <3>1. ClosedTogether'
      BY <2>1, <2>3 DEF IInv, Undisturbed, ClosedTogether
    <3>2. QED BY <2>1, <2>4, <3>1, SameTables
  <2>5. QED BY <2>2, <2>3, <2>4, StepSuffices
<1>8. QED BY <1>1, <1>2, <1>3, <1>4, <1>5, <1>6, <1>7 DEF Next

-----------------------------------------------------------------------------
LEMMA InvariantIInv == Spec => []IInv
<1>1. Init => IInv
  BY InitIInv
<1>2. IInv /\ [Next]_vars => IInv'
  BY StepIInv
<1>3. QED BY <1>1, <1>2, PTL DEF Spec

(* Rows keep their shape, and ids are only taken from processed.          *)
THEOREM TypeCorrect == Spec => []TypeOK
<1>1. IInv => TypeOK
  BY DEF IInv
<1>2. QED BY <1>1, InvariantIInv, PTL

(* The incident an alert row points to exists and lists the alert: merges  *)
(* (set_alert_incident), redeliveries (INSERT OR REPLACE) and status       *)
(* changes, statement by statement, never leave a row pointing to an       *)
(* incident that forgot it, until an alert arrives during one.             *)
THEOREM AlertsAreListed == Spec => []AlertHome
<1>1. IInv => AlertHome
  BY DEF IInv, Undisturbed
<1>2. QED BY <1>1, InvariantIInv, PTL

(* What is stored under a closed incident is closed once the console is    *)
(* done with it: a later alert never lands there, and a merge takes the    *)
(* rows with it.  Excepted are an alert whose own status was set, one that *)
(* the closing has yet to reach, the incidents whose closing was cut short *)
(* by a restart or by CloseLimit, and all once an alert arrived while the  *)
(* console was between two of its statements.                              *)
THEOREM ClosedIncidentsStayClosed == Spec => []ClosedTogether
<1>1. IInv => ClosedTogether
  BY DEF IInv, Undisturbed
<1>2. QED BY <1>1, InvariantIInv, PTL

(* While process() reads every row and nobody reopens an incident, a host  *)
(* is in at most one open incident, in every interleaving of alerts of all *)
(* hosts, the passing of time and the console.                             *)
THEOREM OneOpenIncidentPerHost == Spec => []UniqueOpenIncident
<1>1. IInv => UniqueOpenIncident
  BY DEF IInv, Undisturbed
<1>2. QED BY <1>1, InvariantIInv, PTL

(* Under the same conditions an alert listed by an open incident is stored *)
(* under it, and so listed by no other open incident.                      *)
THEOREM OpenIncidentsOwnTheirAlerts == Spec => []OpenListsAreHomes
<1>1. IInv => OpenListsAreHomes
  BY DEF IInv, Undisturbed
<1>2. QED BY <1>1, InvariantIInv, PTL

(* Unless an incident was reopened, following merged_into ends.            *)
THEOREM MergesEnd == Spec => []NoMergeCycle
<1>1. IInv => NoMergeCycle
  BY DEF IInv, Undisturbed
<1>2. QED BY <1>1, InvariantIInv, PTL

-----------------------------------------------------------------------------
CorrelationRules == {"CORR-KILLCHAIN", "CORR-MULTIHOST"}

TacticsIn(incs, i) == IF i \in DOMAIN incs THEN incs[i].tactics ELSE {}

\* The tactics and the hosts of the target after a merge, before the alert.
TacticsBefore(incs, o) == TacticsIn(incs, o.id) \cup TacticsIn(incs, o.other)
HostsBefore(incs, o) == HostsIn(incs, o.id) \cup HostsIn(incs, o.other)

Stages(incs, o) == Cardinality(o.final.tactics) >= 3 /\ Cardinality(TacticsBefore(incs, o)) < 3
Spreads(incs, o) == Cardinality(o.final.hosts) > 1 /\ Cardinality(HostsBefore(incs, o)) = 1

\* What an outcome o of placing a on incs raises.
Raising(incs, a, o) ==
  /\ o.final.tactics = TacticsBefore(incs, o) \cup TacticsOf(a)
  /\ \A x \in ToSet(o.extra) : x.about = o.id /\ x.rule \in CorrelationRules
  /\ \A x, y \in ToSet(o.extra) : x.rule = y.rule => x = y
  /\ (\E x \in ToSet(o.extra) : x.rule = "CORR-KILLCHAIN") <=> Stages(incs, o)
  /\ (\E x \in ToSet(o.extra) : x.rule = "CORR-MULTIHOST") <=> Spreads(incs, o)
  /\ Stages(incs, o) => o.final.severity = Critical
  /\ (o.id \in DOMAIN incs /\ incs[o.id].severity = Critical) => o.final.severity = Critical

LEMMA CriticalIsMost ==
  ASSUME NEW s \in Severities
  PROVE  MaxSeverity(Critical, s) = Critical
BY DEF MaxSeverity, Critical, Severities

\* Tactics, hosts and severity through the steps of an outcome.
LEMMA MergeFields ==
  ASSUME NEW inc \in IncidentType, NEW other \in IncidentType
  PROVE  /\ Merge(inc, other).tactics = inc.tactics \cup other.tactics
         /\ inc.severity = Critical => Merge(inc, other).severity = Critical
<1>1. other.severity \in Severities
  BY IncidentFields
<1>2. QED
  BY <1>1, CriticalIsMost DEF Merge, IncidentType

LEMMA ExtendFields ==
  ASSUME NEW inc \in IncidentType, NEW a \in AlertType, NEW ents
  PROVE  /\ Extend(inc, a, ents).tactics = inc.tactics \cup TacticsOf(a)
         /\ inc.severity = Critical => Extend(inc, a, ents).severity = Critical
<1>1. a.sev \in Severities
  BY AlertFields
<1>2. QED
  BY <1>1, CriticalIsMost DEF Extend, IncidentType

LEMMA RaiseFields ==
  ASSUME NEW prev, NEW next \in IncidentType
  PROVE  /\ RaiseSeverity(prev, next).tactics = next.tactics
         /\ next.severity = Critical => RaiseSeverity(prev, next).severity = Critical
         /\ MultiStage(prev, next) => RaiseSeverity(prev, next).severity = Critical
<1>1. High \in Severities
  BY RankType
<1>2. QED
  BY <1>1, CriticalIsMost DEF RaiseSeverity, IncidentType

\* extra: one alert for each of the two conditions.
LEMMA ExtraFields ==
  ASSUME NEW prev \in IncidentType, NEW next \in IncidentType, NEW a \in AlertType,
         NEW id \in Nat, NEW n \in Nat, NEW now \in Nat, NEW S,
         S = ToSet(Extra(prev, next, a, id, n, now))
  PROVE  /\ \A x \in S : x.about = id /\ x.rule \in CorrelationRules
         /\ \A x, y \in S : x.rule = y.rule => x = y
         /\ (\E x \in S : x.rule = "CORR-KILLCHAIN") <=> MultiStage(prev, next)
         /\ (\E x \in S : x.rule = "CORR-MULTIHOST") <=> MultiHost(prev, next)
<1> DEFINE killchain == [rule |-> "CORR-KILLCHAIN", n |-> n, about |-> id, host |-> a.host,
                         tactic |-> a.tactic, ents |-> {}, sev |-> Critical, ts |-> now]
           multihost == [rule |-> "CORR-MULTIHOST", n |-> n, about |-> id, host |-> a.host,
                         tactic |-> "lateral-movement", ents |-> {}, sev |-> High, ts |-> now]
<1>1. /\ killchain.rule = "CORR-KILLCHAIN" /\ killchain.about = id
      /\ multihost.rule = "CORR-MULTIHOST" /\ multihost.about = id
  OBVIOUS
<1> DEFINE first  == IF MultiStage(prev, next) THEN <<killchain>> ELSE << >>
           second == IF MultiHost(prev, next) THEN <<multihost>> ELSE << >>
<1>2. Extra(prev, next, a, id, n, now) = first \o second
  BY DEF Extra
<1> HIDE DEF killchain, multihost
<1>3. /\ first \in Seq({killchain, multihost}) /\ second \in Seq({killchain, multihost})
      /\ ToSet(first) = IF MultiStage(prev, next) THEN {killchain} ELSE {}
      /\ ToSet(second) = IF MultiHost(prev, next) THEN {multihost} ELSE {}
  <2>1. \A x : <<x>> \in Seq({x}) /\ ToSet(<<x>>) = {x}
    BY DEF ToSet
  <2>2. \A U : << >> \in Seq(U) /\ ToSet(<< >>) = {}
    BY DEF ToSet
  <2>3. \A x, y : <<x>> \in Seq({x, y}) /\ <<y>> \in Seq({x, y})
    OBVIOUS
  <2>4. CASE MultiStage(prev, next)
    BY <2>1, <2>2, <2>3, <2>4
  <2>5. CASE ~MultiStage(prev, next)
    BY <2>1, <2>2, <2>3, <2>5
  <2>6. QED
    BY <2>4, <2>5
<1> HIDE DEF first, second
<1>4. S = ToSet(first) \cup ToSet(second)
  BY <1>2, <1>3, ToSetConcat
<1>5. QED
  BY <1>1, <1>3, <1>4 DEF CorrelationRules

LEMMA OutcomeRaises ==
  ASSUME NEW incs, Table(incs), NEW a \in AlertType, NEW fresh \in Nat \ {NoIncident},
         fresh \notin DOMAIN incs, NEW now \in Nat,
         NEW own \in DOMAIN incs \cup {NoIncident},
         NEW cross \in DOMAIN incs \cup {NoIncident},
         NEW ents \in SUBSET Entities
  PROVE  Raising(incs, a, Outcome(incs, a, own, cross, ents, fresh, now))
<1> DEFINE id     == IF own # NoIncident THEN own
                     ELSE IF cross # NoIncident THEN cross ELSE fresh
           other  == IF own # NoIncident THEN cross ELSE NoIncident
           found  == IF id = fresh THEN NewIncident(a) ELSE incs[id]
           prev   == IF other = NoIncident THEN found ELSE Merge(found, incs[other])
           ext    == Extend(prev, a, ents)
           next   == RaiseSeverity(prev, ext)
           extra  == Extra(prev, next, a, id, fresh, now)
           final  == [next EXCEPT !.alert_ids = @ \o extra]
           o      == Outcome(incs, a, own, cross, ents, fresh, now)
<1>1. o.id = id /\ o.other = other /\ o.extra = extra /\ o.final = final
  BY DEF Outcome
<1> HIDE DEF o
<1>2. /\ id \in DOMAIN incs \cup {fresh} /\ id \in Nat
      /\ other \in DOMAIN incs \cup {NoIncident} /\ NoIncident \notin DOMAIN incs
  BY DEF Table
<1> HIDE DEF id, other
<1>3. NewIncident(a) \in IncidentType
  <2>1. << >> \in Seq(AlertType) /\ "open" \in Statuses /\ NoIncident \in Nat
    BY DEF Statuses, NoIncident
  <2>2. QED BY <2>1, AlertFields DEF NewIncident, IncidentType
<1>4. /\ found \in IncidentType
      /\ found.tactics = TacticsIn(incs, id)
      /\ found.hosts = HostsIn(incs, id)
      /\ id \in DOMAIN incs => found.severity = incs[id].severity
  BY <1>2, <1>3 DEF Table, TacticsIn, HostsIn, NewIncident
<1> HIDE DEF found
<1>5. /\ prev \in IncidentType
      /\ prev.tactics = TacticsBefore(incs, o)
      /\ prev.hosts = HostsBefore(incs, o)
      /\ found.severity = Critical => prev.severity = Critical
  <2>1. CASE other = NoIncident
    BY <1>1, <1>2, <1>4, <2>1 DEF TacticsBefore, HostsBefore, TacticsIn, HostsIn
  <2>2. CASE other # NoIncident
    <3>1. other \in DOMAIN incs /\ incs[other] \in IncidentType
      BY <1>2, <2>2 DEF Table
    <3>2. prev = Merge(found, incs[other])
      BY <2>2
    <3>3. /\ TacticsIn(incs, other) = incs[other].tactics
          /\ HostsIn(incs, other) = incs[other].hosts
      BY <3>1 DEF TacticsIn, HostsIn
    <3> HIDE DEF prev
    <3>4. /\ prev \in IncidentType
          /\ prev.tactics = found.tactics \cup incs[other].tactics
          /\ prev.hosts = found.hosts \cup incs[other].hosts
          /\ found.severity = Critical => prev.severity = Critical
      BY <1>4, <3>1, <3>2, MergeType, MergeFields
    <3>5. QED
      BY <1>1, <1>4, <3>3, <3>4 DEF TacticsBefore, HostsBefore
  <2>3. QED
    BY <2>1, <2>2
<1> HIDE DEF prev
<1>6. /\ ext \in IncidentType
      /\ ext.tactics = prev.tactics \cup TacticsOf(a)
      /\ prev.severity = Critical => ext.severity = Critical
  BY <1>5, ExtendType, ExtendFields
<1> HIDE DEF ext
<1>7. /\ next \in IncidentType
      /\ next.tactics = ext.tactics /\ next.hosts = ext.hosts
      /\ ext.severity = Critical \/ MultiStage(prev, ext) => next.severity = Critical
  BY <1>6, RaiseType, RaiseFields
<1> HIDE DEF next
<1>8. /\ final.tactics = next.tactics /\ final.hosts = next.hosts
      /\ final.severity = next.severity
  BY <1>7 DEF IncidentType
<1> HIDE DEF final
<1>9. /\ MultiStage(prev, ext) <=> Stages(incs, o)
      /\ MultiStage(prev, next) <=> Stages(incs, o)
      /\ MultiHost(prev, next) <=> Spreads(incs, o)
  BY <1>1, <1>5, <1>7, <1>8 DEF MultiStage, MultiHost, Stages, Spreads
<1>10. /\ \A x \in ToSet(extra) : x.about = id /\ x.rule \in CorrelationRules
       /\ \A x, y \in ToSet(extra) : x.rule = y.rule => x = y
       /\ (\E x \in ToSet(extra) : x.rule = "CORR-KILLCHAIN") <=> MultiStage(prev, next)
       /\ (\E x \in ToSet(extra) : x.rule = "CORR-MULTIHOST") <=> MultiHost(prev, next)
  BY <1>2, <1>5, <1>7, ExtraFields
<1> HIDE DEF extra
<1>11. /\ final.tactics = TacticsBefore(incs, o) \cup TacticsOf(a)
       /\ Stages(incs, o) => final.severity = Critical
       /\ (id \in DOMAIN incs /\ incs[id].severity = Critical) => final.severity = Critical
  BY <1>4, <1>5, <1>6, <1>7, <1>8, <1>9
<1>12. Raising(incs, a, o)
  BY <1>1, <1>9, <1>10, <1>11 DEF Raising
<1>13. QED
  BY <1>12 DEF o

-----------------------------------------------------------------------------
(* How often a list has an alert.                                          *)
Count(s, x) == Cardinality({k \in DOMAIN s : s[k] = x})

LEMMA CountType ==
  ASSUME NEW S, NEW s \in Seq(S), NEW x
  PROVE  /\ IsFiniteSet({k \in DOMAIN s : s[k] = x})
         /\ Count(s, x) \in Nat
         /\ Count(s, x) = 0 <=> x \notin ToSet(s)
<1>1. DOMAIN s = 1..Len(s) /\ Len(s) \in Nat
  BY LenProperties
<1>2. IsFiniteSet(1..Len(s))
  BY <1>1, FS_Interval
<1>3. IsFiniteSet({k \in DOMAIN s : s[k] = x})
  BY <1>1, <1>2, FS_Subset
<1>4. {k \in DOMAIN s : s[k] = x} = {} <=> x \notin ToSet(s)
  BY DEF ToSet
<1>5. QED
  BY <1>3, <1>4, FS_CardinalityType, FS_EmptySet DEF Count

LEMMA CountConcat ==
  ASSUME NEW S, NEW s \in Seq(S), NEW t \in Seq(S), NEW x
  PROVE  Count(s \o t, x) = Count(s, x) + Count(t, x)
<1> DEFINE m == Len(s)
           n == Len(t)
           A == {k \in DOMAIN s : s[k] = x}
           B == {k \in DOMAIN t : t[k] = x}
           C == {k \in DOMAIN (s \o t) : (s \o t)[k] = x}
           D == C \ A
           f == [k \in B |-> m + k]
<1>1. m \in Nat /\ n \in Nat /\ DOMAIN s = 1..m /\ DOMAIN t = 1..n
  BY LenProperties
<1>2. /\ s \o t \in Seq(S) /\ Len(s \o t) = m + n
      /\ \A k \in 1..(m + n) : (s \o t)[k] = IF k <= m THEN s[k] ELSE t[k - m]
  BY ConcatProperties
<1>3. DOMAIN (s \o t) = 1..(m + n)
  BY <1>2, LenProperties
<1>4. /\ IsFiniteSet(A) /\ IsFiniteSet(B) /\ IsFiniteSet(C)
      /\ Cardinality(A) \in Nat /\ Cardinality(B) \in Nat /\ Cardinality(C) \in Nat
  <2>1. \A u \in Seq(S) : IsFiniteSet({k \in DOMAIN u : u[k] = x})
    BY CountType
  <2>2. QED
    BY <1>2, <2>1, FS_CardinalityType
<1>5. A \subseteq C
  BY <1>1, <1>2, <1>3
<1>6. D = {k \in (m + 1)..(m + n) : t[k - m] = x}
  <2>1. ASSUME NEW k \in D PROVE k \in (m + 1)..(m + n) /\ t[k - m] = x
    BY <1>1, <1>2, <1>3, <2>1
  <2>2. ASSUME NEW k \in (m + 1)..(m + n), t[k - m] = x PROVE k \in D
    BY <1>1, <1>2, <1>3, <2>2
  <2>3. QED
    BY <2>1, <2>2
<1> HIDE DEF D
<1>7. f \in Bijection(B, D)
  <2>1. \A k \in B : m + k \in (m + 1)..(m + n) /\ (m + k) - m = k
    BY <1>1
  <2>2. f \in [B -> D]
    BY <1>6, <2>1
  <2>3. \A j, k \in B : f[j] = f[k] => j = k
    BY <1>1
  <2>4. \A d \in D : \E k \in B : f[k] = d
    <3>1. SUFFICES ASSUME NEW d \in D PROVE d - m \in B /\ f[d - m] = d
      OBVIOUS
    <3>2. d \in (m + 1)..(m + n) /\ t[d - m] = x
      BY <1>6
    <3>3. d - m \in 1..n /\ m + (d - m) = d
      BY <1>1, <3>2
    <3>4. QED
      BY <1>1, <3>2, <3>3
  <2>5. QED
    BY <2>2, <2>3, <2>4 DEF Bijection, Injection, Surjection, IsInjective
<1>8. IsFiniteSet(D) /\ Cardinality(D) = Cardinality(B)
  BY <1>4, <1>7, FS_Bijection DEF ExistsBijection
<1>9. C = A \cup D /\ A \cap D = {}
  BY <1>5 DEF D
<1> HIDE DEF A, B, C
<1>10. Cardinality(C) = Cardinality(A) + Cardinality(B)
  <2>1. Cardinality(A \cup D) = Cardinality(A) + Cardinality(D) - Cardinality(A \cap D)
    BY <1>4, <1>8, FS_Union
  <2>2. Cardinality(A \cap D) = 0
    BY <1>9, FS_EmptySet
  <2>3. Cardinality(C) = Cardinality(A) + Cardinality(D) - 0
    BY <1>9, <2>1, <2>2
  <2>4. QED
    BY <1>4, <1>8, <2>3
<1>11. QED
  BY <1>10 DEF Count, A, B, C

LEMMA CountOne ==
  ASSUME NEW y, NEW x
  PROVE  Count(<<y>>, x) = IF x = y THEN 1 ELSE 0
<1>1. {k \in DOMAIN <<y>> : <<y>>[k] = x} = IF x = y THEN {1} ELSE {}
  OBVIOUS
<1>2. QED
  BY <1>1, FS_Singleton, FS_EmptySet DEF Count

LEMMA CountAppend ==
  ASSUME NEW S, NEW s \in Seq(S), NEW y \in S, NEW x
  PROVE  Count(Append(s, y), x) = Count(s, x) + (IF x = y THEN 1 ELSE 0)
<1>1. Append(s, y) = s \o <<y>> /\ <<y>> \in Seq(S)
  BY AppendIsConcat
<1>2. Count(s \o <<y>>, x) = Count(s, x) + Count(<<y>>, x)
  BY <1>1, CountConcat
<1>3. QED
  BY <1>1, <1>2, CountOne

LEMMA CountNone == ASSUME NEW x PROVE Count(<< >>, x) = 0
<1>1. {k \in DOMAIN << >> : << >>[k] = x} = {}
  OBVIOUS
<1>2. QED
  BY <1>1, FS_EmptySet DEF Count

CountIn(incs, i, x) == IF i \in DOMAIN incs THEN Count(incs[i].alert_ids, x) ELSE 0

\* What an outcome o of placing a on incs lists, and how often.
Counting(incs, a, o) ==
  \A x : Count(o.final.alert_ids, x) =
           CountIn(incs, o.id, x) + CountIn(incs, o.other, x)
           + (IF x = a THEN 1 ELSE 0) + (IF x \in ToSet(o.extra) THEN 1 ELSE 0)

LEMMA ExtraCounts ==
  ASSUME NEW prev \in IncidentType, NEW next \in IncidentType, NEW a \in AlertType,
         NEW id \in Nat, NEW n \in Nat, NEW now \in Nat, NEW x, NEW s,
         s = Extra(prev, next, a, id, n, now)
  PROVE  Count(s, x) = IF x \in ToSet(s) THEN 1 ELSE 0
<1> DEFINE killchain == [rule |-> "CORR-KILLCHAIN", n |-> n, about |-> id, host |-> a.host,
                         tactic |-> a.tactic, ents |-> {}, sev |-> Critical, ts |-> now]
           multihost == [rule |-> "CORR-MULTIHOST", n |-> n, about |-> id, host |-> a.host,
                         tactic |-> "lateral-movement", ents |-> {}, sev |-> High, ts |-> now]
<1>1. killchain # multihost
  <2>1. killchain.rule # multihost.rule
    OBVIOUS
  <2>2. QED BY <2>1
<1> DEFINE first  == IF MultiStage(prev, next) THEN <<killchain>> ELSE << >>
           second == IF MultiHost(prev, next) THEN <<multihost>> ELSE << >>
<1>2. s = first \o second
  BY DEF Extra
<1> HIDE DEF killchain, multihost
<1>3. /\ first \in Seq({killchain, multihost}) /\ second \in Seq({killchain, multihost})
      /\ Count(first, x) = 0 \/ (Count(first, x) = 1 /\ x = killchain)
      /\ Count(second, x) = 0 \/ (Count(second, x) = 1 /\ x = multihost)
  <2>1. \A y, z : << >> \in Seq({y, z}) /\ <<y>> \in Seq({y, z}) /\ <<z>> \in Seq({y, z})
    OBVIOUS
  <2>2. first \in Seq({killchain, multihost}) /\ second \in Seq({killchain, multihost})
    BY <2>1
  <2>3. QED
    BY <2>2, CountOne, CountNone
<1> HIDE DEF first, second
<1>4. s \in Seq({killchain, multihost}) /\ Count(s, x) = Count(first, x) + Count(second, x)
  BY <1>2, <1>3, CountConcat
<1>5. Count(s, x) = 0 <=> x \notin ToSet(s)
  BY <1>4, CountType
<1>6. QED
  BY <1>1, <1>3, <1>4, <1>5


(* How often the alerts are listed after an outcome.                       *)
LEMMA OutcomeCounts ==
  ASSUME NEW incs, Table(incs), NEW a \in AlertType, NEW fresh \in Nat \ {NoIncident},
         fresh \notin DOMAIN incs, NEW now \in Nat,
         NEW own \in DOMAIN incs \cup {NoIncident},
         NEW cross \in DOMAIN incs \cup {NoIncident},
         NEW ents \in SUBSET Entities
  PROVE  Counting(incs, a, Outcome(incs, a, own, cross, ents, fresh, now))
<1> DEFINE id     == IF own # NoIncident THEN own
                     ELSE IF cross # NoIncident THEN cross ELSE fresh
           other  == IF own # NoIncident THEN cross ELSE NoIncident
           found  == IF id = fresh THEN NewIncident(a) ELSE incs[id]
           prev   == IF other = NoIncident THEN found ELSE Merge(found, incs[other])
           ext    == Extend(prev, a, ents)
           next   == RaiseSeverity(prev, ext)
           extra  == Extra(prev, next, a, id, fresh, now)
           final  == [next EXCEPT !.alert_ids = @ \o extra]
           o      == Outcome(incs, a, own, cross, ents, fresh, now)
<1>1. o.id = id /\ o.other = other /\ o.extra = extra /\ o.final = final
  BY DEF Outcome
<1> HIDE DEF o
<1>2. /\ id \in DOMAIN incs \cup {fresh} /\ id \in Nat
      /\ other \in DOMAIN incs \cup {NoIncident} /\ NoIncident \notin DOMAIN incs
  BY DEF Table
<1> HIDE DEF id, other
<1>3. NewIncident(a) \in IncidentType /\ NewIncident(a).alert_ids = << >>
  <2>1. << >> \in Seq(AlertType) /\ "open" \in Statuses /\ NoIncident \in Nat
    BY DEF Statuses, NoIncident
  <2>2. QED BY <2>1, AlertFields DEF NewIncident, IncidentType
<1>4. /\ found \in IncidentType
      /\ \A x : Count(found.alert_ids, x) = CountIn(incs, id, x)
  BY <1>2, <1>3, CountNone DEF Table, CountIn
<1> HIDE DEF found
<1>5. /\ prev \in IncidentType
      /\ \A x : Count(prev.alert_ids, x) = CountIn(incs, id, x) + CountIn(incs, other, x)
  <2>1. CASE other = NoIncident
    <3>1. prev = found
      BY <2>1
    <3>2. \A x : CountIn(incs, other, x) = 0
      BY <1>2, <2>1 DEF CountIn
    <3>3. \A x : Count(found.alert_ids, x) \in Nat
      BY <1>4, CountType, IncidentFields
    <3>4. QED
      BY <1>4, <3>1, <3>2, <3>3
  <2>2. CASE other # NoIncident
    <3>1. other \in DOMAIN incs /\ incs[other] \in IncidentType
      BY <1>2, <2>2 DEF Table
    <3>2. prev = Merge(found, incs[other])
      BY <2>2
    <3> HIDE DEF prev
    <3>3. prev \in IncidentType /\ prev.alert_ids = found.alert_ids \o incs[other].alert_ids
      BY <1>4, <3>1, <3>2, MergeType DEF Merge, IncidentType
    <3>4. found.alert_ids \in Seq(AlertType) /\ incs[other].alert_ids \in Seq(AlertType)
      BY <1>4, <3>1, IncidentFields
    <3>5. \A x : Count(prev.alert_ids, x) =
                   Count(found.alert_ids, x) + Count(incs[other].alert_ids, x)
      BY <3>3, <3>4, CountConcat
    <3>6. QED
      BY <1>4, <3>1, <3>3, <3>5 DEF CountIn
  <2>3. QED
    BY <2>1, <2>2
<1> HIDE DEF prev
<1>6. ext \in IncidentType /\ ext.alert_ids = Append(prev.alert_ids, a)
  <2>1. ext \in IncidentType
    BY <1>5, ExtendType
  <2>2. QED
    BY <1>5, <2>1 DEF Extend, IncidentType
<1> HIDE DEF ext
<1>7. next \in IncidentType /\ next.alert_ids = ext.alert_ids
  <2>1. next \in IncidentType
    BY <1>6, RaiseType
  <2>2. QED
    BY <1>6, <2>1 DEF RaiseSeverity, IncidentType
<1> HIDE DEF next
<1>8. final.alert_ids = Append(prev.alert_ids, a) \o extra
  BY <1>6, <1>7 DEF IncidentType
<1> HIDE DEF final
<1>9. /\ prev.alert_ids \in Seq(AlertType) /\ Append(prev.alert_ids, a) \in Seq(AlertType)
      /\ extra \in Seq(AlertType)
  BY <1>2, <1>5, <1>6, <1>7, ExtraType, IncidentFields
<1>10. \A x : Count(extra, x) = IF x \in ToSet(extra) THEN 1 ELSE 0
  BY <1>2, <1>5, <1>7, ExtraCounts
<1> HIDE DEF extra
<1>11. \A x : Count(final.alert_ids, x) = Count(Append(prev.alert_ids, a), x) + Count(extra, x)
  BY <1>8, <1>9, CountConcat
<1>12. \A x : Count(Append(prev.alert_ids, a), x)
                = Count(prev.alert_ids, x) + (IF x = a THEN 1 ELSE 0)
  BY <1>9, CountAppend
<1>13. Counting(incs, a, o)
  BY <1>1, <1>5, <1>10, <1>11, <1>12 DEF Counting
<1>14. QED
  BY <1>13 DEF o

-----------------------------------------------------------------------------
LEMMA RaisingAndCounting ==
  ASSUME NEW incs, Table(incs), NEW a \in AlertType, NEW fresh \in Nat \ {NoIncident},
         fresh \notin DOMAIN incs, NEW now \in Nat,
         NEW o \in Outcomes(incs, a, fresh, now)
  PROVE  Raising(incs, a, o) /\ Counting(incs, a, o)
<1>0. PICK open \in OpenLists(incs, now) :
        \E own \in OwnIncident(incs, open, a) : \E cross \in CrossIncident(incs, open, a) :
          \E ents \in Truncations(EntitiesBefore(incs, a, own, cross)) :
            o = Outcome(incs, a, own, cross, ents, fresh, now)
  BY DEF Outcomes
<1>1. PICK own \in OwnIncident(incs, open, a), cross \in CrossIncident(incs, open, a) :
        \E ents \in Truncations(EntitiesBefore(incs, a, own, cross)) :
          o = Outcome(incs, a, own, cross, ents, fresh, now)
  BY <1>0
<1>2. PICK ents \in Truncations(EntitiesBefore(incs, a, own, cross)) :
        o = Outcome(incs, a, own, cross, ents, fresh, now)
  BY <1>1
<1>3. open \subseteq DOMAIN incs
  BY OpenListFacts
<1>4. own \in DOMAIN incs \cup {NoIncident} /\ cross \in DOMAIN incs \cup {NoIncident}
  BY <1>3 DEF OwnIncident, CrossIncident, FirstOf
<1>5. ents \subseteq Entities
  <2>1. ents \subseteq EntitiesBefore(incs, a, own, cross)
    BY <1>2 DEF Truncations
  <2>2. EntitiesBefore(incs, a, own, cross) \subseteq Entities
    BY <1>4, AlertFields, IncidentFields DEF EntitiesBefore, Table
  <2>3. QED BY <2>1, <2>2
<1>6. QED
  BY <1>2, <1>4, <1>5, OutcomeRaises, OutcomeCounts

-----------------------------------------------------------------------------
(* Strengthening: an incident has finitely many tactics and hosts, one     *)
(* host at least; and it has what was raised for it.                       *)
\* As Undisturbed, this is said while no alert overlapped a status change.
Sized ==
  ~overlapped =>
    \A i \in DOMAIN incidents :
      /\ IsFiniteSet(incidents[i].tactics)
      /\ IsFiniteSet(incidents[i].hosts) /\ incidents[i].hosts # {}

Deserves(x, i) ==
  /\ x.rule \in CorrelationRules
  /\ x.rule = "CORR-KILLCHAIN" => Cardinality(incidents[i].tactics) >= 3
  /\ x.rule = "CORR-MULTIHOST" => Cardinality(incidents[i].hosts) > 1

RaisedFor ==
  ~overlapped =>
    \A x \in DOMAIN alerts :
      x.about # NoIncident => x.about \in DOMAIN incidents /\ Deserves(x, x.about)

AInv == Sized /\ RaisedFor /\ RaisedOnce /\ ReportedUnlessMerged

LEMMA AddAlertRaises ==
  ASSUME IInv, NEW a \in AgentAlerts, AddAlert(a)
  PROVE  \E o : Effect(o, a) /\ Raising(incidents, a, o) /\ Counting(incidents, a, o)
<1>1. a \in AlertType
  BY AgentAlertsAssumption
<1>2. /\ Table(incidents) /\ processed + 1 \in Nat \ {NoIncident}
      /\ processed + 1 \notin DOMAIN incidents /\ clock \in Nat
  BY DEF IInv, TypeOK, Table, NoIncident
<1>3. PICK o \in Outcomes(incidents, a, processed + 1, clock) :
        incidents' = Placed(o) /\ alerts' = Stored(o, a) /\ commands' = Isolations(o, a)
  BY DEF AddAlert
<1>4. /\ Placing(incidents, a, processed + 1, clock, o)
      /\ PlacedAtHome(incidents, a, clock, o)
      /\ Raising(incidents, a, o) /\ Counting(incidents, a, o)
  BY <1>1, <1>2, PlacingFacts, RaisingAndCounting
<1>5. /\ NoIncident \notin DOMAIN incidents \cup {o.id}
      /\ o.other # NoIncident => o.other \in DOMAIN incidents /\ o.other # o.id
  BY <1>2, <1>4 DEF Table, Placing
<1>6. Effect(o, a)
  BY <1>3, <1>4, <1>5 DEF Effect, Placed, Stored, AddAlert, Arrive
<1>7. QED
  BY <1>4, <1>6

LEMMA Sizes ==
  ASSUME NEW S, NEW T, IsFiniteSet(T), S \subseteq T
  PROVE  /\ IsFiniteSet(S) /\ Cardinality(S) \in Nat /\ Cardinality(T) \in Nat
         /\ Cardinality(S) <= Cardinality(T)
BY FS_Subset, FS_CardinalityType

(* What the table has of an incident after a placing.                      *)
LEMMA AfterAddAlert ==
  ASSUME IInv, ~overlapped, Sized, NEW a \in AgentAlerts, NEW o, Effect(o, a), Raising(incidents, a, o)
  PROVE  /\ Sized'
         /\ \A i \in DOMAIN incidents :
              /\ Cardinality(incidents[i].tactics) \in Nat
              /\ Cardinality(incidents'[i].tactics) \in Nat
              /\ Cardinality(incidents[i].tactics) <= Cardinality(incidents'[i].tactics)
              /\ Cardinality(incidents[i].hosts) \in Nat
              /\ Cardinality(incidents'[i].hosts) \in Nat
              /\ Cardinality(incidents[i].hosts) <= Cardinality(incidents'[i].hosts)
         /\ \A i \in DOMAIN incidents : i # o.id =>
              /\ incidents'[i].tactics = incidents[i].tactics
              /\ incidents'[i].hosts = incidents[i].hosts
              /\ incidents'[i].severity = incidents[i].severity
              /\ incidents'[i].alert_ids = incidents[i].alert_ids
<1>1. ASSUME NEW i \in DOMAIN incidents, i # o.id
      PROVE  /\ incidents'[i].tactics = incidents[i].tactics
             /\ incidents'[i].hosts = incidents[i].hosts
             /\ incidents'[i].severity = incidents[i].severity
             /\ incidents'[i].alert_ids = incidents[i].alert_ids
  <2>1. incidents[i] \in IncidentType /\ i # NoIncident
    BY DEF Effect, IInv, TypeOK
  <2>2. CASE i = o.other
    BY <2>1, <2>2 DEF Effect, MergedAway, IncidentType
  <2>3. CASE i # o.other
    BY <1>1, <2>3 DEF Effect
  <2>4. QED
    BY <2>2, <2>3
<1>2. /\ IsFiniteSet(TacticsBefore(incidents, o)) /\ IsFiniteSet(HostsBefore(incidents, o))
  <2>1. \A i : IsFiniteSet(TacticsIn(incidents, i)) /\ IsFiniteSet(HostsIn(incidents, i))
    BY FS_EmptySet DEF TacticsIn, HostsIn, Sized
  <2>2. QED
    BY <2>1, FS_Union DEF TacticsBefore, HostsBefore
<1>3. /\ incidents'[o.id].tactics = TacticsBefore(incidents, o) \cup TacticsOf(a)
      /\ incidents'[o.id].hosts = HostsBefore(incidents, o) \cup {a.host}
  BY DEF Effect, Placing, Raising, HostsBefore
<1>4. IsFiniteSet(TacticsOf(a)) /\ IsFiniteSet({a.host})
  BY FS_EmptySet, FS_Singleton DEF TacticsOf
<1>5. /\ IsFiniteSet(incidents'[o.id].tactics)
      /\ IsFiniteSet(incidents'[o.id].hosts) /\ incidents'[o.id].hosts # {}
  <2>1. IsFiniteSet(TacticsBefore(incidents, o) \cup TacticsOf(a))
    BY <1>2, <1>4, FS_Union
  <2>2. IsFiniteSet(HostsBefore(incidents, o) \cup {a.host})
    BY <1>2, <1>4, FS_Union
  <2>3. QED
    BY <1>3, <2>1, <2>2
<1>6. Sized'
  <2>1. ASSUME NEW i \in DOMAIN incidents'
        PROVE  /\ IsFiniteSet(incidents'[i].tactics)
               /\ IsFiniteSet(incidents'[i].hosts) /\ incidents'[i].hosts # {}
    <3>1. CASE i = o.id
      BY <1>5, <3>1
    <3>2. CASE i # o.id
      BY <1>1, <3>2 DEF Effect, Sized
    <3>3. QED
      BY <3>1, <3>2
  <2>2. QED
    BY <2>1 DEF Sized
<1>7. ASSUME NEW i \in DOMAIN incidents
      PROVE  /\ incidents[i].tactics \subseteq incidents'[i].tactics
             /\ incidents[i].hosts \subseteq incidents'[i].hosts
             /\ IsFiniteSet(incidents'[i].tactics) /\ IsFiniteSet(incidents'[i].hosts)
  <2>1. CASE i = o.id
    BY <1>3, <1>5, <2>1 DEF TacticsBefore, HostsBefore, TacticsIn, HostsIn
  <2>2. CASE i # o.id
    BY <1>1, <2>2 DEF Sized
  <2>3. QED
    BY <2>1, <2>2
<1>8. QED
  BY <1>1, <1>6, <1>7, Sizes

LEMMA AddAlertRaisedFor ==
  ASSUME IInv, ~overlapped, AInv, NEW a \in AgentAlerts, NEW o, Effect(o, a), Raising(incidents, a, o)
  PROVE  RaisedFor'
<1>1. SUFFICES ASSUME NEW x \in DOMAIN alerts', x.about # NoIncident
               PROVE  x.about \in DOMAIN incidents' /\ Deserves(x, x.about)'
  BY DEF RaisedFor
<1>2. CASE x \in DOMAIN alerts
  <2>1. x.about \in DOMAIN incidents /\ Deserves(x, x.about)
    BY <1>1, <1>2 DEF AInv, RaisedFor
  <2>2. Deserves(x, x.about)'
    BY <2>1, AfterAddAlert DEF AInv, Deserves
  <2>3. QED
    BY <2>1, <2>2 DEF Effect
<1>3. CASE x \in ToSet(o.extra)
  <2>1. x.about = o.id /\ x.rule \in CorrelationRules
    BY <1>3 DEF Raising
  <2>2. x.rule = "CORR-KILLCHAIN" => Cardinality(o.final.tactics) >= 3
    BY <1>3 DEF Raising, Stages
  <2>3. x.rule = "CORR-MULTIHOST" => Cardinality(o.final.hosts) > 1
    BY <1>3 DEF Raising, Spreads
  <2>4. incidents'[o.id] = o.final /\ o.id \in DOMAIN incidents'
    BY DEF Effect
  <2>5. QED
    BY <2>1, <2>2, <2>3, <2>4 DEF Deserves
<1>4. a.about = NoIncident
  BY AgentAlertsAssumption
<1>5. QED
  BY <1>1, <1>2, <1>3, <1>4 DEF Effect, Added

\* A correlation alert is raised when its threshold is crossed, and the
\* incident of one that was raised has crossed it.
LEMMA ExtraIsNew ==
  ASSUME IInv, ~overlapped, AInv, NEW a, NEW o, Effect(o, a), Raising(incidents, a, o),
         NEW x \in ToSet(o.extra), NEW y \in DOMAIN alerts,
         y.about # NoIncident, y.about = x.about, y.rule = x.rule
  PROVE  FALSE
<1>1. /\ y.about = o.id /\ o.id \in DOMAIN incidents
      /\ Deserves(y, o.id)
  BY DEF Raising, AInv, RaisedFor
<1>2. /\ IsFiniteSet(TacticsBefore(incidents, o)) /\ IsFiniteSet(HostsBefore(incidents, o))
  <2>1. \A i : IsFiniteSet(TacticsIn(incidents, i)) /\ IsFiniteSet(HostsIn(incidents, i))
    BY FS_EmptySet DEF TacticsIn, HostsIn, AInv, Sized
  <2>2. QED
    BY <2>1, FS_Union DEF TacticsBefore, HostsBefore
<1>3. /\ incidents[o.id].tactics \subseteq TacticsBefore(incidents, o)
      /\ incidents[o.id].hosts \subseteq HostsBefore(incidents, o)
  BY <1>1 DEF TacticsBefore, HostsBefore, TacticsIn, HostsIn
<1>4. CASE x.rule = "CORR-KILLCHAIN"
  <2>1. Cardinality(incidents[o.id].tactics) >= 3
    BY <1>1, <1>4 DEF Deserves
  <2>2. Cardinality(TacticsBefore(incidents, o)) < 3
    BY <1>4 DEF Raising, Stages
  <2>3. QED
    BY <1>2, <1>3, <2>1, <2>2, Sizes
<1>5. CASE x.rule = "CORR-MULTIHOST"
  <2>1. Cardinality(incidents[o.id].hosts) > 1
    BY <1>1, <1>5 DEF Deserves
  <2>2. Cardinality(HostsBefore(incidents, o)) = 1
    BY <1>5 DEF Raising, Spreads
  <2>3. QED
    BY <1>2, <1>3, <2>1, <2>2, Sizes
<1>6. x.rule \in CorrelationRules
  BY DEF Raising
<1>7. QED
  BY <1>4, <1>5, <1>6 DEF CorrelationRules

LEMMA AddAlertRaisedOnce ==
  ASSUME IInv, ~overlapped, AInv, NEW a \in AgentAlerts, NEW o, Effect(o, a), Raising(incidents, a, o)
  PROVE  RaisedOnce'
<1>1. ASSUME NEW x \in ToSet(o.extra), NEW y \in DOMAIN alerts,
             y.about # NoIncident, y.about = x.about, y.rule = x.rule
      PROVE  FALSE
  BY <1>1, ExtraIsNew
<1>2. ASSUME NEW x \in ToSet(o.extra), NEW y \in ToSet(o.extra), x.rule = y.rule
      PROVE  x = y
  BY <1>2 DEF Raising
<1>3. SUFFICES ASSUME NEW x \in DOMAIN alerts', NEW y \in DOMAIN alerts',
                      x.about # NoIncident, x.about = y.about, x.rule = y.rule
               PROVE  x = y
  BY DEF RaisedOnce
<1>4. x \in DOMAIN alerts \cup ToSet(o.extra) /\ y \in DOMAIN alerts \cup ToSet(o.extra)
  BY <1>3, AgentAlertsAssumption DEF Effect, Added
<1>5. CASE x \in ToSet(o.extra) /\ y \in ToSet(o.extra)
  BY <1>2, <1>3, <1>5
<1>6. CASE x \in ToSet(o.extra) /\ y \in DOMAIN alerts
  BY <1>1, <1>3, <1>6
<1>7. CASE x \in DOMAIN alerts /\ y \in ToSet(o.extra)
  BY <1>1, <1>3, <1>7
<1>8. CASE x \in DOMAIN alerts /\ y \in DOMAIN alerts
  BY <1>3, <1>8 DEF AInv, RaisedOnce
<1>9. QED
  BY <1>4, <1>5, <1>6, <1>7, <1>8

(* What was merged is closed, and is not merged again: no incident loses   *)
(* what was merged into it.                                                *)
LEMMA MergedStay ==
  ASSUME IInv, ~overlapped, ~reopened, NEW a, NEW o, Effect(o, a), NEW i \in DOMAIN incidents',
         MergedInto(i)' = {}
  PROVE  /\ MergedInto(i) = {}
         /\ i = o.id => o.other = NoIncident
<1>1. ASSUME NEW j \in DOMAIN incidents, incidents[j].merged_into = i
      PROVE  incidents'[j].merged_into = i
  <2>1. i # NoIncident
    BY DEF Effect
  <2>2. incidents[j].status = "closed"
    BY <1>1, <2>1 DEF IInv, Undisturbed, MergedAreClosed
  <2>3. j # o.id /\ j # o.other
    <3>1. j \notin OpenIncidents
      BY <2>2 DEF OpenIncidents, Current
    <3>2. j # NoIncident
      BY DEF Effect
    <3>3. QED
      BY <3>1, <3>2, TakerWasOpen
  <2>4. QED
    BY <1>1, <2>3 DEF Effect
<1>2. MergedInto(i) = {}
  BY <1>1 DEF MergedInto, Effect
<1>3. ASSUME i = o.id, o.other # NoIncident
      PROVE  FALSE
  <2>1. o.other \in DOMAIN incidents /\ incidents[o.other] \in IncidentType
    BY <1>3 DEF Effect, Placing, IInv, TypeOK
  <2>2. incidents'[o.other].merged_into = o.id
    BY <1>3, <2>1 DEF Effect, MergedAway, IncidentType
  <2>3. QED
    BY <1>3, <2>1, <2>2 DEF MergedInto, Effect
<1>4. QED
  BY <1>2, <1>3

Due(i) == ReportsStages(i) /\ ReportsHosts(i)

LEMMA AddAlertReported ==
  ASSUME IInv, ~overlapped, AInv, NEW a \in AgentAlerts, NEW o, Effect(o, a), Raising(incidents, a, o)
  PROVE  ReportedUnlessMerged'
<1>1. SUFFICES ASSUME ~reopened, NEW i \in DOMAIN incidents', MergedInto(i)' = {}
               PROVE  Due(i)'
  BY DEF ReportedUnlessMerged, Due, Effect
<1>2. i \in DOMAIN incidents => Due(i)
  BY <1>1, MergedStay DEF AInv, ReportedUnlessMerged, Due
<1>3. CASE i # o.id
  <2>1. i \in DOMAIN incidents
    BY <1>3 DEF Effect
  <2>2. QED
    BY <1>2, <1>3, <2>1, AfterAddAlert DEF AInv, Due, ReportsStages, ReportsHosts, Reports, Listed
<1>4. CASE i = o.id
  <2>1. o.other = NoIncident
    BY <1>1, <1>4, MergedStay
  <2>2. NoIncident \notin DOMAIN incidents
    BY DEF Effect
  <2>3. /\ TacticsBefore(incidents, o) = TacticsIn(incidents, i)
        /\ HostsBefore(incidents, o) = HostsIn(incidents, i)
    BY <1>4, <2>1, <2>2 DEF TacticsBefore, HostsBefore, TacticsIn, HostsIn
  <2>4. /\ incidents'[i] = o.final
        /\ o.final.hosts = HostsIn(incidents, i) \cup {a.host}
        /\ ToSet(o.extra) \subseteq ToSet(o.final.alert_ids)
        /\ IdsIn(incidents, i) \subseteq ToSet(o.final.alert_ids)
    BY <1>4, <2>3 DEF Effect, Placing, HostsBefore
  <2>5. \A rule : (\E x \in ToSet(o.extra) : x.rule = rule) => Reports(i, rule)'
    BY <2>4 DEF Reports, Listed
  <2>6. \A rule : i \in DOMAIN incidents /\ Reports(i, rule) => Reports(i, rule)'
    BY <2>4 DEF Reports, Listed, IdsIn
  <2>7. ASSUME Cardinality(o.final.tactics) >= 3
        PROVE  Reports(i, "CORR-KILLCHAIN")' /\ o.final.severity = Critical
    <3>1. CASE Cardinality(TacticsBefore(incidents, o)) < 3
      BY <2>5, <2>7, <3>1 DEF Raising, Stages
    <3>2. CASE ~(Cardinality(TacticsBefore(incidents, o)) < 3)
      <4>1. i \in DOMAIN incidents
        BY <2>3, <3>2, FS_EmptySet DEF TacticsIn
      <4>2. Cardinality(incidents[i].tactics) \in Nat
        BY <4>1, AfterAddAlert DEF AInv
      <4>3. Cardinality(incidents[i].tactics) >= 3
        BY <2>3, <3>2, <4>1, <4>2 DEF TacticsIn
      <4>4. Reports(i, "CORR-KILLCHAIN") /\ incidents[i].severity = Critical
        BY <1>2, <4>1, <4>3 DEF Due, ReportsStages, ReportsHosts
      <4>5. QED
        BY <1>4, <2>6, <4>1, <4>4 DEF Raising
    <3>3. QED
      BY <3>1, <3>2
  <2>8. ASSUME Cardinality(o.final.hosts) > 1
        PROVE  Reports(i, "CORR-MULTIHOST")'
    <3>1. i \in DOMAIN incidents
      <4>1. SUFFICES ASSUME i \notin DOMAIN incidents PROVE FALSE
        OBVIOUS
      <4>2. o.final.hosts = {a.host}
        BY <2>4, <4>1 DEF HostsIn
      <4>3. Cardinality({a.host}) = 1
        BY FS_Singleton
      <4>4. QED
        BY <2>8, <4>2, <4>3
    <3>2. HostsBefore(incidents, o) = incidents[i].hosts
      BY <2>3, <3>1 DEF HostsIn
    <3>3. CASE Cardinality(incidents[i].hosts) = 1
      BY <2>5, <2>8, <3>2, <3>3 DEF Raising, Spreads
    <3>4. CASE Cardinality(incidents[i].hosts) # 1
      <4>1. Cardinality(incidents[i].hosts) \in Nat /\ Cardinality(incidents[i].hosts) # 0
        BY <3>1, FS_CardinalityType, FS_EmptySet DEF AInv, Sized
      <4>2. Cardinality(incidents[i].hosts) > 1
        BY <3>4, <4>1
      <4>3. QED
        BY <1>2, <2>6, <3>1, <4>2 DEF Due, ReportsStages, ReportsHosts
    <3>5. QED
      BY <3>3, <3>4
  <2>9. QED
    BY <2>4, <2>7, <2>8 DEF Due, ReportsStages, ReportsHosts
<1>5. QED
  BY <1>3, <1>4

-----------------------------------------------------------------------------
LEMMA InitAInv == Init => AInv
<1> SUFFICES ASSUME Init PROVE AInv
  OBVIOUS
<1>1. DOMAIN incidents = {} /\ DOMAIN alerts = {}
  BY DEF Init
<1>2. QED
  BY <1>1 DEF AInv, Sized, RaisedFor, RaisedOnce, ReportedUnlessMerged

\* Once an alert overlapped a status change, that remains said.
LEMMA OverlapStays == [Next]_vars => (overlapped => overlapped')
<1> SUFFICES ASSUME [Next]_vars, overlapped PROVE overlapped'
  OBVIOUS
<1>1. ASSUME NEW a \in AgentAlerts, AddAlert(a) \/ AddInfoAlert(a) PROVE overlapped'
  BY <1>1 DEF AddAlert, AddInfoAlert, Arrive
<1>2. ASSUME NEW i \in DOMAIN incidents, NEW s \in Statuses, ConsoleRead(i, s) PROVE overlapped'
  BY <1>2 DEF ConsoleRead
<1>3. CASE ConsolePut \/ ConsoleQuery
  BY <1>3 DEF ConsolePut, ConsoleQuery
<1>4. CASE ConsoleAlert \/ Restart
  BY <1>4 DEF ConsoleAlert, Restart, ServerEnds, history
<1>5. ASSUME NEW x \in DOMAIN alerts, NEW s \in Statuses, SetAlertStatus(x, s) PROVE overlapped'
  BY <1>5 DEF SetAlertStatus
<1>6. CASE Tick \/ UNCHANGED vars
  BY <1>6 DEF Tick, vars, history
<1>7. QED BY <1>1, <1>2, <1>3, <1>4, <1>5, <1>6 DEF Next

\* What the console writes back changes nothing but the status.
LEMMA ConsolePutKeeps ==
  ASSUME IInv, ~overlapped, ConsolePut
  PROVE  /\ DOMAIN incidents' = DOMAIN incidents /\ UNCHANGED <<alerts, redelivered>>
         /\ ~reopened' => ~reopened
         /\ \A j \in DOMAIN incidents :
              /\ incidents'[j].tactics = incidents[j].tactics
              /\ incidents'[j].hosts = incidents[j].hosts
              /\ incidents'[j].severity = incidents[j].severity
              /\ incidents'[j].alert_ids = incidents[j].alert_ids
              /\ incidents'[j].merged_into = incidents[j].merged_into
<1>1. PICK i, body : i = console.id /\ body = console.body
  OBVIOUS
<1>2. /\ i \in DOMAIN incidents /\ incidents[i] \in IncidentType /\ body \in IncidentType
      /\ incidents' = [incidents EXCEPT ![i] = body]
      /\ UNCHANGED <<alerts, redelivered>> /\ (reopened => reopened')
  BY <1>1, ConsoleFields DEF ConsolePut, IInv, ConsoleFits, TypeOK
<1>3. PICK s \in Statuses : body = [incidents[i] EXCEPT !.status = s]
  BY <1>1, <1>2, IncidentFields DEF ConsolePut, IInv, ConsoleFits, Fresh
<1>4. /\ body.tactics = incidents[i].tactics /\ body.hosts = incidents[i].hosts
      /\ body.severity = incidents[i].severity /\ body.alert_ids = incidents[i].alert_ids
      /\ body.merged_into = incidents[i].merged_into
  BY <1>2, <1>3, Restated
<1>5. incidents'[i] = body /\ \A j \in DOMAIN incidents : j # i => incidents'[j] = incidents[j]
  BY <1>2
<1>6. QED BY <1>2, <1>4, <1>5

LEMMA StepAInv == IInv /\ AInv /\ [Next]_vars => AInv'
<1>0. overlapped' => AInv'
  BY DEF AInv, Sized, RaisedFor, RaisedOnce, ReportedUnlessMerged
<1> SUFFICES ASSUME IInv, ~overlapped, ~overlapped', AInv, [Next]_vars PROVE AInv'
  BY <1>0, OverlapStays
<1>1. ASSUME NEW a \in AgentAlerts, AddAlert(a) PROVE AInv'
  <2>1. PICK o : Effect(o, a) /\ Raising(incidents, a, o)
    BY <1>1, AddAlertRaises
  <2>2. Sized'
    BY <2>1, AfterAddAlert DEF AInv
  <2>3. QED
    BY <2>1, <2>2, AddAlertRaisedFor, AddAlertRaisedOnce, AddAlertReported DEF AInv
<1>2. ASSUME UNCHANGED incidents, reopened' = reopened,
             \A x \in DOMAIN alerts' \ DOMAIN alerts : x.about = NoIncident
      PROVE  AInv'
  BY <1>2 DEF AInv, Sized, RaisedFor, RaisedOnce, ReportedUnlessMerged, Deserves, MergedInto,
     Reports, ReportsStages, ReportsHosts, Listed
<1>3. ASSUME NEW a \in AgentAlerts, AddInfoAlert(a) PROVE AInv'
  BY <1>2, <1>3, AgentAlertsAssumption DEF AddInfoAlert, Arrive
<1>4. CASE ConsolePut
  <2>1. /\ DOMAIN incidents' = DOMAIN incidents /\ DOMAIN alerts' = DOMAIN alerts
        /\ ~reopened' => ~reopened
    BY <1>4, ConsolePutKeeps
  <2>2. \A j \in DOMAIN incidents :
          /\ incidents'[j].tactics = incidents[j].tactics /\ incidents'[j].hosts = incidents[j].hosts
          /\ incidents'[j].severity = incidents[j].severity
          /\ incidents'[j].alert_ids = incidents[j].alert_ids
          /\ incidents'[j].merged_into = incidents[j].merged_into
    BY <1>4, ConsolePutKeeps
  <2>3. Sized' /\ RaisedOnce'
    BY <2>1, <2>2 DEF AInv, Sized, RaisedOnce
  <2>4. RaisedFor'
    BY <2>1, <2>2 DEF AInv, RaisedFor, Deserves
  <2>5. \A j \in DOMAIN incidents : MergedInto(j)' = MergedInto(j)
    BY <2>1, <2>2 DEF MergedInto
  <2>6. \A j \in DOMAIN incidents : \A rule : Reports(j, rule) => Reports(j, rule)'
    BY <2>2 DEF Reports, Listed
  <2>7. ReportedUnlessMerged'
    BY <2>1, <2>2, <2>5, <2>6 DEF AInv, ReportedUnlessMerged, ReportsStages, ReportsHosts
  <2>8. QED
    BY <2>3, <2>4, <2>7 DEF AInv
<1>5. ASSUME NEW x \in DOMAIN alerts, NEW s \in Statuses, SetAlertStatus(x, s) PROVE AInv'
  BY <1>2, <1>5 DEF SetAlertStatus
<1>6. CASE Tick
  BY <1>2, <1>6 DEF Tick, tables, history
<1>7. CASE UNCHANGED vars
  BY <1>2, <1>7 DEF vars, tables, history
<1>8. ASSUME NEW i \in DOMAIN incidents, NEW s \in Statuses, ConsoleRead(i, s) PROVE AInv'
  BY <1>2, <1>8 DEF ConsoleRead, ReadIncident, tables
<1>9. CASE ConsoleQuery \/ Restart
  BY <1>2, <1>9 DEF ConsoleQuery, Restart, ServerEnds, tables
<1>10. CASE ConsoleAlert
  <2>1. UNCHANGED <<incidents, reopened>> /\ DOMAIN alerts' = DOMAIN alerts
    BY <1>10 DEF ConsoleAlert, history
  <2>2. QED BY <1>2, <2>1
<1>11. QED
  BY <1>1, <1>3, <1>4, <1>5, <1>6, <1>7, <1>8, <1>9, <1>10 DEF Next

LEMMA InvariantAInv == Spec => []AInv
<1>1. Init => IInv /\ AInv
  BY InitIInv, InitAInv
<1>2. IInv /\ AInv /\ [Next]_vars => (IInv /\ AInv)'
  BY StepIInv, StepAInv
<1>3. QED
  BY <1>1, <1>2, PTL DEF Spec

\* process: "Ataque multi-etapa" and "Actividad relacionada" come once for an
\* incident at most, with late and repeated alerts, merges and reopening.
THEOREM CorrelationAlertsAreRaisedOnce == Spec => []RaisedOnce
<1>1. AInv => RaisedOnce
  BY DEF AInv
<1>2. QED
  BY <1>1, InvariantAInv, PTL

\* process: an incident that nothing was merged into has its correlation
\* alerts as soon as it has three tactics or two hosts, and is critical with
\* the former, until the console reopens an incident.
THEOREM IncidentsAreReported == Spec => []ReportedUnlessMerged
<1>1. AInv => ReportedUnlessMerged
  BY DEF AInv
<1>2. QED
  BY <1>1, InvariantAInv, PTL

-----------------------------------------------------------------------------
(* Strengthening: an incident lists stored alerts, and an alert that came  *)
(* once lives in an incident that was not merged away.                     *)
ListedAreStored ==
  ~overlapped =>
    \A i \in DOMAIN incidents : \A x \in Listed(i) :
      x \in DOMAIN alerts /\ alerts[x].incident # NoIncident

HomesAreUnmerged ==
  (~overlapped /\ ~reopened) =>
    \A x \in DOMAIN alerts \ redelivered :
      alerts[x].incident # NoIncident => alerts[x].incident \in Unmerged

CInv == ListedAreStored /\ HomesAreUnmerged /\ CountedOnce

\* An alert that is not stored is counted nowhere.
LEMMA Uncounted ==
  ASSUME IInv, NEW i, NEW x
  PROVE  /\ CountIn(incidents, i, x) \in Nat
         /\ i \in DOMAIN incidents => CountIn(incidents, i, x) = Occurrences(i, x)
         /\ (i \in DOMAIN incidents /\ x \notin Listed(i)) => CountIn(incidents, i, x) = 0
         /\ i \notin DOMAIN incidents => CountIn(incidents, i, x) = 0
<1>1. CASE i \notin DOMAIN incidents
  BY <1>1 DEF CountIn
<1>2. CASE i \in DOMAIN incidents
  <2>1. incidents[i].alert_ids \in Seq(AlertType)
    BY <1>2, IncidentFields DEF IInv, TypeOK
  <2>2. /\ Count(incidents[i].alert_ids, x) \in Nat
        /\ x \notin ToSet(incidents[i].alert_ids) => Count(incidents[i].alert_ids, x) = 0
    BY <2>1, CountType
  <2>3. CountIn(incidents, i, x) = Count(incidents[i].alert_ids, x)
    BY <1>2 DEF CountIn
  <2>4. Count(incidents[i].alert_ids, x) = Occurrences(i, x)
    BY DEF Count, Occurrences
  <2>5. QED
    BY <1>2, <2>2, <2>3, <2>4 DEF Listed
<1>3. QED
  BY <1>1, <1>2

LEMMA ListedIsCounted ==
  ASSUME IInv, NEW i \in DOMAIN incidents, NEW x \in Listed(i)
  PROVE  CountIn(incidents, i, x) # 0
<1>1. incidents[i].alert_ids \in Seq(AlertType)
  BY IncidentFields DEF IInv, TypeOK
<1>2. QED
  BY <1>1, CountType DEF CountIn, Listed

LEMMA AddAlertListed ==
  ASSUME IInv, ~overlapped, ListedAreStored, NEW a \in AgentAlerts, NEW o, Effect(o, a)
  PROVE  ListedAreStored'
<1>1. SUFFICES ASSUME NEW i \in DOMAIN incidents', NEW x \in Listed(i)'
               PROVE  x \in DOMAIN alerts' /\ alerts'[x].incident # NoIncident
  BY DEF ListedAreStored
<1>2. \A j : IdsIn(incidents, j) \subseteq {y \in DOMAIN alerts : alerts[y].incident # NoIncident}
  BY DEF IdsIn, ListedAreStored, Listed
<1>3. x \in Added(o, a) \/ (x \in DOMAIN alerts /\ alerts[x].incident # NoIncident)
  <2>1. CASE i = o.id
    BY <1>1, <1>2, <2>1 DEF Effect, Placing, Listed, Added
  <2>2. CASE i # o.id
    <3>1. i \in DOMAIN incidents /\ incidents[i] \in IncidentType
      BY <2>2 DEF Effect, IInv, TypeOK
    <3>2. incidents'[i].alert_ids = incidents[i].alert_ids
      <4>1. CASE i = o.other
        <5>1. incidents'[i] = MergedAway(incidents[i], o.id)
          BY <3>1, <4>1 DEF Effect
        <5>2. QED
          BY <3>1, <5>1 DEF MergedAway, IncidentType
      <4>2. CASE i # o.other
        BY <2>2, <3>1, <4>2 DEF Effect
      <4>3. QED
        BY <4>1, <4>2
    <3>3. QED
      BY <1>1, <3>1, <3>2 DEF ListedAreStored, Listed
  <2>3. QED
    BY <2>1, <2>2
<1>4. o.id # NoIncident
  BY DEF Effect
<1>5. CASE x \in Added(o, a)
  BY <1>4, <1>5 DEF Effect
<1>6. CASE x \notin Added(o, a)
  <2>1. x \in DOMAIN alerts /\ alerts[x].incident # NoIncident /\ alerts[x] \in RowType
    BY <1>3, <1>6 DEF IInv, TypeOK
  <2>2. QED
    BY <1>4, <1>6, <2>1 DEF Effect, RowType
<1>7. QED
  BY <1>5, <1>6

\* Where the incidents of an outcome are while none was reopened: the two that
\* it touches were not merged away, and only the one merged into the other is.
LEMMA UnmergedAfter ==
  ASSUME IInv, ~overlapped, ~reopened, NEW a \in AgentAlerts, NEW o, Effect(o, a)
  PROVE  /\ o.id \in DOMAIN incidents => o.id \in Unmerged
         /\ o.other # NoIncident => o.other \in Unmerged /\ o.other # o.id
         /\ o.id \in Unmerged'
         /\ Unmerged' \ {o.id} = Unmerged \ {o.id, o.other}
<1>1. /\ o.id \in DOMAIN incidents => incidents[o.id].merged_into = NoIncident
      /\ o.other # NoIncident =>
           /\ o.other \in DOMAIN incidents /\ o.other # o.id
           /\ incidents[o.other].merged_into = NoIncident
  BY DEF IInv, Undisturbed, MergedAreClosed, Effect, Placing, Current
<1>2. /\ o.id \in DOMAIN incidents' /\ incidents'[o.id] = o.final
      /\ o.final.merged_into = NoIncident
  BY <1>1 DEF Effect, Placing
<1>3. ASSUME o.other # NoIncident
      PROVE  incidents'[o.other].merged_into = o.id /\ o.id # NoIncident
  <2>1. incidents[o.other] \in IncidentType
    BY <1>1, <1>3 DEF IInv, TypeOK
  <2>2. QED
    BY <1>3, <2>1 DEF Effect, MergedAway, IncidentType
<1>4. ASSUME NEW i, i # o.id
      PROVE  i \in Unmerged' <=> i \in Unmerged /\ i # o.other
  <2>1. i \in DOMAIN incidents' <=> i \in DOMAIN incidents
    BY <1>4 DEF Effect
  <2>2. CASE i \notin DOMAIN incidents
    BY <2>1, <2>2 DEF Unmerged
  <2>3. CASE i \in DOMAIN incidents /\ i = o.other
    BY <1>3, <2>1, <2>3 DEF Unmerged, Effect
  <2>4. CASE i \in DOMAIN incidents /\ i # o.other
    BY <1>4, <2>1, <2>4 DEF Unmerged, Effect
  <2>5. QED
    BY <2>2, <2>3, <2>4
<1>5. QED
  BY <1>1, <1>2, <1>4 DEF Unmerged

\* An alert that is stored under the target once and nowhere else.
LEMMA AddAlertCountedOnce ==
  ASSUME IInv, ~overlapped, AInv, CInv, NEW a \in AgentAlerts, AddAlert(a),
         NEW o, Effect(o, a), Raising(incidents, a, o), Counting(incidents, a, o)
  PROVE  HomesAreUnmerged' /\ CountedOnce'
<1>1. SUFFICES ASSUME ~reopened, NEW x \in DOMAIN alerts' \ redelivered',
                      alerts'[x].incident # NoIncident
               PROVE  /\ alerts'[x].incident \in Unmerged'
                      /\ \A i \in Unmerged' :
                           Occurrences(i, x)' = IF i = alerts'[x].incident THEN 1 ELSE 0
  BY DEF HomesAreUnmerged, CountedOnce, Effect
<1>2. /\ redelivered \subseteq redelivered'
      /\ a \in DOMAIN alerts => a \in redelivered'
  BY DEF AddAlert, Arrive
<1>3. a \notin ToSet(o.extra) /\ NoIncident \notin DOMAIN incidents \cup {o.id}
  BY AgentAlertsAssumption DEF Raising, Effect
<1>4. /\ o.id \in DOMAIN incidents => o.id \in Unmerged
      /\ o.other # NoIncident => o.other \in Unmerged /\ o.other # o.id
      /\ o.id \in Unmerged'
      /\ Unmerged' \ {o.id} = Unmerged \ {o.id, o.other}
  BY <1>1, UnmergedAfter
<1>5. Occurrences(o.id, x)' =
        CountIn(incidents, o.id, x) + CountIn(incidents, o.other, x)
        + (IF x = a THEN 1 ELSE 0) + (IF x \in ToSet(o.extra) THEN 1 ELSE 0)
  <2>1. Occurrences(o.id, x)' = Count(o.final.alert_ids, x)
    BY DEF Occurrences, Count, Effect
  <2>2. QED
    BY <2>1 DEF Counting
<1>6. ASSUME NEW i \in Unmerged', i # o.id
      PROVE  i \in Unmerged /\ i # o.other /\ Occurrences(i, x)' = Occurrences(i, x)
  <2>1. i \in Unmerged /\ i # o.other
    BY <1>4, <1>6
  <2>2. incidents'[i] = incidents[i]
    BY <1>6, <2>1 DEF Unmerged, Effect
  <2>3. QED
    BY <2>1, <2>2 DEF Occurrences
<1>7. CASE x \in Added(o, a)
  <2>1. x \notin DOMAIN alerts
    <3>1. CASE x = a
      BY <1>1, <1>2, <3>1
    <3>2. CASE x \in ToSet(o.extra)
      BY <1>3, <3>2, ExtraIsNew DEF Raising
    <3>3. QED
      BY <1>7, <3>1, <3>2 DEF Added
  <2>2. \A i \in DOMAIN incidents : x \notin Listed(i)
    BY <2>1 DEF CInv, ListedAreStored
  <2>3. \A i : CountIn(incidents, i, x) = 0
    BY <2>2, Uncounted
  <2>4. Occurrences(o.id, x)' = 1
    <3>1. CASE x = a
      BY <1>3, <1>5, <2>3, <3>1
    <3>2. CASE x \in ToSet(o.extra)
      BY <1>3, <1>5, <2>3, <3>2
    <3>3. QED
      BY <1>7, <3>1, <3>2 DEF Added
  <2>5. alerts'[x].incident = o.id
    BY <1>7 DEF Effect
  <2>6. ASSUME NEW i \in Unmerged', i # o.id PROVE Occurrences(i, x)' = 0
    <3>1. i \in DOMAIN incidents /\ Occurrences(i, x)' = Occurrences(i, x)
      BY <1>6, <2>6 DEF Unmerged
    <3>2. QED
      BY <2>3, <3>1, Uncounted
  <2>7. QED
    BY <1>4, <2>4, <2>5, <2>6
<1>8. CASE x \notin Added(o, a)
  <2> DEFINE h == alerts[x].incident
  <2>1. /\ x \in DOMAIN alerts \ redelivered /\ x # a /\ x \notin ToSet(o.extra)
        /\ alerts[x] \in RowType
    BY <1>1, <1>2, <1>8 DEF Effect, Added, IInv, TypeOK
  <2>2. /\ x \in Repointed(o) => alerts'[x].incident = o.id
        /\ x \notin Repointed(o) => alerts'[x].incident = h
    BY <1>8, <2>1 DEF Effect, RowType
  <2>3. h # NoIncident
    <3>1. SUFFICES ASSUME h = NoIncident PROVE FALSE
      OBVIOUS
    <3>2. \A i \in DOMAIN incidents : x \notin Listed(i)
      BY <3>1 DEF CInv, ListedAreStored
    <3>3. x \notin Repointed(o)
      BY <1>4, <3>2 DEF Repointed, Listed, Unmerged
    <3>4. QED
      BY <1>1, <2>2, <3>1, <3>3
  <2>4. h \in Unmerged /\ \A i \in Unmerged : Occurrences(i, x) = IF i = h THEN 1 ELSE 0
    BY <1>1, <2>1, <2>3 DEF CInv, HomesAreUnmerged, CountedOnce
  <2> HIDE DEF h
  <2>5. /\ CountIn(incidents, o.id, x) = IF o.id = h THEN 1 ELSE 0
        /\ CountIn(incidents, o.other, x) = IF o.other = h THEN 1 ELSE 0
    <3>1. \A i \in Unmerged : CountIn(incidents, i, x) = IF i = h THEN 1 ELSE 0
      BY <2>4, Uncounted DEF Unmerged
    <3>2. h \in DOMAIN incidents
      BY <2>4 DEF Unmerged
    <3>3. o.id \notin DOMAIN incidents => CountIn(incidents, o.id, x) = 0 /\ o.id # h
      BY <3>2, Uncounted
    <3>4. o.other = NoIncident => CountIn(incidents, o.other, x) = 0 /\ o.other # h
      BY <1>3, <2>3, Uncounted
    <3>5. QED
      BY <1>4, <3>1, <3>3, <3>4
  <2>6. Occurrences(o.id, x)' =
          (IF o.id = h THEN 1 ELSE 0) + (IF o.other = h THEN 1 ELSE 0)
    BY <1>5, <2>1, <2>5
  <2>7. x \in Repointed(o) <=> o.other = h
    <3>1. CASE o.other = NoIncident
      BY <2>3, <3>1 DEF Repointed
    <3>2. CASE o.other # NoIncident
      <4>1. o.other \in DOMAIN incidents /\ (x \in Repointed(o) <=> x \in Listed(o.other))
        BY <1>4, <3>2 DEF Repointed, Listed, Unmerged
      <4>2. x \notin Listed(o.other) => CountIn(incidents, o.other, x) = 0
        BY <4>1, Uncounted
      <4>3. x \in Listed(o.other) => CountIn(incidents, o.other, x) # 0
        BY <4>1, ListedIsCounted
      <4>4. QED
        BY <2>5, <4>1, <4>2, <4>3
    <3>3. QED
      BY <3>1, <3>2
  <2>8. CASE o.other = h
    <3>1. alerts'[x].incident = o.id
      BY <2>2, <2>7, <2>8
    <3>2. o.id # h
      BY <1>4, <2>3, <2>8
    <3>3. Occurrences(o.id, x)' = 1
      BY <2>6, <2>8, <3>2
    <3>4. \A i \in Unmerged' : i # o.id => Occurrences(i, x)' = 0
      BY <1>6, <2>4, <2>8
    <3>5. QED
      BY <1>4, <3>1, <3>3, <3>4
  <2>9. CASE o.other # h
    <3>1. alerts'[x].incident = h
      BY <2>2, <2>7, <2>9 DEF h
    <3>2. Occurrences(o.id, x)' = IF o.id = h THEN 1 ELSE 0
      BY <2>6, <2>9
    <3>3. \A i \in Unmerged' : i # o.id => Occurrences(i, x)' = IF i = h THEN 1 ELSE 0
      BY <1>6, <2>4
    <3>4. h \in Unmerged'
      BY <1>4, <2>4, <2>9
    <3>5. QED
      BY <3>1, <3>2, <3>3, <3>4
  <2>10. QED
    BY <2>8, <2>9
<1>9. QED
  BY <1>7, <1>8

LEMMA InitCInv == Init => CInv
<1> SUFFICES ASSUME Init PROVE CInv
  OBVIOUS
<1>1. DOMAIN incidents = {} /\ DOMAIN alerts = {}
  BY DEF Init
<1>2. QED
  BY <1>1 DEF CInv, ListedAreStored, HomesAreUnmerged, CountedOnce

\* What the properties read of the lists is left alone.
LEMMA SameListsCInv ==
  ASSUME CInv, ~overlapped,
         DOMAIN incidents' = DOMAIN incidents, DOMAIN alerts' = DOMAIN alerts,
         \A i \in DOMAIN incidents :
           /\ incidents'[i].alert_ids = incidents[i].alert_ids
           /\ incidents'[i].merged_into = incidents[i].merged_into,
         \A x \in DOMAIN alerts : alerts'[x].incident = alerts[x].incident,
         redelivered' = redelivered, ~reopened' => ~reopened
  PROVE  CInv'
<1>1. ListedAreStored'
  BY DEF CInv, ListedAreStored, Listed
<1>2. Unmerged' = Unmerged
  BY DEF Unmerged
<1>3. HomesAreUnmerged'
  BY <1>2 DEF CInv, HomesAreUnmerged
<1>4. \A i \in Unmerged : \A x : Occurrences(i, x)' = Occurrences(i, x)
  BY DEF Unmerged, Occurrences
<1>5. CountedOnce'
  BY <1>2, <1>4 DEF CInv, CountedOnce
<1>6. QED
  BY <1>1, <1>3, <1>5 DEF CInv

LEMMA StepCInv == IInv /\ AInv /\ CInv /\ [Next]_vars => CInv'
<1>0. overlapped' => CInv'
  BY DEF CInv, ListedAreStored, HomesAreUnmerged, CountedOnce
<1> SUFFICES ASSUME IInv, ~overlapped, ~overlapped', AInv, CInv, [Next]_vars PROVE CInv'
  BY <1>0, OverlapStays
<1>1. ASSUME NEW a \in AgentAlerts, AddAlert(a) PROVE CInv'
  <2>1. PICK o : Effect(o, a) /\ Raising(incidents, a, o) /\ Counting(incidents, a, o)
    BY <1>1, AddAlertRaises
  <2>2. ListedAreStored'
    BY <2>1, AddAlertListed DEF CInv
  <2>3. HomesAreUnmerged' /\ CountedOnce'
    BY <1>1, <2>1, AddAlertCountedOnce
  <2>4. QED
    BY <2>2, <2>3 DEF CInv
<1>2. ASSUME NEW a \in AgentAlerts, AddInfoAlert(a) PROVE CInv'
  <2>1. /\ incidents' = incidents /\ reopened' = reopened
        /\ DOMAIN alerts' = DOMAIN alerts \cup {a}
        /\ alerts'[a].incident = NoIncident /\ a.sev = Info
        /\ \A x \in DOMAIN alerts : x # a => alerts'[x] = alerts[x]
        /\ redelivered \subseteq redelivered'
    BY <1>2 DEF AddInfoAlert, Arrive
  <2>2. \A i \in DOMAIN incidents : a \notin Listed(i)
    BY <2>1 DEF IInv, Undisturbed, ListedFits
  <2>3. \A i \in DOMAIN incidents : Listed(i)' = Listed(i)
    BY <2>1 DEF Listed
  <2>4. ListedAreStored'
    BY <2>1, <2>2, <2>3 DEF CInv, ListedAreStored
  <2>5. Unmerged' = Unmerged /\ \A i, x : Occurrences(i, x)' = Occurrences(i, x)
    BY <2>1 DEF Unmerged, Occurrences
  <2>6. HomesAreUnmerged'
    BY <2>1, <2>5 DEF CInv, HomesAreUnmerged
  <2>7. CountedOnce'
    BY <2>1, <2>5 DEF CInv, CountedOnce
  <2>8. QED
    BY <2>4, <2>6, <2>7 DEF CInv
<1>3. CASE ConsolePut
  BY <1>3, ConsolePutKeeps, SameListsCInv
<1>4. ASSUME NEW x \in DOMAIN alerts, NEW s \in Statuses, SetAlertStatus(x, s) PROVE CInv'
  <2>1. \A y \in DOMAIN alerts : alerts'[y].incident = alerts[y].incident
    BY <1>4 DEF SetAlertStatus, IInv, TypeOK, RowType
  <2>2. QED
    BY <1>4, <2>1, SameListsCInv DEF SetAlertStatus
<1>5. ASSUME UNCHANGED <<incidents, alerts, redelivered, reopened>> PROVE CInv'
  BY <1>5, SameListsCInv
<1>6. CASE Tick \/ UNCHANGED vars
  BY <1>5, <1>6 DEF Tick, vars, tables, history
<1>7. ASSUME NEW i \in DOMAIN incidents, NEW s \in Statuses, ConsoleRead(i, s) PROVE CInv'
  BY <1>5, <1>7 DEF ConsoleRead, ReadIncident, tables
<1>8. CASE ConsoleQuery \/ Restart
  BY <1>5, <1>8 DEF ConsoleQuery, Restart, ServerEnds, tables
<1>9. CASE ConsoleAlert
  <2>1. UNCHANGED <<incidents, redelivered, reopened>>
    BY <1>9 DEF ConsoleAlert, history
  <2>2. \A y \in DOMAIN alerts : alerts'[y].incident = alerts[y].incident
    BY <1>9 DEF ConsoleAlert, IInv, TypeOK, RowType
  <2>3. DOMAIN alerts' = DOMAIN alerts
    BY <1>9 DEF ConsoleAlert
  <2>4. QED
    BY <2>1, <2>2, <2>3, SameListsCInv
<1>10. QED
  BY <1>1, <1>2, <1>3, <1>4, <1>6, <1>7, <1>8, <1>9 DEF Next

LEMMA InvariantCInv == Spec => []CInv
<1>1. Init => IInv /\ AInv /\ CInv
  BY InitIInv, InitAInv, InitCInv
<1>2. IInv /\ AInv /\ CInv /\ [Next]_vars => (IInv /\ AInv /\ CInv)'
  BY StepIInv, StepAInv, StepCInv
<1>3. QED
  BY <1>1, <1>2, PTL DEF Spec

\* process, merge: an alert that came once is counted once among the incidents
\* that were not merged away, until the console reopens an incident.
THEOREM AlertsAreCountedOnce == Spec => []CountedOnce
<1>1. CInv => CountedOnce
  BY DEF CInv
<1>2. QED
  BY <1>1, InvariantCInv, PTL

-----------------------------------------------------------------------------
(* IncidentStore: the same, one statement at a time.  First, sequences.    *)
LEMMA PairIsSeq ==
  ASSUME NEW S, NEW x \in S, NEW y \in S
  PROVE  /\ <<x>> \in Seq(S) /\ Len(<<x>>) = 1 /\ <<x>>[1] = x
         /\ <<x, y>> \in Seq(S) /\ Len(<<x, y>>) = 2 /\ <<x, y>>[1] = x /\ <<x, y>>[2] = y
OBVIOUS

LEMMA PairConcat ==
  ASSUME NEW x, NEW y
  PROVE  <<x>> \o <<y>> = <<x, y>>
<1> DEFINE S == {x, y}
           s == <<x>>
           u == <<x, y>>
<1>1. /\ s \in Seq(S) /\ Len(s) = 1 /\ s[1] = x
      /\ u \in Seq(S) /\ Len(u) = 2 /\ u[1] = x /\ u[2] = y
  BY PairIsSeq
<1> HIDE DEF s, u
<1>2. s \o <<y>> = Append(s, y)
  BY <1>1, AppendIsConcat
<1>3. /\ Append(s, y) \in Seq(S) /\ Len(Append(s, y)) = 2
      /\ Append(s, y)[1] = x /\ Append(s, y)[2] = y
  BY <1>1, AppendProperties
<1>4. Append(s, y) = u
  BY <1>1, <1>3, SeqEqual
<1>5. QED
  BY <1>2, <1>4 DEF s, u

LEMMA ConcatTwo ==
  ASSUME NEW S, NEW s \in Seq(S), NEW x \in S, NEW y \in S
  PROVE  s \o <<x, y>> = Append(Append(s, x), y)
<1>1. <<x>> \in Seq(S) /\ <<y>> \in Seq(S)
  BY PairIsSeq
<1>2. s \o (<<x>> \o <<y>>) = (s \o <<x>>) \o <<y>>
  BY <1>1, ConcatAssociative
<1>3. s \o <<x>> = Append(s, x) /\ Append(s, x) \in Seq(S)
  BY AppendIsConcat, AppendProperties
<1>4. Append(s, x) \o <<y>> = Append(Append(s, x), y)
  BY <1>3, AppendIsConcat
<1>5. QED
  BY <1>2, <1>3, <1>4, PairConcat

LEMMA FlattenNone == FlattenSeq(<< >>) = << >>
BY DEF FlattenSeq

LEMMA FlattenOne ==
  ASSUME NEW S, NEW s \in Seq(S)
  PROVE  FlattenSeq(<<s>>) = s
<1> DEFINE f == [i \in 1..1 |-> s]
           F == [i \in 1..Len(<<s>>) |-> IF i = 1 THEN <<s>>[i] ELSE f[i - 1] \o <<s>>[i]]
<1>1. f = F
  OBVIOUS
<1>2. QED
  BY <1>1 DEF FlattenSeq

LEMMA FlattenTwo ==
  ASSUME NEW S, NEW s \in Seq(S), NEW t \in Seq(S)
  PROVE  FlattenSeq(<<s, t>>) = s \o t
<1> DEFINE f == [i \in 1..2 |-> IF i = 1 THEN s ELSE s \o t]
           F(g) == [i \in 1..Len(<<s, t>>) |->
                      IF i = 1 THEN <<s, t>>[i] ELSE g[i - 1] \o <<s, t>>[i]]
<1>1. f = F(f)
  OBVIOUS
<1>2. ASSUME NEW g, g = F(g) PROVE g[2] = s \o t
  <2>1. \A i \in 1..2 : g[i] = IF i = 1 THEN <<s, t>>[i] ELSE g[i - 1] \o <<s, t>>[i]
    BY <1>2
  <2>2. g[1] = s
    BY <2>1
  <2>3. g[2] = g[1] \o t
    <3>1. 2 \in 1..2 /\ 2 # 1 /\ 2 - 1 = 1 /\ <<s, t>>[2] = t
      OBVIOUS
    <3>2. QED
      BY <2>1, <3>1
  <2>4. QED
    BY <2>2, <2>3
<1> HIDE DEF f
<1>3. (CHOOSE g : g = F(g)) = F(CHOOSE g : g = F(g))
  BY <1>1
<1>4. (CHOOSE g : g = F(g))[2] = s \o t
  BY <1>2, <1>3
<1>5. FlattenSeq(<<s, t>>) = (CHOOSE g : g = F(g))[2]
  BY DEF FlattenSeq
<1>6. QED
  BY <1>4, <1>5

-----------------------------------------------------------------------------
\* What add_alert writes for an outcome o: the body, then the alerts it raised.
Stating(incs, a, fresh, o) ==
  /\ o.body \in IncidentType
  /\ o.final = [o.body EXCEPT !.alert_ids = @ \o o.extra]
  /\ ToSet(o.body.alert_ids) = IdsIn(incs, o.id) \cup IdsIn(incs, o.other) \cup {a}
  /\ \A x \in ToSet(o.extra) : x.n = fresh
  /\ \/ o.extra = << >>
     \/ \E x \in AlertType : o.extra = <<x>>
     \/ \E x, y \in AlertType : o.extra = <<x, y>> /\ x.rule # y.rule

LEMMA ExtraStates ==
  ASSUME NEW prev \in IncidentType, NEW next \in IncidentType, NEW a \in AlertType,
         NEW id \in Nat, NEW n \in Nat, NEW now \in Nat, NEW s,
         s = Extra(prev, next, a, id, n, now)
  PROVE  /\ \A x \in ToSet(s) : x.n = n
         /\ \/ s = << >>
            \/ \E x \in AlertType : s = <<x>>
            \/ \E x, y \in AlertType : s = <<x, y>> /\ x.rule # y.rule
<1> DEFINE killchain == [rule |-> "CORR-KILLCHAIN", n |-> n, about |-> id, host |-> a.host,
                         tactic |-> a.tactic, ents |-> {}, sev |-> Critical, ts |-> now]
           multihost == [rule |-> "CORR-MULTIHOST", n |-> n, about |-> id, host |-> a.host,
                         tactic |-> "lateral-movement", ents |-> {}, sev |-> High, ts |-> now]
<1>1. killchain \in AlertType /\ multihost \in AlertType
  BY AlertFields, RankType DEF AlertType
<1>2. killchain.n = n /\ multihost.n = n /\ killchain.rule # multihost.rule
  OBVIOUS
<1> DEFINE first  == IF MultiStage(prev, next) THEN <<killchain>> ELSE << >>
           second == IF MultiHost(prev, next) THEN <<multihost>> ELSE << >>
<1>3. s = first \o second
  BY DEF Extra
<1> HIDE DEF killchain, multihost
<1>4. s = << >> \/ s = <<killchain>> \/ s = <<multihost>> \/ s = <<killchain, multihost>>
  <2>1. \A x : << >> \o <<x>> = <<x>> /\ <<x>> \o << >> = <<x>>
    OBVIOUS
  <2>2. \A x, y : <<x>> \o <<y>> = <<x, y>>
    BY PairConcat
  <2>3. << >> \o << >> = << >>
    OBVIOUS
  <2>4. QED
    BY <1>3, <2>1, <2>2, <2>3
<1>5. QED
  BY <1>1, <1>2, <1>4 DEF ToSet

LEMMA OutcomeStates ==
  ASSUME NEW incs, Table(incs), NEW a \in AlertType, NEW fresh \in Nat \ {NoIncident},
         fresh \notin DOMAIN incs, NEW now \in Nat,
         NEW own \in DOMAIN incs \cup {NoIncident},
         NEW cross \in DOMAIN incs \cup {NoIncident},
         NEW ents \in SUBSET Entities
  PROVE  Stating(incs, a, fresh, Outcome(incs, a, own, cross, ents, fresh, now))
<1> DEFINE id     == IF own # NoIncident THEN own
                     ELSE IF cross # NoIncident THEN cross ELSE fresh
           other  == IF own # NoIncident THEN cross ELSE NoIncident
           found  == IF id = fresh THEN NewIncident(a) ELSE incs[id]
           prev   == IF other = NoIncident THEN found ELSE Merge(found, incs[other])
           ext    == Extend(prev, a, ents)
           next   == RaiseSeverity(prev, ext)
           extra  == Extra(prev, next, a, id, fresh, now)
           o      == Outcome(incs, a, own, cross, ents, fresh, now)
<1>1. /\ o.id = id /\ o.other = other /\ o.extra = extra /\ o.body = next
      /\ o.final = [next EXCEPT !.alert_ids = @ \o extra]
  BY DEF Outcome
<1> HIDE DEF o
<1>2. /\ id \in DOMAIN incs \cup {fresh} /\ id \in Nat
      /\ other \in DOMAIN incs \cup {NoIncident} /\ NoIncident \notin DOMAIN incs
  BY DEF Table
<1> HIDE DEF id, other
<1>3. NewIncident(a) \in IncidentType /\ ToSet(NewIncident(a).alert_ids) = {}
  <2>1. << >> \in Seq(AlertType) /\ "open" \in Statuses /\ NoIncident \in Nat /\ ToSet(<< >>) = {}
    BY DEF Statuses, NoIncident, ToSet
  <2>2. QED BY <2>1, AlertFields DEF NewIncident, IncidentType
<1>4. found \in IncidentType /\ ToSet(found.alert_ids) = IdsIn(incs, id)
  BY <1>2, <1>3 DEF Table, IdsIn
<1> HIDE DEF found
<1>5. /\ prev \in IncidentType
      /\ ToSet(prev.alert_ids) = IdsIn(incs, id) \cup IdsIn(incs, other)
  BY <1>2, <1>4, MergeType DEF Table, IdsIn
<1> HIDE DEF prev
<1>6. ext \in IncidentType /\ ToSet(ext.alert_ids) = ToSet(prev.alert_ids) \cup {a}
  BY <1>5, ExtendType
<1> HIDE DEF ext
<1>7. next \in IncidentType /\ next.alert_ids = ext.alert_ids
  BY <1>6, RaiseType
<1> HIDE DEF next
<1>8. /\ \A x \in ToSet(extra) : x.n = fresh
      /\ \/ extra = << >>
         \/ \E x \in AlertType : extra = <<x>>
         \/ \E x, y \in AlertType : extra = <<x, y>> /\ x.rule # y.rule
  BY <1>2, <1>5, <1>7, ExtraStates
<1> HIDE DEF extra
<1>9. Stating(incs, a, fresh, o)
  BY <1>1, <1>5, <1>6, <1>7, <1>8 DEF Stating
<1>10. QED
  BY <1>9 DEF o

LEMMA OutcomesState ==
  ASSUME NEW incs, Table(incs), NEW a \in AlertType, NEW fresh \in Nat \ {NoIncident},
         fresh \notin DOMAIN incs, NEW now \in Nat,
         NEW o \in Outcomes(incs, a, fresh, now)
  PROVE  Stating(incs, a, fresh, o)
<1>0. PICK open \in OpenLists(incs, now) :
        \E own \in OwnIncident(incs, open, a) : \E cross \in CrossIncident(incs, open, a) :
          \E ents \in Truncations(EntitiesBefore(incs, a, own, cross)) :
            o = Outcome(incs, a, own, cross, ents, fresh, now)
  BY DEF Outcomes
<1>1. PICK own \in OwnIncident(incs, open, a), cross \in CrossIncident(incs, open, a) :
        \E ents \in Truncations(EntitiesBefore(incs, a, own, cross)) :
          o = Outcome(incs, a, own, cross, ents, fresh, now)
  BY <1>0
<1>2. PICK ents \in Truncations(EntitiesBefore(incs, a, own, cross)) :
        o = Outcome(incs, a, own, cross, ents, fresh, now)
  BY <1>1
<1>3. open \subseteq DOMAIN incs
  BY OpenListFacts
<1>4. own \in DOMAIN incs \cup {NoIncident} /\ cross \in DOMAIN incs \cup {NoIncident}
  BY <1>3 DEF OwnIncident, CrossIncident, FirstOf
<1>5. ents \subseteq Entities
  <2>1. ents \subseteq EntitiesBefore(incs, a, own, cross)
    BY <1>2 DEF Truncations
  <2>2. EntitiesBefore(incs, a, own, cross) \subseteq Entities
    BY <1>4, AlertFields, IncidentFields DEF EntitiesBefore, Table
  <2>3. QED BY <2>1, <2>2
<1>6. QED
  BY <1>2, <1>4, <1>5, OutcomeStates

-----------------------------------------------------------------------------
(* A write of add_alert.                                                   *)
WriteType ==
  [op : {"link"}, alert : AlertType, id : Nat]
  \cup [op : {"put"}, id : Nat, body : IncidentType]
  \cup [op : {"add"}, alert : AlertType, id : Nat]
  \cup [op : {"isolate"}, host : Hosts]

(* A body that takes the place of another has all of its alerts, tactics   *)
(* and hosts.                                                              *)
Grows(inc, body) ==
  /\ ToSet(inc.alert_ids) \subseteq ToSet(body.alert_ids)
  /\ inc.tactics \subseteq body.tactics /\ inc.hosts \subseteq body.hosts

Finite(inc) == IsFiniteSet(inc.tactics) /\ IsFiniteSet(inc.hosts)

\* Alert x is on the list of an incident of table T; its own has what it says.
InTable(T, x) == \E i \in DOMAIN T : x \in ToSet(T[i].alert_ids)
Bears(inc, x) ==
  /\ x.rule \in CorrelationRules
  /\ x.rule = "CORR-KILLCHAIN" => Cardinality(inc.tactics) >= 3
  /\ x.rule = "CORR-MULTIHOST" => Cardinality(inc.hosts) > 1
Borne(T, x) == x.about \in DOMAIN T /\ Bears(T[x.about], x)

IsRaised(x) == x.about # NoIncident
Raises(w) == w.op = "add" /\ IsRaised(w.alert)

(* What goes for write w when the writes P come before it, T and D are the *)
(* incidents and the alerts in the tables, and p ids have been given: the  *)
(* correlation alerts are new ...                                          *)
NewIn(D, p, P, w) ==
  /\ w.op = "put" => w.id \in 1..p /\ Finite(w.body)
  /\ Raises(w) => /\ w.alert \notin D /\ w.alert.n <= p
                  /\ \A v \in P : Raises(v) => v.alert.rule # w.alert.rule

\* ... and nothing is put over with less, or added before it is listed.
PutFits(T, P, w) ==
  /\ w.id \in DOMAIN T => Grows(T[w.id], w.body)
  /\ \A v \in P : v.op = "put" /\ v.id = w.id => Grows(v.body, w.body)

AddFits(T, P, w) ==
  InTable(T, w.alert) \/ \E v \in P : v.op = "put" /\ w.alert \in ToSet(v.body.alert_ids)

RaiseFits(T, D, P, w) ==
  /\ \A y \in D : y.about = w.alert.about => y.rule # w.alert.rule
  /\ \/ Borne(T, w.alert)
     \/ \E v \in P : v.op = "put" /\ v.id = w.alert.about /\ Bears(v.body, w.alert)

Fits(T, D, P, w) ==
  /\ w.op = "put" => PutFits(T, P, w)
  /\ w.op = "link" => InTable(T, w.alert)
  /\ w.op = "add" /\ w.id # NoIncident => AddFits(T, P, w)
  /\ Raises(w) => RaiseFits(T, D, P, w)

Prefix(l, k) == {l[j] : j \in 1..(k - 1)}

PlanInv(q, T, D, p, l) ==
  \A k \in 1..Len(l) : /\ NewIn(D, p, Prefix(l, k), l[k])
                       /\ q => Fits(T, D, Prefix(l, k), l[k])

\* An isolation follows the alert that it is for, or this one is stored.
Raised(D, h) == {x \in D : IsRaised(x) /\ x.host = h}

IsolateInv(D, C, l) ==
  /\ \A h \in Hosts : C[h] <= Cardinality(Raised(D, h))
  /\ \A k \in 1..Len(l) : l[k].op = "isolate" =>
       IF k = 1 THEN C[l[k].host] < Cardinality(Raised(D, l[k].host))
       ELSE Raises(l[k - 1]) /\ l[k - 1].alert.host = l[k].host

\* What the tables have when no status change overlapped an add_alert.
RowsInv(T, A) ==
  /\ \A x \in DOMAIN A : A[x].incident # NoIncident => InTable(T, x)
  /\ \A x \in DOMAIN A : IsRaised(x) => Borne(T, x)
  /\ \A x, y \in DOMAIN A : IsRaised(x) /\ x.about = y.about /\ x.rule = y.rule => x = y

ConsoleInv ==
  \/ console = Idle
  \/ /\ console.step = "put" /\ console.id \in DOMAIN incidents
     /\ console.body \in IncidentType /\ Finite(console.body)
     /\ ~overlapped => Grows(incidents[console.id], console.body)
  \/ console.step = "query" /\ console.status \in Statuses
  \/ /\ console.step = "alerts" /\ console.status \in Statuses
     /\ console.left \subseteq DOMAIN alerts
     /\ console = [step |-> "alerts", status |-> console.status, left |-> console.left]

StoreType ==
  /\ Table(incidents) /\ DOMAIN incidents \subseteq 1..processed
  /\ \A i \in DOMAIN incidents : Finite(incidents[i])
  /\ DOMAIN alerts \subseteq AlertType /\ IsFiniteSet(DOMAIN alerts)
  /\ alerts \in [DOMAIN alerts -> RowType]
  /\ \A x \in DOMAIN alerts : IsRaised(x) => x.n <= processed
  /\ commands \in [Hosts -> Nat] /\ processed \in Nat /\ clock \in Nat
  /\ todo \in Seq(WriteType)

StoreInv ==
  /\ StoreType /\ ConsoleInv
  /\ ~overlapped => console = Idle \/ todo = << >>
  /\ ~overlapped => RowsInv(incidents, alerts)
  /\ PlanInv(~overlapped, incidents, DOMAIN alerts, processed, todo)
  /\ IsolateInv(DOMAIN alerts, commands, todo)

-----------------------------------------------------------------------------
(* A list of writes that fits goes on to fit when one is added to its end. *)
LEMMA PrefixAppend ==
  ASSUME NEW S, NEW l \in Seq(S), NEW w \in S
  PROVE  /\ Append(l, w) \in Seq(S) /\ Len(Append(l, w)) = Len(l) + 1 /\ Len(l) \in Nat
         /\ \A k \in 1..Len(l) : Append(l, w)[k] = l[k] /\ Prefix(Append(l, w), k) = Prefix(l, k)
         /\ Append(l, w)[Len(l) + 1] = w
         /\ Prefix(Append(l, w), Len(l) + 1) = ToSet(l)
<1> DEFINE m == Append(l, w)
<1>1. /\ m \in Seq(S) /\ Len(m) = Len(l) + 1 /\ Len(l) \in Nat
      /\ \A k \in 1..Len(l) : m[k] = l[k]
      /\ m[Len(l) + 1] = w
      /\ DOMAIN l = 1..Len(l)
  BY AppendProperties, LenProperties
<1> HIDE DEF m
<1>2. ASSUME NEW k \in 1..Len(l) PROVE Prefix(m, k) = Prefix(l, k)
  <2>1. \A j \in 1..(k - 1) : m[j] = l[j]
    BY <1>1
  <2>2. QED
    BY <2>1 DEF Prefix
<1>3. Prefix(m, Len(l) + 1) = ToSet(l)
  <2>1. (Len(l) + 1) - 1 = Len(l)
    BY <1>1
  <2>2. QED
    BY <1>1, <2>1 DEF Prefix, ToSet
<1>4. QED
  BY <1>1, <1>2, <1>3 DEF m

LEMMA PlanAppend ==
  ASSUME NEW q, NEW T, NEW D, NEW p, NEW S, NEW l \in Seq(S), NEW w \in S,
         PlanInv(q, T, D, p, l),
         NewIn(D, p, ToSet(l), w), q => Fits(T, D, ToSet(l), w)
  PROVE  PlanInv(q, T, D, p, Append(l, w))
<1> DEFINE m == Append(l, w)
<1>1. /\ Len(m) = Len(l) + 1 /\ Len(l) \in Nat
      /\ \A k \in 1..Len(l) : m[k] = l[k] /\ Prefix(m, k) = Prefix(l, k)
      /\ m[Len(l) + 1] = w
      /\ Prefix(m, Len(l) + 1) = ToSet(l)
  BY PrefixAppend
<1> HIDE DEF m
<1>2. SUFFICES ASSUME NEW k \in 1..Len(m)
               PROVE  /\ NewIn(D, p, Prefix(m, k), m[k])
                      /\ q => Fits(T, D, Prefix(m, k), m[k])
  BY DEF PlanInv, m
<1>3. CASE k \in 1..Len(l)
  BY <1>1, <1>3 DEF PlanInv
<1>4. CASE k = Len(l) + 1
  BY <1>1, <1>4
<1>5. k \in 1..Len(l) \/ k = Len(l) + 1
  BY <1>1
<1>6. QED
  BY <1>3, <1>4, <1>5

LEMMA IsolateAppend ==
  ASSUME NEW D, NEW C, NEW S, NEW l \in Seq(S), NEW w \in S, IsolateInv(D, C, l),
         w.op = "isolate" => l # << >> /\ Raises(l[Len(l)]) /\ l[Len(l)].alert.host = w.host
  PROVE  IsolateInv(D, C, Append(l, w))
<1> DEFINE m == Append(l, w)
<1>1. /\ Len(m) = Len(l) + 1 /\ Len(l) \in Nat
      /\ \A k \in 1..Len(l) : m[k] = l[k]
      /\ m[Len(l) + 1] = w
      /\ l # << >> => Len(l) # 0
  BY PrefixAppend, EmptySeq
<1> HIDE DEF m
<1>2. \A h \in Hosts : C[h] <= Cardinality(Raised(D, h))
  BY DEF IsolateInv
<1>3. SUFFICES ASSUME NEW k \in 1..Len(m), m[k].op = "isolate"
               PROVE  IF k = 1 THEN C[m[k].host] < Cardinality(Raised(D, m[k].host))
                      ELSE Raises(m[k - 1]) /\ m[k - 1].alert.host = m[k].host
  BY <1>2 DEF IsolateInv, m
<1>4. CASE k \in 1..Len(l)
  <2>1. k # 1 => k - 1 \in 1..Len(l)
    BY <1>1, <1>4
  <2>2. CASE k = 1
    BY <1>1, <1>3, <1>4, <2>2 DEF IsolateInv
  <2>3. CASE k # 1
    BY <1>1, <1>3, <1>4, <2>1, <2>3 DEF IsolateInv
  <2>4. QED
    BY <2>2, <2>3
<1>5. CASE k = Len(l) + 1
  <2>1. k # 1 /\ k - 1 = Len(l) /\ k - 1 \in 1..Len(l)
    BY <1>1, <1>3, <1>5
  <2>2. QED
    BY <1>1, <1>3, <1>5, <2>1
<1>6. k \in 1..Len(l) \/ k = Len(l) + 1
  BY <1>1
<1>7. QED
  BY <1>4, <1>5, <1>6

\* What is left when the first of the writes is issued.
LEMMA PrefixTail ==
  ASSUME NEW S, NEW l \in Seq(S), l # << >>
  PROVE  /\ Head(l) = l[1] /\ l[1] \in S /\ Tail(l) \in Seq(S) /\ 1 \in 1..Len(l)
         /\ Prefix(l, 1) = {} /\ Len(Tail(l)) \in Nat
         /\ \A k \in 1..Len(Tail(l)) :
              /\ Tail(l)[k] = l[k + 1] /\ k + 1 \in 1..Len(l)
              /\ Prefix(l, k + 1) = {l[1]} \cup Prefix(Tail(l), k)
<1> DEFINE t == Tail(l)
<1>1. /\ Head(l) = l[1] /\ l[1] \in S /\ t \in Seq(S)
      /\ Len(l) \in Nat /\ Len(l) # 0 /\ Len(t) = Len(l) - 1
      /\ \A k \in 1..Len(t) : t[k] = l[k + 1]
  BY HeadTailProperties, LenProperties, EmptySeq
<1> HIDE DEF t
<1>2. Prefix(l, 1) = {}
  BY DEF Prefix
<1>3. ASSUME NEW k \in 1..Len(t)
      PROVE  k + 1 \in 1..Len(l) /\ Prefix(l, k + 1) = {l[1]} \cup Prefix(t, k)
  <2>1. k + 1 \in 1..Len(l) /\ (k + 1) - 1 = k
    BY <1>1
  <2>2. ASSUME NEW j \in 1..k PROVE l[j] = l[1] \/ l[j] \in Prefix(t, k)
    <3>1. j # 1 => j - 1 \in 1..(k - 1) /\ j - 1 \in 1..Len(t) /\ (j - 1) + 1 = j
      BY <1>1
    <3>2. QED
      BY <1>1, <3>1 DEF Prefix
  <2>3. ASSUME NEW j \in 1..(k - 1) PROVE t[j] = l[j + 1] /\ j + 1 \in 1..k
    BY <1>1
  <2>4. 1 \in 1..k
    BY <1>1
  <2>5. Prefix(l, k + 1) = {l[j] : j \in 1..k}
    BY <2>1 DEF Prefix
  <2>6. QED
    BY <2>1, <2>2, <2>3, <2>4, <2>5 DEF Prefix
<1>4. QED
  BY <1>1, <1>2, <1>3 DEF t

-----------------------------------------------------------------------------
(* What one write does to the incidents T and to the alerts D.             *)
Over(T, T2, i, body) ==
  /\ DOMAIN T2 = DOMAIN T \cup {i} /\ T2[i] = body
  /\ \A j \in DOMAIN T \ {i} : T2[j] = T[j]

Issued(T, D, T2, D2, w) ==
  /\ IF w.op = "put" THEN Over(T, T2, w.id, w.body) ELSE T2 = T
  /\ IF w.op = "add" THEN D2 = D \cup {w.alert} ELSE D2 = D

LEMMA BearsMore ==
  ASSUME NEW inc, NEW body, Grows(inc, body), Finite(body), NEW x, Bears(inc, x)
  PROVE  Bears(body, x)
<1>1. /\ Cardinality(inc.tactics) <= Cardinality(body.tactics)
      /\ Cardinality(inc.tactics) \in Nat /\ Cardinality(body.tactics) \in Nat
      /\ Cardinality(inc.hosts) <= Cardinality(body.hosts)
      /\ Cardinality(inc.hosts) \in Nat /\ Cardinality(body.hosts) \in Nat
  BY Sizes DEF Grows, Finite
<1>2. x.rule = "CORR-KILLCHAIN" => Cardinality(body.tactics) >= 3
  BY <1>1 DEF Bears
<1>3. x.rule = "CORR-MULTIHOST" => Cardinality(body.hosts) > 1
  BY <1>1 DEF Bears
<1>4. QED
  BY <1>2, <1>3 DEF Bears

\* Nothing is lost when a body is put over a smaller one.
LEMMA TableGrows ==
  ASSUME NEW T, NEW T2, NEW i, NEW body, Over(T, T2, i, body), Finite(body),
         i \in DOMAIN T => Grows(T[i], body), NEW x
  PROVE  /\ InTable(T, x) => InTable(T2, x)
         /\ Borne(T, x) => Borne(T2, x)
<1>1. ASSUME InTable(T, x) PROVE InTable(T2, x)
  <2>1. PICK j \in DOMAIN T : x \in ToSet(T[j].alert_ids)
    BY <1>1 DEF InTable
  <2>2. j \in DOMAIN T2 /\ x \in ToSet(T2[j].alert_ids)
    <3>1. CASE j = i
      BY <2>1, <3>1 DEF Over, Grows
    <3>2. CASE j # i
      BY <2>1, <3>2 DEF Over
    <3>3. QED
      BY <3>1, <3>2
  <2>3. QED
    BY <2>2 DEF InTable
<1>2. ASSUME Borne(T, x) PROVE Borne(T2, x)
  <2>1. x.about \in DOMAIN T /\ x.about \in DOMAIN T2 /\ Bears(T[x.about], x)
    BY <1>2 DEF Borne, Over
  <2>2. CASE x.about = i
    BY <2>1, <2>2, BearsMore DEF Borne, Over
  <2>3. CASE x.about # i
    BY <2>1, <2>3 DEF Borne, Over
  <2>4. QED
    BY <2>2, <2>3
<1>3. QED
  BY <1>1, <1>2

LEMMA NewInAfter ==
  ASSUME NEW D, NEW D2, NEW T, NEW T2, NEW p, NEW w0, Issued(T, D, T2, D2, w0),
         NEW P, NEW w, NewIn(D, p, {w0} \cup P, w)
  PROVE  NewIn(D2, p, P, w)
<1>1. w.op = "put" => w.id \in 1..p /\ Finite(w.body)
  BY DEF NewIn
<1>2. ASSUME Raises(w)
      PROVE  /\ w.alert \notin D2 /\ w.alert.n <= p
             /\ \A v \in P : Raises(v) => v.alert.rule # w.alert.rule
  <2>1. /\ w.alert \notin D /\ w.alert.n <= p
        /\ \A v \in {w0} \cup P : Raises(v) => v.alert.rule # w.alert.rule
    BY <1>2 DEF NewIn
  <2>2. w0.op = "add" => w0.alert # w.alert
    BY <1>2, <2>1 DEF Raises
  <2>3. QED
    BY <2>1, <2>2 DEF Issued
<1>3. QED
  BY <1>1, <1>2 DEF NewIn

LEMMA FitsAfter ==
  ASSUME NEW D, NEW D2, NEW T, NEW T2, NEW p, NEW w0, Issued(T, D, T2, D2, w0),
         NewIn(D, p, {}, w0), Fits(T, D, {}, w0),
         NEW P, NEW w, NewIn(D, p, {w0} \cup P, w), Fits(T, D, {w0} \cup P, w)
  PROVE  Fits(T2, D2, P, w)
<1>1. ASSUME NEW x
      PROVE  /\ InTable(T, x) => InTable(T2, x)
             /\ Borne(T, x) => Borne(T2, x)
  <2>1. CASE w0.op = "put"
    <3>1. Over(T, T2, w0.id, w0.body) /\ Finite(w0.body)
      BY <2>1 DEF Issued, NewIn
    <3>2. w0.id \in DOMAIN T => Grows(T[w0.id], w0.body)
      BY <2>1 DEF Fits, PutFits
    <3>3. QED
      BY <3>1, <3>2, TableGrows
  <2>2. CASE w0.op # "put"
    BY <2>2 DEF Issued
  <2>3. QED
    BY <2>1, <2>2
<1>2. ASSUME w.op = "put" PROVE PutFits(T2, P, w)
  <2>1. PutFits(T, {w0} \cup P, w)
    BY <1>2 DEF Fits
  <2>2. w.id \in DOMAIN T2 => Grows(T2[w.id], w.body)
    <3>1. CASE w0.op = "put" /\ w0.id = w.id
      BY <2>1, <3>1 DEF Issued, Over, PutFits
    <3>2. CASE w0.op = "put" /\ w0.id # w.id
      BY <2>1, <3>2 DEF Issued, Over, PutFits
    <3>3. CASE w0.op # "put"
      BY <2>1, <3>3 DEF Issued, PutFits
    <3>4. QED
      BY <3>1, <3>2, <3>3
  <2>3. QED
    BY <2>1, <2>2 DEF PutFits
<1>3. ASSUME w.op = "link" PROVE InTable(T2, w.alert)
  BY <1>1, <1>3 DEF Fits
<1>4. ASSUME w.op = "add", w.id # NoIncident PROVE AddFits(T2, P, w)
  <2>1. AddFits(T, {w0} \cup P, w)
    BY <1>4 DEF Fits
  <2>2. ASSUME w0.op = "put", w.alert \in ToSet(w0.body.alert_ids) PROVE InTable(T2, w.alert)
    BY <2>2 DEF Issued, Over, InTable
  <2>3. QED
    BY <1>1, <2>1, <2>2 DEF AddFits
<1>5. ASSUME Raises(w) PROVE RaiseFits(T2, D2, P, w)
  <2>1. RaiseFits(T, D, {w0} \cup P, w)
    BY <1>5 DEF Fits
  <2>2. ASSUME w0.op = "put", w0.id = w.alert.about, Bears(w0.body, w.alert)
        PROVE  Borne(T2, w.alert)
    BY <2>2 DEF Issued, Over, Borne
  <2>3. Borne(T2, w.alert) \/ \E v \in P : v.op = "put" /\ v.id = w.alert.about /\ Bears(v.body, w.alert)
    BY <1>1, <2>1, <2>2 DEF RaiseFits
  <2>4. \A y \in D2 : y.about = w.alert.about => y.rule # w.alert.rule
    <3>1. \A y \in D : y.about = w.alert.about => y.rule # w.alert.rule
      BY <2>1 DEF RaiseFits
    <3>2. ASSUME w0.op = "add", w0.alert.about = w.alert.about PROVE w0.alert.rule # w.alert.rule
      BY <1>5, <3>2 DEF NewIn, Raises, IsRaised
    <3>3. QED
      BY <3>1, <3>2 DEF Issued
  <2>5. QED
    BY <2>3, <2>4 DEF RaiseFits
<1>6. QED
  BY <1>2, <1>3, <1>4, <1>5 DEF Fits

LEMMA PlanTail ==
  ASSUME NEW q, NEW T, NEW D, NEW T2, NEW D2, NEW p, NEW S, NEW l \in Seq(S), l # << >>,
         PlanInv(q, T, D, p, l), Issued(T, D, T2, D2, l[1])
  PROVE  PlanInv(q, T2, D2, p, Tail(l))
<1> DEFINE t == Tail(l)
<1>1. /\ 1 \in 1..Len(l) /\ Prefix(l, 1) = {}
      /\ \A k \in 1..Len(t) :
           /\ t[k] = l[k + 1] /\ k + 1 \in 1..Len(l)
           /\ Prefix(l, k + 1) = {l[1]} \cup Prefix(t, k)
  BY PrefixTail
<1> HIDE DEF t
<1>2. NewIn(D, p, {}, l[1]) /\ (q => Fits(T, D, {}, l[1]))
  BY <1>1 DEF PlanInv
<1>3. SUFFICES ASSUME NEW k \in 1..Len(t)
               PROVE  /\ NewIn(D2, p, Prefix(t, k), t[k])
                      /\ q => Fits(T2, D2, Prefix(t, k), t[k])
  BY DEF PlanInv, t
<1>4. /\ NewIn(D, p, {l[1]} \cup Prefix(t, k), t[k])
      /\ q => Fits(T, D, {l[1]} \cup Prefix(t, k), t[k])
  BY <1>1 DEF PlanInv
<1>5. NewIn(D2, p, Prefix(t, k), t[k])
  BY <1>4, NewInAfter
<1>6. ASSUME q PROVE Fits(T2, D2, Prefix(t, k), t[k])
  BY <1>2, <1>4, <1>6, FitsAfter
<1>7. QED
  BY <1>5, <1>6

\* The rows: what comes to point to an incident was listed before.
LEMMA RowsAfter ==
  ASSUME NEW T, NEW A, NEW T2, NEW A2, NEW p, NEW w0, RowsInv(T, A),
         Issued(T, DOMAIN A, T2, DOMAIN A2, w0),
         NewIn(DOMAIN A, p, {}, w0), Fits(T, DOMAIN A, {}, w0),
         \A x \in DOMAIN A2 : A2[x].incident # NoIncident =>
           \/ x \in DOMAIN A /\ A[x].incident # NoIncident
           \/ w0.op = "link" /\ x = w0.alert
           \/ w0.op = "add" /\ x = w0.alert /\ w0.id # NoIncident
  PROVE  RowsInv(T2, A2)
<1>1. ASSUME NEW x
      PROVE  /\ InTable(T, x) => InTable(T2, x)
             /\ Borne(T, x) => Borne(T2, x)
  <2>1. CASE w0.op = "put"
    <3>1. Over(T, T2, w0.id, w0.body) /\ Finite(w0.body)
      BY <2>1 DEF Issued, NewIn
    <3>2. w0.id \in DOMAIN T => Grows(T[w0.id], w0.body)
      BY <2>1 DEF Fits, PutFits
    <3>3. QED
      BY <3>1, <3>2, TableGrows
  <2>2. CASE w0.op # "put"
    BY <2>2 DEF Issued
  <2>3. QED
    BY <2>1, <2>2
<1>2. ASSUME NEW x \in DOMAIN A2, A2[x].incident # NoIncident PROVE InTable(T2, x)
  <2>1. CASE x \in DOMAIN A /\ A[x].incident # NoIncident
    BY <1>1, <2>1 DEF RowsInv
  <2>2. CASE w0.op = "link" /\ x = w0.alert
    BY <1>1, <2>2 DEF Fits
  <2>3. CASE w0.op = "add" /\ x = w0.alert /\ w0.id # NoIncident
    BY <1>1, <2>3 DEF Fits, AddFits
  <2>4. QED
    BY <1>2, <2>1, <2>2, <2>3
<1>3. ASSUME w0.op = "add", IsRaised(w0.alert)
      PROVE  /\ Borne(T, w0.alert)
             /\ \A y \in DOMAIN A : y.about = w0.alert.about => y.rule # w0.alert.rule
  BY <1>3 DEF Fits, RaiseFits, Raises
<1>4. ASSUME NEW x \in DOMAIN A2, IsRaised(x) PROVE Borne(T2, x)
  BY <1>1, <1>3, <1>4 DEF RowsInv, Issued
<1>5. ASSUME NEW x \in DOMAIN A2, NEW y \in DOMAIN A2,
             IsRaised(x), x.about = y.about, x.rule = y.rule
      PROVE  x = y
  <2>1. IsRaised(y)
    BY <1>5 DEF IsRaised
  <2>2. CASE x \in DOMAIN A /\ y \in DOMAIN A
    BY <1>5, <2>2 DEF RowsInv
  <2>3. CASE w0.op = "add" /\ x = w0.alert /\ y \in DOMAIN A
    BY <1>3, <1>5, <2>3
  <2>4. CASE w0.op = "add" /\ y = w0.alert /\ x \in DOMAIN A
    BY <1>3, <1>5, <2>1, <2>4
  <2>5. QED
    BY <2>2, <2>3, <2>4 DEF Issued
<1>6. QED
  BY <1>2, <1>4, <1>5 DEF RowsInv

\* The isolations: one was raised for before it is queued.
LEMMA RaisedAfter ==
  ASSUME NEW D, IsFiniteSet(D), NEW D2, NEW T, NEW T2, NEW p, NEW w0,
         Issued(T, D, T2, D2, w0), NewIn(D, p, {}, w0), NEW h
  PROVE  /\ IsFiniteSet(D2) /\ Cardinality(Raised(D, h)) \in Nat
         /\ Cardinality(Raised(D2, h)) =
              Cardinality(Raised(D, h))
              + IF Raises(w0) /\ w0.alert.host = h THEN 1 ELSE 0
<1>1. IsFiniteSet(Raised(D, h))
  BY FS_Subset DEF Raised
<1>2. Cardinality(Raised(D, h)) \in Nat
  BY <1>1, FS_CardinalityType
<1>3. IsFiniteSet(D2)
  BY FS_AddElement DEF Issued
<1>4. CASE Raises(w0) /\ w0.alert.host = h
  <2>1. D2 = D \cup {w0.alert} /\ w0.alert \notin D /\ IsRaised(w0.alert)
    BY <1>4 DEF Issued, NewIn, Raises
  <2>2. Raised(D2, h) = Raised(D, h) \cup {w0.alert} /\ w0.alert \notin Raised(D, h)
    BY <1>4, <2>1 DEF Raised
  <2>3. QED
    BY <1>1, <1>2, <1>3, <1>4, <2>2, FS_AddElement
<1>5. CASE ~(Raises(w0) /\ w0.alert.host = h)
  <2>1. Raised(D2, h) = Raised(D, h)
    BY <1>5 DEF Raised, Issued, Raises
  <2>2. QED
    BY <1>2, <1>3, <1>5, <2>1
<1>6. QED
  BY <1>4, <1>5

LEMMA IsolateTail ==
  ASSUME NEW D, IsFiniteSet(D), NEW D2, NEW T, NEW T2, NEW p,
         NEW C \in [Hosts -> Nat], NEW C2, NEW S, NEW l \in Seq(S), l # << >>,
         IsolateInv(D, C, l), NewIn(D, p, {}, l[1]), Issued(T, D, T2, D2, l[1]),
         C2 = IF l[1].op = "isolate" THEN [C EXCEPT ![l[1].host] = @ + 1] ELSE C,
         \A k \in 1..Len(l) : l[k].op = "isolate" => l[k].host \in Hosts
  PROVE  IsolateInv(D2, C2, Tail(l))
<1> DEFINE t == Tail(l)
           R(h) == Cardinality(Raised(D, h))
           R2(h) == Cardinality(Raised(D2, h))
<1>1. /\ 1 \in 1..Len(l) /\ Len(t) \in Nat
      /\ \A k \in 1..Len(t) : t[k] = l[k + 1] /\ k + 1 \in 1..Len(l)
  BY PrefixTail
<1>2. ASSUME NEW h
      PROVE  R(h) \in Nat /\ R2(h) = R(h) + IF Raises(l[1]) /\ l[1].alert.host = h THEN 1 ELSE 0
  BY RaisedAfter
<1>3. /\ \A h \in Hosts : C[h] <= R(h)
      /\ \A k \in 1..Len(l) : l[k].op = "isolate" =>
           IF k = 1 THEN C[l[k].host] < R(l[k].host)
           ELSE Raises(l[k - 1]) /\ l[k - 1].alert.host = l[k].host
  BY DEF IsolateInv
<1> HIDE DEF R, R2
<1>4. ASSUME NEW h \in Hosts PROVE C2[h] <= R2(h)
  <2>1. C[h] \in Nat /\ R(h) \in Nat /\ R(h) <= R2(h) /\ C[h] <= R(h)
    BY <1>2, <1>3, <1>4
  <2>2. CASE l[1].op = "isolate" /\ l[1].host = h
    <3>1. C[h] < R(h)
      BY <1>1, <1>3, <2>2
    <3>2. C2[h] = C[h] + 1
      BY <1>4, <2>2
    <3>3. QED
      BY <1>2, <2>1, <3>1, <3>2
  <2>3. CASE ~(l[1].op = "isolate" /\ l[1].host = h)
    <3>1. C2[h] = C[h]
      BY <1>4, <2>3
    <3>2. QED
      BY <1>2, <2>1, <3>1
  <2>4. QED
    BY <2>2, <2>3
<1>5. ASSUME NEW k \in 1..Len(t), t[k].op = "isolate"
      PROVE  IF k = 1 THEN C2[t[k].host] < R2(t[k].host)
             ELSE Raises(t[k - 1]) /\ t[k - 1].alert.host = t[k].host
  <2>1. /\ t[k] = l[k + 1] /\ k + 1 \in 1..Len(l) /\ k + 1 # 1 /\ (k + 1) - 1 = k
        /\ Raises(l[k]) /\ l[k].alert.host = t[k].host
    BY <1>1, <1>3, <1>5
  <2>2. CASE k = 1
    <3>1. Raises(l[1]) /\ l[1].alert.host = t[1].host /\ l[1].op # "isolate"
      BY <2>1, <2>2 DEF Raises
    <3>2. t[1].host \in Hosts
      BY <1>5, <2>1, <2>2
    <3>3. C2 = C /\ C[t[1].host] <= R(t[1].host) /\ C[t[1].host] \in Nat
      BY <1>3, <3>1, <3>2
    <3>4. R2(t[1].host) = R(t[1].host) + 1 /\ R(t[1].host) \in Nat
      BY <1>2, <3>1
    <3>5. QED
      BY <2>2, <3>3, <3>4
  <2>3. CASE k # 1
    <3>1. k - 1 \in 1..Len(t) /\ (k - 1) + 1 = k
      BY <1>1, <2>3
    <3>2. t[k - 1] = l[k]
      BY <1>1, <3>1
    <3>3. QED
      BY <2>1, <2>3, <3>2
  <2>4. QED
    BY <2>2, <2>3
<1>6. QED
  BY <1>4, <1>5 DEF IsolateInv, R, R2

-----------------------------------------------------------------------------
(* The four statements.                                                    *)
LEMMA WriteFields ==
  ASSUME NEW w \in WriteType
  PROVE  /\ w.op \in {"link", "put", "add", "isolate"}
         /\ w.op = "link" => w.alert \in AlertType /\ w.id \in Nat
         /\ w.op = "put" => w.id \in Nat /\ w.body \in IncidentType
         /\ w.op = "add" => w.alert \in AlertType /\ w.id \in Nat
         /\ w.op = "isolate" => w.host \in Hosts
BY DEF WriteType

Relinked(A, x, i) ==
  [y \in DOMAIN A |-> IF y = x THEN [A[y] EXCEPT !.incident = i] ELSE A[y]]

Inserted(T, i, body) == [j \in DOMAIN T \cup {i} |-> IF j = i THEN body ELSE T[j]]

LEMMA WriteLink ==
  ASSUME Write, Head(todo).op = "link"
  PROVE  /\ incidents' = incidents /\ commands' = commands
         /\ alerts' = Relinked(alerts, Head(todo).alert, Head(todo).id)
<1> DEFINE w == Head(todo)
           t == Apply(Tables, w)
<1>1. t = [Tables EXCEPT !.alerts = [x \in DOMAIN @ |-> IF x = w.alert
                                 THEN [@[x] EXCEPT !.incident = w.id] ELSE @[x]]]
  BY DEF Apply
<1>2. /\ t.incidents = incidents /\ t.commands = commands
      /\ t.alerts = Relinked(alerts, w.alert, w.id)
  BY <1>1 DEF Tables, Relinked
<1>3. QED
  BY <1>2 DEF Write

LEMMA WritePut ==
  ASSUME Write, Head(todo).op = "put"
  PROVE  /\ alerts' = alerts /\ commands' = commands
         /\ incidents' = Inserted(incidents, Head(todo).id, Head(todo).body)
<1> DEFINE w == Head(todo)
           t == Apply(Tables, w)
<1>1. t = [Tables EXCEPT !.incidents = [i \in DOMAIN @ \cup {w.id} |->
                                    IF i = w.id THEN w.body ELSE @[i]]]
  BY DEF Apply
<1>2. /\ t.alerts = alerts /\ t.commands = commands
      /\ t.incidents = Inserted(incidents, w.id, w.body)
  BY <1>1 DEF Tables, Inserted
<1>3. QED
  BY <1>2 DEF Write

LEMMA WriteAdd ==
  ASSUME Write, Head(todo).op = "add"
  PROVE  /\ incidents' = incidents /\ commands' = commands
         /\ alerts' = Inserted(alerts, Head(todo).alert,
                               [incident |-> Head(todo).id, status |-> "open"])
<1> DEFINE w == Head(todo)
           t == Apply(Tables, w)
<1>1. t = [Tables EXCEPT !.alerts = [x \in DOMAIN @ \cup {w.alert} |->
                                 IF x = w.alert THEN [incident |-> w.id, status |-> "open"]
                                 ELSE @[x]]]
  BY DEF Apply
<1>2. /\ t.incidents = incidents /\ t.commands = commands
      /\ t.alerts = Inserted(alerts, w.alert, [incident |-> w.id, status |-> "open"])
  BY <1>1 DEF Tables, Inserted
<1>3. QED
  BY <1>2 DEF Write

LEMMA WriteIsolate ==
  ASSUME Write, Head(todo).op = "isolate"
  PROVE  /\ incidents' = incidents /\ alerts' = alerts
         /\ commands' = [commands EXCEPT ![Head(todo).host] = @ + 1]
<1> DEFINE w == Head(todo)
           t == Apply(Tables, w)
<1>1. t = [Tables EXCEPT !.commands[w.host] = @ + 1]
  BY DEF Apply
<1>2. /\ t.incidents = incidents /\ t.alerts = alerts
      /\ t.commands = [commands EXCEPT ![w.host] = @ + 1]
  BY <1>1 DEF Tables
<1>3. QED
  BY <1>2 DEF Write

\* All four in the terms of the plan.
LEMMA WriteIssues ==
  ASSUME StoreInv, Write
  PROVE  /\ Issued(incidents, DOMAIN alerts, incidents', DOMAIN alerts', todo[1])
         /\ commands' = IF todo[1].op = "isolate"
                        THEN [commands EXCEPT ![todo[1].host] = @ + 1] ELSE commands
         /\ \A x \in DOMAIN alerts' : alerts'[x].incident # NoIncident =>
              \/ x \in DOMAIN alerts /\ alerts[x].incident # NoIncident
              \/ todo[1].op = "link" /\ x = todo[1].alert
              \/ todo[1].op = "add" /\ x = todo[1].alert /\ todo[1].id # NoIncident
         /\ Table(incidents') /\ DOMAIN incidents' \subseteq 1..processed
         /\ \A i \in DOMAIN incidents' : Finite(incidents'[i])
         /\ DOMAIN alerts' \subseteq AlertType
         /\ alerts' \in [DOMAIN alerts' -> RowType]
         /\ \A x \in DOMAIN alerts' : IsRaised(x) => x.n <= processed
         /\ commands' \in [Hosts -> Nat]
<1> DEFINE w == todo[1]
<1>0. /\ StoreType /\ todo \in Seq(WriteType) /\ todo # << >>
      /\ PlanInv(~overlapped, incidents, DOMAIN alerts, processed, todo)
  BY DEF StoreInv, StoreType, Write
<1>1. Head(todo) = w /\ w \in WriteType /\ 1 \in 1..Len(todo) /\ Prefix(todo, 1) = {}
  BY <1>0, PrefixTail
<1>2. NewIn(DOMAIN alerts, processed, {}, w)
  BY <1>0, <1>1 DEF PlanInv
<1>3. /\ w.op \in {"link", "put", "add", "isolate"}
      /\ w.op = "link" => w.alert \in AlertType /\ w.id \in Nat
      /\ w.op = "put" => w.id \in Nat /\ w.body \in IncidentType
      /\ w.op = "add" => w.alert \in AlertType /\ w.id \in Nat
      /\ w.op = "isolate" => w.host \in Hosts
  BY <1>1, WriteFields
<1>4. /\ Table(incidents) /\ DOMAIN incidents \subseteq 1..processed
      /\ \A i \in DOMAIN incidents : Finite(incidents[i])
      /\ DOMAIN alerts \subseteq AlertType
      /\ alerts \in [DOMAIN alerts -> RowType]
      /\ \A x \in DOMAIN alerts : IsRaised(x) => x.n <= processed
      /\ commands \in [Hosts -> Nat]
  BY <1>0 DEF StoreType
<1> HIDE DEF w
<1>5. CASE w.op = "link"
  <2>1. /\ incidents' = incidents /\ commands' = commands
        /\ alerts' = Relinked(alerts, w.alert, w.id)
    BY <1>1, <1>5, WriteLink
  <2>2. DOMAIN alerts' = DOMAIN alerts
    BY <2>1 DEF Relinked
  <2>3. \A x \in DOMAIN alerts : x # w.alert => alerts'[x] = alerts[x]
    BY <2>1 DEF Relinked
  <2>4. \A x \in DOMAIN alerts' : alerts'[x] \in RowType
    BY <1>3, <1>4, <1>5, <2>1 DEF Relinked, RowType
  <2>5. alerts' \in [DOMAIN alerts' -> RowType]
    BY <2>1, <2>4 DEF Relinked
  <2>6. QED
    BY <1>4, <1>5, <2>1, <2>2, <2>3, <2>5 DEF Issued, w
<1>6. CASE w.op = "put"
  <2>1. /\ alerts' = alerts /\ commands' = commands
        /\ incidents' = Inserted(incidents, w.id, w.body)
    BY <1>1, <1>6, WritePut
  <2>2. Over(incidents, incidents', w.id, w.body)
    BY <2>1 DEF Inserted, Over
  <2>3. w.id \in 1..processed /\ Finite(w.body) /\ w.body \in IncidentType
    BY <1>2, <1>3, <1>6 DEF NewIn
  <2>4. /\ DOMAIN incidents' \subseteq 1..processed
        /\ \A i \in DOMAIN incidents' : Finite(incidents'[i]) /\ incidents'[i] \in IncidentType
    BY <1>4, <2>2, <2>3 DEF Over, Table
  <2>5. Table(incidents')
    BY <2>4 DEF Table, NoIncident
  <2>6. QED
    BY <1>4, <1>6, <2>1, <2>2, <2>4, <2>5 DEF Issued, w
<1>7. CASE w.op = "add"
  <2>1. /\ incidents' = incidents /\ commands' = commands
        /\ alerts' = Inserted(alerts, w.alert, [incident |-> w.id, status |-> "open"])
    BY <1>1, <1>7, WriteAdd
  <2>2. /\ DOMAIN alerts' = DOMAIN alerts \cup {w.alert}
        /\ alerts'[w.alert] = [incident |-> w.id, status |-> "open"]
        /\ \A x \in DOMAIN alerts : x # w.alert => alerts'[x] = alerts[x]
    BY <2>1 DEF Inserted
  <2>3. [incident |-> w.id, status |-> "open"] \in RowType
    BY <1>3, <1>7 DEF RowType, Statuses
  <2>4. alerts' \in [DOMAIN alerts' -> RowType]
    BY <1>4, <2>1, <2>2, <2>3 DEF Inserted
  <2>5. alerts'[w.alert].incident = w.id
    BY <2>2
  <2>6. \A x \in DOMAIN alerts' : IsRaised(x) => x.n <= processed
    BY <1>2, <1>4, <1>7, <2>2 DEF NewIn, Raises
  <2>7. DOMAIN alerts' \subseteq AlertType
    BY <1>3, <1>4, <1>7, <2>2
  <2>8. QED
    BY <1>4, <1>7, <2>1, <2>2, <2>4, <2>5, <2>6, <2>7 DEF Issued, w
<1>8. CASE w.op = "isolate"
  <2>1. /\ incidents' = incidents /\ alerts' = alerts
        /\ commands' = [commands EXCEPT ![w.host] = @ + 1]
    BY <1>1, <1>8, WriteIsolate
  <2>2. commands' \in [Hosts -> Nat]
    BY <1>3, <1>4, <1>8, <2>1
  <2>3. QED
    BY <1>4, <1>8, <2>1, <2>2 DEF Issued, w
<1>9. QED
  BY <1>3, <1>5, <1>6, <1>7, <1>8

LEMMA WriteStep ==
  ASSUME StoreInv, Write
  PROVE  StoreInv'
<1>0. /\ todo \in Seq(WriteType) /\ todo # << >> /\ todo' = Tail(todo)
      /\ UNCHANGED <<processed, clock, console, overlapped>>
      /\ IsFiniteSet(DOMAIN alerts) /\ commands \in [Hosts -> Nat]
      /\ processed \in Nat /\ clock \in Nat
  BY DEF StoreInv, StoreType, Write, history
<1>1. /\ todo[1] \in WriteType /\ Tail(todo) \in Seq(WriteType)
      /\ 1 \in 1..Len(todo) /\ Prefix(todo, 1) = {}
  BY <1>0, PrefixTail
<1>2. /\ Issued(incidents, DOMAIN alerts, incidents', DOMAIN alerts', todo[1])
      /\ commands' = IF todo[1].op = "isolate"
                     THEN [commands EXCEPT ![todo[1].host] = @ + 1] ELSE commands
      /\ \A x \in DOMAIN alerts' : alerts'[x].incident # NoIncident =>
           \/ x \in DOMAIN alerts /\ alerts[x].incident # NoIncident
           \/ todo[1].op = "link" /\ x = todo[1].alert
           \/ todo[1].op = "add" /\ x = todo[1].alert /\ todo[1].id # NoIncident
      /\ Table(incidents') /\ DOMAIN incidents' \subseteq 1..processed
      /\ \A i \in DOMAIN incidents' : Finite(incidents'[i])
      /\ DOMAIN alerts' \subseteq AlertType
      /\ alerts' \in [DOMAIN alerts' -> RowType]
      /\ \A x \in DOMAIN alerts' : IsRaised(x) => x.n <= processed
      /\ commands' \in [Hosts -> Nat]
  BY WriteIssues
<1>3. /\ PlanInv(~overlapped, incidents, DOMAIN alerts, processed, todo)
      /\ IsolateInv(DOMAIN alerts, commands, todo)
      /\ ~overlapped => RowsInv(incidents, alerts)
      /\ ~overlapped => console = Idle
  BY <1>0 DEF StoreInv
<1>4. /\ NewIn(DOMAIN alerts, processed, {}, todo[1])
      /\ ~overlapped => Fits(incidents, DOMAIN alerts, {}, todo[1])
  BY <1>1, <1>3 DEF PlanInv
<1>5. IsFiniteSet(DOMAIN alerts')
  BY <1>0, <1>2, <1>4, RaisedAfter
<1>6. StoreType'
  BY <1>0, <1>1, <1>2, <1>5 DEF StoreType
<1>7. PlanInv(~overlapped, incidents', DOMAIN alerts', processed, Tail(todo))
  BY <1>0, <1>2, <1>3, PlanTail
<1>8. IsolateInv(DOMAIN alerts', commands', Tail(todo))
  <2>1. \A k \in 1..Len(todo) : todo[k].op = "isolate" => todo[k].host \in Hosts
    BY <1>0, ElementOfSeq, WriteFields
  <2>2. QED
    BY <1>0, <1>2, <1>3, <1>4, <2>1, IsolateTail
<1>9. ~overlapped => RowsInv(incidents', alerts')
  BY <1>2, <1>3, <1>4, RowsAfter
<1>10. ConsoleInv'
  <2>1. CASE overlapped
    <3>1. DOMAIN incidents \subseteq DOMAIN incidents' /\ DOMAIN alerts \subseteq DOMAIN alerts'
      BY <1>2 DEF Issued, Over
    <3>2. QED
      BY <1>0, <2>1, <3>1 DEF StoreInv, ConsoleInv
  <2>2. CASE ~overlapped
    BY <1>0, <1>3, <2>2 DEF ConsoleInv
  <2>3. QED
    BY <2>1, <2>2
<1>11. QED
  BY <1>0, <1>3, <1>6, <1>7, <1>8, <1>9, <1>10 DEF StoreInv

-----------------------------------------------------------------------------
(* What an outcome o of placing a writes, on the incidents T and the       *)
(* alerts D, when p ids had been given: more than was there, and new       *)
(* correlation alerts that the body bears.                                 *)
Written(q, T, D, p, a, o) ==
  /\ o.id \in 1..(p + 1) /\ o.id \in Nat /\ o.id # NoIncident
  /\ o.other # NoIncident => o.other \in DOMAIN T /\ o.other # o.id
  /\ o.body \in IncidentType /\ Finite(o.body) /\ o.final \in IncidentType /\ Finite(o.final)
  /\ o.id \in DOMAIN T => Grows(T[o.id], o.body) /\ Grows(T[o.id], o.final)
  /\ Grows(o.body, o.final)
  /\ a \in ToSet(o.body.alert_ids) /\ ToSet(o.extra) \subseteq ToSet(o.final.alert_ids)
  /\ \A x \in ToSet(o.extra) :
       /\ x \in AlertType /\ x.host = a.host /\ x.about = o.id /\ x.n = p + 1
       /\ x \notin D /\ Bears(o.final, x)
  /\ q => \A x \in ToSet(o.extra), y \in D : y.about = x.about => y.rule # x.rule

LEMMA OutcomeWritten ==
  ASSUME NEW T, Table(T), NEW A, NEW p \in Nat, DOMAIN T \subseteq 1..p,
         \A i \in DOMAIN T : Finite(T[i]),
         \A y \in DOMAIN A : IsRaised(y) => y.n <= p,
         DOMAIN A \subseteq AlertType,
         NEW q, q => RowsInv(T, A),
         NEW a \in AlertType, NEW now \in Nat, NEW o \in Outcomes(T, a, p + 1, now)
  PROVE  Written(q, T, DOMAIN A, p, a, o) /\ Stating(T, a, p + 1, o)
<1>1. p + 1 \in Nat \ {NoIncident} /\ p + 1 \notin DOMAIN T
  BY DEF NoIncident
<1>2. /\ Placing(T, a, p + 1, now, o) /\ Raising(T, a, o) /\ Stating(T, a, p + 1, o)
  BY <1>1, PlacingFacts, RaisingAndCounting, OutcomesState
<1>3. /\ o.id \in DOMAIN T \cup {p + 1}
      /\ o.other # NoIncident => o.other \in DOMAIN T /\ o.other # o.id
      /\ o.final \in IncidentType /\ o.body \in IncidentType
      /\ o.extra \in Seq(AlertType)
      /\ ToSet(o.final.alert_ids) =
           IdsIn(T, o.id) \cup IdsIn(T, o.other) \cup {a} \cup ToSet(o.extra)
      /\ ToSet(o.body.alert_ids) = IdsIn(T, o.id) \cup IdsIn(T, o.other) \cup {a}
      /\ o.final.hosts = HostsBefore(T, o) \cup {a.host}
      /\ o.final.tactics = TacticsBefore(T, o) \cup TacticsOf(a)
      /\ \A x \in ToSet(o.extra) : /\ x.host = a.host /\ x.n = p + 1 /\ x.about = o.id
                                   /\ x.rule \in CorrelationRules
  BY <1>2 DEF Placing, Raising, Stating, HostsBefore
<1>4. o.body.hosts = o.final.hosts /\ o.body.tactics = o.final.tactics
  <2>1. o.final = [o.body EXCEPT !.alert_ids = @ \o o.extra]
    BY <1>2 DEF Stating
  <2>2. QED
    BY <1>3, <2>1 DEF IncidentType
<1>5. o.id \in 1..(p + 1) /\ o.id \in Nat /\ o.id # NoIncident
  BY <1>3 DEF NoIncident
<1>6. /\ IsFiniteSet(TacticsBefore(T, o)) /\ IsFiniteSet(HostsBefore(T, o))
      /\ IsFiniteSet(o.final.tactics) /\ IsFiniteSet(o.final.hosts)
  <2>1. \A i : IsFiniteSet(TacticsIn(T, i)) /\ IsFiniteSet(HostsIn(T, i))
    BY FS_EmptySet DEF TacticsIn, HostsIn, Finite
  <2>2. IsFiniteSet(TacticsBefore(T, o)) /\ IsFiniteSet(HostsBefore(T, o))
    BY <2>1, FS_Union DEF TacticsBefore, HostsBefore
  <2>3. IsFiniteSet(TacticsOf(a)) /\ IsFiniteSet({a.host})
    BY FS_EmptySet, FS_Singleton DEF TacticsOf
  <2>4. IsFiniteSet(TacticsBefore(T, o) \cup TacticsOf(a))
    BY <2>2, <2>3, FS_Union
  <2>5. IsFiniteSet(HostsBefore(T, o) \cup {a.host})
    BY <2>2, <2>3, FS_Union
  <2>6. QED
    BY <1>3, <2>2, <2>4, <2>5
<1>7. Finite(o.body) /\ Finite(o.final) /\ Grows(o.body, o.final)
  BY <1>3, <1>4, <1>6 DEF Finite, Grows
<1>8. ASSUME o.id \in DOMAIN T
      PROVE  /\ T[o.id].tactics \subseteq TacticsBefore(T, o)
             /\ T[o.id].hosts \subseteq HostsBefore(T, o)
             /\ ToSet(T[o.id].alert_ids) = IdsIn(T, o.id)
  BY <1>8 DEF TacticsBefore, TacticsIn, HostsBefore, HostsIn, IdsIn
<1>9. o.id \in DOMAIN T => Grows(T[o.id], o.body) /\ Grows(T[o.id], o.final)
  BY <1>3, <1>4, <1>8 DEF Grows
<1>10. a \in ToSet(o.body.alert_ids) /\ ToSet(o.extra) \subseteq ToSet(o.final.alert_ids)
  BY <1>3
<1>11. ASSUME NEW x \in ToSet(o.extra)
       PROVE  /\ x \in AlertType /\ x.host = a.host /\ x.about = o.id /\ x.n = p + 1
              /\ x \notin DOMAIN A /\ Bears(o.final, x)
  <2>1. x.host = a.host /\ x.n = p + 1 /\ x.about = o.id /\ x.rule \in CorrelationRules
    BY <1>3
  <2>2. x \in AlertType
    BY <1>3 DEF ToSet
  <2>3. x \notin DOMAIN A
    <3>1. IsRaised(x)
      BY <1>5, <2>1 DEF IsRaised
    <3>2. ~(p + 1 <= p)
      OBVIOUS
    <3>3. QED
      BY <2>1, <3>1, <3>2
  <2>4. x.rule = "CORR-KILLCHAIN" => Cardinality(o.final.tactics) >= 3
    BY <1>2 DEF Raising, Stages
  <2>5. x.rule = "CORR-MULTIHOST" => Cardinality(o.final.hosts) > 1
    BY <1>2 DEF Raising, Spreads
  <2>6. QED
    BY <2>1, <2>2, <2>3, <2>4, <2>5 DEF Bears
<1>12. ASSUME q, NEW x \in ToSet(o.extra), NEW y \in DOMAIN A, y.about = x.about
       PROVE  y.rule # x.rule
  <2>1. x.about = o.id /\ x.rule \in CorrelationRules
    BY <1>3
  <2>2. o.id \in DOMAIN T /\ Bears(T[o.id], y)
    BY <1>5, <1>12, <2>1 DEF RowsInv, Borne, IsRaised
  <2>3. /\ Cardinality(T[o.id].tactics) <= Cardinality(TacticsBefore(T, o))
        /\ Cardinality(T[o.id].tactics) \in Nat /\ Cardinality(TacticsBefore(T, o)) \in Nat
        /\ Cardinality(T[o.id].hosts) <= Cardinality(HostsBefore(T, o))
        /\ Cardinality(T[o.id].hosts) \in Nat /\ Cardinality(HostsBefore(T, o)) \in Nat
    BY <1>6, <1>8, <2>2, Sizes
  <2>4. CASE x.rule = "CORR-KILLCHAIN"
    <3>1. Cardinality(TacticsBefore(T, o)) < 3
      BY <1>2, <2>4 DEF Raising, Stages
    <3>2. y.rule = "CORR-KILLCHAIN" => Cardinality(T[o.id].tactics) >= 3
      BY <2>2 DEF Bears
    <3>3. QED
      BY <2>3, <2>4, <3>1, <3>2
  <2>5. CASE x.rule = "CORR-MULTIHOST"
    <3>1. Cardinality(HostsBefore(T, o)) = 1
      BY <1>2, <2>5 DEF Raising, Spreads
    <3>2. y.rule = "CORR-MULTIHOST" => Cardinality(T[o.id].hosts) > 1
      BY <2>2 DEF Bears
    <3>3. QED
      BY <2>3, <2>5, <3>1, <3>2
  <2>6. QED
    BY <2>1, <2>4, <2>5 DEF CorrelationRules
<1>13. Written(q, T, DOMAIN A, p, a, o)
  BY <1>3, <1>5, <1>7, <1>9, <1>10, <1>11, <1>12 DEF Written
<1>14. QED
  BY <1>2, <1>13

-----------------------------------------------------------------------------
\* A list of writes all of which fit.
Good(q, T, D, C, p, l) ==
  /\ l \in Seq(WriteType)
  /\ PlanInv(q, T, D, p, l) /\ IsolateInv(D, C, l)

LEMMA WriteIsTyped ==
  /\ \A x \in AlertType, i \in Nat : Link(x, i) \in WriteType /\ Add(x, i) \in WriteType
  /\ \A i \in Nat, b \in IncidentType : Put(i, b) \in WriteType
  /\ \A h \in Hosts : Isolate(h) \in WriteType
BY DEF Link, Add, Put, Isolate, WriteType

LEMMA GoodAppend ==
  ASSUME NEW q, NEW T, NEW D, NEW C, NEW p, NEW l, Good(q, T, D, C, p, l),
         NEW w \in WriteType, NewIn(D, p, ToSet(l), w), q => Fits(T, D, ToSet(l), w),
         w.op = "isolate" => l # << >> /\ Raises(l[Len(l)]) /\ l[Len(l)].alert.host = w.host
  PROVE  /\ Good(q, T, D, C, p, Append(l, w))
         /\ ToSet(Append(l, w)) = ToSet(l) \cup {w}
         /\ Append(l, w) # << >> /\ Append(l, w)[Len(Append(l, w))] = w
<1>1. l \in Seq(WriteType)
  BY DEF Good
<1>2. /\ Append(l, w) \in Seq(WriteType) /\ Append(l, w) # << >>
      /\ Append(l, w)[Len(Append(l, w))] = w
  BY <1>1, AppendProperties
<1>3. PlanInv(q, T, D, p, Append(l, w))
  BY <1>1, PlanAppend DEF Good
<1>4. IsolateInv(D, C, Append(l, w))
  BY <1>1, IsolateAppend DEF Good
<1>5. ToSet(Append(l, w)) = ToSet(l) \cup {w}
  BY <1>1, ToSetAppend
<1>6. QED
  BY <1>2, <1>3, <1>4, <1>5 DEF Good

LEMMA GoodIsolate ==
  ASSUME NEW q, NEW T, NEW D, NEW C, NEW p, NEW l, Good(q, T, D, C, p, l),
         NEW w \in WriteType, w.op = "isolate",
         l # << >>, Raises(l[Len(l)]), l[Len(l)].alert.host = w.host
  PROVE  Good(q, T, D, C, p, Append(l, w)) /\ ToSet(Append(l, w)) = ToSet(l) \cup {w}
<1>1. l \in Seq(WriteType)
  BY DEF Good
<1>2. NewIn(D, p, ToSet(l), w) /\ Fits(T, D, ToSet(l), w)
  BY DEF NewIn, Fits, Raises
<1>3. Append(l, w) \in Seq(WriteType) /\ ToSet(Append(l, w)) = ToSet(l) \cup {w}
  BY <1>1, AppendProperties, ToSetAppend
<1>4. PlanInv(q, T, D, p, Append(l, w))
  BY <1>1, <1>2, PlanAppend DEF Good
<1>5. IsolateInv(D, C, Append(l, w))
  BY <1>1, IsolateAppend DEF Good
<1>6. QED
  BY <1>3, <1>4, <1>5 DEF Good

\* The merge: the alerts are linked, then the other incident is put away.
Links(s, i) == [k \in DOMAIN s |-> Link(s[k], i)]
AreLinks(l) == \A v \in ToSet(l) : v.op = "link"

LEMMA LinksGood ==
  ASSUME NEW q, NEW T, NEW D, NEW C, NEW p, NEW i \in Nat, NEW j \in DOMAIN T,
         NEW s \in Seq(AlertType), ToSet(s) = ToSet(T[j].alert_ids),
         IsolateInv(D, C, << >>),
         NEW l, l = Links(s, i)
  PROVE  Good(q, T, D, C, p, l) /\ AreLinks(l)
<1>1. /\ Len(s) \in Nat /\ DOMAIN s = 1..Len(s)
      /\ \A k \in 1..Len(s) : s[k] \in AlertType /\ s[k] \in ToSet(T[j].alert_ids)
  BY LenProperties, ElementOfSeq DEF ToSet
<1>2. ASSUME NEW k \in 1..Len(s)
      PROVE  l[k] = Link(s[k], i) /\ l[k] \in WriteType
  BY <1>1, WriteIsTyped DEF Links
<1>3. l \in Seq(WriteType) /\ Len(l) = Len(s) /\ DOMAIN l = 1..Len(s)
  <2>1. l = [k \in 1..Len(s) |-> l[k]]
    BY <1>1 DEF Links
  <2>2. l \in Seq(WriteType)
    BY <1>1, <1>2, <2>1
  <2>3. QED
    BY <1>1, <2>1, <2>2
<1>4. ASSUME NEW k \in 1..Len(l)
      PROVE  l[k].op = "link" /\ InTable(T, l[k].alert)
  <2>1. l[k].op = "link" /\ l[k].alert = s[k]
    BY <1>2, <1>3 DEF Link
  <2>2. QED
    BY <1>1, <1>3, <2>1 DEF InTable
<1>5. PlanInv(q, T, D, p, l)
  BY <1>4 DEF PlanInv, NewIn, Fits, Raises
<1>6. IsolateInv(D, C, l)
  <2>1. \A h \in Hosts : C[h] <= Cardinality(Raised(D, h))
    BY DEF IsolateInv
  <2>2. QED
    BY <1>4, <2>1 DEF IsolateInv
<1>7. QED
  BY <1>3, <1>4, <1>5, <1>6 DEF Good, AreLinks, ToSet

\* Those before the alerts that were raised: the merge, the body, the alert.
Preceding(a, o, l) ==
  /\ \A v \in ToSet(l) : ~Raises(v)
  /\ o.extra # << >> => Put(o.id, o.final) \in ToSet(l)

LEMMA MergeGood ==
  ASSUME NEW q, NEW T, Table(T), NEW D, NEW C, NEW p \in Nat, DOMAIN T \subseteq 1..p,
         NEW a, NEW o, Written(q, T, D, p, a, o),
         \A i \in DOMAIN T : Finite(T[i]),
         IsolateInv(D, C, << >>),
         NEW l, l = IF o.other = NoIncident THEN << >>
                    ELSE Append(Links(T[o.other].alert_ids, o.id),
                                Put(o.other, MergedAway(T[o.other], o.id)))
  PROVE  /\ Good(q, T, D, C, p + 1, l)
         /\ \A v \in ToSet(l) : ~Raises(v) /\ (v.op = "put" => v.id # o.id)
<1>1. CASE o.other = NoIncident
  <2>1. l = << >> /\ << >> \in Seq(WriteType) /\ Len(<< >>) = 0 /\ ToSet(<< >>) = {}
    BY <1>1 DEF ToSet
  <2>2. PlanInv(q, T, D, p + 1, << >>)
    BY <2>1 DEF PlanInv
  <2>3. QED
    BY <2>1, <2>2 DEF Good
<1>2. CASE o.other # NoIncident
  <2> DEFINE s == T[o.other].alert_ids
             m == Links(s, o.id)
             inc == T[o.other]
             body == MergedAway(T[o.other], o.id)
             w == Put(o.other, body)
  <2>1. o.other \in DOMAIN T /\ o.other # o.id /\ o.id \in Nat
    BY <1>2 DEF Written
  <2>2. inc \in IncidentType /\ s \in Seq(AlertType) /\ Finite(inc)
    BY <2>1, IncidentFields DEF Table
  <2>3. /\ body \in IncidentType /\ body.alert_ids = inc.alert_ids
        /\ body.hosts = inc.hosts /\ body.tactics = inc.tactics
    BY <2>1, <2>2 DEF MergedAway, IncidentType, Statuses
  <2>4. Grows(inc, body) /\ Finite(body)
    BY <2>2, <2>3 DEF Grows, Finite
  <2>5. Good(q, T, D, C, p + 1, m) /\ AreLinks(m)
    <3>1. s \in Seq(AlertType) /\ ToSet(s) = ToSet(T[o.other].alert_ids)
      BY <2>2
    <3> HIDE DEF s
    <3>2. QED
      BY <2>1, <3>1, LinksGood, Zenon
  <2>6. l = Append(m, w)
    BY <1>2
  <2>7. w.op = "put" /\ w.id = o.other /\ w.body = body
    BY DEF Put
  <2> HIDE DEF m, inc, body, s
  <2>8. w \in WriteType /\ o.other \in 1..(p + 1)
    BY <2>1, <2>3, WriteIsTyped DEF Table
  <2> HIDE DEF w
  <2>9. NewIn(D, p + 1, ToSet(m), w)
    BY <2>4, <2>7, <2>8 DEF NewIn, Raises
  <2>10. Fits(T, D, ToSet(m), w)
    <3>1. PutFits(T, ToSet(m), w)
      BY <2>4, <2>5, <2>7 DEF PutFits, inc, AreLinks
    <3>2. QED
      BY <2>7, <3>1 DEF Fits, Raises
  <2>11. /\ Good(q, T, D, C, p + 1, Append(m, w))
         /\ ToSet(Append(m, w)) = ToSet(m) \cup {w}
    BY <2>5, <2>7, <2>8, <2>9, <2>10, GoodAppend
  <2>12. QED
    BY <2>1, <2>5, <2>6, <2>7, <2>11 DEF Raises, AreLinks
<1>3. QED
  BY <1>1, <1>2

\* The target: its body, the body with the raised alerts, the alert.
TargetWrites(l, o, a) ==
  Append(IF o.extra = << >> THEN Append(l, Put(o.id, o.body))
         ELSE Append(Append(l, Put(o.id, o.body)), Put(o.id, o.final)),
         Add(a, o.id))

LEMMA PutGood ==
  ASSUME NEW q, NEW T, NEW D, NEW C, NEW p, NEW l, Good(q, T, D, C, p, l),
         NEW i \in Nat, i \in 1..p, NEW body \in IncidentType, Finite(body),
         i \in DOMAIN T => Grows(T[i], body),
         \A v \in ToSet(l) : v.op = "put" /\ v.id = i => Grows(v.body, body),
         NEW w, w = Put(i, body)
  PROVE  Good(q, T, D, C, p, Append(l, w)) /\ ToSet(Append(l, w)) = ToSet(l) \cup {w}
<1>1. /\ w \in WriteType /\ w.op = "put" /\ w.id = i /\ w.body = body /\ ~Raises(w)
  BY WriteIsTyped DEF Put, Raises
<1>2. NewIn(D, p, ToSet(l), w)
  BY <1>1 DEF NewIn
<1>3. PutFits(T, ToSet(l), w)
  BY <1>1 DEF PutFits
<1>4. Fits(T, D, ToSet(l), w)
  BY <1>1, <1>3 DEF Fits
<1>5. QED
  BY <1>1, <1>2, <1>4, GoodAppend

LEMMA PlaceGood ==
  ASSUME NEW q, NEW T, NEW D, NEW C, NEW p, NEW l, Good(q, T, D, C, p, l),
         NEW i \in Nat, NEW a \in AlertType, ~IsRaised(a),
         i # NoIncident =>
           \E v \in ToSet(l) : v.op = "put" /\ a \in ToSet(v.body.alert_ids),
         NEW w, w = Add(a, i)
  PROVE  Good(q, T, D, C, p, Append(l, w)) /\ ToSet(Append(l, w)) = ToSet(l) \cup {w}
<1>1. /\ w \in WriteType /\ w.op = "add" /\ w.id = i /\ w.alert = a /\ ~Raises(w)
  BY WriteIsTyped DEF Add, Raises
<1>2. NewIn(D, p, ToSet(l), w)
  BY <1>1 DEF NewIn
<1>3. w.id # NoIncident => AddFits(T, ToSet(l), w)
  BY <1>1 DEF AddFits
<1>4. Fits(T, D, ToSet(l), w)
  BY <1>1, <1>3 DEF Fits
<1>5. QED
  BY <1>1, <1>2, <1>4, GoodAppend

LEMMA TargetGood ==
  ASSUME NEW q, NEW T, NEW D, NEW C, NEW p \in Nat, NEW a \in AlertType, ~IsRaised(a),
         NEW o, Written(q, T, D, p, a, o),
         NEW l, Good(q, T, D, C, p + 1, l),
         \A v \in ToSet(l) : ~Raises(v) /\ (v.op = "put" => v.id # o.id),
         NEW m, m = TargetWrites(l, o, a)
  PROVE  Good(q, T, D, C, p + 1, m) /\ Preceding(a, o, m)
<1> DEFINE w1 == Put(o.id, o.body)
           w2 == Put(o.id, o.final)
           w3 == Add(a, o.id)
           l1 == Append(l, w1)
           l2 == IF o.extra = << >> THEN l1 ELSE Append(l1, w2)
<1>1. /\ o.id \in 1..(p + 1) /\ o.id \in Nat
      /\ o.body \in IncidentType /\ Finite(o.body) /\ o.final \in IncidentType /\ Finite(o.final)
      /\ o.id \in DOMAIN T => Grows(T[o.id], o.body) /\ Grows(T[o.id], o.final)
      /\ Grows(o.body, o.final)
      /\ a \in ToSet(o.body.alert_ids)
  BY DEF Written
<1>2. /\ w1.op = "put" /\ w1.id = o.id /\ w1.body = o.body /\ ~Raises(w1)
      /\ w2.op = "put" /\ w2.id = o.id /\ w2.body = o.final /\ ~Raises(w2)
      /\ w3.op = "add" /\ w3.id = o.id /\ w3.alert = a /\ ~Raises(w3)
  BY DEF Put, Add, Raises
<1>3. m = Append(l2, w3)
  BY DEF TargetWrites
<1>4. Good(q, T, D, C, p + 1, l1) /\ ToSet(l1) = ToSet(l) \cup {w1}
  BY <1>1, PutGood
<1>5. /\ Good(q, T, D, C, p + 1, l2) /\ w1 \in ToSet(l2)
      /\ \A v \in ToSet(l2) : ~Raises(v)
      /\ o.extra # << >> => w2 \in ToSet(l2)
  <2>1. CASE o.extra = << >>
    BY <1>2, <1>4, <2>1
  <2>2. CASE o.extra # << >>
    <3> HIDE DEF l1, w1
    <3>1. \A v \in ToSet(l1) : v.op = "put" /\ v.id = o.id => Grows(v.body, o.final)
      BY <1>1, <1>2, <1>4
    <3>2. Good(q, T, D, C, p + 1, Append(l1, w2)) /\ ToSet(Append(l1, w2)) = ToSet(l1) \cup {w2}
      BY <1>1, <1>4, <3>1, PutGood
    <3>3. QED
      BY <1>2, <1>4, <2>2, <3>2
  <2>3. QED
    BY <2>1, <2>2
<1> HIDE DEF l1, l2, w1, w2
<1>6. Good(q, T, D, C, p + 1, Append(l2, w3)) /\ ToSet(Append(l2, w3)) = ToSet(l2) \cup {w3}
  <2>1. \E v \in ToSet(l2) : v.op = "put" /\ a \in ToSet(v.body.alert_ids)
    BY <1>1, <1>2, <1>5
  <2>2. QED
    BY <1>1, <1>5, <2>1, PlaceGood
<1> HIDE DEF w3
<1>7. QED
  BY <1>2, <1>3, <1>5, <1>6 DEF Preceding, w2

\* A correlation alert: it is stored, and the host is isolated.
RaiseWrites(l, x, o, a) ==
  IF AutoIsolate THEN Append(Append(l, Add(x, o.id)), Isolate(a.host))
  ELSE Append(l, Add(x, o.id))

LEMMA RaiseGood ==
  ASSUME NEW q, NEW T, NEW D, NEW C, NEW p \in Nat, NEW a \in AlertType,
         NEW o, Written(q, T, D, p, a, o), NEW x \in ToSet(o.extra),
         NEW l, Good(q, T, D, C, p + 1, l), Put(o.id, o.final) \in ToSet(l),
         \A v \in ToSet(l) : Raises(v) => v.alert.rule # x.rule,
         NEW m, m = RaiseWrites(l, x, o, a)
  PROVE  /\ Good(q, T, D, C, p + 1, m) /\ ToSet(l) \subseteq ToSet(m)
         /\ \A v \in ToSet(m) \ ToSet(l) : Raises(v) => v.alert = x
<1> DEFINE w1 == Add(x, o.id)
           w2 == Isolate(a.host)
           u  == Put(o.id, o.final)
           l1 == Append(l, w1)
           l2 == Append(l1, w2)
<1>1. /\ o.id \in Nat /\ o.id # NoIncident /\ x \in AlertType /\ x.host = a.host
      /\ x.about = o.id /\ x.n = p + 1 /\ x \notin D /\ Bears(o.final, x)
      /\ x \in ToSet(o.final.alert_ids)
      /\ q => \A y \in D : y.about = x.about => y.rule # x.rule
  BY DEF Written
<1>2. /\ w1 \in WriteType /\ w1.op = "add" /\ w1.id = o.id /\ w1.alert = x /\ Raises(w1)
  BY <1>1, WriteIsTyped DEF Add, Raises, IsRaised
<1>3. u \in ToSet(l) /\ u.op = "put" /\ u.id = o.id /\ u.body = o.final
  BY DEF Put
<1>4. /\ w2 \in WriteType /\ w2.op = "isolate" /\ w2.host = a.host /\ ~Raises(w2)
  BY AlertFields, WriteIsTyped DEF Isolate, Raises
<1> HIDE DEF w1, w2, u
<1>5. NewIn(D, p + 1, ToSet(l), w1)
  <2>1. p + 1 <= p + 1
    OBVIOUS
  <2>2. QED
    BY <1>1, <1>2, <2>1 DEF NewIn
<1>6. ASSUME q PROVE Fits(T, D, ToSet(l), w1)
  <2>1. AddFits(T, ToSet(l), w1)
    BY <1>1, <1>2, <1>3 DEF AddFits
  <2>2. RaiseFits(T, D, ToSet(l), w1)
    BY <1>1, <1>2, <1>3, <1>6 DEF RaiseFits
  <2>3. QED
    BY <1>2, <2>1, <2>2 DEF Fits
<1>7. /\ Good(q, T, D, C, p + 1, l1) /\ ToSet(l1) = ToSet(l) \cup {w1}
      /\ l1 # << >> /\ l1[Len(l1)] = w1
  BY <1>2, <1>5, <1>6, GoodAppend
<1> HIDE DEF l1
<1>8. Good(q, T, D, C, p + 1, l2) /\ ToSet(l2) = ToSet(l1) \cup {w2}
  <2>1. /\ Good(q, T, D, C, p + 1, l1) /\ w2 \in WriteType /\ w2.op = "isolate"
        /\ l1 # << >> /\ Raises(l1[Len(l1)]) /\ l1[Len(l1)].alert.host = w2.host
    BY <1>1, <1>2, <1>4, <1>7
  <2>2. QED
    BY <2>1, GoodIsolate
<1> HIDE DEF l2
<1>9. m = l1 \/ m = l2
  BY DEF RaiseWrites, l1, l2, w1, w2
<1>10. QED
  BY <1>2, <1>4, <1>7, <1>8, <1>9

-----------------------------------------------------------------------------
\* The list add_alert builds is these, one after the other.
Merging(o) ==
  IF o.other = NoIncident THEN << >>
  ELSE Append(Links(incidents[o.other].alert_ids, o.id),
              Put(o.other, MergedAway(incidents[o.other], o.id)))

Bodies(o) ==
  IF o.extra = << >> THEN <<Put(o.id, o.body)>> ELSE <<Put(o.id, o.body), Put(o.id, o.final)>>

More(x, o, a) == IF AutoIsolate THEN <<Add(x, o.id), Isolate(a.host)>> ELSE <<Add(x, o.id)>>

LEMMA WritesUnfold ==
  ASSUME NEW o, NEW a
  PROVE  Writes(o, a) = Merging(o) \o Bodies(o) \o <<Add(a, o.id)>>
                        \o FlattenSeq([k \in DOMAIN o.extra |-> More(o.extra[k], o, a)])
BY DEF Writes, MapSeq, Merging, Bodies, More, Links

LEMMA BodiesFirst ==
  ASSUME NEW o, NEW a, NEW l \in Seq(WriteType),
         Put(o.id, o.body) \in WriteType, Put(o.id, o.final) \in WriteType,
         Add(a, o.id) \in WriteType
  PROVE  /\ l \o Bodies(o) \o <<Add(a, o.id)>> = TargetWrites(l, o, a)
         /\ TargetWrites(l, o, a) \in Seq(WriteType)
<1>1. /\ o.extra = << >> => l \o Bodies(o) = Append(l, Put(o.id, o.body))
      /\ o.extra # << >> =>
           l \o Bodies(o) = Append(Append(l, Put(o.id, o.body)), Put(o.id, o.final))
  BY AppendIsConcat, ConcatTwo DEF Bodies
<1>2. l \o Bodies(o) \in Seq(WriteType)
  <2>1. Append(l, Put(o.id, o.body)) \in Seq(WriteType)
    BY AppendProperties
  <2>2. Append(Append(l, Put(o.id, o.body)), Put(o.id, o.final)) \in Seq(WriteType)
    BY <2>1, AppendProperties
  <2>3. QED
    BY <1>1, <2>1, <2>2, Zenon
<1>3. l \o Bodies(o) \o <<Add(a, o.id)>> = Append(l \o Bodies(o), Add(a, o.id))
  BY <1>2, AppendIsConcat
<1>4. Append(l \o Bodies(o), Add(a, o.id)) \in Seq(WriteType)
  BY <1>2, AppendProperties
<1>5. TargetWrites(l, o, a) = Append(l \o Bodies(o), Add(a, o.id))
  BY <1>1 DEF TargetWrites
<1>6. QED
  BY <1>3, <1>4, <1>5

LEMMA MoreLast ==
  ASSUME NEW o, NEW a, NEW x, NEW l \in Seq(WriteType),
         Add(x, o.id) \in WriteType, Isolate(a.host) \in WriteType
  PROVE  /\ l \o More(x, o, a) = RaiseWrites(l, x, o, a)
         /\ More(x, o, a) \in Seq(WriteType) /\ RaiseWrites(l, x, o, a) \in Seq(WriteType)
<1>1. /\ <<Add(x, o.id)>> \in Seq(WriteType)
      /\ <<Add(x, o.id), Isolate(a.host)>> \in Seq(WriteType)
  BY PairIsSeq
<1>2. /\ l \o <<Add(x, o.id)>> = Append(l, Add(x, o.id))
      /\ l \o <<Add(x, o.id), Isolate(a.host)>> =
           Append(Append(l, Add(x, o.id)), Isolate(a.host))
  BY AppendIsConcat, ConcatTwo
<1>3. /\ Append(l, Add(x, o.id)) \in Seq(WriteType)
      /\ Append(Append(l, Add(x, o.id)), Isolate(a.host)) \in Seq(WriteType)
  BY AppendProperties
<1>4. QED
  BY <1>1, <1>2, <1>3 DEF More, RaiseWrites

LEMMA WritesNone ==
  ASSUME NEW o, o.extra = << >>, NEW a, Merging(o) \in Seq(WriteType),
         Put(o.id, o.body) \in WriteType, Put(o.id, o.final) \in WriteType,
         Add(a, o.id) \in WriteType
  PROVE  Writes(o, a) = TargetWrites(Merging(o), o, a)
<1>1. [k \in DOMAIN o.extra |-> More(o.extra[k], o, a)] = << >>
  OBVIOUS
<1>2. Writes(o, a) = TargetWrites(Merging(o), o, a) \o << >>
  BY <1>1, WritesUnfold, BodiesFirst, FlattenNone
<1>3. TargetWrites(Merging(o), o, a) \in Seq(WriteType)
  BY BodiesFirst
<1>4. QED
  BY <1>2, <1>3, ConcatEmptySeq

LEMMA WritesOne ==
  ASSUME NEW o, NEW x, o.extra = <<x>>, NEW a, Merging(o) \in Seq(WriteType),
         Put(o.id, o.body) \in WriteType, Put(o.id, o.final) \in WriteType,
         Add(a, o.id) \in WriteType, Add(x, o.id) \in WriteType,
         Isolate(a.host) \in WriteType
  PROVE  Writes(o, a) = RaiseWrites(TargetWrites(Merging(o), o, a), x, o, a)
<1> DEFINE t == TargetWrites(Merging(o), o, a)
<1>1. [k \in DOMAIN o.extra |-> More(o.extra[k], o, a)] = <<More(x, o, a)>>
  OBVIOUS
<1>2. t \in Seq(WriteType) /\ Merging(o) \o Bodies(o) \o <<Add(a, o.id)>> = t
  BY BodiesFirst
<1> HIDE DEF t
<1>3. t \o More(x, o, a) = RaiseWrites(t, x, o, a) /\ More(x, o, a) \in Seq(WriteType)
  BY <1>2, MoreLast
<1>4. FlattenSeq(<<More(x, o, a)>>) = More(x, o, a)
  BY <1>3, FlattenOne
<1>5. Writes(o, a) = t \o More(x, o, a)
  BY <1>1, <1>2, <1>4, WritesUnfold
<1>6. QED
  BY <1>3, <1>5 DEF t

LEMMA WritesTwo ==
  ASSUME NEW o, NEW x, NEW y, o.extra = <<x, y>>, NEW a, Merging(o) \in Seq(WriteType),
         Put(o.id, o.body) \in WriteType, Put(o.id, o.final) \in WriteType,
         Add(a, o.id) \in WriteType, Add(x, o.id) \in WriteType, Add(y, o.id) \in WriteType,
         Isolate(a.host) \in WriteType
  PROVE  Writes(o, a) =
           RaiseWrites(RaiseWrites(TargetWrites(Merging(o), o, a), x, o, a), y, o, a)
<1> DEFINE t == TargetWrites(Merging(o), o, a)
           u == RaiseWrites(t, x, o, a)
<1>1. [k \in DOMAIN o.extra |-> More(o.extra[k], o, a)] = <<More(x, o, a), More(y, o, a)>>
  OBVIOUS
<1>2. t \in Seq(WriteType) /\ Merging(o) \o Bodies(o) \o <<Add(a, o.id)>> = t
  BY BodiesFirst
<1> HIDE DEF t
<1>3. /\ t \o More(x, o, a) = u
      /\ More(x, o, a) \in Seq(WriteType) /\ u \in Seq(WriteType)
  BY <1>2, MoreLast
<1> HIDE DEF u
<1>4. u \o More(y, o, a) = RaiseWrites(u, y, o, a) /\ More(y, o, a) \in Seq(WriteType)
  BY <1>3, MoreLast
<1>5. FlattenSeq(<<More(x, o, a), More(y, o, a)>>) = More(x, o, a) \o More(y, o, a)
  BY <1>3, <1>4, FlattenTwo
<1>6. Writes(o, a) = t \o (More(x, o, a) \o More(y, o, a))
  BY <1>1, <1>2, <1>5, WritesUnfold
<1>7. t \o (More(x, o, a) \o More(y, o, a)) = u \o More(y, o, a)
  <2>1. \A s1, s2, s3 \in Seq(WriteType) : (s1 \o s2) \o s3 = s1 \o (s2 \o s3)
    BY ConcatAssociative
  <2>2. QED
    BY <1>2, <1>3, <1>4, <2>1, Zenon
<1>8. QED
  BY <1>4, <1>6, <1>7 DEF u, t

\* All that add_alert is about to write fits.
LEMMA WritesGood ==
  ASSUME StoreInv, todo = << >>, NEW a \in AlertType, ~IsRaised(a),
         NEW o \in Outcomes(incidents, a, processed + 1, clock),
         NEW q, q => ~overlapped
  PROVE  Good(q, incidents, DOMAIN alerts, commands, processed + 1, Writes(o, a))
<1> DEFINE T == incidents
           D == DOMAIN alerts
           p == processed
           R(x) == Raises(x)
<1>1. /\ Table(T) /\ DOMAIN T \subseteq 1..p /\ p \in Nat /\ clock \in Nat
      /\ \A i \in DOMAIN T : Finite(T[i])
      /\ \A y \in DOMAIN alerts : IsRaised(y) => y.n <= p
      /\ D \subseteq AlertType /\ (q => RowsInv(T, alerts))
      /\ IsolateInv(D, commands, << >>)
  BY DEF StoreInv, StoreType
<1>2. Written(q, T, D, p, a, o) /\ Stating(T, a, p + 1, o)
  BY <1>1, OutcomeWritten
<1>3. /\ o.id \in Nat /\ o.body \in IncidentType /\ o.final \in IncidentType
      /\ \A x \in ToSet(o.extra) : x \in AlertType
      /\ a.host \in Hosts
  BY <1>2, AlertFields DEF Written
<1>4. /\ Put(o.id, o.body) \in WriteType /\ Put(o.id, o.final) \in WriteType
      /\ Add(a, o.id) \in WriteType /\ Isolate(a.host) \in WriteType
      /\ \A x \in AlertType : Add(x, o.id) \in WriteType
  BY <1>3, WriteIsTyped
<1> DEFINE l == Merging(o)
           t == TargetWrites(l, o, a)
<1>5. /\ Good(q, T, D, commands, p + 1, l)
      /\ \A v \in ToSet(l) : ~Raises(v) /\ (v.op = "put" => v.id # o.id)
  BY <1>1, <1>2, MergeGood DEF Merging
<1>6. l \in Seq(WriteType)
  BY <1>5 DEF Good
<1> HIDE DEF l
<1>7. Good(q, T, D, commands, p + 1, t) /\ Preceding(a, o, t)
  BY <1>1, <1>2, <1>5, TargetGood
<1> HIDE DEF t
<1>8. CASE o.extra = << >>
  BY <1>4, <1>6, <1>7, <1>8, WritesNone DEF t, l
<1>9. ASSUME NEW x \in AlertType, x \in ToSet(o.extra), o.extra # << >>
      PROVE  /\ Good(q, T, D, commands, p + 1, RaiseWrites(t, x, o, a))
             /\ ToSet(t) \subseteq ToSet(RaiseWrites(t, x, o, a))
             /\ \A v \in ToSet(RaiseWrites(t, x, o, a)) \ ToSet(t) : Raises(v) => v.alert = x
  <2>1. Put(o.id, o.final) \in ToSet(t) /\ \A v \in ToSet(t) : Raises(v) => v.alert.rule # x.rule
    BY <1>7, <1>9 DEF Preceding
  <2>2. QED
    BY <1>1, <1>2, <1>7, <1>9, <2>1, RaiseGood
<1>10. ASSUME NEW x \in AlertType, o.extra = <<x>>
       PROVE  Good(q, T, D, commands, p + 1, Writes(o, a))
  <2>1. x \in ToSet(o.extra) /\ o.extra # << >>
    BY <1>10 DEF ToSet
  <2>2. Good(q, T, D, commands, p + 1, RaiseWrites(t, x, o, a))
    BY <1>9, <2>1
  <2>3. Writes(o, a) = RaiseWrites(t, x, o, a)
    BY <1>4, <1>6, <1>10, WritesOne DEF t, l
  <2>4. QED
    BY <2>2, <2>3
<1>11. ASSUME NEW x \in AlertType, NEW y \in AlertType, o.extra = <<x, y>>, x.rule # y.rule
       PROVE  Good(q, T, D, commands, p + 1, Writes(o, a))
  <2> DEFINE u == RaiseWrites(t, x, o, a)
  <2>1. x \in ToSet(o.extra) /\ y \in ToSet(o.extra) /\ o.extra # << >>
    BY <1>11 DEF ToSet
  <2>2. /\ Good(q, T, D, commands, p + 1, u)
        /\ ToSet(t) \subseteq ToSet(u)
        /\ \A v \in ToSet(u) \ ToSet(t) : Raises(v) => v.alert = x
    BY <1>9, <2>1
  <2> HIDE DEF u
  <2>3. Put(o.id, o.final) \in ToSet(u) /\ \A v \in ToSet(u) : Raises(v) => v.alert.rule # y.rule
    BY <1>7, <1>11, <2>1, <2>2 DEF Preceding
  <2>4. Good(q, T, D, commands, p + 1, RaiseWrites(u, y, o, a))
    BY <1>1, <1>2, <2>1, <2>2, <2>3, RaiseGood
  <2>5. Writes(o, a) = RaiseWrites(u, y, o, a)
    BY <1>4, <1>6, <1>11, WritesTwo DEF u, t, l
  <2>6. QED
    BY <2>4, <2>5
<1>12. QED
  BY <1>2, <1>8, <1>10, <1>11 DEF Stating

-----------------------------------------------------------------------------
LEMMA NothingToWrite ==
  ASSUME NEW q, NEW T, NEW D, NEW p, NEW l, l = << >>
  PROVE  PlanInv(q, T, D, p, l)
BY DEF PlanInv

\* The parts of the plan's invariant that a status change can take away.
LEMMA PlanWeaker ==
  ASSUME NEW q, NEW q2, q2 => q, NEW T, NEW D, NEW p, NEW l, PlanInv(q, T, D, p, l)
  PROVE  PlanInv(q2, T, D, p, l)
BY DEF PlanInv

LEMMA PlanUnsafe ==
  ASSUME NEW q, NEW q2, ~q2, NEW T, NEW T2, NEW D, NEW p, NEW l, PlanInv(q, T, D, p, l)
  PROVE  PlanInv(q2, T2, D, p, l)
BY DEF PlanInv

LEMMA SameRows ==
  ASSUME NEW T, NEW A, NEW A2, RowsInv(T, A), DOMAIN A2 = DOMAIN A,
         \A x \in DOMAIN A : A2[x].incident = A[x].incident
  PROVE  RowsInv(T, A2)
BY DEF RowsInv

LEMMA InitStoreInv == StoreInit => StoreInv
<1> SUFFICES ASSUME StoreInit PROVE StoreInv
  OBVIOUS
<1>1. /\ incidents = << >> /\ alerts = << >> /\ commands = [h \in Hosts |-> 0]
      /\ clock = 0 /\ processed = 0 /\ todo = << >> /\ console = Idle
  BY DEF StoreInit, Init
<1>2. DOMAIN incidents = {} /\ DOMAIN alerts = {}
  BY <1>1
<1>3. todo \in Seq(WriteType) /\ Len(todo) = 0
  BY <1>1
<1>4. StoreType
  <2>1. IsFiniteSet(DOMAIN alerts)
    BY <1>2, FS_EmptySet
  <2>2. Table(incidents)
    BY <1>1, <1>2 DEF Table
  <2>3. alerts \in [DOMAIN alerts -> RowType]
    BY <1>1, <1>2
  <2>4. commands \in [Hosts -> Nat]
    BY <1>1
  <2>5. QED
    BY <1>1, <1>2, <1>3, <2>1, <2>2, <2>3, <2>4 DEF StoreType
<1>5. IsolateInv(DOMAIN alerts, commands, todo)
  <2>1. \A h : Raised(DOMAIN alerts, h) = {}
    BY <1>2 DEF Raised
  <2>2. \A h : Cardinality(Raised(DOMAIN alerts, h)) = 0
    BY <2>1, FS_EmptySet
  <2>3. QED
    BY <1>1, <1>3, <2>2 DEF IsolateInv
<1>6. RowsInv(incidents, alerts)
  BY <1>2 DEF RowsInv
<1>7. QED
  BY <1>1, <1>4, <1>5, <1>6, NothingToWrite DEF StoreInv, ConsoleInv

LEMMA BeginStep ==
  ASSUME StoreInv, NEW a \in AgentAlerts, Begin(a)
  PROVE  StoreInv'
<1>1. /\ todo = << >> /\ processed' = processed + 1
      /\ UNCHANGED <<incidents, alerts, commands, clock, console>>
      /\ overlapped' = (overlapped \/ console # Idle)
      /\ a \in AlertType /\ ~IsRaised(a)
  BY AgentAlertsAssumption DEF Begin, Arrive, tables, IsRaised
<1>2. PICK q : q <=> ~overlapped'
  OBVIOUS
<1>3. q => ~overlapped
  BY <1>1, <1>2
<1>4. /\ IsolateInv(DOMAIN alerts, commands, << >>) /\ processed \in Nat
  BY <1>1 DEF StoreInv, StoreType
<1>5. Good(q, incidents, DOMAIN alerts, commands, processed + 1, todo')
  <2>1. CASE a.sev = Info
    <3>1. todo' = <<Add(a, NoIncident)>>
      BY <2>1 DEF Begin
    <3>2. Good(q, incidents, DOMAIN alerts, commands, processed + 1, << >>)
      BY <1>4, NothingToWrite DEF Good
    <3>3. NoIncident \in Nat
      BY DEF NoIncident
    <3>4. Good(q, incidents, DOMAIN alerts, commands, processed + 1,
               Append(<< >>, Add(a, NoIncident)))
      BY <1>1, <3>2, <3>3, PlaceGood
    <3>5. QED
      BY <3>1, <3>4
  <2>2. CASE a.sev # Info
    <3>1. PICK o \in Outcomes(incidents, a, processed + 1, clock) : todo' = Writes(o, a)
      BY <2>2 DEF Begin
    <3>2. QED
      BY <1>1, <1>3, <3>1, WritesGood
  <2>3. QED
    BY <2>1, <2>2
<1>6. StoreType'
  <2>1. todo' \in Seq(WriteType)
    BY <1>5 DEF Good
  <2>2. /\ DOMAIN incidents \subseteq 1..(processed + 1) /\ processed + 1 \in Nat
        /\ \A x \in DOMAIN alerts : IsRaised(x) => x.n <= processed + 1
    <3>1. /\ DOMAIN incidents \subseteq 1..processed
          /\ \A x \in DOMAIN alerts : x \in AlertType /\ (IsRaised(x) => x.n <= processed)
      BY DEF StoreInv, StoreType
    <3>2. \A x \in DOMAIN alerts : x.n \in Nat
      BY <3>1 DEF AlertType
    <3>3. \A n \in Nat : n <= processed => n <= processed + 1
      BY <1>4
    <3>4. QED
      BY <1>4, <3>1, <3>2, <3>3
  <2>3. QED
    BY <1>1, <2>1, <2>2 DEF StoreInv, StoreType
<1>7. PlanInv(~overlapped', incidents', DOMAIN alerts', processed', todo')
  BY <1>1, <1>2, <1>5, PlanWeaker DEF Good
<1>8. IsolateInv(DOMAIN alerts', commands', todo')
  BY <1>1, <1>5 DEF Good
<1>9. ConsoleInv'
  BY <1>1 DEF StoreInv, ConsoleInv
<1>10. /\ ~overlapped' => console' = Idle
       /\ ~overlapped' => RowsInv(incidents', alerts')
  BY <1>1 DEF StoreInv
<1>11. QED
  BY <1>6, <1>7, <1>8, <1>9, <1>10 DEF StoreInv

LEMMA StoreReadStep ==
  ASSUME StoreInv, NEW i \in DOMAIN incidents, NEW s \in Statuses, StoreRead(i, s)
  PROVE  StoreInv'
<1>1. /\ UNCHANGED <<incidents, alerts, commands, clock, processed, todo>>
      /\ console' = [step |-> "put", id |-> i, body |-> [incidents[i] EXCEPT !.status = s]]
      /\ overlapped' = (overlapped \/ todo # << >>)
  BY DEF StoreRead, ReadIncident, tables
<1>2. StoreType'
  BY <1>1 DEF StoreInv, StoreType
<1>3. ConsoleInv'
  <2> DEFINE inc == incidents[i]
             body == [inc EXCEPT !.status = s]
  <2>1. inc \in IncidentType /\ Finite(inc)
    BY DEF StoreInv, StoreType, Table
  <2>2. /\ body \in IncidentType /\ body.alert_ids = inc.alert_ids
        /\ body.tactics = inc.tactics /\ body.hosts = inc.hosts
    BY <2>1 DEF IncidentType
  <2>3. Finite(body) /\ Grows(inc, body)
    BY <2>1, <2>2 DEF Finite, Grows
  <2> HIDE DEF body
  <2>4. /\ console'.step = "put" /\ console'.id = i /\ console'.body = body
        /\ incidents'[console'.id] = inc /\ i \in DOMAIN incidents'
    BY <1>1 DEF body
  <2>5. QED
    BY <2>2, <2>3, <2>4 DEF ConsoleInv
<1>4. PlanInv(~overlapped', incidents', DOMAIN alerts', processed', todo')
  <2>1. ~overlapped' => ~overlapped
    BY <1>1
  <2>2. PlanInv(~overlapped, incidents, DOMAIN alerts, processed, todo)
    BY DEF StoreInv
  <2>3. PICK q : q <=> ~overlapped'
    OBVIOUS
  <2>4. PlanInv(q, incidents, DOMAIN alerts, processed, todo)
    BY <2>1, <2>2, <2>3, PlanWeaker
  <2>5. QED
    BY <1>1, <2>3, <2>4, PlanWeaker
<1>5. IsolateInv(DOMAIN alerts', commands', todo')
  BY <1>1 DEF StoreInv
<1>6. /\ ~overlapped' => todo' = << >>
      /\ ~overlapped' => RowsInv(incidents', alerts')
  BY <1>1 DEF StoreInv
<1>7. QED
  BY <1>2, <1>3, <1>4, <1>5, <1>6 DEF StoreInv

LEMMA StorePutStep ==
  ASSUME StoreInv, ConsolePut, UNCHANGED todo
  PROVE  StoreInv'
<1> DEFINE i == console.id
           body == console.body
           T == incidents
<1>1. /\ UNCHANGED <<alerts, commands, clock, processed, todo, overlapped>>
      /\ incidents' = [T EXCEPT ![i] = body]
      /\ console' \in {Idle, [step |-> "query", id |-> i, status |-> body.status]}
      /\ console.step = "put" /\ console # Idle
  BY DEF ConsolePut, Idle
<1>2. /\ i \in DOMAIN T /\ body \in IncidentType /\ Finite(body)
      /\ ~overlapped => Grows(T[i], body)
  BY <1>1 DEF StoreInv, ConsoleInv, Idle
<1>3. Table(T) /\ DOMAIN T \subseteq 1..processed /\ \A j \in DOMAIN T : Finite(T[j])
  BY DEF StoreInv, StoreType
<1>4. Over(T, incidents', i, body)
  BY <1>1, <1>2, <1>3 DEF Over, Table
<1>5. StoreType'
  <2>1. Table(incidents') /\ DOMAIN incidents' = DOMAIN T
    BY <1>1, <1>2, <1>3 DEF Table
  <2>2. \A j \in DOMAIN incidents' : Finite(incidents'[j])
    BY <1>1, <1>2, <1>3
  <2>3. QED
    BY <1>1, <1>3, <2>1, <2>2 DEF StoreInv, StoreType
<1>6. ConsoleInv'
  <2>1. body.status \in Statuses
    BY <1>2 DEF IncidentType
  <2>2. QED
    BY <1>1, <2>1 DEF ConsoleInv
<1>7. ~overlapped => todo = << >> /\ RowsInv(T, alerts)
  BY <1>1 DEF StoreInv
<1>8. ASSUME ~overlapped PROVE RowsInv(incidents', alerts)
  <2>1. PICK T2 : T2 = incidents'
    OBVIOUS
  <2>2. \A x : (InTable(T, x) => InTable(T2, x)) /\ (Borne(T, x) => Borne(T2, x))
    BY <1>2, <1>4, <1>8, <2>1, TableGrows
  <2>3. RowsInv(T2, alerts)
    BY <1>7, <1>8, <2>2 DEF RowsInv
  <2>4. QED
    BY <2>1, <2>3
<1>9. PlanInv(~overlapped', incidents', DOMAIN alerts', processed', todo')
  <2>1. CASE overlapped
    <3>1. PlanInv(~overlapped, T, DOMAIN alerts, processed, todo)
      BY DEF StoreInv
    <3>2. PICK T2 : T2 = incidents'
      OBVIOUS
    <3>3. PlanInv(~overlapped, T2, DOMAIN alerts, processed, todo)
      BY <2>1, <3>1, PlanUnsafe
    <3>4. QED
      BY <1>1, <3>2, <3>3
  <2>2. CASE ~overlapped
    BY <1>1, <1>7, <2>2, NothingToWrite
  <2>3. QED
    BY <2>1, <2>2
<1>10. IsolateInv(DOMAIN alerts', commands', todo')
  BY <1>1 DEF StoreInv
<1>11. QED
  BY <1>1, <1>5, <1>6, <1>7, <1>8, <1>9, <1>10 DEF StoreInv

LEMMA StoreQueryStep ==
  ASSUME StoreInv, ConsoleQuery, UNCHANGED todo
  PROVE  StoreInv'
<1>0. PICK found \in AlertResults(console.id) :
        console' = [step |-> "alerts", status |-> console.status, left |-> found]
  BY DEF ConsoleQuery
<1>1. /\ UNCHANGED <<incidents, alerts, commands, clock, processed, todo, overlapped>>
      /\ console.step = "query" /\ console # Idle
      /\ found \subseteq DOMAIN alerts
  BY DEF ConsoleQuery, tables, Idle, AlertResults, StoredUnder
<1>2. console.status \in Statuses
  BY <1>1 DEF StoreInv, ConsoleInv
<1>3. ConsoleInv'
  BY <1>0, <1>1, <1>2 DEF ConsoleInv
<1>4. StoreType'
  BY <1>1 DEF StoreInv, StoreType
<1>5. QED
  BY <1>1, <1>3, <1>4 DEF StoreInv

LEMMA StoreAlertStep ==
  ASSUME StoreInv, ConsoleAlert, UNCHANGED todo
  PROVE  StoreInv'
<1>1. /\ UNCHANGED <<incidents, commands, clock, processed, todo, overlapped>>
      /\ console.step = "alerts" /\ console # Idle
  BY DEF ConsoleAlert, history, Idle
<1>2. /\ console.status \in Statuses /\ console.left \subseteq DOMAIN alerts
      /\ console = [step |-> "alerts", status |-> console.status, left |-> console.left]
  BY <1>1 DEF StoreInv, ConsoleInv
<1>3. alerts \in [DOMAIN alerts -> RowType]
  BY DEF StoreInv, StoreType
<1>4. CASE console.left = {}
  <2>1. console' = Idle /\ alerts' = alerts
    BY <1>4 DEF ConsoleAlert
  <2>2. StoreType' /\ ConsoleInv'
    BY <1>1, <2>1 DEF StoreInv, StoreType, ConsoleInv
  <2>3. QED
    BY <1>1, <2>1, <2>2 DEF StoreInv
<1>5. CASE console.left # {}
  <2>1. PICK x \in console.left : /\ alerts' = [alerts EXCEPT ![x].status = console.status]
                                  /\ console' = [console EXCEPT !.left = @ \ {x}]
    BY <1>5 DEF ConsoleAlert
  <2>2. /\ DOMAIN alerts' = DOMAIN alerts /\ alerts' \in [DOMAIN alerts' -> RowType]
        /\ \A y \in DOMAIN alerts : alerts'[y].incident = alerts[y].incident
    BY <1>2, <1>3, <2>1 DEF RowType
  <2>3. ConsoleInv'
    <3>1. console' = [step |-> "alerts", status |-> console.status,
                      left |-> console.left \ {x}]
      BY <1>2, <2>1
    <3>2. QED
      BY <1>2, <2>2, <3>1 DEF ConsoleInv
  <2>4. StoreType'
    BY <1>1, <2>2 DEF StoreInv, StoreType
  <2>5. ASSUME ~overlapped PROVE RowsInv(incidents, alerts')
    <3>1. PICK A2 : A2 = alerts'
      OBVIOUS
    <3>2. RowsInv(incidents, alerts)
      BY <2>5 DEF StoreInv
    <3>3. RowsInv(incidents, A2)
      BY <2>2, <3>1, <3>2, SameRows
    <3>4. QED
      BY <3>1, <3>3
  <2>6. QED
    BY <1>1, <2>2, <2>3, <2>4, <2>5 DEF StoreInv
<1>6. QED
  BY <1>4, <1>5

LEMMA CrashStep ==
  ASSUME StoreInv, Crash
  PROVE  StoreInv'
<1>1. /\ UNCHANGED <<incidents, alerts, commands, clock, processed, overlapped>>
      /\ todo' = << >> /\ console' = Idle
  BY DEF Crash, ServerEnds, tables
<1>2. StoreType' /\ ConsoleInv'
  BY <1>1 DEF StoreInv, StoreType, ConsoleInv
<1>3. IsolateInv(DOMAIN alerts, commands, << >>)
  BY DEF StoreInv, IsolateInv
<1>4. PlanInv(~overlapped', incidents', DOMAIN alerts', processed', todo')
  BY <1>1, NothingToWrite
<1>5. QED
  BY <1>1, <1>2, <1>3, <1>4 DEF StoreInv

LEMMA StoreTickStep ==
  ASSUME StoreInv, StoreTick
  PROVE  StoreInv'
<1>1. /\ UNCHANGED <<incidents, alerts, commands, processed, todo, console, overlapped>>
      /\ clock' = clock + 1
  BY DEF StoreTick, Tick, tables, history
<1>2. StoreType' /\ ConsoleInv'
  BY <1>1 DEF StoreInv, StoreType, ConsoleInv
<1>3. QED
  BY <1>1, <1>2 DEF StoreInv

LEMMA StepStoreInv == StoreInv /\ [StoreNext]_storeVars => StoreInv'
<1> SUFFICES ASSUME StoreInv, [StoreNext]_storeVars PROVE StoreInv'
  OBVIOUS
<1>1. ASSUME NEW a \in AgentAlerts, Begin(a) PROVE StoreInv'
  BY <1>1, BeginStep
<1>2. CASE Write
  BY <1>2, WriteStep
<1>3. ASSUME NEW i \in DOMAIN incidents, NEW s \in Statuses, StoreRead(i, s) PROVE StoreInv'
  BY <1>3, StoreReadStep
<1>4. CASE StoreConsole
  BY <1>4, StorePutStep, StoreQueryStep, StoreAlertStep DEF StoreConsole
<1>5. CASE Crash
  BY <1>5, CrashStep
<1>6. CASE StoreTick
  BY <1>6, StoreTickStep
<1>7. CASE UNCHANGED storeVars
  BY <1>7 DEF StoreInv, StoreType, ConsoleInv, storeVars, vars, tables, history
<1>8. QED
  BY <1>1, <1>2, <1>3, <1>4, <1>5, <1>6, <1>7 DEF StoreNext

LEMMA InvariantStoreInv == StoreSpec => []StoreInv
BY InitStoreInv, StepStoreInv, PTL DEF StoreSpec

(* Between any two statements of add_alert, of a status change, and after  *)
(* a crash of the server between two of them, a stored alert is on the     *)
(* list of some incident, unless a status change and an add_alert were     *)
(* under way together.                                                     *)
THEOREM NothingIsForgotten == StoreSpec => []NothingForgotten
<1>1. StoreInv => NothingForgotten
  <2> SUFFICES ASSUME StoreInv, ~overlapped, NEW x \in DOMAIN alerts,
                      alerts[x].incident # NoIncident
               PROVE  \E i \in DOMAIN incidents : x \in Listed(i)
    BY DEF NothingForgotten
  <2>1. InTable(incidents, x)
    BY DEF StoreInv, RowsInv
  <2>2. QED
    BY <2>1 DEF InTable, Listed
<1>2. QED
  BY <1>1, InvariantStoreInv, PTL

(* Correlation alerts stay unique through crashes: whatever the point at   *)
(* which the server stopped, and however often the agent delivers again,   *)
(* no incident has two stored alerts of the same correlation rule, unless  *)
(* a status change and an add_alert were under way together.               *)
THEOREM RaisedOnceInSpiteOfCrashes == StoreSpec => []RaisedOnce
<1>1. StoreInv => RaisedOnce
  BY DEF StoreInv, RowsInv, RaisedOnce, IsRaised
<1>2. QED
  BY <1>1, InvariantStoreInv, PTL

(* The server never has queued more isolations of a host than there are    *)
(* stored correlation alerts of it: the alert is written first, whatever   *)
(* the console does, and a crash in between loses the isolation only.      *)
THEOREM IsolationsAreExplained == StoreSpec => []IsolationsExplained
<1>1. StoreInv => IsolationsExplained
  BY DEF StoreInv, IsolateInv, IsolationsExplained, Raised, IsRaised
<1>2. QED
  BY <1>1, InvariantStoreInv, PTL

-----------------------------------------------------------------------------
(* That the statements implement the one step.  What a list of writes does *)
(* is found from its steps; induction is over a set of numbers.            *)
LEMMA SetInduction ==
  ASSUME NEW S \in SUBSET Nat, 0 \in S, \A n \in S : n + 1 \in S
  PROVE  S = Nat
<1> SUFFICES ASSUME S # Nat PROVE FALSE
  OBVIOUS
<1> DEFINE R == OpToRel(<, Nat)
           T == Nat \ S
<1>1. PICK m \in T : \A n \in T : <<n, m>> \notin R
  <2>1. IsWellFoundedOn(R, Nat)
    BY NatLessThanWellFounded
  <2>2. T # {} /\ T \subseteq Nat
    OBVIOUS
  <2> HIDE DEF R, T
  <2>3. QED
    BY <2>1, <2>2, WFMin
<1>2. \A n \in Nat : <<n, m>> \in R <=> n < m
  <2>1. m \in Nat
    OBVIOUS
  <2>2. QED
    BY <2>1 DEF OpToRel
<1>3. m # 0
  OBVIOUS
<1>4. m - 1 \in Nat /\ m - 1 < m
  BY <1>3
<1>5. m - 1 \in S
  BY <1>1, <1>2, <1>4
<1>6. QED
  BY <1>4, <1>5

\* The tables after each of the first n writes of l.
Steps(g, t, l, n) ==
  /\ g = [k \in 0..n |-> g[k]] /\ g[0] = t
  /\ \A k \in 1..n : g[k] = Apply(g[k - 1], l[k])

LEMMA StepsRecur ==
  ASSUME NEW g, NEW t, NEW l, NEW n \in Nat
  PROVE  Steps(g, t, l, n) <=>
           g = [k \in 0..n |-> IF k = 0 THEN t ELSE Apply(g[k - 1], l[k])]
<1> DEFINE F == [k \in 0..n |-> IF k = 0 THEN t ELSE Apply(g[k - 1], l[k])]
<1>1. ASSUME g = F PROVE Steps(g, t, l, n)
  <2>1. DOMAIN g = 0..n /\ \A k \in 0..n : g[k] = IF k = 0 THEN t ELSE Apply(g[k - 1], l[k])
    BY <1>1
  <2>2. g = [k \in 0..n |-> g[k]]
    BY <1>1, <2>1, Zenon
  <2>3. g[0] = t
    BY <2>1
  <2>4. ASSUME NEW k \in 1..n PROVE g[k] = Apply(g[k - 1], l[k])
    <3>1. k \in 0..n /\ k # 0
      OBVIOUS
    <3>2. QED
      BY <2>1, <3>1, Zenon
  <2>5. QED
    BY <2>2, <2>3, <2>4 DEF Steps
<1>2. ASSUME Steps(g, t, l, n) PROVE g = F
  <2>1. ASSUME NEW k \in 0..n PROVE g[k] = IF k = 0 THEN t ELSE Apply(g[k - 1], l[k])
    <3>1. k # 0 => k \in 1..n
      OBVIOUS
    <3>2. QED
      BY <1>2, <3>1, Zenon DEF Steps
  <2>2. [k \in 0..n |-> g[k]] = F
    BY <2>1, Zenon
  <2>3. QED
    BY <1>2, <2>2, Zenon DEF Steps
<1>3. QED
  BY <1>1, <1>2

LEMMA StepsExist ==
  ASSUME NEW t, NEW l, NEW n \in Nat
  PROVE  \E g : Steps(g, t, l, n)
<1> DEFINE S == {m \in Nat : \E g : Steps(g, t, l, m)}
<1>1. 0 \in S
  <2> DEFINE g == [k \in 0..0 |-> t]
  <2>1. g = [k \in 0..0 |-> g[k]] /\ g[0] = t /\ 1..0 = {}
    OBVIOUS
  <2> HIDE DEF g
  <2>2. Steps(g, t, l, 0)
    BY <2>1 DEF Steps
  <2>3. QED
    BY <2>2
<1>2. ASSUME NEW m \in S PROVE m + 1 \in S
  <2>1. m \in Nat /\ m + 1 \in Nat
    OBVIOUS
  <2>2. PICK g : Steps(g, t, l, m)
    OBVIOUS
  <2>3. g[0] = t /\ \A k \in 1..m : g[k] = Apply(g[k - 1], l[k])
    BY <2>1, <2>2 DEF Steps
  <2> DEFINE h == [k \in 0..(m + 1) |-> IF k = m + 1 THEN Apply(g[m], l[m + 1]) ELSE g[k]]
  <2>4. /\ h = [k \in 0..(m + 1) |-> h[k]]
        /\ h[m + 1] = Apply(g[m], l[m + 1])
    BY <2>1
  <2>5. \A k \in 0..m : h[k] = g[k]
    BY <2>1
  <2> HIDE DEF h
  <2>6. h[0] = t
    BY <2>1, <2>3, <2>5
  <2>7. ASSUME NEW k \in 1..(m + 1) PROVE h[k] = Apply(h[k - 1], l[k])
    <3>1. CASE k = m + 1
      <4>1. k - 1 = m /\ m \in 0..m
        BY <2>1, <3>1
      <4>2. QED
        BY <2>4, <2>5, <3>1, <4>1
    <3>2. CASE k # m + 1
      <4>1. k \in 1..m /\ k \in 0..m /\ k - 1 \in 0..m
        BY <2>1, <3>2
      <4>2. QED
        BY <2>3, <2>5, <4>1
    <3>3. QED
      BY <3>1, <3>2
  <2>8. Steps(h, t, l, m + 1)
    BY <2>4, <2>6, <2>7 DEF Steps
  <2>9. QED
    BY <2>1, <2>8
<1>3. S = Nat
  <2>1. S \in SUBSET Nat
    OBVIOUS
  <2> HIDE DEF S
  <2>2. QED
    BY <1>1, <1>2, <2>1, SetInduction
<1>4. QED
  BY <1>3

\* There is one way to do so.
LEMMA StepsUnique ==
  ASSUME NEW t, NEW l, NEW n \in Nat, NEW g, Steps(g, t, l, n), NEW h, Steps(h, t, l, n)
  PROVE  g[n] = h[n]
<1> DEFINE S == {m \in Nat : m <= n => g[m] = h[m]}
<1>1. 0 \in S
  BY DEF Steps
<1>2. ASSUME NEW m \in S PROVE m + 1 \in S
  <2>1. SUFFICES ASSUME m + 1 <= n PROVE g[m + 1] = h[m + 1]
    OBVIOUS
  <2>2. m + 1 \in 1..n /\ (m + 1) - 1 = m /\ g[m] = h[m]
    BY <2>1
  <2>3. /\ g[m + 1] = Apply(g[(m + 1) - 1], l[m + 1])
        /\ h[m + 1] = Apply(h[(m + 1) - 1], l[m + 1])
    BY <2>2, Zenon DEF Steps
  <2>4. QED
    BY <2>2, <2>3
<1>3. S = Nat
  <2>1. S \in SUBSET Nat
    OBVIOUS
  <2> HIDE DEF S
  <2>2. QED
    BY <1>1, <1>2, <2>1, SetInduction
<1>4. QED
  BY <1>3

LEMMA ApplyAllIs ==
  ASSUME NEW t, NEW l, Len(l) \in Nat, NEW g, Steps(g, t, l, Len(l))
  PROVE  ApplyAll(t, l) = g[Len(l)]
<1> DEFINE F(h) == [k \in 0..Len(l) |-> IF k = 0 THEN t ELSE Apply(h[k - 1], l[k])]
           c == CHOOSE h : h = F(h)
<1>1. \A h : Steps(h, t, l, Len(l)) <=> h = F(h)
  BY StepsRecur
<1>2. g = F(g)
  BY <1>1
<1> HIDE DEF F
<1>3. c = F(c)
  BY <1>2
<1>4. Steps(c, t, l, Len(l))
  BY <1>1, <1>3
<1>5. ApplyAll(t, l) = c[Len(l)]
  BY DEF ApplyAll, F, c
<1> HIDE DEF c
<1>6. QED
  BY <1>4, <1>5, StepsUnique

LEMMA ApplyAllSteps ==
  ASSUME NEW t, NEW l, Len(l) \in Nat
  PROVE  \E g : Steps(g, t, l, Len(l)) /\ ApplyAll(t, l) = g[Len(l)]
BY StepsExist, ApplyAllIs

LEMMA ApplyNone == ASSUME NEW t PROVE ApplyAll(t, << >>) = t
<1>1. Len(<< >>) = 0 /\ 0 \in Nat
  OBVIOUS
<1>2. PICK g : Steps(g, t, << >>, 0) /\ ApplyAll(t, << >>) = g[0]
  BY <1>1, ApplyAllSteps
<1>3. QED
  BY <1>2 DEF Steps

LEMMA ApplyLast ==
  ASSUME NEW t, NEW S, NEW l \in Seq(S), NEW w \in S
  PROVE  ApplyAll(t, Append(l, w)) = Apply(ApplyAll(t, l), w)
<1> DEFINE m == Append(l, w)
           n == Len(l)
<1>1. /\ n \in Nat /\ Len(m) = n + 1 /\ m[n + 1] = w
      /\ \A k \in 1..n : m[k] = l[k]
  BY PrefixAppend
<1>2. PICK g : Steps(g, t, l, n) /\ ApplyAll(t, l) = g[n]
  BY <1>1, ApplyAllSteps
<1> HIDE DEF m, n
<1>3. g[0] = t /\ \A k \in 1..n : g[k] = Apply(g[k - 1], l[k])
  BY <1>2 DEF Steps
<1> DEFINE h == [k \in 0..(n + 1) |-> IF k = n + 1 THEN Apply(g[n], w) ELSE g[k]]
<1>4. /\ h = [k \in 0..(n + 1) |-> h[k]]
      /\ h[n + 1] = Apply(g[n], w)
  BY <1>1
<1>5. \A k \in 0..n : h[k] = g[k]
  BY <1>1
<1> HIDE DEF h
<1>6. h[0] = t
  BY <1>1, <1>3, <1>5
<1>7. ASSUME NEW k \in 1..(n + 1) PROVE h[k] = Apply(h[k - 1], m[k])
  <2>1. CASE k = n + 1
    <3>1. k - 1 = n /\ n \in 0..n
      BY <1>1, <2>1
    <3>2. QED
      BY <1>1, <1>4, <1>5, <2>1, <3>1
  <2>2. CASE k # n + 1
    <3>1. k \in 1..n /\ k \in 0..n /\ k - 1 \in 0..n
      BY <1>1, <2>2
    <3>2. QED
      BY <1>1, <1>3, <1>5, <3>1
  <2>3. QED
    BY <2>1, <2>2
<1>8. Steps(h, t, m, n + 1)
  BY <1>4, <1>6, <1>7 DEF Steps
<1>9. ApplyAll(t, m) = h[n + 1]
  BY <1>1, <1>8, ApplyAllIs
<1>10. QED
  BY <1>2, <1>4, <1>9 DEF m

LEMMA ApplyFirst ==
  ASSUME NEW t, NEW S, NEW l \in Seq(S), l # << >>
  PROVE  ApplyAll(t, l) = ApplyAll(Apply(t, l[1]), Tail(l))
<1> DEFINE m == Tail(l)
           n == Len(m)
<1>1. /\ n \in Nat /\ Len(l) = n + 1
      /\ \A k \in 1..n : m[k] = l[k + 1]
  <2>1. /\ Len(m) \in Nat /\ Len(l) \in Nat /\ Len(m) = Len(l) - 1
        /\ \A k \in 1..Len(m) : m[k] = l[k + 1]
    BY PrefixTail, HeadTailProperties, LenProperties
  <2>2. QED
    BY <2>1
<1>2. PICK g : Steps(g, Apply(t, l[1]), m, n) /\ ApplyAll(Apply(t, l[1]), m) = g[n]
  BY <1>1, ApplyAllSteps
<1> HIDE DEF m, n
<1>3. g[0] = Apply(t, l[1]) /\ \A k \in 1..n : g[k] = Apply(g[k - 1], m[k])
  BY <1>2 DEF Steps
<1> DEFINE h == [k \in 0..(n + 1) |-> IF k = 0 THEN t ELSE g[k - 1]]
<1>4. h = [k \in 0..(n + 1) |-> h[k]] /\ h[0] = t
  BY <1>1
<1>5. \A k \in 1..(n + 1) : h[k] = g[k - 1]
  BY <1>1
<1> HIDE DEF h
<1>6. ASSUME NEW k \in 1..(n + 1) PROVE h[k] = Apply(h[k - 1], l[k])
  <2>1. CASE k = 1
    <3>1. k - 1 = 0
      BY <2>1
    <3>2. QED
      BY <1>3, <1>4, <1>5, <2>1, <3>1
  <2>2. CASE k # 1
    <3> DEFINE j == k - 1
    <3>1. j \in 1..n /\ j \in 1..(n + 1) /\ j + 1 = k
      BY <1>1, <2>2
    <3>2. h[j] = g[j - 1] /\ h[k] = g[j]
      BY <1>5, <3>1
    <3>3. g[j] = Apply(g[j - 1], m[j]) /\ m[j] = l[k]
      BY <1>1, <1>3, <3>1
    <3>4. QED
      BY <3>2, <3>3
  <2>3. QED
    BY <2>1, <2>2
<1>7. Steps(h, t, l, n + 1)
  BY <1>4, <1>6 DEF Steps
<1>8. ApplyAll(t, l) = h[n + 1]
  BY <1>1, <1>7, ApplyAllIs
<1>9. h[n + 1] = g[n]
  <2>1. n + 1 \in 1..(n + 1) /\ (n + 1) - 1 = n
    BY <1>1
  <2>2. QED
    BY <1>5, <2>1
<1>10. QED
  BY <1>2, <1>8, <1>9 DEF m

-----------------------------------------------------------------------------
(* What the writes of an outcome do to the tables.                         *)
Tab(I, A, C) == [incidents |-> I, alerts |-> A, commands |-> C]

RelinkedAll(A, X, i) ==
  [y \in DOMAIN A |-> IF y \in X THEN [A[y] EXCEPT !.incident = i] ELSE A[y]]

Row(i) == [incident |-> i, status |-> "open"]

LEMMA TabFields ==
  ASSUME NEW I, NEW A, NEW C
  PROVE  /\ Tab(I, A, C).incidents = I /\ Tab(I, A, C).alerts = A /\ Tab(I, A, C).commands = C
         /\ \A E : [Tab(I, A, C) EXCEPT !.incidents = E] = Tab(E, A, C)
         /\ \A E : [Tab(I, A, C) EXCEPT !.alerts = E] = Tab(I, E, C)
         /\ \A E : [Tab(I, A, C) EXCEPT !.commands = E] = Tab(I, A, E)
BY DEF Tab

LEMMA ApplyLink ==
  ASSUME NEW I, NEW A, NEW C, NEW x, NEW i
  PROVE  Apply(Tab(I, A, C), Link(x, i)) = Tab(I, Relinked(A, x, i), C)
<1> DEFINE t == Tab(I, A, C)
           w == Link(x, i)
           E == [y \in DOMAIN t.alerts |-> IF y = w.alert
                   THEN [t.alerts[y] EXCEPT !.incident = w.id] ELSE t.alerts[y]]
<1>1. w.op = "link" /\ w.alert = x /\ w.id = i
  BY DEF Link
<1>2. t.incidents = I /\ t.alerts = A /\ t.commands = C
  BY TabFields
<1> HIDE DEF t, w
<1>3. Apply(t, w) = [t EXCEPT !.alerts = E]
  BY <1>1 DEF Apply
<1>4. E = Relinked(A, x, i)
  BY <1>1, <1>2 DEF Relinked
<1> HIDE DEF E
<1>5. QED
  BY <1>3, <1>4, TabFields DEF t, w

LEMMA ApplyPut ==
  ASSUME NEW I, NEW A, NEW C, NEW body, NEW i
  PROVE  Apply(Tab(I, A, C), Put(i, body)) = Tab(Inserted(I, i, body), A, C)
<1> DEFINE t == Tab(I, A, C)
           w == Put(i, body)
           E == [j \in DOMAIN t.incidents \cup {w.id} |->
                   IF j = w.id THEN w.body ELSE t.incidents[j]]
<1>1. w.op = "put" /\ w.body = body /\ w.id = i
  BY DEF Put
<1>2. t.incidents = I /\ t.alerts = A /\ t.commands = C
  BY TabFields
<1> HIDE DEF t, w
<1>3. Apply(t, w) = [t EXCEPT !.incidents = E]
  BY <1>1 DEF Apply
<1>4. E = Inserted(I, i, body)
  BY <1>1, <1>2 DEF Inserted
<1> HIDE DEF E
<1>5. QED
  BY <1>3, <1>4, TabFields DEF t, w

LEMMA ApplyAdd ==
  ASSUME NEW I, NEW A, NEW C, NEW x, NEW i
  PROVE  Apply(Tab(I, A, C), Add(x, i)) = Tab(I, Inserted(A, x, Row(i)), C)
<1> DEFINE t == Tab(I, A, C)
           w == Add(x, i)
           E == [y \in DOMAIN t.alerts \cup {w.alert} |->
                   IF y = w.alert THEN [incident |-> w.id, status |-> "open"]
                   ELSE t.alerts[y]]
<1>1. w.op = "add" /\ w.alert = x /\ w.id = i
  BY DEF Add
<1>2. t.incidents = I /\ t.alerts = A /\ t.commands = C
  BY TabFields
<1> HIDE DEF t, w
<1>3. Apply(t, w) = [t EXCEPT !.alerts = E]
  BY <1>1 DEF Apply
<1>4. E = Inserted(A, x, Row(i))
  BY <1>1, <1>2 DEF Inserted, Row
<1> HIDE DEF E
<1>5. QED
  BY <1>3, <1>4, TabFields DEF t, w

LEMMA ApplyIsolate ==
  ASSUME NEW I, NEW A, NEW C, NEW h
  PROVE  Apply(Tab(I, A, C), Isolate(h)) = Tab(I, A, [C EXCEPT ![h] = @ + 1])
<1> DEFINE t == Tab(I, A, C)
           w == Isolate(h)
           E == [t.commands EXCEPT ![w.host] = @ + 1]
<1>1. w.op = "isolate" /\ w.host = h
  BY DEF Isolate
<1>2. t.incidents = I /\ t.alerts = A /\ t.commands = C
  BY TabFields
<1> HIDE DEF t, w
<1>3. Apply(t, w) = [t EXCEPT !.commands = E]
  BY <1>1 DEF Apply
<1>4. E = [C EXCEPT ![h] = @ + 1]
  BY <1>1, <1>2
<1> HIDE DEF E
<1>5. [t EXCEPT !.commands = E] = Tab(I, A, E)
  BY TabFields DEF t
<1>6. QED
  BY <1>3, <1>4, <1>5 DEF t, w

\* The k-th of the links has moved the first k alerts of the list.
LEMMA ApplyLinks ==
  ASSUME NEW I, NEW A, A \in [DOMAIN A -> RowType], NEW C, NEW S, NEW s \in Seq(S), NEW i
  PROVE  ApplyAll(Tab(I, A, C), Links(s, i)) = Tab(I, RelinkedAll(A, ToSet(s), i), C)
<1> DEFINE n == Len(s)
           t == Tab(I, A, C)
           l == Links(s, i)
           X(k) == {s[j] : j \in 1..k}
           B(k) == RelinkedAll(A, X(k), i)
           g == [k \in 0..n |-> Tab(I, B(k), C)]
<1>1. n \in Nat /\ DOMAIN s = 1..n /\ ToSet(s) = X(n)
  BY LenProperties DEF ToSet
<1>2. Len(l) = n /\ \A k \in 1..n : l[k] = Link(s[k], i)
  BY <1>1 DEF Links
<1>3. g = [k \in 0..n |-> g[k]] /\ \A k \in 0..n : g[k] = Tab(I, B(k), C)
  OBVIOUS
<1> HIDE DEF g, l
<1>4. g[0] = t
  <2>1. X(0) = {} /\ 0 \in 0..n
    BY <1>1
  <2> HIDE DEF X
  <2>2. B(0) = A
    BY <2>1 DEF RelinkedAll
  <2>3. QED
    BY <1>3, <2>1, <2>2
<1>5. ASSUME NEW k \in 1..n PROVE g[k] = Apply(g[k - 1], l[k])
  <2>1. k \in 0..n /\ k - 1 \in 0..n /\ X(k) = X(k - 1) \cup {s[k]}
    BY <1>1
  <2> HIDE DEF X
  <2>2. B(k) = Relinked(B(k - 1), s[k], i)
    BY <2>1 DEF RelinkedAll, Relinked, RowType
  <2> HIDE DEF B
  <2>3. Apply(Tab(I, B(k - 1), C), Link(s[k], i)) = Tab(I, Relinked(B(k - 1), s[k], i), C)
    BY ApplyLink
  <2>4. QED
    BY <1>2, <1>3, <2>1, <2>2, <2>3
<1>6. Steps(g, t, l, n)
  BY <1>3, <1>4, <1>5 DEF Steps
<1>7. ApplyAll(t, l) = g[n]
  BY <1>1, <1>2, <1>6, ApplyAllIs
<1>8. n \in 0..n
  BY <1>1
<1>9. QED
  BY <1>1, <1>3, <1>7, <1>8 DEF l

\* The tables after the merge.
MergedRows(I, o) ==
  IF o.other = NoIncident THEN I ELSE Inserted(I, o.other, MergedAway(I[o.other], o.id))
MovedRows(I, A, o) ==
  IF o.other = NoIncident THEN A ELSE RelinkedAll(A, ToSet(I[o.other].alert_ids), o.id)

LEMMA ApplyMerging ==
  ASSUME StoreInv, NEW o, o.id \in Nat, o.other # NoIncident => o.other \in DOMAIN incidents
  PROVE  /\ ApplyAll(Tables, Merging(o)) =
              Tab(MergedRows(incidents, o), MovedRows(incidents, alerts, o), commands)
<1>1. Tables = Tab(incidents, alerts, commands) /\ alerts \in [DOMAIN alerts -> RowType]
  BY DEF Tables, Tab, StoreInv, StoreType
<1>2. CASE o.other = NoIncident
  BY <1>1, <1>2, ApplyNone DEF Merging, MergedRows, MovedRows
<1>3. CASE o.other # NoIncident
  <2> DEFINE inc == incidents[o.other]
             s == inc.alert_ids
             l == Links(s, o.id)
             w == Put(o.other, MergedAway(inc, o.id))
  <2>1. /\ inc \in IncidentType /\ s \in Seq(AlertType)
        /\ o.other \in Nat
    BY <1>3, IncidentFields DEF StoreInv, StoreType, Table
  <2>2. l \in Seq(WriteType)
    <3>1. Len(s) \in Nat /\ DOMAIN s = 1..Len(s) /\ \A k \in 1..Len(s) : s[k] \in AlertType
      BY <2>1, LenProperties, ElementOfSeq
    <3>2. \A k \in 1..Len(s) : Link(s[k], o.id) \in WriteType
      BY <3>1, WriteIsTyped
    <3> HIDE DEF s
    <3>3. l = [k \in 1..Len(s) |-> Link(s[k], o.id)]
      BY <3>1 DEF Links
    <3>4. QED
      BY <3>1, <3>2, <3>3
  <2>3. w \in WriteType
    <3>1. MergedAway(inc, o.id) \in IncidentType
      BY <2>1 DEF MergedAway, IncidentType, Statuses
    <3>2. QED
      BY <2>1, <3>1, WriteIsTyped
  <2>4. ApplyAll(Tables, l) = Tab(incidents, RelinkedAll(alerts, ToSet(s), o.id), commands)
    BY <1>1, <2>1, ApplyLinks
  <2>5. Merging(o) = Append(l, w)
    BY <1>3 DEF Merging
  <2> HIDE DEF l, w, s, inc
  <2>6. ApplyAll(Tables, Merging(o)) = Apply(ApplyAll(Tables, l), w)
    BY <2>2, <2>3, <2>5, ApplyLast
  <2>7. QED
    BY <1>3, <2>4, <2>6, ApplyPut DEF MergedRows, MovedRows, w, inc, s
<1>4. QED
  BY <1>2, <1>3

LEMMA PutTwice ==
  ASSUME NEW I, NEW i, NEW b, NEW c
  PROVE  Inserted(Inserted(I, i, b), i, c) = Inserted(I, i, c)
BY DEF Inserted

LEMMA ApplyTarget ==
  ASSUME NEW t, NEW I, NEW A, NEW C, NEW o, NEW a,
         NEW l \in Seq(WriteType), ApplyAll(t, l) = Tab(I, A, C),
         Put(o.id, o.body) \in WriteType, Put(o.id, o.final) \in WriteType,
         Add(a, o.id) \in WriteType,
         o.extra = << >> => o.final = o.body
  PROVE  ApplyAll(t, TargetWrites(l, o, a)) =
           Tab(Inserted(I, o.id, o.final), Inserted(A, a, Row(o.id)), C)
<1> DEFINE l1 == Append(l, Put(o.id, o.body))
           l2 == IF o.extra = << >> THEN l1 ELSE Append(l1, Put(o.id, o.final))
<1>1. l1 \in Seq(WriteType) /\ Append(l1, Put(o.id, o.final)) \in Seq(WriteType)
  BY AppendProperties
<1>2. ApplyAll(t, l1) = Tab(Inserted(I, o.id, o.body), A, C)
  BY ApplyLast, ApplyPut
<1>3. TargetWrites(l, o, a) = Append(l2, Add(a, o.id))
  BY DEF TargetWrites
<1> HIDE DEF l1
<1>4. l2 \in Seq(WriteType) /\ ApplyAll(t, l2) = Tab(Inserted(I, o.id, o.final), A, C)
  <2>1. CASE o.extra = << >>
    BY <1>1, <1>2, <2>1
  <2>2. CASE o.extra # << >>
    <3>1. ApplyAll(t, Append(l1, Put(o.id, o.final))) =
            Tab(Inserted(Inserted(I, o.id, o.body), o.id, o.final), A, C)
      BY <1>1, <1>2, ApplyLast, ApplyPut
    <3>2. QED
      BY <1>1, <2>2, <3>1, PutTwice
  <2>3. QED
    BY <2>1, <2>2
<1> HIDE DEF l2
<1>5. QED
  BY <1>3, <1>4, ApplyLast, ApplyAdd


InsertedAll(A, X, row) == [y \in DOMAIN A \cup X |-> IF y \in X THEN row ELSE A[y]]

With(X, x) == X \cup {x}

LEMMA InsertOne ==
  ASSUME NEW A, NEW X, NEW x, NEW row
  PROVE  /\ Inserted(A, x, row) = InsertedAll(A, With({}, x), row)
         /\ Inserted(InsertedAll(A, X, row), x, row) = InsertedAll(A, With(X, x), row)
BY DEF Inserted, InsertedAll, With

LEMMA PlacedIs ==
  ASSUME StoreInv, NEW o, o.other # NoIncident => o.other \in DOMAIN incidents /\ o.other # o.id,
         o.id # NoIncident
  PROVE  Placed(o) = Inserted(MergedRows(incidents, o), o.id, o.final)
<1> DEFINE I == incidents
<1>1. NoIncident \notin DOMAIN I
  BY DEF StoreInv, StoreType, NoIncident
<1>2. CASE o.other = NoIncident
  <2>1. \A i \in DOMAIN I \cup {o.id} : i # o.other
    BY <1>1, <1>2
  <2>2. QED
    BY <1>2, <2>1 DEF Placed, MergedRows, Inserted
<1>3. CASE o.other # NoIncident
  <2>1. DOMAIN I \cup {o.other} = DOMAIN I
    BY <1>3
  <2>2. QED
    BY <1>3, <2>1 DEF Placed, MergedRows, Inserted
<1>4. QED
  BY <1>2, <1>3

LEMMA StoredIs ==
  ASSUME NEW o, NEW a
  PROVE  Stored(o, a) =
           InsertedAll(MovedRows(incidents, alerts, o), Added(o, a), Row(o.id))
<1>1. CASE o.other = NoIncident
  BY <1>1 DEF Stored, InsertedAll, MovedRows, Repointed, Row
<1>2. CASE o.other # NoIncident
  BY <1>2 DEF Stored, InsertedAll, MovedRows, Repointed, Row, RelinkedAll
<1>3. QED
  BY <1>1, <1>2

\* The same of the alert and of a correlation alert, the rows together.
LEMMA TargetRows ==
  ASSUME NEW t, NEW I, NEW A, NEW C, NEW o, NEW a,
         NEW l \in Seq(WriteType), ApplyAll(t, l) = Tab(I, A, C),
         Put(o.id, o.body) \in WriteType, Put(o.id, o.final) \in WriteType,
         Add(a, o.id) \in WriteType,
         o.extra = << >> => o.final = o.body,
         NEW J, J = Inserted(I, o.id, o.final)
  PROVE  ApplyAll(t, TargetWrites(l, o, a)) = Tab(J, InsertedAll(A, With({}, a), Row(o.id)), C)
BY ApplyTarget, InsertOne

Commanded(C, h) == IF AutoIsolate THEN [C EXCEPT ![h] = @ + 1] ELSE C

RaiseList(l, x, i, h) ==
  IF AutoIsolate THEN Append(Append(l, Add(x, i)), Isolate(h)) ELSE Append(l, Add(x, i))

LEMMA RaiseRows ==
  ASSUME NEW t, NEW I, NEW A, NEW X, NEW C, NEW i \in Nat, NEW h \in Hosts, NEW x \in AlertType,
         NEW l \in Seq(WriteType), ApplyAll(t, l) = Tab(I, InsertedAll(A, X, Row(i)), C)
  PROVE  ApplyAll(t, RaiseList(l, x, i, h)) =
           Tab(I, InsertedAll(A, With(X, x), Row(i)), Commanded(C, h))
<1> DEFINE B == InsertedAll(A, X, Row(i))
           B2 == InsertedAll(A, With(X, x), Row(i))
           l1 == Append(l, Add(x, i))
           l2 == Append(l1, Isolate(h))
           C2 == [C EXCEPT ![h] = @ + 1]
<1>1. Inserted(B, x, Row(i)) = B2
  BY InsertOne
<1>2. Add(x, i) \in WriteType /\ Isolate(h) \in WriteType
  BY WriteIsTyped
<1>3. l1 \in Seq(WriteType)
  BY <1>2, AppendProperties
<1> HIDE DEF B, B2
<1>4. ApplyAll(t, l1) = Tab(I, B2, C)
  BY <1>1, <1>2, ApplyLast, ApplyAdd DEF B
<1> HIDE DEF l1
<1>5. ApplyAll(t, l2) = Apply(Tab(I, B2, C), Isolate(h))
  BY <1>2, <1>3, <1>4, ApplyLast
<1>6. ApplyAll(t, l2) = Tab(I, B2, C2)
  BY <1>5, ApplyIsolate
<1>7. RaiseList(l, x, i, h) = IF AutoIsolate THEN l2 ELSE l1
  BY DEF RaiseList, l1
<1> HIDE DEF l2, C2
<1>8. QED
  BY <1>4, <1>6, <1>7 DEF Commanded, B2, C2

\* The writes of an outcome do what the one step of Correlation does.
LEMMA OutcomeIsPlaced ==
  ASSUME StoreInv, todo = << >>, NEW a \in AlertType, ~IsRaised(a),
         NEW o \in Outcomes(incidents, a, processed + 1, clock)
  PROVE  ApplyAll(Tables, Writes(o, a)) = Tab(Placed(o), Stored(o, a), Isolations(o, a))
<1> DEFINE I == incidents
           A == alerts
           C == commands
           p == processed
<1>1. /\ Table(I) /\ DOMAIN I \subseteq 1..p /\ p \in Nat /\ clock \in Nat
      /\ \A i \in DOMAIN I : Finite(I[i])
      /\ \A y \in DOMAIN A : IsRaised(y) => y.n <= p
      /\ DOMAIN A \subseteq AlertType /\ (FALSE => RowsInv(I, A))
      /\ IsolateInv(DOMAIN A, C, << >>) /\ C \in [Hosts -> Nat]
  BY DEF StoreInv, StoreType
<1>2. Written(FALSE, I, DOMAIN A, p, a, o) /\ Stating(I, a, p + 1, o)
  BY <1>1, OutcomeWritten
<1>3. /\ o.id \in Nat /\ o.id # NoIncident /\ o.body \in IncidentType /\ o.final \in IncidentType
      /\ o.other # NoIncident => o.other \in DOMAIN I /\ o.other # o.id
      /\ a.host \in Hosts
  BY <1>2, AlertFields DEF Written
<1>4. /\ Put(o.id, o.body) \in WriteType /\ Put(o.id, o.final) \in WriteType
      /\ Add(a, o.id) \in WriteType /\ Isolate(a.host) \in WriteType
      /\ \A x \in AlertType : Add(x, o.id) \in WriteType
  BY <1>3, WriteIsTyped
<1>5. o.extra = << >> => o.final = o.body
  <2>1. o.body.alert_ids \in Seq(AlertType)
    BY <1>3, IncidentFields
  <2>2. o.body.alert_ids \o << >> = o.body.alert_ids
    BY <2>1, ConcatEmptySeq
  <2>3. o.final = [o.body EXCEPT !.alert_ids = @ \o o.extra]
    BY <1>2 DEF Stating
  <2>4. QED
    BY <1>3, <2>2, <2>3 DEF IncidentType
<1>6. PICK i \in Nat, h \in Hosts : i = o.id /\ h = a.host
  BY <1>3
<1> DEFINE l == Merging(o)
           t == TargetWrites(l, o, a)
           J == Placed(o)
           M == MovedRows(I, A, o)
           X == With({}, a)
<1>7. l \in Seq(WriteType)
  <2>1. Good(FALSE, I, DOMAIN A, C, p + 1, l)
    BY <1>1, <1>2, MergeGood DEF Merging
  <2>2. QED
    BY <2>1 DEF Good
<1>8. ApplyAll(Tables, l) = Tab(MergedRows(I, o), M, C)
  BY <1>3, ApplyMerging
<1>9. J = Inserted(MergedRows(I, o), o.id, o.final)
  BY <1>3, PlacedIs
<1> HIDE DEF l, M, J
<1>10. t \in Seq(WriteType)
  BY <1>4, <1>7, BodiesFirst
<1>11. ApplyAll(Tables, t) = Tab(J, InsertedAll(M, X, Row(i)), C)
  BY <1>4, <1>5, <1>6, <1>7, <1>8, <1>9, TargetRows
<1> HIDE DEF t, X
<1>12. Stored(o, a) = InsertedAll(M, Added(o, a), Row(i))
  BY <1>6, StoredIs DEF M
<1>13. \A m, x : RaiseWrites(m, x, o, a) = RaiseList(m, x, i, h)
  BY <1>6 DEF RaiseWrites, RaiseList
<1>14. CASE o.extra = << >>
  <2>1. Writes(o, a) = t
    BY <1>4, <1>7, <1>14, WritesNone DEF t, l
  <2>2. Added(o, a) = X
    BY <1>14 DEF Added, ToSet, With, X
  <2>3. Isolations(o, a) = C
    <3>1. Len(o.extra) = 0 /\ \A g \in Hosts : C[g] + 0 = C[g]
      BY <1>1, <1>14
    <3>2. QED
      BY <1>1, <3>1 DEF Isolations
  <2>4. QED
    BY <1>11, <1>12, <2>1, <2>2, <2>3 DEF J
<1>15. ASSUME NEW x \in AlertType, o.extra = <<x>>
       PROVE  ApplyAll(Tables, Writes(o, a)) = Tab(J, Stored(o, a), Isolations(o, a))
  <2>1. Writes(o, a) = RaiseList(t, x, i, h)
    BY <1>4, <1>7, <1>13, <1>15, WritesOne DEF t, l
  <2>2. ApplyAll(Tables, RaiseList(t, x, i, h)) =
          Tab(J, InsertedAll(M, With(X, x), Row(i)), Commanded(C, h))
    BY <1>10, <1>11, RaiseRows
  <2>3. Added(o, a) = With(X, x)
    BY <1>15 DEF Added, ToSet, With, X
  <2>4. Isolations(o, a) = Commanded(C, h)
    <3>1. Len(o.extra) = 1
      BY <1>15
    <3>2. QED
      BY <1>1, <1>6, <3>1 DEF Isolations, Commanded
  <2>5. QED
    BY <1>12, <2>1, <2>2, <2>3, <2>4
<1>16. ASSUME NEW x \in AlertType, NEW y \in AlertType, o.extra = <<x, y>>
       PROVE  ApplyAll(Tables, Writes(o, a)) = Tab(J, Stored(o, a), Isolations(o, a))
  <2> DEFINE u == RaiseList(t, x, i, h)
             C2 == Commanded(C, h)
             Y == With(X, x)
  <2>1. Writes(o, a) = RaiseList(u, y, i, h)
    BY <1>4, <1>7, <1>13, <1>16, WritesTwo DEF t, l
  <2>2. u \in Seq(WriteType)
    BY <1>4, <1>10, <1>13, MoreLast
  <2>3. ApplyAll(Tables, u) = Tab(J, InsertedAll(M, Y, Row(i)), C2)
    BY <1>10, <1>11, RaiseRows
  <2>4. Isolations(o, a) = Commanded(C2, h)
    <3>1. Len(o.extra) = 2
      BY <1>16
    <3>2. QED
      BY <1>1, <1>6, <3>1 DEF Isolations, Commanded
  <2>5. Added(o, a) = With(Y, y)
    BY <1>16 DEF Added, ToSet, With, X
  <2> HIDE DEF u, C2, Y
  <2>6. ApplyAll(Tables, RaiseList(u, y, i, h)) =
          Tab(J, InsertedAll(M, With(Y, y), Row(i)), Commanded(C2, h))
    BY <2>2, <2>3, RaiseRows
  <2>7. QED
    BY <1>12, <2>1, <2>4, <2>5, <2>6
<1>17. QED
  BY <1>2, <1>14, <1>15, <1>16 DEF Stating, J

-----------------------------------------------------------------------------
(* The refinement.  Correlation decides by the same operators, on what the *)
(* tables settle to; between two alerts that is the tables themselves.     *)
LEMMA SettledIdle ==
  ASSUME todo = << >>
  PROVE  /\ Settled.incidents = incidents
         /\ Settled.alerts = alerts
         /\ Settled.commands = commands
BY ApplyNone DEF Settled, Tables

LEMMA SameEffects ==
  ASSUME todo = << >>, NEW o, NEW a
  PROVE  /\ Atomic!Placed(o) = Placed(o)
         /\ Atomic!Stored(o, a) = Stored(o, a)
         /\ Atomic!Isolations(o, a) = Isolations(o, a)
<1>1. Atomic!Placed(o) = Placed(o)
  BY SettledIdle DEF Atomic!Placed, Placed, Atomic!MergedAway, MergedAway
<1>2. Atomic!Added(o, a) = Added(o, a)
  BY DEF Atomic!Added, Added, Atomic!ToSet, ToSet
<1>3. Atomic!Repointed(o) = Repointed(o)
  BY SettledIdle DEF Atomic!Repointed, Repointed, Atomic!NoIncident, NoIncident,
                      Atomic!ToSet, ToSet
<1>4. Atomic!Stored(o, a) = Stored(o, a)
  BY SettledIdle, <1>2, <1>3 DEF Atomic!Stored, Stored
<1>5. Atomic!Isolations(o, a) = Isolations(o, a)
  BY SettledIdle DEF Atomic!Isolations, Isolations
<1>6. QED
  BY <1>1, <1>4, <1>5

LEMMA InitIsAtomic == StoreInit => Atomic!Init
<1> SUFFICES ASSUME StoreInit PROVE Atomic!Init
  OBVIOUS
<1>1. Init /\ todo = << >>
  BY DEF StoreInit
<1>2. QED
  BY <1>1, SettledIdle DEF Init, Atomic!Init, Idle, Atomic!Idle

LEMMA BeginIsAtomic ==
  ASSUME StoreInv, NEW a \in AgentAlerts, Begin(a)
  PROVE  Atomic!AddAlert(a) \/ Atomic!AddInfoAlert(a)
<1>1. /\ todo = << >> /\ Arrive(a)
      /\ UNCHANGED <<incidents, alerts, commands>>
      /\ a \in AlertType /\ ~IsRaised(a)
  BY AgentAlertsAssumption DEF Begin, tables, IsRaised
<1>2. Atomic!Arrive(a)
  BY <1>1, SettledIdle DEF Arrive, Atomic!Arrive, Idle, Atomic!Idle
<1>3. Tables' = Tables /\ Settled' = ApplyAll(Tables, todo')
  BY <1>1 DEF Tables, Settled
<1>4. CASE a.sev = Info
  <2> DEFINE w == Add(a, NoIncident)
  <2>1. todo' = <<w>>
    BY <1>4 DEF Begin
  <2>2. w \in WriteType /\ << >> \in Seq(WriteType) /\ Append(<< >>, w) = <<w>>
    BY <1>1, WriteIsTyped DEF NoIncident
  <2> HIDE DEF w
  <2>3. ApplyAll(Tables, <<w>>) = Apply(Tables, w)
    <3>1. ApplyAll(Tables, Append(<< >>, w)) = Apply(ApplyAll(Tables, << >>), w)
      BY <2>2, ApplyLast
    <3>2. QED
      BY <2>2, <3>1, ApplyNone
  <2>4. Tables = Tab(incidents, alerts, commands)
    BY DEF Tables, Tab
  <2>5. Settled' = Tab(incidents, Inserted(alerts, a, Row(NoIncident)), commands)
    BY <1>3, <2>1, <2>3, <2>4, ApplyAdd DEF w
  <2>6. /\ Settled'.incidents = incidents /\ Settled'.commands = commands
        /\ Settled'.alerts = [x \in DOMAIN alerts \cup {a} |->
             IF x = a THEN [incident |-> NoIncident, status |-> "open"] ELSE alerts[x]]
    BY <2>5, TabFields DEF Inserted, Row
  <2>7. Atomic!AddInfoAlert(a)
    BY <1>1, <1>2, <1>4, <2>6, SettledIdle
       DEF Atomic!AddInfoAlert, Atomic!Info, Info, Atomic!NoIncident, NoIncident
  <2>8. QED
    BY <2>7
<1>5. CASE a.sev # Info
  <2>1. PICK o \in Outcomes(incidents, a, processed + 1, clock) : todo' = Writes(o, a)
    BY <1>5 DEF Begin
  <2>2. Settled' = Tab(Placed(o), Stored(o, a), Isolations(o, a))
    BY <1>1, <1>3, <2>1, OutcomeIsPlaced
  <2>3. /\ Settled'.incidents = Placed(o) /\ Settled'.alerts = Stored(o, a)
        /\ Settled'.commands = Isolations(o, a)
    BY <2>2, TabFields
  <2>4. o \in Atomic!Outcomes(Settled.incidents, a, processed + 1, clock)
    BY <1>1, SettledIdle, SameOutcomes
  <2>5. a.sev # Atomic!Info
    BY <1>5 DEF Atomic!Info, Info
  <2>6. Atomic!AddAlert(a)
    BY <1>1, <1>2, <2>3, <2>4, <2>5, SameEffects DEF Atomic!AddAlert
  <2>7. QED
    BY <2>6
<1>6. QED
  BY <1>4, <1>5

\* A write that is issued leaves what the tables settle to as it is.
LEMMA WriteIsStutter ==
  ASSUME StoreInv, Write
  PROVE  Settled' = Settled
<1>1. todo \in Seq(WriteType) /\ todo # << >> /\ todo' = Tail(todo)
  BY DEF StoreInv, StoreType, Write
<1>2. todo[1] = Head(todo)
  BY <1>1, PrefixTail
<1>3. Tables' = Apply(Tables, Head(todo))
  <2> DEFINE w == Head(todo)
  <2>1. w \in WriteType
    BY <1>1, <1>2, PrefixTail
  <2>2. Tables = Tab(incidents, alerts, commands) /\ Tables' = Tab(incidents', alerts', commands')
    BY DEF Tables, Tab
  <2>3. CASE w.op = "link"
    <3>1. w = Link(w.alert, w.id)
      BY <2>1, <2>3 DEF WriteType, Link
    <3>2. Apply(Tables, w) = Tab(incidents, Relinked(alerts, w.alert, w.id), commands)
      BY <2>2, <3>1, ApplyLink
    <3>3. QED
      BY <2>2, <2>3, <3>2, WriteLink
  <2>4. CASE w.op = "put"
    <3>1. w = Put(w.id, w.body)
      BY <2>1, <2>4 DEF WriteType, Put
    <3>2. Apply(Tables, w) = Tab(Inserted(incidents, w.id, w.body), alerts, commands)
      BY <2>2, <3>1, ApplyPut
    <3>3. QED
      BY <2>2, <2>4, <3>2, WritePut
  <2>5. CASE w.op = "add"
    <3>1. w = Add(w.alert, w.id)
      BY <2>1, <2>5 DEF WriteType, Add
    <3>2. Apply(Tables, w) = Tab(incidents, Inserted(alerts, w.alert, Row(w.id)), commands)
      BY <2>2, <3>1, ApplyAdd
    <3>3. QED
      BY <2>2, <2>5, <3>2, WriteAdd DEF Row
  <2>6. CASE w.op = "isolate"
    <3>1. w = Isolate(w.host)
      BY <2>1, <2>6 DEF WriteType, Isolate
    <3>2. Apply(Tables, w) = Tab(incidents, alerts, [commands EXCEPT ![w.host] = @ + 1])
      BY <2>2, <3>1, ApplyIsolate
    <3>3. QED
      BY <2>2, <2>6, <3>2, WriteIsolate
  <2>7. QED
    BY <2>1, <2>3, <2>4, <2>5, <2>6, WriteFields
<1>4. QED
  BY <1>1, <1>2, <1>3, ApplyFirst DEF Settled

HistoryInv == crashes \in Nat /\ overlapped \in BOOLEAN

LEMMA InitHistoryInv == StoreInit => HistoryInv
<1> SUFFICES ASSUME StoreInit PROVE HistoryInv
  OBVIOUS
<1>1. crashes = 0 /\ ~overlapped /\ overlapped \in BOOLEAN
  BY Zenon DEF StoreInit, Init
<1>2. crashes \in Nat
  BY <1>1
<1>3. QED
  BY <1>1, <1>2, Zenon DEF HistoryInv

LEMMA StepHistoryInv == HistoryInv /\ [StoreNext]_storeVars => HistoryInv'
<1> SUFFICES ASSUME HistoryInv, [StoreNext]_storeVars PROVE HistoryInv'
  OBVIOUS
<1>1. ASSUME NEW a \in AgentAlerts, Begin(a)
      PROVE  crashes' = crashes /\ overlapped' \in BOOLEAN
  BY <1>1 DEF Begin, Arrive
<1>2. ASSUME NEW i \in DOMAIN incidents, NEW s \in Statuses, StoreRead(i, s)
      PROVE  crashes' = crashes /\ overlapped' \in BOOLEAN
  BY <1>2 DEF StoreRead, ReadIncident
<1>3. CASE StoreConsole
  BY <1>3 DEF StoreConsole, ConsolePut, ConsoleQuery, ConsoleAlert, history, HistoryInv
<1>4. CASE Crash
  <2>1. crashes' = crashes + 1 /\ overlapped' = overlapped
    BY <1>4 DEF Crash, ServerEnds
  <2>2. crashes \in Nat
    BY Zenon DEF HistoryInv
  <2>3. crashes + 1 \in Nat
    BY <2>2
  <2>4. QED
    BY <2>1, <2>3, Zenon DEF HistoryInv
<1>5. CASE Write \/ StoreTick \/ UNCHANGED storeVars
  BY <1>5 DEF Write, StoreTick, Tick, storeVars, vars, history, HistoryInv
<1>6. QED
  BY <1>1, <1>2, <1>3, <1>4, <1>5 DEF StoreNext, HistoryInv

\* A status change that no add_alert overlaps is made on settled tables.
LEMMA ConsoleIsAtomic ==
  ASSUME StoreInv, StoreConsole, ~overlapped'
  PROVE  Atomic!Next
<1>1. console # Idle /\ UNCHANGED <<overlapped, todo>>
  BY DEF StoreConsole, ConsolePut, ConsoleQuery, ConsoleAlert, Idle, history
<1>2. todo = << >> /\ todo' = << >>
  BY <1>1 DEF StoreInv
<1>3. /\ Settled.incidents = incidents /\ Settled.alerts = alerts /\ Settled.commands = commands
  BY <1>2, SettledIdle
<1>4. /\ Settled'.incidents = incidents' /\ Settled'.alerts = alerts'
      /\ Settled'.commands = commands'
  <2>1. Settled' = Tables'
    BY <1>2, ApplyNone DEF Settled
  <2>2. QED
    BY <2>1 DEF Tables
<1>5. \A i : Atomic!StoredUnder(i) = StoredUnder(i)
  BY <1>3 DEF Atomic!StoredUnder, StoredUnder
<1>6. CASE ConsolePut
  <2>1. Atomic!ConsolePut
    BY <1>3, <1>4, <1>6 DEF ConsolePut, Atomic!ConsolePut, Idle, Atomic!Idle
  <2>2. QED
    BY <2>1 DEF Atomic!Next
<1>7. CASE ConsoleQuery
  <2>1. Atomic!AlertResults(console.id) = AlertResults(console.id)
    BY <1>5 DEF Atomic!AlertResults, AlertResults, Cardinality, Atomic!Cardinality
  <2>2. Atomic!ConsoleQuery
    BY <1>3, <1>4, <1>5, <1>7, <2>1 DEF ConsoleQuery, Atomic!ConsoleQuery, tables, Atomic!tables
  <2>3. QED
    BY <2>2 DEF Atomic!Next
<1>8. CASE ConsoleAlert
  <2>1. Atomic!ConsoleAlert
    BY <1>3, <1>4, <1>8
       DEF ConsoleAlert, Atomic!ConsoleAlert, Idle, Atomic!Idle, history, Atomic!history
  <2>2. QED
    BY <2>1 DEF Atomic!Next
<1>9. QED
  BY <1>6, <1>7, <1>8 DEF StoreConsole

LEMMA ReadIsAtomic ==
  ASSUME HistoryInv, NEW i \in DOMAIN incidents, NEW s \in Statuses, StoreRead(i, s), ~overlapped'
  PROVE  Atomic!Next
<1>1. /\ todo = << >> /\ todo' = << >> /\ overlapped' = overlapped
      /\ ReadIncident(i, s) /\ UNCHANGED <<incidents, alerts, commands>>
  BY DEF StoreRead, ReadIncident, tables, HistoryInv
<1>2. Settled' = Settled
  BY <1>1 DEF Settled, Tables
<1>3. Settled.incidents = incidents
  BY <1>1, SettledIdle
<1>4. Atomic!ConsoleRead(i, s)
  BY <1>1, <1>2, <1>3 DEF ReadIncident, Edit, tables, Idle, Atomic!ConsoleRead,
     Atomic!ReadIncident, Atomic!Edit, Atomic!tables, Atomic!Idle
<1>5. QED
  BY <1>3, <1>4 DEF Atomic!Next, Statuses, Atomic!Statuses

LEMMA StepIsAtomic ==
  StoreInv /\ HistoryInv /\ [StoreNext]_storeVars
    => [~overlapped' /\ crashes' = 0 => Atomic!Next]_(Atomic!vars)
<1> SUFFICES ASSUME StoreInv, HistoryInv, [StoreNext]_storeVars, ~overlapped', crashes' = 0
             PROVE  Atomic!Next \/ UNCHANGED Atomic!vars
  OBVIOUS
<1>1. ASSUME NEW a \in AgentAlerts, Begin(a) PROVE Atomic!Next
  BY <1>1, BeginIsAtomic DEF Atomic!Next
<1>2. CASE Write
  <2>1. Settled' = Settled
    BY <1>2, WriteIsStutter
  <2>2. UNCHANGED <<clock, processed, edits, console, crashes, history>>
    BY <1>2 DEF Write
  <2>3. QED
    BY <2>1, <2>2 DEF Atomic!vars, Atomic!tables, Atomic!history, history
<1>3. ASSUME NEW i \in DOMAIN incidents, NEW s \in Statuses, StoreRead(i, s) PROVE Atomic!Next
  BY <1>3, ReadIsAtomic
<1>4. CASE StoreConsole
  BY <1>4, ConsoleIsAtomic
<1>5. CASE Crash
  BY <1>5 DEF Crash, ServerEnds, HistoryInv
<1>6. CASE StoreTick
  <2>1. Tick /\ todo = << >> /\ todo' = << >>
    BY <1>6 DEF StoreTick
  <2>2. Settled' = Settled
    BY <2>1 DEF Settled, Tables, Tick, tables
  <2>3. Atomic!Tick
    BY <2>1, <2>2 DEF Tick, Atomic!Tick, Atomic!tables, Atomic!history, history
  <2>4. QED
    BY <2>3 DEF Atomic!Next
<1>7. CASE UNCHANGED storeVars
  <2>1. UNCHANGED <<incidents, alerts, commands, todo, clock, processed, edits, console, crashes,
                    history>>
    BY <1>7 DEF storeVars, vars, tables
  <2>2. Settled' = Settled
    BY <2>1 DEF Settled, Tables
  <2>3. QED
    BY <2>1, <2>2 DEF Atomic!vars, Atomic!tables, Atomic!history, history
<1>8. QED
  BY <1>1, <1>2, <1>3, <1>4, <1>5, <1>6, <1>7 DEF StoreNext

(* Until a restart, or a status change that overlaps an add_alert, the     *)
(* statements of add_alert, one at a time, do what its one step in         *)
(* Correlation does: the step is taken when the decision is made, and each *)
(* statement then is a stutter.  Those of a status change are the steps    *)
(* they are in Correlation.                                                *)
THEOREM StatementsImplementCorrelation == StoreSpec => ImplementsCorrelation
<1>1. StoreSpec => []HistoryInv
  BY InitHistoryInv, StepHistoryInv, PTL DEF StoreSpec
<1>2. QED
  BY <1>1, InvariantStoreInv, InitIsAtomic, StepIsAtomic, PTL
     DEF StoreSpec, ImplementsCorrelation

=============================================================================
