-------------------------- MODULE MCIncidentStore --------------------------
(* Small instances of IncidentStore.                                       *)
EXTENDS IncidentStore, TLC

AgentAlert(h, t, e) ==
  [rule |-> "AGENT", n |-> 0, about |-> NoIncident, host |-> h, tactic |-> t,
   ents |-> e, sev |-> 2, ts |-> 0]

\* Three tactics, an entity that both hosts share, and alerts too light for an
\* incident: merges, multi-stage and multi-host alerts.
StoreAlerts ==
  {AgentAlert(h, "execution", Entities) : h \in Hosts}
  \cup {AgentAlert(h, t, {}) : <<h, t>> \in Hosts \X {"impact", "collection"}}
  \cup {[AgentAlert(h, "", {}) EXCEPT !.sev = Info] : h \in Hosts}

HostSymmetry == Permutations(Hosts)

=============================================================================
