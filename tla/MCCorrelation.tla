--------------------------- MODULE MCCorrelation ---------------------------
(* Small instances of Correlation: which alerts the agents may raise.      *)
EXTENDS Correlation, TLC

AgentAlert(h, t, e, s, ts) ==
  [rule |-> "AGENT", n |-> 0, about |-> NoIncident, host |-> h, tactic |-> t,
   ents |-> e, sev |-> s, ts |-> ts]

\* Alerts of several tactics that share an entity, others that share none, later
\* ones, and one too light for an incident.
PlacingAlerts ==
  {AgentAlert(h, t, Entities, 2, 0) : <<h, t>> \in Hosts \X Tactics}
  \cup {AgentAlert(h, "", {}, 2, 0) : h \in Hosts}
  \cup {AgentAlert(h, "", Entities, 2, 1) : h \in Hosts}
  \cup {AgentAlert(h, "", {}, Info, 0) : h \in Hosts}

\* Alerts of several tactics at one time, sharing an entity or not.
StageAlerts ==
  {AgentAlert(h, t, e, 2, 0) : <<h, t, e>> \in Hosts \X Tactics \X {{}, Entities}}

HostSymmetry == Permutations(Hosts)

=============================================================================
