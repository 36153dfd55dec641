----------------------------- MODULE Indicators -----------------------------
(***************************************************************************)
(* The indicators of compromise: how the console changes them on the       *)
(* server, how the server keeps them over a restart, and how the agents    *)
(* get them with their heartbeats (detection/intel.py: IntelStore;         *)
(* server/core.py: __init__, add_ioc, remove_ioc, update_feeds,            *)
(* _bump_intel, heartbeat; storage.py: kv_get, kv_set; agent.py: heartbeat)*)
(* The data are changed under the lock of the store; the version is also   *)
(* read and written outside of it, by every thread of the server.          *)
(*                                                                         *)
(* An operator named X_Y is not used by the specification: it is X with    *)
(* the mistake Y, and shows that a property of X would notice it.          *)
(***************************************************************************)
EXTENDS Integers, FiniteSets

CONSTANTS
  Indicators,  \* indicators, of any kind
  Shipped,     \* those of the file that comes with the configuration
  Agents,
  MaxChanges,  \* bound: changes that the console asks for
  MaxFaults    \* bound: restarts, and heartbeats that get no answer

ASSUME IndicatorsAssumption ==
  Shipped \subseteq Indicators /\ MaxChanges \in Nat /\ MaxFaults \in Nat

VARIABLES
  data,      \* IntelStore.data of the server
  version,   \* its version
  kv,        \* intel_version in the table kv; 0 when it is not there
  file,      \* iocs.json of the server
  changes,   \* the threads of the server that handle a change, see below
  known,     \* IntelStore.data of each agent
  has,       \* Agent.intel_version
  heartbeat, \* the heartbeat of each agent, see below
  changed, faults,
  back       \* history: the version was set back, or a restart undid an edit

counters == <<changed, faults>>
agents == <<known, has, heartbeat>>
vars == <<data, version, kv, file, changes, agents, counters, back>>

-----------------------------------------------------------------------------
(* A change goes through: "edit", of the data and the version; for a list  *)
(* of a feed, "first", a save; then _bump_intel: "read" and "write" of the *)
(* version, "get" and "put" of kv, and "save".                             *)
NewNo == CHOOSE n \in 0..Cardinality(changes) : \A c \in changes : c.no # n
Change(kind, items) ==
  [no |-> NewNo, kind |-> kind, items |-> items, edited |-> {}, seen |-> 0,
   pc |-> IF items = {} THEN "first" ELSE "edit"]

(* A heartbeat is "idle", or the server is at: "version", the one to be    *)
(* answered; "compare", with the one that the agent has; "export" of the   *)
(* data; or has it for the agent to "merge", or none: "answered".          *)
Idle == [pc |-> "idle", version |-> 0, intel |-> {}]

Init ==
  /\ data = Shipped
  /\ version = 1
  /\ kv = 0
  /\ file = Shipped
  /\ changes = {}
  /\ known = [a \in Agents |-> Shipped]
  /\ has = [a \in Agents |-> 0]
  /\ heartbeat = [a \in Agents |-> Idle]
  /\ changed = 0 /\ faults = 0
  /\ back = FALSE

\* The console asks for a change; of the feeds, some lists may not be there.
Ask(kind, items) ==
  /\ changed < MaxChanges
  /\ kind # "feeds" => Cardinality(items) = 1
  /\ changed' = changed + 1
  /\ changes' = changes \cup {Change(kind, items)}
  /\ UNCHANGED <<data, version, kv, file, agents, faults, back>>

Becomes(c, d) == changes' = (changes \ {c}) \cup {d}
Goes(c, pc) == Becomes(c, [c EXCEPT !.pc = pc, !.seen = 0])

\* IntelStore.add, remove and merge, under the lock.
Edit(c, i) ==
  /\ c.pc = "edit" /\ i \in c.items
  /\ data' = IF c.kind = "remove" THEN data \ {i} ELSE data \cup {i}
  /\ version' = version + 1
  /\ Becomes(c, [c EXCEPT !.items = @ \ {i}, !.edited = @ \cup {i},
                          !.pc = IF c.items # {i} THEN "edit"
                                 ELSE IF c.kind = "feeds" THEN "first" ELSE "read"])
  /\ UNCHANGED <<kv, file, agents, counters, back>>

\* _bump_intel: self.version += 1, first its reading ...
Read(c) ==
  /\ c.pc = "read"
  /\ Becomes(c, [c EXCEPT !.seen = version, !.pc = "write"])
  /\ UNCHANGED <<data, version, kv, file, agents, counters, back>>

\* ... then its writing ...
Write(c) ==
  /\ c.pc = "write"
  /\ version' = c.seen + 1
  /\ back' = (back \/ c.seen + 1 < version)
  /\ Goes(c, "get")
  /\ UNCHANGED <<data, kv, file, agents, counters>>

\* ... kv_set: the version is read again ...
Get(c) ==
  /\ c.pc = "get"
  /\ Becomes(c, [c EXCEPT !.seen = version, !.pc = "put"])
  /\ UNCHANGED <<data, version, kv, file, agents, counters, back>>

\* ... and stored ...
Put(c) ==
  /\ c.pc = "put"
  /\ kv' = c.seen
  /\ Goes(c, "save")
  /\ UNCHANGED <<data, version, file, agents, counters, back>>

Save_NoRemovals(c) ==
  /\ c.pc \in {"first", "save"}
  /\ file' = IF c.kind = "remove" THEN file ELSE data
  /\ IF c.pc = "first" THEN Goes(c, "read") ELSE changes' = changes \ {c}
  /\ UNCHANGED <<data, version, kv, agents, counters, back>>

\* ... IntelStore.save, also at the end of update_from_feeds.
Save(c) ==
  /\ c.pc \in {"first", "save"}
  /\ file' = data
  /\ IF c.pc = "first" THEN Goes(c, "read") ELSE changes' = changes \ {c}
  /\ UNCHANGED <<data, version, kv, agents, counters, back>>

-----------------------------------------------------------------------------
Server(a, h) ==
  /\ heartbeat' = [heartbeat EXCEPT ![a] = h]
  /\ UNCHANGED <<data, version, kv, file, changes, known, has, counters, back>>

\* The heartbeat thread asks, with the version that it has.
Heartbeat(a) ==
  /\ heartbeat[a] = Idle
  /\ Server(a, [Idle EXCEPT !.pc = "version"])

\* heartbeat: the version of the answer ...
AnswerVersion(a) ==
  /\ heartbeat[a].pc = "version"
  /\ Server(a, [heartbeat[a] EXCEPT !.version = version, !.pc = "compare"])

\* ... whether the agent's is older ...
Compare(a) ==
  /\ heartbeat[a].pc = "compare"
  /\ Server(a, IF has[a] < version THEN [heartbeat[a] EXCEPT !.pc = "export"]
                                   ELSE [Idle EXCEPT !.pc = "answered"])

\* ... and the data, under the lock.
Export(a) ==
  /\ heartbeat[a].pc = "export"
  /\ Server(a, [heartbeat[a] EXCEPT !.intel = data, !.pc = "merge"])

Answered_VersionLast(a) ==
  /\ heartbeat[a].pc \in {"answered", "merge"}
  /\ IF heartbeat[a].pc = "merge"
     THEN /\ known' = [known EXCEPT ![a] = @ \cup heartbeat[a].intel]
          /\ has' = [has EXCEPT ![a] = version]
     ELSE UNCHANGED <<known, has>>
  /\ heartbeat' = [heartbeat EXCEPT ![a] = Idle]
  /\ UNCHANGED <<data, version, kv, file, changes, counters, back>>

\* The agent merges what it was sent.  It forgets nothing.
Answered(a) ==
  /\ heartbeat[a].pc \in {"answered", "merge"}
  /\ IF heartbeat[a].pc = "merge"
     THEN /\ known' = [known EXCEPT ![a] = @ \cup heartbeat[a].intel]
          /\ has' = [has EXCEPT ![a] = heartbeat[a].version]
     ELSE UNCHANGED <<known, has>>
  /\ heartbeat' = [heartbeat EXCEPT ![a] = Idle]
  /\ UNCHANGED <<data, version, kv, file, changes, counters, back>>

\* A heartbeat that fails or is given up.
Lose(a) ==
  /\ heartbeat[a] # Idle
  /\ faults < MaxFaults
  /\ faults' = faults + 1
  /\ heartbeat' = [heartbeat EXCEPT ![a] = Idle]
  /\ UNCHANGED <<data, version, kv, file, changes, known, has, changed, back>>

RestartAgent_KeepsVersion(a) ==
  /\ faults < MaxFaults
  /\ faults' = faults + 1
  /\ known' = [known EXCEPT ![a] = Shipped]
  /\ heartbeat' = [heartbeat EXCEPT ![a] = Idle]
  /\ UNCHANGED <<data, version, kv, file, changes, has, changed, back>>

\* The agent starts with the file of its configuration.
RestartAgent(a) ==
  /\ faults < MaxFaults
  /\ faults' = faults + 1
  /\ known' = [known EXCEPT ![a] = Shipped]
  /\ has' = [has EXCEPT ![a] = 0]
  /\ heartbeat' = [heartbeat EXCEPT ![a] = Idle]
  /\ UNCHANGED <<data, version, kv, file, changes, changed, back>>

(* The server starts with what it has saved; the changes and heartbeats    *)
(* that were under way end.                                                *)
RestartServer ==
  /\ faults < MaxFaults
  /\ faults' = faults + 1
  /\ data' = file
  /\ version' = IF kv = 0 THEN 1 ELSE kv
  /\ back' = (back \/ version' < version \/ data # file)
  /\ changes' = {}
  /\ heartbeat' = [a \in Agents |-> Idle]
  /\ UNCHANGED <<kv, file, known, has, changed>>

Next ==
  \/ \E kind \in {"add", "remove", "feeds"}, items \in SUBSET Indicators : Ask(kind, items)
  \/ \E c \in changes, i \in Indicators : Edit(c, i)
  \/ \E c \in changes : Read(c)
  \/ \E c \in changes : Write(c)
  \/ \E c \in changes : Get(c)
  \/ \E c \in changes : Put(c)
  \/ \E c \in changes : Save(c)
  \/ \E a \in Agents : Heartbeat(a)
  \/ \E a \in Agents : AnswerVersion(a)
  \/ \E a \in Agents : Compare(a)
  \/ \E a \in Agents : Export(a)
  \/ \E a \in Agents : Answered(a)
  \/ \E a \in Agents : Lose(a)
  \/ \E a \in Agents : RestartAgent(a)
  \/ RestartServer

Proceed(a) == Heartbeat(a) \/ AnswerVersion(a) \/ Compare(a) \/ Export(a) \/ Answered(a)

\* Agents send heartbeats, and the server answers them.
Fairness == \A a \in Agents : WF_vars(Proceed(a))

Spec == Init /\ [][Next]_vars /\ Fairness

-----------------------------------------------------------------------------
(* What a restart of the server would lose or bring back is what a change  *)
(* under way has edited: a change that was answered outlives the server,   *)
(* whatever else was changed at the same time.                             *)
IocsSurvive ==
  \A i \in (data \ file) \cup (file \ data) :
    \E c \in changes : i \in c.edited

(* An agent that the server takes to be up to date is so, unless the       *)
(* version was set back, by two changes at the same time or by a restart   *)
(* before a change had stored it, or the restart undid an edit.            *)
AgentsAreCurrent ==
  \A a \in Agents : (has[a] >= version /\ ~back) => data \subseteq known[a]

\* Every agent has all the indicators again and again, as often as the console
\* changes them, unless the server was set back.
IndicatorsArrive == \A a \in Agents : []<>(data \subseteq known[a] \/ back)

=============================================================================
