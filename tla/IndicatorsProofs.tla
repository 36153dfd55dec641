-------------------------- MODULE IndicatorsProofs --------------------------
(***************************************************************************)
(* Theorems about Indicators, for any indicators, agents and bounds: what  *)
(* was answered survives a restart of the server, and an agent that is     *)
(* taken to be up to date is.                                              *)
(***************************************************************************)
EXTENDS Indicators, TLAPS

Kinds == {"add", "remove", "feeds"}
Pcs == {"edit", "first", "read", "write", "get", "put", "save"}
HeartbeatPcs == {"idle", "version", "compare", "export", "answered", "merge"}

\* A change has its fields; which numbers tell changes apart does not matter.
IsChange(c) ==
  \E N : c \in [no : N, kind : Kinds, items : SUBSET Indicators, edited : SUBSET Indicators,
                seen : Nat, pc : Pcs]

HeartbeatType == [pc : HeartbeatPcs, version : Nat, intel : SUBSET Indicators]

TypeInv ==
  /\ data \subseteq Indicators /\ file \subseteq Indicators
  /\ version \in Nat \ {0} /\ kv \in Nat
  /\ back \in BOOLEAN
  /\ \A c \in changes : IsChange(c)
  /\ has \in [Agents -> Nat]
  /\ known \in [Agents -> SUBSET Indicators]
  /\ heartbeat \in [Agents -> HeartbeatType]

(* No version under way or at an agent is ahead of the server's, and what  *)
(* goes with the server's version has all of its data.                     *)
VersionsInv ==
  \A a \in Agents : ~back =>
    /\ has[a] <= version
    /\ heartbeat[a].version <= version
    /\ has[a] = version => data \subseteq known[a]
    /\ (heartbeat[a].pc = "merge" /\ heartbeat[a].version = version) =>
         data \subseteq heartbeat[a].intel

-----------------------------------------------------------------------------
\* What Goes does to a change, and to the others.
LEMMA GoesFields ==
  ASSUME NEW c \in changes, \A e \in changes : IsChange(e), NEW pc \in Pcs, Goes(c, pc)
  PROVE  /\ \A e \in changes' : IsChange(e)
         /\ \A e \in changes : \E f \in changes' : f.edited = e.edited
<1> DEFINE d == [c EXCEPT !.pc = pc, !.seen = 0]
<1>1. PICK N : c \in [no : N, kind : Kinds, items : SUBSET Indicators,
               edited : SUBSET Indicators, seen : Nat, pc : Pcs]
  BY DEF IsChange
<1>2. /\ d \in [no : N, kind : Kinds, items : SUBSET Indicators,
               edited : SUBSET Indicators, seen : Nat, pc : Pcs]
      /\ d.edited = c.edited
  BY <1>1
<1>3. IsChange(d)
  BY <1>2 DEF IsChange
<1>4. changes' = (changes \ {c}) \cup {d}
  BY DEF Goes, Becomes
<1>5. QED
  BY <1>2, <1>3, <1>4

\* The same of the steps that keep the version they read.
LEMMA SeenFields ==
  ASSUME NEW c \in changes, \A e \in changes : IsChange(e), NEW pc \in Pcs, NEW v \in Nat,
         Becomes(c, [c EXCEPT !.seen = v, !.pc = pc])
  PROVE  /\ \A e \in changes' : IsChange(e)
         /\ \A e \in changes : \E f \in changes' : f.edited = e.edited
<1> DEFINE d == [c EXCEPT !.seen = v, !.pc = pc]
<1>1. PICK N : c \in [no : N, kind : Kinds, items : SUBSET Indicators,
               edited : SUBSET Indicators, seen : Nat, pc : Pcs]
  BY DEF IsChange
<1>2. /\ d \in [no : N, kind : Kinds, items : SUBSET Indicators,
               edited : SUBSET Indicators, seen : Nat, pc : Pcs]
      /\ d.edited = c.edited
  BY <1>1
<1>3. IsChange(d)
  BY <1>2 DEF IsChange
<1>4. changes' = (changes \ {c}) \cup {d}
  BY DEF Becomes
<1>5. QED
  BY <1>2, <1>3, <1>4

\* What an edit does to its change, to the others and to the data.
LEMMA EditFields ==
  ASSUME NEW c \in changes, \A e \in changes : IsChange(e), NEW i \in Indicators, Edit(c, i)
  PROVE  /\ \A e \in changes' : IsChange(e)
         /\ \A e \in changes : \E f \in changes' : e.edited \subseteq f.edited
         /\ \E f \in changes' : i \in f.edited
         /\ data' \in {data \ {i}, data \cup {i}}
<1> DEFINE next == IF c.items # {i} THEN "edit" ELSE IF c.kind = "feeds" THEN "first" ELSE "read"
           d == [c EXCEPT !.items = @ \ {i}, !.edited = @ \cup {i}, !.pc = next]
<1>1. PICK N : c \in [no : N, kind : Kinds, items : SUBSET Indicators,
               edited : SUBSET Indicators, seen : Nat, pc : Pcs]
  BY DEF IsChange
<1>2. next \in Pcs
  BY DEF Pcs
<1>3. /\ d \in [no : N, kind : Kinds, items : SUBSET Indicators,
               edited : SUBSET Indicators, seen : Nat, pc : Pcs]
      /\ d.edited = c.edited \cup {i}
  <2> HIDE DEF next
  <2>1. QED BY <1>1, <1>2
<1>4. changes' = (changes \ {c}) \cup {d}
  BY DEF Edit, Becomes
<1>5. IsChange(d)
  BY <1>3 DEF IsChange
<1>6. \A e \in changes' : IsChange(e)
  BY <1>4, <1>5
<1> HIDE DEF d
<1>7. \A e \in changes : \E f \in changes' : e.edited \subseteq f.edited
  BY <1>3, <1>4
<1>8. QED
  BY <1>3, <1>4, <1>6, <1>7 DEF Edit

LEMMA TypeInit == Init => TypeInv
<1> SUFFICES ASSUME Init PROVE TypeInv
  OBVIOUS
<1>1. back \in BOOLEAN
  BY Zenon DEF Init
<1>2. QED
  BY <1>1, IndicatorsAssumption DEF Init, TypeInv, HeartbeatType, HeartbeatPcs, Idle

LEMMA TypeStep ==
  ASSUME TypeInv, [Next]_vars
  PROVE  TypeInv'
<1> USE DEF TypeInv, HeartbeatType, HeartbeatPcs, Pcs
<1>1. ASSUME NEW kind \in {"add", "remove", "feeds"}, NEW items \in SUBSET Indicators, Ask(kind, items)
      PROVE  TypeInv'
  <2> DEFINE d == Change(kind, items)
  <2>1. d \in [no : {NewNo}, kind : Kinds, items : SUBSET Indicators, edited : SUBSET Indicators,
                seen : Nat, pc : Pcs]
    BY DEF Change, Kinds, Pcs
  <2>2. IsChange(d)
    BY <2>1 DEF IsChange
  <2> HIDE DEF d
  <2>3. changes' = changes \cup {d}
    BY <1>1 DEF Ask, d
  <2>4. QED
    BY <1>1, <2>2, <2>3 DEF Ask, agents
<1>2. ASSUME NEW c \in changes, NEW i \in Indicators, Edit(c, i)
      PROVE  TypeInv'
  <2>1. \A e \in changes' : IsChange(e)
    BY <1>2, EditFields
  <2>2. data' \in SUBSET Indicators /\ version' \in Nat \ {0}
    <3>1. data' \in {data \ {i}, data \cup {i}}
      BY <1>2, EditFields
    <3>2. QED BY <1>2, <3>1 DEF Edit
  <2>3. QED
    BY <1>2, <2>1, <2>2 DEF Edit, agents
<1>3. ASSUME NEW c \in changes, Read(c)
      PROVE  TypeInv'
  <2>1. \A e \in changes' : IsChange(e)
    BY <1>3, SeenFields DEF Read
  <2>2. QED BY <1>3, <2>1 DEF Read, agents
<1>4. ASSUME NEW c \in changes, Write(c)
      PROVE  TypeInv'
  <2>1. \A e \in changes' : IsChange(e)
    BY <1>4, GoesFields DEF Write
  <2>2. c.seen \in Nat
    BY DEF IsChange
  <2>3. QED BY <1>4, <2>1, <2>2 DEF Write, agents
<1>5. ASSUME NEW c \in changes, Get(c)
      PROVE  TypeInv'
  <2>1. \A e \in changes' : IsChange(e)
    BY <1>5, SeenFields DEF Get
  <2>2. QED BY <1>5, <2>1 DEF Get, agents
<1>6. ASSUME NEW c \in changes, Put(c)
      PROVE  TypeInv'
  <2>1. \A e \in changes' : IsChange(e)
    BY <1>6, GoesFields DEF Put
  <2>2. c.seen \in Nat
    BY DEF IsChange
  <2>3. QED BY <1>6, <2>1, <2>2 DEF Put, agents
<1>7. ASSUME NEW c \in changes, Save(c)
      PROVE  TypeInv'
  <2>1. \A e \in changes' : IsChange(e)
    BY <1>7, GoesFields DEF Save
  <2>2. QED BY <1>7, <2>1 DEF Save, agents
<1>8. ASSUME NEW a \in Agents, \/ Heartbeat(a) \/ AnswerVersion(a) \/ Compare(a) \/ Export(a)
      PROVE  TypeInv'
  <2>1. PICK h \in HeartbeatType : Server(a, h)
    BY <1>8 DEF Heartbeat, AnswerVersion, Compare, Export, Idle
  <2>2. QED BY <2>1 DEF Server, counters
<1>9. ASSUME NEW a \in Agents, \/ Answered(a) \/ Lose(a) \/ RestartAgent(a)
      PROVE  TypeInv'
  BY <1>9, IndicatorsAssumption DEF Answered, Lose, RestartAgent, Idle
<1>10. CASE RestartServer
  BY <1>10 DEF RestartServer, Idle
<1>11. CASE UNCHANGED vars
  BY <1>11 DEF vars, agents
<1>12. QED
  BY <1>1, <1>2, <1>3, <1>4, <1>5, <1>6, <1>7, <1>8, <1>9, <1>10, <1>11 DEF Next

-----------------------------------------------------------------------------
(* A change that was answered survives a restart: what memory and file     *)
(* differ in is what some change under way has edited.                     *)
LEMMA SurviveStep ==
  ASSUME TypeInv, IocsSurvive, [Next]_vars
  PROVE  IocsSurvive'
<1>1. \A c \in changes : IsChange(c)
  BY DEF TypeInv
<1>2. ASSUME data' = data, file' = file,
             \A e \in changes : \E f \in changes' : e.edited \subseteq f.edited
      PROVE  IocsSurvive'
  BY <1>2 DEF IocsSurvive
<1>3. ASSUME NEW kind \in {"add", "remove", "feeds"}, NEW items \in SUBSET Indicators, Ask(kind, items)
      PROVE  IocsSurvive'
  BY <1>2, <1>3 DEF Ask
<1>4. ASSUME NEW c \in changes, NEW i \in Indicators, Edit(c, i)
      PROVE  IocsSurvive'
  <2>1. /\ \A e \in changes : \E f \in changes' : e.edited \subseteq f.edited
        /\ \E f \in changes' : i \in f.edited
        /\ data' \in {data \ {i}, data \cup {i}}
    BY <1>1, <1>4, EditFields
  <2>2. file' = file
    BY <1>4 DEF Edit
  <2>3. QED BY <2>1, <2>2 DEF IocsSurvive
<1>5. ASSUME NEW c \in changes, \/ Read(c) \/ Write(c) \/ Get(c) \/ Put(c)
      PROVE  IocsSurvive'
  <2>1. /\ version \in Nat
        /\ {"read", "write", "get", "put", "save"} \subseteq Pcs
    BY DEF TypeInv, Pcs
  <2>2. \A e \in changes : \E f \in changes' : f.edited = e.edited
    BY <1>1, <1>5, <2>1, GoesFields, SeenFields DEF Read, Write, Get, Put
  <2>3. data' = data /\ file' = file
    BY <1>5 DEF Read, Write, Get, Put
  <2>4. QED BY <1>2, <2>2, <2>3
<1>6. ASSUME NEW c \in changes, Save(c)
      PROVE  IocsSurvive'
  BY <1>6 DEF Save, IocsSurvive
<1>7. ASSUME NEW a \in Agents, \/ Heartbeat(a) \/ AnswerVersion(a) \/ Compare(a) \/ Export(a)
                                \/ Answered(a) \/ Lose(a) \/ RestartAgent(a)
      PROVE  IocsSurvive'
  BY <1>2, <1>7 DEF Heartbeat, AnswerVersion, Compare, Export, Server, Answered, Lose, RestartAgent
<1>8. CASE RestartServer
  BY <1>8 DEF RestartServer, IocsSurvive
<1>9. CASE UNCHANGED vars
  BY <1>2, <1>9 DEF vars
<1>10. QED
  BY <1>3, <1>4, <1>5, <1>6, <1>7, <1>8, <1>9 DEF Next

-----------------------------------------------------------------------------
(* The steps of a change leave the agents alone and never set the version  *)
(* back without noting it; if they touch the data, they raise it.          *)
LEMMA VersionsKept ==
  ASSUME TypeInv, VersionsInv, TypeInv', agents' = agents,
         ~back' => ~back /\ version <= version' /\ (data' = data \/ version < version')
  PROVE  VersionsInv'
<1>1. SUFFICES ASSUME NEW a \in Agents, ~back'
               PROVE  /\ has[a] <= version'
                      /\ heartbeat[a].version <= version'
                      /\ has[a] = version' => data' \subseteq known[a]
                      /\ (heartbeat[a].pc = "merge" /\ heartbeat[a].version = version') =>
                           data' \subseteq heartbeat[a].intel
  BY DEF VersionsInv, agents
<1>2. /\ has[a] \in Nat /\ heartbeat[a].version \in Nat
      /\ version \in Nat /\ version' \in Nat
  BY DEF TypeInv, HeartbeatType
<1>3. QED
  BY <1>1, <1>2 DEF VersionsInv

LEMMA VersionsStep ==
  ASSUME TypeInv, VersionsInv, TypeInv', [Next]_vars
  PROVE  VersionsInv'
<1>1. /\ back \in BOOLEAN
      /\ version \in Nat \ {0} /\ version' \in Nat \ {0}
      /\ \A c \in changes : c.seen \in Nat
      /\ has \in [Agents -> Nat]
      /\ known \in [Agents -> SUBSET Indicators]
      /\ heartbeat \in [Agents -> HeartbeatType]
  BY DEF TypeInv, IsChange
<1>2. ASSUME NEW kind \in {"add", "remove", "feeds"}, NEW items \in SUBSET Indicators, Ask(kind, items)
      PROVE  VersionsInv'
  BY <1>1, <1>2, VersionsKept DEF Ask
<1>3. ASSUME NEW c \in changes, NEW i \in Indicators, Edit(c, i)
      PROVE  VersionsInv'
  BY <1>1, <1>3, VersionsKept DEF Edit
<1>4. ASSUME NEW c \in changes, Read(c) \/ Write(c) \/ Get(c) \/ Put(c) \/ Save(c)
      PROVE  VersionsInv'
  <2>1. /\ agents' = agents
        /\ ~back' => ~back /\ version <= version' /\ (data' = data \/ version < version')
    <3>2. CASE Write(c)
      <4>1. ~back' => ~back /\ ~(c.seen + 1 < version)
        BY <3>2, Zenon DEF Write
      <4>2. QED BY <1>1, <3>2, <4>1 DEF Write
    <3>3. CASE Read(c) \/ Get(c) \/ Put(c)
      BY <1>1, <3>3 DEF Read, Get, Put
    <3>4. CASE Save(c)
      BY <1>1, <3>4 DEF Save
    <3>5. QED BY <1>4, <3>2, <3>3, <3>4
  <2>2. QED BY <2>1, VersionsKept
<1>5. ASSUME NEW a \in Agents, \/ Heartbeat(a) \/ AnswerVersion(a) \/ Compare(a) \/ Export(a)
      PROVE  VersionsInv'
  <2>1. PICK h \in HeartbeatType :
          /\ Server(a, h)
          /\ h.version \in {0, version, heartbeat[a].version}
          /\ h.pc = "merge" => h.intel = data
    <3> DEFINE h0 == heartbeat[a]
    <3> USE DEF HeartbeatType, HeartbeatPcs, Idle
    <3>1. h0 \in HeartbeatType /\ data \in SUBSET Indicators
      BY <1>1 DEF TypeInv
    <3>2. CASE Heartbeat(a)
      BY <3>2 DEF Heartbeat
    <3>3. CASE AnswerVersion(a)
      <4> DEFINE h == [h0 EXCEPT !.version = version, !.pc = "compare"]
      <4>1. h \in HeartbeatType /\ h.version = version /\ h.pc = "compare"
        BY <1>1, <3>1
      <4>2. QED BY <3>3, <4>1 DEF AnswerVersion
    <3>4. CASE Compare(a)
      <4> DEFINE h == [h0 EXCEPT !.pc = "export"]
                 e == [Idle EXCEPT !.pc = "answered"]
      <4>1. h \in HeartbeatType /\ h.version = h0.version /\ h.pc = "export"
        BY <3>1
      <4>2. e \in HeartbeatType /\ e.version = 0 /\ e.pc = "answered"
        OBVIOUS
      <4>3. Server(a, h) \/ Server(a, e)
        BY <3>4 DEF Compare
      <4>4. QED BY <4>1, <4>2, <4>3
    <3>5. CASE Export(a)
      <4> DEFINE h == [h0 EXCEPT !.intel = data, !.pc = "merge"]
      <4>1. h \in HeartbeatType /\ h.version = h0.version /\ h.intel = data
        BY <3>1
      <4>2. QED BY <3>5, <4>1 DEF Export
    <3>6. QED BY <1>5, <3>2, <3>3, <3>4, <3>5
  <2>2. /\ heartbeat' = [heartbeat EXCEPT ![a] = h]
        /\ UNCHANGED <<data, version, known, has, back>>
    BY <2>1 DEF Server
  <2>3. QED BY <1>1, <2>1, <2>2 DEF VersionsInv, HeartbeatType
<1>6. ASSUME NEW a \in Agents, Answered(a)
      PROVE  VersionsInv'
  BY <1>1, <1>6 DEF Answered, VersionsInv, HeartbeatType, Idle
<1>7. ASSUME NEW a \in Agents, Lose(a)
      PROVE  VersionsInv'
  BY <1>1, <1>7 DEF Lose, VersionsInv, Idle
<1>8. ASSUME NEW a \in Agents, RestartAgent(a)
      PROVE  VersionsInv'
  BY <1>1, <1>8 DEF RestartAgent, VersionsInv, Idle
<1>9. CASE RestartServer
  <2>1. ASSUME ~back'
        PROVE  ~back /\ version <= version' /\ data' = data
    <3>1. ~back /\ ~(version' < version) /\ ~(data # file)
      BY <1>9, <2>1, Zenon DEF RestartServer
    <3>2. QED BY <1>1, <1>9, <3>1 DEF RestartServer
  <2>2. UNCHANGED <<known, has>> /\ \A a \in Agents : heartbeat'[a] = Idle
    BY <1>9 DEF RestartServer
  <2>3. QED BY <1>1, <2>1, <2>2 DEF VersionsInv, Idle
<1>10. CASE UNCHANGED vars
  BY <1>10, <1>1, VersionsKept DEF vars
<1>11. QED
  BY <1>2, <1>3, <1>4, <1>5, <1>6, <1>7, <1>8, <1>9, <1>10 DEF Next

-----------------------------------------------------------------------------
(* add_ioc, remove_ioc and update_feeds: a change of the indicators that   *)
(* was answered is in iocs.json, so that a restart of the server keeps it, *)
(* whatever other changes are under way.                                   *)
THEOREM AnsweredChangesSurvive == Spec => []IocsSurvive
<1>1. Init => TypeInv /\ IocsSurvive
  BY TypeInit DEF Init, IocsSurvive
<1>2. TypeInv /\ IocsSurvive /\ [Next]_vars => (TypeInv /\ IocsSurvive)'
  BY TypeStep, SurviveStep
<1>3. QED
  BY <1>1, <1>2, PTL DEF Spec

(* heartbeat: an agent whose version is not behind the server's has all    *)
(* its indicators, unless the version was set back or a restart undid an   *)
(* edit.                                                                   *)
THEOREM UpToDateAgentsAreCurrent == Spec => []AgentsAreCurrent
<1>1. Init => TypeInv /\ VersionsInv
  BY TypeInit DEF Init, VersionsInv, Idle
<1>2. TypeInv /\ VersionsInv /\ [Next]_vars => (TypeInv /\ VersionsInv)'
  BY TypeStep, VersionsStep
<1>3. TypeInv /\ VersionsInv => AgentsAreCurrent
  BY DEF TypeInv, VersionsInv, AgentsAreCurrent
<1>4. QED
  BY <1>1, <1>2, <1>3, PTL DEF Spec

=============================================================================
