------------------------------ MODULE Commands ------------------------------
(***************************************************************************)
(* The queue of response commands for one agent (server/core.py:           *)
(* queue_command, heartbeat, command_result; storage.py: *_command*;       *)
(* agent.py: heartbeat, run_command).  The agent asks for commands with    *)
(* its heartbeat, runs them one after the other and sends each result.     *)
(* The server runs every request in a thread of its own, one SQL statement *)
(* at a time; when the agent gives up waiting, that thread goes on.        *)
(*                                                                         *)
(* An operator named X_Y is not used by the specification: it is X with    *)
(* the mistake Y, and shows that a property of X would notice it.          *)
(***************************************************************************)
EXTENDS Integers, FiniteSets

CONSTANTS
  Ids,        \* ids of commands (new_id)
  MaxFaults,  \* bound: requests that fail or are given up
  MaxRaises,  \* bound: exceptions other than TransportError
  MaxRestarts \* bound: restarts of the agent and of the server

ASSUME CommandsAssumption ==
  IsFiniteSet(Ids) /\ MaxFaults \in Nat /\ MaxRaises \in Nat /\ MaxRestarts \in Nat

\* What matters of an action: what it does to the isolation of the endpoint.
Actions == {"isolate_host", "release_host", "other"}

VARIABLES
  queue,     \* table commands: [id, action, ts]
  status,    \* their column status
  isolated,  \* agents.isolated, as the console shows it
  host,      \* whether the endpoint is isolated
  agent,     \* what the heartbeat thread is doing, see below
  threads,   \* the server's threads that handle a request of the agent
  faults, raises, restarts,
  executed,  \* history: how often the agent ran each command
  missing,   \* history: commands that never got to the agent, or whose result
             \* never got to the server
  unsettled  \* history: a result was still being handled when the agent sent
             \* another request, or when the server stopped

counters == <<faults, raises, restarts>>
history == <<executed, missing, unsettled>>
vars == <<queue, status, isolated, host, agent, threads, counters, history>>

-----------------------------------------------------------------------------
(* The heartbeat thread waits for its next turn, or for the answer to a    *)
(* heartbeat, or goes through the commands "left" of a batch; "sent" is    *)
(* the one whose result it has sent and is waiting for.                    *)
Resting == [pc |-> "rest", left |-> {}]

(* A thread of the server handles a heartbeat or a result.  It is awaited  *)
(* until the agent gives up.                                               *)
NewThread == CHOOSE n \in 0..Cardinality(threads) : \A t \in threads : t.no # n
HeartbeatThread == [no |-> NewThread, awaited |-> TRUE, kind |-> "heartbeat", pc |-> "select",
                    batch |-> {}, marked |-> {}]
ResultThread(c, success) == [no |-> NewThread, awaited |-> TRUE, kind |-> "result",
                             pc |-> "complete", cmd |-> c, success |-> success]

Init ==
  /\ queue = {}
  /\ status = << >>
  /\ isolated = FALSE /\ host = FALSE
  /\ agent = Resting
  /\ threads = {}
  /\ faults = 0 /\ raises = 0 /\ restarts = 0
  /\ executed = [i \in Ids |-> 0]
  /\ missing = {}
  /\ unsettled = FALSE

\* queue_command, from the console or from add_alert.
QueueCommand(i, action) ==
  /\ i \notin DOMAIN status
  /\ queue' = queue \cup {[id |-> i, action |-> action, ts |-> Cardinality(queue)]}
  /\ status' = [x \in DOMAIN status \cup {i} |-> IF x = i THEN "pending" ELSE status[x]]
  /\ UNCHANGED <<isolated, host, agent, threads, counters, history>>

Send(t) ==
  /\ threads' = threads \cup {t}
  /\ unsettled' = (unsettled \/ \E u \in threads : u.kind = "result")

Heartbeat ==
  /\ agent = Resting
  /\ agent' = [agent EXCEPT !.pc = "heartbeat"]
  /\ Send(HeartbeatThread)
  /\ UNCHANGED <<queue, status, isolated, host, counters, executed, missing>>

\* The commands of a batch are taken in the order of ts.
First(c, batch) == c \in batch /\ \A d \in batch : c.ts <= d.ts

Becomes(t, u) == threads' = (threads \ {t}) \cup {u}

\* pending_commands: SELECT ...
Select(t) ==
  /\ t.kind = "heartbeat" /\ t.pc = "select"
  /\ Becomes(t, [t EXCEPT !.pc = "mark",
                          !.batch = {c \in queue : status[c.id] = "pending"}])
  /\ UNCHANGED <<queue, status, isolated, host, agent, counters, history>>

Mark_OnlyFirst(t) ==
  /\ t.kind = "heartbeat" /\ t.pc = "mark"
  /\ \E c, d \in t.batch : /\ First(c, t.batch) /\ First(d, t.batch \ t.marked)
                          /\ status' = [status EXCEPT ![c.id] = "sent"]
                          /\ Becomes(t, [t EXCEPT !.marked = @ \cup {d}])
  /\ UNCHANGED <<queue, isolated, host, agent, counters, history>>

\* ... and UPDATE of the rows selected, one by one.
Mark(t) ==
  /\ t.kind = "heartbeat" /\ t.pc = "mark"
  /\ \E c \in t.batch : /\ First(c, t.batch \ t.marked)
                       /\ status' = [status EXCEPT ![c.id] = "sent"]
                       /\ Becomes(t, [t EXCEPT !.marked = @ \cup {c}])
  /\ UNCHANGED <<queue, isolated, host, agent, counters, history>>

IdsOf(batch) == {c.id : c \in batch}

\* The answer to the heartbeat; nobody waits for it, or it gets lost.
AnswerHeartbeat(t) ==
  /\ t.kind = "heartbeat" /\ t.pc = "mark"
  /\ t.marked = t.batch
  /\ threads' = threads \ {t}
  /\ \/ /\ t.awaited
        /\ agent' = IF t.batch = {} THEN Resting ELSE [pc |-> "run", left |-> t.batch]
        /\ UNCHANGED <<faults, missing>>
     \/ /\ t.awaited
        /\ faults < MaxFaults
        /\ faults' = faults + 1
        /\ agent' = Resting
        /\ missing' = missing \cup IdsOf(t.batch)
     \/ /\ ~t.awaited
        /\ missing' = missing \cup IdsOf(t.batch)
        /\ UNCHANGED <<agent, faults>>
  /\ UNCHANGED <<queue, status, isolated, host, raises, restarts, executed, unsettled>>

(* What an action may leave of the isolation, as it reports success or not *)
(* (Isolation has the detail): an isolate_host that fails halfway may have *)
(* emptied the chain of an earlier one.                                    *)
Effect(action, success) ==
  CASE action = "isolate_host" /\ success  -> {TRUE}
    [] action = "isolate_host" /\ ~success -> {host, FALSE}
    [] action = "release_host" /\ success  -> {FALSE}
    [] OTHER -> {host}

\* run_command: the action is run, and its result is sent.
Run(c, success) ==
  /\ agent.pc = "run" /\ First(c, agent.left)
  /\ c.action = "release_host" => success
  /\ host' \in Effect(c.action, success)
  /\ executed' = [executed EXCEPT ![c.id] = @ + 1]
  /\ Send(ResultThread(c, success))
  /\ agent' = [pc |-> "result", left |-> agent.left \ {c}]
  /\ UNCHANGED <<queue, status, isolated, counters, missing>>

NextCommand == agent' = IF agent.left = {} THEN Resting ELSE [agent EXCEPT !.pc = "run"]

Complete_OnlySuccess(t) ==
  /\ t.kind = "result" /\ t.pc = "complete"
  /\ status' = IF t.success THEN [status EXCEPT ![t.cmd.id] = "done"] ELSE status
  /\ Becomes(t, [t EXCEPT !.pc = IF t.success /\ t.cmd.action # "other" THEN "flag" ELSE "answer"])
  /\ UNCHANGED <<queue, isolated, host, agent, counters, history>>

\* command_result: complete_command ...
Complete(t) ==
  /\ t.kind = "result" /\ t.pc = "complete"
  /\ status' = [status EXCEPT ![t.cmd.id] = IF t.success THEN "done" ELSE "failed"]
  /\ Becomes(t, [t EXCEPT !.pc = IF t.success /\ t.cmd.action # "other" THEN "flag" ELSE "answer"])
  /\ UNCHANGED <<queue, isolated, host, agent, counters, history>>

Flag_IsolatesOnly(t) ==
  /\ t.kind = "result" /\ t.pc = "flag"
  /\ isolated' = (isolated \/ t.cmd.action = "isolate_host")
  /\ Becomes(t, [t EXCEPT !.pc = "answer"])
  /\ UNCHANGED <<queue, status, host, agent, counters, history>>

\* ... and set_agent_isolated.
Flag(t) ==
  /\ t.kind = "result" /\ t.pc = "flag"
  /\ isolated' = (t.cmd.action = "isolate_host")
  /\ Becomes(t, [t EXCEPT !.pc = "answer"])
  /\ UNCHANGED <<queue, status, host, agent, counters, history>>

\* Whether or not the answer arrives, the agent goes on.
AnswerResult(t) ==
  /\ t.kind = "result" /\ t.pc = "answer"
  /\ threads' = threads \ {t}
  /\ IF t.awaited THEN NextCommand ELSE UNCHANGED agent
  /\ UNCHANGED <<queue, status, isolated, host, counters, history>>

(* The agent gives up a request: after its timeout, or because the server  *)
(* is not there.  The request may be under way in the server all the same, *)
(* or may never have got there.                                            *)
GiveUp(t) ==
  /\ t.awaited
  /\ faults < MaxFaults
  /\ faults' = faults + 1
  /\ \/ /\ Becomes(t, [t EXCEPT !.awaited = FALSE])
        /\ UNCHANGED missing
     \/ /\ t.pc \in {"select", "complete"}
        /\ threads' = threads \ {t}
        /\ missing' = IF t.kind = "result" THEN missing \cup {t.cmd.id} ELSE missing
  /\ IF t.kind = "result" THEN NextCommand ELSE agent' = Resting
  /\ UNCHANGED <<queue, status, isolated, host, raises, restarts, executed, unsettled>>

(* run_command raises something else (a sensor, or parameters that are not *)
(* the action's): _periodic logs it, and the rest of the batch is dropped. *)
Raise ==
  /\ agent.pc = "run"
  /\ raises < MaxRaises
  /\ raises' = raises + 1
  /\ missing' = missing \cup IdsOf(agent.left)
  /\ agent' = Resting
  /\ UNCHANGED <<queue, status, isolated, host, threads, faults, restarts, executed, unsettled>>

(* The agent process ends and is started again; what it was told to do is  *)
(* lost, the state of the endpoint is not.                                 *)
RestartAgent ==
  /\ restarts < MaxRestarts
  /\ restarts' = restarts + 1
  /\ missing' = missing \cup IdsOf(agent.left)
  /\ agent' = Resting
  /\ threads' = {[t EXCEPT !.awaited = FALSE] : t \in threads}
  /\ UNCHANGED <<queue, status, isolated, host, faults, raises, executed, unsettled>>

\* The server process ends and is started again, with its tables.
RestartServer ==
  /\ restarts < MaxRestarts
  /\ restarts' = restarts + 1
  /\ threads' = {}
  /\ missing' = missing \cup UNION {IF t.kind = "result" THEN {t.cmd.id} ELSE IdsOf(t.batch) :
                                      t \in threads}
  /\ IF agent.pc = "result" THEN NextCommand
     ELSE agent' = IF agent.pc = "heartbeat" THEN Resting ELSE agent
  /\ unsettled' = (unsettled \/ \E t \in threads : t.pc = "flag")
  /\ UNCHANGED <<queue, status, isolated, host, faults, raises, executed>>

Serve(t) == Select(t) \/ Mark(t) \/ AnswerHeartbeat(t) \/ Complete(t) \/ Flag(t) \/ AnswerResult(t)

Next ==
  \/ \E i \in Ids, a \in Actions : QueueCommand(i, a)
  \/ Heartbeat
  \/ \E t \in threads : Select(t)
  \/ \E t \in threads : Mark(t)
  \/ \E t \in threads : AnswerHeartbeat(t)
  \/ \E c \in queue, success \in BOOLEAN : Run(c, success)
  \/ \E t \in threads : Complete(t)
  \/ \E t \in threads : Flag(t)
  \/ \E t \in threads : AnswerResult(t)
  \/ \E t \in threads : GiveUp(t)
  \/ Raise
  \/ RestartAgent
  \/ RestartServer

(* The heartbeat thread runs every heartbeat_interval and goes through its *)
(* batch; every thread of the server gets on with what it is doing (only   *)
(* one of them is awaited, each of the others was given up).               *)
Fairness ==
  /\ WF_vars(Heartbeat)
  /\ WF_vars(\E c \in queue, success \in BOOLEAN : Run(c, success))
  /\ \A n \in 0..(MaxFaults + MaxRestarts) : WF_vars(\E t \in threads : t.no = n /\ Serve(t))

Spec == Init /\ [][Next]_vars /\ Fairness

-----------------------------------------------------------------------------
\* A command is run at most once, whatever is lost, retried or overlaps.
RunAtMostOnce == \A i \in Ids : executed[i] <= 1

(* When nothing is under way, the console is right about the isolation of  *)
(* the endpoint, or shows why it may not be: a command that was never      *)
(* answered or that failed.  Only a result that the server was still       *)
(* handling when the next request came, or when it stopped, can make it    *)
(* wrong in silence.                                                       *)
StaleFlagIsVisible ==
  (agent = Resting /\ threads = {} /\ isolated # host /\ ~unsettled) =>
    \E c \in queue :
      /\ c.action # "other"
      /\ executed[c.id] = 1
      /\ status[c.id] \in {"sent", "failed"}

\* Every command gets its result, unless it or the result was lost on the way.
CommandsEnd ==
  \A i \in Ids :
    (i \in DOMAIN status) ~>
      (i \in missing \/ (i \in DOMAIN status /\ status[i] \in {"done", "failed"}))

=============================================================================
