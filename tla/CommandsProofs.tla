--------------------------- MODULE CommandsProofs ---------------------------
(***************************************************************************)
(* Theorems about Commands, for any commands and bounds.  The agent runs   *)
(* no command twice: the server answers a command only when it has marked  *)
(* it as sent, selects only what is not, and the agent has one request     *)
(* under way; what an abandoned one selected too is in an answer that      *)
(* nobody hears.  And the flag of the isolation is not wrong in silence.   *)
(***************************************************************************)
EXTENDS Commands, TLAPS

\* The fields of the threads; which numbers tell them apart does not matter.
HeartbeatThreads(N) ==
  [no : N, awaited : BOOLEAN, kind : {"heartbeat"}, pc : {"select", "mark"},
   batch : SUBSET queue, marked : SUBSET queue]
ResultThreads(N) ==
  [no : N, awaited : BOOLEAN, kind : {"result"}, pc : {"complete", "flag", "answer"},
   cmd : queue, success : BOOLEAN]
IsThread(t) == \E N : t \in HeartbeatThreads(N) \cup ResultThreads(N)

TypeInv ==
  /\ status \in [DOMAIN status -> {"pending", "sent", "done", "failed"}]
  /\ DOMAIN status \subseteq Ids
  /\ \A c \in queue : c.id \in DOMAIN status
  /\ executed \in [Ids -> Nat]
  /\ agent \in [pc : {"rest", "heartbeat", "run", "result"}, left : SUBSET queue]
  /\ \A t \in threads : IsThread(t)

\* A row for each id.
RowsInv == \A c, d \in queue : c.id = d.id => c = d

NotRun(i) == executed[i] = 0
Handed(i) == i \in DOMAIN status /\ status[i] # "pending"

\* What is not handed to the agent was not run, nor is what it still has to do.
QueueInv ==
  /\ \A i \in Ids : executed[i] <= 1 /\ (~Handed(i) => NotRun(i))
  /\ \A c \in agent.left : NotRun(c.id) /\ Handed(c.id)

\* What a thread that the agent is waiting for is going to hand to it.
Expected(t) ==
  t.awaited =>
    /\ t.kind = "result" => agent.pc = "result"
    /\ t.kind = "heartbeat" =>
         /\ agent.pc = "heartbeat"
         /\ \A c \in t.batch : NotRun(c.id)
         /\ \A c \in t.marked : Handed(c.id)

ThreadsInv ==
  /\ \A t \in threads : Expected(t)
  /\ \A t, u \in threads : t.awaited /\ u.awaited => t = u

IInv == TypeInv /\ RowsInv /\ QueueInv /\ ThreadsInv

-----------------------------------------------------------------------------
LEMMA InitInv == Init => IInv
BY DEF Init, IInv, TypeInv, RowsInv, QueueInv, ThreadsInv, NotRun, Handed, Resting

(* A thread that goes on, or that nobody waits for any more, when neither  *)
(* the queue nor the agent changes.                                        *)
LEMMA ThreadGoesOn ==
  ASSUME IInv, NEW t \in threads, NEW u, IsThread(u), threads' = (threads \ {t}) \cup {u},
         u.awaited => t.awaited, Expected(u)',
         UNCHANGED <<queue, agent, executed>>,
         status' \in [DOMAIN status -> {"pending", "sent", "done", "failed"}],
         \A i \in DOMAIN status : status'[i] = status[i] \/ status'[i] # "pending"
  PROVE  IInv'
<1>1. DOMAIN status' = DOMAIN status
  OBVIOUS
<1>2. \A i \in Ids : Handed(i) => Handed(i)'
  BY <1>1 DEF Handed
<1>3. TypeInv'
  BY <1>1 DEF IInv, TypeInv, IsThread, HeartbeatThreads, ResultThreads
<1>4. RowsInv'
  BY DEF IInv, RowsInv
<1>5. QueueInv'
  BY <1>2 DEF IInv, QueueInv, TypeInv, NotRun
<1>6. ASSUME NEW v \in threads, v # t
      PROVE  Expected(v)'
  <2>1. /\ v.kind = "heartbeat" => v.marked \subseteq queue
        /\ Expected(v)
    BY <1>6 DEF IInv, TypeInv, ThreadsInv, IsThread, HeartbeatThreads, ResultThreads
  <2>2. QED
    BY <1>2, <2>1 DEF Expected, NotRun, IInv, TypeInv
<1>7. ThreadsInv'
  BY <1>6 DEF IInv, ThreadsInv
<1>8. QED
  BY <1>3, <1>4, <1>5, <1>7 DEF IInv

\* Threads end, and nothing else happens.
LEMMA ThreadsEnd ==
  ASSUME IInv, threads' \subseteq threads, UNCHANGED <<queue, status, agent, executed>>
  PROVE  IInv'
BY DEF IInv, TypeInv, RowsInv, QueueInv, ThreadsInv, Expected, NotRun, Handed, IsThread,
       HeartbeatThreads, ResultThreads

\* The agent waits for no answer any more, and has got its commands.
LEMMA NobodyAwaited ==
  ASSUME IInv, UNCHANGED <<queue, status, executed>>,
         \A t \in threads' : ~t.awaited /\ IsThread(t),
         agent' \in [pc : {"rest", "heartbeat", "run", "result"}, left : SUBSET queue],
         \A c \in agent'.left : NotRun(c.id) /\ Handed(c.id)
  PROVE  IInv'
<1>1. TypeInv' /\ RowsInv'
  BY DEF IInv, TypeInv, RowsInv, IsThread, HeartbeatThreads, ResultThreads
<1>2. QueueInv'
  BY DEF IInv, QueueInv, NotRun, Handed
<1>3. ThreadsInv'
  BY DEF ThreadsInv, Expected
<1>4. QED
  BY <1>1, <1>2, <1>3 DEF IInv

\* With the thread that is awaited, the waiting ends.
LEMMA OthersUnawaited ==
  ASSUME IInv, NEW t \in threads, t.awaited
  PROVE  \A u \in threads \ {t} : ~u.awaited /\ IsThread(u)
BY DEF IInv, TypeInv, ThreadsInv

-----------------------------------------------------------------------------
LEMMA QueueCommandStep ==
  ASSUME IInv, NEW i \in Ids, NEW action \in Actions, QueueCommand(i, action)
  PROVE  IInv'
<1> DEFINE c == [id |-> i, action |-> action, ts |-> Cardinality(queue)]
<1>1. /\ i \notin DOMAIN status
      /\ queue' = queue \cup {c} /\ c.id = i
      /\ status' = [x \in DOMAIN status \cup {i} |-> IF x = i THEN "pending" ELSE status[x]]
      /\ UNCHANGED <<agent, threads, executed>>
  BY DEF QueueCommand, history
<1> HIDE DEF c
<1>2. /\ DOMAIN status' = DOMAIN status \cup {i}
      /\ \A j \in Ids : Handed(j)' <=> Handed(j)
  BY <1>1 DEF Handed
<1>3. TypeInv'
  <2>1. \A t \in threads : IsThread(t)'
    BY <1>1 DEF IInv, TypeInv, IsThread, HeartbeatThreads, ResultThreads
  <2>2. status' \in [DOMAIN status' -> {"pending", "sent", "done", "failed"}]
    BY <1>1, <1>2 DEF IInv, TypeInv
  <2>3. QED
    BY <1>1, <1>2, <2>1, <2>2 DEF IInv, TypeInv
<1>4. RowsInv'
  BY <1>1 DEF IInv, TypeInv, RowsInv
<1>5. QueueInv'
  BY <1>1, <1>2 DEF IInv, TypeInv, QueueInv, NotRun
<1>6. ThreadsInv'
  <2>1. \A t \in threads : t.kind = "heartbeat" => t.marked \subseteq queue
    BY DEF IInv, TypeInv, IsThread, HeartbeatThreads, ResultThreads
  <2>2. QED
    BY <1>1, <1>2, <2>1 DEF IInv, TypeInv, ThreadsInv, Expected, NotRun
<1>7. QED
  BY <1>3, <1>4, <1>5, <1>6 DEF IInv

\* Send, when nothing is awaited.
LEMMA SendStep ==
  ASSUME IInv, NEW t, threads' = threads \cup {t}, IsThread(t), Expected(t)',
         \A u \in threads : ~u.awaited,
         UNCHANGED <<queue, status>>, TypeInv', QueueInv'
  PROVE  IInv'
BY DEF IInv, RowsInv, ThreadsInv, Expected

LEMMA HeartbeatStep ==
  ASSUME IInv, Heartbeat
  PROVE  IInv'
<1> PICK t : t = HeartbeatThread
  OBVIOUS
<1>1. t \in HeartbeatThreads({NewThread})
  BY DEF HeartbeatThread, HeartbeatThreads
<1>2. /\ agent.pc = "rest" /\ agent.left = {}
      /\ agent' = [agent EXCEPT !.pc = "heartbeat"]
      /\ threads' = threads \cup {t}
      /\ UNCHANGED <<queue, status, executed>>
  BY DEF Heartbeat, Resting, Send
<1>3. IsThread(t) /\ t.kind = "heartbeat" /\ t.batch = {} /\ t.marked = {}
  BY <1>1 DEF HeartbeatThread, IsThread
<1>4. \A u \in threads : ~u.awaited
  BY <1>2 DEF IInv, TypeInv, ThreadsInv, Expected, IsThread, HeartbeatThreads, ResultThreads
<1>5. agent' \in [pc : {"rest", "heartbeat", "run", "result"}, left : SUBSET queue]
      /\ agent'.pc = "heartbeat" /\ agent'.left = {}
  BY <1>2 DEF IInv, TypeInv
<1>6. TypeInv'
  BY <1>2, <1>3, <1>5 DEF IInv, TypeInv, IsThread, HeartbeatThreads, ResultThreads
<1>7. QueueInv'
  BY <1>2, <1>5 DEF IInv, QueueInv, NotRun, Handed
<1>8. Expected(t)'
  BY <1>3, <1>5 DEF Expected
<1>9. QED
  BY <1>2, <1>3, <1>4, <1>6, <1>7, <1>8, SendStep

LEMMA RunStep ==
  ASSUME IInv, NEW c \in queue, NEW success \in BOOLEAN, Run(c, success)
  PROVE  IInv'
<1> PICK t : t = ResultThread(c, success)
  OBVIOUS
<1>1. t \in ResultThreads({NewThread})
  BY DEF ResultThread, ResultThreads
<1>2. /\ agent.pc = "run" /\ c \in agent.left
      /\ agent' = [pc |-> "result", left |-> agent.left \ {c}]
      /\ threads' = threads \cup {t}
      /\ executed' = [executed EXCEPT ![c.id] = @ + 1]
      /\ UNCHANGED <<queue, status>>
  BY DEF Run, First, Send
<1>3. IsThread(t) /\ t.kind = "result"
  BY <1>1 DEF ResultThread, IsThread
<1>4. \A u \in threads : ~u.awaited
  BY <1>2 DEF IInv, TypeInv, ThreadsInv, Expected, IsThread, HeartbeatThreads, ResultThreads
<1>5. /\ agent' \in [pc : {"rest", "heartbeat", "run", "result"}, left : SUBSET queue]
      /\ executed' \in [Ids -> Nat]
      /\ c.id \in Ids /\ executed[c.id] = 0 /\ executed'[c.id] = 1
      /\ \A i \in Ids \ {c.id} : executed'[i] = executed[i]
      /\ \A d \in agent.left : d.id \in Ids
  BY <1>2 DEF IInv, TypeInv, QueueInv, NotRun
<1>6. TypeInv'
  BY <1>2, <1>3, <1>5 DEF IInv, TypeInv, IsThread, HeartbeatThreads, ResultThreads
<1>7. QueueInv'
  <2>1. \A d \in agent.left \ {c} : d.id # c.id
    BY <1>2 DEF IInv, RowsInv, TypeInv
  <2>2. Handed(c.id)
    BY <1>2 DEF IInv, QueueInv
  <2>3. QED
    BY <1>2, <1>5, <2>1, <2>2 DEF IInv, QueueInv, NotRun, Handed
<1>8. Expected(t)'
  BY <1>2, <1>3 DEF Expected
<1>9. QED
  BY <1>2, <1>3, <1>4, <1>6, <1>7, <1>8, SendStep

LEMMA SelectStep ==
  ASSUME IInv, NEW t \in threads, Select(t)
  PROVE  IInv'
<1> DEFINE batch == {c \in queue : status[c.id] = "pending"}
<1> PICK u : u = [t EXCEPT !.pc = "mark", !.batch = batch]
  OBVIOUS
<1>1. PICK N : t \in HeartbeatThreads(N)
  BY DEF Select, IInv, TypeInv, IsThread, HeartbeatThreads, ResultThreads
<1>2. /\ u \in HeartbeatThreads(N)
      /\ u.batch = batch /\ u.marked = t.marked /\ u.awaited = t.awaited
  BY <1>1 DEF HeartbeatThreads
<1>3. \A c \in batch : NotRun(c.id)
  BY DEF IInv, TypeInv, QueueInv, Handed
<1>4. Expected(u)
  BY <1>1, <1>2, <1>3 DEF HeartbeatThreads, IInv, ThreadsInv, Expected
<1>5. /\ threads' = (threads \ {t}) \cup {u}
      /\ UNCHANGED <<queue, agent, executed, status>>
  BY DEF Select, Becomes, history
<1>6. IsThread(u) /\ Expected(u)'
  BY <1>2, <1>4, <1>5 DEF IsThread, Expected, NotRun, Handed
<1>7. QED
  BY <1>2, <1>5, <1>6, ThreadGoesOn DEF IInv, TypeInv

LEMMA MarkStep ==
  ASSUME IInv, NEW t \in threads, Mark(t)
  PROVE  IInv'
<1>1. PICK c \in t.batch : /\ First(c, t.batch \ t.marked)
                           /\ status' = [status EXCEPT ![c.id] = "sent"]
                           /\ Becomes(t, [t EXCEPT !.marked = @ \cup {c}])
  BY DEF Mark
<1> PICK u : u = [t EXCEPT !.marked = @ \cup {c}]
  OBVIOUS
<1>2. PICK N : t \in HeartbeatThreads(N)
  BY DEF Mark, IInv, TypeInv, IsThread, HeartbeatThreads, ResultThreads
<1>3. /\ u \in HeartbeatThreads(N)
      /\ u.batch = t.batch /\ u.marked = t.marked \cup {c} /\ u.awaited = t.awaited
      /\ c \in queue /\ c.id \in DOMAIN status
  BY <1>2 DEF HeartbeatThreads, IInv, TypeInv
<1>4. /\ status' \in [DOMAIN status -> {"pending", "sent", "done", "failed"}]
      /\ \A i \in DOMAIN status : status'[i] = status[i] \/ status'[i] # "pending"
      /\ DOMAIN status' = DOMAIN status /\ status'[c.id] = "sent"
  BY <1>1, <1>3 DEF IInv, TypeInv
<1>5. /\ threads' = (threads \ {t}) \cup {u}
      /\ UNCHANGED <<queue, agent, executed>>
  BY <1>1 DEF Mark, Becomes, history
<1>6. Expected(u)'
  BY <1>2, <1>3, <1>4, <1>5 DEF HeartbeatThreads, IInv, ThreadsInv, Expected, NotRun, Handed
<1>7. IsThread(u)
  BY <1>3 DEF IsThread
<1>8. QED
  BY <1>3, <1>4, <1>5, <1>6, <1>7, ThreadGoesOn

LEMMA CompleteOrFlagStep ==
  ASSUME IInv, NEW t \in threads, Complete(t) \/ Flag(t)
  PROVE  IInv'
<1>1. PICK N : t \in ResultThreads(N)
  BY DEF Complete, Flag, IInv, TypeInv, IsThread, HeartbeatThreads, ResultThreads
<1>2. PICK pc \in {"flag", "answer"} : Becomes(t, [t EXCEPT !.pc = pc])
  BY DEF Complete, Flag
<1> PICK u : u = [t EXCEPT !.pc = pc]
  OBVIOUS
<1>3. /\ u \in ResultThreads(N) /\ u.awaited = t.awaited /\ u.kind = "result"
      /\ t.kind = "result" /\ t.cmd \in queue
  BY <1>1 DEF ResultThreads
<1>4. /\ threads' = (threads \ {t}) \cup {u}
      /\ UNCHANGED <<queue, agent, executed>>
  BY <1>2 DEF Complete, Flag, Becomes, history
<1>5. /\ status' \in [DOMAIN status -> {"pending", "sent", "done", "failed"}]
      /\ \A i \in DOMAIN status : status'[i] = status[i] \/ status'[i] # "pending"
  <2>1. CASE Complete(t)
    BY <1>3, <2>1 DEF Complete, IInv, TypeInv
  <2>2. CASE Flag(t)
    BY <2>2 DEF Flag, IInv, TypeInv
  <2>3. QED BY <2>1, <2>2
<1>6. IsThread(u) /\ Expected(u)'
  BY <1>3, <1>4 DEF IInv, ThreadsInv, Expected, IsThread
<1>7. QED
  BY <1>3, <1>4, <1>5, <1>6, ThreadGoesOn

-----------------------------------------------------------------------------
LEMMA NextCommandType ==
  ASSUME IInv, NextCommand
  PROVE  /\ agent' \in [pc : {"rest", "heartbeat", "run", "result"}, left : SUBSET queue]
         /\ \A c \in agent'.left : NotRun(c.id) /\ Handed(c.id)
BY DEF NextCommand, Resting, IInv, TypeInv, QueueInv

LEMMA RestingType ==
  ASSUME IInv, agent' = Resting
  PROVE  /\ agent' \in [pc : {"rest", "heartbeat", "run", "result"}, left : SUBSET queue]
         /\ \A c \in agent'.left : NotRun(c.id) /\ Handed(c.id)
BY DEF Resting

LEMMA AnswerHeartbeatStep ==
  ASSUME IInv, NEW t \in threads, AnswerHeartbeat(t)
  PROVE  IInv'
<1>1. /\ threads' = threads \ {t} /\ UNCHANGED <<queue, status, executed>>
      /\ t.marked = t.batch
  BY DEF AnswerHeartbeat
<1>2. CASE ~t.awaited
  BY <1>1, <1>2, ThreadsEnd DEF AnswerHeartbeat
<1>3. CASE t.awaited
  <2>1. /\ t.batch \subseteq queue
        /\ \A c \in t.batch : NotRun(c.id) /\ Handed(c.id)
    BY <1>1, <1>3 DEF AnswerHeartbeat, IInv, TypeInv, ThreadsInv, Expected, IsThread,
                      HeartbeatThreads, ResultThreads
  <2>2. agent' \in {Resting, [pc |-> "run", left |-> t.batch]}
    BY <1>3 DEF AnswerHeartbeat
  <2>3. /\ agent' \in [pc : {"rest", "heartbeat", "run", "result"}, left : SUBSET queue]
        /\ \A c \in agent'.left : NotRun(c.id) /\ Handed(c.id)
    BY <2>1, <2>2, RestingType
  <2>4. QED
    BY <1>1, <1>3, <2>3, OthersUnawaited, NobodyAwaited
<1>4. QED
  BY <1>2, <1>3

LEMMA AnswerResultStep ==
  ASSUME IInv, NEW t \in threads, AnswerResult(t)
  PROVE  IInv'
<1>1. threads' = threads \ {t} /\ UNCHANGED <<queue, status, executed>>
  BY DEF AnswerResult, history
<1>2. CASE ~t.awaited
  BY <1>1, <1>2, ThreadsEnd DEF AnswerResult
<1>3. CASE t.awaited
  <2>1. NextCommand
    BY <1>3 DEF AnswerResult
  <2>2. QED
    BY <1>1, <1>3, <2>1, NextCommandType, OthersUnawaited, NobodyAwaited
<1>4. QED
  BY <1>2, <1>3

LEMMA GiveUpStep ==
  ASSUME IInv, NEW t \in threads, GiveUp(t)
  PROVE  IInv'
<1> PICK u : u = [t EXCEPT !.awaited = FALSE]
  OBVIOUS
<1>1. IsThread(u) /\ ~u.awaited
  <2>1. PICK N : t \in HeartbeatThreads(N) \/ t \in ResultThreads(N)
    BY DEF IInv, TypeInv, IsThread
  <2>2. (u \in HeartbeatThreads(N) \/ u \in ResultThreads(N)) /\ u.awaited = FALSE
    BY <2>1 DEF HeartbeatThreads, ResultThreads
  <2>3. QED BY <2>2 DEF IsThread
<1>2. /\ t.awaited /\ UNCHANGED <<queue, status, executed>>
      /\ threads' = (threads \ {t}) \cup {u} \/ threads' = threads \ {t}
      /\ NextCommand \/ agent' = Resting
  BY DEF GiveUp, Becomes
<1>3. \A v \in threads' : ~v.awaited /\ IsThread(v)
  BY <1>1, <1>2, OthersUnawaited
<1>4. QED
  BY <1>2, <1>3, NextCommandType, RestingType, NobodyAwaited

LEMMA RaiseStep ==
  ASSUME IInv, Raise
  PROVE  IInv'
<1>1. /\ agent.pc = "run" /\ agent' = Resting
      /\ UNCHANGED <<queue, status, threads, executed>>
  BY DEF Raise
<1>2. \A u \in threads : ~u.awaited /\ IsThread(u)
  BY <1>1 DEF IInv, TypeInv, ThreadsInv, Expected, IsThread, HeartbeatThreads, ResultThreads
<1>3. QED
  BY <1>1, <1>2, RestingType, NobodyAwaited

LEMMA RestartAgentStep ==
  ASSUME IInv, RestartAgent
  PROVE  IInv'
<1>1. /\ agent' = Resting /\ UNCHANGED <<queue, status, executed>>
      /\ threads' = {[t EXCEPT !.awaited = FALSE] : t \in threads}
  BY DEF RestartAgent
<1>2. ASSUME NEW t \in threads
      PROVE  IsThread([t EXCEPT !.awaited = FALSE]) /\ ~[t EXCEPT !.awaited = FALSE].awaited
  <2>1. PICK N : t \in HeartbeatThreads(N) \/ t \in ResultThreads(N)
    BY DEF IInv, TypeInv, IsThread
  <2> DEFINE u == [t EXCEPT !.awaited = FALSE]
  <2>2. (u \in HeartbeatThreads(N) \/ u \in ResultThreads(N)) /\ u.awaited = FALSE
    BY <2>1 DEF HeartbeatThreads, ResultThreads
  <2>3. QED BY <2>2 DEF IsThread
<1>3. \A u \in threads' : ~u.awaited /\ IsThread(u)
  BY <1>1, <1>2
<1>4. QED
  BY <1>1, <1>3, RestingType, NobodyAwaited

LEMMA RestartServerStep ==
  ASSUME IInv, RestartServer
  PROVE  IInv'
<1>1. /\ threads' = {} /\ UNCHANGED <<queue, status, executed>>
      /\ NextCommand \/ agent' = Resting \/ agent' = agent
  BY DEF RestartServer
<1>2. CASE NextCommand \/ agent' = Resting
  BY <1>1, <1>2, NextCommandType, RestingType, NobodyAwaited
<1>3. CASE agent' = agent
  BY <1>1, <1>3, ThreadsEnd
<1>4. QED
  BY <1>1, <1>2, <1>3

LEMMA NextInv ==
  ASSUME IInv, [Next]_vars
  PROVE  IInv'
<1>1. CASE UNCHANGED vars
  BY <1>1, ThreadsEnd DEF vars, history
<1>2. QED
  BY <1>1, QueueCommandStep, HeartbeatStep, SelectStep, MarkStep, AnswerHeartbeatStep, RunStep,
     CompleteOrFlagStep, AnswerResultStep, GiveUpStep, RaiseStep, RestartAgentStep,
     RestartServerStep DEF Next

(* pending_commands and run_command: a command is run at most once,        *)
(* whatever requests are lost, given up or overlap, and whichever side is  *)
(* restarted.                                                              *)
THEOREM NoCommandIsRunTwice == Spec => []RunAtMostOnce
<1>1. IInv => RunAtMostOnce
  BY DEF IInv, QueueInv, RunAtMostOnce
<1>2. QED
  BY <1>1, InitInv, NextInv, PTL DEF Spec

-----------------------------------------------------------------------------
(* The flag in the console.  While every result was handled before the next *)
(* request, at most one thread handles one, and it will set the flag to    *)
(* what the endpoint is; without such a thread, a flag that is wrong has a  *)
(* command that shows it, which no thread is about to mark as done.        *)
Results == {t \in threads : t.kind = "result"}

Settling(t) == t.success /\ t.cmd.action # "other" /\ t.pc \in {"complete", "flag"}

Shows(c) ==
  /\ c.action # "other"
  /\ executed[c.id] = 1
  /\ status[c.id] \in {"sent", "failed"}
  /\ \A t \in Results : t.cmd = c /\ t.success => t.pc # "complete"

Reporting(t) ==
  /\ t.pc = "complete" => status[t.cmd.id] = "sent"
  /\ t.pc = "flag" => t.success /\ t.cmd.action # "other"
  /\ Settling(t) => host = (t.cmd.action = "isolate_host")

RanInv ==
  /\ \A c \in queue : c.action \in Actions
  /\ \A i \in DOMAIN status : NotRun(i) => status[i] \in {"pending", "sent"}
  /\ \A t \in Results : executed[t.cmd.id] = 1

FlagInv ==
  ~unsettled =>
    /\ \A t, u \in Results : t = u
    /\ \A t \in Results : Reporting(t)
    /\ isolated # host => (\E t \in Results : Settling(t)) \/ (\E c \in queue : Shows(c))

JInv == RanInv /\ FlagInv

LEMMA InitJInv == Init => JInv
<1> SUFFICES ASSUME Init PROVE JInv
  OBVIOUS
<1>1. queue = {} /\ DOMAIN status = {} /\ threads = {}
  BY DEF Init
<1>2. isolated = host
  BY DEF Init
<1>3. QED
  BY <1>1, <1>2 DEF JInv, RanInv, FlagInv, Results

LEMMA ResultFields ==
  ASSUME IInv, NEW t \in Results
  PROVE  /\ t.kind = "result" /\ t.cmd \in queue /\ t.cmd.id \in DOMAIN status
         /\ t.cmd.id \in Ids /\ t.success \in BOOLEAN
         /\ t.pc \in {"complete", "flag", "answer"}
         /\ \E N : t \in ResultThreads(N)
BY DEF Results, IInv, TypeInv, IsThread, HeartbeatThreads, ResultThreads

Alike(t, u) == t.cmd = u.cmd /\ t.pc = u.pc /\ t.success = u.success

\* No result goes on or ends, and commands are only added, or marked as sent.
LEMMA ResultsWait ==
  ASSUME IInv, JInv, UNCHANGED <<isolated, host, executed>>,
         ~unsettled' => ~unsettled /\ \A t, u \in Results' : t = u,
         \A t \in Results' : \E u \in Results : Alike(t, u),
         \A u \in Results : \E t \in Results' : Alike(t, u),
         queue \subseteq queue', \A c \in queue' : c.action \in Actions,
         DOMAIN status \subseteq DOMAIN status',
         \A i \in DOMAIN status : status'[i] = status[i] \/ status'[i] = "sent",
         \A i \in DOMAIN status' \ DOMAIN status : status'[i] = "pending"
  PROVE  JInv'
<1>1. RanInv'
  <2>1. \A i \in DOMAIN status' : NotRun(i)' => status'[i] \in {"pending", "sent"}
    BY DEF JInv, RanInv, NotRun
  <2>2. \A t \in Results' : executed'[t.cmd.id] = 1
    BY DEF JInv, RanInv, Alike
  <2>3. QED
    BY <2>1, <2>2 DEF RanInv
<1>2. SUFFICES ASSUME ~unsettled' PROVE FlagInv'
  BY <1>1 DEF JInv, FlagInv
<1>3. ASSUME NEW t \in Results' PROVE Reporting(t)'
  <2>1. PICK u \in Results : Alike(t, u)
    OBVIOUS
  <2>2. Reporting(u) /\ u.cmd.id \in DOMAIN status
    BY <1>2, ResultFields DEF JInv, FlagInv
  <2>3. QED
    BY <2>1, <2>2 DEF Alike, Reporting, Settling
<1>4. ASSUME NEW c \in queue, Shows(c) PROVE Shows(c)'
  <2>1. c.id \in DOMAIN status
    BY DEF IInv, TypeInv
  <2>2. \A t \in Results' : t.cmd = c /\ t.success => t.pc # "complete"
    BY <1>4 DEF Shows, Alike
  <2>3. QED
    BY <1>4, <2>1, <2>2 DEF Shows
<1>5. ASSUME NEW u \in Results, Settling(u) PROVE \E t \in Results' : Settling(t)
  BY <1>5 DEF Settling, Alike
<1>6. isolated' # host' => (\E t \in Results' : Settling(t)) \/ (\E c \in queue' : Shows(c)')
  BY <1>2, <1>4, <1>5 DEF JInv, FlagInv
<1>7. QED
  BY <1>2, <1>3, <1>6 DEF FlagInv, Settling

\* Results end, none of them before it has set the flag.
LEMMA ResultsEnd ==
  ASSUME IInv, JInv, UNCHANGED <<queue, status, isolated, host, executed>>,
         Results' \subseteq Results,
         ~unsettled' => ~unsettled /\ \A t \in Results \ Results' : t.pc # "flag"
  PROVE  JInv'
<1>1. RanInv'
  BY DEF JInv, RanInv, NotRun
<1>2. SUFFICES ASSUME ~unsettled' PROVE FlagInv'
  BY <1>1 DEF JInv, FlagInv
<1>3. /\ \A t, u \in Results' : t = u
      /\ \A t \in Results' : Reporting(t)'
  BY <1>2 DEF JInv, FlagInv, Reporting, Settling
<1>4. ASSUME NEW c \in queue, Shows(c) PROVE Shows(c)'
  BY <1>4 DEF Shows
<1>5. ASSUME NEW t \in Results, Settling(t), t \notin Results' PROVE Shows(t.cmd)' /\ t.cmd \in queue
  <2>1. t.pc = "complete"
    BY <1>2, <1>5 DEF Settling
  <2>2. status[t.cmd.id] = "sent" /\ executed[t.cmd.id] = 1 /\ t.cmd.action # "other"
    BY <1>2, <1>5, <2>1 DEF JInv, FlagInv, RanInv, Reporting, Settling
  <2>3. Results' = {}
    BY <1>2, <1>5 DEF JInv, FlagInv
  <2>4. QED
    BY <2>2, <2>3, ResultFields DEF Shows
<1>6. isolated' # host' => (\E t \in Results' : Settling(t)) \/ (\E c \in queue' : Shows(c)')
  BY <1>2, <1>4, <1>5 DEF JInv, FlagInv
<1>7. QED
  BY <1>3, <1>6 DEF FlagInv, Settling

LEMMA RunFlag ==
  ASSUME IInv, JInv, NEW c \in queue, NEW success \in BOOLEAN, Run(c, success)
  PROVE  JInv'
<1> PICK t : t = ResultThread(c, success)
  OBVIOUS
<1>1. /\ t.kind = "result" /\ t.cmd = c /\ t.pc = "complete" /\ t.success = success
  BY DEF ResultThread
<1>2. /\ c \in agent.left /\ threads' = threads \cup {t}
      /\ unsettled' = (unsettled \/ Results # {})
      /\ executed' = [executed EXCEPT ![c.id] = @ + 1]
      /\ host' \in Effect(c.action, success)
      /\ UNCHANGED <<queue, status, isolated>>
  BY DEF Run, First, Send, Results
<1>3. Results' = Results \cup {t}
  BY <1>1, <1>2 DEF Results
<1>4. /\ c.id \in Ids /\ c.id \in DOMAIN status
      /\ executed[c.id] = 0 /\ executed'[c.id] = 1
      /\ \A i \in Ids \ {c.id} : executed'[i] = executed[i]
      /\ DOMAIN status \subseteq Ids
  BY <1>2 DEF IInv, TypeInv, QueueInv, NotRun
<1>5. status[c.id] = "sent"
  BY <1>2, <1>4 DEF IInv, QueueInv, Handed, JInv, RanInv, NotRun
<1>6. RanInv'
  <2>1. \A u \in Results : u.cmd.id \in Ids /\ u.cmd.id # c.id
    BY <1>4, ResultFields DEF JInv, RanInv
  <2>2. \A u \in Results' : executed'[u.cmd.id] = 1
    BY <1>1, <1>3, <1>4, <2>1 DEF JInv, RanInv
  <2>3. \A i \in DOMAIN status' : NotRun(i)' => status'[i] \in {"pending", "sent"}
    BY <1>2, <1>4 DEF JInv, RanInv, NotRun
  <2>4. QED
    BY <1>2, <2>2, <2>3 DEF JInv, RanInv
<1>7. SUFFICES ASSUME ~unsettled' PROVE FlagInv'
  BY <1>6 DEF JInv, FlagInv
<1>8. ~unsettled /\ Results = {} /\ Results' = {t}
  BY <1>2, <1>3, <1>7
<1>9. c.action \in Actions
  BY DEF JInv, RanInv
<1>10. Settling(t) => host' = (c.action = "isolate_host")
  <2>1. CASE success /\ c.action = "isolate_host"
    BY <1>2, <2>1 DEF Effect
  <2>2. CASE success /\ c.action = "release_host"
    BY <1>2, <2>2 DEF Effect
  <2>3. QED
    BY <1>1, <1>9, <2>1, <2>2 DEF Settling, Actions
<1>11. Reporting(t)'
  BY <1>1, <1>2, <1>5, <1>10 DEF Reporting, Settling
<1>12. ASSUME isolated' # host', ~Settling(t) PROVE \E d \in queue' : Shows(d)'
  <2>1. CASE c.action # "other"
    <3>1. ~success
      BY <1>1, <1>12, <2>1 DEF Settling
    <3>2. Shows(c)'
      BY <1>1, <1>2, <1>4, <1>5, <1>8, <2>1, <3>1 DEF Shows
    <3>3. QED
      BY <1>2, <3>2
  <2>2. CASE c.action = "other"
    <3>1. host' = host
      BY <1>2, <2>2 DEF Effect
    <3>2. PICK d \in queue : Shows(d)
      BY <1>2, <1>8, <1>12, <3>1 DEF JInv, FlagInv
    <3>3. d # c /\ d.id # c.id /\ d.id \in Ids
      BY <1>4, <3>2 DEF Shows, IInv, RowsInv, TypeInv
    <3>4. Shows(d)'
      BY <1>1, <1>2, <1>4, <1>8, <3>2, <3>3 DEF Shows
    <3>5. QED
      BY <1>2, <3>4
  <2>3. QED
    BY <2>1, <2>2
<1>13. QED
  BY <1>8, <1>11, <1>12 DEF FlagInv, Settling

LEMMA CompleteFlag ==
  ASSUME IInv, JInv, NEW t \in threads, Complete(t)
  PROVE  JInv'
<1> PICK pc : pc = IF t.success /\ t.cmd.action # "other" THEN "flag" ELSE "answer"
  OBVIOUS
<1> PICK u : u = [t EXCEPT !.pc = pc]
  OBVIOUS
<1>1. /\ t \in Results /\ t.pc = "complete"
      /\ threads' = (threads \ {t}) \cup {u}
      /\ status' = [status EXCEPT ![t.cmd.id] = IF t.success THEN "done" ELSE "failed"]
      /\ UNCHANGED <<queue, isolated, host, executed, unsettled>>
  BY DEF Complete, Results, Becomes, history
<1>2. u.kind = "result" /\ u.cmd = t.cmd /\ u.success = t.success /\ u.pc = pc
  BY <1>1, ResultFields DEF ResultThreads
<1>3. Results' = (Results \ {t}) \cup {u}
  BY <1>1, <1>2 DEF Results
<1>4. t.cmd \in queue /\ t.cmd.id \in DOMAIN status /\ executed[t.cmd.id] = 1
  BY <1>1, ResultFields DEF JInv, RanInv
<1>5. /\ DOMAIN status' = DOMAIN status
      /\ status'[t.cmd.id] = IF t.success THEN "done" ELSE "failed"
      /\ \A i \in DOMAIN status \ {t.cmd.id} : status'[i] = status[i]
  BY <1>1, <1>4 DEF IInv, TypeInv
<1>6. RanInv'
  <2>1. \A i \in DOMAIN status' : NotRun(i)' => status'[i] \in {"pending", "sent"}
    BY <1>1, <1>4, <1>5 DEF JInv, RanInv, NotRun
  <2>2. \A v \in Results' : executed'[v.cmd.id] = 1
    BY <1>1, <1>2, <1>3, <1>4 DEF JInv, RanInv
  <2>3. QED
    BY <1>1, <2>1, <2>2 DEF JInv, RanInv
<1>7. SUFFICES ASSUME ~unsettled' PROVE FlagInv'
  BY <1>6 DEF JInv, FlagInv
<1>8. ~unsettled /\ Results = {t} /\ Results' = {u} /\ Reporting(t)
  BY <1>1, <1>3, <1>7 DEF JInv, FlagInv
<1>9. Reporting(u)'
  BY <1>1, <1>2, <1>8 DEF Reporting, Settling
<1>10. CASE Settling(t)
  <2>1. Settling(u)
    BY <1>2, <1>10 DEF Settling
  <2>2. QED
    BY <1>8, <1>9, <2>1 DEF FlagInv, Settling
<1>11. CASE ~Settling(t)
  <2>1. ASSUME NEW c \in queue, Shows(c) PROVE Shows(c)'
    <3>1. c.id \in DOMAIN status
      BY DEF IInv, TypeInv
    <3>2. c.id = t.cmd.id => c = t.cmd /\ ~t.success
      BY <1>1, <1>4, <2>1 DEF Shows, IInv, RowsInv
    <3>3. status'[c.id] \in {"sent", "failed"}
      BY <1>5, <2>1, <3>1, <3>2 DEF Shows
    <3>4. u.pc # "complete"
      BY <1>2
    <3>5. QED
      BY <1>1, <1>8, <2>1, <3>3, <3>4 DEF Shows
  <2>2. isolated # host => \E c \in queue : Shows(c)
    BY <1>8, <1>11 DEF JInv, FlagInv
  <2>3. QED
    BY <1>1, <1>8, <1>9, <2>1, <2>2 DEF FlagInv
<1>12. QED
  BY <1>10, <1>11

LEMMA FlagFlag ==
  ASSUME IInv, JInv, NEW t \in threads, Flag(t)
  PROVE  JInv'
<1> PICK u : u = [t EXCEPT !.pc = "answer"]
  OBVIOUS
<1>1. /\ t \in Results /\ t.pc = "flag"
      /\ threads' = (threads \ {t}) \cup {u}
      /\ isolated' = (t.cmd.action = "isolate_host")
      /\ UNCHANGED <<queue, status, host, executed, unsettled>>
  BY DEF Flag, Results, Becomes, history
<1>2. u.kind = "result" /\ u.cmd = t.cmd /\ u.success = t.success /\ u.pc = "answer"
  BY <1>1, ResultFields DEF ResultThreads
<1>3. Results' = (Results \ {t}) \cup {u}
  BY <1>1, <1>2 DEF Results
<1>4. RanInv'
  BY <1>1, <1>2, <1>3 DEF JInv, RanInv, NotRun
<1>5. SUFFICES ASSUME ~unsettled' PROVE FlagInv'
  BY <1>4 DEF JInv, FlagInv
<1>6. ~unsettled /\ Results' = {u} /\ Reporting(t)
  BY <1>1, <1>3, <1>5 DEF JInv, FlagInv
<1>7. isolated' = host'
  BY <1>1, <1>6 DEF Reporting, Settling
<1>8. Reporting(u)'
  BY <1>2 DEF Reporting, Settling
<1>9. QED
  BY <1>6, <1>7, <1>8 DEF FlagInv

LEMMA NextJInv ==
  ASSUME IInv, JInv, [Next]_vars
  PROVE  JInv'
<1>1. ASSUME Results' = Results, UNCHANGED <<isolated, host, executed, queue, status>>,
             ~unsettled' => ~unsettled
      PROVE  JInv'
  BY <1>1, ResultsEnd
<1>2. ASSUME NEW i \in Ids, NEW action \in Actions, QueueCommand(i, action) PROVE JInv'
  <2>1. /\ Results' = Results /\ unsettled' = unsettled
        /\ UNCHANGED <<isolated, host, executed>>
        /\ \E c : c.action = action /\ queue' = queue \cup {c}
        /\ status' = [x \in DOMAIN status \cup {i} |-> IF x = i THEN "pending" ELSE status[x]]
        /\ i \notin DOMAIN status
    BY <1>2 DEF QueueCommand, Results, history
  <2>2. \A c \in queue' : c.action \in Actions
    BY <2>1 DEF JInv, RanInv
  <2>3. ~unsettled' => \A t, u \in Results' : t = u
    BY <2>1 DEF JInv, FlagInv
  <2>4. QED
    BY <2>1, <2>2, <2>3, ResultsWait DEF Alike
<1>3. CASE Heartbeat
  <2>1. HeartbeatThread.kind = "heartbeat"
    BY DEF HeartbeatThread
  <2>2. QED
    BY <1>1, <1>3, <2>1 DEF Heartbeat, Send, Results
<1>4. ASSUME NEW t \in threads, Select(t) PROVE JInv'
  <2>1. \E N : t \in HeartbeatThreads(N)
    BY <1>4 DEF Select, IInv, TypeInv, IsThread, HeartbeatThreads, ResultThreads
  <2>2. [t EXCEPT !.pc = "mark", !.batch = {c \in queue : status[c.id] = "pending"}].kind = "heartbeat"
    BY <2>1 DEF HeartbeatThreads
  <2>3. QED
    BY <1>1, <1>4, <2>2 DEF Select, Becomes, Results, history
<1>5. ASSUME NEW t \in threads, Mark(t) PROVE JInv'
  <2>1. PICK c \in t.batch : /\ status' = [status EXCEPT ![c.id] = "sent"]
                             /\ Becomes(t, [t EXCEPT !.marked = @ \cup {c}])
    BY <1>5 DEF Mark
  <2>2. \E N : t \in HeartbeatThreads(N)
    BY <1>5 DEF Mark, IInv, TypeInv, IsThread, HeartbeatThreads, ResultThreads
  <2>3. [t EXCEPT !.marked = @ \cup {c}].kind = "heartbeat" /\ c \in queue
    BY <2>2 DEF HeartbeatThreads
  <2>4. /\ Results' = Results /\ unsettled' = unsettled
        /\ UNCHANGED <<isolated, host, executed, queue>>
    BY <1>5, <2>1, <2>3 DEF Mark, Becomes, Results, history
  <2>5. /\ DOMAIN status' = DOMAIN status
        /\ \A i \in DOMAIN status : status'[i] = status[i] \/ status'[i] = "sent"
    BY <2>1, <2>3 DEF IInv, TypeInv
  <2>6. /\ \A d \in queue' : d.action \in Actions
        /\ ~unsettled' => \A v, u \in Results' : v = u
    BY <2>4 DEF JInv, RanInv, FlagInv
  <2>7. QED
    BY <2>4, <2>5, <2>6, ResultsWait DEF Alike
<1>6. ASSUME NEW t \in threads, AnswerHeartbeat(t) PROVE JInv'
  BY <1>1, <1>6 DEF AnswerHeartbeat, Results
<1>7. ASSUME NEW t \in threads, AnswerResult(t) PROVE JInv'
  <2>1. /\ Results' = Results \ {t} /\ t.pc = "answer" /\ unsettled' = unsettled
        /\ UNCHANGED <<queue, status, isolated, host, executed>>
    BY <1>7 DEF AnswerResult, Results, history
  <2>2. QED
    BY <2>1, ResultsEnd
<1>8. ASSUME NEW t \in threads, GiveUp(t) PROVE JInv'
  <2>1. UNCHANGED <<queue, status, isolated, host, executed, unsettled>>
    BY <1>8 DEF GiveUp
  <2>2. CASE threads' = threads \ {t} /\ t.pc \in {"select", "complete"}
    <3>1. Results' = Results \ {t}
      BY <2>2 DEF Results
    <3>2. QED
      BY <2>1, <2>2, <3>1, ResultsEnd
  <2>3. CASE Becomes(t, [t EXCEPT !.awaited = FALSE])
    <3> PICK u : u = [t EXCEPT !.awaited = FALSE]
      OBVIOUS
    <3>1. threads' = (threads \ {t}) \cup {u}
      BY <2>3 DEF Becomes
    <3>2. u.kind = t.kind /\ (t \in Results => Alike(u, t))
      BY <1>8, ResultFields DEF Alike, ResultThreads, HeartbeatThreads, IInv, TypeInv, IsThread
    <3>3. CASE t \notin Results
      BY <1>1, <2>1, <3>1, <3>2, <3>3 DEF Results
    <3>4. CASE t \in Results
      <4>1. Results' = (Results \ {t}) \cup {u}
        BY <3>1, <3>2, <3>4 DEF Results
      <4>2. ~unsettled' => ~unsettled /\ \A v, w \in Results' : v = w
        BY <2>1, <3>4, <4>1 DEF JInv, FlagInv
      <4>3. /\ \A v \in Results' : \E w \in Results : Alike(v, w)
            /\ \A w \in Results : \E v \in Results' : Alike(v, w)
        BY <3>2, <3>4, <4>1 DEF Alike
      <4>4. QED
        BY <2>1, <4>2, <4>3, ResultsWait DEF JInv, RanInv
    <3>5. QED
      BY <3>3, <3>4
  <2>4. QED
    BY <1>8, <2>2, <2>3 DEF GiveUp
<1>9. CASE Raise
  BY <1>1, <1>9 DEF Raise, Results
<1>10. CASE RestartAgent
  <2>1. /\ threads' = {[t EXCEPT !.awaited = FALSE] : t \in threads}
        /\ UNCHANGED <<queue, status, isolated, host, executed, unsettled>>
    BY <1>10 DEF RestartAgent
  <2>2. ASSUME NEW t \in threads
        PROVE  /\ [t EXCEPT !.awaited = FALSE].kind = t.kind
               /\ t \in Results => Alike([t EXCEPT !.awaited = FALSE], t)
    BY ResultFields DEF Alike, ResultThreads, HeartbeatThreads, IInv, TypeInv, IsThread
  <2>3. Results' = {[t EXCEPT !.awaited = FALSE] : t \in Results}
    BY <2>1, <2>2 DEF Results
  <2>4. ~unsettled' => ~unsettled /\ \A v, w \in Results' : v = w
    BY <2>1, <2>3 DEF JInv, FlagInv
  <2>5. /\ \A v \in Results' : \E w \in Results : Alike(v, w)
        /\ \A w \in Results : \E v \in Results' : Alike(v, w)
    BY <2>2, <2>3 DEF Results
  <2>6. QED
    BY <2>1, <2>4, <2>5, ResultsWait DEF JInv, RanInv
<1>11. CASE RestartServer
  <2>1. /\ Results' = {}
        /\ UNCHANGED <<queue, status, isolated, host, executed>>
        /\ unsettled' = (unsettled \/ \E t \in threads : t.pc = "flag")
    BY <1>11 DEF RestartServer, Results
  <2>2. \A t \in Results : t \in threads
    BY DEF Results
  <2>3. QED
    BY <2>1, <2>2, ResultsEnd
<1>12. CASE UNCHANGED vars
  BY <1>1, <1>12 DEF vars, history, Results
<1>13. QED
  BY <1>2, <1>3, <1>4, <1>5, <1>6, <1>7, <1>8, <1>9, <1>10, <1>11, <1>12,
     RunFlag, CompleteFlag, FlagFlag DEF Next

(* command_result, complete_command, set_agent_isolated: once nothing is   *)
(* under way, the flag in the console is right, or a command of the        *)
(* isolation without an answer, or that failed, shows that it may not be.  *)
THEOREM AWrongFlagIsVisible == Spec => []StaleFlagIsVisible
<1>1. IInv /\ JInv => StaleFlagIsVisible
  BY DEF JInv, FlagInv, Results, Shows, StaleFlagIsVisible
<1>2. QED
  BY <1>1, InitInv, NextInv, InitJInv, NextJInv, PTL DEF Spec

=============================================================================
