--------------------------- MODULE ResponseProofs ---------------------------
(***************************************************************************)
(* Theorems about Response, for any paths, contents, pids and bounds.      *)
(* kill_process kills the process it was meant for, however pids come and  *)
(* go: a pid goes to ever younger processes, so that one that is as old as *)
(* it was when the action looked at it is the same.  And the quarantine    *)
(* gives back what it took: while nothing has spoilt an id, the thread in  *)
(* the middle of moving its file is alone about it.                        *)
(***************************************************************************)
EXTENDS Response, TLAPS

Pcs == {"idle", "target", "kill", "sample", "pick", "find", "hash", "stop", "move", "unlink",
        "describe", "look", "back", "empty", "forget", "check", "remove"}
ProcessType == [alive : BOOLEAN, born : Int, exe : Paths \cup {None}, guarded : BOOLEAN,
                parent : Pids \cup {None}]
\* Paths, ids and digests do not matter here.
Jobs(P, I, D) ==
  [pc : Pcs, path : P, id : I, digest : D, pid : Pids \cup {None}, born : Int,
   meant : (Pids \X Int) \cup {NoId}, victims : SUBSET (Pids \X Int), before : SUBSET (Pids \X Int)]
IsJob(j) == \E P, I, D : j \in Jobs(P, I, D)

TypeInv ==
  /\ clock \in 0 .. MaxClock
  /\ procs \in [Pids -> ProcessType]
  /\ \A n \in Pids : procs[n].alive => procs[n].born \in Nat
  /\ job = [a \in Threads |-> job[a]]
  /\ \A a \in Threads : IsJob(job[a])

(* What an action j knows of the process it is about: the time of creation *)
(* that it will check, and what it has found to kill.                      *)
JobInv(j) ==
  /\ j.born # Unknown =>
       /\ j.pc \in {"target", "kill"}
       /\ j.pid \in Pids /\ j.meant = <<j.pid, j.born>>
       /\ j.born \in Nat /\ j.born <= procs[j.pid].born
  /\ j.pc = "target" => j.pid \in Pids
  /\ j.pc = "kill" =>
       /\ j.pid \in Pids
       /\ \A v \in j.victims : v[1] = j.pid => v[2] <= procs[j.pid].born
       /\ (procs[j.pid].alive /\ Process(j.pid) \in j.victims) =>
            /\ ~procs[j.pid].guarded
            /\ j.born # Unknown => procs[j.pid].born - j.born \in {0, 1}

JobsInv == \A a \in Threads : JobInv(job[a])

IInv == TypeInv /\ JobsInv /\ KillsWhatItMeant

-----------------------------------------------------------------------------
(* Processes end, and a pid goes to a younger one.                         *)
Aged ==
  \A n \in Pids :
    /\ procs[n].born <= procs'[n].born
    /\ (procs'[n].alive /\ procs'[n].born = procs[n].born) =>
         procs[n].alive /\ procs'[n].guarded = procs[n].guarded

LEMMA JobKept ==
  ASSUME TypeInv, TypeInv', Aged, NEW j, IsJob(j), JobInv(j)
  PROVE  JobInv(j)'
<1>1. \A n \in Pids : procs[n].born \in Int /\ procs'[n].born \in Int
  BY DEF TypeInv, ProcessType
<1>2. j.born # Unknown =>
       /\ j.pc \in {"target", "kill"}
       /\ j.pid \in Pids /\ j.meant = <<j.pid, j.born>>
       /\ j.born \in Nat /\ j.born <= procs'[j.pid].born
  BY <1>1 DEF JobInv, Aged
<1>3. ASSUME j.pc = "kill"
      PROVE  /\ j.pid \in Pids
             /\ \A v \in j.victims : v[1] = j.pid => v[2] <= procs'[j.pid].born
  BY <1>1, <1>3 DEF JobInv, Aged, IsJob, Jobs
<1>4. ASSUME j.pc = "kill", procs'[j.pid].alive, Process(j.pid)' \in j.victims
      PROVE  /\ ~procs'[j.pid].guarded
             /\ j.born # Unknown => procs'[j.pid].born - j.born \in {0, 1}
  <2>1. procs'[j.pid].born = procs[j.pid].born
    BY <1>1, <1>4 DEF JobInv, Aged, Process
  <2>2. QED
    BY <1>4, <2>1 DEF JobInv, Aged, Process
<1>5. QED
  BY <1>2, <1>3, <1>4 DEF JobInv

\* The threads go on with what they do, or one of them with j.
LEMMA JobsKept ==
  ASSUME TypeInv, JobsInv, TypeInv', Aged, NEW a \in Threads, NEW j, IsJob(j),
         JobInv(j) \/ JobInv(j)', job' = [job EXCEPT ![a] = j]
  PROVE  JobsInv'
<1>1. JobInv(j)'
  BY JobKept
<1>2. ASSUME NEW b \in Threads
      PROVE  JobInv(job[b])'
  <2> PICK i : i = job'[b]
    OBVIOUS
  <2>1. JobInv(i)'
    <3>1. CASE b = a
      <4>1. i = j
        BY <3>1 DEF TypeInv
      <4>2. QED BY <1>1, <4>1
    <3>2. CASE b # a
      <4>1. i = job[b] /\ IsJob(i)
        BY <3>2 DEF TypeInv
      <4>2. JobInv(i)
        BY <4>1 DEF JobsInv
      <4>3. QED BY <4>1, <4>2, JobKept
    <3>3. QED BY <3>1, <3>2
  <2>2. QED BY <2>1 DEF JobInv, Process
<1>3. QED
  BY <1>2 DEF JobsInv

-----------------------------------------------------------------------------
(* How processes come and go.                                              *)
ProcsType == procs \in [Pids -> ProcessType] /\ \A n \in Pids : procs[n].alive => procs[n].born \in Nat

LEMMA DetachedAges ==
  ASSUME ProcsType, NEW p, procs' = Detached(p)
  PROVE  ProcsType' /\ Aged
<1>1. ASSUME NEW n \in Pids
      PROVE  /\ procs'[n] \in ProcessType
             /\ procs'[n].alive = procs[n].alive /\ procs'[n].born = procs[n].born
             /\ procs'[n].guarded = procs[n].guarded
  <2>1. procs[n] \in ProcessType
    BY DEF ProcsType
  <2>2. procs'[n] = IF procs[n].exe = p THEN [procs[n] EXCEPT !.exe = None] ELSE procs[n]
    BY DEF Detached
  <2>3. QED BY <2>1, <2>2 DEF ProcessType
<1>2. procs' = [n \in Pids |-> procs'[n]]
  BY DEF Detached
<1>3. procs' \in [Pids -> ProcessType]
  BY <1>1, <1>2
<1>4. QED
  BY <1>1, <1>3 DEF ProcsType, ProcessType, Aged

LEMMA WithoutAges ==
  ASSUME ProcsType, NEW victims, procs' = Without(victims)
  PROVE  /\ ProcsType' /\ Aged
         /\ \A n \in Pids : procs'[n].born = procs[n].born
<1>1. ASSUME NEW n \in Pids
      PROVE  /\ procs'[n] \in ProcessType
             /\ procs'[n].born = procs[n].born
             /\ procs'[n].alive => procs[n].alive /\ procs'[n].guarded = procs[n].guarded
  <2>1. procs[n] \in ProcessType
    BY DEF ProcsType
  <2>2. procs'[n] \in {[NoProcess EXCEPT !.born = procs[n].born],
                       [procs[n] EXCEPT !.parent = None], procs[n]}
    BY DEF Without
  <2>3. QED BY <2>1, <2>2 DEF ProcessType, NoProcess
<1>2. procs' = [n \in Pids |-> procs'[n]]
  BY DEF Without
<1>3. procs' \in [Pids -> ProcessType]
  BY <1>1, <1>2
<1>4. QED
  BY <1>1, <1>3 DEF ProcsType, ProcessType, Aged

LEMMA StartAges ==
  ASSUME ProcsType, clock \in Nat, NEW n \in Pids, NEW p \in Paths \cup {None}, NEW g \in BOOLEAN,
         NEW parent \in Pids \cup {None}, Start(n, p, g, parent)
  PROVE  ProcsType' /\ Aged
<1> PICK q : q = Without({Process(n)})
  OBVIOUS
<1>1. /\ q \in [Pids -> ProcessType]
      /\ \A m \in Pids : /\ q[m].born = procs[m].born
                         /\ q[m].alive => procs[m].alive /\ q[m].guarded = procs[m].guarded
  <2>1. ASSUME NEW m \in Pids
        PROVE  /\ q[m] \in ProcessType
               /\ q[m].born = procs[m].born
               /\ q[m].alive => procs[m].alive /\ q[m].guarded = procs[m].guarded
    <3>1. procs[m] \in ProcessType
      BY DEF ProcsType
    <3>2. q[m] \in {[NoProcess EXCEPT !.born = procs[m].born],
                    [procs[m] EXCEPT !.parent = None], procs[m]}
      BY DEF Without
    <3>3. QED BY <3>1, <3>2 DEF ProcessType, NoProcess
  <2>2. q = [m \in Pids |-> q[m]]
    BY DEF Without
  <2>3. QED BY <2>1, <2>2
<1> DEFINE new == [alive |-> TRUE, born |-> clock, exe |-> p, guarded |-> g, parent |-> parent]
<1>2. new \in ProcessType /\ new.born = clock
  BY DEF ProcessType
<1>3. procs' = [q EXCEPT ![n] = new] /\ procs[n].born < clock
  BY DEF Start
<1> HIDE DEF new
<1>4. procs' \in [Pids -> ProcessType]
  BY <1>1, <1>2, <1>3
<1>5. /\ procs'[n].born = clock
      /\ \A m \in Pids \ {n} : procs'[m] = q[m]
  BY <1>1, <1>2, <1>3
<1>6. ASSUME NEW m \in Pids
      PROVE  /\ procs'[m].alive => procs'[m].born \in Nat
             /\ procs[m].born <= procs'[m].born
             /\ (procs'[m].alive /\ procs'[m].born = procs[m].born) =>
                  procs[m].alive /\ procs'[m].guarded = procs[m].guarded
  <2>1. procs[m].born \in Int /\ (procs[m].alive => procs[m].born \in Nat)
    BY DEF ProcsType, ProcessType
  <2>2. CASE m = n
    BY <1>3, <1>5, <2>1, <2>2
  <2>3. CASE m # n
    <3>1. /\ procs'[m] = q[m] /\ procs'[m].born = procs[m].born
          /\ procs'[m].alive => procs[m].alive /\ procs'[m].guarded = procs[m].guarded
      BY <1>1, <1>5, <2>3
    <3>2. QED BY <2>1, <3>1
  <2>4. QED BY <2>2, <2>3
<1>7. QED
  BY <1>4, <1>6 DEF ProcsType, Aged

LEMMA Same ==
  ASSUME ProcsType, procs' = procs
  PROVE  ProcsType' /\ Aged
BY DEF ProcsType, ProcessType, Aged

-----------------------------------------------------------------------------
(* What is killed.  The records of "killed" that Killed adds are of what   *)
(* the action had found, or of what runs the file.                         *)
LEMMA KilledAsMeant ==
  ASSUME IInv, NEW a \in Threads, NEW how, NEW victims, Killed(a, how, victims),
         \A n \in Alive : Process(n) \in victims =>
           \/ /\ how = "pid" /\ n # job[a].pid
           \/ /\ how = "pid" /\ n = job[a].pid /\ ~procs[n].guarded
              /\ job[a].born # Unknown => procs[n].born - job[a].meant[2] \in {0, 1}
           \/ /\ ~procs[n].guarded /\ job[a].born = Unknown
  PROVE  KillsWhatItMeant'
<1> DEFINE record(n) == [how |-> how, dated |-> job[a].born # Unknown, guarded |-> procs[n].guarded,
                         late |-> IF n = job[a].pid THEN procs[n].born - job[a].meant[2] ELSE Unknown]
           Fine(k) == /\ k.guarded => k.how = "pid" /\ k.late = Unknown
                      /\ k.dated => k.late \in {Unknown, 0, 1}
<1>1. ASSUME NEW n \in Alive, Process(n) \in victims
      PROVE  Fine(record(n))
  <2>1. /\ record(n).how = how
        /\ record(n).dated = (job[a].born # Unknown)
        /\ record(n).guarded = procs[n].guarded
        /\ record(n).late = IF n = job[a].pid THEN procs[n].born - job[a].meant[2] ELSE Unknown
    BY Zenon
  <2> HIDE DEF record
  <2>2. CASE how = "pid" /\ n # job[a].pid
    BY <2>1, <2>2, Zenon
  <2>3. CASE /\ how = "pid" /\ n = job[a].pid /\ ~procs[n].guarded
             /\ job[a].born # Unknown => procs[n].born - job[a].meant[2] \in {0, 1}
    BY <2>1, <2>3, Zenon
  <2>4. CASE ~procs[n].guarded /\ job[a].born = Unknown
    BY <2>1, <2>4, Zenon
  <2>5. QED
    BY <1>1, <2>2, <2>3, <2>4, Zenon
<1>2. killed' = killed \cup {record(n) : n \in {c \in Alive : Process(c) \in victims}}
  BY DEF Killed
<1>3. \A k \in killed : Fine(k)
  BY DEF IInv, KillsWhatItMeant
<1> HIDE DEF record
<1>4. \A k \in killed' : Fine(k)
  BY <1>1, <1>2, <1>3
<1>5. QED
  BY <1>4 DEF KillsWhatItMeant

LEMMA IdleType == IsJob(Idle) /\ Idle.born = Unknown /\ Idle.pc = "idle"
<1>1. Idle \in Jobs({None}, {NoId}, {None})
  BY DEF Idle, Jobs, Pcs, Unknown
<1>2. QED
  BY <1>1 DEF IsJob, Idle

LEMMA InitInv == Init => IInv
<1> SUFFICES ASSUME Init PROVE IInv
  OBVIOUS
<1>1. /\ IsJob(Idle) /\ Idle.born = Unknown /\ Idle.pc = "idle"
      /\ NoProcess \in ProcessType /\ NoProcess.alive = FALSE
  BY IdleType DEF NoProcess, ProcessType, Unknown
<1>2. TypeInv
  BY <1>1, ResponseAssumption DEF Init, TypeInv
<1>3. JobsInv
  BY <1>1 DEF Init, JobsInv, JobInv
<1>4. QED
  BY <1>2, <1>3 DEF Init, IInv, KillsWhatItMeant

\* A job that is not about the process of a pid.
LEMMA OtherJob ==
  ASSUME NEW j, j.born = Unknown, j.pc \notin {"target", "kill"}
  PROVE  JobInv(j)
BY DEF JobInv

\* A step of the files, or of the processes around them.
LEMMA OtherStep ==
  ASSUME IInv, ProcsType', Aged, killed' = killed \/ KillsWhatItMeant',
         clock' \in 0 .. MaxClock,
         \/ job' = job
         \/ \E a \in Threads : \E j :
              /\ IsJob(j) /\ job' = [job EXCEPT ![a] = j]
              /\ (j.born = Unknown /\ j.pc \notin {"target", "kill"}) \/ JobInv(j) \/ JobInv(j)'
  PROVE  IInv'
<1>1. KillsWhatItMeant'
  BY DEF IInv, KillsWhatItMeant
<1>2. TypeInv'
  BY DEF IInv, TypeInv, ProcsType
<1>3. CASE job' = job
  <2>1. PICK a \in Threads : TRUE
    BY DEF Threads
  <2>2. /\ IsJob(job[a]) /\ JobInv(job[a])
        /\ job' = [job EXCEPT ![a] = job[a]]
    BY <1>3 DEF IInv, TypeInv, JobsInv
  <2> PICK j : j = job[a]
    OBVIOUS
  <2>3. QED
    BY <1>1, <1>2, <2>2, JobsKept DEF IInv
<1>4. CASE \E a \in Threads : \E j :
              /\ IsJob(j) /\ job' = [job EXCEPT ![a] = j]
              /\ (j.born = Unknown /\ j.pc \notin {"target", "kill"}) \/ JobInv(j) \/ JobInv(j)'
  <2> PICK a \in Threads : \E j :
              /\ IsJob(j) /\ job' = [job EXCEPT ![a] = j]
              /\ (j.born = Unknown /\ j.pc \notin {"target", "kill"}) \/ JobInv(j) \/ JobInv(j)'
    BY <1>4
  <2>1. PICK j :
              /\ IsJob(j) /\ job' = [job EXCEPT ![a] = j]
              /\ (j.born = Unknown /\ j.pc \notin {"target", "kill"}) \/ JobInv(j) \/ JobInv(j)'
    OBVIOUS
  <2>2. JobInv(j) \/ JobInv(j)'
    BY <2>1, OtherJob
  <2>3. QED
    BY <1>1, <1>2, <2>1, <2>2, JobsKept DEF IInv
<1>5. QED
  BY <1>3, <1>4

LEMMA Types ==
  ASSUME IInv
  PROVE  /\ ProcsType /\ clock \in 0 .. MaxClock /\ clock \in Nat
         /\ \A a \in Threads : IsJob(job[a]) /\ JobInv(job[a])
BY ResponseAssumption DEF IInv, TypeInv, JobsInv, ProcsType

\* A job at another place.
LEMMA JobPc ==
  ASSUME NEW j, IsJob(j), NEW pc \in Pcs, NEW k, k = [j EXCEPT !.pc = pc]
  PROVE  IsJob(k) /\ k.pc = pc /\ k.born = j.born
<1>1. PICK P, I, D : j \in Jobs(P, I, D)
  BY DEF IsJob
<1>2. k \in Jobs(P, I, D) /\ k.pc = pc /\ k.born = j.born
  BY <1>1 DEF Jobs
<1>3. QED
  BY <1>2 DEF IsJob

-----------------------------------------------------------------------------
\* The environment and the requests.
LEMMA ChangeStep ==
  ASSUME IInv, NEW p \in Paths, NEW c \in Contents \cup {None}, Change(p, c)
  PROVE  IInv'
<1>1. ProcsType' /\ Aged
  BY Types, DetachedAges DEF Change
<1>2. QED
  BY <1>1, Types, OtherStep DEF Change, history

LEMMA StartStep ==
  ASSUME IInv, NEW n \in Pids, NEW p \in Paths \cup {None}, NEW g \in BOOLEAN,
         NEW parent \in Pids \cup {None}, Start(n, p, g, parent)
  PROVE  IInv'
<1>1. ProcsType' /\ Aged
  BY Types, StartAges
<1>2. QED
  BY <1>1, Types, OtherStep DEF Start, history, files

LEMMA EndOrTickStep ==
  ASSUME IInv, (\E n \in Pids : End(n)) \/ Tick
  PROVE  IInv'
<1>1. CASE \E n \in Pids : End(n)
  <2>1. PICK n \in Pids : End(n)
    BY <1>1
  <2> PICK victims : victims = {Process(n)}
    OBVIOUS
  <2>2. ProcsType' /\ Aged
    BY <2>1, Types, WithoutAges DEF End
  <2>3. QED
    BY <2>1, <2>2, Types, OtherStep DEF End, history, files
<1>2. CASE Tick
  <2>1. ProcsType' /\ Aged
    BY <1>2, Types, Same DEF Tick
  <2>2. clock' \in 0 .. MaxClock
    BY <1>2, Types, ResponseAssumption DEF Tick
  <2>3. QED
    BY <1>2, <2>1, <2>2, Types, OtherStep DEF Tick, history, files
<1>3. QED
  BY <1>1, <1>2

LEMMA AskStep ==
  ASSUME IInv, NEW a \in Threads, NEW j, IsJob(j), Ask(a, j),
         (j.born = Unknown /\ j.pc \notin {"target", "kill"}) \/ JobInv(j)
  PROVE  IInv'
<1>1. ProcsType' /\ Aged
  BY Types, Same DEF Ask
<1>2. QED
  BY <1>1, Types, OtherStep DEF Ask, history, files

LEMMA AskKillStep ==
  ASSUME IInv, NEW a \in Threads, NEW n \in Pids, NEW dated \in BOOLEAN, AskKill(a, n, dated)
  PROVE  IInv'
<1> DEFINE born == IF dated THEN procs[n].born ELSE Unknown
<1>1. procs[n].born \in Nat /\ born \in Int /\ (born # Unknown => born = procs[n].born)
  BY Types DEF AskKill, ProcsType, Unknown
<1> PICK j : j = [Idle EXCEPT !.pc = "target", !.pid = n, !.meant = Process(n), !.born = born]
  OBVIOUS
<1>2. /\ IsJob(j)
      /\ j.pc = "target" /\ j.pid = n /\ j.born = born /\ j.meant = <<n, procs[n].born>>
  <2> HIDE DEF born
  <2> PICK P, I, D : Idle \in Jobs(P, I, D)
    BY IdleType DEF IsJob
  <2>1. Process(n) \in (Pids \X Int) \cup {NoId} /\ "target" \in Pcs
    BY <1>1 DEF Process, Pcs
  <2>2. j \in Jobs(P, I, D) /\ j.pc = "target" /\ j.pid = n /\ j.born = born /\ j.meant = Process(n)
    BY <1>1, <2>1 DEF Jobs
  <2>3. QED BY <2>2 DEF Process, IsJob
<1>3. JobInv(j)
  BY <1>1, <1>2 DEF JobInv
<1>4. Ask(a, j)
  BY DEF AskKill
<1>5. QED
  BY <1>2, <1>3, <1>4, AskStep

LEMMA AskFileStep ==
  ASSUME IInv, \/ \E a \in Threads : AskKillWriter(a)
               \/ \E a \in Threads, p \in Paths : AskQuarantine(a, p)
               \/ \E i \in Ids : AskRestore(i)
               \/ \E p \in Paths : AskDelete(p)
  PROVE  IInv'
<1>1. /\ "heartbeat" \in Threads
      /\ "sample" \in Pcs /\ "find" \in Pcs /\ "look" \in Pcs /\ "check" \in Pcs
  BY DEF Pcs, Threads
<1>2. ASSUME NEW a \in Threads, AskKillWriter(a)
      PROVE  IInv'
  <2> PICK j : j = [Idle EXCEPT !.pc = "sample"]
    OBVIOUS
  <2>1. IsJob(j) /\ j.born = Unknown /\ j.pc = "sample"
    BY <1>1, IdleType, JobPc
  <2>2. QED BY <1>2, <2>1, AskStep DEF AskKillWriter
<1>3. ASSUME NEW a \in Threads, NEW p \in Paths, AskQuarantine(a, p)
      PROVE  IInv'
  <2> PICK j : j = [Idle EXCEPT !.pc = "find", !.path = p]
    OBVIOUS
  <2>1. IsJob(j) /\ j.born = Unknown /\ j.pc = "find"
    <3>1. PICK P, I, D : Idle \in Jobs(P, I, D)
      BY IdleType DEF IsJob
    <3>2. j \in Jobs(P \cup {p}, I, D) /\ j.pc = "find" /\ j.born = Idle.born
      BY <1>1, <3>1 DEF Jobs
    <3>3. QED BY <1>1, <3>2, IdleType DEF IsJob
  <2>2. QED BY <1>3, <2>1, AskStep DEF AskQuarantine
<1>4. ASSUME NEW i \in Ids, AskRestore(i)
      PROVE  IInv'
  <2> PICK j : j = [Idle EXCEPT !.pc = "look", !.id = i]
    OBVIOUS
  <2>1. IsJob(j) /\ j.born = Unknown /\ j.pc = "look"
    <3>1. PICK P, I, D : Idle \in Jobs(P, I, D)
      BY IdleType DEF IsJob
    <3>2. j \in Jobs(P, I \cup {i}, D) /\ j.pc = "look" /\ j.born = Idle.born
      BY <1>1, <3>1 DEF Jobs
    <3>3. QED BY <1>1, <3>2, IdleType DEF IsJob
  <2>2. QED BY <1>1, <1>4, <2>1, AskStep DEF AskRestore
<1>5. ASSUME NEW p \in Paths, AskDelete(p)
      PROVE  IInv'
  <2> PICK j : j = [Idle EXCEPT !.pc = "check", !.path = p]
    OBVIOUS
  <2>1. IsJob(j) /\ j.born = Unknown /\ j.pc = "check"
    <3>1. PICK P, I, D : Idle \in Jobs(P, I, D)
      BY IdleType DEF IsJob
    <3>2. j \in Jobs(P \cup {p}, I, D) /\ j.pc = "check" /\ j.born = Idle.born
      BY <1>1, <3>1 DEF Jobs
    <3>3. QED BY <1>1, <3>2, IdleType DEF IsJob
  <2>2. QED BY <1>1, <1>5, <2>1, AskStep DEF AskDelete
<1>6. QED
  BY <1>2, <1>3, <1>4, <1>5

-----------------------------------------------------------------------------
\* The steps of an action on a file: they go on, or end.
LEMMA FileStep ==
  ASSUME IInv, NEW a \in Threads, job[a].pc \notin {"target", "kill"},
         (\E pc \in Pcs \ {"target", "kill"} : Goes(a, pc)) \/ Ends(a),
         ProcsType', Aged, killed' = killed \/ KillsWhatItMeant', clock' = clock
  PROVE  IInv'
<1>1. IsJob(job[a]) /\ job[a].born = Unknown
  BY Types DEF JobInv
<1>2. CASE Ends(a)
  <2> PICK j : j = Idle
    OBVIOUS
  <2>1. QED BY <1>2, Types, IdleType, OtherStep DEF Ends
<1>3. ASSUME NEW pc \in Pcs \ {"target", "kill"}, Goes(a, pc)
      PROVE  IInv'
  <2> PICK j : j = [job[a] EXCEPT !.pc = pc]
    OBVIOUS
  <2>1. IsJob(j) /\ j.born = Unknown /\ j.pc = pc
    BY <1>1, JobPc
  <2>2. job' = [job EXCEPT ![a] = j]
    BY <1>3 DEF Goes, IInv, TypeInv
  <2>3. QED BY <2>1, <2>2, Types, OtherStep
<1>4. QED BY <1>2, <1>3

LEMMA QuietStep ==
  ASSUME IInv, NEW a \in Threads, Find(a) \/ Check(a) \/ Describe(a) \/ Empty(a) \/ Forget(a)
  PROVE  IInv'
<1>1. /\ job[a].pc \notin {"target", "kill"} /\ UNCHANGED <<procs, clock, killed>>
      /\ (\E pc \in Pcs \ {"target", "kill"} : Goes(a, pc)) \/ Ends(a)
  BY DEF Find, Check, Describe, Empty, Forget, Pcs, history, files
<1>2. ProcsType' /\ Aged
  BY <1>1, Types, Same
<1>3. QED
  BY <1>1, <1>2, FileStep

LEMMA MovingStep ==
  ASSUME IInv, NEW a \in Threads, Move(a) \/ Unlink(a) \/ Back(a) \/ Remove(a)
  PROVE  IInv'
<1>1. /\ job[a].pc \notin {"target", "kill"} /\ UNCHANGED <<clock, killed>>
      /\ (\E pc \in Pcs \ {"target", "kill"} : Goes(a, pc)) \/ Ends(a)
      /\ procs' = procs \/ procs' = Detached(job[a].path)
  BY DEF Move, Unlink, Back, Remove, Pcs, history
<1> PICK p : p = job[a].path
  OBVIOUS
<1>2. ProcsType' /\ Aged
  BY <1>1, Types, Same, DetachedAges
<1>3. QED
  BY <1>1, <1>2, FileStep

LEMMA HashOrLookStep ==
  ASSUME IInv, NEW a \in Threads, Hash(a) \/ Look(a)
  PROVE  IInv'
<1>1. /\ job[a].pc \in {"hash", "look"} /\ UNCHANGED <<procs, clock, killed>>
      /\ IsJob(job[a]) /\ job[a].born = Unknown /\ "stop" \in Pcs /\ "back" \in Pcs
  BY Types DEF Hash, Look, history, files, JobInv, Pcs
<1>2. ProcsType' /\ Aged
  BY <1>1, Types, Same
<1>3. CASE Ends(a)
  BY <1>1, <1>2, <1>3, FileStep
<1>4. CASE Hash(a) /\ ~Ends(a)
  <2> PICK j : j = [job[a] EXCEPT !.pc = "stop", !.digest = disk[job[a].path],
                                  !.id = <<clock, disk[job[a].path]>>]
    OBVIOUS
  <2>1. IsJob(j) /\ j.born = Unknown /\ j.pc = "stop"
    <3>1. PICK P, I, D : job[a] \in Jobs(P, I, D)
      BY <1>1 DEF IsJob
    <3>2. j \in Jobs(P, I \cup {j.id}, D \cup {j.digest}) /\ j.pc = "stop" /\ j.born = job[a].born
      BY <1>1, <3>1 DEF Jobs
    <3>3. QED BY <1>1, <3>2, IdleType DEF IsJob
  <2>2. job' = [job EXCEPT ![a] = j]
    BY <1>4 DEF Hash, IInv, TypeInv
  <2>3. QED
    BY <1>1, <1>2, <2>1, <2>2, Types, OtherStep
<1>5. CASE Look(a) /\ ~Ends(a)
  <2> PICK j : j = [job[a] EXCEPT !.pc = "back", !.path = metas[job[a].id]]
    OBVIOUS
  <2>1. IsJob(j) /\ j.born = Unknown /\ j.pc = "back"
    <3>1. PICK P, I, D : job[a] \in Jobs(P, I, D)
      BY <1>1 DEF IsJob
    <3>2. j \in Jobs(P \cup {j.path}, I, D) /\ j.pc = "back" /\ j.born = job[a].born
      BY <1>1, <3>1 DEF Jobs
    <3>3. QED BY <1>1, <3>2, IdleType DEF IsJob
  <2>2. job' = [job EXCEPT ![a] = j]
    BY <1>5 DEF Look, IInv, TypeInv
  <2>3. QED
    BY <1>1, <1>2, <2>1, <2>2, Types, OtherStep
<1>6. QED
  BY <1>3, <1>4, <1>5

-----------------------------------------------------------------------------
\* The steps that look for processes and kill them.
LEMMA StopStep ==
  ASSUME IInv, NEW a \in Threads, Stop(a)
  PROVE  IInv'
<1> PICK victims : victims = {Process(n) : n \in {m \in Alive : procs[m].exe = job[a].path
                                                              /\ ~procs[m].guarded}}
  OBVIOUS
<1>1. /\ job[a].pc = "stop" /\ job[a].born = Unknown
      /\ Killed(a, "exe", victims) /\ Goes(a, "move") /\ clock' = clock
      /\ "move" \in Pcs \ {"target", "kill"}
  BY Types DEF Stop, JobInv, Pcs
<1>2. \A n \in Alive : Process(n) \in victims => ~procs[n].guarded
  BY DEF Process
<1>3. KillsWhatItMeant'
  BY <1>1, <1>2, KilledAsMeant
<1>4. ProcsType' /\ Aged
  BY <1>1, Types, WithoutAges DEF Killed
<1>5. QED
  BY <1>1, <1>3, <1>4, FileStep

LEMMA KillStep ==
  ASSUME IInv, NEW a \in Threads, Kill(a)
  PROVE  IInv'
<1> PICK victims : victims = job[a].victims
  OBVIOUS
<1>1. /\ job[a].pc = "kill" /\ Killed(a, "pid", victims) /\ Ends(a) /\ clock' = clock
      /\ JobInv(job[a])
  BY Types DEF Kill
<1>2. ASSUME NEW n \in Alive, Process(n) \in victims, n = job[a].pid
      PROVE  /\ ~procs[n].guarded
             /\ job[a].born # Unknown => procs[n].born - job[a].meant[2] \in {0, 1}
  BY <1>1, <1>2 DEF JobInv, Alive
<1>3. KillsWhatItMeant'
  BY <1>1, <1>2, KilledAsMeant
<1>4. ProcsType' /\ Aged
  BY <1>1, Types, WithoutAges DEF Killed
<1> PICK j : j = Idle
  OBVIOUS
<1>5. QED
  BY <1>1, <1>3, <1>4, Types, IdleType, OtherStep DEF Ends

LEMMA TargetStep ==
  ASSUME IInv, NEW a \in Threads, Target(a)
  PROVE  IInv'
<1>1. /\ job[a].pc = "target" /\ UNCHANGED <<procs, clock, killed>>
      /\ IsJob(job[a]) /\ JobInv(job[a])
  BY Types DEF Target, history
<1>2. ProcsType' /\ Aged
  BY <1>1, Types, Same
<1> PICK i : i = Idle
  OBVIOUS
<1>3. CASE Ends(a)
  BY <1>1, <1>2, <1>3, Types, IdleType, OtherStep DEF Ends
<1>4. CASE ~Ends(a)
  <2> DEFINE n == job[a].pid
  <2> PICK victims : victims = {Process(c) : c \in Descendants(n) \cup {n}}
    OBVIOUS
  <2> PICK j : j = [job[a] EXCEPT !.pc = "kill", !.victims = victims]
    OBVIOUS
  <2>1. /\ n \in Pids /\ ~procs[n].guarded
        /\ job[a].born = Unknown \/ procs[n].born \in job[a].born - 1 .. job[a].born + 1
        /\ job' = [job EXCEPT ![a] = j]
    BY <1>1, <1>4 DEF Target, JobInv, IInv, TypeInv
  <2>2. Descendants(n) \subseteq Pids
    BY DEF Descendants, Alive
  <2>3. victims \in SUBSET (Pids \X Int) /\ \A v \in victims : v[1] = n => v[2] = procs[n].born
    BY <2>1, <2>2, Types DEF ProcsType, ProcessType, Process
  <2>4. /\ IsJob(j) /\ j.pc = "kill" /\ j.pid = n /\ j.born = job[a].born
        /\ j.meant = job[a].meant /\ j.victims = victims
    <3>1. PICK P, I, D : job[a] \in Jobs(P, I, D)
      BY <1>1 DEF IsJob
    <3>2. /\ j \in Jobs(P, I, D) /\ j.pc = "kill" /\ j.pid = n /\ j.born = job[a].born
          /\ j.meant = job[a].meant /\ j.victims = victims
      BY <2>3, <3>1 DEF Jobs, Pcs
    <3>3. QED BY <3>2 DEF IsJob
  <2>5. procs[n].born \in Int
    BY <2>1, Types DEF ProcsType, ProcessType
  <2>6. JobInv(j)
    BY <1>1, <2>1, <2>3, <2>4, <2>5 DEF JobInv
  <2>7. QED
    BY <1>1, <1>2, <2>1, <2>4, <2>6, Types, OtherStep
<1>5. QED
  BY <1>3, <1>4

LEMMA WriterStep ==
  ASSUME IInv, NEW a \in Threads, NEW writers \in SUBSET Pids, Sample(a, writers) \/ Pick(a)
  PROVE  IInv'
<1>1. /\ job[a].pc \in {"sample", "pick"} /\ UNCHANGED <<procs, clock, killed>>
      /\ IsJob(job[a]) /\ job[a].born = Unknown
  BY Types DEF Sample, Pick, history, JobInv
<1>2. ProcsType' /\ Aged
  BY <1>1, Types, Same
<1> PICK P, I, D : job[a] \in Jobs(P, I, D)
  BY <1>1 DEF IsJob
<1>3. CASE Ends(a)
  BY <1>1, <1>2, <1>3, FileStep
<1>4. CASE Sample(a, writers) /\ ~Ends(a)
  <2> PICK before : before = {Process(n) : n \in writers}
    OBVIOUS
  <2> PICK j : j = [job[a] EXCEPT !.pc = "pick", !.before = before]
    OBVIOUS
  <2>1. before \in SUBSET (Pids \X Int)
    BY Types DEF ProcsType, ProcessType, Process
  <2>2. j \in Jobs(P, I, D) /\ j.pc = "pick" /\ j.born = Unknown
    BY <1>1, <2>1 DEF Jobs, Pcs
  <2>3. job' = [job EXCEPT ![a] = j]
    BY <1>4 DEF Sample, IInv, TypeInv
  <2>4. QED
    BY <1>1, <1>2, <2>2, <2>3, Types, OtherStep DEF IsJob
<1>5. CASE Pick(a) /\ ~Ends(a)
  <2>1. PICK w \in job[a].before :
          job' = [job EXCEPT ![a].pc = "target", ![a].pid = w[1], ![a].meant = w]
    BY <1>5 DEF Pick
  <2> PICK j : j = [job[a] EXCEPT !.pc = "target", !.pid = w[1], !.meant = w]
    OBVIOUS
  <2>2. w \in Pids \X Int
    BY <2>1 DEF Jobs
  <2>3. j \in Jobs(P, I, D) /\ j.pc = "target" /\ j.pid \in Pids /\ j.born = Unknown
    BY <1>1, <2>2 DEF Jobs, Pcs
  <2>4. job' = [job EXCEPT ![a] = j]
    BY <2>1 DEF IInv, TypeInv
  <2>5. JobInv(j)
    BY <2>3 DEF JobInv
  <2>6. QED
    BY <1>1, <1>2, <2>3, <2>4, <2>5, Types, OtherStep DEF IsJob
<1>6. QED
  BY <1>3, <1>4, <1>5

LEMMA RestartStep ==
  ASSUME IInv, Restart
  PROVE  IInv'
<1>1. job' = [a \in Threads |-> Idle] /\ UNCHANGED <<procs, clock, killed>>
  BY DEF Restart
<1>2. TypeInv'
  BY <1>1, IdleType DEF IInv, TypeInv
<1>3. JobsInv'
  BY <1>1, IdleType DEF JobsInv, JobInv
<1>4. QED
  BY <1>1, <1>2, <1>3 DEF IInv, KillsWhatItMeant

-----------------------------------------------------------------------------
LEMMA NextInv ==
  ASSUME IInv, [Next]_vars
  PROVE  IInv'
<1>1. CASE UNCHANGED vars
  <2>1. UNCHANGED <<procs, clock, killed, job>>
    BY <1>1 DEF vars, history
  <2>2. QED
    BY <2>1, Types, Same, OtherStep
<1>2. CASE \/ \E p \in Paths, c \in Contents \cup {None} : Change(p, c)
           \/ \E n \in Pids, p \in Paths \cup {None}, g \in BOOLEAN, parent \in Pids \cup {None} :
                Start(n, p, g, parent)
           \/ \E n \in Pids : End(n)
           \/ Tick
  BY <1>2, ChangeStep, StartStep, EndOrTickStep
<1>3. CASE \/ \E a \in Threads, n \in Pids, dated \in BOOLEAN : AskKill(a, n, dated)
           \/ \E a \in Threads : AskKillWriter(a)
           \/ \E a \in Threads, p \in Paths : AskQuarantine(a, p)
           \/ \E i \in Ids : AskRestore(i)
           \/ \E p \in Paths : AskDelete(p)
  BY <1>3, AskKillStep, AskFileStep
<1>4. CASE \E a \in Threads, writers \in SUBSET Pids :
             Target(a) \/ Kill(a) \/ Sample(a, writers) \/ Pick(a) \/ Stop(a)
  BY <1>4, TargetStep, KillStep, WriterStep, StopStep
<1>5. CASE \E a \in Threads :
             \/ Find(a) \/ Hash(a) \/ Move(a) \/ Unlink(a) \/ Describe(a)
             \/ Look(a) \/ Back(a) \/ Empty(a) \/ Forget(a)
             \/ Check(a) \/ Remove(a)
  BY <1>5, QuietStep, MovingStep, HashOrLookStep
<1>6. CASE Restart
  BY <1>6, RestartStep
<1>7. QED
  BY <1>1, <1>2, <1>3, <1>4, <1>5, <1>6 DEF Next

(* kill_process: whatever processes end and start in the meantime, an      *)
(* order that has the time of creation kills the process it was given for, *)
(* or one that took over its pid within a second; and no action kills a    *)
(* protected process but as a descendant of another.                       *)
THEOREM KillsTheProcessItWasMeantFor == Spec => []KillsWhatItMeant
<1>1. IInv => KillsWhatItMeant
  BY DEF IInv
<1>2. QED
  BY <1>1, InitInv, NextInv, PTL DEF Spec

-----------------------------------------------------------------------------
(* The quarantine.  While nothing has spoilt an id (it was not given again, *)
(* no action on it was cut short), one action at a time is about its file. *)
Spoilt == clashed \cup cut
Middle == {"unlink", "describe"}
Critical == {"unlink", "describe", "back", "empty", "forget"}

Fits(a, j) ==
  /\ j.pc \in {"find", "hash", "stop", "move"} => j.path \in Paths
  /\ j.pc \in {"stop", "move", "unlink", "describe"} =>
       j.id \in Ids /\ j.digest = j.id[2] /\ j.digest # None
  /\ j.pc \in {"look", "back", "empty", "forget"} => j.id \in Ids /\ a = "heartbeat"

\* What thread a relies on while it does j.
Holds(a, j) ==
  j.id \notin Spoilt =>
    /\ j.pc \in Middle =>
         /\ bins[j.id] = j.digest /\ metas[j.id] = None
         /\ \A t \in taken : t.id = j.id => t.path = j.path /\ t.content = j.digest
         /\ \A b \in Threads \ {a} : job[b].id = j.id => job[b].pc \notin Critical
    /\ j.pc \in {"empty", "forget"} => \A t \in taken : t.id # j.id

FilesType ==
  /\ disk \in [Paths -> Contents \cup {None}]
  /\ bins \in [Ids -> Contents \cup {None}]
  /\ metas = [i \in Ids |-> metas[i]]
  /\ \A t \in taken : t.id \in Ids

\* What an id and its file, description and history are.
Told(i) ==
  i \notin Spoilt =>
    /\ bins[i] \in {None, i[2]}
    /\ \A t \in taken : t.id = i =>
         /\ t.content = i[2]
         /\ InTheMiddle(i, Middle) \/ (bins[i] = t.content /\ metas[i] = t.path)
    /\ metas[i] # None => bins[i] # None \/ InTheMiddle(i, {"forget"})

QInv ==
  /\ FilesType
  /\ \A a \in Threads : Fits(a, job[a]) /\ Holds(a, job[a])
  /\ \A i \in Ids : Told(i)

LEMMA InitQInv == Init => QInv
<1> SUFFICES ASSUME Init PROVE QInv
  OBVIOUS
<1>1. Idle.pc = "idle"
  BY DEF Idle
<1>2. \A a \in Threads : job[a] = Idle
  BY DEF Init
<1>3. FilesType
  BY DEF Init, FilesType
<1>4. \A a \in Threads : Fits(a, job[a]) /\ Holds(a, job[a])
  BY <1>1, <1>2 DEF Fits, Holds, Middle
<1>5. \A i \in Ids : Told(i)
  BY DEF Init, Told
<1>6. QED
  BY <1>3, <1>4, <1>5 DEF QInv

(* A thread goes on with j, outside of what the others must not disturb,   *)
(* and the quarantine does not change.                                     *)
LEMMA QuietQ ==
  ASSUME IInv, QInv, NEW a \in Threads, NEW j, job' = [job EXCEPT ![a] = j],
         job[a].pc \notin {"unlink", "describe", "empty", "forget"}, j.pc \notin Critical,
         Fits(a, j), disk' \in [Paths -> Contents \cup {None}],
         UNCHANGED <<bins, metas, taken, clashed, cut>>
  PROVE  QInv'
<1>1. /\ job'[a] = j
      /\ \A b \in Threads \ {a} : job'[b] = job[b]
  BY DEF IInv, TypeInv
<1>2. FilesType' /\ Spoilt' = Spoilt
  BY DEF QInv, FilesType, Spoilt
<1>3. ASSUME NEW b \in Threads PROVE (Fits(b, job[b]) /\ Holds(b, job[b]))'
  <2>1. CASE b = a
    BY <1>1, <2>1 DEF Holds, Fits, Critical, Middle
  <2>2. CASE b # a
    <3> PICK k : k = job[b]
      OBVIOUS
    <3>1. job'[b] = k /\ Fits(b, k) /\ Holds(b, k)
      BY <1>1, <2>2 DEF QInv
    <3>2. \A c \in Threads \ {b} : job'[c].pc \in Critical => job'[c] = job[c]
      BY <1>1
    <3>3. Holds(b, k)'
      BY <1>2, <3>1, <3>2 DEF Holds
    <3>4. QED
      BY <3>1, <3>3 DEF Holds, Fits
  <2>3. QED
    BY <2>1, <2>2
<1>4. ASSUME NEW i \in Ids PROVE Told(i)'
  <2>1. /\ InTheMiddle(i, Middle)' <=> InTheMiddle(i, Middle)
        /\ InTheMiddle(i, {"forget"})' <=> InTheMiddle(i, {"forget"})
    BY <1>1 DEF InTheMiddle, Middle, Critical
  <2>2. Told(i)
    BY DEF QInv
  <2>3. QED
    BY <1>2, <2>1, <2>2 DEF Told
<1>5. QED
  BY <1>2, <1>3, <1>4 DEF QInv

(* A step of thread a about the id i alone.                                *)
LEMMA OneIdQ ==
  ASSUME IInv, QInv, NEW a \in Threads, NEW i \in Ids, NEW j, job[a].id = i,
         job' = [job EXCEPT ![a] = j], j.id = i \/ j.pc = "idle", Fits(a, j), FilesType',
         \A k \in Ids \ {i} : bins'[k] = bins[k] /\ metas'[k] = metas[k],
         \A t : t.id # i => (t \in taken' <=> t \in taken),
         Spoilt \subseteq Spoilt', Holds(a, j)',
         \A b \in Threads \ {a} : job[b].id = i =>
           i \in Spoilt' \/ job[b].pc \notin {"unlink", "describe", "empty", "forget"},
         Told(i)'
  PROVE  QInv'
<1>1. /\ job'[a] = j
      /\ \A b \in Threads \ {a} : job'[b] = job[b]
  BY DEF IInv, TypeInv
<1>2. ASSUME NEW b \in Threads PROVE (Fits(b, job[b]) /\ Holds(b, job[b]))'
  <2>1. CASE b = a
    BY <1>1, <2>1 DEF Holds, Fits
  <2>2. CASE b # a
    <3> PICK k : k = job[b]
      OBVIOUS
    <3>1. job'[b] = k /\ Fits(b, k) /\ Holds(b, k)
      BY <1>1, <2>2 DEF QInv
    <3>2. CASE k.id = i
      <4>1. Holds(b, k)'
        BY <2>2, <3>2 DEF Holds, Middle
      <4>2. QED
        BY <3>1, <4>1 DEF Holds, Fits
    <3>3. CASE k.id # i
      <4>1. \A c \in Threads \ {b} : job'[c].id = k.id /\ job'[c].pc \in Critical => job'[c] = job[c]
        BY <1>1, <3>3 DEF Critical
      <4>2. k.pc \in Middle \cup {"empty", "forget"} => k.id \in Ids \ {i}
        BY <3>1, <3>3 DEF Fits, Middle
      <4>3. ASSUME k.id \notin Spoilt', k.pc \in Middle
            PROVE  /\ bins'[k.id] = k.digest /\ metas'[k.id] = None
                   /\ \A t \in taken' : t.id = k.id => t.path = k.path /\ t.content = k.digest
                   /\ \A c \in Threads \ {b} : job'[c].id = k.id => job'[c].pc \notin Critical
        BY <3>1, <3>3, <4>1, <4>2, <4>3 DEF Holds
      <4>4. ASSUME k.id \notin Spoilt', k.pc \in {"empty", "forget"}
            PROVE  \A t \in taken' : t.id # k.id
        BY <3>1, <3>3, <4>4 DEF Holds
      <4>5. Holds(b, k)'
        BY <4>3, <4>4 DEF Holds
      <4>6. QED
        BY <3>1, <4>5 DEF Holds, Fits
    <3>4. QED
      BY <3>2, <3>3
  <2>3. QED
    BY <2>1, <2>2
<1>3. ASSUME NEW k \in Ids, k # i PROVE Told(k)'
  <2>1. /\ InTheMiddle(k, Middle)' <=> InTheMiddle(k, Middle)
        /\ InTheMiddle(k, {"forget"})' <=> InTheMiddle(k, {"forget"})
    BY <1>1, <1>3 DEF InTheMiddle, Middle
  <2>2. Told(k)
    BY DEF QInv
  <2>3. bins'[k] = bins[k] /\ metas'[k] = metas[k]
    BY <1>3
  <2>4. \A t \in taken' : t.id = k => t \in taken
    BY <1>3
  <2>5. QED
    BY <2>1, <2>2, <2>3, <2>4 DEF Told
<1>4. QED
  BY <1>2, <1>3 DEF QInv

\* A job at another place is about the same file.
LEMMA JobAt ==
  ASSUME IInv, NEW a \in Threads, NEW pc \in Pcs, Goes(a, pc)
  PROVE  \E j : /\ job' = [job EXCEPT ![a] = j] /\ j.pc = pc
                /\ j.id = job[a].id /\ j.path = job[a].path /\ j.digest = job[a].digest
<1> PICK j : j = [job[a] EXCEPT !.pc = pc]
  OBVIOUS
<1>1. PICK P, I, D : job[a] \in Jobs(P, I, D)
  BY Types DEF IsJob
<1>2. j.pc = pc /\ j.id = job[a].id /\ j.path = job[a].path /\ j.digest = job[a].digest
  BY <1>1 DEF Jobs
<1>3. job' = [job EXCEPT ![a] = j]
  BY DEF Goes, IInv, TypeInv
<1>4. QED
  BY <1>2, <1>3

LEMMA IdlePc == Idle.pc = "idle" /\ Idle.id = NoId
BY DEF Idle

\* Ends, or goes on to a place that is not critical, and nothing of the
\* quarantine changes.
LEMMA QuietStepQ ==
  ASSUME IInv, QInv, NEW a \in Threads,
         Ends(a) \/ \E pc \in Pcs \ Critical :
           /\ Goes(a, pc)
           /\ \A j : (j.pc = pc /\ j.id = job[a].id /\ j.path = job[a].path
                      /\ j.digest = job[a].digest) => Fits(a, j),
         job[a].pc \notin {"unlink", "describe", "empty", "forget"},
         disk' \in [Paths -> Contents \cup {None}],
         UNCHANGED <<bins, metas, taken, clashed, cut>>
  PROVE  QInv'
<1>1. CASE Ends(a)
  <2> PICK j : j = Idle
    OBVIOUS
  <2>1. j.pc = "idle" /\ job' = [job EXCEPT ![a] = j]
    BY <1>1, IdlePc DEF Ends
  <2>2. Fits(a, j) /\ j.pc \notin Critical
    BY <2>1 DEF Fits, Critical
  <2>3. QED
    BY <2>1, <2>2, QuietQ
<1>2. ASSUME NEW pc \in Pcs \ Critical, Goes(a, pc),
             \A j : (j.pc = pc /\ j.id = job[a].id /\ j.path = job[a].path
                     /\ j.digest = job[a].digest) => Fits(a, j)
      PROVE  QInv'
  <2>1. PICK j : /\ job' = [job EXCEPT ![a] = j] /\ j.pc = pc
                 /\ j.id = job[a].id /\ j.path = job[a].path /\ j.digest = job[a].digest
    BY <1>2, JobAt
  <2>2. Fits(a, j)
    BY <1>2, <2>1
  <2>3. QED
    BY <1>2, <2>1, <2>2, QuietQ
<1>3. QED
  BY <1>1, <1>2

-----------------------------------------------------------------------------
LEMMA QTypes ==
  ASSUME IInv, QInv
  PROVE  /\ disk \in [Paths -> Contents \cup {None}] /\ FilesType /\ clock \in 0 .. MaxClock
         /\ \A a \in Threads : /\ Fits(a, job[a]) /\ Holds(a, job[a])
                               /\ \E P, I, D : job[a] \in Jobs(P, I, D)
         /\ \A i \in Ids : Told(i)
BY Types DEF QInv, FilesType, IsJob

\* Nobody does anything, to the quarantine or with it.
LEMMA StandstillQ ==
  ASSUME IInv, QInv, job' = job, disk' \in [Paths -> Contents \cup {None}],
         UNCHANGED <<bins, metas, taken, clashed, cut>>
  PROVE  QInv'
<1>1. FilesType' /\ Spoilt' = Spoilt
  BY DEF QInv, FilesType, Spoilt
<1>2. \A a \in Threads : (Fits(a, job[a]) /\ Holds(a, job[a]))'
  BY <1>1 DEF QInv, Fits, Holds
<1>3. \A i \in Ids : Told(i)'
  BY <1>1 DEF QInv, Told, InTheMiddle
<1>4. QED
  BY <1>1, <1>2, <1>3 DEF QInv

LEMMA AroundQ ==
  ASSUME IInv, QInv,
         \/ \E p \in Paths, c \in Contents \cup {None} : Change(p, c)
         \/ \E n \in Pids, p \in Paths \cup {None}, g \in BOOLEAN, parent \in Pids \cup {None} :
              Start(n, p, g, parent)
         \/ \E n \in Pids : End(n)
         \/ Tick
         \/ UNCHANGED vars
  PROVE  QInv'
<1>1. job' = job /\ UNCHANGED <<bins, metas, taken, clashed, cut>>
  BY DEF Change, Start, End, Tick, vars, files, history
<1>2. disk' = disk \/ \E p \in Paths, c \in Contents \cup {None} : disk' = [disk EXCEPT ![p] = c]
  BY DEF Change, Start, End, Tick, vars, files
<1>3. disk' \in [Paths -> Contents \cup {None}]
  BY <1>2, QTypes
<1>4. QED
  BY <1>1, <1>3, StandstillQ

LEMMA AskQ ==
  ASSUME IInv, QInv, NEW a \in Threads, NEW j, Ask(a, j), j.pc \notin Critical, Fits(a, j)
  PROVE  QInv'
<1>1. /\ job[a].pc = "idle" /\ job' = [job EXCEPT ![a] = j] /\ disk' = disk
      /\ UNCHANGED <<bins, metas, taken, clashed, cut>>
  BY IdlePc DEF Ask, files, history
<1>2. QED
  BY <1>1, QTypes, QuietQ

LEMMA AsksQ ==
  ASSUME IInv, QInv,
         \/ \E a \in Threads, n \in Pids, dated \in BOOLEAN : AskKill(a, n, dated)
         \/ \E a \in Threads : AskKillWriter(a)
         \/ \E a \in Threads, p \in Paths : AskQuarantine(a, p)
         \/ \E i \in Ids : AskRestore(i)
         \/ \E p \in Paths : AskDelete(p)
  PROVE  QInv'
<1>1. "heartbeat" \in Threads
  BY DEF Threads
<1>2. ASSUME NEW a \in Threads, NEW n \in Pids, NEW dated \in BOOLEAN, AskKill(a, n, dated)
      PROVE  QInv'
  <2> PICK j : j = [Idle EXCEPT !.pc = "target", !.pid = n, !.meant = Process(n),
                                !.born = IF dated THEN procs[n].born ELSE Unknown]
    OBVIOUS
  <2>1. j.pc = "target"
    BY DEF Idle
  <2>2. QED
    BY <1>2, <2>1, AskQ DEF AskKill, Fits, Critical
<1>3. ASSUME NEW a \in Threads, AskKillWriter(a)
      PROVE  QInv'
  <2> PICK j : j = [Idle EXCEPT !.pc = "sample"]
    OBVIOUS
  <2>1. j.pc = "sample"
    BY DEF Idle
  <2>2. QED
    BY <1>3, <2>1, AskQ DEF AskKillWriter, Fits, Critical
<1>4. ASSUME NEW a \in Threads, NEW p \in Paths, AskQuarantine(a, p)
      PROVE  QInv'
  <2> PICK j : j = [Idle EXCEPT !.pc = "find", !.path = p]
    OBVIOUS
  <2>1. j.pc = "find" /\ j.path = p
    BY DEF Idle
  <2>2. QED
    BY <1>4, <2>1, AskQ DEF AskQuarantine, Fits, Critical
<1>5. ASSUME NEW i \in Ids, AskRestore(i)
      PROVE  QInv'
  <2> PICK j : j = [Idle EXCEPT !.pc = "look", !.id = i]
    OBVIOUS
  <2>1. j.pc = "look" /\ j.id = i
    BY DEF Idle
  <2>2. QED
    BY <1>1, <1>5, <2>1, AskQ DEF AskRestore, Fits, Critical
<1>6. ASSUME NEW p \in Paths, AskDelete(p)
      PROVE  QInv'
  <2> PICK j : j = [Idle EXCEPT !.pc = "check", !.path = p]
    OBVIOUS
  <2>1. j.pc = "check"
    BY DEF Idle
  <2>2. QED
    BY <1>1, <1>6, <2>1, AskQ DEF AskDelete, Fits, Critical
<1>7. QED
  BY <1>2, <1>3, <1>4, <1>5, <1>6

\* What is about processes.
LEMMA ProcessesQ ==
  ASSUME IInv, QInv, NEW a \in Threads, NEW writers \in SUBSET Pids,
         Target(a) \/ Kill(a) \/ Sample(a, writers) \/ Pick(a)
  PROVE  QInv'
<1>1. /\ job[a].pc \in {"target", "kill", "sample", "pick"}
      /\ disk' = disk /\ UNCHANGED <<bins, metas, taken, clashed, cut>>
  BY DEF Target, Kill, Sample, Pick, files, history
<1> PICK P, I, D : job[a] \in Jobs(P, I, D)
  BY QTypes
<1>2. CASE Ends(a)
  BY <1>1, <1>2, QTypes, QuietStepQ
<1>3. ASSUME NEW j, job' = [job EXCEPT ![a] = j], j.pc \in {"kill", "pick", "target"}
      PROVE  QInv'
  BY <1>1, <1>3, QTypes, QuietQ DEF Fits, Critical
<1>4. CASE Target(a) /\ ~Ends(a)
  <2> DEFINE victims == {Process(c) : c \in Descendants(job[a].pid) \cup {job[a].pid}}
  <2>1. job' = [job EXCEPT ![a].pc = "kill", ![a].victims = victims]
    BY <1>4 DEF Target
  <2> HIDE DEF victims
  <2> PICK j : j = [job[a] EXCEPT !.pc = "kill", !.victims = victims]
    OBVIOUS
  <2>2. job' = [job EXCEPT ![a] = j] /\ j.pc = "kill"
    BY <2>1 DEF Jobs, IInv, TypeInv
  <2>3. QED
    BY <1>3, <2>2
<1>5. CASE Sample(a, writers) /\ ~Ends(a)
  <2> DEFINE before == {Process(n) : n \in writers}
  <2>1. job' = [job EXCEPT ![a].pc = "pick", ![a].before = before]
    BY <1>5 DEF Sample
  <2> HIDE DEF before
  <2> PICK j : j = [job[a] EXCEPT !.pc = "pick", !.before = before]
    OBVIOUS
  <2>2. job' = [job EXCEPT ![a] = j] /\ j.pc = "pick"
    BY <2>1 DEF Jobs, IInv, TypeInv
  <2>3. QED
    BY <1>3, <2>2
<1>6. CASE Pick(a) /\ ~Ends(a)
  <2>1. PICK w : job' = [job EXCEPT ![a].pc = "target", ![a].pid = w[1], ![a].meant = w]
    BY <1>6 DEF Pick
  <2> PICK j : j = [job[a] EXCEPT !.pc = "target", !.pid = w[1], !.meant = w]
    OBVIOUS
  <2>2. job' = [job EXCEPT ![a] = j] /\ j.pc = "target"
    BY <2>1 DEF Jobs, IInv, TypeInv
  <2>3. QED
    BY <1>3, <2>2
<1>7. CASE Kill(a)
  BY <1>2, <1>7 DEF Kill
<1>8. QED
  BY <1>2, <1>4, <1>5, <1>6, <1>7

\* The steps of a quarantine up to the move, and of a deletion.
LEMMA BeforeMoveQ ==
  ASSUME IInv, QInv, NEW a \in Threads, Find(a) \/ Stop(a) \/ Check(a) \/ Remove(a)
  PROVE  QInv'
<1>1. /\ job[a].pc \in {"find", "stop", "check", "remove"}
      /\ UNCHANGED <<bins, metas, taken, clashed, cut>>
      /\ \/ disk' = disk
         \/ disk' = [disk EXCEPT ![job[a].path] = None]
  BY DEF Find, Stop, Check, Remove, files, history
<1>2. disk' \in [Paths -> Contents \cup {None}]
  BY <1>1, QTypes
<1>3. Ends(a) \/ \E pc \in Pcs \ Critical :
           /\ Goes(a, pc)
           /\ \A j : (j.pc = pc /\ j.id = job[a].id /\ j.path = job[a].path
                      /\ j.digest = job[a].digest) => Fits(a, j)
  <2>1. Fits(a, job[a])
    BY QTypes
  <2>2. CASE Find(a)
    BY <2>1, <2>2 DEF Find, Fits, Pcs, Critical
  <2>3. CASE Stop(a)
    BY <2>1, <2>3 DEF Stop, Fits, Pcs, Critical
  <2>4. CASE Check(a)
    BY <2>1, <2>4 DEF Check, Fits, Pcs, Critical
  <2>5. CASE Remove(a)
    BY <2>5 DEF Remove
  <2>6. QED
    BY <2>2, <2>3, <2>4, <2>5
<1>4. QED
  BY <1>1, <1>2, <1>3, QuietStepQ

LEMMA HashQ ==
  ASSUME IInv, QInv, NEW a \in Threads, Hash(a)
  PROVE  QInv'
<1>1. /\ job[a].pc = "hash" /\ disk' = disk
      /\ UNCHANGED <<bins, metas, taken, clashed, cut>>
  BY DEF Hash, files, history
<1>2. CASE Ends(a)
  BY <1>1, <1>2, QTypes, QuietStepQ
<1>3. CASE ~Ends(a)
  <2> PICK c : c = disk[job[a].path]
    OBVIOUS
  <2> PICK j : j = [job[a] EXCEPT !.pc = "stop", !.digest = c, !.id = <<clock, c>>]
    OBVIOUS
  <2> PICK P, I, D : job[a] \in Jobs(P, I, D)
    BY QTypes
  <2>1. job[a].path \in Paths /\ c # None
    BY <1>1, <1>3, QTypes DEF Fits, Hash
  <2>2. c \in Contents /\ <<clock, c>> \in Ids
    BY <2>1, QTypes DEF Ids
  <2>3. /\ job' = [job EXCEPT ![a] = j]
        /\ j.pc = "stop" /\ j.digest = c /\ j.id = <<clock, c>> /\ j.path = job[a].path
    BY <1>3 DEF Hash, Jobs, IInv, TypeInv
  <2>4. Fits(a, j) /\ j.pc \notin Critical
    BY <2>1, <2>2, <2>3 DEF Fits, Critical
  <2>5. QED
    BY <1>1, <2>3, <2>4, QTypes, QuietQ
<1>4. QED
  BY <1>2, <1>3

LEMMA MoveQ ==
  ASSUME IInv, QInv, NEW a \in Threads, Move(a)
  PROVE  QInv'
<1> PICK p, i, c : p = job[a].path /\ i = job[a].id /\ c = disk[p]
  OBVIOUS
<1>1. /\ job[a].pc = "move" /\ p \in Paths /\ i \in Ids
      /\ job[a].digest = i[2] /\ i[2] # None /\ c \in Contents \cup {None}
      /\ metas' = metas /\ cut' = cut
  BY QTypes DEF Move, Fits
<1>2. CASE c = None
  BY <1>1, <1>2, QTypes, QuietStepQ DEF Move
<1>3. CASE c # None
  <2>1. /\ bins' = [bins EXCEPT ![i] = c]
        /\ disk' = disk \/ disk' = [disk EXCEPT ![p] = None]
        /\ taken' = taken \cup {Take(i, p, c)}
        /\ clashed' = IF Clashes(a, i, c) THEN clashed \cup {i} ELSE clashed
    BY <1>3 DEF Move
  <2>2. PICK pc \in Middle : Goes(a, pc)
    BY <1>3 DEF Move, Middle
  <2>3. PICK j : /\ job' = [job EXCEPT ![a] = j] /\ j.pc = pc
                 /\ j.id = i /\ j.path = p /\ j.digest = i[2]
    BY <1>1, <2>2, JobAt DEF Pcs, Middle
  <2>4. Fits(a, j)
    BY <1>1, <2>2, <2>3 DEF Fits, Middle
  <2>5. Take(i, p, c).id = i /\ Take(i, p, c).path = p /\ Take(i, p, c).content = c
    BY DEF Take
  <2>6. FilesType'
    BY <1>1, <1>3, <2>1, <2>5, QTypes DEF FilesType
  <2>7. Spoilt \subseteq Spoilt' /\ (Clashes(a, i, c) => i \in Spoilt')
    BY <1>1, <2>1 DEF Spoilt
  <2>8. \A k \in Ids \ {i} : bins'[k] = bins[k] /\ metas'[k] = metas[k]
    BY <1>1, <2>1, QTypes DEF FilesType
  <2>9. \A t : t.id # i => (t \in taken' <=> t \in taken)
    BY <2>1, <2>5
  <2>10. \A b \in Threads \ {a} : job[b].id = i => i \in Spoilt'
    BY <2>7 DEF Clashes, Busy
  <2>11. ASSUME i \notin Spoilt'
         PROVE  /\ c = i[2] /\ bins'[i] = i[2] /\ metas[i] = None
                /\ \A t \in taken : t.id # i
                /\ \A b \in Threads \ {a} : job[b].id # i
    <3>1. /\ i \notin Spoilt /\ c = i[2] /\ bins[i] # c
          /\ \A b \in Threads \ {a} : job[b].id # i
      BY <1>1, <2>7, <2>11 DEF Clashes, Busy
    <3>2. bins[i] = None
      BY <1>1, <3>1, QTypes DEF Told
    <3>3. ~InTheMiddle(i, Middle) /\ ~InTheMiddle(i, {"forget"})
      BY <1>1, <3>1 DEF InTheMiddle, Middle
    <3>4. metas[i] = None /\ \A t \in taken : t.id # i
      BY <1>1, <3>1, <3>2, <3>3, QTypes DEF Told
    <3>5. bins'[i] = c
      BY <1>1, <2>1, QTypes DEF FilesType
    <3>6. QED
      BY <3>1, <3>4, <3>5
  <2>12. \A t \in taken' : t \in taken \/ (t.id = i /\ t.path = p /\ t.content = c)
    BY <2>1, <2>5
  <2>13. job'[a] = j /\ \A b \in Threads \ {a} : job'[b] = job[b]
    BY <2>3 DEF IInv, TypeInv
  <2>14. Holds(a, j)'
    BY <1>1, <2>2, <2>3, <2>11, <2>12, <2>13 DEF Holds, Middle
  <2>15. Told(i)'
    <3>1. InTheMiddle(i, Middle)'
      BY <2>2, <2>3, <2>13 DEF InTheMiddle
    <3>2. QED
      BY <1>1, <2>11, <2>12, <3>1 DEF Told
  <2>16. QED
    BY <1>1, <2>3, <2>4, <2>6, <2>7, <2>8, <2>9, <2>10, <2>14, <2>15, OneIdQ
<1>4. QED
  BY <1>2, <1>3

\* Who else is about the file that a has moved.
LEMMA AloneInTheMiddle ==
  ASSUME IInv, QInv, NEW a \in Threads, job[a].pc \in Middle, job[a].id \notin Spoilt
  PROVE  \A b \in Threads \ {a} : job[b].id = job[a].id => job[b].pc \notin Critical
BY QTypes DEF Holds

LEMMA UnlinkQ ==
  ASSUME IInv, QInv, NEW a \in Threads, Unlink(a)
  PROVE  QInv'
<1> PICK p, i : p = job[a].path /\ i = job[a].id
  OBVIOUS
<1>1. /\ job[a].pc = "unlink" /\ i \in Ids
      /\ disk' = [disk EXCEPT ![p] = None]
      /\ UNCHANGED <<bins, metas, taken, clashed>>
  BY QTypes DEF Unlink, Fits
<1>2. FilesType'
  BY <1>1, QTypes DEF FilesType
<1>3. \A b \in Threads \ {a} : job[b].id = i =>
           i \in Spoilt \/ job[b].pc \notin {"unlink", "describe", "empty", "forget"}
  BY <1>1, AloneInTheMiddle DEF Middle, Critical
<1>4. CASE disk[p] = None
  <2> PICK j : j = Idle
    OBVIOUS
  <2>1. job' = [job EXCEPT ![a] = j] /\ j.pc = "idle" /\ cut' = cut \cup {i}
    BY <1>4, IdlePc DEF Unlink, Ends
  <2>2. Fits(a, j) /\ Holds(a, j)' /\ Spoilt \subseteq Spoilt' /\ i \in Spoilt'
    BY <1>1, <2>1 DEF Fits, Holds, Middle, Spoilt
  <2>3. Told(i)'
    BY <2>2 DEF Told
  <2>4. QED
    BY <1>1, <1>2, <2>1, <2>2, <2>3, OneIdQ
<1>5. CASE disk[p] # None
  <2>1. Goes(a, "describe") /\ Spoilt' = Spoilt
    BY <1>1, <1>5 DEF Unlink, Spoilt
  <2>2. PICK j : /\ job' = [job EXCEPT ![a] = j] /\ j.pc = "describe"
                 /\ j.id = i /\ j.path = p /\ j.digest = job[a].digest
    BY <2>1, JobAt DEF Pcs
  <2>3. job'[a] = j /\ \A b \in Threads \ {a} : job'[b] = job[b]
    BY <2>2 DEF IInv, TypeInv
  <2>4. Fits(a, j)
    BY <1>1, <2>2, QTypes DEF Fits
  <2>5. Holds(a, job[a]) /\ Told(i)
    BY <1>1, QTypes
  <2>6. Holds(a, j)'
    BY <1>1, <2>1, <2>2, <2>3, <2>5 DEF Holds, Middle
  <2>7. Told(i)'
    <3>1. InTheMiddle(i, Middle)'
      BY <2>2, <2>3 DEF InTheMiddle, Middle
    <3>2. InTheMiddle(i, {"forget"}) => InTheMiddle(i, {"forget"})'
      BY <1>1, <2>3 DEF InTheMiddle
    <3>3. QED
      BY <1>1, <2>1, <2>5, <3>1, <3>2 DEF Told
  <2>8. QED
    BY <1>1, <1>2, <1>3, <2>1, <2>2, <2>4, <2>6, <2>7, OneIdQ
<1>6. QED
  BY <1>4, <1>5

LEMMA DescribeQ ==
  ASSUME IInv, QInv, NEW a \in Threads, Describe(a)
  PROVE  QInv'
<1> PICK p, i : p = job[a].path /\ i = job[a].id
  OBVIOUS
<1> PICK j : j = Idle
  OBVIOUS
<1>1. /\ job[a].pc = "describe" /\ i \in Ids /\ job[a].digest = i[2] /\ i[2] # None
      /\ metas' = [metas EXCEPT ![i] = p]
      /\ job' = [job EXCEPT ![a] = j] /\ j.pc = "idle"
      /\ UNCHANGED <<disk, bins, taken, clashed, cut>> /\ Spoilt' = Spoilt
  BY QTypes, IdlePc DEF Describe, Fits, Ends, history, Spoilt
<1>2. /\ FilesType' /\ metas'[i] = p
      /\ \A k \in Ids \ {i} : bins'[k] = bins[k] /\ metas'[k] = metas[k]
  BY <1>1, QTypes DEF FilesType
<1>3. \A b \in Threads \ {a} : job[b].id = i =>
           i \in Spoilt \/ job[b].pc \notin {"unlink", "describe", "empty", "forget"}
  BY <1>1, AloneInTheMiddle DEF Middle, Critical
<1>4. Fits(a, j) /\ Holds(a, j)'
  BY <1>1 DEF Fits, Holds, Middle
<1>5. i \notin Spoilt => /\ bins[i] = i[2]
                         /\ \A t \in taken : t.id = i => t.path = p /\ t.content = i[2]
  BY <1>1, QTypes DEF Holds, Middle
<1>6. Told(i)'
  BY <1>1, <1>2, <1>5 DEF Told
<1>7. QED
  BY <1>1, <1>2, <1>3, <1>4, <1>6, OneIdQ

LEMMA LookQ ==
  ASSUME IInv, QInv, NEW a \in Threads, Look(a)
  PROVE  QInv'
<1> PICK i : i = job[a].id
  OBVIOUS
<1>1. /\ job[a].pc = "look" /\ i \in Ids /\ a = "heartbeat"
      /\ UNCHANGED <<disk, bins, metas, taken, clashed, cut>> /\ Spoilt' = Spoilt
  BY QTypes DEF Look, Fits, files, history, Spoilt
<1>2. CASE Ends(a)
  BY <1>1, <1>2, QTypes, QuietStepQ
<1>3. CASE ~Ends(a)
  <2> PICK j : j = [job[a] EXCEPT !.pc = "back", !.path = metas[i]]
    OBVIOUS
  <2> PICK P, I, D : job[a] \in Jobs(P, I, D)
    BY QTypes
  <2>1. /\ metas[i] # None
        /\ job' = [job EXCEPT ![a] = j] /\ j.pc = "back" /\ j.id = i
    BY <1>3 DEF Look, Jobs, IInv, TypeInv
  <2>2. job'[a] = j /\ \A b \in Threads \ {a} : job'[b] = job[b]
    BY <2>1 DEF IInv, TypeInv
  <2>3. Fits(a, j) /\ Holds(a, j)'
    BY <1>1, <2>1 DEF Fits, Holds, Middle
  <2>4. ASSUME NEW b \in Threads \ {a}, job[b].id = i
        PROVE  i \in Spoilt \/ job[b].pc \notin {"unlink", "describe", "empty", "forget"}
    <3>1. Fits(b, job[b]) /\ Holds(b, job[b])
      BY QTypes
    <3>2. QED
      BY <1>1, <2>1, <2>4, <3>1 DEF Fits, Holds, Middle
  <2>5. Told(i)'
    <3>1. /\ InTheMiddle(i, Middle) => InTheMiddle(i, Middle)'
          /\ InTheMiddle(i, {"forget"}) => InTheMiddle(i, {"forget"})'
      BY <1>1, <2>2 DEF InTheMiddle, Middle
    <3>2. QED
      BY <1>1, <3>1, QTypes DEF Told
  <2>6. FilesType'
    BY <1>1, QTypes DEF FilesType
  <2>7. QED
    BY <1>1, <2>1, <2>3, <2>4, <2>5, <2>6, OneIdQ
<1>4. QED
  BY <1>2, <1>3

LEMMA BackQ ==
  ASSUME IInv, QInv, NEW a \in Threads, Back(a)
  PROVE  QInv'
<1> PICK p, i : p = job[a].path /\ i = job[a].id
  OBVIOUS
<1>1. /\ job[a].pc = "back" /\ i \in Ids /\ a = "heartbeat"
      /\ UNCHANGED <<metas, clashed, cut>> /\ Spoilt' = Spoilt
  BY QTypes DEF Back, Fits, Spoilt
<1>2. CASE bins[i] = None
  BY <1>1, <1>2, QTypes, QuietStepQ DEF Back
<1>3. CASE bins[i] # None
  <2>1. /\ disk' = [disk EXCEPT ![p] = bins[i]]
        /\ bins' = IF p \in far THEN bins ELSE [bins EXCEPT ![i] = None]
        /\ taken' = {t \in taken : t.id # i}
        /\ Goes(a, IF p \in far THEN "empty" ELSE "forget")
    BY <1>3 DEF Back
  <2> PICK pc : pc = IF p \in far THEN "empty" ELSE "forget"
    OBVIOUS
  <2>2. PICK j : job' = [job EXCEPT ![a] = j] /\ j.pc = pc /\ j.id = i
    BY <2>1, JobAt DEF Pcs
  <2>3. job'[a] = j /\ \A b \in Threads \ {a} : job'[b] = job[b]
    BY <2>2 DEF IInv, TypeInv
  <2>4. FilesType' /\ \A k \in Ids \ {i} : bins'[k] = bins[k] /\ metas'[k] = metas[k]
    <3>1. bins[i] \in Contents
      BY <1>1, <1>3, QTypes DEF FilesType
    <3>2. QED
      BY <1>1, <2>1, <3>1, QTypes DEF FilesType
  <2>5. Fits(a, j) /\ Holds(a, j)'
    BY <1>1, <2>1, <2>2 DEF Fits, Holds, Middle
  <2>6. ASSUME NEW b \in Threads \ {a}, job[b].id = i
        PROVE  i \in Spoilt \/ job[b].pc \notin {"unlink", "describe", "empty", "forget"}
    <3>1. Fits(b, job[b]) /\ Holds(b, job[b])
      BY QTypes
    <3>2. QED
      BY <1>1, <2>6, <3>1 DEF Fits, Holds, Middle, Critical
  <2>7. Told(i)'
    <3>1. bins'[i] \in {bins[i], None} /\ (bins'[i] # None \/ pc = "forget")
      BY <1>1, <1>3, <2>1, QTypes DEF FilesType
    <3>2. pc = "forget" => InTheMiddle(i, {"forget"})'
      BY <2>2, <2>3 DEF InTheMiddle
    <3>3. Told(i)
      BY <1>1, QTypes
    <3>4. QED
      BY <1>1, <2>1, <3>1, <3>2, <3>3 DEF Told
  <2>8. \A t : t.id # i => (t \in taken' <=> t \in taken)
    BY <2>1
  <2>9. QED
    BY <1>1, <2>2, <2>4, <2>5, <2>6, <2>7, <2>8, OneIdQ
<1>4. QED
  BY <1>2, <1>3

\* Of one that is being restored nobody else has anything in hand.
LEMMA AloneRestoring ==
  ASSUME IInv, QInv, NEW a \in Threads, job[a].pc \in {"empty", "forget"}
  PROVE  \A b \in Threads \ {a} : job[b].id = job[a].id =>
           job[a].id \in Spoilt \/ job[b].pc \notin {"unlink", "describe", "empty", "forget"}
<1>1. a = "heartbeat"
  BY QTypes DEF Fits
<1>2. SUFFICES ASSUME NEW b \in Threads \ {a}, job[b].id = job[a].id, job[a].id \notin Spoilt
               PROVE  job[b].pc \notin {"unlink", "describe", "empty", "forget"}
  OBVIOUS
<1>3. Fits(b, job[b]) /\ Holds(b, job[b])
  BY QTypes
<1>4. QED
  BY <1>1, <1>2, <1>3 DEF Fits, Holds, Middle, Critical

LEMMA EmptyOrForgetQ ==
  ASSUME IInv, QInv, NEW a \in Threads, Empty(a) \/ Forget(a)
  PROVE  QInv'
<1> PICK i : i = job[a].id
  OBVIOUS
<1>1. /\ job[a].pc \in {"empty", "forget"} /\ i \in Ids /\ a = "heartbeat"
      /\ UNCHANGED <<disk, taken, clashed, cut>> /\ Spoilt' = Spoilt
      /\ Told(i)
  BY QTypes DEF Empty, Forget, Fits, history, Spoilt
<1>2. i \notin Spoilt => \A t \in taken : t.id # i
  BY <1>1, QTypes DEF Holds
<1>3. CASE Empty(a)
  <2>1. bins' = [bins EXCEPT ![i] = None] /\ metas' = metas /\ Goes(a, "forget")
    BY <1>3 DEF Empty
  <2>2. PICK j : job' = [job EXCEPT ![a] = j] /\ j.pc = "forget" /\ j.id = i
    BY <2>1, JobAt DEF Pcs
  <2>3. job'[a] = j
    BY <2>2 DEF IInv, TypeInv
  <2>4. FilesType' /\ bins'[i] = None
        /\ \A k \in Ids \ {i} : bins'[k] = bins[k] /\ metas'[k] = metas[k]
    BY <1>1, <2>1, QTypes DEF FilesType
  <2>5. Fits(a, j) /\ Holds(a, j)'
    BY <1>1, <1>2, <2>2 DEF Fits, Holds, Middle
  <2>6. InTheMiddle(i, {"forget"})'
    BY <2>2, <2>3 DEF InTheMiddle
  <2>7. Told(i)'
    BY <1>1, <1>2, <2>4, <2>6 DEF Told
  <2>8. QED
    BY <1>1, <2>2, <2>4, <2>5, <2>7, AloneRestoring, OneIdQ
<1>4. CASE Forget(a)
  <2> PICK j : j = Idle
    OBVIOUS
  <2>1. /\ metas' = [metas EXCEPT ![i] = None] /\ bins' = bins
        /\ job' = [job EXCEPT ![a] = j] /\ j.pc = "idle"
    BY <1>4, IdlePc DEF Forget, Ends
  <2>2. FilesType' /\ metas'[i] = None
        /\ \A k \in Ids \ {i} : bins'[k] = bins[k] /\ metas'[k] = metas[k]
    BY <1>1, <2>1, QTypes DEF FilesType
  <2>3. Fits(a, j) /\ Holds(a, j)'
    BY <2>1 DEF Fits, Holds, Middle
  <2>4. Told(i)'
    BY <1>1, <1>2, <2>1, <2>2 DEF Told
  <2>5. QED
    BY <1>1, <2>1, <2>2, <2>3, <2>4, AloneRestoring, OneIdQ
<1>5. QED
  BY <1>3, <1>4

LEMMA RestartQ ==
  ASSUME IInv, QInv, Restart
  PROVE  QInv'
<1>1. /\ job' = [a \in Threads |-> Idle]
      /\ cut' = cut \cup {job[a].id : a \in {b \in Threads :
                               job[b].pc \in {"unlink", "describe", "empty", "forget"}}}
      /\ UNCHANGED <<disk, bins, metas, taken, clashed>>
  BY DEF Restart, files
<1>2. \A a \in Threads : job'[a].pc = "idle"
  BY <1>1, IdlePc
<1>3. FilesType'
  BY <1>1, QTypes DEF FilesType
<1>4. \A a \in Threads : (Fits(a, job[a]) /\ Holds(a, job[a]))'
  BY <1>2 DEF Fits, Holds, Middle
<1>5. ASSUME NEW i \in Ids PROVE Told(i)'
  <2>1. SUFFICES ASSUME i \notin Spoilt' PROVE Told(i)'
    BY DEF Told
  <2>2. i \notin Spoilt /\ ~InTheMiddle(i, Middle) /\ ~InTheMiddle(i, {"forget"})
    BY <1>1, <2>1 DEF Spoilt, InTheMiddle, Middle
  <2>3. QED
    BY <1>1, <2>2, QTypes DEF Told
<1>6. QED
  BY <1>3, <1>4, <1>5 DEF QInv

LEMMA NextQ ==
  ASSUME IInv, QInv, [Next]_vars
  PROVE  QInv'
<1>1. CASE \/ \E p \in Paths, c \in Contents \cup {None} : Change(p, c)
           \/ \E n \in Pids, p \in Paths \cup {None}, g \in BOOLEAN, parent \in Pids \cup {None} :
                Start(n, p, g, parent)
           \/ \E n \in Pids : End(n)
           \/ Tick
           \/ UNCHANGED vars
  BY <1>1, AroundQ
<1>2. CASE \/ \E a \in Threads, n \in Pids, dated \in BOOLEAN : AskKill(a, n, dated)
           \/ \E a \in Threads : AskKillWriter(a)
           \/ \E a \in Threads, p \in Paths : AskQuarantine(a, p)
           \/ \E i \in Ids : AskRestore(i)
           \/ \E p \in Paths : AskDelete(p)
  BY <1>2, AsksQ
<1>3. CASE \E a \in Threads, writers \in SUBSET Pids :
             Target(a) \/ Kill(a) \/ Sample(a, writers) \/ Pick(a)
  BY <1>3, ProcessesQ
<1>4. CASE \E a \in Threads : Find(a) \/ Stop(a) \/ Check(a) \/ Remove(a) \/ Hash(a)
  BY <1>4, BeforeMoveQ, HashQ
<1>5. CASE \E a \in Threads : Move(a) \/ Unlink(a) \/ Describe(a)
  BY <1>5, MoveQ, UnlinkQ, DescribeQ
<1>6. CASE \E a \in Threads : Look(a) \/ Back(a) \/ Empty(a) \/ Forget(a)
  BY <1>6, LookQ, BackQ, EmptyOrForgetQ
<1>7. CASE Restart
  BY <1>7, RestartQ
<1>8. QED
  BY <1>1, <1>2, <1>3, <1>4, <1>5, <1>6, <1>7 DEF Next

LEMMA InvariantQ == Spec => []QInv
<1>1. Init => IInv /\ QInv
  BY InitInv, InitQInv
<1>2. IInv /\ QInv /\ [Next]_vars => (IInv /\ QInv)'
  BY NextInv, NextQ
<1>3. QED
  BY <1>1, <1>2, PTL DEF Spec

(* quarantine_file, restore_file: what was moved to the quarantine is      *)
(* there, with its path, until it is restored, whatever two threads do at  *)
(* once, but for an id that was given again and an action that was cut     *)
(* short.                                                                  *)
THEOREM TheQuarantineGivesBack == Spec => []Restorable
<1>1. QInv => Restorable
  BY DEF QInv, FilesType, Told, Restorable, Spoilt, Middle
<1>2. QED
  BY <1>1, InvariantQ, PTL

(* quarantine_file: a description stands for a file that is there, under   *)
(* the same conditions.                                                    *)
THEOREM DescriptionsAreTrue == Spec => []AlreadyIsTrue
<1>1. QInv => AlreadyIsTrue
  BY DEF QInv, Told, AlreadyIsTrue, Spoilt
<1>2. QED
  BY <1>1, InvariantQ, PTL

=============================================================================
