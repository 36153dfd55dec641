------------------------------ MODULE Response ------------------------------
(***************************************************************************)
(* What the agent does to files and processes (response/actions.py:        *)
(* kill_process, kill_top_writer, quarantine_file, restore_file,           *)
(* delete_file; playbooks.py: build_params).  The thread of the pipeline   *)
(* acts by itself, that of the heartbeat does what the console orders; no  *)
(* lock keeps them apart.  A process is known by its pid and the time it   *)
(* was created; a file is moved to <id>.bin and described in <id>.json,    *)
(* where the id is the second and the digest.  Meanwhile files change,     *)
(* processes come and go, and the agent may end anywhere.                  *)
(*                                                                         *)
(* An operator named X_Y is not used by the specification: it is X with    *)
(* the mistake Y, and shows that a property of X would notice it.          *)
(***************************************************************************)
EXTENDS Integers, FiniteSets

CONSTANTS
  Paths,       \* of files that the agent may move
  Contents,    \* of files; the digest is as good as the content
  Pids,
  MaxActions,  \* bound: actions that are asked for
  MaxChanges,  \* bound: files written or removed, processes started or ended
  MaxFaults,   \* bound: ends of the agent
  MaxClock     \* bound: seconds

ASSUME ResponseAssumption ==
  /\ IsFiniteSet(Paths) /\ IsFiniteSet(Contents) /\ IsFiniteSet(Pids)
  /\ MaxActions \in Nat /\ MaxChanges \in Nat /\ MaxFaults \in Nat /\ MaxClock \in Nat

None == "none"
Threads == {"pipeline", "heartbeat"}
Ids == (0 .. MaxClock) \X Contents  \* the second and the digest
NoId == << >>
Unknown == -1

VARIABLES
  far,      \* paths on another file system than the quarantine; they stay so
  disk,     \* the file at a path, or None
  bins,     \* <id>.bin: a content, or None
  metas,    \* <id>.json: the original path, or None
  procs,    \* the process of a pid, or the last one: [alive, born, exe, guarded, parent]
  job,      \* what each thread is doing, see below
  clock,
  taken,    \* history: what was moved to the quarantine: [id, path, content]
  clashed,  \* history: ids that were given again in their second, or whose file
            \* changed before it was moved
  cut,      \* history: ids at which the agent ended, or an error, in between
  killed,   \* history: how, whether protected, whether by the time of creation too, and
            \* for the process of the pid itself how long after the one that was meant
            \* it was created
  actions, changes, faults

files == <<disk, bins, metas>>
history == <<taken, clashed, cut, killed>>
bounds == <<actions, changes, faults>>
vars == <<far, files, procs, job, clock, history, bounds>>

-----------------------------------------------------------------------------
(* A process is <<pid, born>>; "meant" is the one that an action is about, *)
(* pid where it will look for it, born what it will check, victims what it *)
(* has found, before the writers that it has sampled.                      *)
Idle == [pc |-> "idle", path |-> None, id |-> NoId, digest |-> None,
         pid |-> None, born |-> Unknown, meant |-> NoId, victims |-> {}, before |-> {}]
NoProcess == [alive |-> FALSE, born |-> Unknown, exe |-> None, guarded |-> FALSE, parent |-> None]
Process(n) == <<n, procs[n].born>>
Alive == {n \in Pids : procs[n].alive}
Take(i, p, c) == [id |-> i, path |-> p, content |-> c]

Init ==
  /\ far \in SUBSET Paths
  /\ disk \in [Paths -> Contents \cup {None}]
  /\ bins = [i \in Ids |-> None] /\ metas = [i \in Ids |-> None]
  /\ procs = [n \in Pids |-> NoProcess]
  /\ job = [a \in Threads |-> Idle]
  /\ clock = 0
  /\ taken = {} /\ clashed = {} /\ cut = {} /\ killed = {}
  /\ actions = 0 /\ changes = 0 /\ faults = 0

\* An executable that is moved or replaced is not found by its path any more.
Detached(p) == [n \in Pids |-> IF procs[n].exe = p THEN [procs[n] EXCEPT !.exe = None] ELSE procs[n]]

\* The children of what has ended belong to another.
Without(victims) ==
  LET gone == {n \in Alive : Process(n) \in victims} IN
  [n \in Pids |-> IF n \in gone THEN [NoProcess EXCEPT !.born = procs[n].born]
                  ELSE IF procs[n].parent \in gone THEN [procs[n] EXCEPT !.parent = None]
                  ELSE procs[n]]

\* What happens when no action is under way or to come shows nothing.
Matters == actions < MaxActions \/ \E a \in Threads : job[a] # Idle

Change(p, c) ==
  /\ Matters /\ changes < MaxChanges /\ disk[p] # c
  /\ changes' = changes + 1
  /\ disk' = [disk EXCEPT ![p] = c]
  /\ procs' = Detached(p)
  /\ UNCHANGED <<far, bins, metas, job, clock, history, actions, faults>>

\* A process that still had the pid has ended in between.
Start(n, exe, guarded, parent) ==
  /\ Matters /\ changes < MaxChanges /\ procs[n].born < clock
  /\ exe # None => disk[exe] # None
  /\ parent # None => procs[parent].alive /\ parent # n
  /\ changes' = changes + 1
  /\ procs' = [Without({Process(n)}) EXCEPT
                 ![n] = [alive |-> TRUE, born |-> clock, exe |-> exe, guarded |-> guarded,
                         parent |-> parent]]
  /\ UNCHANGED <<far, files, job, clock, history, actions, faults>>

End(n) ==
  /\ Matters /\ changes < MaxChanges /\ procs[n].alive
  /\ changes' = changes + 1
  /\ procs' = Without({Process(n)})
  /\ UNCHANGED <<far, files, job, clock, history, actions, faults>>

Tick ==
  /\ Matters /\ clock < MaxClock
  /\ clock' = clock + 1
  /\ UNCHANGED <<far, files, procs, job, history, bounds>>

Ask(a, j) ==
  /\ job[a] = Idle /\ actions < MaxActions
  /\ actions' = actions + 1
  /\ job' = [job EXCEPT ![a] = j]
  /\ UNCHANGED <<far, files, procs, clock, history, changes, faults>>

\* The playbook plans it for an alert with a path; the console may order it.
AskQuarantine(a, p) == Ask(a, [Idle EXCEPT !.pc = "find", !.path = p])

AskRestore(i) == Ask("heartbeat", [Idle EXCEPT !.pc = "look", !.id = i])

AskDelete(p) == Ask("heartbeat", [Idle EXCEPT !.pc = "check", !.path = p])

\* The event of an alert, or the order, names a process as it was then; the
\* time of its creation only if the event is one of a process.
AskKill(a, n, dated) ==
  /\ procs[n].alive
  /\ Ask(a, [Idle EXCEPT !.pc = "target", !.pid = n, !.meant = Process(n),
                         !.born = IF dated THEN procs[n].born ELSE Unknown])

AskKillWriter(a) == Ask(a, [Idle EXCEPT !.pc = "sample"])

Goes(a, pc) == job' = [job EXCEPT ![a].pc = pc]
Ends(a) == job' = [job EXCEPT ![a] = Idle]

-----------------------------------------------------------------------------
(* proc.children(recursive): what every set closed under children has.     *)
Descendants(n) ==
  {c \in Alive : \A S \in SUBSET Alive :
     (\A d \in Alive : procs[d].parent \in S \cup {n} => d \in S) => c \in S}

Target_Undated(a) ==
  /\ job[a].pc = "target"
  /\ LET n == job[a].pid IN
       IF ~procs[n].alive \/ procs[n].guarded THEN Ends(a)
       ELSE job' = [job EXCEPT ![a].pc = "kill",
                                ![a].victims = {Process(c) : c \in Descendants(n) \cup {n}}]
  /\ UNCHANGED <<far, files, procs, clock, history, bounds>>

(* kill_process: the process that has the pid now, if it was created within *)
(* a second of the time given, if any, and is not a protected one.          *)
Target(a) ==
  /\ job[a].pc = "target"
  /\ LET n    == job[a].pid
         born == job[a].born
         other == born # Unknown /\ procs[n].born \notin born - 1 .. born + 1 IN
       IF ~procs[n].alive \/ other \/ procs[n].guarded THEN Ends(a)
       ELSE job' = [job EXCEPT ![a].pc = "kill",
                                ![a].victims = {Process(c) : c \in Descendants(n) \cup {n}}]
  /\ UNCHANGED <<far, files, procs, clock, history, bounds>>

\* The process itself is killed, or a descendant of it, or it runs the file.
Killed(a, how, victims) ==
  /\ procs' = Without(victims)
  /\ killed' = killed \cup
       {[how |-> how, dated |-> job[a].born # Unknown, guarded |-> procs[n].guarded,
         late |-> IF n = job[a].pid THEN procs[n].born - job[a].meant[2] ELSE Unknown]
         : n \in {c \in Alive : Process(c) \in victims}}

\* psutil kills no other process that has got the pid since.
Kill(a) ==
  /\ job[a].pc = "kill"
  /\ Killed(a, "pid", job[a].victims)
  /\ Ends(a)
  /\ UNCHANGED <<far, files, clock, taken, clashed, cut, bounds>>

\* kill_top_writer: which processes have to do with the directories ...
Sample(a, writers) ==
  /\ job[a].pc = "sample" /\ writers \subseteq Alive
  /\ IF writers = {} THEN Ends(a)
     ELSE job' = [job EXCEPT ![a].pc = "pick", ![a].before = {Process(n) : n \in writers}]
  /\ UNCHANGED <<far, files, procs, clock, history, bounds>>

\* ... and, a second later, which of their pids has written most since.
Pick(a) ==
  /\ job[a].pc = "pick"
  /\ LET candidates == {w \in job[a].before : procs[w[1]].alive /\ ~procs[w[1]].guarded} IN
       \/ /\ \A w \in candidates : Process(w[1]) # w
          /\ Ends(a)
       \/ \E w \in candidates :
            job' = [job EXCEPT ![a].pc = "target", ![a].pid = w[1], ![a].meant = w]
  /\ UNCHANGED <<far, files, procs, clock, history, bounds>>

-----------------------------------------------------------------------------
(* quarantine_file.  For a file that is not there it only answers what the *)
(* descriptions say: that it is in the quarantine already, or nowhere.     *)

\* _protected_file: what a protected process executes is not moved, not deleted.
InUse(p) == \E n \in Alive : procs[n].guarded /\ procs[n].exe = p

Find(a) ==
  /\ job[a].pc = "find"
  /\ IF disk[job[a].path] = None \/ InUse(job[a].path) THEN Ends(a) ELSE Goes(a, "hash")
  /\ UNCHANGED <<far, files, procs, clock, history, bounds>>

Hash_SecondOnly(a) ==
  /\ job[a].pc = "hash"
  /\ LET c == disk[job[a].path] IN
       IF c = None THEN Ends(a)
       ELSE job' = [job EXCEPT ![a].pc = "stop", ![a].digest = c,
                                ![a].id = <<clock, CHOOSE d \in Contents : TRUE>>]
  /\ UNCHANGED <<far, files, procs, clock, history, bounds>>

\* The digest and the second make the id.  A file that is gone raises in stat.
Hash(a) ==
  /\ job[a].pc = "hash"
  /\ LET c == disk[job[a].path] IN
       IF c = None THEN Ends(a)
       ELSE job' = [job EXCEPT ![a].pc = "stop", ![a].digest = c,
                                ![a].id = <<clock, c>>]
  /\ UNCHANGED <<far, files, procs, clock, history, bounds>>

\* Those that execute the file are killed, but for the protected ones.
Stop(a) ==
  /\ job[a].pc = "stop"
  /\ Killed(a, "exe", {Process(n) : n \in {m \in Alive : procs[m].exe = job[a].path
                                                         /\ ~procs[m].guarded}})
  /\ Goes(a, "move")
  /\ UNCHANGED <<far, files, clock, taken, clashed, cut, bounds>>

Busy(a, i) == \E b \in Threads \ {a} : job[b].id = i
Clashes(a, i, c) == c # job[a].digest \/ bins[i] = c \/ Busy(a, i)

(* shutil.move: a rename, which replaces a file of that name; or a copy,   *)
(* and then the original is removed.                                       *)
Move(a) ==
  /\ job[a].pc = "move"
  /\ LET p == job[a].path
         i == job[a].id
         c == disk[p] IN
       IF c = None THEN Ends(a) /\ UNCHANGED <<disk, procs, bins, taken, clashed>>
       ELSE /\ bins' = [bins EXCEPT ![i] = c]
            /\ disk' = IF p \in far THEN disk ELSE [disk EXCEPT ![p] = None]
            /\ procs' = IF p \in far THEN procs ELSE Detached(p)
            /\ taken' = taken \cup {Take(i, p, c)}
            /\ clashed' = IF Clashes(a, i, c) THEN clashed \cup {i} ELSE clashed
            /\ Goes(a, IF p \in far THEN "unlink" ELSE "describe")
  /\ UNCHANGED <<far, metas, clock, cut, killed, bounds>>

\* Removes what is there by now, be it what was copied or not.
Unlink(a) ==
  /\ job[a].pc = "unlink"
  /\ LET p == job[a].path IN
       /\ disk' = [disk EXCEPT ![p] = None]
       /\ procs' = Detached(p)
       /\ IF disk[p] = None THEN Ends(a) /\ cut' = cut \cup {job[a].id}
                            ELSE Goes(a, "describe") /\ UNCHANGED cut
  /\ UNCHANGED <<far, bins, metas, clock, taken, clashed, killed, bounds>>

Describe(a) ==
  /\ job[a].pc = "describe"
  /\ metas' = [metas EXCEPT ![job[a].id] = job[a].path]
  /\ Ends(a)
  /\ UNCHANGED <<far, disk, bins, procs, clock, history, bounds>>

-----------------------------------------------------------------------------
\* restore_file: what is described and there is moved back ...
Look(a) ==
  /\ job[a].pc = "look"
  /\ LET i == job[a].id IN
       IF metas[i] = None \/ bins[i] = None THEN Ends(a)
       ELSE job' = [job EXCEPT ![a].pc = "back", ![a].path = metas[i]]
  /\ UNCHANGED <<far, files, procs, clock, history, bounds>>

Back_NoForget(a) ==
  /\ job[a].pc = "back"
  /\ LET p == job[a].path
         i == job[a].id IN
       IF bins[i] = None THEN Ends(a) /\ UNCHANGED <<disk, procs, bins, taken>>
       ELSE /\ disk' = [disk EXCEPT ![p] = bins[i]]
            /\ procs' = Detached(p)
            /\ bins' = [bins EXCEPT ![i] = None]
            /\ taken' = {t \in taken : t.id # i}
            /\ Ends(a)
  /\ UNCHANGED <<far, metas, clock, clashed, cut, killed, bounds>>

\* ... over whatever is there now ...
Back(a) ==
  /\ job[a].pc = "back"
  /\ LET p == job[a].path
         i == job[a].id IN
       IF bins[i] = None THEN Ends(a) /\ UNCHANGED <<disk, procs, bins, taken>>
       ELSE /\ disk' = [disk EXCEPT ![p] = bins[i]]
            /\ procs' = Detached(p)
            /\ bins' = IF p \in far THEN bins ELSE [bins EXCEPT ![i] = None]
            /\ taken' = {t \in taken : t.id # i}
            /\ Goes(a, IF p \in far THEN "empty" ELSE "forget")
  /\ UNCHANGED <<far, metas, clock, clashed, cut, killed, bounds>>

Empty(a) ==
  /\ job[a].pc = "empty"
  /\ bins' = [bins EXCEPT ![job[a].id] = None]
  /\ Goes(a, "forget")
  /\ UNCHANGED <<far, disk, metas, procs, clock, history, bounds>>

\* ... and its description removed.
Forget(a) ==
  /\ job[a].pc = "forget"
  /\ metas' = [metas EXCEPT ![job[a].id] = None]
  /\ Ends(a)
  /\ UNCHANGED <<far, disk, bins, procs, clock, history, bounds>>

\* delete_file.
Check(a) ==
  /\ job[a].pc = "check"
  /\ IF disk[job[a].path] = None \/ InUse(job[a].path) THEN Ends(a) ELSE Goes(a, "remove")
  /\ UNCHANGED <<far, files, procs, clock, history, bounds>>

Remove(a) ==
  /\ job[a].pc = "remove"
  /\ disk' = [disk EXCEPT ![job[a].path] = None]
  /\ procs' = Detached(job[a].path)
  /\ Ends(a)
  /\ UNCHANGED <<far, bins, metas, clock, history, bounds>>

-----------------------------------------------------------------------------
\* The agent ends, wherever its threads are, and starts again.
Restart ==
  /\ Matters /\ faults < MaxFaults
  /\ faults' = faults + 1
  /\ job' = [a \in Threads |-> Idle]
  /\ cut' = cut \cup {job[a].id : a \in {b \in Threads :
                           job[b].pc \in {"unlink", "describe", "empty", "forget"}}}
  /\ UNCHANGED <<far, files, procs, clock, taken, clashed, killed, actions, changes>>

Next ==
  \/ \E p \in Paths, c \in Contents \cup {None} : Change(p, c)
  \/ \E n \in Pids, p \in Paths \cup {None}, g \in BOOLEAN, parent \in Pids \cup {None} :
       Start(n, p, g, parent)
  \/ \E n \in Pids : End(n)
  \/ Tick
  \/ \E a \in Threads, n \in Pids, dated \in BOOLEAN : AskKill(a, n, dated)
  \/ \E a \in Threads : AskKillWriter(a)
  \/ \E a \in Threads, p \in Paths : AskQuarantine(a, p)
  \/ \E i \in Ids : AskRestore(i)
  \/ \E p \in Paths : AskDelete(p)
  \/ \E a \in Threads : Target(a)
  \/ \E a \in Threads : Kill(a)
  \/ \E a \in Threads, writers \in SUBSET Pids : Sample(a, writers)
  \/ \E a \in Threads : Pick(a)
  \/ \E a \in Threads : Find(a)
  \/ \E a \in Threads : Hash(a)
  \/ \E a \in Threads : Stop(a)
  \/ \E a \in Threads : Move(a)
  \/ \E a \in Threads : Unlink(a)
  \/ \E a \in Threads : Describe(a)
  \/ \E a \in Threads : Look(a)
  \/ \E a \in Threads : Back(a)
  \/ \E a \in Threads : Empty(a)
  \/ \E a \in Threads : Forget(a)
  \/ \E a \in Threads : Check(a)
  \/ \E a \in Threads : Remove(a)
  \/ Restart

Spec == Init /\ [][Next]_vars

-----------------------------------------------------------------------------
InTheMiddle(i, pcs) == \E a \in Threads : job[a].id = i /\ job[a].pc \in pcs

\* What was taken to the quarantine can be restored: its content and its path
\* are there until it is, unless the agent or an error cut the action short,
\* or the id was given again: to the same content at another path, within the
\* second, or to a file that changed after its digest was taken.
Restorable ==
  \A t \in taken :
    t.id \in clashed \cup cut \/ InTheMiddle(t.id, {"unlink", "describe"})
    \/ (bins[t.id] = t.content /\ metas[t.id] = t.path)

\* "ya estaba en cuarentena" is true: what a description says is in the
\* quarantine is there, unless it is being restored, a restoration was cut
\* short, or the id was given again.
AlreadyIsTrue ==
  \A i \in Ids : metas[i] # None =>
    bins[i] # None \/ i \in clashed \cup cut \/ InTheMiddle(i, {"forget"})

(* Whatever pid another process has got in the meantime, the agent kills   *)
(* the process that the alert or the order was about, one that executes    *)
(* the file, or a descendant; and a protected one only as a descendant.    *)
(* But an order without the time of creation, the choice of a writer and a *)
(* process that takes the pid over within a second go to another process.  *)
KillsWhatItMeant ==
  \A k \in killed :
    /\ k.guarded => k.how = "pid" /\ k.late = Unknown
    /\ k.dated => k.late \in {Unknown, 0, 1}

=============================================================================
