----------------------------- MODULE Detection -----------------------------
(***************************************************************************)
(* What an agent remembers between two events (detection/engine.py,        *)
(* behavior.py, rules.py): sliding windows, cooldowns, deduplication, and  *)
(* the baseline of logins and executables it has learnt.  The pipeline     *)
(* thread analyses one event at a time; the thread "baselines" saves the   *)
(* baseline meanwhile, without a lock.  Windows go by the time the sensor  *)
(* made the event, the rest by the time at which it is analysed: events    *)
(* wait in a queue.                                                        *)
(*                                                                         *)
(* Which events match a rule, what makes a file change suspicious, and the *)
(* lists of what is allowed are left out: "kind" is what they amount to.   *)
(* So are beaconing and exfiltration (statistics on intervals and volume). *)
(* The clock of the machine never steps back.                              *)
(*                                                                         *)
(* An operator named X_Y is not used by the specification: it is X with    *)
(* the mistake Y, and shows that a property of X would notice it.          *)
(***************************************************************************)
EXTENDS Integers, FiniteSets, Sequences, SequencesExt

CONSTANTS
  WindowOf,    \* per rule: the length of its window
  LimitOf,     \* per rule: how many in the window make an alert
  CooldownOf,  \* per rule: the cooldown given to _once
  DedupWindow, \* detection.dedup_window
  Settings     \* the agents and their surroundings that are looked at, records of
               \*   events:   what the sensors report, [kind, who, what]s
               \*   learning: detection.learning_period, from the agent's first start
               \*   lag:      how long an event waits in the queue
               \* and of the bounds maxEvents (events analysed), maxRestarts (restarts
               \* of the agent) and maxClock (ticks of the clock)

(* A "recon" is the start of a process that PROC-012 counts; a note may be *)
(* a suspicious change as well.  "who" is the source of a login or of an   *)
(* inbound connection, the process of an outbound one, the directory of a  *)
(* file, the parent of a process, the user of su; "what" is the rest.      *)
Starts == {"process_start", "initial_process", "recon"}
Notes == {"ransom_note", "suspicious_note"}
Kinds == {"login_failed", "login_success", "su_failed", "suspicious_change", "file_delete",
          "outbound", "inbound"} \cup Starts \cup Notes

\* The rules that count: of the YAML files, and of BehaviorEngine.
ThresholdRules == {"AUTH-005", "PROC-012"}
WindowRules == {"BEH-BRUTEFORCE", "BEH-SPRAY", "BEH-DIST-BRUTEFORCE", "BEH-RANSOMWARE",
                "BEH-MASS-DELETE", "BEH-OUTBOUND-SCAN", "BEH-INBOUND-SCAN"}
CountsDistinct == {"BEH-SPRAY", "BEH-DIST-BRUTEFORCE", "BEH-OUTBOUND-SCAN", "BEH-INBOUND-SCAN"}

ASSUME DetectionAssumption ==
  /\ \A s \in Settings : \A e \in s.events : e.kind \in Kinds
  /\ WindowOf \in [ThresholdRules \cup WindowRules \cup {"failed_total"} -> Nat]
  /\ LimitOf \in [ThresholdRules \cup WindowRules -> Nat \ {0}]
  /\ CooldownOf \in [WindowRules \cup {"BEH-RANSOM-NOTE"} -> Nat]
  /\ DedupWindow \in Nat /\ \A s \in Settings : s.learning \in Nat /\ s.lag \in Nat

VARIABLES
  setting,  \* the one of Settings this is about; it never changes
  clock,    \* time.time()
  lastTs,   \* the time of the event analysed last: the queue is in order
  windows,  \* the windows, by rule and group: [ts, value]s in order
  fired,    \* BehaviorEngine.fired
  dedup,    \* DetectionEngine._dedup
  seen,     \* seen_logins and seen_exes
  pending,  \* _pending_logins and _pending_exes
  saver,    \* what flush_baselines has saved and is about to clear, or "none"
  baseline, \* table baseline
  restarts,
  log,      \* history: the events analysed, and in which run of the agent
  reports,  \* history: the alerts that came out of analyze()
  saved,    \* history: entries that were pending when they were saved
  due       \* history: login sources that were news when they were first used

memory == <<windows, fired, dedup, seen, pending>>
history == <<log, reports, saved, due>>
vars == <<setting, clock, lastTs, memory, saver, baseline, restarts, history>>

-----------------------------------------------------------------------------
\* Which windows an event goes to, as the handlers of analyze() have it.
Feed(rule, by, value) == [rule |-> rule, by |-> by, value |-> value]

Feeds(e) ==
  CASE e.kind = "login_failed" ->
         {Feed("BEH-BRUTEFORCE", e.who, e.what), Feed("failed_total", e.who, e.what),
          Feed("BEH-SPRAY", e.who, e.what), Feed("BEH-DIST-BRUTEFORCE", e.what, e.who)}
    [] e.kind \in {"suspicious_change", "suspicious_note"} ->
         {Feed("BEH-RANSOMWARE", "host", e.what)}
    [] e.kind = "file_delete"       -> {Feed("BEH-MASS-DELETE", "host", e.what)}
    [] e.kind = "outbound"          -> {Feed("BEH-OUTBOUND-SCAN", e.who, e.what)}
    [] e.kind = "inbound"           -> {Feed("BEH-INBOUND-SCAN", e.who, e.what)}
    [] e.kind = "su_failed"         -> {Feed("AUTH-005", e.who, e.what)}
    [] e.kind = "recon"             -> {Feed("PROC-012", e.who, e.what)}
    [] OTHER -> {}

Key(f) == <<f.rule, f.by>>

(* The fields of an event that _dedup_key looks at.  A process's parent is *)
(* not among them; the local port of an outbound connection is, and no two *)
(* connections share it (Deduplicated).                                    *)
Data(e) == IF e.kind \in Starts THEN <<e.what>> ELSE <<e.who, e.what>>
Deduplicated(e) == e.kind # "outbound"

-----------------------------------------------------------------------------
WindowAt(k) == IF k \in DOMAIN windows THEN windows[k] ELSE << >>

\* _Window.trim, and the loop in Rule.evaluate: from the left.
Trim(w, now, length) ==
  LET old == {k \in DOMAIN w : \A j \in 1..k : now - w[j].ts > length}
  IN SubSeq(w, Cardinality(old) + 1, Len(w))

\* The window of f with the event just added.
Added(f, ts) ==
  Trim(Append(WindowAt(Key(f)), [ts |-> ts, value |-> f.value]), ts, WindowOf[f.rule])

Count(rule, w) ==
  IF rule \in CountsDistinct THEN Cardinality({w[k].value : k \in DOMAIN w}) ELSE Len(w)

Reached(f, ts) == f.rule # "failed_total" /\ Count(f.rule, Added(f, ts)) >= LimitOf[f.rule]

Rested_ByWindow(rule, by) ==
  (<<rule, by>> \in DOMAIN fired /\ rule \in DOMAIN WindowOf) =>
    clock - fired[<<rule, by>>] >= WindowOf[rule]

\* Whether _once(key, cooldown) lets an alert pass.
Rested(rule, by) ==
  <<rule, by>> \in DOMAIN fired => clock - fired[<<rule, by>>] >= CooldownOf[rule]

\* The windows whose rule raises an alert for e.
Fires(e, ts) ==
  {f \in Feeds(e) : Reached(f, ts) /\ (f.rule \in WindowRules => Rested(f.rule, f.by))}

\* A threshold rule starts afresh once it has fired.
WindowsAfter(e, ts) ==
  LET keys == {Key(f) : f \in Feeds(e)}
      total == IF e.kind = "login_success" THEN {<<"failed_total", e.who>>} ELSE {}
  IN [k \in DOMAIN windows \cup keys |->
        IF k \in keys THEN LET f == CHOOSE g \in Feeds(e) : Key(g) = k IN
               IF f.rule \in ThresholdRules /\ Reached(f, ts) THEN << >> ELSE Added(f, ts)
        ELSE IF k \in total THEN Trim(windows[k], ts, WindowOf["failed_total"])
        ELSE windows[k]]

-----------------------------------------------------------------------------
\* The entry of the baseline an event belongs to.
Login(user, ip) == <<"seen_logins", user, ip>>
Entries(e) ==
  CASE e.kind = "login_success" -> {Login(e.what, e.who)}
    [] e.kind \in Starts -> {<<"seen_exes", e.what>>}
    [] OTHER -> {}

Learning == clock < setting.learning

OtherLogins(entries, user) == {k \in entries : k[1] = "seen_logins" /\ k[2] = user}

\* The alerts of _login_success and _process_start about something new.
News(e) ==
  IF Learning \/ Entries(e) \subseteq seen THEN {}
  ELSE CASE e.kind = "login_success" /\ e.who # "local" /\ OtherLogins(seen, e.what) # {} ->
              {"UEBA-NEW-LOGIN-SOURCE"}
         [] e.kind \in Starts \ {"initial_process"} -> {"UEBA-RARE-BINARY"}
         [] OTHER -> {}

Learnt_Quiet(e) == IF Learning THEN {} ELSE Entries(e) \ seen

\* What the baseline learns from e, whether or not an alert comes of it.
Learnt(e) == Entries(e) \ seen

Success_Recent(e, ts) ==
  /\ e.kind = "login_success"
  /\ Len(Trim(WindowAt(<<"failed_total", e.who>>), ts, WindowOf["BEH-BRUTEFORCE"]))
       >= LimitOf["BEH-BRUTEFORCE"]

\* A login after as many failures in the last hour as make a brute force.
Success(e, ts) ==
  /\ e.kind = "login_success"
  /\ Len(Trim(WindowAt(<<"failed_total", e.who>>), ts, WindowOf["failed_total"]))
       >= LimitOf["BEH-BRUTEFORCE"]

Note(e) == e.kind \in Notes /\ Rested("BEH-RANSOM-NOTE", e.who)

\* The alerts raised for e, before deduplication: [rule, by].
Raised(e, ts) ==
  {[rule |-> f.rule, by |-> f.by] : f \in Fires(e, ts)}
  \cup {[rule |-> r, by |-> e.who] : r \in News(e)}
  \cup (IF Success(e, ts) THEN {[rule |-> "BEH-BRUTEFORCE-SUCCESS", by |-> e.who]} ELSE {})
  \cup (IF Note(e) THEN {[rule |-> "BEH-RANSOM-NOTE", by |-> e.who]} ELSE {})

\* Whether analyze() lets an alert of the rule for e pass.
Fresh(rule, e) ==
  (Deduplicated(e) /\ <<rule, Data(e)>> \in DOMAIN dedup) =>
    clock - dedup[<<rule, Data(e)>>] >= DedupWindow

Stamped_Held(e, ts) ==
  {Key(f) : f \in {g \in Feeds(e) : g.rule \in WindowRules /\ Reached(g, ts)}}

\* What _once stamps: an alert of BehaviorEngine, though the next step drop it.
Stamped(e, ts) == {<<a.rule, a.by>> : a \in {b \in Raised(e, ts) : b.rule \in DOMAIN CooldownOf}}

Stamp(f, keys) == [k \in DOMAIN f \cup keys |-> IF k \in keys THEN clock ELSE f[k]]

Init ==
  /\ setting \in Settings
  /\ clock = 0 /\ lastTs = 0
  /\ windows = << >> /\ fired = << >> /\ dedup = << >>
  /\ seen = {} /\ pending = {}
  /\ saver = "none"
  /\ baseline = {}
  /\ restarts = 0
  /\ log = << >> /\ reports = {} /\ saved = {} /\ due = {}

\* The entries used before, as far as this run of the agent can know.
KnownLogins(user) ==
  OtherLogins(saved \cup UNION {Entries(log[k].event) :
                                  k \in {j \in DOMAIN log : log[j].run = restarts}}, user)

Used == UNION {Entries(log[k].event) : k \in DOMAIN log}

\* DetectionEngine.analyze of an event the sensors made at ts.
Analyze(e, ts) ==
  /\ Len(log) < setting.maxEvents
  /\ ts >= clock - setting.lag
  /\ LET out == {a \in Raised(e, ts) : Fresh(a.rule, e)} IN
     /\ windows' = WindowsAfter(e, ts)
     /\ fired' = Stamp(fired, Stamped(e, ts))
     /\ dedup' = Stamp(dedup, {<<a.rule, Data(e)>> : a \in out})
     /\ reports' = reports \cup {[rule |-> a.rule, by |-> a.by, data |-> Data(e), at |-> clock,
                                  run |-> restarts, event |-> e] : a \in out}
  /\ seen' = seen \cup Learnt(e)
  /\ pending' = pending \cup Learnt(e)
  /\ lastTs' = ts
  /\ log' = Append(log, [event |-> e, ts |-> ts, at |-> clock, run |-> restarts])
  /\ due' = IF /\ e.kind = "login_success" /\ e.who # "local" /\ ~Learning
               /\ Entries(e) \cap Used = {} /\ KnownLogins(e.what) # {}
            THEN due \cup {e} ELSE due
  /\ UNCHANGED <<setting, clock, saver, baseline, restarts, saved>>

-----------------------------------------------------------------------------
PendingOf(ns) == {k \in pending : k[1] = ns}

Save_Uncommitted(ns) ==
  /\ saver = "none"
  /\ PendingOf(ns) # {}
  /\ saver' = ns
  /\ saved' = saved \cup PendingOf(ns)
  /\ UNCHANGED <<setting, clock, lastTs, memory, baseline, restarts, log, reports, due>>

\* flush_baselines: baseline_update of one of the two ...
Save(ns) ==
  /\ saver = "none"
  /\ PendingOf(ns) # {}
  /\ baseline' = baseline \cup PendingOf(ns)
  /\ saver' = ns
  /\ saved' = saved \cup PendingOf(ns)
  /\ UNCHANGED <<setting, clock, lastTs, memory, restarts, log, reports, due>>

\* ... which is then replaced by an empty dictionary.
Clear(ns) ==
  /\ saver = ns
  /\ pending' = pending \ PendingOf(ns)
  /\ saver' = "none"
  /\ UNCHANGED <<setting, clock, lastTs, windows, fired, dedup, seen, baseline, restarts, history>>

(* The agent ends, by a crash or with a last flush_baselines (a Save and a *)
(* Clear before), and is started again.                                    *)
Restart ==
  /\ restarts < setting.maxRestarts
  /\ restarts' = restarts + 1
  /\ windows' = << >> /\ fired' = << >> /\ dedup' = << >>
  /\ seen' = baseline
  /\ pending' = {}
  /\ saver' = "none"
  /\ lastTs' = clock
  /\ UNCHANGED <<setting, clock, baseline, history>>

Tick ==
  /\ clock < setting.maxClock
  /\ clock' = clock + 1
  /\ UNCHANGED <<setting, lastTs, memory, saver, baseline, restarts, history>>

Next ==
  \/ \E e \in setting.events : \E ts \in lastTs..clock : Analyze(e, ts)
  \/ \E ns \in {"seen_exes", "seen_logins"} : Save(ns)
  \/ \E ns \in {"seen_exes", "seen_logins"} : Clear(ns)
  \/ Restart
  \/ Tick

Spec == Init /\ [][Next]_vars

-----------------------------------------------------------------------------
\* The events of the log, up to and including the last one, that belong to
\* the window of f, had every one of them been kept.
Belonging(f) ==
  LET last == log[Len(log)] IN
  {k \in DOMAIN log :
     /\ log[k].run = last.run
     /\ last.ts - log[k].ts <= WindowOf[f.rule]
     /\ \E g \in Feeds(log[k].event) : Key(g) = Key(f)}

ValueIn(f, e) == (CHOOSE g \in Feeds(e) : Key(g) = Key(f)).value

TrueCount(f) ==
  IF f.rule \in CountsDistinct
  THEN Cardinality({ValueIn(f, log[k].event) : k \in Belonging(f)})
  ELSE Cardinality(Belonging(f))

\* How long ago the alert may have come out.  A threshold rule has fired since
\* the first event in its window.
Grace(rule) ==
  DedupWindow + (IF rule \in ThresholdRules THEN WindowOf[rule] + setting.lag ELSE CooldownOf[rule])

(* An attack is not hidden by the cooldown and the deduplication, which go *)
(* by different keys: when the events of a group, all of them counted from *)
(* the log, reach the limit of a rule, an alert of that rule and group has *)
(* come out in this run, no longer ago than the two periods together.      *)
(* PROC-012 is left out: it groups by parent process, and a burst of       *)
(* another parent that ends in the same command is taken for a duplicate.  *)
AttackReported ==
  log # << >> =>
    LET last == log[Len(log)] IN
    \A f \in Feeds(last.event) :
      (f.rule \notin {"failed_total", "PROC-012"} /\ TrueCount(f) >= LimitOf[f.rule]) =>
        \E r \in reports : /\ r.rule = f.rule /\ r.by = f.by /\ r.run = last.run
                           /\ r.at >= last.at - Grace(f.rule)

(* A login after a brute force has an alert no older than the              *)
(* deduplication window that names its address and user, even when the     *)
(* failures came hours before, were reported then, or were too slow for    *)
(* BEH-BRUTEFORCE.                                                         *)
IntrusionReported ==
  log # << >> =>
    LET last == log[Len(log)]
        f    == Feed("failed_total", last.event.who, "")
    IN (last.event.kind = "login_success" /\ TrueCount(f) >= LimitOf["BEH-BRUTEFORCE"]) =>
         \E r \in reports : /\ r.rule = "BEH-BRUTEFORCE-SUCCESS" /\ r.run = last.run
                            /\ r.data = Data(last.event)
                            /\ r.at >= last.at - DedupWindow

(* In one run of the agent two alerts of a rule are apart: by the          *)
(* deduplication window if they are about the same thing, by the cooldown  *)
(* of the rule if they are about the same group.                           *)
AlertsApart ==
  \A r, s \in reports :
    (r # s /\ r.rule = s.rule /\ r.run = s.run /\ r.at <= s.at) =>
      /\ (r.data = s.data /\ Deduplicated(r.event)) => s.at - r.at >= DedupWindow
      /\ (r.rule \in DOMAIN CooldownOf /\ r.by = s.by) => s.at - r.at >= CooldownOf[r.rule]

(* What was pending when the baseline was saved is never news again, not   *)
(* after a restart at any point of flush_baselines either.                 *)
NeverNewsAgain ==
  [][\A r \in reports' \ reports :
       r.rule \in {"UEBA-NEW-LOGIN-SOURCE", "UEBA-RARE-BINARY"} =>
         Entries(r.event) \cap saved = {}]_vars

(* A user's first login from a new source is reported, if another source   *)
(* of the user was seen in this run of the agent, even while learning, or  *)
(* was saved in an earlier one.                                            *)
NewSourceReported ==
  \A e \in due : \E r \in reports : r.rule = "UEBA-NEW-LOGIN-SOURCE" /\ r.event = e

=============================================================================
