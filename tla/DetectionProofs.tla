-------------------------- MODULE DetectionProofs --------------------------
(***************************************************************************)
(* Alerts of a rule are kept apart, what was saved is never news again, a  *)
(* new source is reported, and so are attacks and logins after them, for   *)
(* every instance of Detection.                                            *)
(***************************************************************************)
EXTENDS Detection, SequenceTheorems, FiniteSetTheorems, WellFoundedInduction, TLAPS

EventType == UNION {s.events : s \in Settings}
LogType == [event : EventType, ts : Int, at : Nat, run : Nat]

TypeInv ==
  /\ setting \in Settings
  /\ clock \in Nat /\ restarts \in Nat
  /\ log \in Seq(LogType)

\* An alert of this run has left its time with both filters, or a later one.
Filtered(r) ==
  /\ r.run <= restarts /\ r.run \in Nat /\ r.at <= clock /\ r.at \in Nat
  /\ (Deduplicated(r.event) <=> r.rule # "BEH-OUTBOUND-SCAN")
  /\ r.run = restarts =>
       /\ <<r.rule, r.data>> \in DOMAIN dedup
       /\ dedup[<<r.rule, r.data>>] \in Nat /\ r.at <= dedup[<<r.rule, r.data>>]
       /\ r.rule \in DOMAIN CooldownOf =>
            /\ <<r.rule, r.by>> \in DOMAIN fired
            /\ fired[<<r.rule, r.by>>] \in Nat /\ r.at <= fired[<<r.rule, r.by>>]

FilterInv == \A r \in reports : Filtered(r)

\* What was saved or is to be is known, and is in the table once saved.
BaselineInv == pending \subseteq seen /\ saved \subseteq seen /\ saved \subseteq baseline

-----------------------------------------------------------------------------
(* What Raised consists of.                                                *)
LEMMA FeedsByRule ==
  ASSUME NEW e
  PROVE  /\ \A f, g \in Feeds(e) : f.rule = g.rule => f = g
         /\ \A f \in Feeds(e) : /\ f.rule \in ThresholdRules \cup WindowRules \cup {"failed_total"}
                                /\ f.rule = "BEH-OUTBOUND-SCAN" <=> ~Deduplicated(e)
BY SMTT(60) DEF Feeds, Feed, ThresholdRules, WindowRules, Deduplicated

LEMMA NewsRules ==
  ASSUME NEW e, NEW r \in News(e)
  PROVE  /\ r \in {"UEBA-NEW-LOGIN-SOURCE", "UEBA-RARE-BINARY"}
         /\ Deduplicated(e)
         /\ Entries(e) \cap seen = {}
BY SMTT(60) DEF News, Deduplicated, Starts, Entries, Login

LEMMA RaisedApart ==
  ASSUME DetectionAssumption, NEW e, NEW ts, NEW a \in Raised(e, ts)
  PROVE  /\ \A b \in Raised(e, ts) : a.rule = b.rule => a = b
         /\ a.rule # "BEH-OUTBOUND-SCAN" <=> Deduplicated(e)
         /\ a.rule \in DOMAIN CooldownOf => Rested(a.rule, a.by)
         /\ a.rule \in {"UEBA-NEW-LOGIN-SOURCE", "UEBA-RARE-BINARY"} => a.rule \in News(e)
<1> DEFINE B1 == {[rule |-> f.rule, by |-> f.by] : f \in Fires(e, ts)}
           B2 == {[rule |-> r, by |-> e.who] : r \in News(e)}
           B3 == IF Success(e, ts) THEN {[rule |-> "BEH-BRUTEFORCE-SUCCESS", by |-> e.who]} ELSE {}
           B4 == IF Note(e) THEN {[rule |-> "BEH-RANSOM-NOTE", by |-> e.who]} ELSE {}
           Cooled == WindowRules \cup {"BEH-RANSOM-NOTE"}
           News2 == {"UEBA-NEW-LOGIN-SOURCE", "UEBA-RARE-BINARY"}
<1>1. DOMAIN CooldownOf = Cooled
  BY DEF DetectionAssumption
<1>2. Raised(e, ts) = B1 \cup B2 \cup B3 \cup B4
  BY DEF Raised
<1> HIDE DEF B1, B2, B3, B4
<1>3. \A b \in B1 : /\ b.rule \in ThresholdRules \cup WindowRules
                    /\ b.rule # "BEH-OUTBOUND-SCAN" <=> Deduplicated(e)
                    /\ b.rule \in WindowRules => Rested(b.rule, b.by)
                    /\ \A c \in B1 : b.rule = c.rule => b = c
  BY FeedsByRule, SMTT(30) DEF B1, Fires, Reached
<1>4. \A b \in B2 : /\ b.rule \in News2 /\ b.rule \in News(e)
                    /\ Deduplicated(e)
                    /\ \A c \in B2 : b.rule = c.rule => b = c
  BY NewsRules DEF B2
<1>5. \A b \in B3 : /\ b.rule = "BEH-BRUTEFORCE-SUCCESS" /\ Deduplicated(e)
                    /\ \A c \in B3 : b = c
  BY DEF B3, Success, Deduplicated
<1>6. \A b \in B4 : /\ b.rule = "BEH-RANSOM-NOTE" /\ Deduplicated(e) /\ Rested(b.rule, b.by)
                    /\ \A c \in B4 : b = c
  BY DEF B4, Note, Deduplicated, Notes
<1>7. QED
  BY <1>1, <1>2, <1>3, <1>4, <1>5, <1>6, SMTT(60) DEF ThresholdRules, WindowRules

-----------------------------------------------------------------------------
LEMMA LogTyped ==
  ASSUME TypeInv, NEW e \in setting.events, NEW ts \in lastTs..clock
  PROVE  [event |-> e, ts |-> ts, at |-> clock, run |-> restarts] \in LogType
BY DEF TypeInv, LogType, EventType

LEMMA TypeStep ==
  ASSUME DetectionAssumption, TypeInv, [Next]_vars
  PROVE  TypeInv'
<1>1. CASE \E e \in setting.events : \E ts \in lastTs..clock : Analyze(e, ts)
  <2>1. PICK e \in setting.events, ts \in lastTs..clock : Analyze(e, ts)
    BY <1>1
  <2>2. [event |-> e, ts |-> ts, at |-> clock, run |-> restarts] \in LogType
    BY LogTyped
  <2>3. log' \in Seq(LogType)
    BY <2>1, <2>2, AppendProperties DEF Analyze, TypeInv
  <2>4. QED
    BY <2>1, <2>3 DEF Analyze, TypeInv
<1>2. CASE (\E ns \in {"seen_exes", "seen_logins"} : Save(ns) \/ Clear(ns)) \/ UNCHANGED vars
  BY <1>2 DEF TypeInv, Save, Clear, vars, history, memory
<1>3. CASE Restart \/ Tick
  BY <1>3 DEF TypeInv, Restart, Tick, history
<1>4. QED
  BY <1>1, <1>2, <1>3 DEF Next

\* What analyze() lets out, and what it leaves with the filters.
LEMMA AnalyzeFilters ==
  ASSUME DetectionAssumption, TypeInv, FilterInv, NEW e, NEW ts, Analyze(e, ts),
         NEW s \in reports' \ reports
  PROVE  /\ Filtered(s)'
         /\ s.event = e /\ s.data = Data(e) /\ s.at = clock /\ s.run = restarts
         /\ [rule |-> s.rule, by |-> s.by] \in Raised(e, ts)
         /\ Fresh(s.rule, e)
         /\ s = [rule |-> s.rule, by |-> s.by, data |-> Data(e), at |-> clock, run |-> restarts,
                 event |-> e]
<1> DEFINE out == {a \in Raised(e, ts) : Fresh(a.rule, e)}
<1>1. PICK a \in out : s = [rule |-> a.rule, by |-> a.by, data |-> Data(e), at |-> clock,
                             run |-> restarts, event |-> e]
  BY DEF Analyze
<1>2. a = [rule |-> a.rule, by |-> a.by]
  BY <1>1 DEF Raised
<1>3. /\ s.event = e /\ s.data = Data(e) /\ s.at = clock /\ s.run = restarts
      /\ [rule |-> s.rule, by |-> s.by] \in Raised(e, ts)
      /\ Fresh(s.rule, e)
  BY <1>1, <1>2
<1>4. /\ <<s.rule, s.data>> \in DOMAIN dedup'
      /\ dedup'[<<s.rule, s.data>>] = clock
  BY <1>1 DEF Analyze, Stamp
<1>5. s.rule \in DOMAIN CooldownOf =>
        <<s.rule, s.by>> \in DOMAIN fired' /\ fired'[<<s.rule, s.by>>] = clock
  BY <1>1 DEF Analyze, Stamp, Stamped
<1>6. Deduplicated(s.event) <=> s.rule # "BEH-OUTBOUND-SCAN"
  BY <1>1, RaisedApart
<1>7. restarts' = restarts /\ clock' = clock /\ clock \in Nat /\ restarts \in Nat
  BY DEF Analyze, TypeInv
<1>8. Filtered(s)'
  BY <1>3, <1>4, <1>5, <1>6, <1>7 DEF Filtered
<1>9. s = [rule |-> s.rule, by |-> s.by, data |-> Data(e), at |-> clock, run |-> restarts,
           event |-> e]
  BY <1>1
<1>10. QED
  BY <1>3, <1>8, <1>9

LEMMA FilterStep ==
  ASSUME DetectionAssumption, TypeInv, FilterInv, [Next]_vars
  PROVE  FilterInv'
<1> SUFFICES ASSUME NEW r \in reports'
             PROVE  Filtered(r)'
  BY DEF FilterInv
<1>1. CASE \E e \in setting.events : \E ts \in lastTs..clock : Analyze(e, ts)
  <2>1. PICK e, ts : Analyze(e, ts)
    BY <1>1
  <2>2. CASE r \in reports
    <3>1. Filtered(r) /\ restarts' = restarts /\ clock \in Nat
      BY <2>1, <2>2 DEF FilterInv, Analyze, TypeInv
    <3>2. \A k \in DOMAIN dedup : k \in DOMAIN dedup' /\ dedup'[k] \in {dedup[k], clock}
      BY <2>1 DEF Analyze, Stamp
    <3>3. \A k \in DOMAIN fired : k \in DOMAIN fired' /\ fired'[k] \in {fired[k], clock}
      BY <2>1 DEF Analyze, Stamp
    <3>4. clock' = clock
      BY <2>1 DEF Analyze
    <3>5. QED
      BY <3>1, <3>2, <3>3, <3>4 DEF Filtered
  <2>3. CASE r \notin reports
    BY <2>1, <2>3, AnalyzeFilters
  <2>4. QED
    BY <2>2, <2>3
<1>2. CASE (\E ns \in {"seen_exes", "seen_logins"} : Save(ns) \/ Clear(ns)) \/ UNCHANGED vars \/ Tick
  <2>1. /\ UNCHANGED <<dedup, fired, restarts, reports>>
        /\ clock \in Nat /\ clock' \in {clock, clock + 1}
    BY <1>2 DEF Save, Clear, Tick, vars, history, memory, TypeInv
  <2>2. Filtered(r)
    BY <2>1 DEF FilterInv
  <2>3. QED
    BY <2>1, <2>2 DEF Filtered
<1>3. CASE Restart
  <2>1. UNCHANGED <<clock, reports>> /\ restarts' = restarts + 1 /\ restarts \in Nat
    BY <1>3 DEF Restart, history, TypeInv
  <2>2. Filtered(r)
    BY <2>1 DEF FilterInv
  <2>3. QED
    BY <2>1, <2>2 DEF Filtered
<1>4. QED
  BY <1>1, <1>2, <1>3 DEF Next

(* Two alerts of a rule, the second one just out: the filters have kept    *)
(* the time of the first, or of one after it.                              *)
LEMMA OldAndNew ==
  ASSUME DetectionAssumption, TypeInv, FilterInv, NEW e, NEW ts, Analyze(e, ts),
         NEW r \in reports, NEW s \in reports' \ reports, r.rule = s.rule, r.run = s.run
  PROVE  /\ r.at <= s.at /\ r.at \in Nat
         /\ Deduplicated(r.event) <=> Deduplicated(s.event)
         /\ (r.data = s.data /\ Deduplicated(r.event)) => s.at - r.at >= DedupWindow
         /\ (r.rule \in DOMAIN CooldownOf /\ r.by = s.by) => s.at - r.at >= CooldownOf[r.rule]
<1>1. /\ s.event = e /\ s.data = Data(e) /\ s.at = clock /\ s.run = restarts
      /\ [rule |-> s.rule, by |-> s.by] \in Raised(e, ts)
      /\ Fresh(s.rule, e)
  BY AnalyzeFilters
<1>2. Filtered(r) /\ clock \in Nat /\ DedupWindow \in Nat
  BY DEF FilterInv, TypeInv, DetectionAssumption
<1>3. r.at <= s.at /\ r.at \in Nat
  BY <1>1, <1>2 DEF Filtered
<1>4. Deduplicated(r.event) <=> Deduplicated(s.event)
  BY <1>1, <1>2, RaisedApart DEF Filtered
<1>5. ASSUME r.data = s.data, Deduplicated(r.event)
      PROVE  s.at - r.at >= DedupWindow
  <2>1. /\ <<s.rule, Data(e)>> \in DOMAIN dedup
        /\ dedup[<<s.rule, Data(e)>>] \in Nat /\ r.at <= dedup[<<s.rule, Data(e)>>]
    BY <1>1, <1>2, <1>5 DEF Filtered
  <2>2. clock - dedup[<<s.rule, Data(e)>>] >= DedupWindow
    BY <1>1, <1>4, <1>5, <2>1 DEF Fresh
  <2>3. QED
    BY <1>1, <1>2, <1>3, <2>1, <2>2
<1>6. ASSUME r.rule \in DOMAIN CooldownOf, r.by = s.by
      PROVE  s.at - r.at >= CooldownOf[r.rule]
  <2>1. /\ <<s.rule, s.by>> \in DOMAIN fired
        /\ fired[<<s.rule, s.by>>] \in Nat /\ r.at <= fired[<<s.rule, s.by>>]
    BY <1>1, <1>2, <1>6 DEF Filtered
  <2>2. Rested(s.rule, s.by)
    BY <1>1, <1>6, RaisedApart
  <2>3. clock - fired[<<s.rule, s.by>>] >= CooldownOf[s.rule]
    BY <2>1, <2>2 DEF Rested
  <2>4. CooldownOf[s.rule] \in Nat
    BY <1>6 DEF DetectionAssumption
  <2>5. QED
    BY <1>1, <1>2, <1>3, <2>1, <2>3, <2>4
<1>7. QED
  BY <1>3, <1>4, <1>5, <1>6

LEMMA ApartStep ==
  ASSUME DetectionAssumption, TypeInv, FilterInv, AlertsApart, [Next]_vars
  PROVE  AlertsApart'
<1>1. CASE \E e \in setting.events : \E ts \in lastTs..clock : Analyze(e, ts)
  <2>1. PICK e, ts : Analyze(e, ts)
    BY <1>1
  <2>2. SUFFICES ASSUME NEW r \in reports', NEW s \in reports',
                        r # s, r.rule = s.rule, r.run = s.run, r.at <= s.at
                 PROVE  /\ (r.data = s.data /\ Deduplicated(r.event)) => s.at - r.at >= DedupWindow
                        /\ (r.rule \in DOMAIN CooldownOf /\ r.by = s.by) =>
                             s.at - r.at >= CooldownOf[r.rule]
    BY DEF AlertsApart
  <2>3. CASE r \in reports /\ s \in reports
    BY <2>2, <2>3 DEF AlertsApart
  <2>4. CASE r \in reports /\ s \notin reports
    BY <2>1, <2>2, <2>4, OldAndNew
  <2>5. CASE r \notin reports /\ s \in reports
    <3>1. /\ s.at <= r.at /\ s.at \in Nat
          /\ Deduplicated(r.event) <=> Deduplicated(s.event)
          /\ (r.data = s.data /\ Deduplicated(s.event)) => r.at - s.at >= DedupWindow
          /\ (r.rule \in DOMAIN CooldownOf /\ r.by = s.by) => r.at - s.at >= CooldownOf[r.rule]
      BY <2>1, <2>2, <2>5, OldAndNew
    <3>2. r.at = clock /\ clock \in Nat
      BY <2>1, <2>5, AnalyzeFilters DEF TypeInv
    <3>3. r.at = s.at
      BY <2>2, <3>1, <3>2
    <3>4. QED
      BY <3>1, <3>3
  <2>6. CASE r \notin reports /\ s \notin reports
    <3>1. /\ [rule |-> r.rule, by |-> r.by] \in Raised(e, ts)
          /\ [rule |-> s.rule, by |-> s.by] \in Raised(e, ts)
      BY <2>1, <2>6, AnalyzeFilters
    <3>2. r.by = s.by
      BY <2>2, <3>1, RaisedApart
    <3>3. /\ r = [rule |-> r.rule, by |-> r.by, data |-> Data(e), at |-> clock,
                   run |-> restarts, event |-> e]
          /\ s = [rule |-> s.rule, by |-> s.by, data |-> Data(e), at |-> clock,
                   run |-> restarts, event |-> e]
      BY <2>1, <2>6, AnalyzeFilters
    <3>4. r = s
      BY <2>2, <3>2, <3>3, Zenon
    <3>5. QED
      BY <2>2, <3>4
  <2>7. QED
    BY <2>3, <2>4, <2>5, <2>6
<1>2. CASE \/ (\E ns \in {"seen_exes", "seen_logins"} : Save(ns) \/ Clear(ns))
            \/ Restart \/ Tick \/ UNCHANGED vars
  BY <1>2 DEF AlertsApart, Save, Clear, Restart, Tick, vars, history
<1>3. QED
  BY <1>1, <1>2 DEF Next

-----------------------------------------------------------------------------
LEMMA BaselineStep ==
  ASSUME BaselineInv, [Next]_vars
  PROVE  BaselineInv'
<1>1. CASE \E e \in setting.events : \E ts \in lastTs..clock : Analyze(e, ts)
  BY <1>1 DEF BaselineInv, Analyze
<1>2. CASE \E ns \in {"seen_exes", "seen_logins"} : Save(ns) \/ Clear(ns)
  BY <1>2 DEF BaselineInv, Save, Clear, PendingOf, memory, history
<1>3. CASE Restart \/ Tick \/ UNCHANGED vars
  BY <1>3 DEF BaselineInv, Restart, Tick, vars, memory, history
<1>4. QED
  BY <1>1, <1>2, <1>3 DEF Next

\* What is reported as new is not in the memory of the agent.
LEMMA NewsIsNew ==
  ASSUME DetectionAssumption, TypeInv, FilterInv, BaselineInv, [Next]_vars,
         NEW r \in reports' \ reports,
         r.rule \in {"UEBA-NEW-LOGIN-SOURCE", "UEBA-RARE-BINARY"}
  PROVE  Entries(r.event) \cap saved = {}
<1>1. PICK e, ts : Analyze(e, ts)
  BY DEF Next, Save, Clear, Restart, Tick, vars, history
<1>2. r.event = e /\ [rule |-> r.rule, by |-> r.by] \in Raised(e, ts)
  BY <1>1, AnalyzeFilters
<1>3. r.rule \in News(e)
  BY <1>2, RaisedApart
<1>4. Entries(e) \cap seen = {}
  BY <1>3, NewsRules
<1>5. QED
  BY <1>2, <1>4 DEF BaselineInv

-----------------------------------------------------------------------------
SafetyInv == TypeInv /\ FilterInv /\ BaselineInv /\ AlertsApart

LEMMA InitSafety == Init => SafetyInv
BY EmptySeq DEF Init, SafetyInv, TypeInv, FilterInv, BaselineInv, AlertsApart

LEMMA SafetyStep == SafetyInv /\ [Next]_vars => SafetyInv'
BY DetectionAssumption, TypeStep, FilterStep, BaselineStep, ApartStep DEF SafetyInv

LEMMA InvariantSafety == Spec => []SafetyInv
BY InitSafety, SafetyStep, PTL DEF Spec

(* analyze(): however attacks, restarts and the delays of the queue fall,  *)
(* the same rule raises two alerts about the same thing no closer than the *)
(* deduplication window, and about the same group no closer than its       *)
(* cooldown.                                                               *)
THEOREM AlertsAreKeptApart == Spec => []AlertsApart
<1>1. SafetyInv => AlertsApart
  BY DEF SafetyInv
<1>2. QED
  BY <1>1, InvariantSafety, PTL

(* flush_baselines and the restart: what was pending when the baseline was *)
(* saved is never reported as new again.                                   *)
THEOREM SavedIsNeverNews == Spec => NeverNewsAgain
<1> DEFINE A == \A r \in reports' \ reports :
                  r.rule \in {"UEBA-NEW-LOGIN-SOURCE", "UEBA-RARE-BINARY"} =>
                    Entries(r.event) \cap saved = {}
<1>1. SafetyInv /\ [Next]_vars => [A]_vars
  BY DetectionAssumption, NewsIsNew DEF SafetyInv
<1>2. QED
  BY <1>1, InvariantSafety, PTL DEF Spec, NeverNewsAgain

-----------------------------------------------------------------------------
(* What the agent knows was used; what was used in this run it knows; and  *)
(* the deduplication holds back a new source only if it was used.          *)
UsedInv ==
  /\ seen \subseteq Used /\ baseline \subseteq Used
  /\ \A k \in DOMAIN log : /\ log[k].run <= restarts
                           /\ log[k].run = restarts => Entries(log[k].event) \subseteq seen
  /\ \A d : <<"UEBA-NEW-LOGIN-SOURCE", d>> \in DOMAIN dedup => Login(d[2], d[1]) \in Used

LEMMA UsedGrows ==
  ASSUME TypeInv, NEW e \in setting.events, NEW ts \in lastTs..clock, Analyze(e, ts)
  PROVE  /\ DOMAIN log' = 1 .. Len(log) + 1 /\ Len(log) \in Nat
         /\ \A k \in DOMAIN log : log'[k] = log[k]
         /\ log'[Len(log) + 1].event = e /\ log'[Len(log) + 1].run = restarts
         /\ Used' = Used \cup Entries(e)
<1> DEFINE x == [event |-> e, ts |-> ts, at |-> clock, run |-> restarts]
<1>1. log \in Seq(LogType) /\ x \in LogType
  BY LogTyped DEF TypeInv
<1>2. log' = Append(log, x)
  BY DEF Analyze
<1>3. /\ Len(log') = Len(log) + 1 /\ Len(log) \in Nat
      /\ \A k \in 1 .. Len(log) : log'[k] = log[k]
      /\ log'[Len(log) + 1] = x
      /\ DOMAIN log' = 1 .. Len(log') /\ DOMAIN log = 1 .. Len(log)
  BY <1>1, <1>2, AppendProperties, LenProperties
<1>4. Used' = Used \cup Entries(e)
  BY <1>3 DEF Used
<1>5. QED
  BY <1>3, <1>4

\* A login of a known user from an unused source is reported.
LEMMA DueReported ==
  ASSUME DetectionAssumption, TypeInv, BaselineInv, UsedInv, NEW e, NEW ts, Analyze(e, ts),
         e.kind = "login_success", e.who # "local", ~Learning,
         Entries(e) \cap Used = {}, KnownLogins(e.what) # {}
  PROVE  \E r \in reports' : r.rule = "UEBA-NEW-LOGIN-SOURCE" /\ r.event = e
<1> DEFINE rule == "UEBA-NEW-LOGIN-SOURCE"
<1>1. Entries(e) = {Login(e.what, e.who)} /\ Data(e) = <<e.who, e.what>>
  BY DEF Entries, Data, Starts
<1>2. ~(Entries(e) \subseteq seen)
  BY <1>1 DEF UsedInv
<1>3. OtherLogins(seen, e.what) # {}
  <2> DEFINE own == UNION {Entries(log[k].event) : k \in {j \in DOMAIN log : log[j].run = restarts}}
  <2>1. own \subseteq seen /\ saved \subseteq seen
    <3>1. \A k \in DOMAIN log : log[k].run = restarts => Entries(log[k].event) \subseteq seen
      BY Zenon DEF UsedInv
    <3>2. own \subseteq seen
      BY <3>1, Zenon
    <3>3. QED
      BY <3>2 DEF BaselineInv
  <2>2. KnownLogins(e.what) = OtherLogins(saved \cup own, e.what)
    BY DEF KnownLogins
  <2> HIDE DEF own
  <2>3. QED
    BY <2>1, <2>2 DEF OtherLogins
<1>4. rule \in News(e)
  BY <1>2, <1>3 DEF News, Starts
<1>5. [rule |-> rule, by |-> e.who] \in Raised(e, ts)
  BY <1>4 DEF Raised
<1>6. <<rule, Data(e)>> \notin DOMAIN dedup
  BY <1>1 DEF UsedInv
<1>7. Fresh(rule, e)
  BY <1>6 DEF Fresh
<1>8. [rule |-> rule, by |-> e.who, data |-> Data(e), at |-> clock, run |-> restarts,
       event |-> e] \in reports'
  <2> DEFINE a == [rule |-> rule, by |-> e.who]
  <2>1. a.rule = rule /\ a.by = e.who /\ a \in {b \in Raised(e, ts) : Fresh(b.rule, e)}
    BY <1>5, <1>7
  <2>2. [rule |-> a.rule, by |-> a.by, data |-> Data(e), at |-> clock, run |-> restarts,
         event |-> e] \in reports'
    BY <2>1, Zenon DEF Analyze
  <2>3. QED
    BY <2>1, <2>2
<1>9. QED
  BY <1>8

LEMMA AnalyzeUsed ==
  ASSUME DetectionAssumption, TypeInv, FilterInv, BaselineInv, UsedInv,
         NEW e \in setting.events, NEW ts \in lastTs..clock, Analyze(e, ts)
  PROVE  UsedInv'
<1>1. seen' \subseteq Used' /\ baseline' \subseteq Used'
  BY UsedGrows DEF UsedInv, Analyze, Learnt
<1>2. ASSUME NEW k \in DOMAIN log'
      PROVE  /\ log'[k].run <= restarts'
             /\ log'[k].run = restarts' => Entries(log'[k].event) \subseteq seen'
  <2>1. CASE k = Len(log) + 1
    BY <2>1, UsedGrows DEF Analyze, TypeInv, Learnt
  <2>2. CASE k # Len(log) + 1
    <3>1. k \in DOMAIN log
      BY <1>2, <2>2, UsedGrows, LenProperties DEF TypeInv
    <3>2. log'[k] = log[k] /\ restarts' = restarts /\ seen \subseteq seen'
      BY <3>1, UsedGrows DEF Analyze
    <3>3. log[k].run <= restarts /\ (log[k].run = restarts => Entries(log[k].event) \subseteq seen)
      BY <3>1, Zenon DEF UsedInv
    <3>4. QED
      BY <3>2, <3>3
  <2>3. QED
    BY <2>1, <2>2
<1>3. ASSUME NEW d, <<"UEBA-NEW-LOGIN-SOURCE", d>> \in DOMAIN dedup'
      PROVE  Login(d[2], d[1]) \in Used'
  <2>1. CASE <<"UEBA-NEW-LOGIN-SOURCE", d>> \in DOMAIN dedup
    BY <2>1, UsedGrows DEF UsedInv
  <2>2. CASE <<"UEBA-NEW-LOGIN-SOURCE", d>> \notin DOMAIN dedup
    <3>1. PICK a \in Raised(e, ts) : <<"UEBA-NEW-LOGIN-SOURCE", d>> = <<a.rule, Data(e)>>
      BY <1>3, <2>2 DEF Analyze, Stamp
    <3>2. a.rule = "UEBA-NEW-LOGIN-SOURCE" /\ d = Data(e)
      BY <3>1
    <3>3. a.rule \in News(e)
      BY <3>1, <3>2, RaisedApart
    <3>4. e.kind = "login_success"
      BY <3>2, <3>3 DEF News
    <3>5. Entries(e) = {Login(e.what, e.who)} /\ Data(e) = <<e.who, e.what>>
      BY <3>4 DEF Entries, Data, Starts
    <3>6. QED
      BY <3>2, <3>5, UsedGrows
  <2>3. QED
    BY <2>1, <2>2
<1>4. QED
  BY <1>1, <1>2, <1>3 DEF UsedInv

LEMMA UsedStep ==
  ASSUME DetectionAssumption, TypeInv, FilterInv, BaselineInv, UsedInv, [Next]_vars
  PROVE  UsedInv'
<1>1. CASE \E e \in setting.events : \E ts \in lastTs..clock : Analyze(e, ts)
  BY <1>1, AnalyzeUsed
<1>2. CASE \/ \E ns \in {"seen_exes", "seen_logins"} : Save(ns) \/ Clear(ns)
           \/ Tick \/ UNCHANGED vars
  <2>1. /\ UNCHANGED <<log, seen, dedup, restarts>>
        /\ baseline' \subseteq baseline \cup pending
    BY <1>2 DEF Save, Clear, Tick, vars, history, memory, PendingOf
  <2>2. Used' = Used
    BY <2>1 DEF Used
  <2>3. QED
    BY <2>1, <2>2 DEF UsedInv, BaselineInv
<1>3. CASE Restart
  <2>1. /\ UNCHANGED <<log, baseline>> /\ seen' = baseline /\ restarts' = restarts + 1
        /\ restarts \in Nat /\ dedup' = << >>
    BY <1>3 DEF Restart, history, TypeInv
  <2>2. Used' = Used
    BY <2>1 DEF Used
  <2>3. \A k \in DOMAIN log : log[k].run \in Nat
    <3>1. \A k \in DOMAIN log : log[k] \in LogType
      BY ElementOfSeq, LenProperties DEF TypeInv
    <3>2. QED
      BY <3>1 DEF LogType
  <2>4. DOMAIN dedup' = {}
    BY <2>1
  <2>5. \A k \in DOMAIN log : log[k].run <= restarts
    BY Zenon DEF UsedInv
  <2>6. \A k \in DOMAIN log' : log'[k].run <= restarts' /\ log'[k].run # restarts'
    BY <2>1, <2>3, <2>5
  <2>7. seen' \subseteq Used' /\ baseline' \subseteq Used'
    BY <2>1, <2>2 DEF UsedInv
  <2>8. QED
    BY <2>4, <2>6, <2>7 DEF UsedInv
<1>4. QED
  BY <1>1, <1>2, <1>3 DEF Next

LEMMA NewSourceStep ==
  ASSUME DetectionAssumption, TypeInv, FilterInv, BaselineInv, UsedInv, NewSourceReported, [Next]_vars
  PROVE  NewSourceReported'
<1>1. ASSUME NEW e, NEW ts, Analyze(e, ts)
      PROVE  NewSourceReported'
  <2>1. reports \subseteq reports'
    BY <1>1 DEF Analyze
  <2>2. ASSUME NEW d \in due'
        PROVE  \E r \in reports' : r.rule = "UEBA-NEW-LOGIN-SOURCE" /\ r.event = d
    <3>1. CASE d \in due
      BY <2>1, <3>1 DEF NewSourceReported
    <3>2. CASE d \notin due
      <4>1. /\ d = e
            /\ e.kind = "login_success" /\ e.who # "local" /\ ~Learning
            /\ Entries(e) \cap Used = {} /\ KnownLogins(e.what) # {}
        BY <1>1, <2>2, <3>2 DEF Analyze
      <4>2. QED
        BY <1>1, <4>1, DueReported
    <3>3. QED
      BY <3>1, <3>2
  <2>3. QED
    BY <2>2 DEF NewSourceReported
<1>2. CASE \/ (\E ns \in {"seen_exes", "seen_logins"} : Save(ns) \/ Clear(ns))
           \/ Restart \/ Tick \/ UNCHANGED vars
  BY <1>2 DEF NewSourceReported, Save, Clear, Restart, Tick, vars, history
<1>3. QED
  BY <1>1, <1>2 DEF Next

(* _login_success: the first login of a user from a source is reported     *)
(* whenever another source of the user is known, in spite of the           *)
(* deduplication, of restarts and of the thread that saves the baseline.   *)
THEOREM NewSourcesAreReported == Spec => []NewSourceReported
<1> DEFINE IInv == SafetyInv /\ UsedInv /\ NewSourceReported
<1>1. Init => IInv
  <2>1. SUFFICES ASSUME Init PROVE IInv
    OBVIOUS
  <2>2. SafetyInv
    BY <2>1, InitSafety
  <2>3. DOMAIN log = {} /\ DOMAIN dedup = {}
    BY <2>1 DEF Init
  <2>4. UsedInv /\ NewSourceReported
    BY <2>1, <2>3 DEF Init, UsedInv, NewSourceReported
  <2>5. QED
    BY <2>2, <2>4
<1>2. IInv /\ [Next]_vars => IInv'
  BY DetectionAssumption, SafetyStep, UsedStep, NewSourceStep DEF SafetyInv
<1>3. QED
  BY <1>1, <1>2, PTL DEF Spec


-----------------------------------------------------------------------------
(* Attacks.  Every window is what the log has of its group, but for what   *)
(* is too old and, of a threshold rule, what it fired for.                 *)
Named == WindowRules \cup {"AUTH-005"}
Counted == Named \cup {"failed_total"}
WindowType == [ts : Int, value : {e.who : e \in EventType} \cup {e.what : e \in EventType}]

IsFed(e, rule, by, v) == \E g \in Feeds(e) : g.rule = rule /\ g.by = by /\ g.value = v

\* The entry of the log L that each element of a window w stands for.
Points(w, ix, L, rule, by) ==
  /\ ix \in [1..Len(w) -> 1..Len(L)]
  /\ \A i \in 1..Len(w) : w[i].ts = L[ix[i]].ts /\ IsFed(L[ix[i]].event, rule, by, w[i].value)

Covered(w, ix, n) == \E i \in 1..Len(w) : ix[i] = n

Belongs(x, now, rule, by, at) ==
  /\ x.run = at /\ now - x.ts <= WindowOf[rule]
  /\ \E v : IsFed(x.event, rule, by, v)

Told(R, rule, by, at, since) ==
  \E r \in R : r.rule = rule /\ r.by = by /\ r.run = at /\ r.at \in Int /\ r.at >= since

WindowHolds(w, L, R, now, rule, by, at) ==
  /\ w \in Seq(WindowType)
  /\ \E ix :
       /\ Points(w, ix, L, rule, by)
       /\ \A n \in 1..Len(L) : Belongs(L[n], now, rule, by, at) =>
            \/ Covered(w, ix, n)
            \/ rule \in ThresholdRules /\ Told(R, rule, by, at, L[n].ts - DedupWindow)

WindowsInv ==
  \A rule \in Counted : \A by :
    WindowHolds(WindowAt(<<rule, by>>), log, reports, lastTs, rule, by, restarts)

\* The filters go back to alerts of this run.
OriginInv ==
  /\ \A r \in reports :
       /\ r.data = Data(r.event)
       /\ r.rule \in Named => \E f \in Feeds(r.event) : f.rule = r.rule /\ f.by = r.by
  /\ \A rule, d : <<rule, d>> \in DOMAIN dedup =>
       \E r \in reports : r.rule = rule /\ r.data = d /\ r.run = restarts
                          /\ r.at = dedup[<<rule, d>>]
  /\ \A rule \in WindowRules : \A by : <<rule, by>> \in DOMAIN fired =>
       Told(reports, rule, by, restarts, fired[<<rule, by>>] - DedupWindow)

TimeInv ==
  /\ lastTs \in Int /\ lastTs <= clock
  /\ \A n \in DOMAIN log : log[n].run <= restarts /\ (log[n].run = restarts => log[n].ts <= lastTs)

-----------------------------------------------------------------------------
LEMMA Least ==
  ASSUME NEW T, T \subseteq Nat, T # {}
  PROVE  \E n \in T : \A m \in T : n <= m
<1> DEFINE Less == {ss \in Nat \X Nat : ss[1] < ss[2]}
<1>1. IsWellFoundedOn(Less, Nat)
  BY NatLessThanWellFounded DEF OpToRel
<1> HIDE DEF Less
<1>2. PICK n \in T : \A m \in T : <<m, n>> \notin Less
  BY <1>1, WFMin
<1>3. \A m \in T : ~(m < n)
  BY <1>2 DEF Less
<1>4. QED
  BY <1>3

\* Trim drops a prefix, all of it too old.
Cut(w, t, c, now, length) ==
  /\ c \in 0..Len(w)
  /\ t \in Seq(WindowType) /\ Len(t) = Len(w) - c
  /\ \A j \in 1..Len(t) : t[j] = w[j + c]
  /\ \A j \in 1..c : now - w[j].ts > length

LEMMA Trimmed ==
  ASSUME NEW w \in Seq(WindowType), NEW now \in Int, NEW length \in Nat
  PROVE  \E c : Cut(w, Trim(w, now, length), c, now, length)
<1> DEFINE t == Trim(w, now, length)
           old == {k \in DOMAIN w : \A j \in 1..k : now - w[j].ts > length}
           T == 1..(Len(w) + 1) \ old
<1>1. Len(w) \in Nat /\ DOMAIN w = 1..Len(w)
  BY LenProperties
<1>2. T \subseteq Nat /\ Len(w) + 1 \in T
  BY <1>1
<1>3. PICK m \in T : \A k \in T : m <= k
  BY <1>2, Least
<1>4. m \in 1..(Len(w) + 1)
  BY <1>3
<1>5. old = 1..(m - 1)
  <2>1. ASSUME NEW k \in 1..(m - 1) PROVE k \in old
    BY <1>1, <1>3, <1>4
  <2>2. ASSUME NEW k \in old, ~(k < m) PROVE FALSE
    <3>1. m \in DOMAIN w /\ 1..m \subseteq 1..k
      BY <2>2, <1>1, <1>4
    <3>2. m \in old
      BY <3>1
    <3>3. QED
      BY <3>2, <1>3
  <2>3. \A k \in old : k \in Nat /\ k > 0
    BY <1>1
  <2>4. QED
    BY <2>1, <2>2, <2>3, <1>4
<1>6. Cardinality(old) = m - 1
  <2>1. Cardinality(1..(m - 1)) = m - 1
    BY <1>4, FS_Interval
  <2>2. QED
    BY <1>5, <2>1, Zenon
<1>7. t = SubSeq(w, m, Len(w))
  <2>1. t = SubSeq(w, Cardinality(old) + 1, Len(w))
    BY DEF Trim
  <2>2. Cardinality(old) + 1 = m
    BY <1>6, <1>4
  <2>3. QED
    BY <2>1, <2>2, Zenon
<1>8. \A j \in 1..(m - 1) : now - w[j].ts > length
  BY <1>5
<1> HIDE DEF old, T, t
<1>9. m \in 1..(Len(w) + 1) /\ Len(w) \in (m - 1)..Len(w)
  BY <1>1, <1>4
<1>10. /\ t \in Seq(WindowType) /\ Len(t) = Len(w) - m + 1
       /\ \A j \in 1..(Len(w) - m + 1) : t[j] = w[m + j - 1]
  BY <1>7, <1>9, SubSeqProperties
<1>11. m - 1 \in 0..Len(w) /\ Len(t) = Len(w) - (m - 1)
       /\ \A j \in 1..Len(t) : m + j - 1 = j + (m - 1)
  BY <1>1, <1>4, <1>10
<1>12. \A j \in 1..Len(t) : t[j] = w[j + (m - 1)]
  BY <1>10, <1>11, <1>1, <1>4
<1>13. Cut(w, t, m - 1, now, length)
  BY <1>8, <1>10, <1>11, <1>12 DEF Cut
<1>14. QED
  BY <1>13 DEF t

LEMMA TrimKeeps ==
  ASSUME NEW w \in Seq(WindowType), NEW L \in Seq(LogType), NEW now \in Int, NEW rule, NEW by,
         WindowOf[rule] \in Nat, NEW ix, Points(w, ix, L, rule, by),
         NEW t, t = Trim(w, now, WindowOf[rule])
  PROVE  /\ t \in Seq(WindowType)
         /\ \E jx :
              /\ Points(t, jx, L, rule, by)
              /\ \A n \in 1..Len(L) :
                   Covered(w, ix, n) /\ now - L[n].ts <= WindowOf[rule] => Covered(t, jx, n)
<1>1. PICK c : Cut(w, t, c, now, WindowOf[rule])
  BY Trimmed, Zenon
<1>2. Len(w) \in Nat /\ Len(t) \in Nat
  BY <1>1, LenProperties DEF Cut
<1> DEFINE jx == [j \in 1..Len(t) |-> ix[j + c]]
<1>3. \A j \in 1..Len(t) : j + c \in 1..Len(w)
  BY <1>1, <1>2 DEF Cut
<1>4. Points(t, jx, L, rule, by)
  BY <1>1, <1>3 DEF Points, Cut
<1>5. ASSUME NEW n \in 1..Len(L), Covered(w, ix, n), now - L[n].ts <= WindowOf[rule]
      PROVE  Covered(t, jx, n)
  <2>1. PICK i \in 1..Len(w) : ix[i] = n
    BY <1>5 DEF Covered
  <2>2. w[i].ts = L[n].ts
    BY <2>1 DEF Points
  <2>3. i \notin 1..c
    <3>1. i \in 1..c => now - L[n].ts > WindowOf[rule]
      BY <1>1, <2>2 DEF Cut
    <3>2. L[n].ts \in Int
      <4>1. L[n] \in LogType
        BY ElementOfSeq
      <4>2. QED
        BY <4>1 DEF LogType
    <3>3. QED
      BY <3>1, <3>2, <1>5
  <2>4. i - c \in 1..Len(t) /\ (i - c) + c = i
    BY <1>1, <1>2, <2>3 DEF Cut
  <2>5. QED
    BY <2>1, <2>4 DEF Covered
<1>6. QED
  BY <1>1, <1>4, <1>5 DEF Cut

LEMMA AppendKeeps ==
  ASSUME NEW w \in Seq(WindowType), NEW L \in Seq(LogType), NEW rule, NEW by, NEW ix,
         Points(w, ix, L, rule, by), NEW y \in WindowType, NEW x \in LogType,
         y.ts = x.ts, IsFed(x.event, rule, by, y.value)
  PROVE  /\ Append(w, y) \in Seq(WindowType)
         /\ \E jx :
              /\ Points(Append(w, y), jx, Append(L, x), rule, by)
              /\ Covered(Append(w, y), jx, Len(L) + 1)
              /\ \A n \in 1..Len(L) : Covered(w, ix, n) => Covered(Append(w, y), jx, n)
<1> DEFINE v == Append(w, y)
           M == Append(L, x)
           jx == [j \in 1..Len(v) |-> IF j = Len(v) THEN Len(L) + 1 ELSE ix[j]]
<1>1. /\ Len(w) \in Nat /\ v \in Seq(WindowType) /\ Len(v) = Len(w) + 1
      /\ v[Len(w) + 1] = y /\ \A j \in 1..Len(w) : v[j] = w[j]
  BY AppendProperties, LenProperties
<1>2. /\ Len(L) \in Nat /\ Len(M) = Len(L) + 1
      /\ M[Len(L) + 1] = x /\ \A j \in 1..Len(L) : M[j] = L[j]
  BY AppendProperties, LenProperties
<1> HIDE DEF v, M
<1>3. \A j \in 1..Len(v) : j = Len(v) \/ j \in 1..Len(w)
  BY <1>1
<1>4. \A j \in 1..Len(w) : jx[j] = ix[j] /\ ix[j] \in 1..Len(L)
  BY <1>1 DEF Points
<1>5. jx[Len(v)] = Len(L) + 1 /\ Len(v) \in 1..Len(v)
  BY <1>1
<1>6. jx \in [1..Len(v) -> 1..Len(M)]
  <2>1. \A j \in 1..Len(v) : (IF j = Len(v) THEN Len(L) + 1 ELSE ix[j]) \in 1..Len(M)
    BY <1>1, <1>2, <1>3 DEF Points
  <2>2. QED
    BY <2>1
<1> HIDE DEF jx
<1>7. Points(v, jx, M, rule, by)
  <2>1. \A j \in 1..Len(w) : v[j].ts = M[jx[j]].ts /\ IsFed(M[jx[j]].event, rule, by, v[j].value)
    BY <1>1, <1>2, <1>4 DEF Points
  <2>2. v[Len(v)].ts = M[jx[Len(v)]].ts
        /\ IsFed(M[jx[Len(v)]].event, rule, by, v[Len(v)].value)
    BY <1>1, <1>2, <1>5
  <2>3. QED
    BY <1>3, <1>6, <2>1, <2>2 DEF Points
<1>8. Covered(v, jx, Len(L) + 1)
  BY <1>5 DEF Covered
<1>9. \A n \in 1..Len(L) : Covered(w, ix, n) => Covered(v, jx, n)
  BY <1>1, <1>4 DEF Covered
<1>10. QED
  BY <1>1, <1>7, <1>8, <1>9 DEF v, M

LEMMA LogGrows ==
  ASSUME NEW w \in Seq(WindowType), NEW L \in Seq(LogType), NEW rule, NEW by, NEW ix,
         Points(w, ix, L, rule, by), NEW x \in LogType
  PROVE  Points(w, ix, Append(L, x), rule, by)
<1>1. /\ Len(L) \in Nat /\ Len(Append(L, x)) = Len(L) + 1
      /\ \A j \in 1..Len(L) : Append(L, x)[j] = L[j]
  BY AppendProperties, LenProperties
<1>2. \A i \in 1..Len(w) : ix[i] \in 1..Len(L) /\ ix[i] \in 1..Len(Append(L, x))
  BY <1>1 DEF Points
<1>3. QED
  BY <1>1, <1>2 DEF Points


-----------------------------------------------------------------------------
LEMMA FeedsFields ==
  ASSUME NEW e, NEW f \in Feeds(e)
  PROVE  /\ f = [rule |-> f.rule, by |-> f.by, value |-> f.value]
         /\ f.value \in {e.who, e.what}
         /\ f.rule \in Named \cup {"failed_total", "PROC-012"}
BY SMTT(60) DEF Feeds, Feed, Named, WindowRules

\* Of a rule that the deduplication cannot mislead, the data tell the group.
LEMMA SameGroup ==
  ASSUME NEW e, NEW d, NEW f \in Feeds(e), NEW g \in Feeds(d), f.rule = g.rule, f.rule \in Named,
         Data(e) = Data(d)
  PROVE  f.by = g.by
BY SMTT(60) DEF Feeds, Feed, Named, WindowRules, Data, Starts

LEMMA FedBy ==
  ASSUME NEW e, NEW f \in Feeds(e)
  PROVE  /\ (CHOOSE g \in Feeds(e) : Key(g) = Key(f)) = f
         /\ \A v : IsFed(e, f.rule, f.by, v) <=> v = f.value
<1>1. \A g \in Feeds(e) : g.rule = f.rule => g = f
  BY FeedsByRule
<1>2. \A g \in Feeds(e) : Key(g) = Key(f) <=> g = f
  BY <1>1 DEF Key
<1>3. QED
  BY <1>1, <1>2 DEF IsFed

LEMMA RuleFacts ==
  ASSUME DetectionAssumption, NEW rule \in Counted
  PROVE  /\ WindowOf[rule] \in Nat
         /\ rule \in Named => LimitOf[rule] \in Nat \ {0}
         /\ rule \in ThresholdRules => rule = "AUTH-005"
         /\ rule \in WindowRules => CooldownOf[rule] \in Nat
BY DEF DetectionAssumption, Counted, Named, ThresholdRules, WindowRules

AttackInv == TypeInv /\ TimeInv /\ WindowsInv /\ OriginInv

(* What Analyze does to the log and the alerts.                            *)
Entry(e, ts) == [event |-> e, ts |-> ts, at |-> clock, run |-> restarts]

LEMMA Analyzed ==
  ASSUME DetectionAssumption, TypeInv, TimeInv, NEW e \in setting.events,
         NEW ts \in lastTs..clock, Analyze(e, ts)
  PROVE  /\ log \in Seq(LogType) /\ Entry(e, ts) \in LogType /\ log' = Append(log, Entry(e, ts))
         /\ Len(log) \in Nat /\ Len(log') = Len(log) + 1
         /\ DOMAIN log = 1..Len(log) /\ DOMAIN log' = 1..Len(log')
         /\ \A n \in 1..Len(log) : log'[n] = log[n] /\ log[n].ts \in Int
         /\ log'[Len(log) + 1] = Entry(e, ts)
         /\ reports \subseteq reports' /\ restarts' = restarts /\ lastTs' = ts /\ clock' = clock
         /\ ts \in Int /\ lastTs <= ts /\ ts <= clock /\ clock \in Nat /\ e \in EventType
         /\ setting' = setting /\ setting.lag \in Nat /\ ts >= clock - setting.lag
<1>1. log \in Seq(LogType) /\ Entry(e, ts) \in LogType
  BY LogTyped DEF TypeInv, Entry
<1>2. log' = Append(log, Entry(e, ts))
  BY DEF Analyze, Entry
<1>3. /\ Len(log) \in Nat /\ Len(log') = Len(log) + 1
      /\ DOMAIN log = 1..Len(log) /\ DOMAIN log' = 1..Len(log')
      /\ \A n \in 1..Len(log) : log'[n] = log[n]
      /\ log'[Len(log) + 1] = Entry(e, ts)
  BY <1>1, <1>2, AppendProperties, LenProperties
<1>4. ASSUME NEW n \in 1..Len(log) PROVE log[n].ts \in Int
  <2>1. log[n] \in LogType
    BY <1>1, ElementOfSeq
  <2>2. QED
    BY <2>1 DEF LogType
<1>5. reports \subseteq reports' /\ restarts' = restarts /\ lastTs' = ts /\ clock' = clock
      /\ setting' = setting /\ ts >= clock - setting.lag
  BY DEF Analyze
<1>6. ts \in Int /\ lastTs <= ts /\ ts <= clock /\ clock \in Nat /\ e \in EventType
      /\ setting.lag \in Nat
  BY DEF TypeInv, TimeInv, EventType, DetectionAssumption
<1>7. QED
  BY <1>1, <1>2, <1>3, <1>4, <1>5, <1>6

LEMMA ToldStays ==
  ASSUME NEW R, NEW S, R \subseteq S, NEW rule, NEW by, NEW at, NEW since, Told(R, rule, by, at, since)
  PROVE  Told(S, rule, by, at, since)
BY DEF Told

\* What belongs to a window now has belonged to it since it came.
LEMMA BelongedBefore ==
  ASSUME NEW x, x.ts \in Int, NEW now \in Int, NEW before \in Int, before <= now, NEW rule, NEW by,
         NEW at, WindowOf[rule] \in Nat, Belongs(x, now, rule, by, at)
  PROVE  Belongs(x, before, rule, by, at)
BY DEF Belongs

LEMMA AddedHolds ==
  ASSUME DetectionAssumption, TypeInv, TimeInv, WindowsInv, NEW e \in setting.events,
         NEW ts \in lastTs..clock, Analyze(e, ts), NEW f \in Feeds(e), f.rule \in Counted
  PROVE  WindowHolds(Added(f, ts), log', reports', ts, f.rule, f.by, restarts)
<1> DEFINE w == WindowAt(<<f.rule, f.by>>)
           y == [ts |-> ts, value |-> f.value]
           x == Entry(e, ts)
           t == Added(f, ts)
<1>1. /\ log \in Seq(LogType) /\ x \in LogType /\ log' = Append(log, x)
      /\ Len(log) \in Nat /\ Len(log') = Len(log) + 1
      /\ \A n \in 1..Len(log) : log'[n] = log[n] /\ log[n].ts \in Int
      /\ log'[Len(log) + 1] = x /\ reports \subseteq reports'
      /\ ts \in Int /\ lastTs <= ts /\ e \in EventType
  BY Analyzed
<1>2. WindowOf[f.rule] \in Nat /\ lastTs \in Int
  BY RuleFacts DEF TimeInv
<1>3. w \in Seq(WindowType)
  BY DEF WindowsInv, WindowHolds
<1>4. PICK ix :
       /\ Points(w, ix, log, f.rule, f.by)
       /\ \A n \in 1..Len(log) : Belongs(log[n], lastTs, f.rule, f.by, restarts) =>
            \/ Covered(w, ix, n)
            \/ f.rule \in ThresholdRules
               /\ Told(reports, f.rule, f.by, restarts, log[n].ts - DedupWindow)
  BY Zenon DEF WindowsInv, WindowHolds
<1>5. y \in WindowType /\ y.ts = x.ts /\ IsFed(x.event, f.rule, f.by, y.value)
  <2>1. f.value \in {e.who, e.what}
    BY FeedsFields
  <2>2. IsFed(e, f.rule, f.by, f.value)
    BY FedBy
  <2>3. QED
    BY <1>1, <2>1, <2>2 DEF WindowType, Entry
<1> DEFINE v == Append(w, y)
<1>6. t = Trim(v, ts, WindowOf[f.rule])
  BY DEF Added, Key
<1> HIDE DEF w, x, y, t
<1>7. v \in Seq(WindowType)
      /\ \E jx :
              /\ Points(v, jx, log', f.rule, f.by)
              /\ Covered(v, jx, Len(log) + 1)
              /\ \A n \in 1..Len(log) : Covered(w, ix, n) => Covered(v, jx, n)
  BY <1>1, <1>3, <1>4, <1>5, AppendKeeps
<1>8. PICK jx :
              /\ Points(v, jx, log', f.rule, f.by)
              /\ Covered(v, jx, Len(log) + 1)
              /\ \A n \in 1..Len(log) : Covered(w, ix, n) => Covered(v, jx, n)
  BY <1>7
<1>9. log' \in Seq(LogType)
  BY <1>1, AppendProperties
<1> HIDE DEF v
<1>10. t \in Seq(WindowType)
       /\ \E kx : /\ Points(t, kx, log', f.rule, f.by)
                  /\ \A n \in 1..Len(log') :
                       Covered(v, jx, n) /\ ts - log'[n].ts <= WindowOf[f.rule] => Covered(t, kx, n)
  BY <1>1, <1>2, <1>6, <1>7, <1>8, <1>9, TrimKeeps
<1>11. PICK kx : /\ Points(t, kx, log', f.rule, f.by)
                 /\ \A n \in 1..Len(log') :
                       Covered(v, jx, n) /\ ts - log'[n].ts <= WindowOf[f.rule] => Covered(t, kx, n)
  BY <1>10
<1>12. ASSUME NEW n \in 1..Len(log'), Belongs(log'[n], ts, f.rule, f.by, restarts)
       PROVE  \/ Covered(t, kx, n)
              \/ f.rule \in ThresholdRules
                 /\ Told(reports', f.rule, f.by, restarts, log'[n].ts - DedupWindow)
  <2>1. ts - log'[n].ts <= WindowOf[f.rule]
    BY <1>12 DEF Belongs
  <2>2. CASE n = Len(log) + 1
    BY <2>1, <2>2, <1>8, <1>11
  <2>3. CASE n \in 1..Len(log)
    <3>1. log'[n] = log[n] /\ log[n].ts \in Int
      BY <2>3, <1>1
    <3>2. Belongs(log[n], lastTs, f.rule, f.by, restarts)
      BY <3>1, <1>1, <1>2, <1>12, BelongedBefore
    <3>3. CASE Covered(w, ix, n)
      BY <3>3, <2>1, <2>3, <1>8, <1>11
    <3>4. CASE f.rule \in ThresholdRules
               /\ Told(reports, f.rule, f.by, restarts, log[n].ts - DedupWindow)
      BY <3>4, <3>1, <1>1, ToldStays
    <3>5. QED
      BY <3>2, <3>3, <3>4, <2>3, <1>4
  <2>4. QED
    BY <2>2, <2>3, <1>1
<1>13. QED
  BY <1>10, <1>11, <1>12 DEF WindowHolds, t

\* The windows of the other groups, trimmed or not.
LEMMA OthersHold ==
  ASSUME DetectionAssumption, TypeInv, TimeInv, WindowsInv, NEW e \in setting.events,
         NEW ts \in lastTs..clock, Analyze(e, ts), NEW rule \in Counted, NEW by,
         \A v : ~IsFed(e, rule, by, v),
         NEW t, t = WindowAt(<<rule, by>>) \/ t = Trim(WindowAt(<<rule, by>>), ts, WindowOf[rule])
  PROVE  WindowHolds(t, log', reports', ts, rule, by, restarts)
<1> DEFINE w == WindowAt(<<rule, by>>)
           x == Entry(e, ts)
<1>1. /\ log \in Seq(LogType) /\ x \in LogType /\ log' = Append(log, x)
      /\ Len(log) \in Nat /\ Len(log') = Len(log) + 1
      /\ \A n \in 1..Len(log) : log'[n] = log[n] /\ log[n].ts \in Int
      /\ log'[Len(log) + 1] = x /\ reports \subseteq reports'
      /\ ts \in Int /\ lastTs <= ts /\ e \in EventType
  BY Analyzed
<1>2. WindowOf[rule] \in Nat /\ lastTs \in Int
  BY RuleFacts DEF TimeInv
<1>3. w \in Seq(WindowType)
  BY DEF WindowsInv, WindowHolds
<1>4. PICK ix :
       /\ Points(w, ix, log, rule, by)
       /\ \A n \in 1..Len(log) : Belongs(log[n], lastTs, rule, by, restarts) =>
            \/ Covered(w, ix, n)
            \/ rule \in ThresholdRules
               /\ Told(reports, rule, by, restarts, log[n].ts - DedupWindow)
  BY Zenon DEF WindowsInv, WindowHolds
<1>5. ~Belongs(x, ts, rule, by, restarts)
  BY DEF Belongs, Entry
<1> HIDE DEF w, x
<1>6. log' \in Seq(LogType) /\ Points(w, ix, log', rule, by)
  BY <1>1, <1>3, <1>4, LogGrows, AppendProperties
<1>7. t \in Seq(WindowType)
       /\ \E kx : /\ Points(t, kx, log', rule, by)
                  /\ \A n \in 1..Len(log') :
                       Covered(w, ix, n) /\ ts - log'[n].ts <= WindowOf[rule] => Covered(t, kx, n)
  <2>1. CASE t = w
    BY <2>1, <1>3, <1>6
  <2>2. CASE t = Trim(w, ts, WindowOf[rule])
    BY <2>2, <1>1, <1>2, <1>3, <1>6, TrimKeeps
  <2>3. QED
    BY <2>1, <2>2 DEF w
<1>8. PICK kx : /\ Points(t, kx, log', rule, by)
                 /\ \A n \in 1..Len(log') :
                       Covered(w, ix, n) /\ ts - log'[n].ts <= WindowOf[rule] => Covered(t, kx, n)
  BY <1>7
<1>9. ASSUME NEW n \in 1..Len(log'), Belongs(log'[n], ts, rule, by, restarts)
       PROVE  \/ Covered(t, kx, n)
              \/ rule \in ThresholdRules
                 /\ Told(reports', rule, by, restarts, log'[n].ts - DedupWindow)
  <2>1. ts - log'[n].ts <= WindowOf[rule]
    BY <1>9 DEF Belongs
  <2>2. n \in 1..Len(log)
    BY <1>1, <1>5, <1>9
  <2>3. log'[n] = log[n] /\ log[n].ts \in Int
    BY <2>2, <1>1
  <2>4. Belongs(log[n], lastTs, rule, by, restarts)
    BY <2>3, <1>1, <1>2, <1>9, BelongedBefore
  <2>5. CASE Covered(w, ix, n)
    BY <2>5, <2>1, <1>8
  <2>6. CASE rule \in ThresholdRules /\ Told(reports, rule, by, restarts, log[n].ts - DedupWindow)
    BY <2>6, <2>3, <1>1, ToldStays
  <2>7. QED
    BY <2>2, <2>4, <2>5, <2>6, <1>4
<1>10. QED
  BY <1>7, <1>8, <1>9 DEF WindowHolds


-----------------------------------------------------------------------------
\* An alert that passes both filters comes out at once.
LEMMA ComesOut ==
  ASSUME NEW e, NEW ts, Analyze(e, ts), NEW rule, NEW by,
         [rule |-> rule, by |-> by] \in Raised(e, ts), Fresh(rule, e)
  PROVE  [rule |-> rule, by |-> by, data |-> Data(e), at |-> clock, run |-> restarts,
          event |-> e] \in reports'
<1> DEFINE a == [rule |-> rule, by |-> by]
<1>1. a.rule = rule /\ a.by = by /\ a \in {b \in Raised(e, ts) : Fresh(b.rule, e)}
  OBVIOUS
<1>2. [rule |-> a.rule, by |-> a.by, data |-> Data(e), at |-> clock, run |-> restarts,
       event |-> e] \in reports'
  BY <1>1, Zenon DEF Analyze
<1>3. QED
  BY <1>1, <1>2

\* One that does not has come out, for the same data, a while ago.
LEMMA HeldBack ==
  ASSUME DetectionAssumption, TypeInv, OriginInv, FilterInv, NEW e, NEW rule, ~Fresh(rule, e)
  PROVE  \E r \in reports : /\ r.rule = rule /\ r.data = Data(e) /\ r.run = restarts
                            /\ r.at \in Int /\ r.at >= clock - DedupWindow
<1>1. <<rule, Data(e)>> \in DOMAIN dedup /\ ~(clock - dedup[<<rule, Data(e)>>] >= DedupWindow)
  BY DEF Fresh
<1>2. PICK r \in reports : r.rule = rule /\ r.data = Data(e) /\ r.run = restarts
                           /\ r.at = dedup[<<rule, Data(e)>>]
  BY <1>1 DEF OriginInv
<1>3. r.at \in Nat /\ clock \in Nat /\ DedupWindow \in Nat
  BY DEF FilterInv, Filtered, TypeInv, DetectionAssumption
<1>4. r.at >= clock - DedupWindow
  BY <1>1, <1>2, <1>3
<1>5. QED
  BY <1>2, <1>3, <1>4

LEMMA RaisedIsTold ==
  ASSUME DetectionAssumption, TypeInv, TimeInv, OriginInv, FilterInv, NEW e \in setting.events,
         NEW ts \in lastTs..clock, Analyze(e, ts), NEW f \in Feeds(e), f.rule \in Named,
         [rule |-> f.rule, by |-> f.by] \in Raised(e, ts)
  PROVE  Told(reports', f.rule, f.by, restarts, clock - DedupWindow)
<1>1. clock \in Nat /\ DedupWindow \in Nat /\ reports \subseteq reports'
  BY Analyzed DEF DetectionAssumption
<1>2. CASE Fresh(f.rule, e)
  <2> DEFINE r == [rule |-> f.rule, by |-> f.by, data |-> Data(e), at |-> clock, run |-> restarts,
                   event |-> e]
  <2>1. r \in reports'
    BY <1>2, ComesOut
  <2>2. r.rule = f.rule /\ r.by = f.by /\ r.run = restarts /\ r.at \in Int
        /\ r.at >= clock - DedupWindow
    BY <1>1
  <2> HIDE DEF r
  <2>3. QED
    BY <2>1, <2>2 DEF Told
<1>3. CASE ~Fresh(f.rule, e)
  <2>1. PICK r \in reports : /\ r.rule = f.rule /\ r.data = Data(e) /\ r.run = restarts
                             /\ r.at \in Int /\ r.at >= clock - DedupWindow
    BY <1>3, HeldBack
  <2>2. PICK g \in Feeds(r.event) : g.rule = f.rule /\ g.by = r.by
    BY <2>1 DEF OriginInv
  <2>3. Data(r.event) = Data(e)
    BY <2>1 DEF OriginInv
  <2>4. r.by = f.by
    BY <2>2, <2>3, SameGroup
  <2>5. QED
    BY <1>1, <2>1, <2>4 DEF Told
<1>4. QED
  BY <1>2, <1>3

LEMMA FiredIsTold ==
  ASSUME DetectionAssumption, TypeInv, TimeInv, OriginInv, FilterInv, NEW e \in setting.events,
         NEW ts \in lastTs..clock, Analyze(e, ts), NEW f \in Fires(e, ts), f.rule \in Named
  PROVE  Told(reports', f.rule, f.by, restarts, clock - DedupWindow)
<1>1. f \in Feeds(e)
  BY DEF Fires
<1>2. [rule |-> f.rule, by |-> f.by] \in Raised(e, ts)
  BY DEF Raised
<1>3. QED
  BY <1>1, <1>2, RaisedIsTold

\* A threshold rule that starts afresh has told of all that it had counted.
LEMMA AfreshHolds ==
  ASSUME DetectionAssumption, TypeInv, TimeInv, OriginInv, FilterInv, NEW e \in setting.events,
         NEW ts \in lastTs..clock, Analyze(e, ts), NEW f \in Feeds(e), f.rule \in Counted,
         f.rule \in ThresholdRules, Reached(f, ts)
  PROVE  WindowHolds(<< >>, log', reports', ts, f.rule, f.by, restarts)
<1>1. f.rule \in Named /\ f.rule \notin WindowRules
  BY DEF ThresholdRules, WindowRules, Counted, Named
<1>2. f \in Fires(e, ts)
  BY <1>1 DEF Fires
<1>3. PICK r \in reports' : r.rule = f.rule /\ r.by = f.by /\ r.run = restarts /\ r.at \in Int
                            /\ r.at >= clock - DedupWindow
  BY <1>1, <1>2, FiredIsTold DEF Told
<1>4. ASSUME NEW n \in 1..Len(log'), Belongs(log'[n], ts, f.rule, f.by, restarts)
      PROVE  Told(reports', f.rule, f.by, restarts, log'[n].ts - DedupWindow)
  <2>1. log'[n].ts \in Int /\ log'[n].ts <= clock
    <3>1. CASE n \in 1..Len(log)
      <4>1. log[n] = log'[n] /\ log[n].run = restarts /\ log[n].ts \in Int /\ n \in DOMAIN log
        BY <3>1, <1>4, Analyzed DEF Belongs
      <4>2. log[n].ts <= lastTs /\ lastTs \in Int /\ lastTs <= clock /\ clock \in Int
        BY <4>1, Analyzed DEF TimeInv
      <4>3. QED
        BY <4>1, <4>2
    <3>2. CASE n \notin 1..Len(log)
      <4>1. n = Len(log) + 1
        BY <3>2, Analyzed
      <4>2. log'[n] = Entry(e, ts)
        BY <4>1, Analyzed
      <4>3. QED
        BY <4>2, Analyzed DEF Entry
    <3>3. QED
      BY <3>1, <3>2
  <2>2. r.at >= log'[n].ts - DedupWindow
    BY <1>3, <2>1, Analyzed DEF DetectionAssumption
  <2>3. QED
    BY <1>3, <2>2 DEF Told
<1>5. << >> \in Seq(WindowType) /\ Len(<< >>) = 0
  BY EmptySeq
<1>6. Points(<< >>, [i \in 1..0 |-> 0], log', f.rule, f.by)
  BY <1>5 DEF Points
<1>7. QED
  BY <1>4, <1>5, <1>6 DEF WindowHolds

\* What is where after Analyze.
LEMMA WindowAfter ==
  ASSUME NEW e, NEW ts, Analyze(e, ts), NEW rule, NEW by
  PROVE  /\ \A f \in Feeds(e) : f.rule = rule /\ f.by = by =>
              WindowAt(<<rule, by>>)' = IF rule \in ThresholdRules /\ Reached(f, ts) THEN << >>
                                        ELSE Added(f, ts)
         /\ (\A v : ~IsFed(e, rule, by, v)) =>
              WindowAt(<<rule, by>>)' \in {WindowAt(<<rule, by>>),
                                           Trim(WindowAt(<<rule, by>>), ts, WindowOf["failed_total"])}
         /\ rule # "failed_total" /\ (\A v : ~IsFed(e, rule, by, v)) =>
              WindowAt(<<rule, by>>)' = WindowAt(<<rule, by>>)
<1> DEFINE keys == {Key(f) : f \in Feeds(e)}
           total == IF e.kind = "login_success" THEN {<<"failed_total", e.who>>} ELSE {}
           After(k) ==
             IF k \in keys THEN LET f == CHOOSE g \in Feeds(e) : Key(g) = k IN
               IF f.rule \in ThresholdRules /\ Reached(f, ts) THEN << >> ELSE Added(f, ts)
             ELSE IF k \in total THEN Trim(windows[k], ts, WindowOf["failed_total"])
             ELSE windows[k]
           key == <<rule, by>>
<1>1. windows' = [k \in DOMAIN windows \cup keys |-> After(k)]
  BY DEF Analyze, WindowsAfter
<1>2. ASSUME NEW f \in Feeds(e), f.rule = rule, f.by = by
      PROVE  WindowAt(key)' = IF rule \in ThresholdRules /\ Reached(f, ts) THEN << >> ELSE Added(f, ts)
  <2>1. Key(f) = key /\ key \in keys
    BY <1>2 DEF Key
  <2>2. (CHOOSE g \in Feeds(e) : Key(g) = key) = f
    BY <2>1, FedBy
  <2>3. After(key) = IF rule \in ThresholdRules /\ Reached(f, ts) THEN << >> ELSE Added(f, ts)
    BY <1>2, <2>1, <2>2, Zenon
  <2> HIDE DEF After, keys
  <2>4. key \in DOMAIN windows' /\ windows'[key] = After(key)
    BY <1>1, <2>1
  <2>5. QED
    BY <2>3, <2>4 DEF WindowAt
<1>3. ASSUME \A v : ~IsFed(e, rule, by, v)
      PROVE  /\ WindowAt(key)' \in {WindowAt(key), Trim(WindowAt(key), ts, WindowOf["failed_total"])}
             /\ rule # "failed_total" => WindowAt(key)' = WindowAt(key)
  <2>1. key \notin keys
    BY <1>3 DEF Key, IsFed
  <2>2. CASE key \in DOMAIN windows
    <3>1. WindowAt(key)' = After(key) /\ WindowAt(key) = windows[key]
      <4> HIDE DEF After, keys
      <4>1. key \in DOMAIN windows' /\ windows'[key] = After(key)
        BY <1>1, <2>2
      <4>2. QED
        BY <4>1, <2>2 DEF WindowAt
    <3>2. After(key) = IF key \in total THEN Trim(windows[key], ts, WindowOf["failed_total"])
                       ELSE windows[key]
      BY <2>1
    <3>3. key \in total => rule = "failed_total"
      OBVIOUS
    <3> HIDE DEF After, keys, total
    <3>4. QED
      BY <3>1, <3>2, <3>3
  <2>3. CASE key \notin DOMAIN windows
    <3> HIDE DEF After, keys
    <3>1. key \notin DOMAIN windows'
      BY <1>1, <2>1, <2>3
    <3>2. QED
      BY <3>1, <2>3 DEF WindowAt
  <2>4. QED
    BY <2>2, <2>3
<1>4. QED
  BY <1>2, <1>3

LEMMA WindowsStep ==
  ASSUME DetectionAssumption, AttackInv, FilterInv, NEW e \in setting.events,
         NEW ts \in lastTs..clock, Analyze(e, ts)
  PROVE  WindowsInv'
<1> SUFFICES ASSUME NEW rule \in Counted, NEW by
             PROVE  WindowHolds(WindowAt(<<rule, by>>)', log', reports', ts, rule, by, restarts)
  BY Analyzed DEF WindowsInv, AttackInv
<1>1. CASE \E f \in Feeds(e) : f.rule = rule /\ f.by = by
  <2>1. PICK f \in Feeds(e) : f.rule = rule /\ f.by = by
    BY <1>1
  <2>2. CASE rule \in ThresholdRules /\ Reached(f, ts)
    <3>1. WindowAt(<<rule, by>>)' = << >>
      BY <2>1, <2>2, WindowAfter, Zenon
    <3>2. QED
      BY <2>1, <2>2, <3>1, AfreshHolds DEF AttackInv
  <2>3. CASE ~(rule \in ThresholdRules /\ Reached(f, ts))
    <3>1. WindowAt(<<rule, by>>)' = Added(f, ts)
      <4>1. WindowAt(<<rule, by>>)' = IF rule \in ThresholdRules /\ Reached(f, ts) THEN << >>
                                      ELSE Added(f, ts)
        <5>1. \A g \in Feeds(e) : g.rule = rule /\ g.by = by =>
                WindowAt(<<rule, by>>)' = IF rule \in ThresholdRules /\ Reached(g, ts) THEN << >>
                                          ELSE Added(g, ts)
          BY WindowAfter
        <5>2. QED
          BY <2>1, <5>1, Zenon
      <4>2. QED
        BY <2>3, <4>1
    <3>2. QED
      BY <2>1, <3>1, AddedHolds DEF AttackInv
  <2>4. QED
    BY <2>2, <2>3
<1>2. CASE \A f \in Feeds(e) : ~(f.rule = rule /\ f.by = by)
  <2>1. \A v : ~IsFed(e, rule, by, v)
    BY <1>2 DEF IsFed
  <2>2. WindowAt(<<rule, by>>)' \in {WindowAt(<<rule, by>>),
                                     Trim(WindowAt(<<rule, by>>), ts, WindowOf[rule])}
    <3>1. CASE rule = "failed_total"
      BY <2>1, <3>1, WindowAfter, Zenon
    <3>2. CASE rule # "failed_total"
      BY <2>1, <3>2, WindowAfter
    <3>3. QED
      BY <3>1, <3>2
  <2>3. QED
    BY <2>1, <2>2, OthersHold DEF AttackInv
<1>3. QED
  BY <1>1, <1>2


-----------------------------------------------------------------------------
LEMMA RaisedByFeed ==
  ASSUME NEW e, NEW ts, NEW rule \in Named, NEW by, [rule |-> rule, by |-> by] \in Raised(e, ts)
  PROVE  \E f \in Feeds(e) : f.rule = rule /\ f.by = by
<1> DEFINE a == [rule |-> rule, by |-> by]
           B1 == {[rule |-> f.rule, by |-> f.by] : f \in Fires(e, ts)}
           B2 == {[rule |-> r, by |-> e.who] : r \in News(e)}
           B3 == IF Success(e, ts) THEN {[rule |-> "BEH-BRUTEFORCE-SUCCESS", by |-> e.who]} ELSE {}
           B4 == IF Note(e) THEN {[rule |-> "BEH-RANSOM-NOTE", by |-> e.who]} ELSE {}
<1>1. Raised(e, ts) = B1 \cup B2 \cup B3 \cup B4
  BY Zenon DEF Raised
<1>2. a.rule = rule /\ a.by = by
  OBVIOUS
<1>3. \A b \in B2 : b.rule \in {"UEBA-NEW-LOGIN-SOURCE", "UEBA-RARE-BINARY"}
  BY NewsRules
<1>4. \A b \in B3 : b.rule = "BEH-BRUTEFORCE-SUCCESS"
  OBVIOUS
<1>5. \A b \in B4 : b.rule = "BEH-RANSOM-NOTE"
  OBVIOUS
<1>6. rule \notin {"UEBA-NEW-LOGIN-SOURCE", "UEBA-RARE-BINARY", "BEH-BRUTEFORCE-SUCCESS",
                   "BEH-RANSOM-NOTE"}
  BY DEF Named, WindowRules
<1>7. a \in B1
  <2> HIDE DEF a, B1, B2, B3, B4
  <2>1. a \in B1 \cup B2 \cup B3 \cup B4
    BY <1>1 DEF a
  <2>2. QED
    BY <2>1, <1>2, <1>3, <1>4, <1>5, <1>6
<1>8. PICK f \in Fires(e, ts) : a = [rule |-> f.rule, by |-> f.by]
  BY <1>7
<1>9. f \in Feeds(e)
  BY DEF Fires
<1>10. QED
  BY <1>2, <1>8, <1>9

LEMMA OriginStep ==
  ASSUME DetectionAssumption, AttackInv, FilterInv, NEW e \in setting.events,
         NEW ts \in lastTs..clock, Analyze(e, ts)
  PROVE  OriginInv'
<1> DEFINE out == {a \in Raised(e, ts) : Fresh(a.rule, e)}
<1>1. reports \subseteq reports' /\ restarts' = restarts /\ clock' = clock
      /\ clock \in Nat
  BY Analyzed DEF AttackInv
<1>2. ASSUME NEW r \in reports'
      PROVE  /\ r.data = Data(r.event)
             /\ r.rule \in Named => \E f \in Feeds(r.event) : f.rule = r.rule /\ f.by = r.by
  <2>1. CASE r \in reports
    BY <2>1 DEF AttackInv, OriginInv
  <2>2. CASE r \notin reports
    <3>1. r.event = e /\ r.data = Data(e) /\ [rule |-> r.rule, by |-> r.by] \in Raised(e, ts)
      BY <2>2, AnalyzeFilters DEF AttackInv
    <3>2. QED
      BY <3>1, RaisedByFeed
  <2>3. QED
    BY <2>1, <2>2
<1>3. ASSUME NEW rule, NEW d, <<rule, d>> \in DOMAIN dedup'
      PROVE  \E r \in reports' : r.rule = rule /\ r.data = d /\ r.run = restarts
                                 /\ r.at = dedup'[<<rule, d>>]
  <2> DEFINE keys == {<<a.rule, Data(e)>> : a \in out}
  <2>1. dedup' = [k \in DOMAIN dedup \cup keys |-> IF k \in keys THEN clock ELSE dedup[k]]
    BY DEF Analyze, Stamp
  <2>2. CASE <<rule, d>> \in keys
    <3>1. PICK a \in out : <<rule, d>> = <<a.rule, Data(e)>>
      BY <2>2
    <3>2. a = [rule |-> a.rule, by |-> a.by] /\ a \in Raised(e, ts) /\ Fresh(a.rule, e)
      BY DEF Raised
    <3> DEFINE r == [rule |-> a.rule, by |-> a.by, data |-> Data(e), at |-> clock,
                     run |-> restarts, event |-> e]
    <3>3. r \in reports'
      BY <3>2, ComesOut
    <3>4. r.rule = rule /\ r.data = d /\ r.run = restarts /\ r.at = clock
      BY <3>1
    <3>5. dedup'[<<rule, d>>] = clock
      <4> HIDE DEF keys
      <4>1. QED
        BY <2>1, <2>2
    <3> HIDE DEF r
    <3>6. QED
      BY <3>3, <3>4, <3>5
  <2>3. CASE <<rule, d>> \notin keys
    <3> HIDE DEF keys
    <3>1. <<rule, d>> \in DOMAIN dedup /\ dedup'[<<rule, d>>] = dedup[<<rule, d>>]
      BY <1>3, <2>1, <2>3
    <3>2. QED
      BY <1>1, <3>1 DEF AttackInv, OriginInv
  <2>4. QED
    BY <2>2, <2>3
<1>4. ASSUME NEW rule \in WindowRules, NEW by, <<rule, by>> \in DOMAIN fired'
      PROVE  Told(reports', rule, by, restarts, fired'[<<rule, by>>] - DedupWindow)
  <2>1. fired' = [k \in DOMAIN fired \cup Stamped(e, ts) |->
                    IF k \in Stamped(e, ts) THEN clock ELSE fired[k]]
    BY DEF Analyze, Stamp
  <2>2. CASE <<rule, by>> \in Stamped(e, ts)
    <3>1. PICK a \in Raised(e, ts) : <<rule, by>> = <<a.rule, a.by>>
      BY <2>2 DEF Stamped
    <3>2. a = [rule |-> rule, by |-> by]
      BY <3>1 DEF Raised
    <3>3. rule \in Named
      BY DEF Named
    <3>4. PICK f \in Feeds(e) : f.rule = rule /\ f.by = by
      BY <3>1, <3>2, <3>3, RaisedByFeed
    <3>5. Told(reports', rule, by, restarts, clock - DedupWindow)
      BY <3>1, <3>2, <3>3, <3>4, RaisedIsTold DEF AttackInv
    <3>6. fired'[<<rule, by>>] = clock
      BY <2>1, <2>2
    <3>7. QED
      BY <3>5, <3>6
  <2>3. CASE <<rule, by>> \notin Stamped(e, ts)
    <3>1. <<rule, by>> \in DOMAIN fired /\ fired'[<<rule, by>>] = fired[<<rule, by>>]
      BY <1>4, <2>1, <2>3
    <3>2. Told(reports, rule, by, restarts, fired[<<rule, by>>] - DedupWindow)
      BY <3>1 DEF AttackInv, OriginInv
    <3>3. QED
      BY <1>1, <3>1, <3>2, ToldStays
  <2>4. QED
    BY <2>2, <2>3
<1>5. QED
  BY <1>1, <1>2, <1>3, <1>4 DEF OriginInv

LEMMA TimeStep ==
  ASSUME DetectionAssumption, AttackInv, NEW e \in setting.events, NEW ts \in lastTs..clock,
         Analyze(e, ts)
  PROVE  TimeInv'
<1>1. /\ Len(log) \in Nat /\ Len(log') = Len(log) + 1
      /\ DOMAIN log = 1..Len(log) /\ DOMAIN log' = 1..Len(log')
      /\ \A n \in 1..Len(log) : log'[n] = log[n] /\ log[n].ts \in Int
      /\ log'[Len(log) + 1] = Entry(e, ts) /\ restarts' = restarts /\ lastTs' = ts
      /\ clock' = clock /\ ts \in Int /\ lastTs <= ts /\ ts <= clock /\ restarts \in Nat
      /\ lastTs \in Int
  BY Analyzed DEF AttackInv, TypeInv, TimeInv
<1>2. ASSUME NEW n \in DOMAIN log'
      PROVE  log'[n].run <= restarts /\ (log'[n].run = restarts => log'[n].ts <= ts)
  <2>1. CASE n = Len(log) + 1
    BY <2>1, <1>1 DEF Entry
  <2>2. CASE n \in 1..Len(log)
    <3>1. log[n].run <= restarts /\ (log[n].run = restarts => log[n].ts <= lastTs)
      BY <2>2, <1>1 DEF AttackInv, TimeInv
    <3>2. QED
      BY <3>1, <2>2, <1>1
  <2>3. QED
    BY <2>1, <2>2, <1>1
<1>3. QED
  BY <1>1, <1>2 DEF TimeInv

LEMMA RestartAttack ==
  ASSUME DetectionAssumption, AttackInv, Restart
  PROVE  TimeInv' /\ WindowsInv' /\ OriginInv'
<1>1. /\ restarts \in Nat /\ clock \in Nat /\ log \in Seq(LogType)
      /\ restarts' = restarts + 1 /\ log' = log /\ reports' = reports /\ lastTs' = clock
      /\ clock' = clock /\ windows' = << >> /\ fired' = << >> /\ dedup' = << >>
  BY DEF Restart, AttackInv, TypeInv, history
<1>2. \A n \in 1..Len(log) : log[n].run \in Nat /\ log[n].run <= restarts
  <2>1. ASSUME NEW n \in 1..Len(log) PROVE log[n] \in LogType /\ n \in DOMAIN log
    BY <1>1, ElementOfSeq, LenProperties
  <2>2. QED
    BY <2>1 DEF AttackInv, TimeInv, LogType
<1>3. DOMAIN log = 1..Len(log)
  BY <1>1, LenProperties
<1>4. TimeInv'
  BY <1>1, <1>2, <1>3 DEF TimeInv
<1>5. ASSUME NEW rule \in Counted, NEW by
      PROVE  WindowHolds(<< >>, log, reports, clock, rule, by, restarts + 1)
  <2>1. \A n \in 1..Len(log) : ~Belongs(log[n], clock, rule, by, restarts + 1)
    BY <1>1, <1>2 DEF Belongs
  <2>2. << >> \in Seq(WindowType) /\ Len(<< >>) = 0
    BY EmptySeq
  <2>3. Points(<< >>, [i \in 1..0 |-> 0], log, rule, by)
    BY <2>2 DEF Points
  <2>4. QED
    BY <2>1, <2>2, <2>3 DEF WindowHolds
<1>6. \A k : WindowAt(k)' = << >>
  BY <1>1 DEF WindowAt
<1>7. WindowsInv'
  BY <1>1, <1>5, <1>6 DEF WindowsInv
<1>8. DOMAIN dedup' = {} /\ DOMAIN fired' = {}
  BY <1>1
<1>9. OriginInv'
  BY <1>1, <1>8 DEF OriginInv, AttackInv
<1>10. QED
  BY <1>4, <1>7, <1>9

LEMMA QuietAttack ==
  ASSUME AttackInv, UNCHANGED <<lastTs, windows, fired, dedup, restarts, log, reports>>,
         clock' \in Int, clock' >= clock
  PROVE  TimeInv' /\ WindowsInv' /\ OriginInv'
<1>1. TimeInv'
  BY DEF AttackInv, TimeInv, TypeInv
<1>2. \A k : WindowAt(k)' = WindowAt(k)
  BY DEF WindowAt
<1>3. WindowsInv'
  BY <1>2 DEF WindowsInv, AttackInv
<1>4. OriginInv'
  BY DEF OriginInv, AttackInv
<1>5. QED
  BY <1>1, <1>3, <1>4

LEMMA AttackStep ==
  ASSUME DetectionAssumption, AttackInv, FilterInv, [Next]_vars
  PROVE  AttackInv'
<1>1. TypeInv'
  BY TypeStep DEF AttackInv
<1>2. CASE \E e \in setting.events : \E ts \in lastTs..clock : Analyze(e, ts)
  BY <1>1, <1>2, WindowsStep, OriginStep, TimeStep DEF AttackInv
<1>3. CASE Restart
  BY <1>1, <1>3, RestartAttack DEF AttackInv
<1>4. CASE (\E ns \in {"seen_exes", "seen_logins"} : Save(ns) \/ Clear(ns)) \/ UNCHANGED vars
  <2>1. clock \in Nat
    BY DEF AttackInv, TypeInv
  <2>2. UNCHANGED <<lastTs, windows, fired, dedup, restarts, log, reports, clock>>
    BY <1>4 DEF Save, Clear, vars, history, memory
  <2>3. QED
    BY <1>1, <2>1, <2>2, QuietAttack DEF AttackInv
<1>5. CASE Tick
  <2>1. clock \in Nat
    BY DEF AttackInv, TypeInv
  <2>2. UNCHANGED <<lastTs, windows, fired, dedup, restarts, log, reports>> /\ clock' = clock + 1
    BY <1>5 DEF Tick, history, memory
  <2>3. QED
    BY <1>1, <2>1, <2>2, QuietAttack DEF AttackInv
<1>6. QED
  BY <1>2, <1>3, <1>4, <1>5 DEF Next


-----------------------------------------------------------------------------
\* The entries that a window covers are no more than the window has.
LEMMA CoveredCount ==
  ASSUME NEW w \in Seq(WindowType), NEW ix, NEW m \in Nat, ix \in [1..Len(w) -> 1..m], NEW B,
         \A n \in B : Covered(w, ix, n)
  PROVE  IsFiniteSet(B) /\ Cardinality(B) \in Nat /\ Cardinality(B) <= Len(w)
<1> DEFINE D == 1..Len(w)
           S == {ix[i] : i \in D}
<1>1. Len(w) \in Nat /\ IsFiniteSet(D) /\ Cardinality(D) = Len(w)
  <2>1. Len(w) \in Nat
    BY LenProperties
  <2>2. IsFiniteSet(D) /\ Cardinality(D) = IF 1 > Len(w) THEN 0 ELSE Len(w) - 1 + 1
    BY <2>1, FS_Interval
  <2>3. QED
    BY <2>1, <2>2
<1>2. ix \in Surjection(D, S)
  BY DEF Surjection
<1>3. IsFiniteSet(S) /\ Cardinality(S) <= Cardinality(D)
  BY <1>1, <1>2, FS_Surjection
<1>4. B \subseteq S
  BY DEF Covered
<1>5. IsFiniteSet(B) /\ Cardinality(B) <= Cardinality(S)
  BY <1>3, <1>4, FS_Subset
<1>6. Cardinality(B) \in Nat /\ Cardinality(S) \in Nat
  BY <1>3, <1>5, FS_CardinalityType
<1> HIDE DEF D, S
<1>7. QED
  BY <1>1, <1>3, <1>5, <1>6

LEMMA ValuesCount ==
  ASSUME NEW w \in Seq(WindowType), NEW V, V \subseteq {w[k].value : k \in DOMAIN w}
  PROVE  Cardinality(V) <= Cardinality({w[k].value : k \in DOMAIN w})
         /\ Cardinality(V) \in Nat /\ Cardinality({w[k].value : k \in DOMAIN w}) \in Nat
<1> DEFINE D == 1..Len(w)
           S == {w[k].value : k \in D}
           f == [k \in D |-> w[k].value]
<1>1. Len(w) \in Nat /\ IsFiniteSet(D) /\ DOMAIN w = D
  BY LenProperties, FS_Interval
<1>2. f \in Surjection(D, S)
  BY DEF Surjection
<1>3. IsFiniteSet(S)
  BY <1>1, <1>2, FS_Surjection
<1>4. V \subseteq S
  BY <1>1
<1> HIDE DEF S
<1>5. Cardinality(V) <= Cardinality(S) /\ IsFiniteSet(V)
  BY <1>3, <1>4, FS_Subset
<1>6. Cardinality(V) \in Nat /\ Cardinality(S) \in Nat
  BY <1>3, <1>5, FS_CardinalityType
<1>7. QED
  BY <1>1, <1>5, <1>6 DEF S

\* The events of the log that belong to a group, seen from the window.
LEMMA BelongingThen ==
  ASSUME DetectionAssumption, TypeInv, TimeInv, NEW e \in setting.events,
         NEW ts \in lastTs..clock, Analyze(e, ts), NEW f,
         \A x \in EventType : \A g \in Feeds(x) : Key(g) = Key(f) => g.rule = f.rule /\ g.by = f.by
  PROVE  \A n \in Belonging(f)' : /\ n \in 1..Len(log')
                                  /\ Belongs(log'[n], ts, f.rule, f.by, restarts)
                                  /\ \E g \in Feeds(log'[n].event) : Key(g) = Key(f)
<1>1. DOMAIN log' = 1..Len(log') /\ log'[Len(log')] = Entry(e, ts)
  BY Analyzed
<1>2. ASSUME NEW n \in Belonging(f)'
      PROVE  /\ n \in 1..Len(log')
             /\ Belongs(log'[n], ts, f.rule, f.by, restarts)
             /\ \E g \in Feeds(log'[n].event) : Key(g) = Key(f)
  <2>1. /\ n \in DOMAIN log' /\ log'[n].run = log'[Len(log')].run
        /\ log'[Len(log')].ts - log'[n].ts <= WindowOf[f.rule]
        /\ \E g \in Feeds(log'[n].event) : Key(g) = Key(f)
    BY <1>2 DEF Belonging
  <2>2. log'[n].run = restarts /\ ts - log'[n].ts <= WindowOf[f.rule]
    BY <1>1, <2>1 DEF Entry
  <2>3. PICK g \in Feeds(log'[n].event) : Key(g) = Key(f)
    BY <2>1
  <2>4. g.rule = f.rule /\ g.by = f.by
    BY <2>3 DEF Key
  <2>5. IsFed(log'[n].event, f.rule, f.by, g.value)
    BY <2>3, <2>4 DEF IsFed
  <2>6. QED
    BY <1>1, <2>1, <2>2, <2>3, <2>5 DEF Belongs
<1>3. QED
  BY <1>2

\* If nothing that belongs was told of, the window has it all.
LEMMA CountIsTrue ==
  ASSUME DetectionAssumption, AttackInv, FilterInv, NEW e \in setting.events,
         NEW ts \in lastTs..clock, Analyze(e, ts), NEW f \in Feeds(e), f.rule \in Named,
         NEW jx, Points(Added(f, ts), jx, log', f.rule, f.by), Added(f, ts) \in Seq(WindowType),
         \A n \in Belonging(f)' : Covered(Added(f, ts), jx, n),
         TrueCount(f)' >= LimitOf[f.rule]
  PROVE  Reached(f, ts)
<1> DEFINE w == Added(f, ts)
           B == Belonging(f)'
<1>1. LimitOf[f.rule] \in Nat /\ Len(w) \in Nat /\ Len(log') \in Nat
  BY RuleFacts, LenProperties, Analyzed DEF AttackInv, Counted
<1>2. CASE f.rule \in CountsDistinct
  <2> DEFINE V == {ValueIn(f, log'[k].event) : k \in B}
             S == {w[k].value : k \in DOMAIN w}
  <2>1. TrueCount(f)' = Cardinality(V) /\ Count(f.rule, w) = Cardinality(S)
    BY <1>2 DEF TrueCount, Count
  <2>2. ASSUME NEW n \in B PROVE ValueIn(f, log'[n].event) \in S
    <3>1. PICK i \in 1..Len(w) : jx[i] = n
      BY DEF Covered
    <3>2. IsFed(log'[n].event, f.rule, f.by, w[i].value)
      BY <3>1 DEF Points
    <3>3. PICK g \in Feeds(log'[n].event) : g.rule = f.rule /\ g.by = f.by /\ g.value = w[i].value
      BY <3>2 DEF IsFed
    <3>4. (CHOOSE h \in Feeds(log'[n].event) : Key(h) = Key(g)) = g
      BY FedBy
    <3>5. Key(g) = Key(f)
      BY <3>3 DEF Key
    <3>6. ValueIn(f, log'[n].event) = w[i].value
      BY <3>3, <3>4, <3>5 DEF ValueIn
    <3>7. DOMAIN w = 1..Len(w)
      BY LenProperties
    <3>8. QED
      BY <3>1, <3>6, <3>7
  <2>3. V \subseteq S
    BY <2>2
  <2> HIDE DEF V, w
  <2>4. Cardinality(V) <= Cardinality(S) /\ Cardinality(V) \in Nat /\ Cardinality(S) \in Nat
    BY <2>3, ValuesCount DEF w
  <2>5. Count(f.rule, w) >= LimitOf[f.rule]
    <3> HIDE DEF S
    <3>1. QED
      BY <1>1, <2>1, <2>4
  <2>6. QED
    BY <2>5 DEF Reached, Named, WindowRules, w
<1>3. CASE f.rule \notin CountsDistinct
  <2>1. TrueCount(f)' = Cardinality(B) /\ Count(f.rule, w) = Len(w)
    BY <1>3 DEF TrueCount, Count
  <2>2. jx \in [1..Len(w) -> 1..Len(log')]
    BY DEF Points
  <2> HIDE DEF B, w
  <2>3. Cardinality(B) \in Nat /\ Cardinality(B) <= Len(w)
    BY <1>1, <2>2, CoveredCount DEF B, w
  <2>4. Count(f.rule, w) >= LimitOf[f.rule]
    BY <1>1, <2>1, <2>3
  <2>5. QED
    BY <2>4 DEF Reached, Named, WindowRules, w
<1>4. QED
  BY <1>2, <1>3

LEMMA AttackNow ==
  ASSUME DetectionAssumption, AttackInv, FilterInv, NEW e \in setting.events,
         NEW ts \in lastTs..clock, Analyze(e, ts), NEW f \in Feeds(e), f.rule \in Named,
         TrueCount(f)' >= LimitOf[f.rule]
  PROVE  Told(reports', f.rule, f.by, restarts, clock - Grace(f.rule))
<1> DEFINE w == Added(f, ts)
<1>1. f.rule \in Counted /\ DedupWindow \in Nat /\ clock \in Nat /\ setting.lag \in Nat
      /\ ts >= clock - setting.lag /\ ts \in Int
  BY Analyzed DEF Counted, DetectionAssumption, AttackInv
<1>2. WindowOf[f.rule] \in Nat /\ (f.rule \in WindowRules => CooldownOf[f.rule] \in Nat)
  BY <1>1, RuleFacts
<1>3. f.rule \in ThresholdRules <=> f.rule \notin WindowRules
  BY DEF Named, ThresholdRules, WindowRules
<1>4. Grace(f.rule) \in Nat /\ Grace(f.rule) >= DedupWindow
  BY <1>1, <1>2, <1>3 DEF Grace
<1>5. WindowHolds(w, log', reports', ts, f.rule, f.by, restarts)
  BY <1>1, AddedHolds DEF AttackInv
<1>6. PICK jx :
       /\ Points(w, jx, log', f.rule, f.by)
       /\ \A n \in 1..Len(log') : Belongs(log'[n], ts, f.rule, f.by, restarts) =>
            \/ Covered(w, jx, n)
            \/ f.rule \in ThresholdRules
               /\ Told(reports', f.rule, f.by, restarts, log'[n].ts - DedupWindow)
  BY <1>5, Zenon DEF WindowHolds
<1>7. \A n \in Belonging(f)' : /\ n \in 1..Len(log')
                               /\ Belongs(log'[n], ts, f.rule, f.by, restarts)
  <2>1. \A x \in EventType : \A g \in Feeds(x) : Key(g) = Key(f) => g.rule = f.rule /\ g.by = f.by
    BY DEF Key
  <2>2. QED
    BY <2>1, BelongingThen DEF AttackInv
<1>8. CASE \A n \in Belonging(f)' : Covered(w, jx, n)
  <2>1. w \in Seq(WindowType)
    BY <1>5 DEF WindowHolds
  <2>2. Reached(f, ts)
    BY <1>6, <1>8, <2>1, CountIsTrue
  <2>3. CASE f.rule \in WindowRules /\ ~Rested(f.rule, f.by)
    <3>1. <<f.rule, f.by>> \in DOMAIN fired
          /\ ~(clock - fired[<<f.rule, f.by>>] >= CooldownOf[f.rule])
      BY <2>3 DEF Rested
    <3>2. PICK r \in reports : r.rule = f.rule /\ r.by = f.by /\ r.run = restarts /\ r.at \in Int
                               /\ r.at >= fired[<<f.rule, f.by>>] - DedupWindow
      BY <2>3, <3>1 DEF AttackInv, OriginInv, Told
    <3>3. fired[<<f.rule, f.by>>] \in Int
      <4>1. f.rule \in DOMAIN CooldownOf
        BY <2>3 DEF DetectionAssumption
      <4>2. QED
        <5>1. Filtered(r)
          BY <3>2 DEF FilterInv
        <5>2. QED
          BY <3>2, <4>1, <5>1 DEF Filtered
    <3>4. Grace(f.rule) = DedupWindow + CooldownOf[f.rule]
      BY <1>3, <2>3 DEF Grace
    <3>5. r.at >= clock - Grace(f.rule)
      BY <1>1, <1>2, <2>3, <3>1, <3>2, <3>3, <3>4
    <3>6. reports \subseteq reports'
      BY Analyzed DEF AttackInv
    <3>7. QED
      BY <3>2, <3>5, <3>6 DEF Told
  <2>4. CASE ~(f.rule \in WindowRules /\ ~Rested(f.rule, f.by))
    <3>1. f \in Fires(e, ts)
      BY <2>2, <2>4 DEF Fires
    <3>2. PICK r \in reports' : r.rule = f.rule /\ r.by = f.by /\ r.run = restarts /\ r.at \in Int
                                /\ r.at >= clock - DedupWindow
      BY <3>1, FiredIsTold DEF AttackInv, Told
    <3>3. r.at >= clock - Grace(f.rule)
      BY <1>1, <1>4, <3>2
    <3>4. QED
      BY <3>2, <3>3 DEF Told
  <2>5. QED
    BY <2>3, <2>4
<1>9. CASE \E n \in Belonging(f)' : ~Covered(w, jx, n)
  <2>1. PICK n \in Belonging(f)' : ~Covered(w, jx, n)
    BY <1>9
  <2>2. f.rule \in ThresholdRules
        /\ Told(reports', f.rule, f.by, restarts, log'[n].ts - DedupWindow)
    BY <1>6, <1>7, <2>1
  <2>3. PICK r \in reports' : r.rule = f.rule /\ r.by = f.by /\ r.run = restarts /\ r.at \in Int
                              /\ r.at >= log'[n].ts - DedupWindow
    BY <2>2 DEF Told
  <2>4. ts - log'[n].ts <= WindowOf[f.rule]
    BY <1>7, <2>1 DEF Belongs
  <2>5. log'[n].ts \in Int
    <3>1. n = Len(log) + 1 \/ n \in 1..Len(log)
      BY <1>7, <2>1, Analyzed DEF AttackInv
    <3>2. log'[Len(log) + 1] = Entry(e, ts) /\ \A k \in 1..Len(log) : log'[k] = log[k] /\ log[k].ts \in Int
      BY Analyzed DEF AttackInv
    <3>3. CASE n = Len(log) + 1
      BY <1>1, <3>2, <3>3 DEF Entry
    <3>4. CASE n \in 1..Len(log)
      <4>1. log'[n] = log[n] /\ log[n].ts \in Int
        BY <3>2, <3>4
      <4>2. QED
        BY <4>1
    <3>5. QED
      BY <3>1, <3>3, <3>4
  <2>6. Grace(f.rule) = DedupWindow + (WindowOf[f.rule] + setting.lag)
    BY <2>2 DEF Grace
  <2>7. r.at >= clock - Grace(f.rule)
    BY <1>1, <1>2, <2>3, <2>4, <2>5, <2>6
  <2>8. QED
    BY <2>3, <2>7 DEF Told
<1>10. QED
  BY <1>8, <1>9

LEMMA AttackReportedStep ==
  ASSUME DetectionAssumption, AttackInv, FilterInv, AttackReported, [Next]_vars
  PROVE  AttackReported'
<1>1. CASE \E e \in setting.events : \E ts \in lastTs..clock : Analyze(e, ts)
  <2>1. PICK e \in setting.events, ts \in lastTs..clock : Analyze(e, ts)
    BY <1>1
  <2>2. log'[Len(log')] = Entry(e, ts) /\ setting' = setting
    BY <2>1, Analyzed DEF AttackInv
  <2>3. SUFFICES ASSUME NEW f \in Feeds(e), f.rule \notin {"failed_total", "PROC-012"},
                        TrueCount(f)' >= LimitOf[f.rule]
                 PROVE  \E r \in reports' : /\ r.rule = f.rule /\ r.by = f.by /\ r.run = restarts
                                            /\ r.at >= clock - Grace(f.rule)
    <3>2. \A rule : Grace(rule)' = Grace(rule)
      BY <2>2 DEF Grace
    <3>3. QED
      BY <2>2, <3>2 DEF AttackReported, Entry
  <2>4. f.rule \in Named
    BY FeedsFields, <2>3
  <2>5. QED
    BY <2>1, <2>3, <2>4, AttackNow DEF Told
<1>2. CASE UNCHANGED <<log, reports, setting>>
  BY <1>2 DEF AttackReported, TrueCount, Belonging, Grace
<1>3. Restart \/ Tick \/ (\E ns \in {"seen_exes", "seen_logins"} : Save(ns) \/ Clear(ns))
      \/ UNCHANGED vars => UNCHANGED <<log, reports, setting>>
  BY DEF Restart, Tick, Save, Clear, vars, history
<1>4. QED
  BY <1>1, <1>2, <1>3 DEF Next

\* A login is not a failure: the window of its address is what it was, cut.
LEMMA IntrusionNow ==
  ASSUME DetectionAssumption, AttackInv, FilterInv, NEW e \in setting.events,
         NEW ts \in lastTs..clock, Analyze(e, ts), e.kind = "login_success",
         NEW f, f.rule = "failed_total", f.by = e.who,
         TrueCount(f)' >= LimitOf["BEH-BRUTEFORCE"]
  PROVE  \E r \in reports' : /\ r.rule = "BEH-BRUTEFORCE-SUCCESS" /\ r.run = restarts
                             /\ r.data = Data(e) /\ r.at >= clock - DedupWindow
<1> DEFINE rule == "failed_total"
           w == Trim(WindowAt(<<rule, e.who>>), ts, WindowOf[rule])
           success == "BEH-BRUTEFORCE-SUCCESS"
<1>1. Feeds(e) = {} /\ \A v : ~IsFed(e, rule, e.who, v)
  BY SMT DEF Feeds, Starts, Notes, IsFed
<1>2. rule \in Counted /\ rule \notin ThresholdRules /\ rule \notin CountsDistinct
      /\ LimitOf["BEH-BRUTEFORCE"] \in Nat
  BY DEF Counted, ThresholdRules, CountsDistinct, DetectionAssumption, WindowRules
<1>3. f.rule = rule /\ f.by = e.who
  OBVIOUS
<1>4. WindowHolds(w, log', reports', ts, rule, e.who, restarts)
  BY <1>1, <1>2, OthersHold DEF AttackInv
<1>5. PICK jx :
       /\ Points(w, jx, log', rule, e.who)
       /\ \A n \in 1..Len(log') : Belongs(log'[n], ts, rule, e.who, restarts) =>
            \/ Covered(w, jx, n)
            \/ rule \in ThresholdRules
               /\ Told(reports', rule, e.who, restarts, log'[n].ts - DedupWindow)
  BY <1>4, Zenon DEF WindowHolds
<1>6. w \in Seq(WindowType) /\ Len(w) \in Nat /\ Len(log') \in Nat
  <2>1. w \in Seq(WindowType)
    BY <1>4 DEF WindowHolds
  <2> HIDE DEF w
  <2>2. QED
    BY <2>1, LenProperties, Analyzed DEF AttackInv
<1> HIDE DEF w
<1>7. \A x \in EventType : \A g \in Feeds(x) : Key(g) = Key(f) => g.rule = f.rule /\ g.by = f.by
  BY DEF Key
<1>8. \A n \in Belonging(f)' : n \in 1..Len(log') /\ Belongs(log'[n], ts, rule, e.who, restarts)
  <2>1. \A n \in Belonging(f)' : /\ n \in 1..Len(log')
                                 /\ Belongs(log'[n], ts, f.rule, f.by, restarts)
    BY <1>7, BelongingThen DEF AttackInv
  <2>2. QED
    BY <2>1, <1>3
<1>9. \A n \in Belonging(f)' : Covered(w, jx, n)
  BY <1>2, <1>5, <1>8
<1>10. TrueCount(f)' = Cardinality(Belonging(f)')
  BY <1>2, <1>3 DEF TrueCount
<1>11. jx \in [1..Len(w) -> 1..Len(log')]
  BY <1>5 DEF Points
<1>12. Cardinality(Belonging(f)') \in Nat /\ Cardinality(Belonging(f)') <= Len(w)
  BY <1>6, <1>9, <1>11, CoveredCount
<1>13. Len(w) >= LimitOf["BEH-BRUTEFORCE"]
  <2>1. TrueCount(f)' >= LimitOf["BEH-BRUTEFORCE"]
    OBVIOUS
  <2>2. QED
    BY <1>2, <1>6, <1>10, <1>12, <2>1
<1>14. Success(e, ts)
  BY <1>13 DEF Success, w
<1>15. [rule |-> success, by |-> e.who] \in Raised(e, ts)
  BY <1>14, Zenon DEF Raised
<1>16. clock \in Nat /\ DedupWindow \in Nat /\ reports \subseteq reports'
  BY Analyzed DEF AttackInv, DetectionAssumption
<1>17. CASE Fresh(success, e)
  <2> DEFINE r == [rule |-> success, by |-> e.who, data |-> Data(e), at |-> clock,
                   run |-> restarts, event |-> e]
  <2>1. r \in reports'
    BY <1>15, <1>17, ComesOut
  <2>2. r.rule = success /\ r.run = restarts /\ r.data = Data(e) /\ r.at >= clock - DedupWindow
    <3>1. r.rule = success /\ r.run = restarts /\ r.data = Data(e) /\ r.at = clock
      BY Zenon
    <3> HIDE DEF r
    <3>2. QED
      BY <1>16, <3>1
  <2>3. QED
    BY <2>1, <2>2, Zenon
<1>18. CASE ~Fresh(success, e)
  <2>1. PICK r \in reports : /\ r.rule = success /\ r.data = Data(e) /\ r.run = restarts
                            /\ r.at \in Int /\ r.at >= clock - DedupWindow
    BY <1>18, HeldBack DEF AttackInv
  <2>2. QED
    BY <1>16, <2>1, Zenon
<1>19. QED
  BY <1>17, <1>18

LEMMA IntrusionReportedStep ==
  ASSUME DetectionAssumption, AttackInv, FilterInv, IntrusionReported, [Next]_vars
  PROVE  IntrusionReported'
<1>1. CASE \E e \in setting.events : \E ts \in lastTs..clock : Analyze(e, ts)
  <2>1. PICK e \in setting.events, ts \in lastTs..clock : Analyze(e, ts)
    BY <1>1
  <2>2. log'[Len(log')] = Entry(e, ts)
    BY <2>1, Analyzed DEF AttackInv
  <2>3. /\ log'[Len(log')].event = e /\ log'[Len(log')].at = clock
        /\ log'[Len(log')].run = restarts
    BY <2>2 DEF Entry
  <2>4. PICK f : f = Feed("failed_total", e.who, "")
    OBVIOUS
  <2>5. f.rule = "failed_total" /\ f.by = e.who
    BY <2>4 DEF Feed
  <2>6. e.kind = "login_success" /\ TrueCount(f)' >= LimitOf["BEH-BRUTEFORCE"] =>
          \E r \in reports' : /\ r.rule = "BEH-BRUTEFORCE-SUCCESS" /\ r.run = restarts
                              /\ r.data = Data(e) /\ r.at >= clock - DedupWindow
    BY <2>1, <2>5, IntrusionNow
  <2>7. QED
    BY <2>3, <2>4, <2>6, Zenon DEF IntrusionReported
<1>2. CASE UNCHANGED <<log, reports>>
  BY <1>2 DEF IntrusionReported, TrueCount, Belonging
<1>3. Restart \/ Tick \/ (\E ns \in {"seen_exes", "seen_logins"} : Save(ns) \/ Clear(ns))
      \/ UNCHANGED vars => UNCHANGED <<log, reports>>
  BY DEF Restart, Tick, Save, Clear, vars, history
<1>4. QED
  BY <1>1, <1>2, <1>3 DEF Next

LEMMA InitAttack == Init => AttackInv /\ AttackReported /\ IntrusionReported
<1> SUFFICES ASSUME Init PROVE AttackInv /\ AttackReported /\ IntrusionReported
  OBVIOUS
<1>1. /\ setting \in Settings /\ clock = 0 /\ lastTs = 0 /\ restarts = 0 /\ log = << >>
      /\ windows = << >> /\ fired = << >> /\ dedup = << >> /\ reports = {}
  BY DEF Init
<1>2. Len(log) = 0 /\ DOMAIN log = {} /\ DOMAIN fired = {} /\ DOMAIN dedup = {}
      /\ log \in Seq(LogType) /\ << >> \in Seq(WindowType)
  BY <1>1, EmptySeq
<1>3. TypeInv /\ TimeInv /\ OriginInv
  BY <1>1, <1>2 DEF TypeInv, TimeInv, OriginInv
<1>4. ASSUME NEW rule, NEW by PROVE WindowHolds(<< >>, log, reports, lastTs, rule, by, restarts)
  <2>1. Points(<< >>, [i \in 1..0 |-> 0], log, rule, by)
    BY <1>1, <1>2 DEF Points
  <2>2. QED
    BY <1>2, <2>1 DEF WindowHolds
<1>5. \A k : WindowAt(k) = << >>
  BY <1>1 DEF WindowAt
<1>6. WindowsInv
  BY <1>4, <1>5 DEF WindowsInv
<1>7. QED
  BY <1>1, <1>3, <1>6 DEF AttackInv, AttackReported, IntrusionReported

(* The cooldown and the deduplication, which go by different keys, and the *)
(* windows, which are trimmed by the sensors' clock and emptied by an      *)
(* alert, hide no attack: when the events of a group reach the limit of a  *)
(* rule, an alert of that rule and group has come out in this run.         *)
THEOREM AttacksAreReported == Spec => []AttackReported
<1> DEFINE IInv == AttackInv /\ AttackReported
<1>1. Init => IInv
  BY InitAttack
<1>2. IInv /\ SafetyInv /\ [Next]_vars => IInv'
  BY DetectionAssumption, AttackStep, AttackReportedStep DEF SafetyInv
<1>3. QED
  BY <1>1, <1>2, InvariantSafety, PTL DEF Spec

(* _login_success: a login after a brute force has an alert that names its *)
(* address and user, though the failures came hours before or were too     *)
(* slow for BEH-BRUTEFORCE, and though such an alert was just deduplicated.*)
THEOREM IntrusionsAreReported == Spec => []IntrusionReported
<1> DEFINE IInv == AttackInv /\ IntrusionReported
<1>1. Init => IInv
  BY InitAttack
<1>2. IInv /\ SafetyInv /\ [Next]_vars => IInv'
  BY DetectionAssumption, AttackStep, IntrusionReportedStep DEF SafetyInv
<1>3. QED
  BY <1>1, <1>2, InvariantSafety, PTL DEF Spec

=============================================================================
