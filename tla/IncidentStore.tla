--------------------------- MODULE IncidentStore ---------------------------
(***************************************************************************)
(* Correlation, one SQL statement at a time, on the same tables.           *)
(* Storage.execute commits each statement; add_alert reads the incidents   *)
(* once and then issues a list of writes.  Its locks keep other alerts     *)
(* out, but neither the console's set_incident_status, which reads an      *)
(* incident and writes its whole body back, nor the end of the process     *)
(* between two of the writes.  StoreSpec is the specification; that of     *)
(* Correlation is what it implements.                                      *)
(*                                                                         *)
(* An operator named X_Y is not used by the specification: it is X with    *)
(* the mistake Y, and shows that a property of X would notice it.          *)
(***************************************************************************)
EXTENDS Correlation

VARIABLE todo \* the writes add_alert still has to issue, in order

storeVars == <<vars, todo>>

-----------------------------------------------------------------------------
(* The writes: an UPDATE of an alert's incident, an INSERT OR REPLACE of   *)
(* an incident or of an alert, and an INSERT of a command.                 *)
Link(x, i)   == [op |-> "link", alert |-> x, id |-> i]
Put(i, body) == [op |-> "put", id |-> i, body |-> body]
Add(x, i)    == [op |-> "add", alert |-> x, id |-> i]
Isolate(h)   == [op |-> "isolate", host |-> h]

MapSeq(s, Op(_)) == [k \in DOMAIN s |-> Op(s[k])]

\* process(), then add_alert, in the order of the code.
Writes_TargetLast(o, a) ==
  <<Add(a, o.id)>> \o MapSeq(o.extra, LAMBDA x : Add(x, o.id)) \o <<Put(o.id, o.final)>>

Writes_IsolateFirst(o, a) ==
  <<Put(o.id, o.final), Add(a, o.id)>>
  \o FlattenSeq(MapSeq(o.extra, LAMBDA x : <<Isolate(a.host), Add(x, o.id)>>))

Writes_UnsavedExtra(o, a) ==
  <<Put(o.id, o.body), Add(a, o.id)>> \o MapSeq(o.extra, LAMBDA x : Add(x, o.id))

Writes(o, a) ==
  LET other  == incidents[o.other]
      merge  == IF o.other = NoIncident THEN << >>
                ELSE Append(MapSeq(other.alert_ids, LAMBDA x : Link(x, o.id)),
                            Put(o.other, MergedAway(other, o.id)))
      target == IF o.extra = << >> THEN <<Put(o.id, o.body)>>
                ELSE <<Put(o.id, o.body), Put(o.id, o.final)>>
      extra(x) == IF AutoIsolate THEN <<Add(x, o.id), Isolate(a.host)>> ELSE <<Add(x, o.id)>>
  IN merge \o target \o <<Add(a, o.id)>> \o FlattenSeq(MapSeq(o.extra, extra))

\* The tables [incidents, alerts, commands] after a write w.
Apply(t, w) ==
  CASE w.op = "link" ->
         [t EXCEPT !.alerts = [x \in DOMAIN @ |-> IF x = w.alert
                                 THEN [@[x] EXCEPT !.incident = w.id] ELSE @[x]]]
    [] w.op = "put" ->
         [t EXCEPT !.incidents = [i \in DOMAIN @ \cup {w.id} |->
                                    IF i = w.id THEN w.body ELSE @[i]]]
    [] w.op = "add" ->
         [t EXCEPT !.alerts = [x \in DOMAIN @ \cup {w.alert} |->
                                 IF x = w.alert THEN [incident |-> w.id, status |-> "open"]
                                 ELSE @[x]]]
    [] w.op = "isolate" -> [t EXCEPT !.commands[w.host] = @ + 1]

Tables == [incidents |-> incidents, alerts |-> alerts, commands |-> commands]

-----------------------------------------------------------------------------
StoreInit == Init /\ todo = << >>

(* ServerCore.add_alert takes its lock, and process() reads the open       *)
(* incidents and decides.                                                  *)
Begin(a) ==
  /\ todo = << >>
  /\ Arrive(a)
  /\ \/ /\ a.sev = Info
        /\ todo' = <<Add(a, NoIncident)>>
     \/ /\ a.sev # Info
        /\ \E o \in Outcomes(incidents, a, processed + 1, clock) : todo' = Writes(o, a)
  /\ UNCHANGED tables

Write ==
  /\ todo # << >>
  /\ LET t == Apply(Tables, Head(todo)) IN
       incidents' = t.incidents /\ alerts' = t.alerts /\ commands' = t.commands
  /\ todo' = Tail(todo)
  /\ UNCHANGED <<clock, processed, edits, console, crashes, history>>

\* A status change that starts between two writes of an add_alert overlaps it too.
StoreRead(i, s) ==
  /\ ReadIncident(i, s)
  /\ overlapped' = (overlapped \/ todo # << >>)
  /\ UNCHANGED todo

\* The other statements of a status change.
StoreConsole == (ConsolePut \/ ConsoleQuery \/ ConsoleAlert) /\ UNCHANGED todo

\* The incidents that have alerts they do not list: their merge is half done.
HalfMerged == {i \in DOMAIN incidents : ~(StoredUnder(i) \subseteq Listed(i))}

(* The server process ends and is started again: the statements already    *)
(* committed remain.  The agent got no answer and delivers again.          *)
Crash ==
  /\ todo # << >> \/ console # Idle
  /\ ServerEnds(HalfMerged)
  /\ todo' = << >>

\* Statements take no time: the clock moves between them only when idle.
StoreTick ==
  /\ todo = << >>
  /\ Tick
  /\ UNCHANGED todo

StoreNext ==
  \/ \E a \in AgentAlerts : Begin(a)
  \/ Write
  \/ \E i \in DOMAIN incidents, s \in Statuses : StoreRead(i, s)
  \/ StoreConsole
  \/ Crash
  \/ StoreTick

StoreSpec == StoreInit /\ [][StoreNext]_storeVars

-----------------------------------------------------------------------------
(* A crash between any two statements leaves every stored alert on the     *)
(* list of some incident; only a status change that overlapped an          *)
(* add_alert, and wrote back the body it had read, makes one forgotten.    *)
NothingForgotten ==
  ~overlapped =>
    \A x \in DOMAIN alerts :
      alerts[x].incident # NoIncident => \E i \in DOMAIN incidents : x \in Listed(i)

(* An automatic isolation is backed by a stored correlation alert of that  *)
(* host, even if the server stopped right after queueing it.               *)
IsolationsExplained ==
  \A h \in Hosts :
    commands[h] <= Cardinality({x \in DOMAIN alerts : x.about # NoIncident /\ x.host = h})

(* The tables t after the writes of the list l, in order; a state stands   *)
(* for the tables with the writes that are still to come.                  *)
ApplyAll(t, l) ==
  LET f[k \in 0..Len(l)] == IF k = 0 THEN t ELSE Apply(f[k - 1], l[k]) IN f[Len(l)]

Settled == ApplyAll(Tables, todo)

Atomic == INSTANCE Correlation WITH
  incidents <- Settled.incidents, alerts <- Settled.alerts, commands <- Settled.commands

(* Until a restart, or a status change that overlaps an add_alert, the     *)
(* statements of add_alert implement its one step in Correlation, taken    *)
(* when the writes are decided on.                                         *)
ImplementsCorrelation ==
  Atomic!Init /\ [][~overlapped' /\ crashes' = 0 => Atomic!Next]_(Atomic!vars)

=============================================================================
