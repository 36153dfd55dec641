------------------------------ MODULE Session ------------------------------
(***************************************************************************)
(* How an agent registers and is recognised (transport.py: HttpTransport;  *)
(* agent.py: _register, flush, heartbeat, run_command, start; server/api.py*)
(* _dispatch; server/core.py: register, agent_for_token; storage.py: table *)
(* agents).  The threads of the agent share its token and its flag         *)
(* connected without a lock; the server runs each request in a thread of   *)
(* its own, one SQL statement at a time, and goes on with one that the     *)
(* agent has given up.  No other agent has the host name of this one.      *)
(*                                                                         *)
(* An operator named X_Y is not used by the specification: it is X with    *)
(* the mistake Y, and shows that a property of X would notice it.          *)
(***************************************************************************)
EXTENDS Integers, FiniteSets

CONSTANT MaxFaults \* bound: requests that the agent gives up, and restarts

ASSUME SessionAssumption == MaxFaults \in Nat

\* The thread that starts the agent registers it once; then the others begin.
Threads == {"main", "shipper", "heartbeat"}

VARIABLES
  rows,      \* table agents, the rows of this host name: [id, token]
  token,     \* HttpTransport.token; 0 for None
  connected, \* Agent.connected
  thread,    \* what the threads of the agent are doing: [pc, kind], see below
  requests,  \* the threads of the server
  faults,
  overlapped, \* history: two registrations were under way at once
  raced       \* history: ... while the table had no row of the host

vars == <<rows, token, connected, thread, requests, faults, overlapped, raced>>

-----------------------------------------------------------------------------
(* A turn of a thread: it registers if the agent is not connected, then    *)
(* sends what it has to send, of the kind "events", "heartbeat" or         *)
(* "result"; pc is where it is in it, "ended" for the main thread.         *)
At(pc, kind) == [pc |-> pc, kind |-> kind]
Kinds == [main |-> "start", shipper |-> "events", heartbeat |-> "heartbeat"]
Fresh == [k \in Threads |-> At("rest", Kinds[k])]

(* A request: who sent it, with which token, and what the server found so  *)
(* far; "no" tells those apart that were given up.                         *)
Request(k, kind, t) ==
  [no |-> 0, by |-> k, kind |-> kind, token |-> t, awaited |-> TRUE,
   pc |-> IF kind = "register" THEN "byToken" ELSE "auth", id |-> 0]
GivenUp(r) ==
  [r EXCEPT !.awaited = FALSE,
            !.no = CHOOSE n \in 1..Cardinality(requests) :
                     \A q \in requests : q.by = r.by => q.no # n]

\* secrets.token_urlsafe and new_id: a value that nobody has.
TokensInUse == {r.token : r \in rows} \cup {r.token : r \in requests} \cup {token}
NewToken == CHOOSE t \in 1..(Cardinality(TokensInUse) + 1) : t \notin TokensInUse
IdsInUse == {r.id : r \in rows} \cup {r.id : r \in requests}
NewId == CHOOSE i \in 1..(Cardinality(IdsInUse) + 1) : i \notin IdsInUse

Init ==
  /\ rows = {}
  /\ token = 0
  /\ connected = FALSE
  /\ thread = Fresh
  /\ requests = {}
  /\ faults = 0
  /\ overlapped = FALSE
  /\ raced = FALSE

Moves(k, w) == thread' = [thread EXCEPT ![k] = w]
Goes(k, pc) == Moves(k, At(pc, thread[k].kind))
Registrations == {r \in requests : r.kind = "register"}

\* flush, heartbeat and start: the turn begins.
Begin(k) ==
  /\ thread[k].pc = "rest"
  /\ k # "main" => thread["main"].pc = "ended"
  /\ IF connected
     THEN /\ Goes(k, "send")
          /\ UNCHANGED <<requests, overlapped, raced>>
     ELSE /\ Goes(k, "registering")
          /\ requests' = requests \cup {Request(k, "register", token)}
          /\ overlapped' = (overlapped \/ Registrations # {})
          /\ raced' = (raced \/ (Registrations # {} /\ rows = {}))
  /\ UNCHANGED <<rows, token, connected, faults>>

-----------------------------------------------------------------------------
(* The server.                                                             *)
Becomes(r, s) == requests' = (requests \ {r}) \cup {s}
ServerOnly == UNCHANGED <<token, connected, thread, faults, overlapped, raced>>

ByToken_Ignored(r) ==
  /\ r.pc = "byToken"
  /\ Becomes(r, [r EXCEPT !.pc = "byName"])
  /\ UNCHANGED rows /\ ServerOnly

\* register: the row that has the token ...
ByToken(r) ==
  /\ r.pc = "byToken"
  /\ \/ \E row \in rows : /\ row.token = r.token
                          /\ Becomes(r, [r EXCEPT !.pc = "upsert", !.id = row.id])
     \/ /\ \A row \in rows : row.token # r.token
        /\ Becomes(r, [r EXCEPT !.pc = "byName"])
  /\ UNCHANGED rows /\ ServerOnly

ByName_Ignored(r) ==
  /\ r.pc = "byName"
  /\ Becomes(r, [r EXCEPT !.pc = "upsert", !.id = NewId, !.token = NewToken])
  /\ UNCHANGED rows /\ ServerOnly

\* ... or else one of the host name, or else a new one, and a new token ...
ByName(r) ==
  /\ r.pc = "byName"
  /\ \E i \in IF rows = {} THEN {NewId} ELSE {row.id : row \in rows} :
       Becomes(r, [r EXCEPT !.pc = "upsert", !.id = i, !.token = NewToken])
  /\ UNCHANGED rows /\ ServerOnly

\* ... upsert_agent.
Upsert(r) ==
  /\ r.pc = "upsert"
  /\ rows' = {row \in rows : row.id # r.id} \cup {[id |-> r.id, token |-> r.token]}
  /\ Becomes(r, [r EXCEPT !.pc = "answer"])
  /\ ServerOnly

\* _dispatch, agent_for_token: the request is handled, or it is answered 401.
Auth(r) ==
  /\ r.pc = "auth"
  /\ Becomes(r, [r EXCEPT !.pc = IF \E row \in rows : row.token = r.token
                                 THEN "accepted" ELSE "refused"])
  /\ UNCHANGED rows /\ ServerOnly

-----------------------------------------------------------------------------
(* The answers, and the rest of the turn.                                  *)
Answered(r) ==
  /\ r.pc \in {"answer", "accepted", "refused"}
  /\ requests' = requests \ {r}
  /\ UNCHANGED <<rows, faults, overlapped, raced>>

\* HttpTransport.register: the token of the answer is the agent's.
Registered(r) ==
  /\ r.awaited /\ r.pc = "answer" /\ Answered(r)
  /\ token' = r.token
  /\ Goes(r.by, "registered")
  /\ UNCHANGED connected

(* The other answers: flush sends more or is done, and heartbeat goes      *)
(* through the commands that it got and sends the result of each.          *)
Accepted(r) ==
  /\ r.awaited /\ r.pc = "accepted" /\ Answered(r)
  /\ \/ /\ Moves(r.by, At("send", IF r.kind = "events" THEN "events" ELSE "result"))
        /\ UNCHANGED connected
     \/ /\ Moves(r.by, Fresh[r.by])
        /\ connected' = (connected \/ r.kind = "events")
  /\ UNCHANGED token

\* The end of a request that raises TransportError.  Only run_command goes on.
Raises(k) == IF thread[k].kind = "result" THEN Moves(k, Fresh[k]) ELSE Goes(k, "failed")

\* HttpTransport._post: 401 clears the token, whichever it is by now.
Refused(r) ==
  /\ r.awaited /\ r.pc = "refused" /\ Answered(r)
  /\ token' = 0
  /\ Raises(r.by)
  /\ UNCHANGED connected

\* Nobody waits for the answer.
Unheard(r) ==
  /\ ~r.awaited /\ Answered(r)
  /\ UNCHANGED <<token, connected, thread>>

AgentOnly == UNCHANGED <<rows, token, faults, overlapped, raced>>

\* _register sets the flag; the main thread has done what it had to do.
SetConnected(k) ==
  /\ thread[k].pc = "registered"
  /\ connected' = TRUE
  /\ Goes(k, IF k = "main" THEN "ended" ELSE "send")
  /\ UNCHANGED requests /\ AgentOnly

\* _ensure ...
Ensure(k) ==
  /\ thread[k].pc = "send"
  /\ IF token # 0 THEN Goes(k, "post") ELSE Raises(k)
  /\ UNCHANGED <<connected, requests>> /\ AgentOnly

\* ... and the request itself, which reads the token again.
Post(k) ==
  /\ thread[k].pc = "post"
  /\ requests' = requests \cup {Request(k, thread[k].kind, token)}
  /\ Goes(k, "asking")
  /\ UNCHANGED connected /\ AgentOnly

Failed_StaysConnected(k) ==
  /\ thread[k].pc = "failed"
  /\ Goes(k, IF k = "main" THEN "ended" ELSE "rest")
  /\ UNCHANGED <<connected, requests>> /\ AgentOnly

\* except TransportError; start only logs it.
Failed(k) ==
  /\ thread[k].pc = "failed"
  /\ connected' = (connected /\ k = "main")
  /\ Goes(k, IF k = "main" THEN "ended" ELSE "rest")
  /\ UNCHANGED requests /\ AgentOnly

(* The agent gives up a request, after its timeout or because it cannot    *)
(* reach the server: the request may have come there all the same.         *)
GiveUp(r) ==
  /\ r.awaited
  /\ faults < MaxFaults
  /\ faults' = faults + 1
  /\ \/ Becomes(r, GivenUp(r))
     \/ r.pc \in {"byToken", "auth"} /\ requests' = requests \ {r}
  /\ Raises(r.by)
  /\ UNCHANGED <<rows, token, connected, overlapped, raced>>

\* The agent is started again: it has no token.
RestartAgent ==
  /\ faults < MaxFaults
  /\ faults' = faults + 1
  /\ token' = 0
  /\ connected' = FALSE
  /\ thread' = Fresh
  /\ requests' = {IF r.awaited THEN GivenUp(r) ELSE r : r \in requests}
  /\ UNCHANGED <<rows, overlapped, raced>>

\* The server is started again, with its table: every request fails.
RestartServer ==
  /\ faults < MaxFaults
  /\ faults' = faults + 1
  /\ requests' = {}
  /\ thread' = [k \in Threads |->
       CASE thread[k].pc \notin {"registering", "asking"} -> thread[k]
         [] thread[k].kind = "result" -> Fresh[k]
         [] OTHER -> At("failed", thread[k].kind)]
  /\ UNCHANGED <<rows, token, connected, overlapped, raced>>

Serve(r) ==
  \/ ByToken(r) \/ ByName(r) \/ Upsert(r) \/ Auth(r)
  \/ Registered(r) \/ Accepted(r) \/ Refused(r) \/ Unheard(r)

Turn(k) == Begin(k) \/ SetConnected(k) \/ Ensure(k) \/ Post(k) \/ Failed(k)

Next ==
  \/ \E k \in Threads : Begin(k)
  \/ \E k \in Threads : SetConnected(k)
  \/ \E k \in Threads : Ensure(k)
  \/ \E k \in Threads : Post(k)
  \/ \E k \in Threads : Failed(k)
  \/ \E r \in requests : ByToken(r)
  \/ \E r \in requests : ByName(r)
  \/ \E r \in requests : Upsert(r)
  \/ \E r \in requests : Auth(r)
  \/ \E r \in requests : Registered(r)
  \/ \E r \in requests : Accepted(r)
  \/ \E r \in requests : Refused(r)
  \/ \E r \in requests : Unheard(r)
  \/ \E r \in requests : GiveUp(r)
  \/ RestartAgent
  \/ RestartServer

\* Every thread of the agent has its turns, every thread of the server goes on.
Fairness ==
  \A k \in Threads :
    /\ WF_vars(Turn(k))
    /\ \A n \in 0..MaxFaults : WF_vars(\E r \in requests : r.by = k /\ r.no = n /\ Serve(r))

Spec == Init /\ [][Next]_vars /\ Fairness

-----------------------------------------------------------------------------
\* A host has one row, under whose id it is heard and gets its commands,
\* however often its agent starts or registers again.  Only two registrations
\* at once, while it has none, can give it two.
OneRow == raced \/ Cardinality(rows) <= 1

\* The agent is never refused, unless two of its registrations were under way
\* at once: then the token that it got last need not be the one that the server
\* stored last.
RefusedAfterOverlap ==
  \A r \in requests : (r.pc = "refused" /\ r.awaited) => overlapped

Heard == \E r \in requests : r.pc = "accepted"
Overlapping == \E r \in Registrations, q \in requests : q # r

(* The server hears the agent again and again, whatever was lost or        *)
(* refused, unless a thread registers while the other's request is under   *)
(* way, again and again: they can take each other's token away for ever.   *)
HeardAgain == []<>Heard \/ []<>Overlapping

=============================================================================
