--------------------------- MODULE SessionProofs ---------------------------
(***************************************************************************)
(* A host has one row and an agent is refused only after two of its        *)
(* registrations overlapped, for any number of faults.                     *)
(***************************************************************************)
EXTENDS Session, FiniteSetTheorems, TLAPS

RegisterPcs == {"byToken", "byName", "upsert", "answer"}
RequestPcs == RegisterPcs \cup {"auth", "accepted", "refused"}
ThreadPcs == {"rest", "registering", "registered", "send", "post", "asking", "failed", "ended"}
ThreadKinds == {"start", "events", "heartbeat", "result"}

\* Neither the tokens, nor the ids, nor the number matter here.
IsRequest(r) ==
  /\ r = [no |-> r.no, by |-> r.by, kind |-> r.kind, token |-> r.token,
          awaited |-> r.awaited, pc |-> r.pc, id |-> r.id]
  /\ r.by \in Threads /\ r.awaited \in BOOLEAN /\ r.pc \in RequestPcs
  /\ r.kind = "register" <=> r.pc \in RegisterPcs

TypeInv ==
  /\ \A r \in requests : IsRequest(r)
  /\ thread \in [Threads -> [pc : ThreadPcs, kind : ThreadKinds]]
  /\ overlapped \in BOOLEAN /\ raced \in BOOLEAN

OneRegistration == \A q, r \in Registrations : q = r

(* While the table has no row, only one registration is there to make one; *)
(* then every one is about that row.                                       *)
RowInv ==
  ~raced =>
    /\ \A p, q \in rows : p = q
    /\ rows = {} => OneRegistration
    /\ \A r \in requests, row \in rows : r.pc = "upsert" => r.id = row.id

Known(t) == \E row \in rows : row.token = t

(* While no two registrations were under way at once: the token of the     *)
(* agent is in the table, the only registration there is keeps it, and     *)
(* what the agent asks goes with it.                                       *)
TokenInv ==
  ~overlapped =>
    /\ OneRegistration
    /\ token # 0 => Known(token)
    /\ \A k \in Threads : thread[k].pc = "post" => token # 0
    /\ \A r \in requests :
         /\ r.kind = "register" /\ token # 0 => r.token = token
         /\ r.pc = "byName" => token = 0
         /\ r.pc = "answer" => Known(r.token)
         /\ r.awaited /\ r.kind # "register" =>
              token # 0 /\ r.token = token /\ r.pc # "refused"

IInv == TypeInv /\ RowInv /\ TokenInv

-----------------------------------------------------------------------------
(* What the operators on requests return.                                  *)

LEMMA Given ==
  ASSUME NEW r, IsRequest(r)
  PROVE  /\ IsRequest(GivenUp(r))
         /\ GivenUp(r).kind = r.kind /\ GivenUp(r).pc = r.pc /\ GivenUp(r).id = r.id
         /\ GivenUp(r).token = r.token /\ GivenUp(r).awaited = FALSE
<1> DEFINE n == CHOOSE m \in 1..Cardinality(requests) : \A q \in requests : q.by = r.by => q.no # m
<1>1. GivenUp(r) = [r EXCEPT !.awaited = FALSE, !.no = n]
  BY DEF GivenUp
<1> HIDE DEF n
<1>2. GivenUp(r) = [no |-> n, by |-> r.by, kind |-> r.kind, token |-> r.token,
                    awaited |-> FALSE, pc |-> r.pc, id |-> r.id]
  BY <1>1 DEF IsRequest
<1>3. QED
  BY <1>2 DEF IsRequest

LEMMA NewRequest ==
  ASSUME NEW k \in Threads, NEW kind, NEW t
  PROVE  /\ IsRequest(Request(k, kind, t))
         /\ Request(k, kind, t).kind = kind /\ Request(k, kind, t).token = t
         /\ Request(k, kind, t).pc = IF kind = "register" THEN "byToken" ELSE "auth"
BY DEF Request, IsRequest, RequestPcs, RegisterPcs

\* A request that goes on.
Onward(r, pc, i, t) == [r EXCEPT !.pc = pc, !.id = i, !.token = t]

LEMMA GoesOn ==
  ASSUME NEW r, IsRequest(r), NEW pc \in RequestPcs, NEW i, NEW t,
         r.pc \in RegisterPcs <=> pc \in RegisterPcs,
         NEW s, s = Onward(r, pc, i, t)
  PROVE  /\ IsRequest(s)
         /\ s.kind = r.kind /\ s.pc = pc /\ s.id = i /\ s.token = t /\ s.awaited = r.awaited
<1>1. PICK no, by, kind, token0, awaited, pc0, id :
        r = [no |-> no, by |-> by, kind |-> kind, token |-> token0,
             awaited |-> awaited, pc |-> pc0, id |-> id]
  BY Zenon DEF IsRequest
<1>2. s = [no |-> no, by |-> by, kind |-> kind, token |-> t,
           awaited |-> awaited, pc |-> pc, id |-> i]
  BY <1>1 DEF Onward
<1>3. /\ s.kind = r.kind /\ s.pc = pc /\ s.id = i /\ s.token = t /\ s.awaited = r.awaited
      /\ s.by = r.by /\ s.no = r.no
  BY <1>1, <1>2
<1>4. s.kind = "register" <=> s.pc \in RegisterPcs
  BY <1>3 DEF IsRequest
<1>5. s = [no |-> s.no, by |-> s.by, kind |-> s.kind, token |-> s.token,
           awaited |-> s.awaited, pc |-> s.pc, id |-> s.id]
  BY <1>2
<1>6. QED
  BY <1>3, <1>4, <1>5 DEF IsRequest

-----------------------------------------------------------------------------
(* The steps of the server by what they make of a request.                 *)
Advances(r, s) ==
  /\ r \in requests /\ requests' = (requests \ {r}) \cup {s}
  /\ IsRequest(s) /\ s.kind = r.kind /\ s.awaited = r.awaited

LEMMA ByTokenEffect ==
  ASSUME TypeInv, NEW r \in requests, ByToken(r)
  PROVE  \E s : /\ Advances(r, s) /\ s.token = r.token
                /\ \/ s.pc = "upsert" /\ \E row \in rows : s.id = row.id
                   \/ s.pc = "byName" /\ ~Known(r.token)
<1>0. r.pc \in RegisterPcs /\ {"upsert", "byName"} \subseteq RegisterPcs \cap RequestPcs
  BY DEF ByToken, RequestPcs, RegisterPcs
<1>1. IsRequest(r) /\ r.pc = "byToken"
  BY DEF TypeInv, ByToken
<1>2. CASE \E row \in rows : Becomes(r, [r EXCEPT !.pc = "upsert", !.id = row.id])
  <2>1. PICK row \in rows : Becomes(r, [r EXCEPT !.pc = "upsert", !.id = row.id])
    BY <1>2
  <2>2. [r EXCEPT !.pc = "upsert", !.id = row.id]
          = Onward(r, "upsert", row.id, r.token)
    BY <1>1 DEF IsRequest, Onward
  <2>3. PICK s : s = Onward(r, "upsert", row.id, r.token)
    OBVIOUS
  <2>4. /\ IsRequest(s) /\ s.kind = r.kind /\ s.pc = "upsert" /\ s.id = row.id
        /\ s.token = r.token /\ s.awaited = r.awaited
    BY <1>1, <1>0, <2>3, GoesOn
  <2>5. QED
    BY <2>1, <2>2, <2>3, <2>4 DEF Advances, Becomes
<1>3. CASE /\ \A row \in rows : row.token # r.token
           /\ Becomes(r, [r EXCEPT !.pc = "byName"])
  <2>1. [r EXCEPT !.pc = "byName"] = Onward(r, "byName", r.id, r.token)
    BY <1>1 DEF IsRequest, Onward
  <2>2. PICK s : s = Onward(r, "byName", r.id, r.token)
    OBVIOUS
  <2>3. /\ IsRequest(s) /\ s.kind = r.kind /\ s.pc = "byName"
        /\ s.token = r.token /\ s.awaited = r.awaited
    BY <1>1, <1>0, <2>2, GoesOn
  <2>4. QED
    BY <1>3, <2>1, <2>2, <2>3 DEF Advances, Becomes, Known
<1>4. QED
  BY <1>2, <1>3 DEF ByToken

LEMMA ByNameEffect ==
  ASSUME TypeInv, NEW r \in requests, ByName(r)
  PROVE  \E s : /\ Advances(r, s) /\ s.pc = "upsert"
                /\ rows # {} => \E row \in rows : s.id = row.id
<1>0. r.pc \in RegisterPcs /\ {"upsert"} \subseteq RegisterPcs \cap RequestPcs
  BY DEF ByName, RequestPcs, RegisterPcs
<1>1. IsRequest(r) /\ r.pc = "byName"
  BY DEF TypeInv, ByName
<1>2. PICK i \in IF rows = {} THEN {NewId} ELSE {row.id : row \in rows} :
        Becomes(r, [r EXCEPT !.pc = "upsert", !.id = i, !.token = NewToken])
  BY DEF ByName
<1> PICK s : s = Onward(r, "upsert", i, NewToken)
  OBVIOUS
<1>3. IsRequest(s) /\ s.kind = r.kind /\ s.pc = "upsert" /\ s.id = i /\ s.awaited = r.awaited
  BY <1>1, <1>0, GoesOn
<1>4. rows # {} => \E row \in rows : i = row.id
  BY <1>2
<1>5. QED
  BY <1>2, <1>3, <1>4 DEF Advances, Becomes, Onward

LEMMA UpsertEffect ==
  ASSUME TypeInv, NEW r \in requests, Upsert(r)
  PROVE  \E s : Advances(r, s) /\ s.pc = "answer" /\ s.token = r.token
<1>0. r.pc \in RegisterPcs /\ {"answer"} \subseteq RegisterPcs \cap RequestPcs
  BY DEF Upsert, RequestPcs, RegisterPcs
<1>1. IsRequest(r) /\ r.pc = "upsert"
  BY DEF TypeInv, Upsert
<1>2. [r EXCEPT !.pc = "answer"] = Onward(r, "answer", r.id, r.token)
  BY <1>1 DEF IsRequest, Onward
<1> PICK s : s = Onward(r, "answer", r.id, r.token)
  OBVIOUS
<1>3. /\ IsRequest(s) /\ s.kind = r.kind /\ s.pc = "answer"
      /\ s.token = r.token /\ s.awaited = r.awaited
  BY <1>1, <1>0, GoesOn
<1>4. QED
  BY <1>2, <1>3 DEF Advances, Becomes, Upsert

LEMMA AuthEffect ==
  ASSUME TypeInv, NEW r \in requests, Auth(r)
  PROVE  \E s : /\ Advances(r, s) /\ s.token = r.token /\ s.pc \in {"accepted", "refused"}
                /\ s.pc = "refused" => ~Known(r.token)
<1>0. /\ r.pc \notin RegisterPcs
      /\ {"accepted", "refused"} \subseteq RequestPcs \ RegisterPcs
  BY DEF Auth, RequestPcs, RegisterPcs
<1>1. IsRequest(r) /\ r.pc = "auth"
  BY DEF TypeInv, Auth
<1> DEFINE pc == IF \E row \in rows : row.token = r.token THEN "accepted" ELSE "refused"
<1>2. Becomes(r, [r EXCEPT !.pc = pc])
  BY DEF Auth
<1>3. pc \in {"accepted", "refused"} /\ (pc = "refused" => ~Known(r.token))
  BY DEF Known
<1> HIDE DEF pc
<1>4. [r EXCEPT !.pc = pc] = Onward(r, pc, r.id, r.token)
  BY <1>1 DEF IsRequest, Onward
<1> PICK s : s = Onward(r, pc, r.id, r.token)
  OBVIOUS
<1>5. /\ IsRequest(s) /\ s.kind = r.kind /\ s.pc = pc
      /\ s.token = r.token /\ s.awaited = r.awaited
  BY <1>1, <1>3, <1>0, GoesOn
<1>6. QED
  BY <1>2, <1>3, <1>4, <1>5 DEF Advances, Becomes

LEMMA RestartAgentEffect ==
  ASSUME TypeInv, RestartAgent, NEW q \in requests'
  PROVE  \E r \in requests :
           /\ q.kind = r.kind /\ q.pc = r.pc /\ q.id = r.id /\ q.token = r.token
           /\ q.awaited = FALSE /\ IsRequest(q)
           /\ q = IF r.awaited THEN GivenUp(r) ELSE r
<1>1. PICK r \in requests : q = IF r.awaited THEN GivenUp(r) ELSE r
  BY DEF RestartAgent
<1>2. IsRequest(r) /\ r.awaited \in BOOLEAN
  BY DEF TypeInv, IsRequest
<1>3. CASE r.awaited
  BY <1>1, <1>2, <1>3, Given
<1>4. CASE ~r.awaited
  BY <1>1, <1>2, <1>4
<1>5. QED
  BY <1>3, <1>4

LEMMA OneGoesOn ==
  ASSUME NEW r, NEW s, r \in requests, requests' = (requests \ {r}) \cup {s},
         s.kind = r.kind, OneRegistration
  PROVE  OneRegistration'
BY DEF OneRegistration, Registrations

LEMMA FewerRegistrations ==
  ASSUME requests' \subseteq requests, OneRegistration
  PROVE  OneRegistration'
BY DEF OneRegistration, Registrations

-----------------------------------------------------------------------------
(* Types.                                                                  *)

LEMMA TypeMoves ==
  ASSUME TypeInv, NEW k \in Threads, NEW w \in [pc : ThreadPcs, kind : ThreadKinds], Moves(k, w)
  PROVE  thread' \in [Threads -> [pc : ThreadPcs, kind : ThreadKinds]]
BY DEF TypeInv, Moves

LEMMA TypeGoes ==
  ASSUME TypeInv, NEW k \in Threads, NEW pc \in ThreadPcs
  PROVE  /\ At(pc, thread[k].kind) \in [pc : ThreadPcs, kind : ThreadKinds]
         /\ Fresh \in [Threads -> [pc : ThreadPcs, kind : ThreadKinds]]
BY DEF TypeInv, At, Fresh, Kinds, Threads, ThreadPcs, ThreadKinds

LEMMA TypeStep ==
  ASSUME TypeInv, [Next]_vars
  PROVE  TypeInv'
<1> DEFINE ThreadType == [Threads -> [pc : ThreadPcs, kind : ThreadKinds]]
<1>1. ASSUME NEW k \in Threads, Turn(k)
      PROVE  TypeInv'
  <2>1. ASSUME NEW pc \in ThreadPcs, Goes(k, pc)
        PROVE  thread' \in ThreadType
    BY <2>1, TypeMoves, TypeGoes DEF Goes
  <2>2. ASSUME Raises(k) PROVE thread' \in ThreadType
    BY <2>2, <2>1, TypeMoves, TypeGoes DEF Raises, ThreadPcs
  <2>3. thread' \in ThreadType
    BY <1>1, <2>1, <2>2 DEF Turn, Begin, SetConnected, Ensure, Post, Failed, ThreadPcs
  <2>4. \A r \in requests' : IsRequest(r)
    BY <1>1, NewRequest DEF TypeInv, Turn, Begin, SetConnected, Ensure, Post, Failed
  <2>5. overlapped' \in BOOLEAN /\ raced' \in BOOLEAN
    BY <1>1 DEF TypeInv, Turn, Begin, SetConnected, Ensure, Post, Failed, AgentOnly
  <2>6. QED
    BY <2>3, <2>4, <2>5 DEF TypeInv
<1>2. ASSUME NEW r \in requests, ByToken(r) \/ ByName(r) \/ Upsert(r) \/ Auth(r)
      PROVE  TypeInv'
  <2>1. \E s : Advances(r, s)
    BY <1>2, ByTokenEffect, ByNameEffect, UpsertEffect, AuthEffect
  <2>2. UNCHANGED <<thread, overlapped, raced>>
    BY <1>2 DEF ByToken, ByName, Upsert, Auth, ServerOnly
  <2>3. QED
    BY <2>1, <2>2 DEF TypeInv, Advances
<1>3. ASSUME NEW r \in requests, Registered(r) \/ Accepted(r) \/ Refused(r) \/ Unheard(r) \/ GiveUp(r)
      PROVE  TypeInv'
  <2>1. r.by \in Threads /\ IsRequest(GivenUp(r))
    BY Given DEF TypeInv, IsRequest
  <2>2. ASSUME NEW pc \in ThreadPcs, NEW kind \in ThreadKinds, Moves(r.by, At(pc, kind))
        PROVE  thread' \in ThreadType
    BY <2>1, <2>2, TypeMoves DEF At
  <2>3. ASSUME Moves(r.by, Fresh[r.by])
        PROVE  thread' \in ThreadType
    BY <2>1, <2>3, TypeMoves, TypeGoes DEF ThreadPcs
  <2>4. ASSUME NEW pc \in ThreadPcs, Goes(r.by, pc)
        PROVE  thread' \in ThreadType
    BY <2>1, <2>4, TypeMoves, TypeGoes DEF Goes
  <2>5. ASSUME Raises(r.by) PROVE thread' \in ThreadType
    BY <2>3, <2>4, <2>5 DEF Raises, ThreadPcs
  <2>6. thread' \in ThreadType
    <3>1. CASE Accepted(r)
      BY <3>1, <2>2, <2>3 DEF Accepted, ThreadPcs, ThreadKinds
    <3>2. CASE Unheard(r)
      BY <3>2 DEF Unheard, TypeInv
    <3>3. QED
      BY <1>3, <3>1, <3>2, <2>4, <2>5 DEF Registered, Refused, GiveUp, ThreadPcs
  <2>7. \A q \in requests' : IsRequest(q)
    BY <1>3, <2>1
       DEF TypeInv, Registered, Accepted, Refused, Unheard, GiveUp, Answered, Becomes
  <2>8. overlapped' = overlapped /\ raced' = raced
    BY <1>3 DEF Registered, Accepted, Refused, Unheard, GiveUp, Answered
  <2>9. QED
    BY <2>6, <2>7, <2>8 DEF TypeInv
<1>4. CASE RestartAgent
  <2>1. Fresh \in ThreadType
    BY TypeGoes DEF Threads, ThreadPcs
  <2>2. \A q \in requests' : IsRequest(q)
    BY <1>4, RestartAgentEffect
  <2>3. QED
    BY <1>4, <2>1, <2>2 DEF RestartAgent, TypeInv
<1>5. CASE RestartServer
  <2>1. Fresh \in ThreadType
    BY TypeGoes DEF Threads, ThreadPcs
  <2>2. \A k \in Threads : At("failed", thread[k].kind) \in [pc : ThreadPcs, kind : ThreadKinds]
    BY TypeGoes DEF ThreadPcs
  <2>3. \A k \in Threads :
          (CASE thread[k].pc \notin {"registering", "asking"} -> thread[k]
             [] thread[k].kind = "result" -> Fresh[k]
             [] OTHER -> At("failed", thread[k].kind)) \in [pc : ThreadPcs, kind : ThreadKinds]
    BY <2>1, <2>2 DEF TypeInv
  <2>4. thread' \in ThreadType
    BY <1>5, <2>3 DEF RestartServer
  <2>5. QED
    BY <1>5, <2>4 DEF RestartServer, TypeInv
<1>6. CASE UNCHANGED vars
  BY <1>6 DEF vars, TypeInv
<1>7. QED
  BY <1>1, <1>2, <1>3, <1>4, <1>5, <1>6 DEF Next, Turn

-----------------------------------------------------------------------------
(* One row.                                                                *)

LEMMA RowStep ==
  ASSUME TypeInv, RowInv, [Next]_vars
  PROVE  RowInv'
<1> SUFFICES ASSUME ~raced'
             PROVE  RowInv'
  BY DEF RowInv
<1>0. \A r \in requests : IsRequest(r)
  BY DEF TypeInv
<1>1. ASSUME NEW k \in Threads, Begin(k)
      PROVE  RowInv'
  <2>1. CASE UNCHANGED <<requests, raced>>
    BY <1>1, <2>1 DEF Begin, RowInv, OneRegistration, Registrations
  <2>2. CASE /\ requests' = requests \cup {Request(k, "register", token)}
             /\ raced' = (raced \/ (Registrations # {} /\ rows = {}))
    <3>1. ~raced /\ (rows = {} => Registrations = {})
      BY <2>2 DEF TypeInv
    <3>2. rows' = rows
      BY <1>1 DEF Begin
    <3>3. rows' = {} => OneRegistration'
      BY <3>1, <3>2, <2>2 DEF OneRegistration, Registrations
    <3>4. Request(k, "register", token).pc = "byToken"
      BY NewRequest
    <3>5. QED
      BY <2>2, <3>1, <3>2, <3>3, <3>4 DEF RowInv
  <2>3. QED
    BY <1>1, <2>1, <2>2 DEF Begin
<1>2. ASSUME NEW r \in requests, NEW s, Advances(r, s), rows' = rows, raced' = raced,
             s.pc = "upsert" => rows = {} \/ \E row \in rows : s.id = row.id
      PROVE  RowInv'
  <2>1. rows' = {} => OneRegistration'
    BY <1>2, OneGoesOn DEF RowInv, Advances
  <2>2. \A q \in requests', row \in rows' : q.pc = "upsert" => q.id = row.id
    BY <1>2 DEF RowInv, Advances
  <2>3. QED
    BY <1>2, <2>1, <2>2 DEF RowInv
<1>3. ASSUME NEW r \in requests, ByToken(r) \/ ByName(r) \/ Auth(r)
      PROVE  RowInv'
  <2>1. rows' = rows /\ raced' = raced
    BY <1>3 DEF ByToken, ByName, Auth, ServerOnly
  <2>2. \E s : Advances(r, s) /\ (s.pc = "upsert" => rows = {} \/ \E row \in rows : s.id = row.id)
    BY <1>3, ByTokenEffect, ByNameEffect, AuthEffect
  <2>3. QED
    BY <1>2, <2>1, <2>2
<1>4. ASSUME NEW r \in requests, Upsert(r)
      PROVE  RowInv'
  <2>1. PICK s : Advances(r, s) /\ s.pc = "answer"
    BY <1>4, UpsertEffect
  <2> DEFINE new == [id |-> r.id, token |-> r.token]
  <2>2. raced' = raced /\ r.pc = "upsert" /\ rows' = {row \in rows : row.id # r.id} \cup {new}
    BY <1>4 DEF Upsert, ServerOnly
  <2>3. \A row \in rows : row.id = r.id
    BY <2>2 DEF RowInv
  <2>4. rows' = {new} /\ new.id = r.id
    BY <2>2, <2>3
  <2>5. \A q \in requests \ {r} : q.pc = "upsert" => q.id = r.id
    <3>1. SUFFICES ASSUME NEW q \in requests \ {r}, q.pc = "upsert" PROVE q.id = r.id
      OBVIOUS
    <3>2. q \in Registrations /\ r \in Registrations
      BY <1>0, <2>2, <3>1 DEF Registrations, IsRequest, RegisterPcs
    <3>3. rows # {}
      BY <3>1, <3>2, <2>2 DEF RowInv, OneRegistration
    <3>4. QED
      BY <3>1, <3>3, <2>2, <2>3 DEF RowInv
  <2>6. \A q \in requests', row \in rows' : q.pc = "upsert" => q.id = row.id
    BY <2>1, <2>4, <2>5 DEF Advances
  <2>7. QED
    BY <2>2, <2>4, <2>6 DEF RowInv
<1>5. ASSUME requests' \subseteq requests, rows' = rows, raced' = raced
      PROVE  RowInv'
  BY <1>5, FewerRegistrations DEF RowInv
<1>6. ASSUME NEW r \in requests, Registered(r) \/ Accepted(r) \/ Refused(r) \/ Unheard(r)
      PROVE  RowInv'
  BY <1>6, <1>5 DEF Registered, Accepted, Refused, Unheard, Answered
<1>7. ASSUME NEW r \in requests, GiveUp(r)
      PROVE  RowInv'
  <2>1. rows' = rows /\ raced' = raced
    BY <1>7 DEF GiveUp
  <2>2. CASE Becomes(r, GivenUp(r))
    <3>1. /\ requests' = (requests \ {r}) \cup {GivenUp(r)}
          /\ GivenUp(r).kind = r.kind /\ GivenUp(r).pc = r.pc /\ GivenUp(r).id = r.id
      BY <1>0, <2>2, Given DEF Becomes
    <3>2. rows' = {} => OneRegistration'
      BY <2>1, <3>1, OneGoesOn DEF RowInv
    <3>3. QED
      BY <2>1, <3>1, <3>2 DEF RowInv
  <2>3. QED
    BY <1>7, <1>5, <2>1, <2>2 DEF GiveUp
<1>8. CASE RestartAgent
  <2>1. \A q \in requests' : \E r \in requests :
          /\ q = IF r.awaited THEN GivenUp(r) ELSE r
          /\ q.kind = r.kind /\ q.pc = r.pc /\ q.id = r.id
    BY <1>8, RestartAgentEffect
  <2>2. OneRegistration => OneRegistration'
    BY <2>1 DEF OneRegistration, Registrations
  <2>3. rows' = rows /\ raced' = raced
    BY <1>8 DEF RestartAgent
  <2>4. QED
    BY <2>1, <2>2, <2>3 DEF RowInv
<1>9. CASE RestartServer
  BY <1>9, <1>5 DEF RestartServer
<1>10. ASSUME NEW k \in Threads, SetConnected(k) \/ Ensure(k) \/ Failed(k)
       PROVE  RowInv'
  BY <1>10, <1>5 DEF SetConnected, Ensure, Failed, AgentOnly
<1>11. ASSUME NEW k \in Threads, Post(k)
       PROVE  RowInv'
  <2>1. rows' = rows /\ raced' = raced /\ thread[k].kind # "register"
    BY <1>11 DEF Post, AgentOnly, TypeInv, ThreadKinds
  <2>2. PICK s : /\ requests' = requests \cup {s} /\ s.pc = "auth" /\ s.kind # "register"
    BY <1>11, <2>1, NewRequest DEF Post
  <2>3. OneRegistration => OneRegistration'
    BY <2>2 DEF OneRegistration, Registrations
  <2>4. QED
    BY <2>1, <2>2, <2>3 DEF RowInv
<1>12. CASE UNCHANGED vars
  BY <1>12, <1>5 DEF vars
<1>13. QED
  BY <1>1, <1>3, <1>4, <1>6, <1>7, <1>8, <1>9, <1>10, <1>11, <1>12 DEF Next

-----------------------------------------------------------------------------
(* The token.                                                              *)

LEMMA TokenStep ==
  ASSUME TypeInv, TokenInv, [Next]_vars
  PROVE  TokenInv'
<1> SUFFICES ASSUME ~overlapped'
             PROVE  TokenInv'
  BY DEF TokenInv
<1>0. \A r \in requests : IsRequest(r)
  BY DEF TypeInv
<1>1. ASSUME NEW k, NEW pc, k \in Threads, pc \in ThreadPcs \ {"post"}, Goes(k, pc)
      PROVE  \A j \in Threads : thread'[j].pc = "post" => thread[j].pc = "post"
  BY <1>1 DEF Goes, Moves, At, TypeInv
<1>2. ASSUME NEW k, k \in Threads, Raises(k)
      PROVE  \A j \in Threads : thread'[j].pc = "post" => thread[j].pc = "post"
  <2>1. Fresh[k].pc = "rest"
    BY <1>2 DEF Fresh, At
  <2>2. CASE Moves(k, Fresh[k])
    BY <2>1, <2>2 DEF Moves, TypeInv
  <2>3. QED
    BY <1>1, <1>2, <2>2 DEF Raises, ThreadPcs
<1>3. ASSUME NEW k \in Threads, Begin(k)
      PROVE  TokenInv'
  <2>1. /\ UNCHANGED <<rows, token>>
        /\ \A j \in Threads : thread'[j].pc = "post" => thread[j].pc = "post"
    BY <1>3, <1>1 DEF Begin, ThreadPcs
  <2>2. CASE UNCHANGED <<requests, overlapped>>
    BY <2>1, <2>2 DEF TokenInv, OneRegistration, Registrations, Known
  <2>3. CASE /\ requests' = requests \cup {Request(k, "register", token)}
             /\ overlapped' = (overlapped \/ Registrations # {})
    <3>1. PICK s : /\ requests' = requests \cup {s}
                   /\ s.kind = "register" /\ s.token = token /\ s.pc = "byToken"
      BY <2>3, NewRequest
    <3>2. ~overlapped /\ Registrations = {}
      BY <2>3 DEF TypeInv
    <3>3. OneRegistration'
      BY <3>1, <3>2 DEF OneRegistration, Registrations
    <3>4. QED
      BY <2>1, <3>1, <3>2, <3>3 DEF TokenInv, Known
  <2>4. QED
    BY <1>3, <2>2, <2>3 DEF Begin
<1>4. ASSUME NEW r \in requests, NEW s, Advances(r, s), UNCHANGED <<rows, token, thread, overlapped>>,
             s.kind = "register" /\ token # 0 => s.token = token,
             s.pc = "byName" => token = 0,
             s.pc # "answer",
             s.awaited /\ s.kind # "register" => token # 0 /\ s.token = token /\ s.pc # "refused"
      PROVE  TokenInv'
  <2>1. OneRegistration'
    BY <1>4, OneGoesOn DEF TokenInv, Advances
  <2>2. QED
    BY <1>4, <2>1 DEF TokenInv, Advances, Known
<1>5. ASSUME NEW r \in requests, ByToken(r)
      PROVE  TokenInv'
  <2>1. UNCHANGED <<rows, token, thread, overlapped>> /\ r.pc = "byToken"
    BY <1>5 DEF ByToken, ServerOnly
  <2>2. r.kind = "register"
    BY <1>0, <2>1 DEF IsRequest, RegisterPcs
  <2>3. PICK s : /\ Advances(r, s) /\ s.token = r.token
                 /\ s.pc = "upsert" \/ (s.pc = "byName" /\ ~Known(r.token))
    BY <1>5, ByTokenEffect
  <2>4. s.pc = "byName" => token = 0
    BY <2>1, <2>2, <2>3 DEF TokenInv
  <2>5. QED
    BY <1>4, <2>1, <2>2, <2>3, <2>4 DEF TokenInv, Advances
<1>6. ASSUME NEW r \in requests, ByName(r)
      PROVE  TokenInv'
  <2>1. UNCHANGED <<rows, token, thread, overlapped>> /\ r.pc = "byName"
    BY <1>6 DEF ByName, ServerOnly
  <2>2. r.kind = "register" /\ token = 0
    BY <1>0, <2>1 DEF IsRequest, RegisterPcs, TokenInv
  <2>3. PICK s : Advances(r, s) /\ s.pc = "upsert"
    BY <1>6, ByNameEffect
  <2>4. QED
    BY <1>4, <2>1, <2>2, <2>3 DEF Advances
<1>7. ASSUME NEW r \in requests, Upsert(r)
      PROVE  TokenInv'
  <2>1. /\ UNCHANGED <<token, thread, overlapped>> /\ r.pc = "upsert"
        /\ [id |-> r.id, token |-> r.token] \in rows'
    BY <1>7 DEF Upsert, ServerOnly
  <2>2. r \in Registrations
    BY <1>0, <2>1 DEF IsRequest, RegisterPcs, Registrations
  <2>3. PICK s : Advances(r, s) /\ s.pc = "answer" /\ s.token = r.token
    BY <1>7, UpsertEffect
  <2>4. Known(r.token)'
    BY <2>1 DEF Known
  <2>5. token # 0 => r.token = token
    BY <2>1, <2>2 DEF TokenInv, Registrations
  <2>6. OneRegistration'
    BY <2>1, <2>3, OneGoesOn DEF TokenInv, Advances
  <2>7. \A q \in requests \ {r} : q.kind # "register" /\ q.pc # "answer"
    BY <1>0, <2>1, <2>2 DEF TokenInv, OneRegistration, Registrations, IsRequest, RegisterPcs
  <2>8. \A q \in requests' : q.pc = "answer" => Known(q.token)'
    BY <2>1, <2>3, <2>4, <2>7 DEF Advances, Known
  <2>9. token' # 0 => Known(token)'
    BY <2>1, <2>4, <2>5 DEF Known
  <2>10. s.kind = "register" /\ (token # 0 => s.token = token) /\ s.pc # "byName"
    BY <2>2, <2>3, <2>5 DEF Advances, Registrations
  <2>11. QED
    BY <2>1, <2>3, <2>6, <2>8, <2>9, <2>10 DEF TokenInv, Advances
<1>8. ASSUME NEW r \in requests, Auth(r)
      PROVE  TokenInv'
  <2>1. UNCHANGED <<rows, token, thread, overlapped>> /\ r.pc = "auth"
    BY <1>8 DEF Auth, ServerOnly
  <2>2. r.kind # "register"
    BY <1>0, <2>1 DEF IsRequest, RegisterPcs
  <2>3. PICK s : /\ Advances(r, s) /\ s.token = r.token /\ s.pc \in {"accepted", "refused"}
                 /\ s.pc = "refused" => ~Known(r.token)
    BY <1>8, AuthEffect
  <2>4. s.awaited => token # 0 /\ s.token = token /\ s.pc # "refused"
    BY <2>1, <2>2, <2>3 DEF TokenInv, Advances
  <2>5. QED
    BY <1>4, <2>1, <2>2, <2>3, <2>4 DEF Advances
<1>9. ASSUME requests' \subseteq requests, UNCHANGED <<rows, token, overlapped>>,
             \A j \in Threads : thread'[j].pc = "post" => thread[j].pc = "post"
      PROVE  TokenInv'
  BY <1>9, FewerRegistrations DEF TokenInv, Known
<1>10. ASSUME NEW r \in requests, Registered(r)
       PROVE  TokenInv'
  <2>1. /\ UNCHANGED <<rows, overlapped>> /\ r.pc = "answer" /\ token' = r.token
        /\ requests' = requests \ {r} /\ Goes(r.by, "registered")
    BY <1>10 DEF Registered, Answered
  <2>2. r \in Registrations /\ r.by \in Threads
    BY <1>0, <2>1 DEF IsRequest, RegisterPcs, Registrations
  <2>3. \A j \in Threads : thread'[j].pc = "post" => thread[j].pc = "post"
    BY <1>1, <2>1, <2>2 DEF ThreadPcs
  <2>4. token # 0 => token' = token
    BY <2>1, <2>2 DEF TokenInv, Registrations
  <2>5. \A q \in requests' : q.kind # "register" /\ q.pc # "answer" /\ q.pc # "byName"
    BY <1>0, <2>1, <2>2 DEF TokenInv, OneRegistration, Registrations, IsRequest, RegisterPcs
  <2>6. \E row \in rows' : row.token = token'
    BY <2>1 DEF TokenInv, Known
  <2>7. OneRegistration'
    BY <2>1, FewerRegistrations DEF TokenInv
  <2>8. QED
    BY <2>1, <2>3, <2>4, <2>5, <2>6, <2>7 DEF TokenInv, Known
<1>11. ASSUME NEW r \in requests, Accepted(r)
       PROVE  TokenInv'
  <2>1. /\ UNCHANGED <<rows, token, overlapped>> /\ requests' = requests \ {r}
        /\ r.by \in Threads
    BY <1>0, <1>11 DEF Accepted, Answered, IsRequest
  <2>2. Fresh[r.by].pc # "post" /\ \A kind : At("send", kind).pc # "post"
    BY <2>1 DEF At, Fresh
  <2>3. PICK w : Moves(r.by, w) /\ w.pc # "post"
    BY <1>11, <2>2 DEF Accepted
  <2>4. \A j \in Threads : thread'[j].pc = "post" => thread[j].pc = "post"
    BY <2>1, <2>3 DEF Moves, TypeInv
  <2>5. QED
    BY <1>9, <2>1, <2>4
<1>12. ASSUME NEW r \in requests, Refused(r)
       PROVE  FALSE
  <2>1. overlapped' = overlapped /\ r.awaited /\ r.pc = "refused"
    BY <1>12 DEF Refused, Answered
  <2>2. r.kind # "register"
    BY <1>0, <2>1 DEF IsRequest, RegisterPcs
  <2>3. QED
    BY <2>1, <2>2 DEF TokenInv
<1>13. ASSUME NEW r \in requests, Unheard(r)
       PROVE  TokenInv'
  BY <1>13, <1>9 DEF Unheard, Answered
<1>14. ASSUME NEW r \in requests, GiveUp(r)
       PROVE  TokenInv'
  <2>1. /\ UNCHANGED <<rows, token, overlapped>>
        /\ \A j \in Threads : thread'[j].pc = "post" => thread[j].pc = "post"
    BY <1>0, <1>14, <1>2 DEF GiveUp, IsRequest
  <2>2. CASE Becomes(r, GivenUp(r))
    <3>1. PICK s : /\ requests' = (requests \ {r}) \cup {s}
                   /\ s.kind = r.kind /\ s.pc = r.pc /\ s.token = r.token /\ s.awaited = FALSE
      BY <1>0, <2>2, Given DEF Becomes
    <3>2. OneRegistration'
      BY <2>1, <3>1, OneGoesOn DEF TokenInv
    <3>3. QED
      BY <2>1, <3>1, <3>2 DEF TokenInv, Known
  <2>3. QED
    BY <1>14, <1>9, <2>1, <2>2 DEF GiveUp
<1>15. CASE RestartAgent
  <2>1. UNCHANGED <<rows, overlapped>> /\ token' = 0 /\ thread' = Fresh
    BY <1>15 DEF RestartAgent
  <2>2. \A j \in Threads : thread'[j].pc # "post"
    BY <2>1 DEF Fresh, At
  <2>3. \A q \in requests' : \E r \in requests :
          /\ q = IF r.awaited THEN GivenUp(r) ELSE r
          /\ q.kind = r.kind /\ q.pc = r.pc /\ q.token = r.token /\ q.awaited = FALSE
    BY <1>15, RestartAgentEffect
  <2>4. OneRegistration'
    BY <2>1, <2>3 DEF TokenInv, OneRegistration, Registrations
  <2>5. QED
    BY <2>1, <2>2, <2>3, <2>4 DEF TokenInv, Known
<1>16. CASE RestartServer
  <2>1. /\ UNCHANGED <<rows, token, overlapped>> /\ requests' = {}
        /\ thread' = [k \in Threads |->
             CASE thread[k].pc \notin {"registering", "asking"} -> thread[k]
               [] thread[k].kind = "result" -> Fresh[k]
               [] OTHER -> At("failed", thread[k].kind)]
    BY <1>16 DEF RestartServer
  <2>2. \A j \in Threads : thread'[j].pc = "post" => thread[j].pc = "post"
    BY <2>1 DEF Fresh, At
  <2>3. QED
    BY <1>9, <2>1, <2>2
<1>17. ASSUME NEW k \in Threads, SetConnected(k) \/ Failed(k)
       PROVE  TokenInv'
  <2>1. UNCHANGED <<rows, token, overlapped, requests>>
    BY <1>17 DEF SetConnected, Failed, AgentOnly
  <2>2. \A j \in Threads : thread'[j].pc = "post" => thread[j].pc = "post"
    BY <1>17, <1>1 DEF SetConnected, Failed, ThreadPcs
  <2>3. QED
    BY <1>9, <2>1, <2>2
<1>18. ASSUME NEW k \in Threads, Ensure(k)
       PROVE  TokenInv'
  <2>1. UNCHANGED <<rows, token, overlapped, requests>>
    BY <1>18 DEF Ensure, AgentOnly
  <2>2. CASE token # 0
    BY <2>1, <2>2 DEF TokenInv, Known, OneRegistration, Registrations
  <2>3. CASE token = 0
    BY <1>9, <1>2, <1>18, <2>1, <2>3 DEF Ensure
  <2>4. QED
    BY <2>2, <2>3
<1>19. ASSUME NEW k \in Threads, Post(k)
       PROVE  TokenInv'
  <2>1. /\ UNCHANGED <<rows, token, overlapped>> /\ thread[k].kind # "register"
        /\ thread[k].pc = "post"
    BY <1>19 DEF Post, AgentOnly, TypeInv, ThreadKinds
  <2>2. PICK s : /\ requests' = requests \cup {s} /\ s.kind # "register"
                 /\ s.pc = "auth" /\ s.token = token
    BY <1>19, <2>1, NewRequest DEF Post
  <2>3. \A j \in Threads : thread'[j].pc = "post" => thread[j].pc = "post"
    BY <1>19, <1>1 DEF Post, ThreadPcs
  <2>4. OneRegistration'
    BY <2>1, <2>2 DEF TokenInv, OneRegistration, Registrations
  <2>5. QED
    BY <2>1, <2>2, <2>3, <2>4 DEF TokenInv, Known
<1>20. CASE UNCHANGED vars
  BY <1>20, <1>9 DEF vars
<1>21. QED
  BY <1>3, <1>5, <1>6, <1>7, <1>8, <1>10, <1>11, <1>12, <1>13, <1>14, <1>15, <1>16, <1>17,
     <1>18, <1>19, <1>20 DEF Next

-----------------------------------------------------------------------------
LEMMA InvariantIInv == Spec => []IInv
<1>1. Init => IInv
  <2> SUFFICES ASSUME Init PROVE IInv
    OBVIOUS
  <2>1. \A k \in Threads : /\ Fresh[k] \in [pc : ThreadPcs, kind : ThreadKinds]
                           /\ Fresh[k].pc = "rest"
    BY DEF Fresh, At, Kinds, Threads, ThreadPcs, ThreadKinds
  <2>2. TypeInv
    BY <2>1 DEF Init, TypeInv, Fresh
  <2>3. QED
    BY <2>1, <2>2 DEF Init, IInv, RowInv, TokenInv, OneRegistration, Registrations
<1>2. IInv /\ [Next]_vars => IInv'
  BY TypeStep, RowStep, TokenStep DEF IInv
<1>3. QED
  BY <1>1, <1>2, PTL DEF Spec

\* register: a host has one row, however many requests are lost and however
\* often either side restarts, unless two registrations were under way at once
\* while it had none.
THEOREM OneRowPerHost == Spec => []OneRow
<1>1. IInv => OneRow
  <2> SUFFICES ASSUME IInv, ~raced
               PROVE  Cardinality(rows) <= 1
    BY DEF OneRow
  <2>1. \A p, q \in rows : p = q
    BY DEF IInv, RowInv
  <2>2. CASE rows = {}
    BY <2>2, FS_EmptySet
  <2>3. CASE rows # {}
    <3>1. PICK row : rows = {row}
      BY <2>1, <2>3
    <3>2. QED
      BY <3>1, FS_Singleton
  <2>4. QED
    BY <2>2, <2>3
<1>2. QED
  BY <1>1, InvariantIInv, PTL

\* agent_for_token: as long as no two registrations of the agent overlapped,
\* its token is one that the server knows, and no request of it is answered 401.
THEOREM RefusedOnlyAfterOverlap == Spec => []RefusedAfterOverlap
<1>1. IInv => RefusedAfterOverlap
  <2> SUFFICES ASSUME IInv, NEW r \in requests, r.pc = "refused", r.awaited, ~overlapped
               PROVE  FALSE
    BY DEF RefusedAfterOverlap
  <2>1. r.kind # "register"
    BY DEF IInv, TypeInv, IsRequest, RegisterPcs
  <2>2. QED
    BY <2>1 DEF IInv, TokenInv
<1>2. QED
  BY <1>1, InvariantIInv, PTL

=============================================================================
