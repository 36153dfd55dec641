--------------------------- MODULE ShippingProofs ---------------------------
(***************************************************************************)
(* No event and no alert gets lost on its way from the buffers to the      *)
(* server unnoticed, and no row leaves the outbox before the server has    *)
(* it: for any sizes of the chunks, the batches and the outbox, any number *)
(* of failed requests, exceptions and restarts, and two flushes at once.   *)
(***************************************************************************)
EXTENDS Shipping, FiniteSetTheorems, SequenceTheorems, WellFoundedInduction, TLAPS

Row == [seq : Nat, events : SUBSET Items, alerts : SUBSET Items]
Pcs == {"idle", "peek", "connect", "backlog", "ack", "sent", "size", "put", "putAlerts", "done"}
Local == [pc : Pcs, events : Seq(Items), alerts : SUBSET Items, rows : SUBSET Row, sent : Nat]
Kept == [events : SUBSET Items, alerts : SUBSET Items]

TypeInv ==
  /\ events \in Seq(Items) /\ alerts \in SUBSET Items
  /\ outbox \in SUBSET Row /\ IsFiniteSet(outbox) /\ nextSeq \in Nat
  /\ flush \in [Flushers -> Local]
  /\ received \in Kept /\ raised \in Kept /\ forfeited \in Kept /\ truncated \in SUBSET Items

\* The server has all of row r.
Stored(r, rec) == r.events \subseteq rec.events /\ r.alerts \subseteq rec.alerts
Within(p, q) == p.events \subseteq q.events /\ p.alerts \subseteq q.alerts

(* seq is the key of a set of rows, and below n, the next one.             *)
Keyed(rows, n) ==
  /\ \A r \in rows : r.seq < n
  /\ \A r, q \in rows : r.seq = q.seq => r = q

\* No row came, in the outbox ob, before one that was read from it.
Foremost(rows, ob) == \A r \in ob, q \in rows : r.seq <= q.seq => r \in rows

(* What the server has of the batch in local variables l: all of the       *)
(* chunks that went before, with the alerts from the first one on.         *)
BatchInv(l, rec) ==
  /\ l.pc \in {"idle", "done"} => l.events = << >> /\ l.alerts = {}
  /\ l.sent <= Len(l.events)
  /\ \A k \in 1..l.sent : l.events[k] \in rec.events
  /\ l.sent # 0 => l.alerts \subseteq rec.alerts
  /\ l.pc = "sent" => ToSet(l.events) \subseteq rec.events /\ l.alerts \subseteq rec.alerts

RowsInv(l, ob, rec, n) ==
  /\ Keyed(l.rows, n) /\ Foremost(l.rows, ob)
  /\ l.pc = "ack" => l.rows # {} /\ Stored(Oldest(l.rows), rec)

FlushInv == \A f \in Flushers : BatchInv(flush[f], received) /\ RowsInv(flush[f], outbox, received, nextSeq)

IInv == TypeInv /\ Keyed(outbox, nextSeq) /\ FlushInv

-----------------------------------------------------------------------------
LEMMA SetOfEmpty == ToSet(<< >>) = {} /\ Len(<< >>) = 0
<1>1. DOMAIN << >> = {}
  OBVIOUS
<1>2. QED
  BY <1>1 DEF ToSet

LEMMA SetOfSeq ==
  ASSUME NEW S, NEW s \in Seq(S)
  PROVE  /\ ToSet(s) = {s[k] : k \in 1..Len(s)} /\ ToSet(s) \subseteq S
         /\ Len(s) \in Nat /\ \A k \in 1..Len(s) : s[k] \in S
<1>1. Len(s) \in Nat /\ DOMAIN s = 1..Len(s) /\ s \in [1..Len(s) -> S]
  BY LenProperties
<1>2. QED
  BY <1>1 DEF ToSet

LEMMA SetOfAppend ==
  ASSUME NEW S, NEW s \in Seq(S), NEW e \in S
  PROVE  Append(s, e) \in Seq(S) /\ ToSet(Append(s, e)) = ToSet(s) \cup {e}
<1> DEFINE t == Append(s, e)
<1>1. /\ t \in Seq(S) /\ Len(t) = Len(s) + 1 /\ t[Len(s) + 1] = e
      /\ \A k \in 1..Len(s) : t[k] = s[k]
  BY AppendProperties
<1> HIDE DEF t
<1>2. ToSet(s) = {s[k] : k \in 1..Len(s)} /\ ToSet(t) = {t[k] : k \in 1..Len(t)} /\ Len(s) \in Nat
  BY <1>1, SetOfSeq
<1>3. 1..Len(t) = (1..Len(s)) \cup {Len(s) + 1}
  BY <1>1, <1>2
<1>4. QED
  BY <1>1, <1>2, <1>3 DEF t

\* A slice holds the elements of its positions.
LEMMA SetOfSlice ==
  ASSUME NEW S, NEW s \in Seq(S), NEW m \in Int, NEW n \in Int, 1 <= m, n <= Len(s)
  PROVE  ToSet(SubSeq(s, m, n)) = {s[k] : k \in m..n}
<1> DEFINE t == SubSeq(s, m, n)
<1>1. Len(s) \in Nat /\ \A k \in 1..Len(s) : s[k] \in S
  BY SetOfSeq
<1>2. \A k \in m..n : s[k] \in S
  BY <1>1
<1>3. /\ t \in Seq(S) /\ Len(t) = IF m <= n THEN n - m + 1 ELSE 0
      /\ \A k \in 1..(n - m + 1) : t[k] = s[m + k - 1]
  BY <1>2, SubSeqProperties
<1> HIDE DEF t
<1>4. ToSet(t) = {t[k] : k \in 1..Len(t)}
  BY <1>3, SetOfSeq
<1>5. ASSUME NEW k \in 1..Len(t) PROVE t[k] \in {s[j] : j \in m..n}
  <2>1. k \in 1..(n - m + 1) /\ m + k - 1 \in m..n
    BY <1>3
  <2>2. QED
    BY <2>1, <1>3
<1>6. ASSUME NEW j \in m..n PROVE s[j] \in {t[k] : k \in 1..Len(t)}
  <2>1. PICK k \in Int : k = j - m + 1
    OBVIOUS
  <2>2. k \in 1..Len(t) /\ k \in 1..(n - m + 1) /\ m + k - 1 = j
    BY <2>1, <1>3
  <2>3. QED
    BY <2>2, <1>3
<1>7. QED
  BY <1>4, <1>5, <1>6 DEF t

\* Chunks: after position n and the slice behind it come positions after m.
LEMMA ChunkSent ==
  ASSUME NEW s \in Seq(Items), NEW n \in Nat, NEW m \in Nat, n <= m, m <= Len(s),
         NEW R, \A k \in 1..n : s[k] \in R, ToSet(SubSeq(s, n + 1, m)) \subseteq R
  PROVE  \A k \in 1..m : s[k] \in R
<1>1. ToSet(SubSeq(s, n + 1, m)) = {s[k] : k \in (n + 1)..m}
  BY SetOfSlice
<1>2. \A k \in 1..m : k \in 1..n \/ k \in (n + 1)..m
  OBVIOUS
<1>3. QED
  BY <1>1, <1>2

LEMMA Smallest ==
  ASSUME NEW T, T \subseteq Nat, T # {}
  PROVE  \E n \in T : \A m \in T : n <= m
<1> DEFINE Less == {ss \in Nat \X Nat : ss[1] < ss[2]}
<1>1. IsWellFoundedOn(Less, Nat)
  BY NatLessThanWellFounded DEF OpToRel
<1> HIDE DEF Less
<1>2. PICK n \in T : \A m \in T : <<m, n>> \notin Less
  BY <1>1, WFMin
<1>3. \A m \in T : ~(m < n)
  BY <1>2 DEF Less
<1>4. QED
  BY <1>3

\* The oldest row of a set is one of it, and none comes before it.
LEMMA OldestIsFirst ==
  ASSUME NEW rows \in SUBSET Row, rows # {}
  PROVE  Oldest(rows) \in rows /\ \A q \in rows : Oldest(rows).seq <= q.seq
<1>1. {r.seq : r \in rows} \subseteq Nat /\ {r.seq : r \in rows} # {}
  BY DEF Row
<1>2. PICK n \in {r.seq : r \in rows} : \A m \in {r.seq : r \in rows} : n <= m
  BY <1>1, Smallest
<1>3. \E r \in rows : \A q \in rows : r.seq <= q.seq
  BY <1>2
<1>4. QED
  BY <1>3 DEF Oldest

\* outbox_peek: what is read has no older row outside it.
LEMMA FirstRowsAreForemost ==
  ASSUME NEW ob \in SUBSET Row, IsFiniteSet(ob), NEW n \in Nat
  PROVE  FirstRows(ob, n) \subseteq ob /\ Foremost(FirstRows(ob, n), ob)
<1>1. FirstRows(ob, n) \subseteq ob
  BY DEF FirstRows
<1>2. ASSUME NEW r \in ob, NEW q \in FirstRows(ob, n), r.seq <= q.seq
      PROVE  r \in FirstRows(ob, n)
  <2> DEFINE R == {x \in ob : x.seq <= r.seq}
             Q == {x \in ob : x.seq <= q.seq}
  <2>1. q \in ob /\ Cardinality(Q) <= n
    BY DEF FirstRows
  <2>2. r.seq \in Nat /\ q.seq \in Nat /\ \A x \in ob : x.seq \in Nat
    BY <2>1 DEF Row
  <2>3. R \in SUBSET Q /\ Q \in SUBSET ob
    BY <2>2, <1>2
  <2>4. IsFiniteSet(Q)
    BY <2>3, FS_Subset
  <2>5. IsFiniteSet(R) /\ Cardinality(R) <= Cardinality(Q)
    BY <2>3, <2>4, FS_Subset
  <2>6. Cardinality(R) \in Nat /\ Cardinality(Q) \in Nat
    BY <2>4, <2>5, FS_CardinalityType
  <2> HIDE DEF Q
  <2>7. Cardinality(R) <= n
    BY <2>1, <2>5, <2>6
  <2>8. QED
    BY <2>7 DEF FirstRows
<1>3. QED
  BY <1>1, <1>2 DEF Foremost

-----------------------------------------------------------------------------
\* A flusher's local variables, after a step.
Vars(pc, E, A, R, n) == [pc |-> pc, events |-> E, alerts |-> A, rows |-> R, sent |-> n]

LEMMA VarsFields ==
  ASSUME NEW pc, NEW E, NEW A, NEW R, NEW n
  PROVE  LET l == Vars(pc, E, A, R, n) IN
         l.pc = pc /\ l.events = E /\ l.alerts = A /\ l.rows = R /\ l.sent = n
BY DEF Vars

LEMMA VarsType ==
  ASSUME NEW pc \in Pcs, NEW E \in Seq(Items), NEW A \in SUBSET Items, NEW R \in SUBSET Row, NEW n \in Nat
  PROVE  Vars(pc, E, A, R, n) \in Local
BY DEF Vars, Local

LEMMA LocalFields ==
  ASSUME NEW l \in Local
  PROVE  /\ l = Vars(l.pc, l.events, l.alerts, l.rows, l.sent)
         /\ l.pc \in Pcs /\ l.events \in Seq(Items) /\ l.alerts \in SUBSET Items
         /\ l.rows \in SUBSET Row /\ l.sent \in Nat
BY DEF Vars, Local

LEMMA OtherPc ==
  ASSUME NEW l \in Local, NEW p
  PROVE  [l EXCEPT !.pc = p] = Vars(p, l.events, l.alerts, l.rows, l.sent)
BY DEF Vars, Local

LEMMA OtherSent ==
  ASSUME NEW l \in Local, NEW n
  PROVE  [l EXCEPT !.sent = n] = Vars(l.pc, l.events, l.alerts, l.rows, n)
BY DEF Vars, Local

LEMMA OtherBatch ==
  ASSUME NEW l \in Local, NEW E, NEW A
  PROVE  [l EXCEPT !.events = E, !.alerts = A] = Vars(l.pc, E, A, l.rows, l.sent)
<1> DEFINE m == [l EXCEPT !.events = E]
<1>1. m = Vars(l.pc, E, l.alerts, l.rows, l.sent)
  BY DEF Vars, Local
<1>2. [l EXCEPT !.events = E, !.alerts = A] = [m EXCEPT !.alerts = A]
  OBVIOUS
<1> HIDE DEF m
<1>3. [m EXCEPT !.alerts = A] = Vars(l.pc, E, A, l.rows, l.sent)
  BY <1>1 DEF Vars
<1>4. QED
  BY <1>2, <1>3

LEMMA OtherPcRows ==
  ASSUME NEW l \in Local, NEW p, NEW R
  PROVE  [l EXCEPT !.pc = p, !.rows = R] = Vars(p, l.events, l.alerts, R, l.sent)
<1> DEFINE m == [l EXCEPT !.pc = p]
<1>1. m = Vars(p, l.events, l.alerts, l.rows, l.sent)
  BY OtherPc
<1>2. [l EXCEPT !.pc = p, !.rows = R] = [m EXCEPT !.rows = R]
  OBVIOUS
<1> HIDE DEF m
<1>3. [m EXCEPT !.rows = R] = Vars(p, l.events, l.alerts, R, l.sent)
  BY <1>1 DEF Vars
<1>4. QED
  BY <1>2, <1>3

LEMMA StepPc ==
  ASSUME NEW fl \in [Flushers -> Local], NEW f \in Flushers, NEW p
  PROVE  [fl EXCEPT ![f].pc = p] =
           [fl EXCEPT ![f] = Vars(p, fl[f].events, fl[f].alerts, fl[f].rows, fl[f].sent)]
<1>1. fl[f] \in Local
  OBVIOUS
<1>2. [fl[f] EXCEPT !.pc = p] = Vars(p, fl[f].events, fl[f].alerts, fl[f].rows, fl[f].sent)
  BY <1>1, OtherPc
<1>3. [fl EXCEPT ![f].pc = p] = [fl EXCEPT ![f] = [fl[f] EXCEPT !.pc = p]]
  OBVIOUS
<1>4. QED
  BY <1>2, <1>3

LEMMA IdleVars ==
  ASSUME NEW f \in Flushers
  PROVE  /\ Idle = Vars("idle", << >>, {}, {}, 0)
         /\ \E pc \in {"idle", "done"} : Done(f) = Vars(pc, << >>, {}, {}, 0)
<1>1. Idle = Vars("idle", << >>, {}, {}, 0)
  BY DEF Idle, Vars
<1>2. [Idle EXCEPT !.pc = "done"] = Vars("done", << >>, {}, {}, 0)
  <2>1. Vars("idle", << >>, {}, {}, 0) \in Local
    BY EmptySeq, VarsType DEF Pcs
  <2>2. PICK l \in Local : l = Idle
    BY <1>1, <2>1
  <2>3. l.events = << >> /\ l.alerts = {} /\ l.rows = {} /\ l.sent = 0
    BY <1>1, <2>2, VarsFields
  <2>4. [l EXCEPT !.pc = "done"] = Vars("done", l.events, l.alerts, l.rows, l.sent)
    BY OtherPc
  <2>5. QED
    BY <2>2, <2>3, <2>4
<1>3. Done(f) = Idle \/ Done(f) = [Idle EXCEPT !.pc = "done"]
  BY DEF Done
<1>4. QED
  BY <1>1, <1>2, <1>3

-----------------------------------------------------------------------------
(* What a step leaves to the flushers that do not take it: the server has  *)
(* more, and the outbox only new rows more.                                *)
Later(ob, rec, n, ob2, rec2, n2) ==
  /\ Within(rec, rec2) /\ n <= n2
  /\ \A r \in ob2 : r \in ob \/ n <= r.seq

LEMMA StaysGood ==
  ASSUME NEW l \in Local, NEW ob \in SUBSET Row, NEW ob2 \in SUBSET Row, NEW n \in Nat, NEW n2 \in Nat,
         NEW rec, NEW rec2, Later(ob, rec, n, ob2, rec2, n2)
  PROVE  /\ BatchInv(l, rec) => BatchInv(l, rec2)
         /\ RowsInv(l, ob, rec, n) => RowsInv(l, ob2, rec2, n2)
<1>1. Within(rec, rec2) /\ n <= n2 /\ \A r \in ob2 : r \in ob \/ n <= r.seq
  BY DEF Later
<1>2. BatchInv(l, rec) => BatchInv(l, rec2)
  BY <1>1 DEF BatchInv, Within
<1>3. SUFFICES ASSUME RowsInv(l, ob, rec, n) PROVE RowsInv(l, ob2, rec2, n2)
  BY <1>2
<1>4. l.rows \in SUBSET Row
  BY LocalFields
<1>5. Keyed(l.rows, n2)
  <2>1. \A r \in l.rows : r.seq < n /\ r.seq \in Nat
    BY <1>3, <1>4 DEF RowsInv, Keyed, Row
  <2>2. QED
    BY <2>1, <1>1, <1>3 DEF RowsInv, Keyed
<1>6. ASSUME NEW r \in ob2, NEW q \in l.rows, r.seq <= q.seq PROVE r \in l.rows
  <2>1. q.seq < n /\ q.seq \in Nat /\ r.seq \in Nat
    BY <1>3, <1>4 DEF RowsInv, Keyed, Row
  <2>2. r \in ob
    BY <2>1, <1>1, <1>6
  <2>3. QED
    BY <2>2, <1>3, <1>6 DEF RowsInv, Foremost
<1>7. l.pc = "ack" => l.rows # {} /\ Stored(Oldest(l.rows), rec2)
  BY <1>1, <1>3 DEF RowsInv, Stored, Within
<1>8. QED
  BY <1>5, <1>6, <1>7 DEF RowsInv, Foremost

LEMMA OneMoves ==
  ASSUME NEW fl \in [Flushers -> Local], NEW f \in Flushers, NEW l \in Local, NEW fl2,
         fl2 = [fl EXCEPT ![f] = l],
         NEW ob \in SUBSET Row, NEW ob2 \in SUBSET Row, NEW n \in Nat, NEW n2 \in Nat,
         NEW rec, NEW rec2, Later(ob, rec, n, ob2, rec2, n2),
         \A g \in Flushers : BatchInv(fl[g], rec) /\ RowsInv(fl[g], ob, rec, n),
         BatchInv(l, rec2), RowsInv(l, ob2, rec2, n2)
  PROVE  /\ fl2 \in [Flushers -> Local]
         /\ \A g \in Flushers : BatchInv(fl2[g], rec2) /\ RowsInv(fl2[g], ob2, rec2, n2)
<1>1. fl2 \in [Flushers -> Local] /\ fl2[f] = l /\ \A g \in Flushers \ {f} : fl2[g] = fl[g]
  OBVIOUS
<1>2. ASSUME NEW g \in Flushers PROVE BatchInv(fl2[g], rec2) /\ RowsInv(fl2[g], ob2, rec2, n2)
  <2>1. CASE g = f
    BY <2>1, <1>1
  <2>2. CASE g # f
    <3>1. fl2[g] = fl[g] /\ fl[g] \in Local
      BY <2>2, <1>1
    <3>2. PICK k \in Local : k = fl[g]
      BY <3>1
    <3>3. BatchInv(k, rec) /\ RowsInv(k, ob, rec, n)
      BY <3>2
    <3>4. QED
      BY <3>1, <3>2, <3>3, StaysGood
  <2>3. QED
    BY <2>1, <2>2
<1>3. QED
  BY <1>1, <1>2

LEMMA IdleIsGood ==
  ASSUME NEW pc \in {"idle", "done"}, NEW ob, NEW rec, NEW n
  PROVE  LET l == Vars(pc, << >>, {}, {}, 0) IN
         l \in Local /\ BatchInv(l, rec) /\ RowsInv(l, ob, rec, n)
<1> DEFINE l == Vars(pc, << >>, {}, {}, 0)
<1>1. l.pc = pc /\ l.events = << >> /\ l.alerts = {} /\ l.rows = {} /\ l.sent = 0
  BY VarsFields
<1>2. << >> \in Seq(Items) /\ pc \in Pcs
  BY EmptySeq DEF Pcs
<1>3. l \in Local
  BY <1>2, VarsType
<1> HIDE DEF l
<1>4. BatchInv(l, rec)
  BY <1>1, SetOfEmpty DEF BatchInv
<1>5. RowsInv(l, ob, rec, n)
  BY <1>1 DEF RowsInv, Keyed, Foremost
<1>6. QED
  BY <1>3, <1>4, <1>5 DEF l

-----------------------------------------------------------------------------
(* Where an alert and an event may be.                                     *)
HeldAlert(x) ==
  \/ x \in alerts \/ \E f \in Flushers : x \in flush[f].alerts
  \/ \E r \in outbox : x \in r.alerts
  \/ x \in received.alerts \cup forfeited.alerts

HeldEvent(x) ==
  \/ x \in ToSet(events) \/ \E f \in Flushers : x \in ToSet(flush[f].events)
  \/ \E r \in outbox : x \in r.events
  \/ x \in received.events \cup forfeited.events \cup truncated

Lossless == (\A x \in raised.alerts : HeldAlert(x)) /\ (\A x \in raised.events : HeldEvent(x))

LEMMA LosslessMeans == Lossless <=> NothingSilentlyLost
<1>1. /\ InMemory.alerts = alerts \cup UNION {flush[f].alerts : f \in Flushers}
      /\ InMemory.events = ToSet(events) \cup UNION {ToSet(flush[f].events) : f \in Flushers}
      /\ Waiting.alerts = UNION {r.alerts : r \in outbox}
      /\ Waiting.events = UNION {r.events : r \in outbox}
  BY DEF InMemory, Waiting
<1>2. ASSUME NEW x PROVE HeldAlert(x) <=>
        x \in InMemory.alerts \cup Waiting.alerts \cup received.alerts \cup forfeited.alerts
  BY <1>1 DEF HeldAlert
<1>3. ASSUME NEW x PROVE HeldEvent(x) <=>
        x \in InMemory.events \cup Waiting.events \cup received.events \cup forfeited.events \cup truncated
  BY <1>1 DEF HeldEvent
<1>4. QED
  BY <1>2, <1>3 DEF Lossless, NothingSilentlyLost

(* A step of flusher f: what it does to the rest, and its local variables  *)
(* l after it, with where the batch it had has gone.                       *)
StoreStep ==
  /\ events' = events /\ alerts' = alerts /\ raised' = raised
  /\ outbox' \in SUBSET Row /\ IsFiniteSet(outbox') /\ nextSeq' \in Nat /\ Keyed(outbox', nextSeq')
  /\ received' \in Kept /\ forfeited' \in Kept /\ truncated' \in SUBSET Items
  /\ Later(outbox, received, nextSeq, outbox', received', nextSeq')
  /\ Within(forfeited, forfeited') /\ truncated \subseteq truncated'
  /\ \A r \in outbox \ outbox' : Stored(r, received')

BatchStep(f, l) ==
  /\ flush' = [flush EXCEPT ![f] = l]
  /\ BatchInv(l, received') /\ RowsInv(l, outbox', received', nextSeq')
  /\ \A x \in flush[f].alerts :
       \/ x \in l.alerts \cup received'.alerts \cup forfeited'.alerts
       \/ \E r \in outbox' : x \in r.alerts
  /\ \A x \in ToSet(flush[f].events) :
       \/ x \in ToSet(l.events) \cup received'.events \cup forfeited'.events \cup truncated'
       \/ \E r \in outbox' : x \in r.events

LEMMA MovesOn ==
  ASSUME IInv, StoreStep, NEW f \in Flushers, NEW l \in Local, BatchStep(f, l)
  PROVE  IInv' /\ (Lossless => Lossless')
<1>1. flush \in [Flushers -> Local] /\ outbox \in SUBSET Row /\ nextSeq \in Nat
      /\ events \in Seq(Items) /\ alerts \in SUBSET Items /\ raised \in Kept
  BY DEF IInv, TypeInv
<1>2. /\ flush' \in [Flushers -> Local]
      /\ \A g \in Flushers : BatchInv(flush'[g], received') /\ RowsInv(flush'[g], outbox', received', nextSeq')
  <2>1. PICK fl, ob, rec, n : fl = flush /\ ob = outbox /\ rec = received /\ n = nextSeq
    OBVIOUS
  <2>2. PICK fl2, ob2, rec2, n2 : fl2 = flush' /\ ob2 = outbox' /\ rec2 = received' /\ n2 = nextSeq'
    OBVIOUS
  <2>3. fl \in [Flushers -> Local] /\ ob \in SUBSET Row /\ n \in Nat
    BY <1>1, <2>1
  <2>4. ob2 \in SUBSET Row /\ n2 \in Nat /\ Later(ob, rec, n, ob2, rec2, n2)
    BY <2>1, <2>2 DEF StoreStep
  <2>5. fl2 = [fl EXCEPT ![f] = l] /\ BatchInv(l, rec2) /\ RowsInv(l, ob2, rec2, n2)
    BY <2>1, <2>2 DEF BatchStep
  <2>6. \A g \in Flushers : BatchInv(fl[g], rec) /\ RowsInv(fl[g], ob, rec, n)
    BY <2>1 DEF IInv, FlushInv
  <2>7. /\ fl2 \in [Flushers -> Local]
        /\ \A g \in Flushers : BatchInv(fl2[g], rec2) /\ RowsInv(fl2[g], ob2, rec2, n2)
    BY <2>3, <2>4, <2>5, <2>6, OneMoves
  <2>8. QED
    BY <2>2, <2>7
<1>3. TypeInv'
  BY <1>1, <1>2 DEF TypeInv, StoreStep
<1>4. FlushInv'
  BY <1>2 DEF FlushInv
<1>5. IInv'
  BY <1>3, <1>4 DEF IInv, StoreStep
<1>6. flush'[f] = l /\ \A g \in Flushers \ {f} : flush'[g] = flush[g]
  BY <1>1 DEF BatchStep
<1>7. ASSUME NEW x, HeldAlert(x) PROVE HeldAlert(x)'
  <2>1. CASE x \in alerts \cup received.alerts \cup forfeited.alerts
    BY <2>1 DEF StoreStep, HeldAlert, Later, Within
  <2>2. ASSUME NEW g \in Flushers, x \in flush[g].alerts PROVE HeldAlert(x)'
    BY <2>2, <1>6 DEF BatchStep, HeldAlert
  <2>3. ASSUME NEW r \in outbox, x \in r.alerts PROVE HeldAlert(x)'
    BY <2>3 DEF StoreStep, Stored, HeldAlert
  <2>4. QED
    BY <1>7, <2>1, <2>2, <2>3 DEF HeldAlert
<1>8. ASSUME NEW x, HeldEvent(x) PROVE HeldEvent(x)'
  <2>1. CASE x \in ToSet(events) \cup received.events \cup forfeited.events \cup truncated
    BY <2>1 DEF StoreStep, HeldEvent, Later, Within
  <2>2. ASSUME NEW g \in Flushers, x \in ToSet(flush[g].events) PROVE HeldEvent(x)'
    BY <2>2, <1>6 DEF BatchStep, HeldEvent
  <2>3. ASSUME NEW r \in outbox, x \in r.events PROVE HeldEvent(x)'
    BY <2>3 DEF StoreStep, Stored, HeldEvent
  <2>4. QED
    BY <1>8, <2>1, <2>2, <2>3 DEF HeldEvent
<1>9. Lossless => Lossless'
  BY <1>7, <1>8 DEF Lossless, StoreStep
<1>10. QED
  BY <1>5, <1>9

\* The outbox and the history as they were, and more on the server.
LEMMA StoreStays ==
  ASSUME IInv, UNCHANGED <<events, alerts, raised, outbox, nextSeq, forfeited, truncated>>,
         received' \in Kept, Within(received, received')
  PROVE  StoreStep
<1>1. \A r \in outbox : r \in Row
  BY DEF IInv, TypeInv
<1>2. nextSeq <= nextSeq
  BY DEF IInv, TypeInv
<1>3. Later(outbox, received, nextSeq, outbox', received', nextSeq')
  BY <1>2 DEF Later
<1>4. QED
  BY <1>3 DEF StoreStep, IInv, TypeInv, Within

LEMMA NothingNew == IInv => received \in Kept /\ Within(received, received)
BY DEF IInv, TypeInv, Within

LEMMA Ingested ==
  ASSUME IInv, NEW E \in SUBSET Items, NEW A \in SUBSET Items, Ingest(E, A)
  PROVE  /\ received' \in Kept /\ Within(received, received')
         /\ E \subseteq received'.events /\ A \subseteq received'.alerts
<1>1. received \in Kept
  BY DEF IInv, TypeInv
<1>2. received' = [events |-> received.events \cup E, alerts |-> received.alerts \cup A]
  BY DEF Ingest, Union
<1>3. received'.events = received.events \cup E /\ received'.alerts = received.alerts \cup A
  BY <1>2
<1>4. QED
  BY <1>1, <1>2, <1>3 DEF Kept, Within

-----------------------------------------------------------------------------
(* The two ways of a step of flush(): the batch stays in its hands, or is  *)
(* let go of.                                                              *)
LEMMA SameRows ==
  ASSUME IInv, StoreStep, NEW f \in Flushers, NEW l, l.rows = flush[f].rows, l.pc # "ack"
  PROVE  RowsInv(l, outbox', received', nextSeq')
<1>1. PICK m \in Local : m = flush[f]
  BY DEF IInv, TypeInv
<1>2. PICK ob, rec, n : ob = outbox /\ rec = received /\ n = nextSeq
  OBVIOUS
<1>3. PICK ob2, rec2, n2 : ob2 = outbox' /\ rec2 = received' /\ n2 = nextSeq'
  OBVIOUS
<1>4. ob \in SUBSET Row /\ n \in Nat /\ RowsInv(m, ob, rec, n)
  BY <1>1, <1>2 DEF IInv, TypeInv, FlushInv
<1>5. ob2 \in SUBSET Row /\ n2 \in Nat /\ Later(ob, rec, n, ob2, rec2, n2)
  BY <1>2, <1>3 DEF StoreStep
<1>6. RowsInv(m, ob2, rec2, n2)
  BY <1>4, <1>5, StaysGood
<1>7. QED
  BY <1>1, <1>3, <1>6 DEF RowsInv

LEMMA SameBatch ==
  ASSUME IInv, NEW f \in Flushers, NEW pc \in Pcs \ {"idle", "done", "sent"}, NEW R \in SUBSET Row,
         NEW l, l = Vars(pc, flush[f].events, flush[f].alerts, R, flush[f].sent),
         flush' = [flush EXCEPT ![f] = l], Within(received, received'),
         RowsInv(l, outbox', received', nextSeq')
  PROVE  l \in Local /\ BatchStep(f, l)
<1>1. PICK m \in Local : m = flush[f]
  BY DEF IInv, TypeInv
<1>2. /\ m.events \in Seq(Items) /\ m.alerts \in SUBSET Items /\ m.sent \in Nat
      /\ BatchInv(m, received)
  BY <1>1, LocalFields DEF IInv, FlushInv
<1>3. l.pc = pc /\ l.events = m.events /\ l.alerts = m.alerts /\ l.sent = m.sent
  BY <1>1, VarsFields
<1>4. l \in Local
  BY <1>1, <1>2, VarsType
<1>5. BatchInv(l, received')
  BY <1>2, <1>3 DEF BatchInv, Within
<1>6. QED
  BY <1>1, <1>3, <1>4, <1>5 DEF BatchStep

LEMMA EndsBatch ==
  ASSUME IInv, NEW f \in Flushers, flush' = [flush EXCEPT ![f] = Done(f)],
         \A x \in flush[f].alerts :
           \/ x \in received'.alerts \cup forfeited'.alerts
           \/ \E r \in outbox' : x \in r.alerts,
         \A x \in ToSet(flush[f].events) :
           \/ x \in received'.events \cup forfeited'.events \cup truncated'
           \/ \E r \in outbox' : x \in r.events
  PROVE  \E l \in Local : BatchStep(f, l)
<1>1. PICK pc \in {"idle", "done"} : Done(f) = Vars(pc, << >>, {}, {}, 0)
  BY IdleVars
<1>2. PICK l : l = Vars(pc, << >>, {}, {}, 0)
  OBVIOUS
<1>3. PICK ob2, rec2, n2 : ob2 = outbox' /\ rec2 = received' /\ n2 = nextSeq'
  OBVIOUS
<1>4. l \in Local /\ BatchInv(l, rec2) /\ RowsInv(l, ob2, rec2, n2)
  BY <1>2, IdleIsGood
<1>5. QED
  BY <1>1, <1>2, <1>3, <1>4 DEF BatchStep

-----------------------------------------------------------------------------
\* One lemma per step of flush().
LEMMA PeekStep ==
  ASSUME IInv, NEW f \in Flushers, Peek(f)
  PROVE  StoreStep /\ \E l \in Local : BatchStep(f, l)
<1>1. UNCHANGED <<events, alerts, raised, outbox, nextSeq, forfeited, truncated, received>>
  BY DEF Peek, agent, store, history
<1>2. received' \in Kept /\ Within(received, received') /\ StoreStep
  BY <1>1, NothingNew, StoreStays
<1>3. PICK R : R = FirstRows(outbox, Backlog)
  OBVIOUS
<1>4. PICK l : l = Vars("connect", flush[f].events, flush[f].alerts, R, flush[f].sent)
  OBVIOUS
<1>5. flush' = [flush EXCEPT ![f] = l]
  <2>1. PICK fl, fl2 : fl = flush /\ fl2 = flush'
    OBVIOUS
  <2>2. fl \in [Flushers -> Local] /\ fl2 = [fl EXCEPT ![f].pc = "connect", ![f].rows = R]
    BY <1>3, <2>1 DEF Peek, IInv, TypeInv
  <2>3. fl[f] \in Local /\ fl2 = [fl EXCEPT ![f] = [fl[f] EXCEPT !.pc = "connect", !.rows = R]]
    BY <2>2
  <2>4. [fl[f] EXCEPT !.pc = "connect", !.rows = R] = l
    BY <2>1, <2>3, <1>4, OtherPcRows
  <2>5. QED
    BY <2>1, <2>3, <2>4
<1>6. outbox \in SUBSET Row /\ R \subseteq outbox /\ Foremost(R, outbox) /\ R \in SUBSET Row
  <2>1. outbox \in SUBSET Row /\ IsFiniteSet(outbox) /\ Backlog \in Nat
    BY ShippingAssumption DEF IInv, TypeInv
  <2>2. QED
    BY <2>1, <1>3, FirstRowsAreForemost
<1>7. l.pc = "connect" /\ l.rows = R
  BY <1>4, VarsFields
<1>8. RowsInv(l, outbox', received', nextSeq')
  BY <1>1, <1>6, <1>7 DEF RowsInv, Keyed, IInv
<1>9. l \in Local /\ BatchStep(f, l)
  <2>1. "connect" \in Pcs \ {"idle", "done", "sent"}
    BY DEF Pcs
  <2>2. QED
    BY <2>1, <1>2, <1>4, <1>5, <1>6, <1>8, SameBatch
<1>10. QED
  BY <1>2, <1>9

\* Going on at another pc with the same rows.
LEMMA GoesOn ==
  ASSUME IInv, StoreStep, NEW f \in Flushers, NEW pc \in Pcs \ {"idle", "done", "sent", "ack"},
         flush' = [flush EXCEPT ![f].pc = pc]
  PROVE  \E l \in Local : BatchStep(f, l)
<1>1. PICK l : l = Vars(pc, flush[f].events, flush[f].alerts, flush[f].rows, flush[f].sent)
  OBVIOUS
<1>2. flush \in [Flushers -> Local] /\ flush[f].rows \in SUBSET Row
  BY LocalFields DEF IInv, TypeInv
<1>3. flush' = [flush EXCEPT ![f] = l]
  BY <1>1, <1>2, StepPc
<1>4. l.pc = pc /\ l.rows = flush[f].rows
  BY <1>1, VarsFields
<1>5. RowsInv(l, outbox', received', nextSeq')
  BY <1>4, SameRows
<1>6. Within(received, received')
  BY DEF StoreStep, Later
<1>7. QED
  BY <1>1, <1>2, <1>3, <1>5, <1>6, SameBatch

LEMMA ConnectStep ==
  ASSUME IInv, NEW f \in Flushers, Connect(f)
  PROVE  StoreStep /\ \E l \in Local : BatchStep(f, l)
<1>1. UNCHANGED <<events, alerts, raised, outbox, nextSeq, forfeited, truncated, received>>
  BY DEF Connect, store, history
<1>2. StoreStep
  BY <1>1, NothingNew, StoreStays
<1>3. PICK pc \in {"backlog", "size"} : flush' = [flush EXCEPT ![f].pc = pc]
  BY DEF Connect
<1>4. pc \in Pcs \ {"idle", "done", "sent", "ack"}
  BY DEF Pcs
<1>5. QED
  BY <1>2, <1>3, <1>4, GoesOn

\* A request that fails, whatever the server stored of it.
LEMMA RequestStep ==
  ASSUME IInv, NEW f \in Flushers, NEW E \in SUBSET Items, NEW A \in SUBSET Items, NEW l,
         Request(f, E, A, l),
         UNCHANGED <<events, alerts, raised, outbox, nextSeq, forfeited, truncated>>
  PROVE  /\ StoreStep
         /\ \/ \E k \in Local : BatchStep(f, k)
            \/ /\ flush' = [flush EXCEPT ![f] = l]
               /\ E \subseteq received'.events /\ A \subseteq received'.alerts
<1>1. PICK pc : pc = "size"
  OBVIOUS
<1>2. pc \in Pcs \ {"idle", "done", "sent", "ack"}
  BY <1>1 DEF Pcs
<1>3. CASE Ingest(E, A) /\ flush' = [flush EXCEPT ![f] = l]
  BY <1>3, Ingested, StoreStays
<1>4. CASE received' = received /\ flush' = [flush EXCEPT ![f].pc = pc]
  <2>1. StoreStep
    BY <1>4, NothingNew, StoreStays
  <2>2. QED
    BY <2>1, <1>2, <1>4, GoesOn
<1>5. ASSUME NEW B \in SUBSET A, Ingest(E, B), flush' = [flush EXCEPT ![f].pc = pc]
      PROVE  StoreStep /\ \E k \in Local : BatchStep(f, k)
  <2>1. B \in SUBSET Items
    OBVIOUS
  <2>2. StoreStep
    BY <2>1, <1>5, Ingested, StoreStays
  <2>3. QED
    BY <2>2, <1>2, <1>5, GoesOn
<1>6. QED
  BY <1>1, <1>3, <1>4, <1>5 DEF Request

LEMMA SendRowStep ==
  ASSUME IInv, NEW f \in Flushers, SendRow(f)
  PROVE  StoreStep /\ \E l \in Local : BatchStep(f, l)
<1>1. PICK R, row : R = flush[f].rows /\ row = Oldest(R)
  OBVIOUS
<1>2. R \in SUBSET Row /\ R # {} /\ flush \in [Flushers -> Local]
  BY <1>1, LocalFields DEF SendRow, IInv, TypeInv
<1>3. row \in Row /\ row.events \in SUBSET Items /\ row.alerts \in SUBSET Items
  BY <1>1, <1>2, OldestIsFirst DEF Row
<1>4. PICK l : l = [flush[f] EXCEPT !.pc = "ack"]
  OBVIOUS
<1>5. /\ Request(f, row.events, row.alerts, l)
      /\ UNCHANGED <<events, alerts, raised, outbox, nextSeq, forfeited, truncated>>
  BY <1>1, <1>4 DEF SendRow, agent, store, history
<1>6. SUFFICES ASSUME StoreStep, flush' = [flush EXCEPT ![f] = l],
                      row.events \subseteq received'.events, row.alerts \subseteq received'.alerts
               PROVE  \E k \in Local : BatchStep(f, k)
  BY <1>3, <1>5, RequestStep
<1>7. flush[f] \in Local
  BY <1>2
<1>8. l = Vars("ack", flush[f].events, flush[f].alerts, R, flush[f].sent)
  BY <1>1, <1>4, <1>7, OtherPc
<1>9. l.pc = "ack" /\ l.rows = R
  BY <1>8, VarsFields
<1>10. RowsInv(l, outbox', received', nextSeq')
  <2>1. PICK k : k = Vars("size", flush[f].events, flush[f].alerts, R, flush[f].sent)
    OBVIOUS
  <2>2. k.pc = "size" /\ k.rows = R
    BY <2>1, VarsFields
  <2>3. RowsInv(k, outbox', received', nextSeq')
    BY <2>2, <1>1, <1>6, SameRows
  <2>4. QED
    BY <2>2, <2>3, <1>1, <1>2, <1>6, <1>9 DEF RowsInv, Stored
<1>11. "ack" \in Pcs \ {"idle", "done", "sent"} /\ Within(received, received')
  BY <1>6 DEF Pcs, StoreStep, Later
<1>12. QED
  BY <1>2, <1>6, <1>8, <1>10, <1>11, SameBatch

\* outbox_ack deletes every row up to one that the server has, and that is
\* no other than this one.
LEMMA AckDeletesOne ==
  ASSUME NEW ob \in SUBSET Row, NEW R \in SUBSET Row, R # {}, NEW n,
         Keyed(R, n), Foremost(R, ob), NEW row, row = Oldest(R),
         NEW ob2, \A r : r \in ob2 <=> r \in ob /\ r.seq > row.seq
  PROVE  /\ ob2 \subseteq ob /\ \A r \in ob \ ob2 : r = row
         /\ Foremost(R \ {row}, ob2)
<1>1. row \in R /\ \A q \in R : row.seq <= q.seq
  BY OldestIsFirst
<1>2. row.seq \in Nat /\ \A r \in ob : r.seq \in Nat
  BY <1>1 DEF Row
<1>3. ASSUME NEW r \in ob \ ob2 PROVE r = row
  <2>1. r \in ob /\ r.seq <= row.seq /\ r.seq \in Nat
    BY <1>2
  <2>2. r \in R
    BY <2>1, <1>1 DEF Foremost
  <2>3. row.seq <= r.seq
    BY <2>2, <1>1
  <2>4. r.seq = row.seq
    BY <2>1, <2>3, <1>2
  <2>5. QED
    BY <2>2, <2>4, <1>1 DEF Keyed
<1>4. ASSUME NEW r \in ob2, NEW q \in R \ {row}, r.seq <= q.seq PROVE r \in R \ {row}
  <2>1. r \in ob /\ r.seq > row.seq
    OBVIOUS
  <2>2. r \in R
    BY <2>1, <1>4 DEF Foremost
  <2>3. r # row
    BY <2>1, <1>2
  <2>4. QED
    BY <2>2, <2>3
<1>5. QED
  BY <1>3, <1>4 DEF Foremost

LEMMA AckStep ==
  ASSUME IInv, NEW f \in Flushers, Ack(f)
  PROVE  StoreStep /\ \E l \in Local : BatchStep(f, l)
<1>1. PICK R, row : R = flush[f].rows /\ row = Oldest(R)
  OBVIOUS
<1>2. /\ flush[f].pc = "ack" /\ outbox' = {r \in outbox : r.seq > row.seq}
      /\ UNCHANGED <<events, alerts, raised, nextSeq, forfeited, truncated, received>>
  BY <1>1 DEF Ack, agent, history
<1>3. /\ R \in SUBSET Row /\ flush \in [Flushers -> Local] /\ flush[f] \in Local
      /\ outbox \in SUBSET Row /\ IsFiniteSet(outbox) /\ nextSeq \in Nat /\ Keyed(outbox, nextSeq)
  BY <1>1, LocalFields DEF IInv, TypeInv
<1>4. R # {} /\ Stored(row, received) /\ Keyed(R, nextSeq) /\ Foremost(R, outbox)
  BY <1>1, <1>2 DEF IInv, FlushInv, RowsInv
<1>5. /\ outbox' \subseteq outbox /\ (\A r \in outbox \ outbox' : r = row)
      /\ Foremost(R \ {row}, outbox')
  <2>1. PICK ob, ob2, n : ob = outbox /\ ob2 = outbox' /\ n = nextSeq
    OBVIOUS
  <2>2. ob \in SUBSET Row /\ Keyed(R, n) /\ Foremost(R, ob)
    BY <2>1, <1>3, <1>4
  <2>3. \A r : r \in ob2 <=> r \in ob /\ r.seq > row.seq
    BY <2>1, <1>2
  <2>4. /\ ob2 \subseteq ob /\ \A r \in ob \ ob2 : r = row
        /\ Foremost(R \ {row}, ob2)
    <3>1. R # {} /\ row = Oldest(R) /\ R \in SUBSET Row
      BY <1>1, <1>3, <1>4
    <3>2. QED
      BY <2>2, <2>3, <3>1, AckDeletesOne
  <2>5. QED
    BY <2>1, <2>4
<1>6. StoreStep
  <2>1. outbox' \in SUBSET Row /\ IsFiniteSet(outbox')
    BY <1>3, <1>5, FS_Subset
  <2>2. Keyed(outbox', nextSeq')
    BY <1>2, <1>3, <1>5 DEF Keyed
  <2>3. received \in Kept /\ Within(received, received)
    BY NothingNew
  <2>4. nextSeq <= nextSeq
    BY <1>3
  <2>5. Later(outbox, received, nextSeq, outbox', received', nextSeq')
    BY <1>2, <1>5, <2>3, <2>4 DEF Later
  <2>6. \A r \in outbox \ outbox' : Stored(r, received')
    BY <1>2, <1>4, <1>5
  <2>7. QED
    BY <1>2, <1>3, <2>1, <2>2, <2>3, <2>5, <2>6 DEF StoreStep, IInv, TypeInv, Within
<1>7. PICK Q : Q = R \ {row}
  OBVIOUS
<1>8. PICK l : l = Vars("backlog", flush[f].events, flush[f].alerts, Q, flush[f].sent)
  OBVIOUS
<1>9. flush' = [flush EXCEPT ![f] = l]
  <2>1. PICK fl, fl2 : fl = flush /\ fl2 = flush'
    OBVIOUS
  <2>2. fl \in [Flushers -> Local] /\ fl2 = [fl EXCEPT ![f].pc = "backlog", ![f].rows = Q]
    BY <1>1, <1>3, <1>7, <2>1 DEF Ack
  <2>3. fl[f] \in Local /\ fl2 = [fl EXCEPT ![f] = [fl[f] EXCEPT !.pc = "backlog", !.rows = Q]]
    BY <2>2
  <2>4. [fl[f] EXCEPT !.pc = "backlog", !.rows = Q] = l
    BY <2>1, <2>3, <1>8, OtherPcRows
  <2>5. QED
    BY <2>1, <2>3, <2>4
<1>10. l.pc = "backlog" /\ l.rows = Q
  BY <1>8, VarsFields
<1>11. RowsInv(l, outbox', received', nextSeq')
  <2>1. Keyed(Q, nextSeq')
    BY <1>2, <1>4, <1>7 DEF Keyed
  <2>2. QED
    BY <2>1, <1>5, <1>7, <1>10 DEF RowsInv
<1>12. "backlog" \in Pcs \ {"idle", "done", "sent"} /\ Within(received, received') /\ Q \in SUBSET Row
  BY <1>3, <1>6, <1>7 DEF Pcs, StoreStep, Later
<1>13. QED
  BY <1>6, <1>8, <1>9, <1>11, <1>12, SameBatch

(* The last chunk leaves nothing of the batch unsent.                      *)
LEMMA SendChunkStep ==
  ASSUME IInv, NEW f \in Flushers, SendChunk(f)
  PROVE  StoreStep /\ \E l \in Local : BatchStep(f, l)
<1>1. PICK m \in Local : m = flush[f]
  BY DEF IInv, TypeInv
<1>2. /\ m.pc \in Pcs /\ m.events \in Seq(Items) /\ m.alerts \in SUBSET Items
      /\ m.rows \in SUBSET Row /\ m.sent \in Nat /\ m.sent <= Len(m.events)
      /\ BatchInv(m, received) /\ flush \in [Flushers -> Local]
  BY <1>1, LocalFields DEF IInv, TypeInv, FlushInv, BatchInv
<1>3. PICK last : last = IF m.sent + Chunk < Len(m.events) THEN m.sent + Chunk ELSE Len(m.events)
  OBVIOUS
<1>4. PICK A : A = IF m.sent = 0 THEN m.alerts ELSE {}
  OBVIOUS
<1>5. PICK E : E = ToSet(SubSeq(m.events, m.sent + 1, last))
  OBVIOUS
<1>6. PICK next : next = IF last >= Len(m.events) THEN [m EXCEPT !.pc = "sent"]
                         ELSE [m EXCEPT !.sent = last]
  OBVIOUS
<1>7. /\ m.pc = "backlog" /\ m.rows = {} /\ Request(f, E, A, next)
      /\ UNCHANGED <<events, alerts, raised, outbox, nextSeq, forfeited, truncated>>
  BY <1>1, <1>3, <1>4, <1>5, <1>6 DEF SendChunk, agent, store, history
<1>8. /\ Len(m.events) \in Nat /\ last \in Nat /\ m.sent <= last /\ last <= Len(m.events)
      /\ (last # 0 => m.sent # 0 \/ A = m.alerts)
      /\ \A k \in 1..Len(m.events) : m.events[k] \in Items
  BY <1>2, <1>3, <1>4, SetOfSeq, ShippingAssumption
<1>9. E = {m.events[k] : k \in (m.sent + 1)..last}
  BY <1>2, <1>5, <1>8, SetOfSlice
<1>10. E \in SUBSET Items /\ A \in SUBSET Items
  BY <1>2, <1>4, <1>8, <1>9
<1>11. SUFFICES ASSUME StoreStep, flush' = [flush EXCEPT ![f] = next],
                       E \subseteq received'.events, A \subseteq received'.alerts
                PROVE  \E k \in Local : BatchStep(f, k)
  BY <1>7, <1>10, RequestStep
<1>12. Within(received, received')
  BY <1>11 DEF StoreStep, Later
<1>13. \A k \in 1..last : m.events[k] \in received'.events
  <2>1. PICK R : R = received'.events
    OBVIOUS
  <2>2. \A k \in 1..m.sent : m.events[k] \in R
    BY <1>2, <1>12, <2>1 DEF BatchInv, Within
  <2>3. ToSet(SubSeq(m.events, m.sent + 1, last)) \subseteq R
    BY <1>5, <1>11, <2>1
  <2>4. QED
    BY <1>2, <1>8, <2>1, <2>2, <2>3, ChunkSent
<1>14. m.alerts \subseteq received'.alerts
  BY <1>2, <1>4, <1>11, <1>12 DEF BatchInv, Within
<1>15. PICK pc, n : /\ next = Vars(pc, m.events, m.alerts, m.rows, n)
                    /\ \/ pc = "sent" /\ n = m.sent /\ last >= Len(m.events)
                       \/ pc = "backlog" /\ n = last
  <2>1. CASE last >= Len(m.events)
    BY <2>1, <1>6, OtherPc
  <2>2. CASE ~(last >= Len(m.events))
    BY <2>2, <1>6, <1>7, OtherSent
  <2>3. QED
    BY <2>1, <2>2
<1>16. next.pc = pc /\ next.sent = n
       /\ next.events = m.events /\ next.alerts = m.alerts /\ next.rows = m.rows
  BY <1>15, VarsFields
<1>17. next \in Local
  <2>1. pc \in Pcs /\ n \in Nat
    BY <1>2, <1>8, <1>15 DEF Pcs
  <2>2. QED
    BY <2>1, <1>2, <1>15, VarsType
<1>18. BatchInv(next, received')
  <2>1. next.sent <= Len(next.events) /\ \A k \in 1..next.sent : k \in 1..last
    BY <1>2, <1>8, <1>15, <1>16
  <2>2. next.pc = "sent" => ToSet(next.events) \subseteq received'.events
    <3>1. SUFFICES ASSUME last >= Len(m.events) PROVE ToSet(m.events) \subseteq received'.events
      BY <1>15, <1>16
    <3>2. last = Len(m.events)
      BY <3>1, <1>8
    <3>3. ToSet(m.events) = {m.events[k] : k \in 1..Len(m.events)}
      BY <1>2, SetOfSeq
    <3>4. QED
      BY <3>2, <3>3, <1>13
  <2>3. next.pc \notin {"idle", "done"}
    BY <1>15, <1>16
  <2>4. QED
    BY <2>1, <2>2, <2>3, <1>13, <1>14, <1>16 DEF BatchInv
<1>19. RowsInv(next, outbox', received', nextSeq')
  BY <1>1, <1>11, <1>15, <1>16, SameRows
<1>20. BatchStep(f, next)
  BY <1>1, <1>11, <1>16, <1>18, <1>19 DEF BatchStep
<1>21. QED
  BY <1>17, <1>20

LEMMA FinishStep ==
  ASSUME IInv, NEW f \in Flushers, Finish(f)
  PROVE  StoreStep /\ \E l \in Local : BatchStep(f, l)
<1>1. /\ flush[f].pc = "sent" /\ flush' = [flush EXCEPT ![f] = Done(f)]
      /\ UNCHANGED <<events, alerts, raised, outbox, nextSeq, forfeited, truncated, received>>
  BY DEF Finish, store, history
<1>2. StoreStep
  BY <1>1, NothingNew, StoreStays
<1>3. ToSet(flush[f].events) \subseteq received.events /\ flush[f].alerts \subseteq received.alerts
  BY <1>1 DEF IInv, FlushInv, BatchInv
<1>4. \E l \in Local : BatchStep(f, l)
  BY <1>1, <1>3, EndsBatch
<1>5. QED
  BY <1>2, <1>4

LEMMA MeasureStep ==
  ASSUME IInv, NEW f \in Flushers, Measure(f)
  PROVE  StoreStep /\ \E l \in Local : BatchStep(f, l)
<1>1. UNCHANGED <<events, alerts, raised, outbox, nextSeq, forfeited, truncated, received>>
  BY DEF Measure, store, history
<1>2. StoreStep
  BY <1>1, NothingNew, StoreStays
<1>3. CASE flush[f].events = << >> /\ flush[f].alerts = {}
  <2>1. flush' = [flush EXCEPT ![f] = Done(f)]
    BY <1>3 DEF Measure
  <2>2. ToSet(flush[f].events) = {}
    BY <1>3, SetOfEmpty
  <2>3. \E l \in Local : BatchStep(f, l)
    BY <1>3, <2>1, <2>2, EndsBatch
  <2>4. QED
    BY <1>2, <2>3
<1>4. CASE ~(flush[f].events = << >> /\ flush[f].alerts = {})
  <2>1. PICK pc \in {"put", "putAlerts"} : flush' = [flush EXCEPT ![f] = [flush[f] EXCEPT !.pc = pc]]
    BY <1>4 DEF Measure
  <2>2. pc \in Pcs \ {"idle", "done", "sent", "ack"}
    BY DEF Pcs
  <2>3. flush' = [flush EXCEPT ![f].pc = pc]
    BY <2>1
  <2>4. QED
    BY <1>2, <2>2, <2>3, GoesOn
<1>5. QED
  BY <1>3, <1>4

\* The new row has the next key, and whatever of the batch had room.
LEMMA PutStep ==
  ASSUME IInv, NEW f \in Flushers, Put(f)
  PROVE  StoreStep /\ \E l \in Local : BatchStep(f, l)
<1>1. PICK m \in Local : m = flush[f]
  BY DEF IInv, TypeInv
<1>2. m.events \in Seq(Items) /\ m.alerts \in SUBSET Items
  BY LocalFields
<1>3. PICK k : k = IF Len(m.events) > MaxBatch THEN Len(m.events) - MaxBatch + 1 ELSE 1
  OBVIOUS
<1>4. PICK kept : kept = IF m.pc = "putAlerts" THEN {} ELSE ToSet(SubSeq(m.events, k, Len(m.events)))
  OBVIOUS
<1>5. PICK row : row = [seq |-> nextSeq, events |-> kept, alerts |-> m.alerts]
  OBVIOUS
<1>6. /\ outbox' = outbox \cup {row} /\ nextSeq' = nextSeq + 1
      /\ truncated' = truncated \cup (ToSet(m.events) \ kept)
      /\ flush' = [flush EXCEPT ![f] = Done(f)]
      /\ UNCHANGED <<events, alerts, raised, forfeited, received>>
  BY <1>1, <1>3, <1>4, <1>5 DEF Put, agent
<1>7. /\ outbox \in SUBSET Row /\ IsFiniteSet(outbox) /\ nextSeq \in Nat /\ Keyed(outbox, nextSeq)
      /\ received \in Kept /\ forfeited \in Kept /\ truncated \in SUBSET Items
  BY DEF IInv, TypeInv
<1>8. ToSet(m.events) \subseteq Items /\ kept \subseteq Items
  <2>1. /\ Len(m.events) \in Nat /\ ToSet(m.events) \subseteq Items /\ k \in Int /\ 1 <= k
        /\ \A j \in 1..Len(m.events) : m.events[j] \in Items
    BY <1>2, <1>3, SetOfSeq, ShippingAssumption
  <2>2. ToSet(SubSeq(m.events, k, Len(m.events))) = {m.events[j] : j \in k..Len(m.events)}
    BY <1>2, <2>1, SetOfSlice
  <2>3. QED
    BY <1>4, <2>1, <2>2
<1>9. row \in Row /\ row.seq = nextSeq /\ row.events = kept /\ row.alerts = m.alerts
  BY <1>2, <1>5, <1>7, <1>8 DEF Row
<1>10. Keyed(outbox', nextSeq')
  <2>1. \A r \in outbox : r.seq < nextSeq /\ r.seq \in Nat
    BY <1>7 DEF Keyed, Row
  <2>2. \A r \in outbox' : r.seq < nextSeq'
    BY <1>6, <1>7, <1>9, <2>1
  <2>3. ASSUME NEW r \in outbox', NEW q \in outbox', r.seq = q.seq PROVE r = q
    BY <1>6, <1>7, <1>9, <2>1, <2>3 DEF Keyed
  <2>4. QED
    BY <2>2, <2>3 DEF Keyed
<1>11. StoreStep
  <2>1. outbox' \in SUBSET Row /\ IsFiniteSet(outbox') /\ nextSeq' \in Nat
    BY <1>6, <1>7, <1>9, FS_AddElement
  <2>2. nextSeq <= nextSeq' /\ nextSeq <= row.seq
    BY <1>6, <1>7, <1>9
  <2>3. Later(outbox, received, nextSeq, outbox', received', nextSeq')
    BY <1>6, <2>2 DEF Later, Within
  <2>4. QED
    BY <1>6, <1>7, <1>8, <1>10, <2>1, <2>3 DEF StoreStep, Within
<1>12. row \in outbox'
  BY <1>6
<1>13. \A x \in ToSet(m.events) : x \in row.events \/ x \in truncated'
  BY <1>6, <1>9
<1>14. \E l \in Local : BatchStep(f, l)
  BY <1>1, <1>6, <1>9, <1>12, <1>13, EndsBatch
<1>15. QED
  BY <1>11, <1>14

LEMMA Forfeited ==
  ASSUME IInv, NEW E \in SUBSET Items, NEW A \in SUBSET Items,
         forfeited' = Union(forfeited, [events |-> E, alerts |-> A])
  PROVE  /\ forfeited' \in Kept /\ Within(forfeited, forfeited')
         /\ E \subseteq forfeited'.events /\ A \subseteq forfeited'.alerts
<1>1. forfeited \in Kept
  BY DEF IInv, TypeInv
<1>2. forfeited' = [events |-> forfeited.events \cup E, alerts |-> forfeited.alerts \cup A]
  BY DEF Union
<1>3. forfeited'.events = forfeited.events \cup E /\ forfeited'.alerts = forfeited.alerts \cup A
  BY <1>2
<1>4. QED
  BY <1>1, <1>2, <1>3 DEF Kept, Within

\* The batches of the flushers are made of items.
LEMMA BatchItems ==
  ASSUME IInv, NEW f \in Flushers
  PROVE  ToSet(flush[f].events) \subseteq Items /\ flush[f].alerts \subseteq Items
<1>1. flush[f].events \in Seq(Items) /\ flush[f].alerts \in SUBSET Items
  BY LocalFields DEF IInv, TypeInv
<1>2. QED
  BY <1>1, SetOfSeq

LEMMA RaiseStep ==
  ASSUME IInv, NEW f \in Flushers, Raise(f)
  PROVE  StoreStep /\ \E l \in Local : BatchStep(f, l)
<1>1. PICK E, A : E = ToSet(flush[f].events) /\ A = flush[f].alerts
  OBVIOUS
<1>2. /\ forfeited' = Union(forfeited, [events |-> E, alerts |-> A])
      /\ flush' = [flush EXCEPT ![f] = Done(f)]
      /\ UNCHANGED <<events, alerts, raised, outbox, nextSeq, truncated, received>>
  BY <1>1 DEF Raise, agent, store
<1>3. /\ forfeited' \in Kept /\ Within(forfeited, forfeited')
      /\ E \subseteq forfeited'.events /\ A \subseteq forfeited'.alerts
  BY <1>1, <1>2, BatchItems, Forfeited
<1>4. StoreStep
  <2>1. nextSeq <= nextSeq /\ \A r \in outbox : r \in outbox
    BY DEF IInv, TypeInv
  <2>2. Later(outbox, received, nextSeq, outbox', received', nextSeq')
    BY <1>2, <2>1, NothingNew DEF Later
  <2>3. QED
    BY <1>2, <1>3, <2>2 DEF StoreStep, IInv, TypeInv
<1>5. \E l \in Local : BatchStep(f, l)
  BY <1>1, <1>2, <1>3, EndsBatch
<1>6. QED
  BY <1>4, <1>5

-----------------------------------------------------------------------------
\* The steps that fill and empty the buffers.
LEMMA SwapStep ==
  ASSUME IInv, NEW f \in Flushers, Swap(f)
  PROVE  IInv' /\ (Lossless => Lossless')
<1>1. /\ flush[f].pc = "idle" /\ events' = << >> /\ alerts' = {}
      /\ UNCHANGED <<raised, outbox, nextSeq, forfeited, truncated, received>>
  BY DEF Swap, store, history
<1>2. PICK l : l = Vars("peek", events, alerts, {}, 0)
  OBVIOUS
<1>3. flush' = [flush EXCEPT ![f] = l]
  <2>1. PICK k : k = [Idle EXCEPT !.pc = "peek"]
    OBVIOUS
  <2>2. [Idle EXCEPT !.pc = "peek", !.events = events, !.alerts = alerts]
          = [k EXCEPT !.events = events, !.alerts = alerts]
    BY <2>1
  <2>3. k = Vars("peek", << >>, {}, {}, 0) /\ k \in Local
    <3>1. PICK i \in Local : i = Idle /\ i = Vars("idle", << >>, {}, {}, 0)
      BY IdleVars, IdleIsGood
    <3>2. [i EXCEPT !.pc = "peek"] = Vars("peek", i.events, i.alerts, i.rows, i.sent)
      BY OtherPc
    <3>3. i.events = << >> /\ i.alerts = {} /\ i.rows = {} /\ i.sent = 0
      BY <3>1, VarsFields
    <3>4. Vars("peek", << >>, {}, {}, 0) \in Local
      BY VarsType, EmptySeq DEF Pcs
    <3>5. QED
      BY <2>1, <3>1, <3>2, <3>3, <3>4
  <2>4. k.pc = "peek" /\ k.rows = {} /\ k.sent = 0
    BY <2>3, VarsFields
  <2>5. [k EXCEPT !.events = events, !.alerts = alerts] = l
    BY <2>3, <2>4, <1>2, OtherBatch
  <2>6. QED
    BY <2>2, <2>5 DEF Swap
<1>4. l.pc = "peek" /\ l.events = events /\ l.alerts = alerts /\ l.rows = {} /\ l.sent = 0
  BY <1>2, VarsFields
<1>5. flush \in [Flushers -> Local] /\ l \in Local /\ Len(events) \in Nat
  BY <1>2, VarsType, SetOfSeq DEF IInv, TypeInv, Pcs
<1>6. flush' \in [Flushers -> Local] /\ flush'[f] = l /\ \A g \in Flushers \ {f} : flush'[g] = flush[g]
  BY <1>3, <1>5
<1>7. BatchInv(l, received) /\ RowsInv(l, outbox, received, nextSeq)
  BY <1>4, <1>5 DEF BatchInv, RowsInv, Keyed, Foremost
<1>8. FlushInv'
  <2>1. ASSUME NEW g \in Flushers
        PROVE  BatchInv(flush'[g], received) /\ RowsInv(flush'[g], outbox, received, nextSeq)
    BY <1>6, <1>7 DEF IInv, FlushInv
  <2>2. QED
    BY <2>1, <1>1 DEF FlushInv
<1>9. << >> \in Seq(Items)
  BY EmptySeq
<1>10. IInv'
  BY <1>1, <1>6, <1>8, <1>9 DEF IInv, TypeInv
<1>11. ToSet(flush[f].events) = {} /\ flush[f].alerts = {}
  BY <1>1, SetOfEmpty DEF IInv, FlushInv, BatchInv
<1>12. ASSUME NEW x, HeldAlert(x) PROVE HeldAlert(x)'
  BY <1>1, <1>4, <1>6, <1>11, <1>12 DEF HeldAlert
<1>13. ASSUME NEW x, HeldEvent(x) PROVE HeldEvent(x)'
  BY <1>1, <1>4, <1>6, <1>11, <1>13 DEF HeldEvent
<1>14. QED
  BY <1>1, <1>10, <1>12, <1>13 DEF Lossless

LEMMA ProcessStep ==
  ASSUME IInv, NEW e \in Items, NEW s \in BOOLEAN, NEW a \in BOOLEAN, Process(e, s, a)
  PROVE  IInv' /\ (Lossless => Lossless')
<1>1. PICK E, A : E = (IF s THEN {e} ELSE {}) /\ A = (IF a THEN {e} ELSE {})
  OBVIOUS
<1>2. /\ raised' = Union(raised, [events |-> E, alerts |-> A])
      /\ events' = (IF s THEN Append(events, e) ELSE events)
      /\ alerts' = (IF a THEN alerts \cup {e} ELSE alerts)
      /\ UNCHANGED <<outbox, nextSeq, flush, received, forfeited, truncated>>
  BY <1>1 DEF Process, store
<1>3. events \in Seq(Items) /\ alerts \in SUBSET Items /\ raised \in Kept
  BY DEF IInv, TypeInv
<1>4. events' \in Seq(Items) /\ ToSet(events') = ToSet(events) \cup E
  BY <1>1, <1>2, <1>3, SetOfAppend
<1>5. alerts' = alerts \cup A /\ alerts' \in SUBSET Items
  BY <1>1, <1>2, <1>3
<1>6. raised' \in Kept /\ raised'.events = raised.events \cup E /\ raised'.alerts = raised.alerts \cup A
  <2>1. raised' = [events |-> raised.events \cup E, alerts |-> raised.alerts \cup A]
    BY <1>2 DEF Union
  <2>2. E \in SUBSET Items /\ A \in SUBSET Items
    BY <1>1
  <2>3. QED
    BY <2>1, <2>2, <1>3 DEF Kept
<1>7. IInv'
  BY <1>2, <1>4, <1>5, <1>6 DEF IInv, TypeInv, FlushInv
<1>8. ASSUME NEW x PROVE (HeldAlert(x) => HeldAlert(x)') /\ (x \in A => HeldAlert(x)')
  BY <1>2, <1>5 DEF HeldAlert
<1>9. ASSUME NEW x PROVE (HeldEvent(x) => HeldEvent(x)') /\ (x \in E => HeldEvent(x)')
  BY <1>2, <1>4 DEF HeldEvent
<1>10. QED
  BY <1>6, <1>7, <1>8, <1>9 DEF Lossless

LEMMA ExitStep ==
  ASSUME IInv, Exit
  PROVE  IInv' /\ (Lossless => Lossless')
<1>1. PICK E, A : /\ E = ToSet(events) \cup UNION {ToSet(flush[f].events) : f \in Flushers}
                  /\ A = alerts \cup UNION {flush[f].alerts : f \in Flushers}
  OBVIOUS
<1>2. /\ forfeited' = Union(forfeited, [events |-> E, alerts |-> A])
      /\ events' = << >> /\ alerts' = {} /\ flush' = [f \in Flushers |-> Idle]
      /\ UNCHANGED <<raised, outbox, nextSeq, truncated, received>>
  BY <1>1 DEF Exit, store, InMemory
<1>3. E \in SUBSET Items /\ A \in SUBSET Items
  BY <1>1, BatchItems, SetOfSeq DEF IInv, TypeInv
<1>4. /\ forfeited' \in Kept /\ Within(forfeited, forfeited')
      /\ E \subseteq forfeited'.events /\ A \subseteq forfeited'.alerts
  BY <1>2, <1>3, Forfeited
<1>5. Idle \in Local /\ BatchInv(Idle, received) /\ RowsInv(Idle, outbox, received, nextSeq)
  <2>1. PICK f \in Flushers : f = "main"
    BY DEF Flushers
  <2>2. Idle = Vars("idle", << >>, {}, {}, 0)
    BY IdleVars
  <2>3. QED
    BY <2>2, IdleIsGood
<1>6. flush' \in [Flushers -> Local] /\ \A f \in Flushers : flush'[f] = Idle
  BY <1>2, <1>5
<1>7. << >> \in Seq(Items)
  BY EmptySeq
<1>8. IInv'
  BY <1>2, <1>4, <1>5, <1>6, <1>7 DEF IInv, TypeInv, FlushInv
<1>9. ASSUME NEW x, HeldAlert(x) PROVE HeldAlert(x)'
  BY <1>1, <1>2, <1>4, <1>9 DEF HeldAlert, Within
<1>10. ASSUME NEW x, HeldEvent(x) PROVE HeldEvent(x)'
  BY <1>1, <1>2, <1>4, <1>10 DEF HeldEvent, Within
<1>11. QED
  BY <1>2, <1>8, <1>9, <1>10 DEF Lossless

LEMMA OtherStep ==
  ASSUME IInv, UNCHANGED <<events, alerts, raised, outbox, nextSeq, flush, received, forfeited, truncated>>
  PROVE  IInv' /\ (Lossless => Lossless')
BY DEF IInv, TypeInv, FlushInv, Lossless, HeldAlert, HeldEvent

-----------------------------------------------------------------------------
LEMMA FlushKeeps ==
  ASSUME IInv, NEW f \in Flushers,
         \/ Peek(f) \/ Connect(f) \/ SendRow(f) \/ Ack(f) \/ SendChunk(f)
         \/ Finish(f) \/ Measure(f) \/ Put(f) \/ Raise(f)
  PROVE  StoreStep /\ IInv' /\ (Lossless => Lossless')
<1>1. StoreStep /\ \E l \in Local : BatchStep(f, l)
  <2>1. CASE Peek(f)
    BY <2>1, PeekStep
  <2>2. CASE Connect(f)
    BY <2>2, ConnectStep
  <2>3. CASE SendRow(f)
    BY <2>3, SendRowStep
  <2>4. CASE Ack(f)
    BY <2>4, AckStep
  <2>5. CASE SendChunk(f)
    BY <2>5, SendChunkStep
  <2>6. CASE Finish(f)
    BY <2>6, FinishStep
  <2>7. CASE Measure(f)
    BY <2>7, MeasureStep
  <2>8. CASE Put(f)
    BY <2>8, PutStep
  <2>9. CASE Raise(f)
    BY <2>9, RaiseStep
  <2>10. QED
    BY <2>1, <2>2, <2>3, <2>4, <2>5, <2>6, <2>7, <2>8, <2>9
<1>2. QED
  BY <1>1, MovesOn

RemovedWasStored == \A r \in outbox \ outbox' : Stored(r, received')

LEMMA NextKeeps ==
  ASSUME IInv, [Next]_vars
  PROVE  IInv' /\ (Lossless => Lossless') /\ RemovedWasStored
<1>1. ASSUME NEW e \in Items, NEW s \in BOOLEAN, NEW a \in BOOLEAN, Process(e, s, a)
      PROVE  IInv' /\ (Lossless => Lossless') /\ RemovedWasStored
  BY <1>1, ProcessStep DEF Process, store, RemovedWasStored
<1>2. ASSUME NEW f \in Flushers, Swap(f)
      PROVE  IInv' /\ (Lossless => Lossless') /\ RemovedWasStored
  BY <1>2, SwapStep DEF Swap, store, RemovedWasStored
<1>3. ASSUME NEW f \in Flushers,
             \/ Peek(f) \/ Connect(f) \/ SendRow(f) \/ Ack(f) \/ SendChunk(f)
             \/ Finish(f) \/ Measure(f) \/ Put(f) \/ Raise(f)
      PROVE  IInv' /\ (Lossless => Lossless') /\ RemovedWasStored
  BY <1>3, FlushKeeps DEF StoreStep, RemovedWasStored
<1>4. CASE Exit
  BY <1>4, ExitStep DEF Exit, store, RemovedWasStored
<1>5. CASE Stop \/ HeartbeatStep \/ UNCHANGED vars
  <2>1. UNCHANGED <<events, alerts, raised, outbox, nextSeq, flush, received, forfeited, truncated>>
    BY <1>5 DEF Stop, HeartbeatStep, vars, agent, store, history
  <2>2. QED
    BY <2>1, OtherStep DEF RemovedWasStored
<1>6. QED
  BY <1>1, <1>2, <1>3, <1>4, <1>5 DEF Next

LEMMA InitHolds == Init => IInv /\ Lossless
<1> SUFFICES ASSUME Init PROVE IInv /\ Lossless
  OBVIOUS
<1>1. /\ events = << >> /\ alerts = {} /\ outbox = {} /\ nextSeq = 1
      /\ flush = [f \in Flushers |-> Idle] /\ truncated = {}
      /\ received = Nothing /\ raised = Nothing /\ forfeited = Nothing
  BY DEF Init
<1>2. Nothing \in Kept /\ Nothing.events = {} /\ Nothing.alerts = {}
  BY DEF Nothing, Kept
<1>3. Idle \in Local /\ BatchInv(Idle, received) /\ RowsInv(Idle, outbox, received, nextSeq)
  <2>1. PICK f \in Flushers : f = "main"
    BY DEF Flushers
  <2>2. Idle = Vars("idle", << >>, {}, {}, 0)
    BY IdleVars
  <2>3. QED
    BY <2>2, IdleIsGood
<1>4. TypeInv
  BY <1>1, <1>2, <1>3, EmptySeq, FS_EmptySet DEF TypeInv
<1>5. Keyed(outbox, nextSeq) /\ FlushInv
  BY <1>1, <1>3 DEF Keyed, FlushInv
<1>6. QED
  BY <1>1, <1>2, <1>4, <1>5 DEF IInv, Lossless

(* flush, outbox_put, outbox_ack and stop: types, the keys of the rows,    *)
(* and what the server has of the batch that each flusher has in hand.     *)
THEOREM Invariance == Spec => []IInv
<1>1. Init => IInv
  BY InitHolds
<1>2. IInv /\ [Next]_vars => IInv'
  BY NextKeeps
<1>3. QED
  BY <1>1, <1>2, PTL DEF Spec

(* An event or an alert that was buffered is in memory, in the outbox or   *)
(* on the server, unless the process or a flush was cut short with it or,  *)
(* for an event, the outbox had no room: whatever fails and however often, *)
(* with two flushes that send, acknowledge and put rows at the same time.  *)
THEOREM NothingIsSilentlyLost == Spec => []NothingSilentlyLost
<1>1. Init => Lossless
  BY InitHolds
<1>2. IInv /\ Lossless /\ [Next]_vars => Lossless'
  BY NextKeeps
<1>3. Lossless => NothingSilentlyLost
  BY LosslessMeans
<1>4. QED
  BY <1>1, <1>2, <1>3, Invariance, PTL DEF Spec

(* outbox_ack deletes every row up to a seq: the flusher has sent that row *)
(* and all before it, also when another flusher has put or deleted rows    *)
(* since it read them.                                                     *)
THEOREM AckedRowsWereStored == Spec => AckedWasStored
<1>1. IInv /\ [Next]_vars =>
        [\A r \in outbox \ outbox' :
           r.events \subseteq received'.events /\ r.alerts \subseteq received'.alerts]_vars
  BY NextKeeps DEF RemovedWasStored, Stored
<1>2. QED
  BY <1>1, Invariance, PTL DEF Spec, AckedWasStored

=============================================================================
