--------------------------- MODULE EndpointProofs ---------------------------
(***************************************************************************)
(* What is proved of two parts of the endpoint that share no state.        *)
(*                                                                         *)
(* Isolation: the channel of the endpoint with its server is kept by any   *)
(* number of actions of one thread, whichever of their commands fail; and  *)
(* what these actions report is what the firewall does then.               *)
(*                                                                         *)
(* Sensors, from "The sensors" on: at rest the pipeline has been told what *)
(* a sensor knows, or it is on its way; what it is told is news; and what  *)
(* is said to have ended has.                                              *)
(***************************************************************************)
EXTENDS Isolation, Sensors, SequenceTheorems, WellFoundedInduction, TLAPS

IsolateChain == "SENTINEL-XDR-ISOLATE"
BlockChain == "SENTINEL-XDR"

\* What no packet to or from may be dropped, and the rules that see to it.
Peers == IF serverIsName THEN {"lo"} ELSE {"lo", "server"}
Protected == {Accept(d, p) : d \in Dirs, p \in Peers}
DropAll == Drop("any", "any")

(* In the chain of the isolation every rule that drops comes after those   *)
(* that protect; the other chain has only rules about whom one may block.  *)
Keeps(s) == \A k \in 1..Len(s) : s[k].drop => \A x \in Protected : \E j \in 1..(k - 1) : s[j] = x
Blocks(s) == \A k \in 1..Len(s) : \E d \in Dirs, p \in Blockable : s[k] = Drop(d, p)
IsSeq(s) == \E S : s \in Seq(S)

ChainInv(R) ==
  /\ \A c \in DOMAIN R : IsSeq(R[c])
  /\ DOMAIN R \subseteq {IsolateChain, BlockChain}
  /\ IsolateChain \in DOMAIN R => Keeps(R[IsolateChain])
  /\ BlockChain \in DOMAIN R => Blocks(R[BlockChain])

Adds(c) == c.op = "add" /\ c.chain = IsolateChain
Empties(c) == c.op \in {"flush", "remove"} /\ c.chain = IsolateChain

Ops == {"new", "flush", "remove", "check jump", "insert jump", "delete jump",
        "check", "add", "delete"}

GoodCommand(c) ==
  /\ c.op \in Ops /\ c.chain \in {IsolateChain, BlockChain}
  /\ Adds(c) => c.needed /\ c.rule \in Protected \cup {DropAll}
  /\ c.op = "add" /\ c.chain = BlockChain =>
       \E d \in Dirs, p \in Blockable : c.rule = Drop(d, p)
  /\ c.op = "delete" => c.chain = BlockChain

InPlace(x, R) == /\ IsolateChain \in DOMAIN R
                 /\ \E k \in 1..Len(R[IsolateChain]) : R[IsolateChain][k] = x

(* What is left of an action: before a command that drops everything, each *)
(* protecting rule is added, or is in place and no command empties the     *)
(* chain.                                                                  *)
PlanInv(l, R) ==
  /\ IsSeq(l)
  /\ \A k \in 1..Len(l) : GoodCommand(l[k])
  /\ \A k \in 1..Len(l) : \A j \in 1..(k - 1) : Adds(l[j]) => ~Empties(l[k])
  /\ \A k \in 1..Len(l) : Adds(l[k]) /\ l[k].rule = DropAll =>
       \A x \in Protected :
         \/ \E j \in 1..(k - 1) : Adds(l[j]) /\ l[j].rule = x
         \/ InPlace(x, R) /\ \A j \in 1..(k - 1) : ~Empties(l[j])

RunInv(r, R) ==
  \/ r = Idle
  \/ \E action, ip, l : /\ r = [action |-> action, ip |-> ip, left |-> l]
                        /\ l # << >> /\ PlanInv(l, R)

IInv ==
  /\ ChainInv(rules)
  /\ run = [a \in Actors |-> run[a]]
  /\ \A a \in Actors : RunInv(run[a], rules)

-----------------------------------------------------------------------------
(* One command.                                                            *)

LEMMA Smallest ==
  ASSUME NEW T, T \subseteq Nat, T # {}
  PROVE  \E n \in T : \A m \in T : n <= m
<1> DEFINE Less == {ss \in Nat \X Nat : ss[1] < ss[2]}
<1>1. IsWellFoundedOn(Less, Nat)
  BY NatLessThanWellFounded DEF OpToRel
<1> HIDE DEF Less
<1>2. PICK n \in T : \A m \in T : <<m, n>> \notin Less
  BY <1>1, WFMin
<1>3. \A m \in T : ~(m < n)
  BY <1>2 DEF Less
<1>4. QED
  BY <1>3

\* The rule that -D takes out leaves the others as they are.
First(s, x) == SelectInSeq(s, LAMBDA r : r = x)

LEMMA Removed ==
  ASSUME NEW S, NEW s \in Seq(S), NEW x \in ToSet(s), NEW t, t = RemoveAt(s, First(s, x))
  PROVE  /\ t \in Seq(S) /\ \A k \in 1..Len(t) : \E j \in 1..Len(s) : t[k] = s[j]
         /\ \A j \in 1..Len(s) : s[j] # x => \E k \in 1..Len(t) : t[k] = s[j]
<1> DEFINE Is == {i \in 1..Len(s) : s[i] = x}
           i == First(s, x)
<1>1. Len(s) \in Nat /\ DOMAIN s = 1..Len(s) /\ s \in [1..Len(s) -> S]
  BY LenProperties
<1>2. Is # {} /\ Is \in SUBSET Nat
  BY <1>1 DEF ToSet
<1>3. i = Min(Is)
  BY <1>2 DEF First, SelectInSeq
<1>4. \E n \in Is : \A m \in Is : n <= m
  BY <1>2, Smallest
<1>5. i \in Is
  BY <1>3, <1>4 DEF Min
<1>6. i \in 1..Len(s) /\ s[i] = x
  BY <1>5
<1> HIDE DEF i, Is
<1> DEFINE a == SubSeq(s, 1, i - 1)
           b == SubSeq(s, i + 1, Len(s))
<1>7. /\ a \in Seq(S) /\ Len(a) = i - 1
      /\ \A k \in 1..(i - 1) : a[k] = s[k]
  BY <1>1, <1>6, SubSeqProperties
<1>8. /\ b \in Seq(S) /\ Len(b) = Len(s) - i
      /\ \A k \in 1..(Len(s) - i) : b[k] = s[i + k]
  <2>1. i + 1 \in 1..(Len(s) + 1) /\ Len(s) \in i..Len(s) /\ Len(s) - (i + 1) + 1 = Len(s) - i
    BY <1>1, <1>6
  <2>2. b \in Seq(S) /\ Len(b) = Len(s) - (i + 1) + 1
    BY <2>1, <1>1, SubSeqProperties
  <2>3. \A k \in 1..(Len(s) - (i + 1) + 1) : b[k] = s[(i + 1) + k - 1]
    BY <2>1, <1>1, SubSeqProperties
  <2>4. \A k \in 1..(Len(s) - i) : (i + 1) + k - 1 = i + k
    BY <1>1, <1>6
  <2>5. QED
    BY <2>1, <2>2, <2>3, <2>4
<1> HIDE DEF a, b
<1>9. /\ a \o b \in Seq(S) /\ Len(a \o b) = Len(s) - 1
      /\ \A k \in 1..(Len(s) - 1) : (a \o b)[k] = IF k <= i - 1 THEN a[k] ELSE b[k - (i - 1)]
  <2>1. Len(a) + Len(b) = Len(s) - 1
    BY <1>1, <1>6, <1>7, <1>8
  <2>2. /\ a \o b \in Seq(S) /\ Len(a \o b) = Len(a) + Len(b)
        /\ \A k \in 1..(Len(a) + Len(b)) :
             (a \o b)[k] = IF k <= Len(a) THEN a[k] ELSE b[k - Len(a)]
    BY <1>7, <1>8, ConcatProperties
  <2>3. QED
    BY <2>1, <2>2, <1>7
<1>10. \A k \in 1..(Len(s) - 1) : \E j \in 1..Len(s) : (a \o b)[k] = s[j]
  <2> SUFFICES ASSUME NEW k \in 1..(Len(s) - 1)
               PROVE  \E j \in 1..Len(s) : (a \o b)[k] = s[j]
    OBVIOUS
  <2>1. CASE k <= i - 1
    <3>1. k \in 1..(i - 1) /\ k \in 1..Len(s)
      BY <1>1, <1>6, <2>1
    <3>2. (a \o b)[k] = s[k]
      BY <1>7, <1>9, <2>1, <3>1
    <3>3. QED
      BY <3>1, <3>2
  <2>2. CASE ~(k <= i - 1)
    <3>1. k - (i - 1) \in 1..(Len(s) - i) /\ i + (k - (i - 1)) = k + 1 /\ k + 1 \in 1..Len(s)
      BY <1>1, <1>6, <2>2
    <3>2. (a \o b)[k] = s[k + 1]
      BY <1>8, <1>9, <2>2, <3>1
    <3>3. QED
      BY <3>1, <3>2
  <2>3. QED
    BY <2>1, <2>2
<1>11. \A j \in 1..Len(s) : s[j] # x => \E k \in 1..(Len(s) - 1) : (a \o b)[k] = s[j]
  <2> SUFFICES ASSUME NEW j \in 1..Len(s), s[j] # x
               PROVE  \E k \in 1..(Len(s) - 1) : (a \o b)[k] = s[j]
    OBVIOUS
  <2>1. j # i
    BY <1>6
  <2>2. CASE j <= i - 1
    <3>1. j \in 1..(i - 1) /\ j \in 1..(Len(s) - 1)
      BY <1>1, <1>6, <2>2
    <3>2. (a \o b)[j] = s[j]
      BY <1>7, <1>9, <2>2, <3>1
    <3>3. QED
      BY <3>1, <3>2
  <2>3. CASE ~(j <= i - 1)
    <3>1. /\ j - 1 \in 1..(Len(s) - 1) /\ ~(j - 1 <= i - 1)
          /\ (j - 1) - (i - 1) \in 1..(Len(s) - i) /\ i + ((j - 1) - (i - 1)) = j
      BY <1>1, <1>6, <2>1, <2>3
    <3>2. (a \o b)[j - 1] = s[j]
      BY <1>8, <1>9, <3>1
    <3>3. QED
      BY <3>1, <3>2
  <2>4. QED
    BY <2>2, <2>3
<1>12. QED
  BY <1>9, <1>10, <1>11 DEF RemoveAt, a, b, i

LEMMA Empty == IsSeq(<< >>) /\ Keeps(<< >>) /\ Blocks(<< >>)
<1>1. << >> \in Seq({}) /\ 1..Len(<< >>) = {}
  OBVIOUS
<1>2. QED
  BY <1>1 DEF IsSeq, Keeps, Blocks

(* What a command that works does to the chains.                           *)
LEMMA Worked ==
  ASSUME NEW c, GoodCommand(c), Works(c), ChainInv(rules),
         Adds(c) /\ c.rule = DropAll => \A x \in Protected : InPlace(x, rules)
  PROVE  /\ ChainInv(RulesAfter(c))
         /\ Adds(c) => InPlace(c.rule, RulesAfter(c))
         /\ ~Empties(c) => \A x : InPlace(x, rules) => InPlace(x, RulesAfter(c))
<1> DEFINE R == RulesAfter(c)
<1>0. IsolateChain # BlockChain
  BY DEF IsolateChain, BlockChain
<1>1. ASSUME R = rules PROVE ChainInv(R) /\ \A x : InPlace(x, rules) => InPlace(x, R)
  BY <1>1
<1>2. CASE c.op \in {"check jump", "insert jump", "delete jump", "check"}
  BY <1>1, <1>2 DEF RulesAfter, Adds
<1>3. CASE c.op = "new"
  <2>1. /\ c.chain \notin DOMAIN rules /\ DOMAIN R = DOMAIN rules \cup {c.chain}
        /\ R[c.chain] = << >> /\ \A x \in DOMAIN rules : R[x] = rules[x]
    BY <1>3 DEF Works, RulesAfter
  <2> HIDE DEF R
  <2>4. ChainInv(R)
    BY <2>1, <1>0, Empty DEF ChainInv, GoodCommand
  <2>5. \A x : InPlace(x, rules) => InPlace(x, R)
    BY <2>1 DEF InPlace
  <2>6. QED
    BY <2>4, <2>5, <1>3 DEF Adds, R
<1>4. CASE c.op = "flush"
  <2>1. /\ DOMAIN R = DOMAIN rules /\ c.chain \in DOMAIN rules
        /\ R[c.chain] = << >> /\ \A x \in DOMAIN rules \ {c.chain} : R[x] = rules[x]
    BY <1>4 DEF Works, RulesAfter
  <2> HIDE DEF R
  <2>4. ChainInv(R)
    BY <2>1, <1>0, Empty DEF ChainInv, GoodCommand
  <2>5. ~Empties(c) => \A x : InPlace(x, rules) => InPlace(x, R)
    BY <2>1, <1>4, <1>0 DEF InPlace, Empties, GoodCommand
  <2>6. QED
    BY <2>4, <2>5, <1>4 DEF Adds, R
<1>5. CASE c.op = "remove"
  <2>1. /\ DOMAIN R = DOMAIN rules \ {c.chain} /\ \A x \in DOMAIN R : R[x] = rules[x]
    BY <1>5 DEF RulesAfter
  <2> HIDE DEF R
  <2>2. ChainInv(R)
    BY <2>1, <1>0 DEF ChainInv
  <2>3. ~Empties(c) => \A x : InPlace(x, rules) => InPlace(x, R)
    BY <2>1, <1>5, <1>0 DEF InPlace, Empties, GoodCommand
  <2>4. QED
    BY <2>2, <2>3, <1>5 DEF Adds, R
<1>6. CASE c.op = "add"
  <2> DEFINE s == rules[c.chain]
  <2>1. /\ DOMAIN R = DOMAIN rules /\ c.chain \in DOMAIN rules
        /\ R[c.chain] = Append(s, c.rule)
        /\ \A x \in DOMAIN rules \ {c.chain} : R[x] = rules[x]
    BY <1>6 DEF Works, RulesAfter
  <2>2. PICK S : s \in Seq(S)
    BY <2>1 DEF ChainInv, IsSeq
  <2>3. s \in Seq(S \cup {c.rule})
    BY <2>2, SeqMonotonic
  <2> HIDE DEF R, s
  <2>4. /\ Len(s) \in Nat /\ R[c.chain] \in Seq(S \cup {c.rule}) /\ Len(R[c.chain]) = Len(s) + 1
        /\ \A k \in 1..Len(s) : R[c.chain][k] = s[k]
        /\ R[c.chain][Len(s) + 1] = c.rule
    BY <2>1, <2>3, AppendProperties, LenProperties
  <2>5. \A ch \in DOMAIN R : IsSeq(R[ch])
    <3>1. IsSeq(R[c.chain])
      BY <2>4 DEF IsSeq
    <3>2. QED
      BY <2>1, <3>1 DEF ChainInv
  <2>6. CASE c.chain = IsolateChain
    <3>1. c.rule \in Protected \cup {DropAll}
      BY <1>6, <2>6 DEF GoodCommand, Adds
    <3>2. c.rule.drop => \A x \in Protected : \E j \in 1..Len(s) : s[j] = x
      BY <1>6, <2>6, <3>1 DEF Adds, InPlace, Protected, Accept, s
    <3>3. \A k \in 1..Len(s) : s[k].drop =>
            \A x \in Protected : \E j \in 1..(k - 1) : s[j] = x
      BY <2>1, <2>6 DEF ChainInv, Keeps, s
    <3>4. Keeps(R[IsolateChain])
      <4> SUFFICES ASSUME NEW k \in 1..(Len(s) + 1), R[IsolateChain][k].drop, NEW x \in Protected
                   PROVE  \E j \in 1..(k - 1) : R[IsolateChain][j] = x
        BY <2>4, <2>6 DEF Keeps
      <4>1. CASE k = Len(s) + 1
        <5>1. PICK j \in 1..Len(s) : s[j] = x
          BY <2>4, <2>6, <3>2, <4>1
        <5>2. QED
          BY <2>4, <2>6, <4>1, <5>1
      <4>2. CASE k \in 1..Len(s)
        <5>1. PICK j \in 1..(k - 1) : s[j] = x
          BY <2>4, <2>6, <3>3, <4>2
        <5>2. j \in 1..Len(s)
          BY <2>4, <4>2
        <5>3. QED
          BY <2>4, <2>6, <5>1, <5>2
      <4>3. QED
        BY <2>4, <4>1, <4>2
    <3>5. ChainInv(R)
      BY <2>1, <2>5, <2>6, <3>4, <1>0 DEF ChainInv
    <3>6. InPlace(c.rule, R)
      BY <2>1, <2>4, <2>6 DEF InPlace
    <3>7. \A x : InPlace(x, rules) => InPlace(x, R)
      BY <2>1, <2>4, <2>6 DEF InPlace, s
    <3>8. QED
      BY <3>5, <3>6, <3>7 DEF R
  <2>7. CASE c.chain = BlockChain
    <3>1. \A k \in 1..Len(s) : \E d \in Dirs, p \in Blockable : s[k] = Drop(d, p)
      BY <2>1, <2>7 DEF ChainInv, Blocks, s
    <3>2. \E d \in Dirs, p \in Blockable : c.rule = Drop(d, p)
      BY <1>6, <2>7 DEF GoodCommand
    <3>3. Blocks(R[BlockChain])
      <4> SUFFICES ASSUME NEW k \in 1..(Len(s) + 1)
                   PROVE  \E d \in Dirs, p \in Blockable : R[BlockChain][k] = Drop(d, p)
        BY <2>4, <2>7 DEF Blocks
      <4>1. k \in 1..Len(s) \/ k = Len(s) + 1
        BY <2>4
      <4>2. QED
        BY <2>4, <2>7, <3>1, <3>2, <4>1
    <3>4. ChainInv(R)
      BY <2>1, <2>5, <2>7, <3>3, <1>0 DEF ChainInv
    <3>5. \A x : InPlace(x, rules) => InPlace(x, R)
      BY <2>1, <2>7, <1>0 DEF InPlace
    <3>6. QED
      BY <3>4, <3>5, <2>7, <1>0 DEF R, Adds
  <2>8. QED
    BY <2>6, <2>7 DEF GoodCommand
<1>7. CASE c.op = "delete"
  <2> DEFINE s == rules[BlockChain]
  <2>1. /\ c.chain = BlockChain /\ BlockChain \in DOMAIN rules /\ c.rule \in ToSet(s)
        /\ DOMAIN R = DOMAIN rules
        /\ R[BlockChain] = RemoveAt(s, First(s, c.rule))
        /\ \A x \in DOMAIN rules \ {BlockChain} : R[x] = rules[x]
    BY <1>7 DEF GoodCommand, Works, RulesAfter, First
  <2>2. PICK S : s \in Seq(S)
    BY <2>1 DEF ChainInv, IsSeq
  <2> HIDE DEF R, s
  <2>3. /\ R[BlockChain] \in Seq(S)
        /\ \A k \in 1..Len(R[BlockChain]) : \E j \in 1..Len(s) : R[BlockChain][k] = s[j]
    BY <2>1, <2>2, Removed
  <2>4. \A k \in 1..Len(s) : \E d \in Dirs, p \in Blockable : s[k] = Drop(d, p)
    BY <2>1 DEF ChainInv, Blocks, s
  <2>5. \A ch \in DOMAIN R : IsSeq(R[ch])
    <3>1. IsSeq(R[BlockChain])
      BY <2>3 DEF IsSeq
    <3>2. QED
      BY <2>1, <3>1 DEF ChainInv
  <2>6. Blocks(R[BlockChain])
    BY <2>3, <2>4 DEF Blocks
  <2>7. ChainInv(R)
    BY <2>1, <2>5, <2>6, <1>0 DEF ChainInv
  <2>8. \A x : InPlace(x, rules) => InPlace(x, R)
    BY <2>1, <1>0 DEF InPlace
  <2>9. QED
    BY <2>7, <2>8, <1>7 DEF R, Adds
<1>8. QED
  BY <1>2, <1>3, <1>4, <1>5, <1>6, <1>7 DEF GoodCommand, Ops

-----------------------------------------------------------------------------
(* The plans of the actions.                                               *)

\* The lists of one, two and three elements.
LEMMA Lists ==
  ASSUME NEW a, NEW b, NEW c, NEW l
  PROVE  /\ l = <<a>> => IsSeq(l) /\ Len(l) = 1 /\ \A k \in 1..1 : l[k] \in {a, b, c}
         /\ l = <<a, b>> => /\ IsSeq(l) /\ Len(l) = 2 /\ l[1] = a /\ l[2] = b
                            /\ \A k \in 1..2 : l[k] \in {a, b, c}
         /\ l = <<a, b, c>> => IsSeq(l) /\ Len(l) = 3 /\ \A k \in 1..3 : l[k] \in {a, b, c}
<1>1. ASSUME l = <<a>> PROVE IsSeq(l) /\ Len(l) = 1 /\ \A k \in 1..1 : l[k] \in {a, b, c}
  <2>1. l \in Seq({a})
    BY <1>1
  <2>2. l[1] = a /\ Len(l) = 1 /\ \A k \in 1..1 : k = 1
    BY <1>1
  <2>3. QED
    BY <2>1, <2>2 DEF IsSeq
<1>2. ASSUME l = <<a, b>>
      PROVE  /\ IsSeq(l) /\ Len(l) = 2 /\ l[1] = a /\ l[2] = b
             /\ \A k \in 1..2 : l[k] \in {a, b, c}
  <2>1. l \in Seq({a, b})
    BY <1>2
  <2>2. l[1] = a /\ l[2] = b /\ Len(l) = 2 /\ \A k \in 1..2 : k = 1 \/ k = 2
    BY <1>2
  <2>3. QED
    BY <2>1, <2>2 DEF IsSeq
<1>3. ASSUME l = <<a, b, c>>
      PROVE  IsSeq(l) /\ Len(l) = 3 /\ \A k \in 1..3 : l[k] \in {a, b, c}
  <2>1. l \in Seq({a, b, c})
    BY <1>3
  <2>2. l[1] = a /\ l[2] = b /\ l[3] = c /\ Len(l) = 3
    BY <1>3
  <2>3. \A k \in 1..3 : k = 1 \/ k = 2 \/ k = 3
    OBVIOUS
  <2>4. QED
    BY <2>1, <2>2, <2>3 DEF IsSeq
<1>4. QED
  BY <1>1, <1>2, <1>3

LEMMA Joined ==
  ASSUME NEW s, NEW t, IsSeq(s), IsSeq(t)
  PROVE  /\ IsSeq(s \o t) /\ Len(s) \in Nat /\ Len(t) \in Nat
         /\ Len(s \o t) = Len(s) + Len(t)
         /\ \A k \in 1..Len(s) : (s \o t)[k] = s[k]
         /\ \A k \in 1..Len(t) : (s \o t)[Len(s) + k] = t[k]
<1>1. PICK S, T : s \in Seq(S) /\ t \in Seq(T)
  BY DEF IsSeq
<1>2. s \in Seq(S \cup T) /\ t \in Seq(S \cup T)
  BY <1>1, SeqMonotonic
<1>3. Len(s) \in Nat /\ Len(t) \in Nat
  BY <1>1, LenProperties
<1>4. /\ s \o t \in Seq(S \cup T) /\ Len(s \o t) = Len(s) + Len(t)
      /\ \A k \in 1..(Len(s) + Len(t)) :
           (s \o t)[k] = IF k <= Len(s) THEN s[k] ELSE t[k - Len(s)]
  BY <1>2, ConcatProperties
<1>5. \A k \in 1..Len(s) : (s \o t)[k] = s[k]
  BY <1>3, <1>4
<1>6. \A k \in 1..Len(t) : (s \o t)[Len(s) + k] = t[k]
  <2> SUFFICES ASSUME NEW k \in 1..Len(t) PROVE (s \o t)[Len(s) + k] = t[k]
    OBVIOUS
  <2>1. Len(s) + k \in 1..(Len(s) + Len(t)) /\ ~(Len(s) + k <= Len(s)) /\ (Len(s) + k) - Len(s) = k
    BY <1>3
  <2>2. QED
    BY <1>4, <2>1
<1>7. QED
  BY <1>3, <1>4, <1>5, <1>6 DEF IsSeq

Join(s, t) == s \o t

LEMMA JoinLength ==
  ASSUME NEW s, NEW t, IsSeq(s), IsSeq(t)
  PROVE  /\ IsSeq(Join(s, t)) /\ Len(s) \in Nat /\ Len(t) \in Nat
         /\ Len(Join(s, t)) = Len(s) + Len(t)
BY Joined DEF Join

LEMMA JoinFirst ==
  ASSUME NEW s, NEW t, IsSeq(s), IsSeq(t), NEW k \in 1..Len(s)
  PROVE  Join(s, t)[k] = s[k]
BY Joined DEF Join

LEMMA JoinSecond ==
  ASSUME NEW s, NEW t, IsSeq(s), IsSeq(t), NEW k \in 1..Len(t)
  PROVE  Join(s, t)[Len(s) + k] = t[k]
BY Joined DEF Join

\* Each protecting rule of isolate_host comes before the one that drops, the last.
LEMMA RulesOfIsolation ==
  /\ IsSeq(IsolationRules) /\ Len(IsolationRules) \in Nat \ {0}
  /\ IsolationRules[Len(IsolationRules)] = DropAll
  /\ \A k \in 1..(Len(IsolationRules) - 1) : IsolationRules[k] \in Protected
  /\ \A x \in Protected : \E k \in 1..(Len(IsolationRules) - 1) : IsolationRules[k] = x
<1> DEFINE L == Loopback
           S == Server
           D == <<DropAll>>
<1>1. /\ IsSeq(L) /\ Len(L) = 2 /\ L[1] = Accept("from", "lo") /\ L[2] = Accept("to", "lo")
  <2>1. L \in Seq({Accept("from", "lo"), Accept("to", "lo")})
    BY DEF Loopback
  <2>2. QED
    BY <2>1 DEF Loopback, IsSeq
<1>2. IsSeq(D) /\ Len(D) = 1 /\ D[1] = DropAll
  <2>1. D \in Seq({DropAll})
    OBVIOUS
  <2>2. QED
    BY <2>1 DEF IsSeq
<1>3. /\ IsSeq(S)
      /\ serverIsName => Len(S) = 0
      /\ ~serverIsName => /\ Len(S) = 2 /\ S[1] = Accept("from", "server")
                          /\ S[2] = Accept("to", "server")
  <2>1. CASE serverIsName
    BY <2>1, Empty DEF Server
  <2>2. CASE ~serverIsName
    <3>1. S = <<Accept("from", "server"), Accept("to", "server")>>
      BY <2>2 DEF Server
    <3>2. QED
      BY <2>2, <3>1, Lists
  <2>3. QED
    BY <2>1, <2>2
<1>4. IsolationRules = Join(Join(L, S), D)
  BY DEF IsolationRules, DropAll, Join
<1> HIDE DEF L, S, D
<1>5. /\ IsSeq(Join(L, S)) /\ Len(Join(L, S)) = 2 + Len(S) /\ Len(S) \in Nat
      /\ Join(L, S)[1] = L[1] /\ Join(L, S)[2] = L[2]
      /\ \A k \in 1..Len(S) : Join(L, S)[2 + k] = S[k]
  <2>1. IsSeq(Join(L, S)) /\ Len(S) \in Nat /\ Len(Join(L, S)) = 2 + Len(S)
    BY <1>1, <1>3, JoinLength
  <2>2. \A k \in 1..2 : Join(L, S)[k] = L[k]
    BY <1>1, <1>3, JoinFirst
  <2>3. \A k \in 1..Len(S) : Join(L, S)[Len(L) + k] = S[k]
    BY <1>1, <1>3, JoinSecond
  <2>4. QED
    BY <1>1, <2>1, <2>2, <2>3
<1>6. /\ IsSeq(IsolationRules) /\ Len(IsolationRules) = 3 + Len(S)
      /\ \A k \in 1..(2 + Len(S)) : IsolationRules[k] = Join(L, S)[k]
      /\ IsolationRules[3 + Len(S)] = DropAll
  <2>0. IsSeq(Join(L, S)) /\ IsSeq(D)
    BY <1>2, <1>5
  <2>1. IsSeq(IsolationRules) /\ Len(IsolationRules) = Len(Join(L, S)) + Len(D)
    BY <1>2, <1>4, <1>5, JoinLength
  <2>2. \A k \in 1..Len(Join(L, S)) : IsolationRules[k] = Join(L, S)[k]
    BY <1>2, <1>4, <1>5, JoinFirst
  <2>3. \A k \in 1..Len(D) : Join(Join(L, S), D)[Len(Join(L, S)) + k] = D[k]
    BY <2>0, JoinSecond, Zenon
  <2>4. IsolationRules[Len(Join(L, S)) + 1] = DropAll
    BY <1>2, <1>4, <2>3
  <2>5. Len(Join(L, S)) + 1 = 3 + Len(S)
    BY <1>5
  <2>6. QED
    BY <1>2, <1>5, <2>1, <2>2, <2>4, <2>5
<1>7. CASE serverIsName
  <2>1. Protected = {Accept("from", "lo"), Accept("to", "lo")}
    BY <1>7 DEF Protected, Peers, Dirs
  <2>2. /\ Len(IsolationRules) = 3
        /\ IsolationRules[1] = L[1] /\ IsolationRules[2] = L[2] /\ IsolationRules[3] = DropAll
    BY <1>3, <1>5, <1>6, <1>7
  <2>3. 1..(Len(IsolationRules) - 1) = {1, 2}
    BY <2>2
  <2>4. QED
    BY <1>1, <1>6, <2>1, <2>2, <2>3
<1>8. CASE ~serverIsName
  <2>1. Protected = {Accept("from", "lo"), Accept("to", "lo"),
                     Accept("from", "server"), Accept("to", "server")}
    BY <1>8 DEF Protected, Peers, Dirs
  <2>2. Len(S) = 2
    BY <1>3, <1>8
  <2>3. Join(L, S)[3] = S[1] /\ Join(L, S)[4] = S[2]
    <3>1. Join(L, S)[2 + 1] = S[1] /\ Join(L, S)[2 + 2] = S[2]
      BY <1>5, <2>2
    <3>2. QED
      BY <3>1
  <2>4. /\ Len(IsolationRules) = 5
        /\ IsolationRules[1] = L[1] /\ IsolationRules[2] = L[2]
        /\ IsolationRules[3] = S[1] /\ IsolationRules[4] = S[2] /\ IsolationRules[5] = DropAll
    BY <1>5, <1>6, <2>2, <2>3
  <2>5. 1..(Len(IsolationRules) - 1) = {1, 2, 3, 4}
    BY <2>4
  <2>6. S[1] = Accept("from", "server") /\ S[2] = Accept("to", "server")
    BY <1>3, <1>8
  <2>7. QED
    BY <1>1, <1>6, <2>1, <2>4, <2>5, <2>6
<1>9. QED
  BY <1>7, <1>8

LEMMA HookJumps ==
  ASSUME NEW op \in {"check jump", "delete jump"}, NEW ch \in {IsolateChain, BlockChain}
  PROVE  /\ IsSeq(PerHook(op, ch)) /\ Len(PerHook(op, ch)) = 3
         /\ \A k \in 1..3 : /\ GoodCommand(PerHook(op, ch)[k])
                            /\ ~Adds(PerHook(op, ch)[k]) /\ ~Empties(PerHook(op, ch)[k])
<1> DEFINE a == OnJump(op, ch, "INPUT")
           b == OnJump(op, ch, "OUTPUT")
           c == OnJump(op, ch, "FORWARD")
<1>1. \A h : /\ GoodCommand(OnJump(op, ch, h))
             /\ ~Adds(OnJump(op, ch, h)) /\ ~Empties(OnJump(op, ch, h))
  BY DEF GoodCommand, Adds, Empties, OnJump, Ops
<1>2. PerHook(op, ch) = <<a, b, c>>
  BY DEF PerHook
<1>3. /\ GoodCommand(a) /\ GoodCommand(b) /\ GoodCommand(c)
      /\ ~Adds(a) /\ ~Adds(b) /\ ~Adds(c) /\ ~Empties(a) /\ ~Empties(b) /\ ~Empties(c)
  BY <1>1
<1> HIDE DEF a, b, c
<1>4. PICK l : l = <<a, b, c>>
  OBVIOUS
<1>5. IsSeq(l) /\ Len(l) = 3 /\ \A k \in 1..3 : l[k] \in {a, b, c}
  BY <1>4, Lists
<1>6. QED
  BY <1>2, <1>3, <1>4, <1>5

LEMMA IsolatePlan ==
  ASSUME NEW R
  PROVE  PlanInv(Isolate, R) /\ Isolate # << >>
<1> DEFINE n == Len(IsolationRules)
           A == <<OnChain("new", IsolateChain), OnChain("flush", IsolateChain)>>
           B == AddIsolationRules
           C == PerHook("check jump", IsolateChain)
           l == Isolate
<1>1. n \in Nat \ {0} /\ DOMAIN IsolationRules = 1..n
  BY RulesOfIsolation, LenProperties DEF IsSeq
<1>2. /\ IsSeq(A) /\ Len(A) = 2
      /\ \A k \in 1..2 : GoodCommand(A[k]) /\ ~Adds(A[k])
  <2> DEFINE x == OnChain("new", IsolateChain)
             y == OnChain("flush", IsolateChain)
  <2>1. \A op \in {"new", "flush"} : /\ GoodCommand(OnChain(op, IsolateChain))
                                     /\ ~Adds(OnChain(op, IsolateChain))
    BY DEF GoodCommand, Adds, OnChain, Ops
  <2>2. GoodCommand(x) /\ ~Adds(x) /\ GoodCommand(y) /\ ~Adds(y)
    BY <2>1
  <2>3. IsSeq(A) /\ Len(A) = 2 /\ \A k \in 1..2 : A[k] \in {x, y}
    <3> HIDE DEF x, y
    <3>1. A = <<x, y>>
      BY DEF x, y
    <3> HIDE DEF A
    <3>2. QED
      BY <3>1, Lists
  <2> HIDE DEF A, x, y
  <2>4. QED
    BY <2>2, <2>3
<1>3. /\ IsSeq(B) /\ Len(B) = n
      /\ \A k \in 1..n : /\ Adds(B[k]) /\ B[k].rule = IsolationRules[k]
                         /\ GoodCommand(B[k]) /\ ~Empties(B[k])
  <2>1. B = [k \in 1..n |-> OnRule("add", IsolateChain, IsolationRules[k], TRUE)]
    BY <1>1 DEF AddIsolationRules, IsolateChain
  <2>2. B \in Seq({OnRule("add", IsolateChain, IsolationRules[k], TRUE) : k \in 1..n}) /\ Len(B) = n
    <3> DEFINE T == {OnRule("add", IsolateChain, IsolationRules[k], TRUE) : k \in 1..n}
    <3>1. B \in [1..n -> T]
      BY <2>1
    <3> HIDE DEF T, B
    <3>2. B \in Seq(T) /\ Len(B) = n
      BY <1>1, <3>1
    <3>3. QED
      BY <3>2 DEF T
  <2>3. \A k \in 1..n : IsolationRules[k] \in Protected \cup {DropAll}
    BY <1>1, RulesOfIsolation
  <2>4. \A r \in Protected \cup {DropAll} :
          LET c == OnRule("add", IsolateChain, r, TRUE)
          IN  Adds(c) /\ c.rule = r /\ GoodCommand(c) /\ ~Empties(c)
    BY DEF OnRule, Adds, Empties, GoodCommand, Ops, IsolateChain, BlockChain
  <2>5. QED
    BY <2>1, <2>2, <2>3, <2>4 DEF IsSeq
<1>4. /\ IsSeq(C) /\ Len(C) = 3
      /\ \A k \in 1..3 : GoodCommand(C[k]) /\ ~Adds(C[k]) /\ ~Empties(C[k])
  BY HookJumps
<1>5. l = Join(Join(A, B), C)
  BY DEF Isolate, IsolateChain, Join
<1> HIDE DEF n, A, B, C, l
<1>6. /\ IsSeq(Join(A, B)) /\ Len(Join(A, B)) = 2 + n
      /\ \A k \in 1..2 : Join(A, B)[k] = A[k]
      /\ \A k \in 1..n : Join(A, B)[2 + k] = B[k]
  <2>0. IsSeq(A) /\ IsSeq(B)
    BY <1>2, <1>3
  <2>1. IsSeq(Join(A, B)) /\ Len(Join(A, B)) = Len(A) + Len(B)
    BY <2>0, JoinLength
  <2>2. \A k \in 1..2 : Join(A, B)[k] = A[k]
    BY <1>2, <2>0, JoinFirst
  <2>3. \A k \in 1..Len(B) : Join(A, B)[Len(A) + k] = B[k]
    BY <2>0, JoinSecond
  <2>4. QED
    BY <1>2, <1>3, <2>1, <2>2, <2>3
<1>7. /\ IsSeq(l) /\ Len(l) = 5 + n
      /\ \A k \in 1..(2 + n) : l[k] = Join(A, B)[k]
      /\ \A k \in 1..3 : l[2 + n + k] = C[k]
  <2>0. IsSeq(Join(A, B)) /\ IsSeq(C)
    BY <1>4, <1>6
  <2>1. IsSeq(l) /\ Len(l) = Len(Join(A, B)) + Len(C)
    BY <1>5, <2>0, JoinLength
  <2>2. \A k \in 1..(2 + n) : l[k] = Join(A, B)[k]
    BY <1>4, <1>5, <1>6, JoinFirst
  <2>3. \A k \in 1..Len(C) : l[Len(Join(A, B)) + k] = C[k]
    <3>1. \A k \in 1..Len(C) : Join(Join(A, B), C)[Len(Join(A, B)) + k] = C[k]
      BY <2>0, JoinSecond, Zenon
    <3>2. QED
      BY <1>5, <3>1
  <2>4. (2 + n) + 3 = 5 + n
    BY <1>1
  <2>5. \A k \in 1..3 : l[2 + n + k] = C[k]
    BY <1>4, <1>6, <2>3
  <2>6. QED
    BY <1>4, <1>6, <2>1, <2>2, <2>4, <2>5
<1>8. \A k \in 1..2 : GoodCommand(l[k]) /\ ~Adds(l[k])
  BY <1>1, <1>2, <1>6, <1>7
<1>9. \A k \in 3..(2 + n) : /\ Adds(l[k]) /\ GoodCommand(l[k]) /\ ~Empties(l[k])
                            /\ l[k].rule = IsolationRules[k - 2]
  <2> SUFFICES ASSUME NEW k \in 3..(2 + n)
               PROVE  k - 2 \in 1..n /\ l[k] = B[k - 2]
    BY <1>3
  <2>1. k - 2 \in 1..n /\ 2 + (k - 2) = k /\ k \in 1..(2 + n)
    BY <1>1
  <2>2. QED
    BY <1>6, <1>7, <2>1
<1>10. \A k \in (3 + n)..(5 + n) : GoodCommand(l[k]) /\ ~Adds(l[k]) /\ ~Empties(l[k])
  <2> SUFFICES ASSUME NEW k \in (3 + n)..(5 + n)
               PROVE  GoodCommand(l[k]) /\ ~Adds(l[k]) /\ ~Empties(l[k])
    OBVIOUS
  <2>1. k - (2 + n) \in 1..3 /\ 2 + n + (k - (2 + n)) = k
    BY <1>1
  <2>2. QED
    BY <1>4, <1>7, <2>1
<1>11. \A k \in 1..Len(l) : k \in 1..2 \/ k \in 3..(2 + n) \/ k \in (3 + n)..(5 + n)
  BY <1>1, <1>7
<1>12. \A k \in 1..Len(l) : GoodCommand(l[k])
  BY <1>8, <1>9, <1>10, <1>11
<1>13. \A k \in 1..Len(l) : \A j \in 1..(k - 1) : Adds(l[j]) => ~Empties(l[k])
  <2> SUFFICES ASSUME NEW k \in 1..Len(l), NEW j \in 1..(k - 1), Adds(l[j])
               PROVE  ~Empties(l[k])
    OBVIOUS
  <2>1. j \notin 1..2
    BY <1>8
  <2>2. k \notin 1..2
    BY <2>1, <1>7, <1>1
  <2>3. QED
    BY <1>9, <1>10, <1>11, <2>2
<1>14. ASSUME NEW k \in 1..Len(l), Adds(l[k]), l[k].rule = DropAll, NEW x \in Protected
       PROVE  \E j \in 1..(k - 1) : Adds(l[j]) /\ l[j].rule = x
  <2>1. k \in 3..(2 + n)
    BY <1>8, <1>10, <1>11, <1>14
  <2>2. IsolationRules[k - 2] = DropAll
    BY <1>9, <1>14, <2>1
  <2>3. DropAll \notin Protected
    <3>1. DropAll.drop /\ \A d, q : ~Accept(d, q).drop
      BY DEF DropAll, Drop, Accept
    <3>2. \A d, q : DropAll # Accept(d, q)
      BY <3>1, Zenon
    <3> HIDE DEF DropAll
    <3>3. QED
      BY <3>2 DEF Protected
  <2>4. k - 2 = n
    <3>1. k - 2 \in 1..n /\ (k - 2 # n => k - 2 \in 1..(n - 1))
      BY <1>1, <2>1
    <3>2. \A i \in 1..(n - 1) : IsolationRules[i] # DropAll
      BY <2>3, RulesOfIsolation DEF n
    <3>3. QED
      BY <2>2, <3>1, <3>2
  <2>5. PICK i \in 1..(n - 1) : IsolationRules[i] = x
    BY RulesOfIsolation DEF n
  <2>6. i + 2 \in 3..(2 + n) /\ i + 2 \in 1..(k - 1) /\ (i + 2) - 2 = i
    BY <1>1, <2>1, <2>4
  <2>7. QED
    BY <1>9, <2>5, <2>6
<1>15. PlanInv(l, R)
  BY <1>7, <1>12, <1>13, <1>14 DEF PlanInv
<1>16. l # << >>
  <2>1. Len(<< >>) = 0
    OBVIOUS
  <2>2. QED
    BY <1>1, <1>7, <2>1
<1>17. QED
  BY <1>15, <1>16 DEF l

\* A list of commands that adds nothing to the chain of the isolation.
Calm(l) ==
  /\ IsSeq(l) /\ Len(l) \in Nat \ {0}
  /\ \A k \in 1..Len(l) : GoodCommand(l[k]) /\ ~Adds(l[k])

LEMMA CalmThree ==
  ASSUME NEW l, IsSeq(l), Len(l) = 3, \A k \in 1..3 : GoodCommand(l[k]) /\ ~Adds(l[k])
  PROVE  Calm(l)
BY DEF Calm

LEMMA CalmPlan ==
  ASSUME NEW l, NEW R, Calm(l)
  PROVE  PlanInv(l, R) /\ l # << >>
<1>1. Len(<< >>) = 0
  OBVIOUS
<1>2. l # << >>
  BY <1>1 DEF Calm
<1>3. \A k \in 1..Len(l) : \A j \in 1..(k - 1) : j \in 1..Len(l)
  BY DEF Calm
<1>4. QED
  BY <1>2, <1>3 DEF Calm, PlanInv

LEMMA CalmJoined ==
  ASSUME NEW s, NEW t, Calm(s), Calm(t)
  PROVE  Calm(s \o t)
<1>1. /\ IsSeq(s \o t) /\ Len(s) \in Nat \ {0} /\ Len(t) \in Nat \ {0}
      /\ Len(s \o t) = Len(s) + Len(t)
      /\ \A k \in 1..Len(s) : (s \o t)[k] = s[k]
      /\ \A k \in 1..Len(t) : (s \o t)[Len(s) + k] = t[k]
  BY Joined DEF Calm
<1>2. ASSUME NEW k \in 1..(Len(s) + Len(t))
      PROVE  GoodCommand((s \o t)[k]) /\ ~Adds((s \o t)[k])
  <2>1. CASE k \in 1..Len(s)
    BY <1>1, <2>1 DEF Calm
  <2>2. CASE k \notin 1..Len(s)
    <3>1. k - Len(s) \in 1..Len(t) /\ Len(s) + (k - Len(s)) = k
      BY <1>1, <2>2
    <3>2. QED
      BY <1>1, <3>1 DEF Calm
  <2>3. QED
    BY <2>1, <2>2
<1>3. QED
  BY <1>1, <1>2 DEF Calm

LEMMA OtherPlans ==
  ASSUME NEW R, NEW p \in Blockable
  PROVE  /\ PlanInv(Release, R) /\ Release # << >>
         /\ PlanInv(Block(p), R) /\ Block(p) # << >>
         /\ PlanInv(Unblock(p), R) /\ Unblock(p) # << >>
<1>1. ASSUME NEW op \in {"check jump", "delete jump"}, NEW ch \in {IsolateChain, BlockChain}
      PROVE  Calm(PerHook(op, ch))
  <2>1. PICK l : l = PerHook(op, ch)
    OBVIOUS
  <2>2. IsSeq(l) /\ Len(l) = 3 /\ \A k \in 1..3 : GoodCommand(l[k]) /\ ~Adds(l[k])
    BY <1>1, <2>1, HookJumps, Zenon
  <2>3. QED
    BY <2>1, <2>2, CalmThree, Zenon
<1>2. ASSUME NEW op \in {"new", "flush", "remove"}, NEW ch \in {IsolateChain, BlockChain}
      PROVE  GoodCommand(OnChain(op, ch)) /\ ~Adds(OnChain(op, ch))
  BY DEF GoodCommand, Adds, OnChain, Ops
<1>3. ASSUME NEW op \in {"check", "add", "delete"}, NEW d \in Dirs, NEW needed
      PROVE  /\ GoodCommand(OnRule(op, BlockChain, Drop(d, p), needed))
             /\ ~Adds(OnRule(op, BlockChain, Drop(d, p), needed))
  BY DEF GoodCommand, Adds, OnRule, Ops, IsolateChain, BlockChain
<1>4. ASSUME NEW a, NEW b, NEW c, GoodCommand(a), ~Adds(a), GoodCommand(b), ~Adds(b),
             GoodCommand(c), ~Adds(c)
      PROVE  Calm(<<a>>) /\ Calm(<<a, b>>) /\ Calm(<<a, b, c>>)
  <2>1. ASSUME NEW l, NEW n \in {1, 2, 3}, IsSeq(l), Len(l) = n, \A k \in 1..n : l[k] \in {a, b, c}
        PROVE  Calm(l)
    BY <1>4, <2>1 DEF Calm
  <2>2. \A l : l = <<a>> \/ l = <<a, b>> \/ l = <<a, b, c>> => Calm(l)
    BY <2>1, Lists
  <2>3. QED
    BY <2>2, Zenon
<1>5. Calm(Release)
  <2>1. Calm(<<OnChain("flush", IsolateChain), OnChain("remove", IsolateChain)>>)
    BY <1>2, <1>4
  <2>2. Release = PerHook("delete jump", IsolateChain)
                  \o <<OnChain("flush", IsolateChain), OnChain("remove", IsolateChain)>>
    BY DEF Release, IsolateChain
  <2>3. QED
    BY <1>1, <2>1, <2>2, CalmJoined
<1>6. Calm(Block(p))
  <2> DEFINE t == <<OnRule("check", BlockChain, Drop("from", p), FALSE),
                    OnRule("add", BlockChain, Drop("from", p), TRUE),
                    OnRule("add", BlockChain, Drop("to", p), FALSE)>>
  <2>1. Calm(t)
    BY <1>3, <1>4 DEF Dirs
  <2>2. Calm(EnsureChain(BlockChain))
    BY <1>1, <1>2, <1>4, CalmJoined DEF EnsureChain
  <2>3. Block(p) = EnsureChain(BlockChain) \o t
    BY DEF Block, BlockChain
  <2>4. QED
    BY <2>1, <2>2, <2>3, CalmJoined
<1>7. Calm(Unblock(p))
  BY <1>3, <1>4 DEF Unblock, BlockChain, Dirs
<1>8. QED
  BY <1>5, <1>6, <1>7, CalmPlan

-----------------------------------------------------------------------------
(* What is left of a plan.                                                 *)

\* A plan without its first command, after the effect of that command.
LEMMA Shorter ==
  ASSUME NEW l, NEW R, NEW Q, l # << >>, PlanInv(l, R),
         Adds(Head(l)) => InPlace(Head(l).rule, Q),
         ~Empties(Head(l)) => \A x : InPlace(x, R) => InPlace(x, Q)
  PROVE  PlanInv(Tail(l), Q)
<1> DEFINE t == Tail(l)
<1>1. PICK S : l \in Seq(S)
  BY DEF PlanInv, IsSeq
<1>2. /\ Len(l) \in Nat /\ Len(l) >= 1 /\ Head(l) = l[1]
      /\ t \in Seq(S) /\ Len(t) = Len(l) - 1
      /\ \A k \in 1..Len(t) : t[k] = l[k + 1]
  BY <1>1, HeadTailProperties, LenProperties, EmptySeq
<1> HIDE DEF t
<1>3. IsSeq(t)
  BY <1>2 DEF IsSeq
<1>4. \A k \in 1..Len(t) : k + 1 \in 1..Len(l) /\ t[k] = l[k + 1]
  BY <1>2
<1>5. \A k \in 1..Len(t) : GoodCommand(t[k])
  BY <1>4 DEF PlanInv
<1>6. \A k \in 1..Len(t) : \A j \in 1..(k - 1) : Adds(t[j]) => ~Empties(t[k])
  <2> SUFFICES ASSUME NEW k \in 1..Len(t), NEW j \in 1..(k - 1), Adds(t[j])
               PROVE  ~Empties(t[k])
    OBVIOUS
  <2>1. j \in 1..Len(t) /\ j + 1 \in 1..((k + 1) - 1)
    BY <1>2
  <2>2. QED
    BY <1>4, <2>1 DEF PlanInv
<1>7. ASSUME NEW k \in 1..Len(t), Adds(t[k]), t[k].rule = DropAll, NEW x \in Protected
      PROVE  \/ \E j \in 1..(k - 1) : Adds(t[j]) /\ t[j].rule = x
             \/ InPlace(x, Q) /\ \A j \in 1..(k - 1) : ~Empties(t[j])
  <2>1. \A j \in 1..(k - 1) : j \in 1..Len(t) /\ j + 1 \in 1..((k + 1) - 1) /\ t[j] = l[j + 1]
    BY <1>2
  <2>2. \/ \E j \in 1..((k + 1) - 1) : Adds(l[j]) /\ l[j].rule = x
        \/ InPlace(x, R) /\ \A j \in 1..((k + 1) - 1) : ~Empties(l[j])
    BY <1>4, <1>7 DEF PlanInv
  <2>3. CASE InPlace(x, R) /\ \A j \in 1..((k + 1) - 1) : ~Empties(l[j])
    <3>1. 1 \in 1..((k + 1) - 1)
      BY <1>2
    <3>2. QED
      BY <1>2, <2>1, <2>3, <3>1
  <2>4. CASE \E j \in 1..((k + 1) - 1) : Adds(l[j]) /\ l[j].rule = x
    <3>1. PICK j \in 1..((k + 1) - 1) : Adds(l[j]) /\ l[j].rule = x
      BY <2>4
    <3>2. CASE j = 1
      <4>1. \A i \in 1..(k - 1) : 1 \in 1..((i + 1) - 1) /\ i + 1 \in 1..Len(l)
        BY <1>2
      <4>2. \A i \in 1..(k - 1) : ~Empties(l[i + 1])
        BY <3>1, <3>2, <4>1 DEF PlanInv
      <4>3. QED
        BY <1>2, <2>1, <3>1, <3>2, <4>2
    <3>3. CASE j # 1
      <4>1. j - 1 \in 1..(k - 1) /\ (j - 1) + 1 = j
        BY <1>2, <3>3
      <4>2. QED
        BY <2>1, <3>1, <4>1
    <3>4. QED
      BY <3>2, <3>3
  <2>5. QED
    BY <2>2, <2>3, <2>4
<1>8. QED
  BY <1>3, <1>5, <1>6, <1>7 DEF PlanInv, t

\* A plan to which another command was put in front.
LEMMA Longer ==
  ASSUME NEW t, NEW R, NEW d, PlanInv(t, R), GoodCommand(d), ~Adds(d), ~Empties(d)
  PROVE  PlanInv(<<d>> \o t, R) /\ <<d>> \o t # << >>
<1>1. PICK s : s = <<d>>
  OBVIOUS
<1>2. IsSeq(s) /\ Len(s) = 1 /\ \A k \in 1..1 : s[k] = d
  BY <1>1, Lists
<1>3. PICK l : l = Join(s, t)
  OBVIOUS
<1>4. IsSeq(t)
  BY DEF PlanInv
<1>5. IsSeq(l) /\ Len(t) \in Nat /\ Len(l) = Len(s) + Len(t)
  BY <1>2, <1>3, <1>4, JoinLength
<1>6. l[1] = d
  <2>1. \A k \in 1..Len(s) : l[k] = s[k]
    BY <1>2, <1>3, <1>4, JoinFirst
  <2>2. QED
    BY <1>2, <2>1
<1>7. \A k \in 1..Len(t) : l[1 + k] = t[k]
  <2>1. IsSeq(s)
    BY <1>2
  <2>2. \A k \in 1..Len(t) : Join(s, t)[Len(s) + k] = t[k]
    BY <1>4, <2>1, JoinSecond, Zenon
  <2>3. QED
    BY <1>2, <1>3, <2>2
<1>8. Len(l) = Len(t) + 1
  BY <1>2, <1>5
<1>9. \A k \in 1..Len(l) : k = 1 \/ (k - 1 \in 1..Len(t) /\ l[k] = t[k - 1])
  <2> SUFFICES ASSUME NEW k \in 1..Len(l), k # 1
               PROVE  k - 1 \in 1..Len(t) /\ l[k] = t[k - 1]
    OBVIOUS
  <2>1. k - 1 \in 1..Len(t) /\ 1 + (k - 1) = k
    BY <1>5, <1>8
  <2>2. QED
    BY <1>7, <2>1
<1>10. \A k \in 1..Len(l) : GoodCommand(l[k])
  BY <1>6, <1>9 DEF PlanInv
<1>11. ASSUME NEW k \in 1..Len(l), NEW j \in 1..(k - 1), Adds(l[j])
       PROVE  ~Empties(l[k])
  <2>1. j \in 1..Len(l) /\ j # 1 /\ k # 1
    BY <1>5, <1>6, <1>8, <1>11
  <2>2. j - 1 \in 1..((k - 1) - 1)
    BY <1>5, <1>8, <2>1
  <2>3. QED
    BY <1>9, <1>11, <2>1, <2>2 DEF PlanInv
<1>12. ASSUME NEW k \in 1..Len(l), Adds(l[k]), l[k].rule = DropAll, NEW x \in Protected
       PROVE  \/ \E j \in 1..(k - 1) : Adds(l[j]) /\ l[j].rule = x
              \/ InPlace(x, R) /\ \A j \in 1..(k - 1) : ~Empties(l[j])
  <2>1. k # 1 /\ k - 1 \in 1..Len(t) /\ l[k] = t[k - 1]
    BY <1>6, <1>9, <1>12
  <2>2. \/ \E j \in 1..((k - 1) - 1) : Adds(t[j]) /\ t[j].rule = x
        \/ InPlace(x, R) /\ \A j \in 1..((k - 1) - 1) : ~Empties(t[j])
    BY <1>12, <2>1 DEF PlanInv
  <2>3. CASE \E j \in 1..((k - 1) - 1) : Adds(t[j]) /\ t[j].rule = x
    <3>1. PICK j \in 1..((k - 1) - 1) : Adds(t[j]) /\ t[j].rule = x
      BY <2>3
    <3>2. j \in 1..Len(t) /\ 1 + j \in 1..(k - 1)
      BY <1>5, <1>8
    <3>3. QED
      BY <1>7, <3>1, <3>2
  <2>4. CASE InPlace(x, R) /\ \A j \in 1..((k - 1) - 1) : ~Empties(t[j])
    <3>1. ASSUME NEW j \in 1..(k - 1) PROVE ~Empties(l[j])
      <4>1. j = 1 \/ (j - 1 \in 1..((k - 1) - 1) /\ j \in 1..Len(l))
        BY <1>5, <1>8
      <4>2. QED
        BY <1>6, <1>9, <2>4, <4>1
    <3>2. QED
      BY <2>4, <3>1
  <2>5. QED
    BY <2>2, <2>3, <2>4
<1>13. PlanInv(l, R)
  BY <1>5, <1>10, <1>11, <1>12 DEF PlanInv
<1>14. l # << >>
  <2>1. Len(<< >>) = 0
    OBVIOUS
  <2>2. QED
    BY <1>5, <1>8, <2>1
<1>15. QED
  BY <1>1, <1>3, <1>13, <1>14, Zenon DEF Join

\* The first command, and what its effect leaves of the plan.
LEMMA FirstOfPlan ==
  ASSUME NEW l, NEW R, l # << >>, PlanInv(l, R)
  PROVE  /\ GoodCommand(Head(l))
         /\ Adds(Head(l)) /\ Head(l).rule = DropAll => \A x \in Protected : InPlace(x, R)
         /\ <<Head(l)>> \o Tail(l) = l
<1>1. PICK S : l \in Seq(S)
  BY DEF PlanInv, IsSeq
<1>2. Len(l) \in Nat /\ Len(l) >= 1 /\ Head(l) = l[1] /\ <<Head(l)>> \o Tail(l) = l
  BY <1>1, HeadTailProperties, LenProperties, EmptySeq
<1>3. 1 \in 1..Len(l) /\ 1..(1 - 1) = {}
  BY <1>2
<1>4. QED
  BY <1>2, <1>3 DEF PlanInv

LEMMA SamePlan ==
  ASSUME NEW l, NEW R, NEW Q, PlanInv(l, R), \A x : InPlace(x, R) => InPlace(x, Q)
  PROVE  PlanInv(l, Q)
BY DEF PlanInv

-----------------------------------------------------------------------------
(* The steps of one thread.                                                *)

LEMMA Started ==
  ASSUME NEW a, Actors = {a}, IInv, NEW action, NEW ip, NEW l,
         Start(a, action, ip, l), PlanInv(l, rules), l # << >>
  PROVE  ChainInv(rules') /\ RunInv(run'[a], rules') /\ run' = [b \in Actors |-> run'[b]]
BY DEF Start, IInv, RunInv

LEMMA GoesOn ==
  ASSUME NEW a, Actors = {a}, IInv, NEW action, NEW ip, NEW l, NEW todo, NEW success, NEW Q,
         run[a] = [action |-> action, ip |-> ip, left |-> l],
         Continue(a, todo, success), todo # << >> => PlanInv(todo, Q)
  PROVE  RunInv(run'[a], Q) /\ run' = [b \in Actors |-> run'[b]]
<1>1. CASE todo = << >>
  BY <1>1 DEF Continue, IInv, RunInv
<1>2. CASE todo # << >>
  <2>1. run' = [run EXCEPT ![a].left = todo]
    BY <1>2 DEF Continue
  <2>2. run'[a] = [action |-> action, ip |-> ip, left |-> todo]
    BY <2>1 DEF IInv
  <2>3. QED
    BY <1>2, <2>1, <2>2 DEF IInv, RunInv
<1>3. QED
  BY <1>1, <1>2

LEMMA Goes ==
  ASSUME NEW a, Actors = {a}, IInv, NEW action, NEW ip, NEW l, NEW todo, NEW success, NEW Q,
         run[a] = [action |-> action, ip |-> ip, left |-> l],
         Continue(a, todo, success), rules' = Q, ChainInv(Q),
         todo = << >> \/ PlanInv(todo, Q)
  PROVE  ChainInv(rules') /\ RunInv(run'[a], rules') /\ run' = [b \in Actors |-> run'[b]]
<1>1. RunInv(run'[a], Q) /\ run' = [b \in Actors |-> run'[b]]
  BY GoesOn
<1>2. QED
  BY <1>1

LEMMA CommandStep ==
  ASSUME NEW a, Actors = {a}, IInv, Succeed(a) \/ Fail(a)
  PROVE  ChainInv(rules') /\ RunInv(run'[a], rules') /\ run' = [b \in Actors |-> run'[b]]
<1>1. PICK action, ip, l : /\ run[a] = [action |-> action, ip |-> ip, left |-> l]
                           /\ l # << >> /\ PlanInv(l, rules)
  BY DEF Succeed, Fail, IInv, RunInv
<1>0. run[a] = [action |-> action, ip |-> ip, left |-> l]
  BY <1>1
<1>2. PICK c : c = Head(l)
  OBVIOUS
<1>3. /\ GoodCommand(c)
      /\ Adds(c) /\ c.rule = DropAll => \A x \in Protected : InPlace(x, rules)
      /\ <<c>> \o Tail(l) = l
  BY <1>1, <1>2, FirstOfPlan
<1>4. run[a].left = l
  BY <1>1
<1>5. CASE Succeed(a)
  <2>1. PICK Q : Q = RulesAfter(c)
    OBVIOUS
  <2>2. Works(c) /\ rules' = Q /\ Continue(a, AfterSuccess(c, Tail(l)), TRUE)
    BY <1>2, <1>4, <1>5, <2>1 DEF Succeed
  <2>3. /\ ChainInv(Q)
        /\ Adds(c) => InPlace(c.rule, Q)
        /\ ~Empties(c) => \A x : InPlace(x, rules) => InPlace(x, Q)
    BY <1>3, <2>1, <2>2, Worked DEF IInv
  <2>4. PICK todo : todo = AfterSuccess(c, Tail(l))
    OBVIOUS
  <2>9. Continue(a, todo, TRUE) /\ rules' = Q /\ ChainInv(Q)
    BY <2>2, <2>3, <2>4
  <2>5. CASE c.op \in {"delete jump", "delete"}
    <3>1. todo = l
      BY <1>3, <2>4, <2>5 DEF AfterSuccess
    <3>2. PlanInv(todo, Q)
      BY <1>1, <2>3, <2>5, <3>1, SamePlan DEF Empties
    <3>3. QED
      BY <1>0, <2>9, <3>2, Goes
  <2>6. CASE c.op = "check"
    <3>1. todo = << >>
      BY <2>4, <2>6 DEF AfterSuccess
    <3>2. QED
      BY <1>0, <2>9, <3>1, Goes
  <2>7. CASE c.op \notin {"delete jump", "delete", "check"}
    <3>1. todo = Tail(l)
      BY <2>4, <2>7 DEF AfterSuccess
    <3>2. PlanInv(Tail(l), Q)
      <4>1. Adds(Head(l)) => InPlace(Head(l).rule, Q)
        BY <1>2, <2>3
      <4>2. ~Empties(Head(l)) => \A x : InPlace(x, rules) => InPlace(x, Q)
        BY <1>2, <2>3
      <4>3. l # << >> /\ PlanInv(l, rules)
        BY <1>1
      <4>4. QED
        BY <4>1, <4>2, <4>3, Shorter
    <3>3. QED
      BY <1>0, <2>9, <3>1, <3>2, Goes
  <2>8. QED
    BY <2>5, <2>6, <2>7
<1>6. CASE Fail(a)
  <2>1. rules' = rules /\ Continue(a, AfterFailure(c, Tail(l)), ~Aborts(c))
    BY <1>2, <1>4, <1>6 DEF Fail
  <2>2. PICK todo : todo = AfterFailure(c, Tail(l))
    OBVIOUS
  <2>3. ~Adds(c) => PlanInv(Tail(l), rules)
    BY <1>1, <1>2, Shorter
  <2>8. Continue(a, todo, ~Aborts(c)) /\ rules' = rules /\ ChainInv(rules)
    BY <2>1, <2>2 DEF IInv
  <2>4. CASE c.op = "check jump"
    <3>1. PICK d : d = OnJump("insert jump", c.chain, c.hook)
      OBVIOUS
    <3>2. todo = <<d>> \o Tail(l)
      <4>1. AfterFailure(c, Tail(l)) = <<OnJump("insert jump", c.chain, c.hook)>> \o Tail(l)
        <5>1. ~Aborts(c)
          BY <2>4 DEF Aborts
        <5>2. QED
          BY <5>1, <2>4, Zenon DEF AfterFailure
      <4>2. QED
        BY <4>1, <2>2, <3>1, Zenon
    <3>3. GoodCommand(d) /\ ~Adds(d) /\ ~Empties(d)
      BY <1>3, <3>1 DEF GoodCommand, OnJump, Adds, Empties, Ops
    <3>4. PlanInv(todo, rules)
      BY <2>3, <2>4, <3>2, <3>3, Longer DEF Adds
    <3>5. QED
      BY <1>0, <2>8, <3>4, Goes
  <2>5. CASE c.op # "check jump" /\ Aborts(c)
    <3>1. todo = << >>
      BY <2>2, <2>5 DEF AfterFailure
    <3>2. QED
      BY <1>0, <2>8, <3>1, Goes
  <2>6. CASE c.op # "check jump" /\ ~Aborts(c)
    <3>1. todo = Tail(l)
      BY <2>2, <2>6 DEF AfterFailure
    <3>2. ~Adds(c)
      BY <1>3, <2>6 DEF GoodCommand, Aborts, Adds
    <3>3. PlanInv(todo, rules)
      BY <2>3, <3>1, <3>2
    <3>4. QED
      BY <1>0, <2>8, <3>3, Goes
  <2>7. QED
    BY <2>4, <2>5, <2>6
<1>7. QED
  BY <1>5, <1>6

LEMMA StepIInv ==
  ASSUME NEW a, Actors = {a}, IInv, [Next]_vars
  PROVE  IInv'
<1>1. ChainInv(rules') /\ RunInv(run'[a], rules') /\ run' = [b \in Actors |-> run'[b]]
  <2>1. CASE UNCHANGED vars
    BY <2>1 DEF vars, IInv
  <2>2. CASE StartIsolate(a)
    BY <2>2, IsolatePlan, Started DEF StartIsolate
  <2>3. CASE StartRelease(a)
    <3>1. \E p : p \in Blockable
      BY DEF Blockable
    <3>2. QED
      BY <2>3, <3>1, OtherPlans, Started DEF StartRelease
  <2>4. ASSUME NEW p \in Blockable, StartBlock(a, p) \/ StartUnblock(a, p)
        PROVE  ChainInv(rules') /\ RunInv(run'[a], rules') /\ run' = [b \in Actors |-> run'[b]]
    BY <2>4, OtherPlans, Started DEF StartBlock, StartUnblock
  <2>5. CASE Succeed(a) \/ Fail(a)
    BY <2>5, CommandStep
  <2>6. QED
    BY <2>1, <2>2, <2>3, <2>4, <2>5 DEF Next, Orderable
<1>2. serverIsName' = serverIsName
  BY DEF Next, Orderable, StartIsolate, StartRelease, StartBlock, StartUnblock, Start, Succeed, Fail, vars
<1>3. Protected' = Protected /\ Blockable' = Blockable
  BY <1>2 DEF Protected, Peers, Blockable
<1>4. ChainInv(rules)'
  BY <1>1, <1>3 DEF ChainInv, Keeps, Blocks
<1>5. RunInv(run[a], rules)'
  BY <1>1, <1>2, <1>3 DEF RunInv, PlanInv, GoodCommand
<1>6. QED
  BY <1>1, <1>4, <1>5 DEF IInv

LEMMA Initially == ASSUME NEW a, Actors = {a}, Init PROVE IInv
<1>1. DOMAIN rules = {}
  BY DEF Init
<1>2. ChainInv(rules)
  BY <1>1 DEF ChainInv
<1>3. QED
  BY <1>2 DEF Init, IInv, RunInv

\* isolate_host, as long as one thread at a time runs actions: nothing that an
\* iptables command does, or fails to do, drops a packet between the endpoint
\* and itself or its server, unless the server was configured by name.
THEOREM OneThreadKeepsTheChannel ==
  ASSUME NEW a, Actors = {a}
  PROVE  Spec => []ChannelKept
<1>1. Init => IInv
  BY Initially
<1>2. IInv /\ [Next]_vars => IInv'
  BY StepIInv
<1>3. IInv => ChannelKept
  <2> SUFFICES ASSUME IInv, NEW dir \in Dirs, NEW peer \in Peers, Dropped(dir, peer)
               PROVE  FALSE
    BY DEF ChannelKept, Peers
  <2>0. PICK c \in DOMAIN rules : \E k \in DOMAIN rules[c] :
          /\ rules[c][k].drop /\ Matches(rules[c][k], dir, peer)
          /\ \A j \in 1..(k - 1) : ~Matches(rules[c][j], dir, peer)
    BY DEF Dropped
  <2>1. PICK k \in DOMAIN rules[c] :
          /\ rules[c][k].drop /\ Matches(rules[c][k], dir, peer)
          /\ \A j \in 1..(k - 1) : ~Matches(rules[c][j], dir, peer)
    BY <2>0
  <2>2. k \in 1..Len(rules[c])
    <3>1. PICK S : rules[c] \in Seq(S)
      BY DEF IInv, ChainInv, IsSeq
    <3>2. QED
      BY <2>1, <3>1, LenProperties
  <2>3. CASE c = IsolateChain
    <3>1. Accept(dir, peer) \in Protected
      BY DEF Protected
    <3>2. PICK j \in 1..(k - 1) : rules[c][j] = Accept(dir, peer)
      BY <2>1, <2>2, <2>3, <3>1 DEF IInv, ChainInv, Keeps
    <3>3. QED
      BY <2>1, <3>2 DEF Matches, Accept
  <2>4. CASE c = BlockChain
    <3>1. PICK d \in Dirs, p \in Blockable : rules[c][k] = Drop(d, p)
      BY <2>2, <2>4 DEF IInv, ChainInv, Blocks
    <3>2. p = peer
      BY <2>1, <3>1 DEF Matches, Drop, Blockable
    <3>3. QED
      BY <3>2 DEF Blockable, Peers
  <2>5. QED
    BY <2>3, <2>4 DEF IInv, ChainInv
<1>4. QED
  BY <1>1, <1>2, <1>3, PTL DEF Spec

-----------------------------------------------------------------------------
(* What an action reports.  Between two commands it is told from those that*)
(* are left of the action: each condition of the result holds already, or  *)
(* the command that sees to it is among them.                              *)
Left(l) == {l[k] : k \in 1..Len(l)}

\* The order of the commands of an action; no two from the fifth on are alike.
Rank(c) ==
  CASE c.op \in {"new", "delete jump"} -> 1
    [] c.op = "flush" -> 2
    [] c.op = "add" -> IF c.chain = IsolateChain THEN 3 ELSE IF c.needed THEN 6 ELSE 7
    [] c.op = "check" -> 5
    [] c.op = "delete" -> IF c.rule.dir = "from" THEN 8 ELSE 9
    [] OTHER -> 4
Follows(d, c) == Rank(c) < Rank(d) \/ (Rank(c) = Rank(d) /\ Rank(c) <= 4)
Ordered(l) == \A k \in 1..Len(l) : \A j \in 1..(k - 1) : Follows(l[k], l[j])

Ends == {"INPUT", "OUTPUT"}
ToJump == {"check jump", "insert jump"}

Within(c, x, R) == c \in DOMAIN R /\ \E k \in 1..Len(R[c]) : R[c][k] = x

\* The commands that an action consists of.
Hooky(c) == c.op \in ToJump \cup {"delete jump"} => c.hook \in Hooks
Shape(action, p, S) ==
  /\ \A c \in S : Hooky(c)
  /\ CASE action = "isolate_host" ->
            \A c \in S : c.chain = IsolateChain /\ c.op \in {"new", "flush", "add"} \cup ToJump
       [] action = "release_host" ->
            \A c \in S : c.chain = IsolateChain /\ c.op \in {"delete jump", "flush", "remove"}
       [] action = "block_ip" ->
            /\ \A c \in S :
                 /\ c.chain = BlockChain /\ c.op \in {"new", "check", "add"} \cup ToJump
                 /\ c.op = "check" => c.rule = Drop("from", p)
                 /\ c.op = "add" => /\ c.needed \in BOOLEAN
                                    /\ c.rule = Drop(IF c.needed THEN "from" ELSE "to", p)
            /\ (\E c \in S : c.op = "check") => \E c \in S : c.op = "add" /\ c.needed
            /\ (\E c \in S : c.op = "add" /\ c.needed) => \E c \in S : c.op = "add" /\ ~c.needed
       [] action = "unblock_ip" ->
            \A c \in S : /\ c.chain = BlockChain /\ c.op = "delete"
                         /\ c.rule \in {Drop("from", p), Drop("to", p)}

Isolated(S, R, J) ==
  /\ \/ \E c \in S : c.op = "add" /\ c.rule = DropAll
     \/ Within(IsolateChain, DropAll, R) /\ \A c \in S : c.op # "flush"
  /\ \A h \in Ends : (\E c \in S : c.op \in ToJump /\ c.hook = h) \/ J[IsolateChain][h] > 0

Released(S, J) ==
  \A h \in Ends : (\E c \in S : c.op = "delete jump" /\ c.hook = h) \/ J[IsolateChain][h] = 0

Hooked(S, R, J) ==
  \A h \in Ends : \/ \E c \in S : c.op \in ToJump /\ c.hook = h
                  \/ /\ BlockChain \in DOMAIN R => J[BlockChain][h] > 0
                     /\ \A c \in S : c.op # "new"
BlockedFrom(p, S, R) ==
  (\E c \in S : c.op = "add" /\ c.needed) \/ Within(BlockChain, Drop("from", p), R)
BlockedTo(p, S, R) ==
  (\E c \in S : c.op = "add" /\ ~c.needed) \/ Within(BlockChain, Drop("to", p), R)

Unblocked(p, S, R) ==
  \A d \in Dirs : (\E c \in S : c.rule = Drop(d, p)) \/ ~Within(BlockChain, Drop(d, p), R)

\* What holds of the action and the commands left of it, given the failures
\* that it ignored, I; with none left it is the result.
Promise(action, p, S, R, J, I) ==
  CASE action = "isolate_host" -> "insert jump" \in I \/ Isolated(S, R, J)
    [] action = "release_host" -> "delete jump" \in I \/ Released(S, J)
    [] action = "block_ip" ->
         /\ "insert jump" \in I \/ Hooked(S, R, J)
         /\ BlockedFrom(p, S, R)
         /\ {"add", "delete"} \cap I # {} \/ BlockedTo(p, S, R)
    [] action = "unblock_ip" -> "delete" \in I \/ Unblocked(p, S, R)

Isolating == {"isolate_host", "release_host"}
Blocking == {"block_ip", "unblock_ip"}

\* An address is blocked both ways, if at all, but for the last command of block_ip.
Pairing(S) == S # {} /\ \A c \in S : c.op = "add" /\ ~c.needed
Paired(action, p, S, R, I) ==
  {"add", "delete"} \cap I # {} \/
  \A q : Within(BlockChain, Drop("from", q), R) =>
    \/ Within(BlockChain, Drop("to", q), R)
    \/ action = "block_ip" /\ q = p /\ Pairing(S)

PairInv(r, R, I) ==
  IF r = Idle THEN Paired("none", "none", {}, R, I)
  ELSE Paired(r.action, r.ip, Left(r.left), R, I)

UnderWay(r, R, J, I) ==
  r = Idle \/
  \E action \in Isolating \cup Blocking : \E ip, l :
    /\ r = [action |-> action, ip |-> ip, left |-> l]
    /\ Ordered(l) /\ Shape(action, ip, Left(l)) /\ Promise(action, ip, Left(l), R, J, I)

\* A result stands until the next action of its kind.
Stands(result, kind, r, R, J, I) ==
  \/ result = NoResult
  \/ r # Idle /\ r.action \in kind
  \/ /\ result.action \in kind
     /\ result.success => Promise(result.action, result.ip, {}, R, J, I)

JumpTable == [Chains -> [Hooks -> Nat]]
Tables(R, J) ==
  /\ J \in JumpTable
  /\ \A x : Within(IsolateChain, x, R) => x \in Protected \cup {DropAll}

ReportInv(a) ==
  /\ Tables(rules, jumps)
  /\ UnderWay(run[a], rules, jumps, ignored)
  /\ PairInv(run[a], rules, ignored)
  /\ Stands(isolation, Isolating, run[a], rules, jumps, ignored)
  /\ Stands(blocking, Blocking, run[a], rules, jumps, ignored)

-----------------------------------------------------------------------------
LEMMA LeftEmpty == Left(<< >>) = {} /\ Ordered(<< >>)
BY DEF Left, Ordered

LEMMA LeftLists ==
  ASSUME NEW x, NEW y, NEW z
  PROVE  /\ Left(<<x>>) = {x} /\ Ordered(<<x>>)
         /\ Left(<<x, y>>) = {x, y} /\ (Follows(y, x) => Ordered(<<x, y>>))
         /\ Left(<<x, y, z>>) = {x, y, z}
         /\ (Follows(y, x) /\ Follows(z, x) /\ Follows(z, y) => Ordered(<<x, y, z>>))
<1>1. Left(<<x>>) = {x} /\ Ordered(<<x>>)
  BY DEF Left, Ordered
<1>2. Left(<<x, y>>) = {x, y} /\ (Follows(y, x) => Ordered(<<x, y>>))
  <2>1. \A k \in 1..2 : \A j \in 1..(k - 1) : k = 2 /\ j = 1
    OBVIOUS
  <2>2. QED
    BY <2>1 DEF Left, Ordered
<1>3. Left(<<x, y, z>>) = {x, y, z}
      /\ (Follows(y, x) /\ Follows(z, x) /\ Follows(z, y) => Ordered(<<x, y, z>>))
  <2>1. \A k \in 1..3 : \A j \in 1..(k - 1) : (k = 2 /\ j = 1) \/ (k = 3 /\ j = 1) \/ (k = 3 /\ j = 2)
    OBVIOUS
  <2>2. QED
    BY <2>1 DEF Left, Ordered
<1>4. QED
  BY <1>1, <1>2, <1>3

LEMMA LeftJoined ==
  ASSUME NEW s, NEW t, IsSeq(s), IsSeq(t)
  PROVE  /\ Left(s \o t) = Left(s) \cup Left(t)
         /\ Ordered(s) /\ Ordered(t) /\ (\A x \in Left(s), y \in Left(t) : Follows(y, x))
              => Ordered(s \o t)
<1> DEFINE m == Len(s)
           n == Len(t)
           l == s \o t
<1>1. /\ m \in Nat /\ n \in Nat /\ Len(l) = m + n
      /\ \A k \in 1..m : l[k] = s[k]
      /\ \A k \in 1..n : l[m + k] = t[k]
  BY Joined
<1> HIDE DEF m, n, l
<1>2. \A k \in 1..(m + n) : k \in 1..m \/ (k - m \in 1..n /\ m + (k - m) = k)
  BY <1>1
<1>3. \A k \in 1..m : k \in 1..(m + n)
  BY <1>1
<1>4. \A k \in 1..n : m + k \in 1..(m + n)
  BY <1>1
<1>5. Left(l) = Left(s) \cup Left(t)
  <2>1. \A x \in Left(l) : x \in Left(s) \cup Left(t)
    <3>1. \A k \in 1..(m + n) : l[k] \in Left(s) \cup Left(t)
      <4> SUFFICES ASSUME NEW k \in 1..(m + n) PROVE l[k] \in Left(s) \cup Left(t)
        OBVIOUS
      <4>1. CASE k \in 1..m
        BY <1>1, <4>1 DEF Left, m
      <4>2. CASE k - m \in 1..n /\ m + (k - m) = k
        <5>1. l[k] = t[k - m]
          BY <1>1, <4>2
        <5>2. QED
          BY <4>2, <5>1 DEF Left, n
      <4>3. QED
        BY <1>2, <4>1, <4>2
    <3>2. QED
      BY <1>1, <3>1 DEF Left
  <2>2. \A x \in Left(s) : x \in Left(l)
    BY <1>1, <1>3 DEF Left, m
  <2>3. \A x \in Left(t) : x \in Left(l)
    <3>1. \A k \in 1..n : l[m + k] \in Left(l)
      BY <1>1, <1>4 DEF Left
    <3>2. QED
      BY <1>1, <3>1 DEF Left, n
  <2>4. QED
    BY <2>1, <2>2, <2>3
<1>6. ASSUME Ordered(s), Ordered(t), \A x \in Left(s), y \in Left(t) : Follows(y, x)
      PROVE  Ordered(l)
  <2> SUFFICES ASSUME NEW k \in 1..(m + n), NEW j \in 1..(k - 1)
               PROVE  Follows(l[k], l[j])
    BY <1>1 DEF Ordered
  <2>1. j \in 1..(m + n)
    BY <1>1
  <2>2. CASE k \in 1..m
    <3>1. j \in 1..m
      BY <1>1, <2>2
    <3>2. QED
      BY <1>1, <1>6, <2>2, <3>1 DEF Ordered, m
  <2>3. CASE k \notin 1..m /\ j \in 1..m
    <3>1. k - m \in 1..n /\ m + (k - m) = k
      BY <1>2, <2>3
    <3>2. l[k] = t[k - m] /\ l[j] = s[j]
      BY <1>1, <2>3, <3>1
    <3>3. l[k] \in Left(t) /\ l[j] \in Left(s)
      BY <2>3, <3>1, <3>2 DEF Left, m, n
    <3>4. QED
      BY <1>6, <3>3
  <2>4. CASE k \notin 1..m /\ j \notin 1..m
    <3>1. k - m \in 1..n /\ m + (k - m) = k /\ j - m \in 1..n /\ m + (j - m) = j
      BY <1>2, <2>1, <2>4
    <3>2. j - m \in 1..((k - m) - 1)
      BY <1>1, <2>4, <3>1
    <3>3. l[k] = t[k - m] /\ l[j] = t[j - m]
      <4>1. l[m + (k - m)] = t[k - m] /\ l[m + (j - m)] = t[j - m]
        BY <1>1, <3>1
      <4>2. QED
        BY <3>1, <4>1
    <3>4. Follows(t[k - m], t[j - m])
      BY <1>6, <3>1, <3>2 DEF Ordered, n
    <3>5. QED
      BY <3>3, <3>4
  <2>5. QED
    BY <2>2, <2>3, <2>4
<1>7. QED
  BY <1>5, <1>6 DEF l

\* The commands after the first one.
LEMMA LeftTail ==
  ASSUME NEW l, IsSeq(l), l # << >>
  PROVE  /\ IsSeq(Tail(l)) /\ Left(l) = {Head(l)} \cup Left(Tail(l))
         /\ Ordered(l) => Ordered(Tail(l)) /\ \A x \in Left(Tail(l)) : Follows(x, Head(l))
<1>1. PICK S : l \in Seq(S)
  BY DEF IsSeq
<1> DEFINE t == Tail(l)
<1>2. /\ Len(l) \in Nat /\ Len(l) >= 1 /\ Head(l) = l[1]
      /\ t \in Seq(S) /\ Len(t) = Len(l) - 1
      /\ \A k \in 1..Len(t) : t[k] = l[k + 1]
  BY <1>1, HeadTailProperties, LenProperties, EmptySeq
<1> HIDE DEF t
<1>3. \A k \in 1..Len(t) : k + 1 \in 1..Len(l) /\ 1 \in 1..((k + 1) - 1)
  BY <1>2
<1>4. \A k \in 1..Len(l) : k = 1 \/ (k - 1 \in 1..Len(t) /\ (k - 1) + 1 = k)
  BY <1>2
<1>5. Left(l) = {Head(l)} \cup Left(t)
  <2>1. \A k \in 1..Len(l) : l[k] \in {Head(l)} \cup Left(t)
    <3> SUFFICES ASSUME NEW k \in 1..Len(l), k # 1 PROVE l[k] \in Left(t)
      BY <1>2
    <3>1. l[k] = t[k - 1]
      BY <1>2, <1>4
    <3>2. QED
      BY <1>4, <3>1 DEF Left
  <2>2. 1 \in 1..Len(l)
    BY <1>2
  <2>3. \A k \in 1..Len(t) : t[k] \in Left(l)
    BY <1>2, <1>3 DEF Left
  <2>4. QED
    BY <1>2, <2>1, <2>2, <2>3 DEF Left
<1>6. ASSUME Ordered(l) PROVE Ordered(t) /\ \A x \in Left(t) : Follows(x, Head(l))
  <2>1. \A k \in 1..Len(t) : Follows(t[k], Head(l))
    BY <1>2, <1>3, <1>6 DEF Ordered
  <2>2. ASSUME NEW k \in 1..Len(t), NEW j \in 1..(k - 1) PROVE Follows(t[k], t[j])
    <3>1. j \in 1..Len(t) /\ j + 1 \in 1..((k + 1) - 1)
      BY <1>2
    <3>2. QED
      BY <1>2, <1>3, <1>6, <3>1 DEF Ordered
  <2>3. QED
    BY <2>1, <2>2 DEF Ordered, Left
<1>7. QED
  BY <1>2, <1>5, <1>6 DEF t, IsSeq

-----------------------------------------------------------------------------
(* What a command that works does to the tables.                           *)
LEMMA WithinAfter ==
  ASSUME NEW c, GoodCommand(c), Works(c), ChainInv(rules), NEW ch, NEW x
  PROVE  /\ ch # c.chain \/ c.op \in ToJump \cup {"delete jump", "check", "new"} =>
              (Within(ch, x, RulesAfter(c)) <=> Within(ch, x, rules))
         /\ c.op = "add" /\ ch = c.chain =>
              (Within(ch, x, RulesAfter(c)) <=> Within(ch, x, rules) \/ x = c.rule)
         /\ c.op = "delete" /\ ch = c.chain =>
              /\ Within(ch, x, RulesAfter(c)) => Within(ch, x, rules)
              /\ x # c.rule /\ Within(ch, x, rules) => Within(ch, x, RulesAfter(c))
         /\ c.op \in {"flush", "remove"} /\ ch = c.chain => ~Within(ch, x, RulesAfter(c))
<1> DEFINE R == RulesAfter(c)
<1>1. CASE c.op \in ToJump \cup {"delete jump", "check"}
  <2>1. R = rules
    BY <1>1 DEF RulesAfter, ToJump
  <2>2. QED
    BY <1>1, <2>1 DEF ToJump
<1>2. CASE c.op = "new"
  <2>1. /\ c.chain \notin DOMAIN rules /\ DOMAIN R = DOMAIN rules \cup {c.chain}
        /\ R[c.chain] = << >> /\ \A y \in DOMAIN rules : R[y] = rules[y]
    BY <1>2 DEF Works, RulesAfter
  <2>2. 1..Len(<< >>) = {}
    OBVIOUS
  <2> HIDE DEF R
  <2>3. Within(ch, x, R) <=> Within(ch, x, rules)
    BY <2>1, <2>2 DEF Within
  <2>4. QED
    BY <1>2, <2>3 DEF R
<1>3. CASE c.op = "flush"
  <2>1. /\ DOMAIN R = DOMAIN rules /\ c.chain \in DOMAIN rules
        /\ R[c.chain] = << >> /\ \A y \in DOMAIN rules \ {c.chain} : R[y] = rules[y]
    BY <1>3 DEF Works, RulesAfter
  <2>2. 1..Len(<< >>) = {}
    OBVIOUS
  <2> HIDE DEF R
  <2>3. /\ ch # c.chain => (Within(ch, x, R) <=> Within(ch, x, rules))
        /\ ch = c.chain => ~Within(ch, x, R)
    BY <2>1, <2>2 DEF Within
  <2>4. QED
    BY <1>3, <2>3 DEF R, ToJump
<1>4. CASE c.op = "remove"
  <2>1. /\ DOMAIN R = DOMAIN rules \ {c.chain} /\ \A y \in DOMAIN R : R[y] = rules[y]
    BY <1>4 DEF RulesAfter
  <2> HIDE DEF R
  <2>2. /\ ch # c.chain => (Within(ch, x, R) <=> Within(ch, x, rules))
        /\ ch = c.chain => ~Within(ch, x, R)
    BY <2>1 DEF Within
  <2>3. QED
    BY <1>4, <2>2 DEF R, ToJump
<1>5. CASE c.op = "add"
  <2> DEFINE s == rules[c.chain]
  <2>1. /\ DOMAIN R = DOMAIN rules /\ c.chain \in DOMAIN rules
        /\ R[c.chain] = Append(s, c.rule)
        /\ \A y \in DOMAIN rules \ {c.chain} : R[y] = rules[y]
    BY <1>5 DEF Works, RulesAfter
  <2>2. PICK S : s \in Seq(S)
    BY <2>1 DEF ChainInv, IsSeq
  <2>3. s \in Seq(S \cup {c.rule})
    BY <2>2, SeqMonotonic
  <2> HIDE DEF R, s
  <2>4. /\ Len(s) \in Nat /\ Len(R[c.chain]) = Len(s) + 1
        /\ \A k \in 1..Len(s) : R[c.chain][k] = s[k]
        /\ R[c.chain][Len(s) + 1] = c.rule
    BY <2>1, <2>3, AppendProperties, LenProperties
  <2>5. \A k \in 1..Len(R[c.chain]) : k \in 1..Len(s) \/ k = Len(s) + 1
    BY <2>4
  <2>6. Len(s) + 1 \in 1..Len(R[c.chain]) /\ \A k \in 1..Len(s) : k \in 1..Len(R[c.chain])
    BY <2>4
  <2>7. (\E k \in 1..Len(R[c.chain]) : R[c.chain][k] = x) <=>
          (\E k \in 1..Len(s) : s[k] = x) \/ x = c.rule
    BY <2>4, <2>5, <2>6
  <2>8. /\ ch # c.chain => (Within(ch, x, R) <=> Within(ch, x, rules))
        /\ ch = c.chain => (Within(ch, x, R) <=> Within(ch, x, rules) \/ x = c.rule)
    BY <2>1, <2>7 DEF Within, s
  <2>9. QED
    BY <1>5, <2>8 DEF R, ToJump
<1>6. CASE c.op = "delete"
  <2> DEFINE s == rules[c.chain]
  <2>1. /\ c.chain \in DOMAIN rules /\ c.rule \in ToSet(s) /\ DOMAIN R = DOMAIN rules
        /\ R[c.chain] = RemoveAt(s, First(s, c.rule))
        /\ \A y \in DOMAIN rules \ {c.chain} : R[y] = rules[y]
    BY <1>6 DEF Works, RulesAfter, First
  <2>2. PICK S : s \in Seq(S)
    BY <2>1 DEF ChainInv, IsSeq
  <2> HIDE DEF R, s
  <2>3. /\ \A k \in 1..Len(R[c.chain]) : \E j \in 1..Len(s) : R[c.chain][k] = s[j]
        /\ \A j \in 1..Len(s) : s[j] # c.rule => \E k \in 1..Len(R[c.chain]) : R[c.chain][k] = s[j]
    BY <2>1, <2>2, Removed
  <2>4. /\ ch # c.chain => (Within(ch, x, R) <=> Within(ch, x, rules))
        /\ ch = c.chain => /\ Within(ch, x, R) => Within(ch, x, rules)
                           /\ x # c.rule /\ Within(ch, x, rules) => Within(ch, x, R)
    BY <2>1, <2>3 DEF Within, s
  <2>5. QED
    BY <1>6, <2>4 DEF R, ToJump
<1>7. QED
  BY <1>1, <1>2, <1>3, <1>4, <1>5, <1>6 DEF GoodCommand, Ops, ToJump

LEMMA ExistsAfter ==
  ASSUME NEW c, NEW ch
  PROVE  ch \in DOMAIN RulesAfter(c) <=>
           (ch \in DOMAIN rules \/ (c.op = "new" /\ ch = c.chain)) /\ ~(c.op = "remove" /\ ch = c.chain)
<1>1. CASE c.op = "new"
  BY <1>1 DEF RulesAfter
<1>2. CASE c.op = "remove"
  BY <1>2 DEF RulesAfter
<1>3. CASE c.op \notin {"new", "remove"}
  BY <1>3 DEF RulesAfter
<1>4. QED
  BY <1>1, <1>2, <1>3

Counting(J, ch, h, v) == [J EXCEPT ![ch][h] = v]

LEMMA Counted ==
  ASSUME NEW J \in JumpTable, NEW ch \in Chains, NEW h \in Hooks, NEW v \in Nat,
         NEW K, K = Counting(J, ch, h, v)
  PROVE  /\ K \in JumpTable /\ K[ch][h] = v
         /\ \A x \in Chains, y \in Hooks : x # ch \/ y # h => K[x][y] = J[x][y]
<1>1. PICK f : f = J[ch]
  OBVIOUS
<1>2. f \in [Hooks -> Nat]
  BY <1>1 DEF JumpTable
<1>3. PICK g : g = [f EXCEPT ![h] = v]
  OBVIOUS
<1>4. g \in [Hooks -> Nat] /\ g[h] = v /\ \A y \in Hooks \ {h} : g[y] = f[y]
  BY <1>2, <1>3
<1>5. K = [J EXCEPT ![ch] = g]
  BY <1>1, <1>3 DEF Counting
<1>6. QED
  BY <1>1, <1>4, <1>5 DEF JumpTable

LEMMA JumpsThen ==
  ASSUME NEW c, GoodCommand(c), Works(c), jumps \in JumpTable,
         Hooky(c)
  PROVE  /\ JumpsAfter(c) \in JumpTable
         /\ \A ch \in Chains, h \in Hooks :
              /\ JumpsAfter(c)[ch][h] # jumps[ch][h] =>
                   c.op \in {"insert jump", "delete jump"} /\ ch = c.chain
              /\ c.op = "insert jump" => JumpsAfter(c)[ch][h] >= jumps[ch][h]
              /\ c.op = "delete jump" => JumpsAfter(c)[ch][h] <= jumps[ch][h]
              /\ c.op = "insert jump" /\ ch = c.chain /\ h = c.hook => JumpsAfter(c)[ch][h] > 0
<1>1. c.chain \in Chains
  BY DEF GoodCommand, Chains, IsolateChain, BlockChain
<1>2. CASE c.op = "insert jump"
  <2>0. PICK n : n = jumps[c.chain][c.hook]
    OBVIOUS
  <2>1. PICK v : v = n + 1
    OBVIOUS
  <2>2. PICK K : K = [jumps EXCEPT ![c.chain][c.hook] = v]
    OBVIOUS
  <2>3. JumpsAfter(c) = K
    BY <1>2, <2>0, <2>1, <2>2 DEF JumpsAfter
  <2>4. c.hook \in Hooks /\ n \in Nat
    BY <1>1, <1>2, <2>0 DEF JumpTable, Hooky, ToJump
  <2>5. v \in Nat /\ v > 0 /\ v >= n
    BY <2>1, <2>4
  <2>6. /\ K \in JumpTable /\ K[c.chain][c.hook] = v
        /\ \A ch \in Chains, h \in Hooks :
             ch # c.chain \/ h # c.hook => K[ch][h] = jumps[ch][h]
    <3>1. PICK ch, h : ch = c.chain /\ h = c.hook
      OBVIOUS
    <3>2. K = Counting(jumps, ch, h, v)
      BY <2>2, <3>1 DEF Counting
    <3>3. ch \in Chains /\ h \in Hooks /\ v \in Nat
      BY <1>1, <2>4, <2>5, <3>1
    <3>4. /\ K \in JumpTable /\ K[ch][h] = v
          /\ \A x \in Chains, y \in Hooks : x # ch \/ y # h => K[x][y] = jumps[x][y]
      BY <3>2, <3>3, Counted
    <3>5. QED
      BY <3>1, <3>4
  <2>7. \A ch \in Chains, h \in Hooks : jumps[ch][h] \in Nat
    BY DEF JumpTable
  <2>8. QED
    <3>1. ASSUME NEW ch \in Chains, NEW h \in Hooks
          PROVE  /\ K[ch][h] # jumps[ch][h] => ch = c.chain /\ h = c.hook
                 /\ K[ch][h] >= jumps[ch][h]
      <4>1. PICK x : x = jumps[ch][h]
        OBVIOUS
      <4>2. PICK y : y = K[ch][h]
        OBVIOUS
      <4>3. x \in Nat /\ ((ch = c.chain /\ h = c.hook) \/ x = y)
        BY <2>6, <2>7, <4>1, <4>2
      <4>4. y >= x
        <5>1. CASE x = y
          BY <4>3, <5>1
        <5>2. CASE ch = c.chain /\ h = c.hook
          <6>1. x = n /\ y = v
            BY <2>0, <2>6, <4>1, <4>2, <5>2
          <6>2. QED
            BY <2>5, <6>1
        <5>3. QED
          BY <4>3, <5>1, <5>2
      <4>5. QED
        BY <4>1, <4>2, <4>3, <4>4
    <3>2. QED
      BY <1>2, <2>3, <2>5, <2>6, <3>1
<1>3. CASE c.op = "delete jump"
  <2>0. PICK n : n = jumps[c.chain][c.hook]
    OBVIOUS
  <2>1. PICK v : v = n - 1
    OBVIOUS
  <2>2. PICK K : K = [jumps EXCEPT ![c.chain][c.hook] = v]
    OBVIOUS
  <2>3. JumpsAfter(c) = K
    BY <1>3, <2>0, <2>1, <2>2 DEF JumpsAfter
  <2>4. c.hook \in Hooks /\ n \in Nat /\ n > 0
    BY <1>1, <1>3, <2>0 DEF Works, JumpTable, Hooky
  <2>5. v \in Nat /\ v <= n
    BY <2>1, <2>4
  <2>6. /\ K \in JumpTable /\ K[c.chain][c.hook] = v
        /\ \A ch \in Chains, h \in Hooks :
             ch # c.chain \/ h # c.hook => K[ch][h] = jumps[ch][h]
    <3>1. PICK ch, h : ch = c.chain /\ h = c.hook
      OBVIOUS
    <3>2. K = Counting(jumps, ch, h, v)
      BY <2>2, <3>1 DEF Counting
    <3>3. ch \in Chains /\ h \in Hooks /\ v \in Nat
      BY <1>1, <2>4, <2>5, <3>1
    <3>4. /\ K \in JumpTable /\ K[ch][h] = v
          /\ \A x \in Chains, y \in Hooks : x # ch \/ y # h => K[x][y] = jumps[x][y]
      BY <3>2, <3>3, Counted
    <3>5. QED
      BY <3>1, <3>4
  <2>7. \A ch \in Chains, h \in Hooks : jumps[ch][h] \in Nat
    BY DEF JumpTable
  <2>8. QED
    <3>1. ASSUME NEW ch \in Chains, NEW h \in Hooks
          PROVE  /\ K[ch][h] # jumps[ch][h] => ch = c.chain /\ h = c.hook
                 /\ K[ch][h] <= jumps[ch][h]
      <4>1. PICK x : x = jumps[ch][h]
        OBVIOUS
      <4>2. PICK y : y = K[ch][h]
        OBVIOUS
      <4>3. x \in Nat /\ ((ch = c.chain /\ h = c.hook) \/ x = y)
        BY <2>6, <2>7, <4>1, <4>2
      <4>4. y <= x
        <5>1. CASE x = y
          BY <4>3, <5>1
        <5>2. CASE ch = c.chain /\ h = c.hook
          <6>1. x = n /\ y = v
            BY <2>0, <2>6, <4>1, <4>2, <5>2
          <6>2. QED
            BY <2>5, <6>1
        <5>3. QED
          BY <4>3, <5>1, <5>2
      <4>5. QED
        BY <4>1, <4>2, <4>3, <4>4
    <3>2. QED
      BY <1>3, <2>3, <2>5, <2>6, <3>1
<1>4. CASE c.op \notin {"insert jump", "delete jump"}
  <2>1. JumpsAfter(c) = jumps
    BY <1>4 DEF JumpsAfter
  <2>2. QED
    BY <1>4, <2>1
<1>5. QED
  BY <1>2, <1>3, <1>4

-----------------------------------------------------------------------------
(* One command of an action: c, with T after it; U is left then.           *)
Succeeded(c, T, U) ==
  /\ Works(c) /\ rules' = RulesAfter(c) /\ jumps' = JumpsAfter(c) /\ ignored' = ignored
  /\ U = IF c.op \in {"delete jump", "delete"} THEN {c} \cup T
         ELSE IF c.op = "check" THEN {} ELSE T

Failed(c, T, U) ==
  /\ rules' = rules /\ jumps' = jumps /\ ignored \subseteq ignored'
  /\ Works(c) /\ ~Aborts(c) => c.op \in ignored'
  /\ U = IF c.op = "check jump" THEN {OnJump("insert jump", c.chain, c.hook)} \cup T
         ELSE IF Aborts(c) THEN {} ELSE T

Going(action, p, c, T) ==
  /\ ChainInv(rules) /\ Tables(rules, jumps)
  /\ GoodCommand(c) /\ \A x \in T : Follows(x, c)
  /\ Shape(action, p, {c} \cup T)
  /\ Promise(action, p, {c} \cup T, rules, jumps, ignored)

LEMMA Ranks ==
  ASSUME NEW c, NEW x, Follows(x, c)
  PROVE  /\ c.op = "add" \/ c.op \in ToJump => x.op # "flush"
         /\ c.op \in ToJump => ~(x.op = "add" /\ x.chain = IsolateChain)
         /\ c.op \in ToJump \cup {"check", "add"} => x.op # "new"
         /\ c.op = "check" \/ (c.op = "add" /\ c.chain = BlockChain) => x.op \notin ToJump
         /\ c.op = "add" /\ c.chain = BlockChain =>
              x.op # "check" /\ ~(x.op = "add" /\ x.needed)
         /\ c.op = "add" /\ c.chain = BlockChain /\ ~c.needed =>
              ~(x.op = "add")
         /\ c.op = "check" => x.op # "check"
         /\ c.op = "delete" /\ x.op = "delete" => c.rule.dir = "from" /\ x.rule.dir # "from"
<1>1. IsolateChain # BlockChain
  BY DEF IsolateChain, BlockChain
<1>2. /\ c.op = "new" => Rank(c) = 1
      /\ c.op \in ToJump => Rank(c) = 4
      /\ c.op = "check" => Rank(c) = 5
      /\ c.op = "add" => Rank(c) = IF c.chain = IsolateChain THEN 3 ELSE IF c.needed THEN 6 ELSE 7
      /\ c.op = "delete" => Rank(c) = IF c.rule.dir = "from" THEN 8 ELSE 9
  BY DEF Rank, ToJump
<1>3. /\ x.op = "new" => Rank(x) = 1
      /\ x.op = "flush" => Rank(x) = 2
      /\ x.op \in ToJump => Rank(x) = 4
      /\ x.op = "check" => Rank(x) = 5
      /\ x.op = "add" => Rank(x) = IF x.chain = IsolateChain THEN 3 ELSE IF x.needed THEN 6 ELSE 7
      /\ x.op = "delete" => Rank(x) = IF x.rule.dir = "from" THEN 8 ELSE 9
  BY DEF Rank, ToJump
<1>4. Rank(c) < Rank(x) \/ (Rank(c) = Rank(x) /\ Rank(c) <= 4)
  BY DEF Follows
<1>5. QED
  BY <1>1, <1>2, <1>3, <1>4

LEMMA IsolateGoes ==
  ASSUME NEW p, NEW c, NEW T, NEW U, Going("isolate_host", p, c, T),
         Succeeded(c, T, U) \/ (Failed(c, T, U) /\ ~Aborts(c))
  PROVE  Promise("isolate_host", p, U, rules', jumps', ignored')
<1>1. ignored \subseteq ignored'
  BY DEF Succeeded, Failed
<1>2. SUFFICES ASSUME "insert jump" \notin ignored'
               PROVE  Isolated(U, rules', jumps')
  BY DEF Promise
<1>3. Isolated({c} \cup T, rules, jumps)
  BY <1>1, <1>2 DEF Going, Promise
<1>4. c.chain = IsolateChain /\ c.op \in {"new", "flush", "add"} \cup ToJump /\ Hooky(c)
  BY DEF Going, Shape
<1>5. \A x \in T : /\ x.chain = IsolateChain
                   /\ c.op = "add" \/ c.op \in ToJump => x.op # "flush"
                   /\ c.op \in ToJump => x.op # "add"
  BY Ranks DEF Going, Shape
<1>6. IsolateChain \in Chains /\ Ends \subseteq Hooks
  BY DEF IsolateChain, Chains, Ends, Hooks
<1>7. CASE Succeeded(c, T, U)
  <2>1. U = T /\ Works(c)
    BY <1>4, <1>7 DEF Succeeded, ToJump
  <2>2. /\ c.op \in ToJump \cup {"new"} =>
             (Within(IsolateChain, DropAll, rules') <=> Within(IsolateChain, DropAll, rules))
        /\ c.op = "add" => (Within(IsolateChain, DropAll, rules') <=>
                              Within(IsolateChain, DropAll, rules) \/ DropAll = c.rule)
    BY <1>4, <1>7, WithinAfter DEF Succeeded, Going
  <2>3. \A h \in Ends : /\ jumps[IsolateChain][h] > 0 => jumps'[IsolateChain][h] > 0
                        /\ c.op \in ToJump /\ c.hook = h => jumps'[IsolateChain][h] > 0
    <3> SUFFICES ASSUME NEW h \in Ends
                 PROVE  /\ jumps[IsolateChain][h] > 0 => jumps'[IsolateChain][h] > 0
                        /\ c.op \in ToJump /\ c.hook = h => jumps'[IsolateChain][h] > 0
      OBVIOUS
    <3>1. /\ jumps'[IsolateChain][h] # jumps[IsolateChain][h] =>
               c.op = "insert jump" \/ c.op = "delete jump"
          /\ c.op = "insert jump" => jumps'[IsolateChain][h] >= jumps[IsolateChain][h]
          /\ c.op = "insert jump" /\ h = c.hook => jumps'[IsolateChain][h] > 0
      BY <1>4, <1>6, <1>7, JumpsThen DEF Going, Succeeded, Tables
    <3>2. c.op = "check jump" /\ c.hook = h => jumps[IsolateChain][h] > 0
      BY <1>4, <2>1 DEF Works
    <3>3. jumps[IsolateChain][h] \in Nat /\ jumps'[IsolateChain][h] \in Nat
      <4>1. jumps \in JumpTable /\ jumps' \in JumpTable
        BY <1>4, <1>6, <1>7, JumpsThen DEF Going, Succeeded, Tables
      <4>2. QED
        BY <1>6, <4>1 DEF JumpTable
    <3>4. c.op # "delete jump"
      BY <1>4 DEF ToJump
    <3>5. CASE c.op = "insert jump"
      <4>1. PICK m, n : m = jumps[IsolateChain][h] /\ n = jumps'[IsolateChain][h]
        OBVIOUS
      <4>2. m \in Nat /\ n \in Nat /\ n >= m
        BY <3>1, <3>3, <3>5, <4>1
      <4>3. m > 0 => n > 0
        BY <4>2
      <4>4. QED
        BY <3>1, <3>5, <4>1, <4>3
    <3>6. CASE c.op # "insert jump"
      BY <3>1, <3>2, <3>4, <3>6 DEF ToJump
    <3>7. QED
      BY <3>5, <3>6
  <2>4. \/ \E x \in T : x.op = "add" /\ x.rule = DropAll
        \/ Within(IsolateChain, DropAll, rules') /\ \A x \in T : x.op # "flush"
    BY <1>3, <1>4, <1>5, <2>2 DEF Isolated
  <2>5. \A h \in Ends : \/ \E x \in T : x.op \in ToJump /\ x.hook = h
                       \/ jumps'[IsolateChain][h] > 0
    BY <1>3, <2>3 DEF Isolated
  <2>6. QED
    BY <2>1, <2>4, <2>5 DEF Isolated
<1>8. CASE Failed(c, T, U) /\ ~Aborts(c)
  <2>1. rules' = rules /\ jumps' = jumps
    BY <1>8 DEF Failed
  <2>2. c.op # "add"
    BY <1>4, <1>8 DEF Going, GoodCommand, Adds, Aborts
  <2>3. c.op # "insert jump"
    <3> SUFFICES ASSUME c.op = "insert jump" PROVE FALSE
      OBVIOUS
    <3>1. ~Works(c)
      BY <1>2, <1>8 DEF Failed
    <3>2. IsolateChain \notin DOMAIN rules
      BY <1>4, <3>1 DEF Works
    <3>3. Within(IsolateChain, DropAll, rules)
      BY <1>3, <1>5 DEF Isolated, ToJump
    <3>4. QED
      BY <3>2, <3>3 DEF Within
  <2>4. CASE c.op = "check jump"
    <3> DEFINE d == OnJump("insert jump", c.chain, c.hook)
    <3>1. U = {d} \cup T
      BY <1>8, <2>4 DEF Failed
    <3>2. d.op = "insert jump" /\ d.hook = c.hook
      BY DEF OnJump
    <3> HIDE DEF d
    <3>3. QED
      BY <1>3, <2>1, <2>4, <3>1, <3>2 DEF Isolated, ToJump
  <2>5. CASE c.op \in {"new", "flush"}
    <3>1. U = T
      BY <1>8, <2>5 DEF Failed
    <3>2. QED
      BY <1>3, <2>1, <2>5, <3>1 DEF Isolated, ToJump
  <2>6. QED
    BY <1>4, <2>2, <2>3, <2>4, <2>5 DEF ToJump
<1>9. QED
  BY <1>7, <1>8

LEMMA ReleaseGoes ==
  ASSUME NEW p, NEW c, NEW T, NEW U, Going("release_host", p, c, T),
         Succeeded(c, T, U) \/ (Failed(c, T, U) /\ ~Aborts(c))
  PROVE  Promise("release_host", p, U, rules', jumps', ignored')
<1>1. ignored \subseteq ignored'
  BY DEF Succeeded, Failed
<1>2. SUFFICES ASSUME "delete jump" \notin ignored'
               PROVE  Released(U, jumps')
  BY DEF Promise
<1>3. Released({c} \cup T, jumps)
  BY <1>1, <1>2 DEF Going, Promise
<1>4. c.chain = IsolateChain /\ c.op \in {"delete jump", "flush", "remove"} /\ Hooky(c)
  BY DEF Going, Shape
<1>5. IsolateChain \in Chains /\ Ends \subseteq Hooks
  BY DEF IsolateChain, Chains, Ends, Hooks
<1>6. CASE Succeeded(c, T, U)
  <2>1. ASSUME NEW h \in Ends, jumps[IsolateChain][h] = 0 PROVE jumps'[IsolateChain][h] = 0
    <3>1. /\ jumps'[IsolateChain][h] # jumps[IsolateChain][h] =>
               c.op = "insert jump" \/ c.op = "delete jump"
          /\ c.op = "delete jump" => jumps'[IsolateChain][h] <= jumps[IsolateChain][h]
          /\ jumps' \in JumpTable
      BY <1>4, <1>5, <1>6, JumpsThen DEF Going, Succeeded, Tables
    <3>2. jumps'[IsolateChain][h] \in Nat
      BY <1>5, <3>1 DEF JumpTable
    <3>3. CASE c.op = "delete jump"
      <4>1. PICK n : n = jumps'[IsolateChain][h]
        OBVIOUS
      <4>2. n \in Nat /\ n <= 0
        BY <2>1, <3>1, <3>2, <3>3, <4>1
      <4>3. n = 0
        BY <4>2
      <4>4. QED
        BY <4>1, <4>3
    <3>4. CASE c.op # "delete jump"
      BY <1>4, <2>1, <3>1, <3>4
    <3>5. QED
      BY <3>3, <3>4
  <2>2. U = {c} \cup T \/ (U = T /\ c.op # "delete jump")
    BY <1>4, <1>6 DEF Succeeded
  <2>3. QED
    BY <1>3, <2>1, <2>2 DEF Released
<1>7. CASE Failed(c, T, U) /\ ~Aborts(c)
  <2>1. jumps' = jumps /\ U = T
    BY <1>4, <1>7 DEF Failed
  <2>2. CASE c.op = "delete jump"
    <3>1. ~Works(c)
      BY <1>2, <1>7, <2>2 DEF Failed
    <3>2. ~(jumps[IsolateChain][c.hook] > 0)
      BY <1>4, <2>2, <3>1 DEF Works
    <3>3. c.hook \in Ends => jumps[IsolateChain][c.hook] = 0
      <4> SUFFICES ASSUME c.hook \in Ends PROVE jumps[IsolateChain][c.hook] = 0
        OBVIOUS
      <4>1. PICK n : n = jumps[IsolateChain][c.hook]
        OBVIOUS
      <4>2. n \in Nat
        BY <1>5, <4>1 DEF Going, Tables, JumpTable
      <4>3. n = 0
        BY <3>2, <4>1, <4>2
      <4>4. QED
        BY <4>1, <4>3
    <3>4. QED
      BY <1>3, <2>1, <3>3 DEF Released
  <2>3. CASE c.op # "delete jump"
    BY <1>3, <2>1, <2>3 DEF Released
  <2>4. QED
    BY <2>2, <2>3
<1>8. QED
  BY <1>6, <1>7

LEMMA UnblockGoes ==
  ASSUME NEW p, NEW c, NEW T, NEW U, Going("unblock_ip", p, c, T),
         Succeeded(c, T, U) \/ (Failed(c, T, U) /\ ~Aborts(c))
  PROVE  Promise("unblock_ip", p, U, rules', jumps', ignored')
<1>1. ignored \subseteq ignored'
  BY DEF Succeeded, Failed
<1>2. SUFFICES ASSUME "delete" \notin ignored'
               PROVE  Unblocked(p, U, rules')
  BY DEF Promise
<1>3. Unblocked(p, {c} \cup T, rules)
  BY <1>1, <1>2 DEF Going, Promise
<1>4. c.chain = BlockChain /\ c.op = "delete"
  BY DEF Going, Shape
<1>5. CASE Succeeded(c, T, U)
  <2>1. U = {c} \cup T
    BY <1>4, <1>5 DEF Succeeded
  <2>2. \A x : Within(BlockChain, x, rules') => Within(BlockChain, x, rules)
    BY <1>4, <1>5, WithinAfter DEF Succeeded, Going
  <2>3. QED
    BY <1>3, <2>1, <2>2 DEF Unblocked
<1>6. CASE Failed(c, T, U) /\ ~Aborts(c)
  <2>1. U = T /\ rules' = rules /\ ~Works(c)
    BY <1>2, <1>4, <1>6 DEF Failed
  <2>2. ~Within(BlockChain, c.rule, rules)
    <3> SUFFICES ASSUME Within(BlockChain, c.rule, rules) PROVE FALSE
      OBVIOUS
    <3>1. BlockChain \in DOMAIN rules
      BY DEF Within
    <3>2. PICK S : rules[BlockChain] \in Seq(S)
      BY <3>1 DEF Going, ChainInv, IsSeq
    <3>3. c.rule \in ToSet(rules[BlockChain])
      <4>1. DOMAIN rules[BlockChain] = 1..Len(rules[BlockChain])
        BY <3>2, LenProperties
      <4>2. QED
        BY <4>1 DEF Within, ToSet
    <3>4. QED
      BY <1>4, <2>1, <3>1, <3>3 DEF Works
  <2>3. QED
    BY <1>3, <2>1, <2>2 DEF Unblocked
<1>7. QED
  BY <1>5, <1>6

LEMMA BlockGoes ==
  ASSUME NEW p, NEW c, NEW T, NEW U, Going("block_ip", p, c, T),
         Paired("block_ip", p, {c} \cup T, rules, ignored),
         Succeeded(c, T, U) \/ (Failed(c, T, U) /\ ~Aborts(c))
  PROVE  Promise("block_ip", p, U, rules', jumps', ignored')
<1>1. ignored \subseteq ignored'
  BY DEF Succeeded, Failed
<1>2. /\ c.chain = BlockChain /\ c.op \in {"new", "check", "add"} \cup ToJump /\ Hooky(c)
      /\ c.op = "check" => c.rule = Drop("from", p)
      /\ c.op = "add" => c.needed \in BOOLEAN /\ c.rule = Drop(IF c.needed THEN "from" ELSE "to", p)
  BY DEF Going, Shape
<1>3. \A x \in T : /\ c.op \in ToJump \cup {"check", "add"} => x.op # "new"
                   /\ c.op = "check" \/ c.op = "add" => x.op \notin ToJump
  BY <1>2, Ranks DEF Going
<1>4. BlockChain \in Chains /\ Ends \subseteq Hooks
  BY DEF BlockChain, Chains, Ends, Hooks
<1>5. CASE Failed(c, T, U) /\ ~Aborts(c)
  <2>1. rules' = rules /\ jumps' = jumps
    BY <1>5 DEF Failed
  <2> DEFINE d == OnJump("insert jump", c.chain, c.hook)
  <2>2. d.op = "insert jump" /\ d.hook = c.hook
    BY DEF OnJump
  <2>3. U = T \/ (c.op = "check jump" /\ U = {d} \cup T)
    BY <1>5 DEF Failed
  <2> HIDE DEF d
  <2>4. "insert jump" \in ignored' \/ Hooked(U, rules, jumps)
    <3> SUFFICES ASSUME "insert jump" \notin ignored' PROVE Hooked(U, rules, jumps)
      OBVIOUS
    <3>1. Hooked({c} \cup T, rules, jumps)
      BY <1>1 DEF Going, Promise
    <3>2. c.op = "insert jump" => BlockChain \notin DOMAIN rules
      BY <1>2, <1>5 DEF Failed, Works
    <3>3. SUFFICES ASSUME NEW h \in Ends
                   PROVE  \/ \E x \in U : x.op \in ToJump /\ x.hook = h
                          \/ /\ BlockChain \in DOMAIN rules => jumps[BlockChain][h] > 0
                             /\ \A x \in U : x.op # "new"
      BY DEF Hooked
    <3>4. \/ \E x \in {c} \cup T : x.op \in ToJump /\ x.hook = h
          \/ /\ BlockChain \in DOMAIN rules => jumps[BlockChain][h] > 0
             /\ \A x \in {c} \cup T : x.op # "new"
      BY <3>1 DEF Hooked
    <3>5. CASE c.op = "check jump" /\ c.hook = h
      <4>1. U = {d} \cup T
        BY <1>5, <3>5 DEF Failed, d
      <4>2. QED
        BY <2>2, <3>5, <4>1 DEF ToJump
    <3>6. CASE c.op = "insert jump" /\ c.hook = h
      BY <1>3, <2>3, <3>2, <3>6 DEF ToJump
    <3>7. CASE \E x \in T : x.op \in ToJump /\ x.hook = h
      BY <2>3, <3>7
    <3>8. CASE /\ BlockChain \in DOMAIN rules => jumps[BlockChain][h] > 0
               /\ \A x \in {c} \cup T : x.op # "new"
      BY <2>2, <2>3, <3>8
    <3>9. QED
      BY <3>4, <3>5, <3>6, <3>7, <3>8 DEF ToJump
  <2>5. BlockedFrom(p, U, rules)
    <3>1. BlockedFrom(p, {c} \cup T, rules)
      BY DEF Going, Promise
    <3>2. ~(c.op = "add" /\ c.needed)
      BY <1>5 DEF Aborts
    <3>3. QED
      BY <2>3, <3>1, <3>2 DEF BlockedFrom
  <2>6. {"add", "delete"} \cap ignored' # {} \/ BlockedTo(p, U, rules)
    <3> SUFFICES ASSUME {"add", "delete"} \cap ignored' = {} PROVE BlockedTo(p, U, rules)
      OBVIOUS
    <3>1. BlockedTo(p, {c} \cup T, rules)
      BY <1>1 DEF Going, Promise
    <3>2. c.op # "add"
      <4> SUFFICES ASSUME c.op = "add" PROVE FALSE
        OBVIOUS
      <4>1. ~c.needed /\ ~Works(c)
        BY <1>5 DEF Failed, Aborts
      <4>2. BlockChain \notin DOMAIN rules
        BY <1>2, <4>1 DEF Works
      <4>3. \A x \in T : ~(x.op = "add")
        BY <1>2, <4>1, Ranks DEF Going
      <4>4. Within(BlockChain, Drop("from", p), rules)
        <5>1. BlockedFrom(p, {c} \cup T, rules)
          BY DEF Going, Promise
        <5>2. QED
          BY <4>1, <4>3, <5>1 DEF BlockedFrom
      <4>5. QED
        BY <4>2, <4>4 DEF Within
    <3>3. QED
      BY <2>3, <3>1, <3>2 DEF BlockedTo
  <2>7. QED
    BY <2>1, <2>4, <2>5, <2>6 DEF Promise
<1>6. CASE Succeeded(c, T, U) /\ c.op # "check"
  <2>1. Works(c) /\ U = T /\ ignored' = ignored /\ rules' = RulesAfter(c)
    BY <1>2, <1>6 DEF Succeeded, ToJump
  <2>2. /\ \A x : Within(BlockChain, x, rules) => Within(BlockChain, x, rules')
        /\ c.op = "add" => Within(BlockChain, c.rule, rules')
    <3>1. ASSUME NEW x
          PROVE  /\ Within(BlockChain, x, rules) => Within(BlockChain, x, rules')
                 /\ c.op = "add" /\ x = c.rule => Within(BlockChain, x, rules')
      <4>1. /\ c.op \in ToJump \cup {"new"} =>
                 (Within(BlockChain, x, rules') <=> Within(BlockChain, x, rules))
            /\ c.op = "add" => (Within(BlockChain, x, rules') <=>
                                  Within(BlockChain, x, rules) \/ x = c.rule)
        BY <1>2, <1>6, <2>1, WithinAfter DEF Going
      <4>2. c.op \in ToJump \cup {"new"} \/ c.op = "add"
        BY <1>2, <1>6
      <4>3. QED
        BY <4>1, <4>2
    <3>2. QED
      BY <3>1, Zenon
  <2>3. BlockChain \in DOMAIN rules' <=> BlockChain \in DOMAIN rules \/ c.op = "new"
    BY <1>2, <2>1, ExistsAfter DEF ToJump
  <2>4. ASSUME NEW h \in Ends
        PROVE  /\ jumps[BlockChain][h] > 0 => jumps'[BlockChain][h] > 0
               /\ c.op \in ToJump /\ c.hook = h => jumps'[BlockChain][h] > 0
    <3>1. /\ jumps'[BlockChain][h] # jumps[BlockChain][h] =>
               c.op = "insert jump" \/ c.op = "delete jump"
          /\ c.op = "insert jump" => jumps'[BlockChain][h] >= jumps[BlockChain][h]
          /\ c.op = "insert jump" /\ h = c.hook => jumps'[BlockChain][h] > 0
      BY <1>2, <1>4, <1>6, JumpsThen DEF Going, Succeeded, Tables
    <3>2. c.op = "check jump" /\ c.hook = h => jumps[BlockChain][h] > 0
      BY <1>2, <2>1 DEF Works
    <3>3. jumps[BlockChain][h] \in Nat /\ jumps'[BlockChain][h] \in Nat
      <4>1. jumps \in JumpTable /\ jumps' \in JumpTable
        BY <1>2, <1>4, <1>6, JumpsThen DEF Going, Succeeded, Tables
      <4>2. QED
        BY <1>4, <4>1 DEF JumpTable
    <3>4. c.op # "delete jump"
      BY <1>2 DEF ToJump
    <3>5. CASE c.op = "insert jump"
      <4>1. PICK m, n : m = jumps[BlockChain][h] /\ n = jumps'[BlockChain][h]
        OBVIOUS
      <4>2. m \in Nat /\ n \in Nat /\ n >= m
        BY <3>1, <3>3, <3>5, <4>1
      <4>3. m > 0 => n > 0
        BY <4>2
      <4>4. QED
        BY <3>1, <3>5, <4>1, <4>3
    <3>6. CASE c.op # "insert jump"
      BY <3>1, <3>2, <3>4, <3>6 DEF ToJump
    <3>7. QED
      BY <3>5, <3>6
  <2>5. "insert jump" \in ignored' \/ Hooked(U, rules', jumps')
    <3> SUFFICES ASSUME "insert jump" \notin ignored' PROVE Hooked(U, rules', jumps')
      OBVIOUS
    <3>1. Hooked({c} \cup T, rules, jumps)
      BY <2>1 DEF Going, Promise
    <3>2. SUFFICES ASSUME NEW h \in Ends
                   PROVE  \/ \E x \in T : x.op \in ToJump /\ x.hook = h
                          \/ /\ BlockChain \in DOMAIN rules' => jumps'[BlockChain][h] > 0
                             /\ \A x \in T : x.op # "new"
      BY <2>1 DEF Hooked
    <3>3. \/ \E x \in {c} \cup T : x.op \in ToJump /\ x.hook = h
          \/ /\ BlockChain \in DOMAIN rules => jumps[BlockChain][h] > 0
             /\ \A x \in {c} \cup T : x.op # "new"
      BY <3>1 DEF Hooked
    <3>4. CASE c.op \in ToJump /\ c.hook = h
      BY <1>3, <2>4, <3>4
    <3>5. CASE \E x \in T : x.op \in ToJump /\ x.hook = h
      BY <3>5
    <3>6. CASE /\ BlockChain \in DOMAIN rules => jumps[BlockChain][h] > 0
               /\ \A x \in {c} \cup T : x.op # "new"
      BY <2>3, <2>4, <3>6
    <3>7. QED
      BY <3>3, <3>4, <3>5, <3>6
  <2>6. BlockedFrom(p, U, rules')
    <3>1. BlockedFrom(p, {c} \cup T, rules)
      BY DEF Going, Promise
    <3>2. c.op = "add" /\ c.needed => c.rule = Drop("from", p)
      BY <1>2
    <3>3. c.op = "add" /\ c.needed => Within(BlockChain, Drop("from", p), rules')
      BY <2>2, <3>2
    <3>4. Within(BlockChain, Drop("from", p), rules) => Within(BlockChain, Drop("from", p), rules')
      BY <2>2
    <3>5. QED
      BY <2>1, <3>1, <3>3, <3>4, Zenon DEF BlockedFrom
  <2>7. {"add", "delete"} \cap ignored' # {} \/ BlockedTo(p, U, rules')
    <3> SUFFICES ASSUME {"add", "delete"} \cap ignored' = {} PROVE BlockedTo(p, U, rules')
      OBVIOUS
    <3>1. BlockedTo(p, {c} \cup T, rules)
      BY <2>1 DEF Going, Promise
    <3>2. c.op = "add" /\ ~c.needed => c.rule = Drop("to", p)
      BY <1>2
    <3>3. c.op = "add" /\ ~c.needed => Within(BlockChain, Drop("to", p), rules')
      BY <2>2, <3>2
    <3>4. Within(BlockChain, Drop("to", p), rules) => Within(BlockChain, Drop("to", p), rules')
      BY <2>2
    <3>5. QED
      BY <2>1, <3>1, <3>3, <3>4, Zenon DEF BlockedTo
  <2>8. QED
    BY <2>5, <2>6, <2>7 DEF Promise
<1>7. CASE Succeeded(c, T, U) /\ c.op = "check"
  <2>1. Works(c) /\ U = {} /\ ignored' = ignored /\ rules' = RulesAfter(c) /\ jumps' = JumpsAfter(c)
    BY <1>7 DEF Succeeded
  <2>2. rules' = rules /\ jumps' = jumps
    BY <1>7, <2>1 DEF RulesAfter, JumpsAfter
  <2>3. Within(BlockChain, Drop("from", p), rules)
    <3>1. BlockChain \in DOMAIN rules /\ Drop("from", p) \in ToSet(rules[BlockChain])
      BY <1>2, <1>7, <2>1 DEF Works
    <3>2. PICK S : rules[BlockChain] \in Seq(S)
      BY <3>1 DEF Going, ChainInv, IsSeq
    <3>3. DOMAIN rules[BlockChain] = 1..Len(rules[BlockChain])
      BY <3>2, LenProperties
    <3>4. QED
      BY <3>1, <3>3 DEF Within, ToSet
  <2>4. "insert jump" \in ignored' \/ Hooked({}, rules, jumps)
    <3> SUFFICES ASSUME "insert jump" \notin ignored' PROVE Hooked({}, rules, jumps)
      OBVIOUS
    <3>1. Hooked({c} \cup T, rules, jumps)
      BY <2>1 DEF Going, Promise
    <3>2. QED
      BY <1>3, <1>7, <3>1 DEF Hooked, ToJump
  <2>5. {"add", "delete"} \cap ignored # {} \/ BlockedTo(p, {}, rules)
    BY <1>7, <2>3 DEF Paired, Pairing, BlockedTo
  <2>6. QED
    BY <2>1, <2>2, <2>3, <2>4, <2>5 DEF Promise, BlockedFrom
<1>8. QED
  BY <1>5, <1>6, <1>7

-----------------------------------------------------------------------------
(* A command of a run: what it leaves of the action, or what is reported.  *)
Step(a, action, p, l, c, T, todo, success) ==
  /\ run[a] = [action |-> action, ip |-> p, left |-> l] /\ run[a] # Idle
  /\ Left(l) = {c} \cup T /\ Going(action, p, c, T)
  /\ Ordered(todo)
  /\ (Succeeded(c, T, Left(todo)) /\ success) \/ (Failed(c, T, Left(todo)) /\ success = ~Aborts(c))
  /\ success \/ todo = << >>
  /\ Continue(a, todo, success)

LEMMA Stepped ==
  ASSUME NEW a, Actors = {a}, IInv, ReportInv(a), Succeed(a) \/ Fail(a)
  PROVE  \E action \in Isolating \cup Blocking :
           \E p, l, c, T, todo : \E success \in BOOLEAN : Step(a, action, p, l, c, T, todo, success)
<1>0. PICK action \in Isolating \cup Blocking : \E q, k :
        /\ run[a] = [action |-> action, ip |-> q, left |-> k]
        /\ Ordered(k) /\ Shape(action, q, Left(k))
        /\ Promise(action, q, Left(k), rules, jumps, ignored)
  BY DEF ReportInv, UnderWay, Succeed, Fail
<1>1. PICK p, l :
        /\ run[a] = [action |-> action, ip |-> p, left |-> l]
        /\ Ordered(l) /\ Shape(action, p, Left(l))
        /\ Promise(action, p, Left(l), rules, jumps, ignored)
  BY <1>0
<1>2. l # << >> /\ PlanInv(l, rules)
  <2>1. PICK x, y, z : /\ run[a] = [action |-> x, ip |-> y, left |-> z]
                       /\ z # << >> /\ PlanInv(z, rules)
    BY DEF IInv, RunInv, Succeed, Fail
  <2>2. run[a].left = l /\ run[a].left = z
    BY <1>1, <2>1
  <2>3. QED
    BY <2>1, <2>2
<1>3. PICK c, t : c = Head(l) /\ t = Tail(l)
  OBVIOUS
<1>4. GoodCommand(c) /\ <<c>> \o t = l
  BY <1>2, <1>3, FirstOfPlan
<1>5. /\ IsSeq(t) /\ Left(l) = {c} \cup Left(t) /\ Ordered(t)
      /\ \A x \in Left(t) : Follows(x, c)
  BY <1>1, <1>2, <1>3, LeftTail DEF PlanInv
<1>6. Going(action, p, c, Left(t))
  BY <1>1, <1>4, <1>5 DEF Going, IInv, ReportInv
<1>7. run[a].left = l /\ run[a] # Idle
  <2>1. run[a] # Idle
    BY DEF Succeed, Fail
  <2>2. QED
    BY <1>1, <2>1
<1>8. CASE Succeed(a)
  <2>1. PICK todo : todo = AfterSuccess(c, t)
    OBVIOUS
  <2>2. /\ Works(c) /\ rules' = RulesAfter(c) /\ jumps' = JumpsAfter(c) /\ ignored' = ignored
        /\ Continue(a, todo, TRUE)
    BY <1>3, <1>7, <1>8, <2>1 DEF Succeed
  <2>3. /\ Ordered(todo)
        /\ Left(todo) = IF c.op \in {"delete jump", "delete"} THEN {c} \cup Left(t)
                        ELSE IF c.op = "check" THEN {} ELSE Left(t)
    <3>1. CASE c.op \in {"delete jump", "delete"}
      <4>1. todo = l
        BY <1>4, <2>1, <3>1 DEF AfterSuccess
      <4>2. QED
        BY <1>1, <1>5, <3>1, <4>1
    <3>2. CASE c.op = "check"
      BY <2>1, <3>2, LeftEmpty DEF AfterSuccess
    <3>3. CASE c.op \notin {"delete jump", "delete", "check"}
      BY <1>5, <2>1, <3>3 DEF AfterSuccess
    <3>4. QED
      BY <3>1, <3>2, <3>3
  <2>4. Succeeded(c, Left(t), Left(todo))
    BY <2>2, <2>3 DEF Succeeded
  <2>5. Step(a, action, p, l, c, Left(t), todo, TRUE)
    BY <1>1, <1>5, <1>6, <1>7, <2>2, <2>3, <2>4 DEF Step
  <2>6. QED
    BY <2>5
<1>9. CASE Fail(a)
  <2>1. PICK todo : todo = AfterFailure(c, t)
    OBVIOUS
  <2>2. /\ rules' = rules /\ jumps' = jumps /\ Continue(a, todo, ~Aborts(c))
        /\ ignored \subseteq ignored' /\ (Works(c) /\ ~Aborts(c) => c.op \in ignored')
    BY <1>3, <1>7, <1>9, <2>1 DEF Fail
  <2>3. /\ Ordered(todo)
        /\ Left(todo) = IF c.op = "check jump"
                        THEN {OnJump("insert jump", c.chain, c.hook)} \cup Left(t)
                        ELSE IF Aborts(c) THEN {} ELSE Left(t)
    <3>1. CASE c.op = "check jump"
      <4>1. PICK d : d = OnJump("insert jump", c.chain, c.hook)
        OBVIOUS
      <4>2. todo = <<d>> \o t
        <5>1. ~Aborts(c)
          BY <3>1 DEF Aborts
        <5>2. AfterFailure(c, t) = <<OnJump("insert jump", c.chain, c.hook)>> \o t
          BY <3>1, <5>1, Zenon DEF AfterFailure
        <5>3. QED
          BY <2>1, <4>1, <5>2, Zenon
      <4>3. PICK s : s = <<d>>
        OBVIOUS
      <4>4. IsSeq(s) /\ Left(s) = {d} /\ Ordered(s)
        BY <4>3, Lists, LeftLists
      <4>5. Rank(d) = 4 /\ Rank(c) = 4
        BY <3>1, <4>1 DEF Rank, OnJump
      <4>6. \A x \in Left(s), y \in Left(t) : Follows(y, x)
        BY <1>5, <4>4, <4>5 DEF Follows
      <4>7. Left(s \o t) = {d} \cup Left(t) /\ Ordered(s \o t)
        BY <1>5, <4>4, <4>6, LeftJoined
      <4>8. QED
        BY <3>1, <4>1, <4>2, <4>3, <4>7
    <3>2. CASE c.op # "check jump" /\ Aborts(c)
      BY <2>1, <3>2, LeftEmpty DEF AfterFailure
    <3>3. CASE c.op # "check jump" /\ ~Aborts(c)
      BY <1>5, <2>1, <3>3 DEF AfterFailure
    <3>4. QED
      BY <3>1, <3>2, <3>3
  <2>4. Failed(c, Left(t), Left(todo))
    BY <2>2, <2>3 DEF Failed
  <2>5. PICK success \in BOOLEAN : success = ~Aborts(c)
    OBVIOUS
  <2>6. success \/ todo = << >>
    BY <2>1, <2>5 DEF AfterFailure, Aborts
  <2>7. Step(a, action, p, l, c, Left(t), todo, success)
    BY <1>1, <1>5, <1>6, <1>7, <2>2, <2>3, <2>4, <2>5, <2>6 DEF Step
  <2>8. QED
    BY <2>7
<1>10. QED
  BY <1>8, <1>9

LEMMA ShapeGoes ==
  ASSUME NEW action \in Isolating \cup Blocking, NEW p, NEW c, NEW T, NEW U,
         Going(action, p, c, T), Succeeded(c, T, U) \/ Failed(c, T, U)
  PROVE  Shape(action, p, U)
<1> DEFINE d == OnJump("insert jump", c.chain, c.hook)
<1>1. U = {c} \cup T \/ U = {} \/ U = T \/ (c.op = "check jump" /\ U = {d} \cup T)
  BY DEF Succeeded, Failed
<1>2. Shape(action, p, {c} \cup T)
  BY DEF Going
<1>3. d.op = "insert jump" /\ d.chain = c.chain /\ d.hook = c.hook
  BY DEF OnJump
<1> HIDE DEF d
<1>4. \A x \in U : Hooky(x)
  <2>1. \A x \in {c} \cup T : Hooky(x)
    BY <1>2 DEF Shape
  <2>2. c.op = "check jump" => Hooky(d)
    BY <1>3, <2>1 DEF Hooky, ToJump
  <2>3. QED
    BY <1>1, <2>1, <2>2
<1>5. CASE action = "isolate_host"
  BY <1>1, <1>2, <1>3, <1>4, <1>5 DEF Shape, ToJump
<1>6. CASE action = "release_host"
  BY <1>1, <1>2, <1>3, <1>4, <1>6 DEF Shape
<1>7. CASE action = "block_ip"
  <2>1. \A x \in U :
          /\ x.chain = BlockChain /\ x.op \in {"new", "check", "add"} \cup ToJump
          /\ x.op = "check" => x.rule = Drop("from", p)
          /\ x.op = "add" => x.needed \in BOOLEAN /\ x.rule = Drop(IF x.needed THEN "from" ELSE "to", p)
    BY <1>1, <1>2, <1>3, <1>7 DEF Shape, ToJump
  <2>2. \A x \in T : c.op = "add" => x.op # "check" /\ ~(x.op = "add" /\ x.needed)
    BY <1>2, <1>7, Ranks DEF Going, Shape
  <2>3. /\ (\E x \in {c} \cup T : x.op = "check") => \E x \in {c} \cup T : x.op = "add" /\ x.needed
        /\ (\E x \in {c} \cup T : x.op = "add" /\ x.needed) =>
             \E x \in {c} \cup T : x.op = "add" /\ ~x.needed
    BY <1>2, <1>7 DEF Shape
  <2>4. /\ (\E x \in T : x.op = "check") => \E x \in T : x.op = "add" /\ x.needed
        /\ (\E x \in T : x.op = "add" /\ x.needed) => \E x \in T : x.op = "add" /\ ~x.needed
    BY <2>2, <2>3
  <2>5. /\ (\E x \in U : x.op = "check") => \E x \in U : x.op = "add" /\ x.needed
        /\ (\E x \in U : x.op = "add" /\ x.needed) => \E x \in U : x.op = "add" /\ ~x.needed
    BY <1>1, <1>3, <2>3, <2>4
  <2>6. QED
    BY <1>4, <1>7, <2>1, <2>5 DEF Shape
<1>8. CASE action = "unblock_ip"
  BY <1>1, <1>2, <1>3, <1>4, <1>8 DEF Shape
<1>9. QED
  BY <1>5, <1>6, <1>7, <1>8 DEF Isolating, Blocking

\* A command leaves the other chain alone.
LEMMA OtherChain ==
  ASSUME NEW action, NEW p, NEW c, NEW T, NEW U, Going(action, p, c, T),
         Succeeded(c, T, U) \/ Failed(c, T, U), NEW ch \in Chains, ch # c.chain
  PROVE  /\ \A x : Within(ch, x, rules') <=> Within(ch, x, rules)
         /\ ch \in DOMAIN rules' <=> ch \in DOMAIN rules
         /\ \A h \in Hooks : jumps'[ch][h] = jumps[ch][h]
<1>1. CASE Succeeded(c, T, U)
  <2>1. rules' = RulesAfter(c) /\ jumps' = JumpsAfter(c) /\ Works(c)
    BY <1>1 DEF Succeeded
  <2>2. GoodCommand(c) /\ ChainInv(rules) /\ Hooky(c) /\ jumps \in JumpTable
    BY DEF Going, Shape, Tables
  <2>3. \A x : Within(ch, x, rules') <=> Within(ch, x, rules)
    BY <2>1, <2>2, WithinAfter
  <2>4. ch \in DOMAIN rules' <=> ch \in DOMAIN rules
    BY <2>1, ExistsAfter
  <2>5. \A h \in Hooks : jumps'[ch][h] = jumps[ch][h]
    <3>1. \A h \in Hooks : JumpsAfter(c)[ch][h] # jumps[ch][h] => ch = c.chain
      BY <2>1, <2>2, JumpsThen
    <3>2. QED
      BY <2>1, <3>1
  <2>6. QED
    BY <2>3, <2>4, <2>5
<1>2. CASE Failed(c, T, U)
  BY <1>2 DEF Failed
<1>3. QED
  BY <1>1, <1>2

LEMMA TablesGo ==
  ASSUME NEW action, NEW p, NEW c, NEW T, NEW U, Going(action, p, c, T),
         Succeeded(c, T, U) \/ Failed(c, T, U)
  PROVE  /\ jumps' \in JumpTable
         /\ \A x : Within(IsolateChain, x, rules') => x \in Protected \cup {DropAll}
<1>0. Tables(rules, jumps)
  BY DEF Going
<1>1. CASE Succeeded(c, T, U)
  <2>1. rules' = RulesAfter(c) /\ jumps' = JumpsAfter(c) /\ Works(c)
    BY <1>1 DEF Succeeded
  <2>2. GoodCommand(c) /\ ChainInv(rules) /\ Hooky(c) /\ jumps \in JumpTable
    BY DEF Going, Shape, Tables
  <2>3. jumps' \in JumpTable
    BY <2>1, <2>2, JumpsThen
  <2>4. ASSUME NEW x, Within(IsolateChain, x, rules') PROVE x \in Protected \cup {DropAll}
    <3>1. CASE c.op = "add" /\ c.chain = IsolateChain
      <4>1. c.rule \in Protected \cup {DropAll}
        BY <2>2, <3>1 DEF GoodCommand, Adds
      <4>2. Within(IsolateChain, x, rules) \/ x = c.rule
        BY <2>1, <2>2, <2>4, <3>1, WithinAfter
      <4>3. QED
        BY <1>0, <4>1, <4>2 DEF Tables
    <3>2. CASE ~(c.op = "add" /\ c.chain = IsolateChain)
      <4>1. Within(IsolateChain, x, rules)
        BY <2>1, <2>2, <2>4, <3>2, WithinAfter DEF GoodCommand, Ops, ToJump
      <4>2. QED
        BY <1>0, <4>1 DEF Tables
    <3>3. QED
      BY <3>1, <3>2
  <2>5. QED
    BY <2>3, <2>4
<1>2. CASE Failed(c, T, U)
  BY <1>0, <1>2 DEF Failed, Tables
<1>3. QED
  BY <1>1, <1>2

LEMMA PairGoes ==
  ASSUME NEW action \in Isolating \cup Blocking, NEW p, NEW c, NEW T, NEW U,
         Going(action, p, c, T), Paired(action, p, {c} \cup T, rules, ignored),
         Succeeded(c, T, U) \/ Failed(c, T, U)
  PROVE  Paired(action, p, U, rules', ignored')
<1>1. ignored \subseteq ignored'
  BY DEF Succeeded, Failed
<1>2. SUFFICES ASSUME {"add", "delete"} \cap ignored' = {}, NEW q,
                      Within(BlockChain, Drop("from", q), rules')
               PROVE  \/ Within(BlockChain, Drop("to", q), rules')
                      \/ action = "block_ip" /\ q = p /\ Pairing(U)
  BY DEF Paired
<1>3. Within(BlockChain, Drop("from", q), rules) =>
        \/ Within(BlockChain, Drop("to", q), rules)
        \/ action = "block_ip" /\ q = p /\ Pairing({c} \cup T)
  BY <1>1, <1>2 DEF Paired
<1>4. CASE action \in Isolating
  <2>1. c.chain # BlockChain /\ BlockChain \in Chains
    BY <1>4 DEF Going, Shape, Isolating, BlockChain, IsolateChain, Chains
  <2>2. \A x : Within(BlockChain, x, rules') <=> Within(BlockChain, x, rules)
    BY <2>1, OtherChain
  <2>3. QED
    BY <1>2, <1>3, <1>4, <2>2 DEF Isolating
<1>5. CASE action = "unblock_ip"
  <2>1. CASE Failed(c, T, U)
    BY <1>2, <1>3, <1>5, <2>1 DEF Failed
  <2>2. CASE Succeeded(c, T, U)
    <3>1. /\ c.chain = BlockChain /\ c.op = "delete" /\ c.rule \in {Drop("from", p), Drop("to", p)}
          /\ \A x \in T : x.op = "delete" /\ x.rule \in {Drop("from", p), Drop("to", p)}
      BY <1>5 DEF Going, Shape
    <3>2. \A x : /\ Within(BlockChain, x, rules') => Within(BlockChain, x, rules)
                 /\ x # c.rule /\ Within(BlockChain, x, rules) => Within(BlockChain, x, rules')
      BY <2>2, <3>1, WithinAfter DEF Succeeded, Going
    <3>3. Within(BlockChain, Drop("from", q), rules) /\ Within(BlockChain, Drop("to", q), rules)
      BY <1>2, <1>3, <1>5, <3>2
    <3>4. c.rule # Drop("to", q)
      <4> SUFFICES ASSUME c.rule = Drop("to", q) PROVE FALSE
        OBVIOUS
      <4>1. q = p /\ c.rule # Drop("from", p) /\ c.rule.dir = "to"
        BY <3>1 DEF Drop
      <4>2. \A x \in {c} \cup T : x.rule # Drop("from", p)
        BY <3>1, <4>1, Ranks DEF Going
      <4>3. Unblocked(p, {c} \cup T, rules)
        BY <1>1, <1>2, <1>5 DEF Going, Promise
      <4>4. QED
        BY <3>3, <4>1, <4>2, <4>3 DEF Unblocked, Dirs
    <3>5. QED
      BY <3>2, <3>3, <3>4
  <2>3. QED
    BY <2>1, <2>2
<1>6. CASE action = "block_ip"
  <2>0. /\ c.chain = BlockChain
        /\ c.op = "add" => c.needed \in BOOLEAN /\ c.rule = Drop(IF c.needed THEN "from" ELSE "to", p)
        /\ c.op \in {"new", "check", "add"} \cup ToJump
    BY <1>6 DEF Going, Shape
  <2>1. CASE Failed(c, T, U)
    <3>1. rules' = rules
      BY <2>1 DEF Failed
    <3>2. ~Pairing({c} \cup T)
      <4> SUFFICES ASSUME c.op = "add", ~c.needed PROVE FALSE
        BY DEF Pairing
      <4>1. ~Works(c)
        BY <1>2, <2>1 DEF Failed, Aborts
      <4>2. QED
        BY <1>2, <2>0, <3>1, <4>1 DEF Works, Within
    <3>3. QED
      BY <1>2, <1>3, <3>1, <3>2
  <2>2. CASE Succeeded(c, T, U)
    <3>1. GoodCommand(c) /\ Works(c) /\ ChainInv(rules) /\ rules' = RulesAfter(c)
      BY <2>2 DEF Going, Succeeded
    <3>2. CASE c.op = "add" /\ ~c.needed
      <4>1. \A x : Within(BlockChain, x, rules') <=>
                     Within(BlockChain, x, rules) \/ x = Drop("to", p)
        BY <2>0, <3>1, <3>2, WithinAfter
      <4>2. Drop("from", q) # Drop("to", p)
        BY DEF Drop
      <4>3. QED
        BY <1>2, <1>3, <4>1, <4>2
    <3>3. CASE c.op = "add" /\ c.needed
      <4>1. \A x : Within(BlockChain, x, rules') <=>
                     Within(BlockChain, x, rules) \/ x = Drop("from", p)
        BY <2>0, <3>1, <3>3, WithinAfter
      <4>2. CASE q = p
        <5>1. U = T
          BY <2>2, <3>3 DEF Succeeded
        <5>2. \A x \in T : x.op = "add" /\ ~x.needed
          <6>1. \A x \in T : x.op \in {"new", "check", "add"} \cup ToJump
            BY <1>6 DEF Going, Shape
          <6>2. QED
            BY <2>0, <3>3, <6>1, Ranks DEF Going
        <5>3. \E x \in {c} \cup T : x.op = "add" /\ ~x.needed
          BY <1>6, <3>3 DEF Going, Shape
        <5>4. T # {}
          BY <3>3, <5>3
        <5>5. QED
          BY <1>6, <4>2, <5>1, <5>2, <5>4 DEF Pairing
      <4>3. CASE q # p
        <5>1. Drop("from", q) # Drop("from", p)
          BY <4>3 DEF Drop
        <5>2. QED
          BY <1>2, <1>3, <4>1, <4>3, <5>1
      <4>4. QED
        BY <4>2, <4>3
    <3>4. CASE c.op # "add"
      <4>1. \A x : Within(BlockChain, x, rules') <=> Within(BlockChain, x, rules)
        BY <2>0, <3>1, <3>4, WithinAfter
      <4>2. ~Pairing({c} \cup T)
        BY <3>4 DEF Pairing
      <4>3. QED
        BY <1>2, <1>3, <4>1, <4>2
    <3>5. QED
      BY <2>0, <3>2, <3>3, <3>4
  <2>3. QED
    BY <2>1, <2>2
<1>7. QED
  BY <1>4, <1>5, <1>6 DEF Blocking

LEMMA PromiseGoes ==
  ASSUME NEW action \in Isolating \cup Blocking, NEW p, NEW c, NEW T, NEW U,
         Going(action, p, c, T), Paired(action, p, {c} \cup T, rules, ignored),
         Succeeded(c, T, U) \/ (Failed(c, T, U) /\ ~Aborts(c))
  PROVE  Promise(action, p, U, rules', jumps', ignored')
BY IsolateGoes, ReleaseGoes, BlockGoes, UnblockGoes DEF Isolating, Blocking

\* What the actions of one kind reported stands while one of the other kind goes on.
LEMMA OthersStand ==
  ASSUME NEW action \in Isolating \cup Blocking, NEW p, NEW c, NEW T, NEW U,
         Going(action, p, c, T), Succeeded(c, T, U) \/ Failed(c, T, U),
         NEW other, NEW q,
         \/ action \in Blocking /\ other \in Isolating
         \/ action \in Isolating /\ other \in Blocking,
         Promise(other, q, {}, rules, jumps, ignored)
  PROVE  Promise(other, q, {}, rules', jumps', ignored')
<1>0. ignored \subseteq ignored' /\ Ends \subseteq Hooks
  BY DEF Succeeded, Failed, Ends, Hooks
<1>1. CASE action \in Blocking /\ other \in Isolating
  <2>1. c.chain # IsolateChain /\ IsolateChain \in Chains
    BY <1>1 DEF Going, Shape, Blocking, BlockChain, IsolateChain, Chains
  <2>2. /\ \A x : Within(IsolateChain, x, rules') <=> Within(IsolateChain, x, rules)
        /\ \A h \in Ends : jumps'[IsolateChain][h] = jumps[IsolateChain][h]
    BY <1>0, <2>1, OtherChain
  <2>3. CASE other = "isolate_host"
    BY <1>0, <2>2, <2>3 DEF Promise, Isolated
  <2>4. CASE other = "release_host"
    BY <1>0, <2>2, <2>4 DEF Promise, Released
  <2>5. QED
    BY <1>1, <2>3, <2>4 DEF Isolating
<1>2. CASE action \in Isolating /\ other \in Blocking
  <2>1. c.chain # BlockChain /\ BlockChain \in Chains
    BY <1>2 DEF Going, Shape, Isolating, BlockChain, IsolateChain, Chains
  <2>2. /\ \A x : Within(BlockChain, x, rules') <=> Within(BlockChain, x, rules)
        /\ BlockChain \in DOMAIN rules' <=> BlockChain \in DOMAIN rules
        /\ \A h \in Ends : jumps'[BlockChain][h] = jumps[BlockChain][h]
    BY <1>0, <2>1, OtherChain
  <2>3. CASE other = "block_ip"
    <3>1. /\ "insert jump" \in ignored \/ Hooked({}, rules, jumps)
          /\ BlockedFrom(q, {}, rules)
          /\ {"add", "delete"} \cap ignored # {} \/ BlockedTo(q, {}, rules)
      BY <2>3 DEF Promise
    <3>2. Hooked({}, rules, jumps) => Hooked({}, rules', jumps')
      BY <2>2 DEF Hooked
    <3>3. /\ BlockedFrom(q, {}, rules) => BlockedFrom(q, {}, rules')
          /\ BlockedTo(q, {}, rules) => BlockedTo(q, {}, rules')
      BY <2>2 DEF BlockedFrom, BlockedTo
    <3>4. QED
      BY <1>0, <2>3, <3>1, <3>2, <3>3 DEF Promise
  <2>4. CASE other = "unblock_ip"
    BY <1>0, <2>2, <2>4 DEF Promise, Unblocked
  <2>5. QED
    BY <1>2, <2>3, <2>4 DEF Blocking
<1>3. QED
  BY <1>1, <1>2

LEMMA CommandReports ==
  ASSUME NEW a, Actors = {a}, IInv, ReportInv(a), Succeed(a) \/ Fail(a)
  PROVE  /\ jumps' \in JumpTable
         /\ \A x : Within(IsolateChain, x, rules') => x \in Protected \cup {DropAll}
         /\ UnderWay(run'[a], rules', jumps', ignored')
         /\ PairInv(run'[a], rules', ignored')
         /\ Stands(isolation', Isolating, run'[a], rules', jumps', ignored')
         /\ Stands(blocking', Blocking, run'[a], rules', jumps', ignored')
<1>1. PICK action \in Isolating \cup Blocking :
        \E p, l, c, T, todo : \E success \in BOOLEAN : Step(a, action, p, l, c, T, todo, success)
  BY Stepped
<1>2. PICK p, l, c, T, todo : \E success \in BOOLEAN : Step(a, action, p, l, c, T, todo, success)
  BY <1>1
<1>3. PICK success \in BOOLEAN : Step(a, action, p, l, c, T, todo, success)
  BY <1>2
<1> DEFINE U == Left(todo)
<1>4. /\ Left(l) = {c} \cup T /\ Going(action, p, c, T) /\ Ordered(todo)
      /\ (Succeeded(c, T, U) /\ success) \/ (Failed(c, T, U) /\ success = ~Aborts(c))
      /\ success \/ todo = << >>
      /\ Continue(a, todo, success)
  BY <1>3 DEF Step
<1>5. run[a] = [action |-> action, ip |-> p, left |-> l] /\ run[a] # Idle
  BY <1>3 DEF Step
<1>6. Succeeded(c, T, U) \/ Failed(c, T, U)
  BY <1>4
<1>7. run[a].action = action /\ run[a].ip = p /\ run[a].left = l
  BY <1>5
<1>8. Paired(action, p, {c} \cup T, rules, ignored)
  BY <1>4, <1>5, <1>7 DEF ReportInv, PairInv
<1> HIDE DEF U
<1>9. Paired(action, p, U, rules', ignored') /\ Shape(action, p, U)
  BY <1>4, <1>6, <1>8, PairGoes, ShapeGoes
<1>10. success => Promise(action, p, U, rules', jumps', ignored')
  BY <1>4, <1>8, PromiseGoes
<1>11. /\ jumps' \in JumpTable
       /\ \A x : Within(IsolateChain, x, rules') => x \in Protected \cup {DropAll}
  BY <1>4, <1>6, TablesGo
<1>12. CASE todo = << >>
  <2>1. run'[a] = Idle /\ Report(a, success)
    BY <1>4, <1>12 DEF Continue, IInv
  <2>2. U = {}
    BY <1>12, LeftEmpty DEF U
  <2>3. UnderWay(run'[a], rules', jumps', ignored')
    BY <2>1 DEF UnderWay
  <2>4. PairInv(run'[a], rules', ignored')
    BY <1>9, <2>1, <2>2 DEF PairInv, Paired, Pairing
  <2> DEFINE result == [action |-> action, ip |-> p, success |-> success]
  <2>5. /\ isolation' = IF action \in Isolating THEN result ELSE isolation
        /\ blocking' = IF action \in Blocking THEN result ELSE blocking
    BY <1>7, <2>1 DEF Report, Isolating, Blocking
  <2>6. result.action = action /\ result.ip = p /\ result.success = success
    OBVIOUS
  <2> HIDE DEF result
  <2>7. Stands(isolation', Isolating, run'[a], rules', jumps', ignored')
    <3>1. CASE action \in Isolating
      BY <1>10, <2>2, <2>5, <2>6, <3>1 DEF Stands
    <3>2. CASE action \notin Isolating
      <4>1. isolation' = isolation /\ action \in Blocking
        BY <2>5, <3>2
      <4>2. \/ isolation = NoResult
            \/ /\ isolation.action \in Isolating
               /\ isolation.success => Promise(isolation.action, isolation.ip, {}, rules, jumps, ignored)
        BY <1>7, <3>2 DEF ReportInv, Stands
      <4>3. QED
        BY <1>4, <1>6, <4>1, <4>2, OthersStand DEF Stands
    <3>3. QED
      BY <3>1, <3>2
  <2>8. Stands(blocking', Blocking, run'[a], rules', jumps', ignored')
    <3>1. CASE action \in Blocking
      BY <1>10, <2>2, <2>5, <2>6, <3>1 DEF Stands
    <3>2. CASE action \notin Blocking
      <4>1. blocking' = blocking /\ action \in Isolating
        BY <2>5, <3>2
      <4>2. \/ blocking = NoResult
            \/ /\ blocking.action \in Blocking
               /\ blocking.success => Promise(blocking.action, blocking.ip, {}, rules, jumps, ignored)
        BY <1>7, <3>2 DEF ReportInv, Stands
      <4>3. QED
        BY <1>4, <1>6, <4>1, <4>2, OthersStand DEF Stands
    <3>3. QED
      BY <3>1, <3>2
  <2>9. QED
    BY <1>11, <2>3, <2>4, <2>7, <2>8
<1>13. CASE todo # << >>
  <2>1. run' = [run EXCEPT ![a].left = todo] /\ isolation' = isolation /\ blocking' = blocking
    BY <1>4, <1>13 DEF Continue
  <2>2. run'[a] = [action |-> action, ip |-> p, left |-> todo]
    BY <1>5, <2>1 DEF IInv
  <2>3. run'[a].action = action /\ run'[a].ip = p /\ run'[a].left = todo
    BY <2>2
  <2>4. run'[a] # Idle
    <3>1. action \in Isolating \cup Blocking => action # "none"
      BY DEF Isolating, Blocking
    <3>2. Idle.action = "none"
      BY DEF Idle
    <3>3. QED
      BY <2>3, <3>1, <3>2
  <2>5. UnderWay(run'[a], rules', jumps', ignored')
    BY <1>4, <1>9, <1>10, <1>13, <2>2 DEF UnderWay, U
  <2>6. PairInv(run'[a], rules', ignored')
    BY <1>9, <2>3, <2>4 DEF PairInv, U
  <2>7. Stands(isolation', Isolating, run'[a], rules', jumps', ignored')
    <3>1. CASE action \in Isolating
      BY <2>3, <2>4, <3>1 DEF Stands
    <3>2. CASE action \notin Isolating
      <4>1. \/ isolation = NoResult
            \/ /\ isolation.action \in Isolating
               /\ isolation.success => Promise(isolation.action, isolation.ip, {}, rules, jumps, ignored)
        BY <1>7, <3>2 DEF ReportInv, Stands
      <4>2. QED
        BY <1>4, <1>6, <2>1, <3>2, <4>1, OthersStand DEF Stands
    <3>3. QED
      BY <3>1, <3>2
  <2>8. Stands(blocking', Blocking, run'[a], rules', jumps', ignored')
    <3>1. CASE action \in Blocking
      BY <2>3, <2>4, <3>1 DEF Stands
    <3>2. CASE action \notin Blocking
      <4>1. \/ blocking = NoResult
            \/ /\ blocking.action \in Blocking
               /\ blocking.success => Promise(blocking.action, blocking.ip, {}, rules, jumps, ignored)
        BY <1>7, <3>2 DEF ReportInv, Stands
      <4>2. QED
        BY <1>4, <1>6, <2>1, <3>2, <4>1, OthersStand DEF Stands
    <3>3. QED
      BY <3>1, <3>2
  <2>9. QED
    BY <1>11, <2>5, <2>6, <2>7, <2>8
<1>14. QED
  BY <1>12, <1>13

-----------------------------------------------------------------------------
(* The actions at their start.                                             *)
LEMMA RankOf ==
  ASSUME NEW c
  PROVE  /\ c.op \in {"new", "delete jump"} => Rank(c) = 1
         /\ c.op = "flush" => Rank(c) = 2
         /\ c.op = "add" /\ c.chain = IsolateChain => Rank(c) = 3
         /\ c.op \in ToJump \cup {"remove"} => Rank(c) = 4
         /\ c.op = "check" => Rank(c) = 5
         /\ c.op = "add" /\ c.chain = BlockChain => Rank(c) = IF c.needed THEN 6 ELSE 7
         /\ c.op = "delete" => Rank(c) = IF c.rule.dir = "from" THEN 8 ELSE 9
BY DEF Rank, ToJump, IsolateChain, BlockChain

LEMMA Alike ==
  ASSUME NEW x, NEW y, (Rank(x) = 1 /\ Rank(y) = 1) \/ (Rank(x) = 4 /\ Rank(y) = 4)
  PROVE  Follows(y, x)
<1>1. CASE Rank(x) = 1 /\ Rank(y) = 1
  BY <1>1 DEF Follows
<1>2. CASE Rank(x) = 4 /\ Rank(y) = 4
  BY <1>2 DEF Follows
<1>3. QED
  BY <1>1, <1>2

\* The ranks by the operations of a list.
LEMMA RankWithin ==
  ASSUME NEW S, NEW ops, \A c \in S : c.op \in ops
  PROVE  /\ ops \subseteq {"new", "delete jump"} => \A c \in S : Rank(c) \in 1..1
         /\ ops \subseteq {"new", "flush"} => \A c \in S : Rank(c) \in 1..2
         /\ ops \subseteq {"flush", "remove"} => \A c \in S : Rank(c) \in 2..9
         /\ ops \subseteq {"check jump"} => \A c \in S : Rank(c) \in 4..9
<1> SUFFICES ASSUME NEW c \in S
             PROVE  /\ ops \subseteq {"new", "delete jump"} => Rank(c) \in 1..1
                    /\ ops \subseteq {"new", "flush"} => Rank(c) \in 1..2
                    /\ ops \subseteq {"flush", "remove"} => Rank(c) \in 2..9
                    /\ ops \subseteq {"check jump"} => Rank(c) \in 4..9
  OBVIOUS
<1>1. PICK n, op : n = Rank(c) /\ op = c.op
  OBVIOUS
<1>2. op \in {"new", "delete jump"} => n = 1
  BY <1>1, RankOf
<1>3. op = "flush" => n = 2
  BY <1>1, RankOf
<1>4. op \in {"check jump", "remove"} => n = 4
  BY <1>1, RankOf DEF ToJump
<1>5. op \in ops
  BY <1>1
<1>6. /\ op \in {"new", "delete jump"} => n \in 1..1
      /\ op \in {"new", "flush"} => n \in 1..2
      /\ op \in {"flush", "remove"} => n \in 2..9
      /\ op = "check jump" => n \in 4..9
  <2>1. 1 \in 1..1 /\ 1 \in 1..2 /\ 2 \in 1..2 /\ 2 \in 2..9 /\ 4 \in 2..9 /\ 4 \in 4..9
    OBVIOUS
  <2>2. QED
    BY <1>2, <1>3, <1>4, <2>1, Zenon
<1>7. QED
  BY <1>1, <1>5, <1>6

LEMMA Later ==
  ASSUME NEW S, NEW T, NEW i \in Nat, NEW j \in Nat, i < j,
         \A x \in S : Rank(x) \in 1..i, \A y \in T : Rank(y) \in j..9
  PROVE  \A x \in S, y \in T : Follows(y, x)
<1> SUFFICES ASSUME NEW x \in S, NEW y \in T PROVE Follows(y, x)
  OBVIOUS
<1>1. PICK m, n : m = Rank(x) /\ n = Rank(y)
  OBVIOUS
<1>2. m \in 1..i /\ n \in j..9
  BY <1>1
<1>3. m < n
  BY <1>2
<1>4. QED
  BY <1>1, <1>3 DEF Follows

LEMMA LeftHooks ==
  ASSUME NEW op \in {"check jump", "delete jump"}, NEW ch \in {IsolateChain, BlockChain}
  PROVE  /\ IsSeq(PerHook(op, ch)) /\ Ordered(PerHook(op, ch))
         /\ Left(PerHook(op, ch)) = {OnJump(op, ch, h) : h \in Hooks}
<1> DEFINE x == OnJump(op, ch, "INPUT")
           y == OnJump(op, ch, "OUTPUT")
           z == OnJump(op, ch, "FORWARD")
<1>1. x.op = op /\ y.op = op /\ z.op = op
  BY DEF OnJump
<1>2. {OnJump(op, ch, h) : h \in Hooks} = {x, y, z}
  BY DEF Hooks
<1>3. PerHook(op, ch) = <<x, y, z>>
  BY DEF PerHook
<1> HIDE DEF x, y, z
<1>4. Follows(y, x) /\ Follows(z, x) /\ Follows(z, y)
  <2>1. CASE op = "check jump"
    <3>1. Rank(x) = 4 /\ Rank(y) = 4 /\ Rank(z) = 4
      BY <1>1, <2>1, RankOf DEF ToJump
    <3>2. QED
      BY <3>1, Alike
  <2>2. CASE op = "delete jump"
    <3>1. Rank(x) = 1 /\ Rank(y) = 1 /\ Rank(z) = 1
      BY <1>1, <2>2, RankOf
    <3>2. QED
      BY <3>1, Alike
  <2>3. QED
    BY <2>1, <2>2
<1>5. PICK l : l = <<x, y, z>>
  OBVIOUS
<1>6. IsSeq(l) /\ Left(l) = {x, y, z} /\ Ordered(l)
  BY <1>4, <1>5, Lists, LeftLists
<1>7. QED
  BY <1>2, <1>3, <1>5, <1>6

LEMMA IsolateStarts ==
  ASSUME NEW R, NEW J, NEW I
  PROVE  /\ Ordered(Isolate) /\ Shape("isolate_host", "none", Left(Isolate))
         /\ Promise("isolate_host", "none", Left(Isolate), R, J, I)
<1> DEFINE n == Len(IsolationRules)
           x == OnChain("new", IsolateChain)
           y == OnChain("flush", IsolateChain)
           A == <<x, y>>
           B == AddIsolationRules
           C == PerHook("check jump", IsolateChain)
<1>1. /\ n \in Nat \ {0} /\ DOMAIN IsolationRules = 1..n /\ n \in 1..n
      /\ IsolationRules[n] = DropAll
  BY RulesOfIsolation, LenProperties DEF IsSeq
<1>2. IsSeq(A) /\ Left(A) = {x, y} /\ Ordered(A)
  <2>1. Follows(y, x)
    BY DEF Follows, Rank, OnChain
  <2>2. PICK l : l = A
    OBVIOUS
  <2> HIDE DEF x, y
  <2>3. QED
    BY <2>1, Lists, LeftLists
<1>3. /\ IsSeq(B) /\ Ordered(B)
      /\ \A c \in Left(B) : c.chain = IsolateChain /\ c.op = "add"
      /\ \A c \in Left(B) : Rank(c) \in 1..3
      /\ \A c \in Left(B) : Rank(c) \in 3..9
      /\ \E c \in Left(B) : c.op = "add" /\ c.rule = DropAll
  <2>1. B = [k \in 1..n |-> OnRule("add", IsolateChain, IsolationRules[k], TRUE)]
    BY <1>1 DEF AddIsolationRules, IsolateChain
  <2>2. \A k \in 1..n : B[k].op = "add" /\ B[k].chain = IsolateChain /\ B[k].rule = IsolationRules[k]
    BY <2>1 DEF OnRule
  <2>3. IsSeq(B) /\ Len(B) = n
    <3> DEFINE S == {B[k] : k \in 1..n}
    <3>1. B \in [1..n -> S]
      BY <2>1
    <3> HIDE DEF S, B, n
    <3>2. B \in Seq(S) /\ Len(B) = n
      BY <1>1, <3>1
    <3>3. QED
      BY <3>2 DEF IsSeq
  <2> HIDE DEF B, n
  <2>4. \A k \in 1..n : Rank(B[k]) = 3
    BY <2>2 DEF Rank
  <2>5. \A k \in 1..n : \A j \in 1..(k - 1) : j \in 1..n
    BY <1>1
  <2>6. Ordered(B)
    BY <2>3, <2>4, <2>5 DEF Ordered, Follows
  <2>7. \A k \in 1..n : Rank(B[k]) \in 1..3 /\ Rank(B[k]) \in 3..9
    <3>1. 3 \in 1..3 /\ 3 \in 3..9
      OBVIOUS
    <3>2. QED
      BY <2>4, <3>1, Zenon
  <2>8. \A c \in Left(B) : \E k \in 1..n : c = B[k]
    BY <2>3 DEF Left
  <2>9. B[n] \in Left(B)
    BY <1>1, <2>3 DEF Left
  <2>10. (\A c \in Left(B) : Rank(c) \in 1..3) /\ \A c \in Left(B) : Rank(c) \in 3..9
    BY <2>7, <2>8, Zenon
  <2>11. QED
    BY <1>1, <2>2, <2>3, <2>6, <2>8, <2>9, <2>10
<1>4. /\ IsSeq(C) /\ Ordered(C)
      /\ Left(C) = {OnJump("check jump", IsolateChain, h) : h \in Hooks}
  BY LeftHooks
<1>5. Isolate = Join(Join(A, B), C)
  BY DEF Isolate, IsolateChain, Join
<1>6. /\ \A c \in Left(A) : c.chain = IsolateChain /\ c.op \in {"new", "flush"}
      /\ \A c \in Left(C) : c.chain = IsolateChain /\ c.op \in {"check jump"} /\ c.hook \in Hooks
  <2>1. \A c \in Left(A) : c.chain = IsolateChain /\ c.op \in {"new", "flush"}
    BY <1>2 DEF OnChain
  <2>2. \A h : LET c == OnJump("check jump", IsolateChain, h) IN
          c.chain = IsolateChain /\ c.op = "check jump" /\ c.hook = h
    BY DEF OnJump
  <2>3. QED
    BY <1>4, <2>1, <2>2
<1>7. (\A c \in Left(A) : Rank(c) \in 1..2) /\ \A c \in Left(C) : Rank(c) \in 4..9
  <2>1. /\ \A c \in Left(A) : c.op \in {"new", "flush"}
        /\ \A c \in Left(C) : c.op \in {"check jump"}
    BY <1>6
  <2> HIDE DEF A, C
  <2>2. \A c \in Left(A) : Rank(c) \in 1..2
    BY <2>1, RankWithin
  <2>3. \A c \in Left(C) : Rank(c) \in 4..9
    BY <2>1, RankWithin
  <2>4. QED
    BY <2>2, <2>3
<1>8. \A h \in Hooks : \E c \in Left(C) : c.op = "check jump" /\ c.hook = h
  <2>1. \A h \in Hooks : LET c == OnJump("check jump", IsolateChain, h) IN
          c.op = "check jump" /\ c.hook = h
    BY DEF OnJump
  <2>2. QED
    BY <1>4, <2>1
<1> HIDE DEF A, B, C
<1>9. /\ IsSeq(Join(A, B)) /\ Left(Join(A, B)) = Left(A) \cup Left(B)
      /\ Ordered(Join(A, B))
  <2>1. \A v \in Left(A), w \in Left(B) : Follows(w, v)
    BY <1>3, <1>7, Later
  <2>2. QED
    BY <1>2, <1>3, <2>1, JoinLength, LeftJoined DEF Join
<1>10. Left(Isolate) = Left(A) \cup Left(B) \cup Left(C) /\ Ordered(Isolate)
  <2>1. \A v \in Left(A) \cup Left(B), w \in Left(C) : Follows(w, v)
    <3>1. \A v \in Left(A), w \in Left(C) : Follows(w, v)
      BY <1>7, Later
    <3>2. \A v \in Left(B), w \in Left(C) : Follows(w, v)
      BY <1>3, <1>7, Later
    <3>3. QED
      BY <3>1, <3>2
  <2>2. PICK s : s = Join(A, B)
    OBVIOUS
  <2>3. Isolate = s \o C
    BY <1>5, <2>2 DEF Join
  <2>4. Left(s \o C) = Left(s) \cup Left(C) /\ Ordered(s \o C)
    BY <1>4, <1>9, <2>1, <2>2, LeftJoined
  <2>5. QED
    BY <1>9, <2>2, <2>3, <2>4
<1>11. \A c \in Left(Isolate) :
         c.chain = IsolateChain /\ c.op \in {"new", "flush", "add"} \cup ToJump /\ Hooky(c)
  BY <1>3, <1>6, <1>10 DEF ToJump, Hooky
<1>12. Isolated(Left(Isolate), R, J)
  BY <1>3, <1>8, <1>10 DEF Isolated, Ends, Hooks, ToJump
<1>13. QED
  BY <1>10, <1>11, <1>12 DEF Shape, Promise

LEMMA ReleaseStarts ==
  ASSUME NEW R, NEW J, NEW I
  PROVE  /\ Ordered(Release) /\ Shape("release_host", "none", Left(Release))
         /\ Promise("release_host", "none", Left(Release), R, J, I)
<1> DEFINE A == PerHook("delete jump", IsolateChain)
           x == OnChain("flush", IsolateChain)
           y == OnChain("remove", IsolateChain)
           B == <<x, y>>
<1>1. /\ IsSeq(A) /\ Ordered(A)
      /\ Left(A) = {OnJump("delete jump", IsolateChain, h) : h \in Hooks}
  BY LeftHooks
<1>2. IsSeq(B) /\ Left(B) = {x, y} /\ Ordered(B)
  <2>1. Follows(y, x)
    BY DEF Follows, Rank, OnChain
  <2>2. PICK l : l = B
    OBVIOUS
  <2> HIDE DEF x, y
  <2>3. QED
    BY <2>1, Lists, LeftLists
<1>3. Release = A \o B
  BY DEF Release, IsolateChain
<1>4. /\ \A c \in Left(A) : c.chain = IsolateChain /\ c.op = "delete jump" /\ c.hook \in Hooks
      /\ \A h \in Hooks : \E c \in Left(A) : c.op = "delete jump" /\ c.hook = h
  <2>1. \A h \in Hooks : LET c == OnJump("delete jump", IsolateChain, h) IN
          c.chain = IsolateChain /\ c.op = "delete jump" /\ c.hook = h
    BY DEF OnJump
  <2>2. QED
    BY <1>1, <2>1
<1>5. \A c \in Left(B) : c.chain = IsolateChain /\ c.op \in {"flush", "remove"}
  BY <1>2 DEF OnChain
<1>6. \A v \in Left(A), w \in Left(B) : Follows(w, v)
  <2>1. /\ \A c \in Left(A) : c.op \in {"delete jump"}
        /\ \A c \in Left(B) : c.op \in {"flush", "remove"}
    BY <1>4, <1>5
  <2> HIDE DEF A, B
  <2>2. (\A c \in Left(A) : Rank(c) \in 1..1) /\ \A c \in Left(B) : Rank(c) \in 2..9
    BY <2>1, RankWithin
  <2>3. QED
    BY <2>2, Later
<1> HIDE DEF A, B
<1>7. Left(Release) = Left(A) \cup Left(B) /\ Ordered(Release)
  BY <1>1, <1>2, <1>3, <1>6, LeftJoined
<1>8. \A c \in Left(Release) :
        c.chain = IsolateChain /\ c.op \in {"delete jump", "flush", "remove"} /\ Hooky(c)
  BY <1>4, <1>5, <1>7 DEF Hooky, ToJump
<1>9. Released(Left(Release), J)
  BY <1>4, <1>7 DEF Released, Ends, Hooks
<1>10. QED
  BY <1>7, <1>8, <1>9 DEF Shape, Promise

LEMMA BlockStarts ==
  ASSUME NEW p, NEW R, NEW J, NEW I
  PROVE  /\ Ordered(Block(p)) /\ Shape("block_ip", p, Left(Block(p)))
         /\ Promise("block_ip", p, Left(Block(p)), R, J, I)
<1> DEFINE v == OnChain("new", BlockChain)
           A == <<v>>
           B == PerHook("check jump", BlockChain)
           x == OnRule("check", BlockChain, Drop("from", p), FALSE)
           y == OnRule("add", BlockChain, Drop("from", p), TRUE)
           z == OnRule("add", BlockChain, Drop("to", p), FALSE)
           C == <<x, y, z>>
<1>1. /\ v.op = "new" /\ v.chain = BlockChain
      /\ x.op = "check" /\ x.chain = BlockChain /\ x.rule = Drop("from", p)
      /\ y.op = "add" /\ y.chain = BlockChain /\ y.rule = Drop("from", p) /\ y.needed = TRUE
      /\ z.op = "add" /\ z.chain = BlockChain /\ z.rule = Drop("to", p) /\ z.needed = FALSE
  BY DEF OnChain, OnRule
<1>2. Block(p) = (A \o B) \o C
  BY DEF Block, EnsureChain, BlockChain
<1> HIDE DEF v, x, y, z
<1>3. Rank(v) = 1 /\ Rank(x) = 5 /\ Rank(y) = 6 /\ Rank(z) = 7
  BY <1>1, RankOf
<1>4. IsSeq(A) /\ Left(A) = {v} /\ Ordered(A)
  <2>1. PICK l : l = A
    OBVIOUS
  <2>2. QED
    BY Lists, LeftLists
<1>5. IsSeq(C) /\ Left(C) = {x, y, z} /\ Ordered(C)
  <2>1. PICK l : l = C
    OBVIOUS
  <2>2. Follows(y, x) /\ Follows(z, x) /\ Follows(z, y)
    BY <1>3 DEF Follows
  <2>3. IsSeq(l) /\ Left(l) = {x, y, z}
    BY <2>1, Lists, LeftLists
  <2>4. Ordered(l)
    BY <2>1, <2>2, LeftLists
  <2>5. QED
    BY <2>1, <2>3, <2>4
<1>6. /\ IsSeq(B) /\ Ordered(B)
      /\ Left(B) = {OnJump("check jump", BlockChain, h) : h \in Hooks}
  BY LeftHooks
<1>7. \A h \in Hooks : LET c == OnJump("check jump", BlockChain, h) IN
        c.chain = BlockChain /\ c.op = "check jump" /\ c.hook = h
  BY DEF OnJump
<1> HIDE DEF A, B, C
<1>8. /\ \A c \in Left(B) : c.chain = BlockChain /\ c.op = "check jump" /\ c.hook \in Hooks
      /\ \A c \in Left(B) : Rank(c) = 4
  <2>1. \A c \in Left(B) : c.chain = BlockChain /\ c.op = "check jump" /\ c.hook \in Hooks
    BY <1>6, <1>7
  <2>2. QED
    BY <2>1, RankOf DEF ToJump
<1>9. /\ 1 \in 1..1 /\ 1 \in 1..4 /\ 4 \in 1..4 /\ 4 \in 4..9
      /\ 5 \in 5..9 /\ 6 \in 5..9 /\ 7 \in 5..9
  OBVIOUS
<1>10. Left(Block(p)) = {v, x, y, z} \cup Left(B) /\ Ordered(Block(p))
  <2>1. \A s \in Left(A), t \in Left(B) : Follows(t, s)
    <3>1. (\A s \in Left(A) : Rank(s) \in 1..1) /\ \A s \in Left(B) : Rank(s) \in 4..9
      BY <1>3, <1>4, <1>8, <1>9, Zenon
    <3>2. QED
      BY <3>1, Later
  <2>2. PICK l : l = A \o B
    OBVIOUS
  <2>3. IsSeq(l) /\ Left(l) = {v} \cup Left(B) /\ Ordered(l)
    BY <1>4, <1>6, <2>1, <2>2, LeftJoined, Joined
  <2>4. \A s \in Left(l), t \in Left(C) : Follows(t, s)
    <3>1. (\A s \in Left(l) : Rank(s) \in 1..4) /\ \A s \in Left(C) : Rank(s) \in 5..9
      <4>1. \A s \in Left(l) : Rank(s) = 1 \/ Rank(s) = 4
        BY <1>3, <1>8, <2>3
      <4>2. \A s \in Left(C) : Rank(s) = 5 \/ Rank(s) = 6 \/ Rank(s) = 7
        BY <1>3, <1>5
      <4>3. QED
        BY <1>9, <4>1, <4>2, Zenon
    <3>2. QED
      BY <3>1, Later
  <2>5. Left(l \o C) = Left(l) \cup Left(C) /\ Ordered(l \o C)
    BY <1>5, <2>3, <2>4, LeftJoined
  <2>6. QED
    BY <1>2, <1>5, <2>2, <2>3, <2>5
<1>11. Shape("block_ip", p, Left(Block(p)))
  <2>1. \A c \in Left(Block(p)) : Hooky(c)
    BY <1>1, <1>8, <1>10 DEF Hooky, ToJump
  <2>2. \A c \in Left(Block(p)) :
          /\ c.chain = BlockChain /\ c.op \in {"new", "check", "add"} \cup ToJump
          /\ c.op = "check" => c.rule = Drop("from", p)
          /\ c.op = "add" => c.needed \in BOOLEAN /\ c.rule = Drop(IF c.needed THEN "from" ELSE "to", p)
    BY <1>1, <1>8, <1>10 DEF ToJump
  <2>3. /\ \E c \in Left(Block(p)) : c.op = "add" /\ c.needed
        /\ \E c \in Left(Block(p)) : c.op = "add" /\ ~c.needed
    BY <1>1, <1>10
  <2>4. QED
    BY <2>1, <2>2, <2>3 DEF Shape
<1>12. Hooked(Left(Block(p)), R, J)
  <2>1. \A h \in Ends : \E c \in Left(B) : c.op = "check jump" /\ c.hook = h
    BY <1>6, <1>7 DEF Ends, Hooks
  <2>2. QED
    BY <1>10, <2>1 DEF Hooked, ToJump
<1>13. BlockedFrom(p, Left(Block(p)), R) /\ BlockedTo(p, Left(Block(p)), R)
  BY <1>1, <1>10 DEF BlockedFrom, BlockedTo
<1>14. QED
  BY <1>10, <1>11, <1>12, <1>13 DEF Promise

LEMMA UnblockStarts ==
  ASSUME NEW p, NEW R, NEW J, NEW I
  PROVE  /\ Ordered(Unblock(p)) /\ Shape("unblock_ip", p, Left(Unblock(p)))
         /\ Promise("unblock_ip", p, Left(Unblock(p)), R, J, I)
<1> DEFINE x == OnRule("delete", BlockChain, Drop("from", p), FALSE)
           y == OnRule("delete", BlockChain, Drop("to", p), FALSE)
<1>1. /\ x.op = "delete" /\ x.chain = BlockChain /\ x.rule = Drop("from", p) /\ x.rule.dir = "from"
      /\ y.op = "delete" /\ y.chain = BlockChain /\ y.rule = Drop("to", p) /\ y.rule.dir = "to"
  BY DEF OnRule, Drop
<1>2. Unblock(p) = <<x, y>>
  BY DEF Unblock, BlockChain
<1> HIDE DEF x, y
<1>3. Follows(y, x)
  <2>1. Rank(x) = 8 /\ Rank(y) = 9
    BY <1>1, RankOf
  <2>2. QED
    BY <2>1 DEF Follows
<1>4. Left(Unblock(p)) = {x, y} /\ Ordered(Unblock(p))
  <2>1. PICK l : l = <<x, y>>
    OBVIOUS
  <2>2. Left(l) = {x, y} /\ Ordered(l)
    BY <1>3, <2>1, LeftLists
  <2>3. QED
    BY <1>2, <2>1, <2>2
<1>5. QED
  BY <1>1, <1>4 DEF Shape, Hooky, ToJump, Promise, Unblocked, Dirs

LEMMA StartReports ==
  ASSUME NEW a, Actors = {a}, IInv, ReportInv(a), NEW action \in Isolating \cup Blocking, NEW p, NEW l,
         Start(a, action, p, l), Ordered(l), Shape(action, p, Left(l)),
         Promise(action, p, Left(l), rules, jumps, ignored)
  PROVE  /\ UnderWay(run'[a], rules, jumps, ignored)
         /\ PairInv(run'[a], rules, ignored)
         /\ Stands(isolation, Isolating, run'[a], rules, jumps, ignored)
         /\ Stands(blocking, Blocking, run'[a], rules, jumps, ignored)
<1>1. run[a] = Idle /\ run'[a] = [action |-> action, ip |-> p, left |-> l]
  BY DEF Start, IInv
<1>2. run'[a].action = action /\ run'[a].ip = p /\ run'[a].left = l
  BY <1>1
<1>3. run'[a] # Idle
  <2>1. action # "none"
    BY DEF Isolating, Blocking
  <2>2. Idle.action = "none"
    BY DEF Idle
  <2>3. QED
    BY <1>2, <2>1, <2>2
<1>4. UnderWay(run'[a], rules, jumps, ignored)
  BY <1>1 DEF UnderWay
<1>5. PairInv(run'[a], rules, ignored)
  <2>1. Paired("none", "none", {}, rules, ignored)
    BY <1>1 DEF ReportInv, PairInv
  <2>2. Paired(action, p, Left(l), rules, ignored)
    BY <2>1 DEF Paired, Pairing
  <2>3. QED
    BY <1>2, <1>3, <2>2 DEF PairInv
<1>6. /\ Stands(isolation, Isolating, Idle, rules, jumps, ignored)
      /\ Stands(blocking, Blocking, Idle, rules, jumps, ignored)
  BY <1>1 DEF ReportInv
<1>7. QED
  BY <1>4, <1>5, <1>6 DEF Stands

LEMMA StepReports ==
  ASSUME NEW a, Actors = {a}, IInv, ReportInv(a), [Next]_vars
  PROVE  ReportInv(a)'
<1>1. serverIsName' = serverIsName
  BY DEF Next, Orderable, StartIsolate, StartRelease, StartBlock, StartUnblock, Start, Succeed, Fail, vars
<1>2. Protected' = Protected
  BY <1>1 DEF Protected, Peers
<1>3. CASE UNCHANGED vars
  BY <1>2, <1>3 DEF vars, ReportInv, Tables, UnderWay, PairInv, Paired, Stands
<1>4. ASSUME NEW action \in Isolating \cup Blocking, NEW p, NEW l,
             Start(a, action, p, l), Ordered(l), Shape(action, p, Left(l)),
             Promise(action, p, Left(l), rules, jumps, ignored)
      PROVE  ReportInv(a)'
  <2>1. UNCHANGED <<rules, jumps, ignored, isolation, blocking>>
    BY <1>4 DEF Start
  <2>2. /\ UnderWay(run'[a], rules, jumps, ignored)
        /\ PairInv(run'[a], rules, ignored)
        /\ Stands(isolation, Isolating, run'[a], rules, jumps, ignored)
        /\ Stands(blocking, Blocking, run'[a], rules, jumps, ignored)
    BY <1>4, StartReports
  <2>3. Tables(rules, jumps)
    BY DEF ReportInv
  <2>4. QED
    BY <1>2, <2>1, <2>2, <2>3 DEF ReportInv, Tables
<1>5. CASE StartIsolate(a)
  BY <1>4, <1>5, IsolateStarts DEF StartIsolate, Isolating
<1>6. CASE StartRelease(a)
  BY <1>4, <1>6, ReleaseStarts DEF StartRelease, Isolating
<1>7. ASSUME NEW p \in Blockable, StartBlock(a, p) PROVE ReportInv(a)'
  BY <1>4, <1>7, BlockStarts DEF StartBlock, Blocking
<1>8. ASSUME NEW p \in Blockable, StartUnblock(a, p) PROVE ReportInv(a)'
  BY <1>4, <1>8, UnblockStarts DEF StartUnblock, Blocking
<1>9. CASE Succeed(a) \/ Fail(a)
  BY <1>2, <1>9, CommandReports DEF ReportInv, Tables
<1>10. QED
  BY <1>3, <1>5, <1>6, <1>7, <1>8, <1>9 DEF Next, Orderable

LEMMA InitReports ==
  ASSUME NEW a, Actors = {a}, Init
  PROVE  ReportInv(a)
<1>1. run[a] = Idle /\ rules = << >> /\ isolation = NoResult /\ blocking = NoResult
  BY DEF Init
<1>2. DOMAIN rules = {}
  BY <1>1
<1>3. jumps \in JumpTable
  BY DEF Init, JumpTable
<1>4. QED
  BY <1>1, <1>2, <1>3 DEF ReportInv, Tables, UnderWay, PairInv, Paired, Stands, Within

-----------------------------------------------------------------------------
(* What the chains mean for a packet.                                      *)
LEMMA IsolatedDrops ==
  ASSUME IInv, Tables(rules, jumps), NEW dir \in Dirs,
         Within(IsolateChain, DropAll, rules), jumps[IsolateChain][HookOf(dir)] > 0
  PROVE  Dropped(dir, "other")
<1> DEFINE s == rules[IsolateChain]
           K == {k \in 1..Len(s) : s[k] = DropAll}
<1>1. IsolateChain \in DOMAIN rules /\ K # {}
  BY DEF Within
<1>2. PICK S : s \in Seq(S)
  BY <1>1 DEF IInv, ChainInv, IsSeq
<1>3. Len(s) \in Nat /\ DOMAIN s = 1..Len(s)
  BY <1>2, LenProperties
<1>4. K \subseteq Nat
  BY <1>3
<1>5. PICK k \in K : \A m \in K : k <= m
  BY <1>1, <1>4, Smallest
<1>6. k \in 1..Len(s) /\ s[k] = DropAll
  BY <1>5
<1>7. s[k].drop /\ Matches(s[k], dir, "other")
  <2>1. DropAll.drop /\ DropAll.dir = "any" /\ DropAll.peer = "any"
    BY DEF DropAll, Drop
  <2>2. QED
    BY <1>6, <2>1 DEF Matches
<1>8. ASSUME NEW j \in 1..(k - 1) PROVE ~Matches(s[j], dir, "other")
  <2>1. j \in 1..Len(s) /\ ~(k <= j)
    BY <1>3, <1>6
  <2>2. s[j] # DropAll
    BY <1>5, <2>1
  <2>3. Within(IsolateChain, s[j], rules)
    BY <1>1, <2>1 DEF Within
  <2>4. s[j] \in Protected
    BY <2>2, <2>3 DEF Tables
  <2>5. PICK d \in Dirs, p \in Peers : s[j] = Accept(d, p)
    BY <2>4 DEF Protected
  <2>6. s[j].peer = p /\ p # "other" /\ p # "any"
    BY <2>5 DEF Accept, Peers
  <2>7. QED
    BY <2>6 DEF Matches
<1>9. k \in DOMAIN s
  BY <1>3, <1>6
<1> HIDE DEF K
<1>10. QED
  BY <1>1, <1>7, <1>8, <1>9 DEF Dropped

LEMMA BlockedDrops ==
  ASSUME IInv, NEW dir \in Dirs, NEW p,
         Within(BlockChain, Drop(dir, p), rules), jumps[BlockChain][HookOf(dir)] > 0
  PROVE  Dropped(dir, p)
<1> DEFINE s == rules[BlockChain]
           K == {k \in 1..Len(s) : Matches(s[k], dir, p)}
<1>1. BlockChain \in DOMAIN rules /\ K # {}
  <2>1. Matches(Drop(dir, p), dir, p)
    BY DEF Matches, Drop
  <2>2. QED
    BY <2>1 DEF Within
<1>2. PICK S : s \in Seq(S)
  BY <1>1 DEF IInv, ChainInv, IsSeq
<1>3. Len(s) \in Nat /\ DOMAIN s = 1..Len(s)
  BY <1>2, LenProperties
<1>4. K \subseteq Nat
  BY <1>3
<1>5. PICK k \in K : \A m \in K : k <= m
  BY <1>1, <1>4, Smallest
<1>6. k \in 1..Len(s) /\ Matches(s[k], dir, p)
  BY <1>5
<1>7. s[k].drop
  <2>1. PICK d \in Dirs, q \in Blockable : s[k] = Drop(d, q)
    BY <1>1, <1>6 DEF IInv, ChainInv, Blocks
  <2>2. QED
    BY <2>1 DEF Drop
<1>8. ASSUME NEW j \in 1..(k - 1) PROVE ~Matches(s[j], dir, p)
  <2>1. j \in 1..Len(s) /\ ~(k <= j)
    BY <1>3, <1>6
  <2>2. QED
    BY <1>5, <2>1
<1>9. k \in DOMAIN s
  BY <1>3, <1>6
<1> HIDE DEF K
<1>10. QED
  BY <1>1, <1>6, <1>7, <1>8, <1>9 DEF Dropped

\* Only a block drops the packets of one address, only the isolation those of all.
LEMMA DropsBy ==
  ASSUME IInv, Tables(rules, jumps), NEW dir \in Dirs, NEW p, Dropped(dir, p)
  PROVE  \/ Within(IsolateChain, DropAll, rules) /\ jumps[IsolateChain][HookOf(dir)] > 0
         \/ p \in Blockable /\ Within(BlockChain, Drop(dir, p), rules)
<1>1. PICK c \in DOMAIN rules :
        /\ jumps[c][HookOf(dir)] > 0
        /\ \E k \in DOMAIN rules[c] : rules[c][k].drop /\ Matches(rules[c][k], dir, p)
  BY DEF Dropped
<1>2. PICK k \in DOMAIN rules[c] : rules[c][k].drop /\ Matches(rules[c][k], dir, p)
  BY <1>1
<1>3. k \in 1..Len(rules[c])
  <2>1. PICK S : rules[c] \in Seq(S)
    BY DEF IInv, ChainInv, IsSeq
  <2>2. QED
    BY <1>2, <2>1, LenProperties
<1>4. Within(c, rules[c][k], rules)
  BY <1>3 DEF Within
<1>5. CASE c = IsolateChain
  <2>1. rules[c][k] \in Protected \cup {DropAll}
    BY <1>4, <1>5 DEF Tables
  <2>2. rules[c][k] \notin Protected
    <3> SUFFICES ASSUME NEW d, NEW q, rules[c][k] = Accept(d, q) PROVE FALSE
      BY DEF Protected
    <3>1. ~Accept(d, q).drop
      BY DEF Accept
    <3>2. QED
      BY <1>2, <3>1
  <2>3. QED
    BY <1>1, <1>4, <1>5, <2>1, <2>2
<1>6. CASE c = BlockChain
  <2>1. PICK d \in Dirs, q \in Blockable : rules[c][k] = Drop(d, q)
    BY <1>3, <1>6 DEF IInv, ChainInv, Blocks
  <2>2. d \in {dir, "any"} /\ q \in {p, "any"}
    BY <1>2, <2>1 DEF Matches, Drop
  <2>3. d = dir /\ q = p
    BY <2>1, <2>2 DEF Dirs, Blockable
  <2>4. QED
    BY <1>4, <1>6, <2>1, <2>3
<1>7. QED
  BY <1>5, <1>6 DEF IInv, ChainInv

\* What an action reported holds when the thread is idle.
LEMMA IsolationTold ==
  ASSUME NEW a, Actors = {a}, IInv, ReportInv(a)
  PROVE  IsolatedAsReported
<1> SUFFICES ASSUME run[a] = Idle PROVE
      /\ Reported(isolation, "isolate_host") /\ "insert jump" \notin ignored =>
           \A dir \in Dirs : Dropped(dir, "other")
      /\ Reported(isolation, "release_host") /\ "delete jump" \notin ignored =>
           \A dir \in Dirs : ~Dropped(dir, "other")
  BY DEF IsolatedAsReported
<1>1. \A dir \in Dirs : HookOf(dir) \in Ends
  BY DEF Dirs, HookOf, Ends
<1>2. Tables(rules, jumps)
  BY DEF ReportInv
<1>3. ASSUME NEW action \in Isolating, Reported(isolation, action)
      PROVE  Promise(action, isolation.ip, {}, rules, jumps, ignored)
  <2>1. isolation.action = action /\ isolation.success
    BY <1>3 DEF Reported
  <2>2. isolation # NoResult
    BY <1>3, <2>1 DEF NoResult, Isolating
  <2>3. QED
    BY <2>1, <2>2 DEF ReportInv, Stands
<1>4. ASSUME Reported(isolation, "isolate_host"), "insert jump" \notin ignored, NEW dir \in Dirs
      PROVE  Dropped(dir, "other")
  <2>1. Isolated({}, rules, jumps)
    BY <1>3, <1>4 DEF Isolating, Promise
  <2>2. QED
    BY <1>1, <1>2, <2>1, IsolatedDrops DEF Isolated
<1>5. ASSUME Reported(isolation, "release_host"), "delete jump" \notin ignored, NEW dir \in Dirs,
             Dropped(dir, "other")
      PROVE  FALSE
  <2>1. Released({}, jumps)
    BY <1>3, <1>5 DEF Isolating, Promise
  <2>2. jumps[IsolateChain][HookOf(dir)] = 0
    BY <1>1, <2>1 DEF Released
  <2>3. jumps[IsolateChain][HookOf(dir)] > 0
    <3>1. "other" \notin Blockable
      BY DEF Blockable
    <3>2. QED
      BY <1>2, <1>5, <3>1, DropsBy
  <2>4. QED
    BY <2>2, <2>3
<1>6. QED
  BY <1>4, <1>5

LEMMA BlockingTold ==
  ASSUME NEW a, Actors = {a}, IInv, ReportInv(a)
  PROVE  BlockedAsReported
<1> SUFFICES ASSUME run[a] = Idle PROVE
      /\ Reported(blocking, "block_ip") /\ {"insert jump", "add", "delete"} \cap ignored = {} =>
           \A dir \in Dirs : Dropped(dir, blocking.ip)
      /\ Reported(blocking, "unblock_ip") /\ "delete" \notin ignored =>
           \A dir \in Dirs : Dropped(dir, blocking.ip) => Dropped(dir, "other")
  BY DEF BlockedAsReported
<1>1. \A dir \in Dirs : HookOf(dir) \in Ends
  BY DEF Dirs, HookOf, Ends
<1>2. Tables(rules, jumps)
  BY DEF ReportInv
<1>3. ASSUME NEW action \in Blocking, Reported(blocking, action)
      PROVE  Promise(action, blocking.ip, {}, rules, jumps, ignored)
  <2>1. blocking.action = action /\ blocking.success
    BY <1>3 DEF Reported
  <2>2. blocking # NoResult
    BY <1>3, <2>1 DEF NoResult, Blocking
  <2>3. QED
    BY <2>1, <2>2 DEF ReportInv, Stands
<1>4. ASSUME Reported(blocking, "block_ip"), {"insert jump", "add", "delete"} \cap ignored = {},
             NEW dir \in Dirs
      PROVE  Dropped(dir, blocking.ip)
  <2>1. /\ Hooked({}, rules, jumps)
        /\ BlockedFrom(blocking.ip, {}, rules) /\ BlockedTo(blocking.ip, {}, rules)
    BY <1>3, <1>4 DEF Blocking, Promise
  <2>2. Within(BlockChain, Drop(dir, blocking.ip), rules)
    BY <2>1 DEF BlockedFrom, BlockedTo, Dirs
  <2>3. jumps[BlockChain][HookOf(dir)] > 0
    BY <1>1, <2>1, <2>2 DEF Hooked, Within
  <2>4. QED
    BY <2>2, <2>3, BlockedDrops
<1>5. ASSUME Reported(blocking, "unblock_ip"), "delete" \notin ignored, NEW dir \in Dirs,
             Dropped(dir, blocking.ip)
      PROVE  Dropped(dir, "other")
  <2>1. Unblocked(blocking.ip, {}, rules)
    BY <1>3, <1>5 DEF Blocking, Promise
  <2>2. ~Within(BlockChain, Drop(dir, blocking.ip), rules)
    BY <2>1 DEF Unblocked
  <2>3. QED
    BY <1>2, <1>5, <2>2, DropsBy, IsolatedDrops
<1>6. QED
  BY <1>4, <1>5

\* isolate_host and release_host, of an agent whose actions one thread runs: the
\* success that is reported is the state of the firewall at the time, and remains
\* so, whatever blocks and unblocks of addresses and failed commands there are.
THEOREM OneThreadIsolatesAsReported ==
  ASSUME NEW a, Actors = {a}
  PROVE  Spec => []IsolatedAsReported
<1>1. Init => IInv /\ ReportInv(a)
  BY Initially, InitReports
<1>2. IInv /\ ReportInv(a) /\ [Next]_vars => IInv' /\ ReportInv(a)'
  BY StepIInv, StepReports
<1>3. IInv /\ ReportInv(a) => IsolatedAsReported
  BY IsolationTold
<1>4. QED
  BY <1>1, <1>2, <1>3, PTL DEF Spec

\* block_ip and unblock_ip, likewise: an address reported as blocked is blocked both
\* ways, and one reported as unblocked is not, but for the failures named there.
THEOREM OneThreadBlocksAsReported ==
  ASSUME NEW a, Actors = {a}
  PROVE  Spec => []BlockedAsReported
<1>1. Init => IInv /\ ReportInv(a)
  BY Initially, InitReports
<1>2. IInv /\ ReportInv(a) /\ [Next]_vars => IInv' /\ ReportInv(a)'
  BY StepIInv, StepReports
<1>3. IInv /\ ReportInv(a) => BlockedAsReported
  BY BlockingTold
<1>4. QED
  BY <1>1, <1>2, <1>3, PTL DEF Spec

-----------------------------------------------------------------------------
(* The sensors.                                                            *)
(*                                                                         *)
(* What a sensor tells.  Every item has a value that its memory, or the    *)
(* baseline, has of it, and that value is what the pipeline was told last, *)
(* or is on its way: in the queue, or an event that waits to be emitted.   *)
Values == Contents \cup {None}
Pcs == {"setup", "broken", "rest", "compare", "store", "more", "each", "add", "emit"}
EventType == [item : Items, value : Values]
ListenerType == [pc : {"off", "wait", "note", "tell"}, item : Items \cup {None},
                 value : Values, execs : SUBSET Items]

SensorType ==
  /\ sensor \in Kinds
  /\ world \in [Items -> Values \cup {Over}]
  /\ stored \in [Items -> Values] /\ saved \in BOOLEAN
  /\ memory \in [Items -> Values] /\ first \in BOOLEAN
  /\ pc \in Pcs /\ snap \in [Items -> Values]
  /\ left \subseteq Items /\ (pc = "add" => item \in Items)
  /\ events \subseteq EventType /\ queue \in Seq(EventType)
  /\ listener \in ListenerType
  /\ listener.pc \in {"note", "tell"} => listener.item \in Items /\ listener.value \in Contents
  /\ told \in [Items -> Values]

\* With t told and q in the queue, v is the last that is told of item i.
Says(t, q, i, v) ==
  \/ t[i] = v /\ \A n \in 1..Len(q) : q[n].item # i
  \/ \E n \in 1..Len(q) : /\ q[n].item = i /\ q[n].value = v
                          /\ \A m \in 1..Len(q) : m > n => q[m].item # i

\* No event of item i in the queue repeats what was told before it.
News(t, q, i) ==
  \A n \in 1..Len(q) : q[n].item = i =>
    /\ (\A m \in 1..(n - 1) : q[m].item # i) => t[i] # q[n].value
    /\ \A m \in 1..(n - 1) :
         q[m].item = i /\ (\A k \in (m + 1)..(n - 1) : q[k].item # i) => q[m].value # q[n].value

\* The event that the listener is about to emit.
Telling == IF listener.pc = "tell" THEN {Event(listener.item, listener.value)} ELSE {}

(* When the events of P are emitted too, v is the last that is told of i;  *)
(* and if there is one of i among them, it is news.                        *)
Awaits(t, q, P, i, v) ==
  IF i \in ItemsOf(P)
  THEN (\A e \in P : e.item = i => e.value = v) /\ \E u \in Values : u # v /\ Says(t, q, i, u)
  ELSE Says(t, q, i, v)

-----------------------------------------------------------------------------
LEMMA SaysEmpty ==
  ASSUME NEW t, NEW i, NEW v
  PROVE  /\ Says(t, << >>, i, v) <=> t[i] = v
         /\ News(t, << >>, i)
BY DEF Says, News

LEMMA SaysOne ==
  ASSUME NEW t, NEW q \in Seq(EventType), NEW i, NEW u, NEW v, Says(t, q, i, u), Says(t, q, i, v)
  PROVE  u = v
<1>1. CASE \A n \in 1..Len(q) : q[n].item # i
  BY <1>1 DEF Says
<1>2. CASE \E n \in 1..Len(q) : q[n].item = i
  <2>1. PICK n \in 1..Len(q) : q[n].item = i /\ q[n].value = u /\ \A m \in 1..Len(q) : m > n => q[m].item # i
    BY <1>2 DEF Says
  <2>2. PICK k \in 1..Len(q) : q[k].item = i /\ q[k].value = v /\ \A m \in 1..Len(q) : m > k => q[m].item # i
    BY <1>2 DEF Says
  <2>3. n = k
    BY <2>1, <2>2
  <2>4. QED
    BY <2>1, <2>2, <2>3
<1>3. QED
  BY <1>1, <1>2

LEMMA AppendOne ==
  ASSUME NEW q \in Seq(EventType), NEW e \in EventType
  PROVE  /\ Append(q, e) \in Seq(EventType)
         /\ Len(q) \in Nat /\ Len(Append(q, e)) = Len(q) + 1
         /\ \A n \in 1..Len(q) : Append(q, e)[n] = q[n]
         /\ Append(q, e)[Len(q) + 1] = e
BY AppendProperties, LenProperties

LEMMA SaysAppend ==
  ASSUME NEW t, NEW q \in Seq(EventType), NEW e \in EventType, NEW i
  PROVE  /\ e.item = i => Says(t, Append(q, e), i, e.value)
         /\ \A v : e.item # i /\ Says(t, q, i, v) => Says(t, Append(q, e), i, v)
<1> DEFINE r == Append(q, e)
<1>1. /\ Len(q) \in Nat /\ Len(r) = Len(q) + 1
      /\ \A n \in 1..Len(q) : r[n] = q[n]
      /\ r[Len(q) + 1] = e
  BY AppendOne
<1> HIDE DEF r
<1>2. ASSUME e.item = i PROVE Says(t, r, i, e.value)
  BY <1>1, <1>2 DEF Says
<1>3. ASSUME NEW v, e.item # i, Says(t, q, i, v) PROVE Says(t, r, i, v)
  <2>1. CASE t[i] = v /\ \A n \in 1..Len(q) : q[n].item # i
    <3>1. \A n \in 1..Len(r) : r[n].item # i
      BY <1>1, <1>3, <2>1
    <3>2. QED
      BY <2>1, <3>1 DEF Says
  <2>2. CASE \E n \in 1..Len(q) : /\ q[n].item = i /\ q[n].value = v
                                  /\ \A m \in 1..Len(q) : m > n => q[m].item # i
    <3>1. PICK n \in 1..Len(q) : /\ q[n].item = i /\ q[n].value = v
                                 /\ \A m \in 1..Len(q) : m > n => q[m].item # i
      BY <2>2
    <3>2. \A m \in 1..Len(r) : m > n => r[m].item # i
      BY <1>1, <1>3, <3>1
    <3>3. n \in 1..Len(r) /\ r[n].item = i /\ r[n].value = v
      BY <1>1, <3>1
    <3>4. QED
      BY <3>2, <3>3 DEF Says
  <2>3. QED
    BY <1>3, <2>1, <2>2 DEF Says
<1>4. QED
  BY <1>2, <1>3 DEF r

LEMMA NewsAppend ==
  ASSUME NEW t, NEW q \in Seq(EventType), NEW e \in EventType, NEW i, News(t, q, i),
         NEW u, e.item = i => u # e.value /\ Says(t, q, i, u)
  PROVE  News(t, Append(q, e), i)
<1> DEFINE r == Append(q, e)
<1>1. /\ Len(q) \in Nat /\ Len(r) = Len(q) + 1
      /\ \A n \in 1..Len(q) : r[n] = q[n]
      /\ r[Len(q) + 1] = e
  BY AppendOne
<1> HIDE DEF r
<1>2. SUFFICES ASSUME NEW n \in 1..Len(r), r[n].item = i
               PROVE  /\ (\A m \in 1..(n - 1) : r[m].item # i) => t[i] # r[n].value
                      /\ \A m \in 1..(n - 1) :
                           r[m].item = i /\ (\A k \in (m + 1)..(n - 1) : r[k].item # i)
                             => r[m].value # r[n].value
  BY DEF News, r
<1>3. CASE n \in 1..Len(q)
  <2>1. /\ (\A m \in 1..(n - 1) : q[m].item # i) => t[i] # q[n].value
        /\ \A m \in 1..(n - 1) :
             q[m].item = i /\ (\A k \in (m + 1)..(n - 1) : q[k].item # i) => q[m].value # q[n].value
    BY <1>1, <1>2, <1>3 DEF News
  <2>2. \A m \in 1..(n - 1) : r[m] = q[m]
    BY <1>1, <1>3
  <2>3. r[n] = q[n]
    BY <1>1, <1>3
  <2>4. QED
    BY <1>1, <1>3, <2>1, <2>2, <2>3
<1>4. CASE n = Len(q) + 1
  <2>1. r[n] = e /\ u # e.value /\ Says(t, q, i, u)
    BY <1>1, <1>2, <1>4
  <2>2. \A m \in 1..Len(q) : r[m] = q[m]
    BY <1>1
  <2>3. ASSUME \A m \in 1..Len(q) : r[m].item # i PROVE t[i] # e.value
    BY <2>1, <2>2, <2>3 DEF Says
  <2>4. ASSUME NEW m \in 1..Len(q), r[m].item = i, \A k \in (m + 1)..Len(q) : r[k].item # i
        PROVE  r[m].value # e.value
    <3>1. q[m].item = i /\ \A k \in 1..Len(q) : k > m => q[k].item # i
      BY <1>1, <2>2, <2>4
    <3>2. Says(t, q, i, q[m].value)
      BY <3>1 DEF Says
    <3>3. QED
      BY <2>1, <2>2, <3>2, SaysOne
  <2>5. n - 1 = Len(q)
    BY <1>1, <1>4
  <2>6. QED
    BY <2>1, <2>3, <2>4, <2>5
<1>5. QED
  BY <1>1, <1>2, <1>3, <1>4

LEMMA TailOne ==
  ASSUME NEW q \in Seq(EventType), q # << >>
  PROVE  /\ Head(q) = q[1] /\ Head(q) \in EventType /\ Tail(q) \in Seq(EventType)
         /\ Len(q) \in Nat \ {0} /\ Len(Tail(q)) = Len(q) - 1
         /\ \A n \in 1..(Len(q) - 1) : Tail(q)[n] = q[n + 1]
         /\ \A n \in 2..Len(q) : q[n] = Tail(q)[n - 1]
BY HeadTailProperties, EmptySeq, LenProperties

\* What the pipeline is told is what the first of the queue said.
LEMMA SaysTail ==
  ASSUME NEW t, NEW s, NEW q \in Seq(EventType), q # << >>, NEW i, NEW v,
         s[i] = IF Head(q).item = i THEN Head(q).value ELSE t[i]
  PROVE  /\ Says(t, q, i, v) => Says(s, Tail(q), i, v)
         /\ News(t, q, i) => News(s, Tail(q), i)
<1> DEFINE r == Tail(q)
           h == Head(q)
<1>1. /\ h = q[1] /\ Len(q) \in Nat \ {0} /\ Len(r) = Len(q) - 1
      /\ \A n \in 1..(Len(q) - 1) : r[n] = q[n + 1]
      /\ \A n \in 2..Len(q) : q[n] = r[n - 1]
  BY TailOne
<1>2. s[i] = IF h.item = i THEN h.value ELSE t[i]
  OBVIOUS
<1> HIDE DEF r, h
<1>3. ASSUME Says(t, q, i, v) PROVE Says(s, r, i, v)
  <2>1. CASE t[i] = v /\ \A n \in 1..Len(q) : q[n].item # i
    <3>1. h.item # i /\ \A n \in 1..Len(r) : r[n].item # i
      BY <1>1, <2>1
    <3>2. QED
      BY <1>2, <2>1, <3>1 DEF Says
  <2>2. CASE \E n \in 1..Len(q) : /\ q[n].item = i /\ q[n].value = v
                                  /\ \A m \in 1..Len(q) : m > n => q[m].item # i
    <3>1. PICK n \in 1..Len(q) : /\ q[n].item = i /\ q[n].value = v
                                 /\ \A m \in 1..Len(q) : m > n => q[m].item # i
      BY <2>2
    <3>2. CASE n = 1
      <4>1. s[i] = v
        BY <1>1, <1>2, <3>1, <3>2
      <4>2. \A m \in 1..Len(r) : r[m].item # i
        BY <1>1, <3>1, <3>2
      <4>3. QED
        BY <4>1, <4>2 DEF Says
    <3>3. CASE n # 1
      <4>1. n - 1 \in 1..Len(r) /\ r[n - 1] = q[n]
        BY <1>1, <3>1, <3>3
      <4>2. \A m \in 1..Len(r) : m > n - 1 => r[m].item # i
        BY <1>1, <3>1, <3>3
      <4>3. QED
        BY <3>1, <4>1, <4>2 DEF Says
    <3>4. QED
      BY <3>2, <3>3
  <2>3. QED
    BY <1>3, <2>1, <2>2 DEF Says
<1>4. ASSUME News(t, q, i) PROVE News(s, r, i)
  <2>1. SUFFICES ASSUME NEW n \in 1..Len(r), r[n].item = i
                 PROVE  /\ (\A m \in 1..(n - 1) : r[m].item # i) => s[i] # r[n].value
                        /\ \A m \in 1..(n - 1) :
                             r[m].item = i /\ (\A k \in (m + 1)..(n - 1) : r[k].item # i)
                               => r[m].value # r[n].value
    BY DEF News
  <2>2. PICK j \in 1..Len(q) : j = n + 1 /\ q[j] = r[n]
    BY <1>1
  <2>3. /\ (\A m \in 1..(j - 1) : q[m].item # i) => t[i] # q[j].value
        /\ \A m \in 1..(j - 1) :
             q[m].item = i /\ (\A k \in (m + 1)..(j - 1) : q[k].item # i) => q[m].value # q[j].value
    BY <1>4, <2>1, <2>2 DEF News
  <2>4. ASSUME \A m \in 1..(n - 1) : r[m].item # i PROVE s[i] # r[n].value
    <3>1. \A k \in 2..(j - 1) : q[k].item # i
      BY <1>1, <2>2, <2>4
    <3>2. CASE h.item = i
      BY <1>1, <1>2, <2>2, <2>3, <3>1, <3>2
    <3>3. CASE h.item # i
      <4>1. \A m \in 1..(j - 1) : q[m].item # i
        BY <1>1, <3>1, <3>3
      <4>2. QED
        BY <1>2, <2>2, <2>3, <3>3, <4>1
    <3>4. QED
      BY <3>2, <3>3
  <2>5. ASSUME NEW m \in 1..(n - 1), r[m].item = i, \A k \in (m + 1)..(n - 1) : r[k].item # i
        PROVE  r[m].value # r[n].value
    <3>1. m + 1 \in 1..(j - 1) /\ q[m + 1] = r[m]
      BY <1>1, <2>2
    <3>2. \A k \in (m + 2)..(j - 1) : q[k].item # i
      <4>1. ASSUME NEW k \in (m + 2)..(j - 1) PROVE q[k].item # i
        <5>1. k - 1 \in (m + 1)..(n - 1) /\ q[k] = r[k - 1]
          BY <1>1, <2>2
        <5>2. QED
          BY <2>5, <5>1
      <4>2. QED
        BY <4>1
    <3>3. QED
      BY <2>2, <2>3, <2>5, <3>1, <3>2
  <2>6. QED
    BY <2>4, <2>5
<1>5. QED
  BY <1>3, <1>4 DEF r

LEMMA AwaitsNone ==
  ASSUME NEW t, NEW q, NEW P, NEW i, NEW v, i \notin ItemsOf(P)
  PROVE  Awaits(t, q, P, i, v) <=> Says(t, q, i, v)
BY DEF Awaits

\* Only the events of i matter.
LEMMA AwaitsSame ==
  ASSUME NEW t, NEW q, NEW P, NEW Q, NEW i, NEW v,
         {e \in P : e.item = i} = {e \in Q : e.item = i}, Awaits(t, q, P, i, v)
  PROVE  Awaits(t, q, Q, i, v)
<1>1. \A e : (e \in P /\ e.item = i) <=> (e \in Q /\ e.item = i)
  OBVIOUS
<1>2. i \in ItemsOf(P) <=> i \in ItemsOf(Q)
  BY <1>1 DEF ItemsOf
<1>3. QED
  BY <1>1, <1>2 DEF Awaits

\* An event that is not what was told last.
LEMMA AwaitsNew ==
  ASSUME NEW t, NEW q, NEW P, NEW i, NEW u \in Values, NEW v, u # v,
         i \in ItemsOf(P), \A e \in P : e.item = i => e.value = v, Says(t, q, i, u)
  PROVE  Awaits(t, q, P, i, v)
BY DEF Awaits

\* An event that is emitted.
LEMMA AwaitsPut ==
  ASSUME NEW t, NEW q \in Seq(EventType), NEW P \in SUBSET EventType, NEW e \in P, NEW i, NEW v,
         Awaits(t, q, P, i, v), News(t, q, i)
  PROVE  Awaits(t, Append(q, e), P \ {e}, i, v) /\ News(t, Append(q, e), i)
<1>1. e \in EventType
  OBVIOUS
<1>2. CASE e.item = i
  <2>1. i \in ItemsOf(P)
    BY <1>2 DEF ItemsOf
  <2>2. PICK u \in Values : u # v /\ Says(t, q, i, u)
    BY <2>1 DEF Awaits
  <2>3. \A d \in P : d.item = i => d.value = v
    BY <2>1 DEF Awaits
  <2>4. \A d \in P : d.item = i => d = e
    <3>1. ASSUME NEW d \in P, d.item = i PROVE d = e
      <4>1. d \in EventType /\ d.value = e.value /\ d.item = e.item
        BY <1>2, <2>3, <3>1
      <4>2. QED
        BY <1>1, <4>1 DEF EventType
    <3>2. QED
      BY <3>1
  <2>5. i \notin ItemsOf(P \ {e})
    BY <2>4 DEF ItemsOf
  <2>6. e.value = v
    BY <1>2, <2>3
  <2>7. Says(t, Append(q, e), i, e.value)
    BY <1>1, <1>2, SaysAppend
  <2>8. Awaits(t, Append(q, e), P \ {e}, i, v)
    BY <2>5, <2>6, <2>7, AwaitsNone
  <2>9. News(t, Append(q, e), i)
    BY <1>1, <2>2, <2>6, NewsAppend
  <2>10. QED
    BY <2>8, <2>9
<1>3. CASE e.item # i
  <2>1. {d \in P : d.item = i} = {d \in P \ {e} : d.item = i}
    BY <1>3
  <2>2. Awaits(t, q, P \ {e}, i, v)
    BY <2>1, AwaitsSame
  <2>3. \A u : Says(t, q, i, u) => Says(t, Append(q, e), i, u)
    BY <1>1, <1>3, SaysAppend
  <2>4. Awaits(t, Append(q, e), P \ {e}, i, v)
    BY <2>2, <2>3 DEF Awaits
  <2>5. News(t, Append(q, e), i)
    BY <1>1, <1>3, NewsAppend
  <2>6. QED
    BY <2>4, <2>5
<1>4. QED
  BY <1>2, <1>3

LEMMA AwaitsTail ==
  ASSUME NEW t, NEW s, NEW q \in Seq(EventType), q # << >>, NEW P, NEW i, NEW v,
         s[i] = IF Head(q).item = i THEN Head(q).value ELSE t[i], Awaits(t, q, P, i, v)
  PROVE  Awaits(s, Tail(q), P, i, v)
<1>1. \A u : Says(t, q, i, u) => Says(s, Tail(q), i, u)
  BY SaysTail
<1>2. QED
  BY <1>1 DEF Awaits

-----------------------------------------------------------------------------
\* Before setup, or after one that has raised.
Unset == {"setup", "broken"}

\* Where a sensor is, and what there is then.
StepInv ==
  /\ pc \in Unset \cup {"rest", "compare"} => events = {}
  /\ pc \in Unset => queue = << >> /\ listener = NotListening
  /\ pc = "compare" => sensor # "process"
  /\ pc \in {"each", "add"} => sensor = "process"
  /\ pc = "store" => Persists(sensor)
  /\ sensor = "process" => pc \notin {"more", "broken"}
  /\ listener # NotListening => sensor = "process"
  /\ pc \in {"each", "add"} => /\ \A i \in left : snap[i] # None
                               /\ \A e \in events : e.value # None /\ snap[e.item] # None
  /\ pc = "add" => snap[item] # None

\* Before the first snapshot is stored nothing was told that is in a queue.
FirstInv ==
  Persists(sensor) =>
    /\ pc \notin Unset => (first <=> ~saved)
    /\ ~saved => /\ stored = Nothing /\ queue = << >>
                 /\ pc \in Unset \cup {"rest", "compare", "store"}
                 /\ sensor \in TellsFirst => told = Nothing

\* The value that the pipeline has, or gets, of item i.  Of who has left a group
\* it gets nothing, and that is lost when it is stored.
Awaited(i) == IF ~Persists(sensor) THEN memory[i]
              ELSE IF pc = "store" /\ (first \/ i \notin Silent) THEN snap[i] ELSE stored[i]
Knows == (pc \notin Unset \/ Persists(sensor)) /\ (Persists(sensor) /\ pc # "store" => saved)

\* What a sensor with a baseline has in memory, and falls back to.
BaselineInv(i) ==
  Persists(sensor) /\ saved =>
    /\ pc = "store" => Says(told, queue, i, stored[i])
    /\ pc \notin Unset => memory[i] = IF pc = "store" /\ sensor \in MemoryFirst THEN snap[i] ELSE stored[i]

\* The events on their way to the queue.
Waiting == events \cup Telling

ItemInv(i) ==
  /\ News(told, queue, i)
  /\ Knows => Awaits(told, queue, Waiting, i, Awaited(i))
  /\ i \in ItemsOf(Telling) => i \notin ItemsOf(events)
  /\ BaselineInv(i)

PlaceInv == SensorType /\ StepInv /\ FirstInv
ToldInv == \A i \in Items \ (lost \cup overtaken) : ItemInv(i)

-----------------------------------------------------------------------------
LEMMA EventFields ==
  ASSUME NEW i \in Items, NEW v \in Values
  PROVE  Event(i, v) \in EventType /\ Event(i, v).item = i /\ Event(i, v).value = v
BY DEF Event, EventType

LEMMA NothingTyped == Nothing \in [Items -> Values] /\ \A i \in Items : Nothing[i] = None
BY DEF Nothing, Values

LEMMA SeenTyped ==
  SensorType => /\ Seen \in [Items -> Values]
                /\ \A i \in Items : Seen[i] = IF world[i] \in Contents THEN world[i] ELSE None
BY DEF Seen, SensorType, Values

LEMMA InitPlace == SensorInit => PlaceInv
<1> SUFFICES ASSUME SensorInit PROVE PlaceInv
  OBVIOUS
<1>1. NotListening \in ListenerType /\ NotListening.pc = "off"
  BY DEF NotListening, ListenerType, Values
<1>2. queue \in Seq(EventType)
  BY EmptySeq DEF SensorInit
<1>3. SensorType
  BY <1>1, <1>2, NothingTyped DEF SensorInit, SensorType, Values, Pcs, Contents
<1>4. StepInv
  BY DEF SensorInit, StepInv, Unset
<1>5. FirstInv
  BY DEF SensorInit, FirstInv, Unset
<1>6. QED
  BY <1>3, <1>4, <1>5 DEF PlaceInv


LEMMA Kinded ==
  /\ Persists(sensor) <=> sensor \in {"files", "staging", "persistence", "accounts", "kernel"}
  /\ sensor \in Kinds /\ ~Persists(sensor) <=> sensor \in {"devices", "sessions", "network", "process"}
BY DEF Persists, Kinds, MemoryFirst, StoreFirst, Devices, Anew

LEMMA TypeStep ==
  ASSUME SensorType, StepInv, SensorNext \/ UNCHANGED sensorVars
  PROVE  SensorType'
<1> USE DEF SensorType
<1>0. Nothing \in [Items -> Values] /\ None \in Values /\ Contents \subseteq Values
  BY NothingTyped DEF Values
<1>1. NotListening \in ListenerType /\ NotListening.pc = "off"
      /\ Listening \in ListenerType /\ Listening.pc = "wait"
  BY DEF NotListening, Listening, ListenerType, Values
<1>2. ASSUME NEW i \in Items, NEW v \in Contents \cup {None, Over}, Change(i, v) PROVE SensorType'
  <2>1. world' \in [Items -> Values \cup {Over}]
    BY <1>2 DEF Change, Values
  <2>2. listener' \in ListenerType /\ listener'.pc = listener.pc
        /\ listener'.item = listener.item /\ listener'.value = listener.value
    BY <1>2 DEF Change, ListenerType
  <2>3. QED
    BY <1>2, <2>1, <2>2 DEF Change, known, collector
<1>3. CASE Setup /\ (SetupBaseline \/ SetupDevices \/ \E listens \in BOOLEAN : SetupAnew(listens))
  <2>1. /\ listener' \in {listener, Listening, NotListening}
        /\ memory' \in [Items -> Values] /\ told' \in [Items -> Values] /\ first' \in BOOLEAN
    BY <1>0, <1>3, SeenTyped DEF SetupBaseline, SetupDevices, SetupAnew
  <2>2. QED
    BY <1>1, <1>3, <2>1 DEF Setup, Pcs
<1>4. ASSUME NEW hidden \in SUBSET Items, Snapshot(hidden) PROVE SensorType'
  <2>1. snap' \in [Items -> Values]
    BY <1>0, <1>4, SeenTyped DEF Snapshot
  <2>2. QED
    BY <1>4, <2>1 DEF Snapshot, Pcs, known, history
<1>5. CASE CompareFirst
  <2>1. events' \subseteq EventType
    BY <1>5, EventFields DEF CompareFirst
  <2>2. QED
    BY <1>5, <2>1 DEF CompareFirst, Collecting, Pcs
<1>6. CASE Compare \/ CompareAgain
  <2>1. events' \subseteq EventType
    BY <1>6, EventFields DEF Compare, CompareAgain, Changed
  <2>2. QED
    BY <1>6, <2>1 DEF Compare, CompareAgain, Collecting, Pcs, history
<1>7. CASE Store
  BY <1>7 DEF Store, Collecting, Pcs, history
<1>8. CASE StoreFails \/ MoreFails
  BY <1>8 DEF StoreFails, MoreFails, Raises, Collecting, Pcs, known
<1>9. CASE More
  BY <1>9 DEF More, Collecting, Pcs, history, known
<1>10. ASSUME NEW i \in Items, LookUp(i) PROVE SensorType'
  BY <1>10 DEF LookUp, Collecting, Pcs
<1>11. CASE Add
  <2>1. events' \subseteq EventType
    BY <1>11, EventFields DEF Add
  <2>2. QED
    BY <1>11, <2>1 DEF Add, Collecting, Pcs, history
<1>12. CASE Forget
  <2>1. events' \subseteq EventType
    BY <1>0, <1>12, EventFields DEF Forget
  <2>2. memory' \in [Items -> Values]
    BY <1>0, <1>12 DEF Forget
  <2>3. QED
    BY <1>12, <2>1, <2>2 DEF Forget, Collecting, Pcs
<1>13. ASSUME NEW e \in events, Emit(e) PROVE SensorType'
  <2>1. queue' \in Seq(EventType)
    BY <1>13, AppendOne DEF Emit, Put
  <2>2. QED
    BY <1>13, <2>1 DEF Emit, known, collector
<1>14. CASE Rest
  BY <1>0, <1>14 DEF Rest, Pcs, known, history
<1>15. CASE Deliver \/ DeliverFails
  <2>1. Head(queue) \in EventType /\ Tail(queue) \in Seq(EventType)
    BY <1>15, TailOne DEF Deliver, DeliverFails
  <2>2. QED
    BY <1>15, <2>1 DEF Deliver, DeliverFails, known, collector, EventType
<1>16. ASSUME NEW i \in Items, Hear(i) PROVE SensorType'
  <2>1. listener' \in ListenerType
        /\ (listener'.pc \in {"note", "tell"} => listener'.item \in Items /\ listener'.value \in Contents)
    BY <1>0, <1>16 DEF Hear, ListenerType
  <2>2. QED
    BY <1>16, <2>1 DEF Hear, Listener, collector
<1>17. CASE Note
  <2>1. listener' \in ListenerType
        /\ (listener'.pc \in {"note", "tell"} => listener'.item \in Items /\ listener'.value \in Contents)
    BY <1>0, <1>1, <1>17 DEF Note, ListenerType
  <2>2. memory' \in [Items -> Values]
    BY <1>0, <1>17 DEF Note
  <2>3. QED
    BY <1>17, <2>1, <2>2 DEF Note, Listener, collector
<1>18. CASE Tell
  <2>1. listener' \in ListenerType
        /\ (listener'.pc \in {"note", "tell"} => listener'.item \in Items /\ listener'.value \in Contents)
    BY <1>0, <1>1, <1>18 DEF Tell, ListenerType
  <2>2. queue' \in Seq(EventType)
    BY <1>0, <1>18, AppendOne, EventFields DEF Tell, Put
  <2>3. QED
    BY <1>18, <2>1, <2>2 DEF Tell, Listener, collector
<1>19. CASE ListenerEnds
  BY <1>1, <1>19 DEF ListenerEnds, Listener, collector
<1>20. CASE Restart
  <2>1. queue' \in Seq(EventType)
    BY <1>20, EmptySeq DEF Restart
  <2>2. QED
    BY <1>0, <1>1, <1>20, <2>1 DEF Restart, Pcs
<1>21. CASE CollectRaises \/ UNCHANGED sensorVars
  BY <1>21 DEF CollectRaises, sensorVars, known, collector, history
<1>22. CASE SetupFails
  BY <1>22 DEF SetupFails, Pcs, known, history
<1>23. QED
  BY <1>2, <1>3, <1>4, <1>5, <1>6, <1>7, <1>8, <1>9, <1>10, <1>11, <1>12, <1>13, <1>14, <1>15,
     <1>16, <1>17, <1>18, <1>19, <1>20, <1>21, <1>22
     DEF SensorNext, SetupBaseline, SetupDevices, SetupAnew

LEMMA PlaceStep ==
  ASSUME PlaceInv, SensorNext \/ UNCHANGED sensorVars
  PROVE  PlaceInv'
<1> USE DEF StepInv, FirstInv, Unset
<1>0. SensorType /\ StepInv /\ FirstInv
  BY DEF PlaceInv
<1> SUFFICES StepInv' /\ FirstInv'
  BY <1>0, TypeStep DEF PlaceInv
<1>1. NotListening.pc = "off" /\ Listening # NotListening
  BY DEF NotListening, Listening
<1>2. ASSUME NEW i \in Items, NEW v \in Contents \cup {None, Over}, Change(i, v)
      PROVE  StepInv' /\ FirstInv'
  <2>1. /\ listener = NotListening => listener' = NotListening
        /\ listener # NotListening => sensor = "process"
    BY <1>0, <1>1, <1>2 DEF Change
  <2>2. QED
    BY <1>0, <1>2, <2>1 DEF Change, known, collector, Persists
<1>3. CASE SetupBaseline
  BY <1>0, <1>3 DEF Setup, SetupBaseline, Persists, SensorType
<1>4. CASE SetupDevices
  <2>1. ~Persists(sensor) /\ sensor # "process"
    BY <1>4 DEF SetupDevices, Devices, Persists, MemoryFirst, StoreFirst
  <2>2. QED
    BY <1>0, <1>4, <2>1 DEF Setup, SetupDevices, Persists
<1>5. ASSUME NEW listens \in BOOLEAN, SetupAnew(listens) PROVE StepInv' /\ FirstInv'
  <2>1. ~Persists(sensor)
    BY <1>5 DEF SetupAnew, Anew, Persists, MemoryFirst, StoreFirst
  <2>2. QED
    BY <1>0, <1>5, <2>1 DEF Setup, SetupAnew, Persists
<1>6. ASSUME NEW hidden \in SUBSET Items, Snapshot(hidden) PROVE StepInv' /\ FirstInv'
  <2>1. sensor = "process" => ~Persists(sensor)
    BY DEF Persists, MemoryFirst, StoreFirst
  <2>2. QED
    BY <1>0, <1>6, <2>1 DEF Snapshot, known, history, Persists
<1>7. CASE CompareFirst
  BY <1>0, <1>7 DEF CompareFirst, Collecting, Persists, MemoryFirst, StoreFirst, TellsFirst
<1>8. CASE Compare
  <2>1. saved
    BY <1>0, <1>8 DEF Compare, SensorType
  <2>2. QED
    BY <1>0, <1>8, <2>1 DEF Compare, Collecting, Persists, history, MemoryFirst, StoreFirst
<1>9. CASE CompareAgain
  BY <1>0, <1>9 DEF CompareAgain, Collecting, Persists, history
<1>10. CASE Store
  BY <1>0, <1>10 DEF Store, Collecting, Persists, history, MemoryFirst, StoreFirst
<1>11. CASE StoreFails \/ MoreFails
  BY <1>0, <1>11 DEF StoreFails, MoreFails, Raises, Collecting, Persists, known
<1>12. CASE More
  BY <1>0, <1>12 DEF More, Collecting, Persists, known, history
<1>13. ASSUME NEW i \in Items, LookUp(i) PROVE StepInv' /\ FirstInv'
  BY <1>0, <1>13 DEF LookUp, Collecting, Persists, MemoryFirst, StoreFirst
<1>14. CASE Add
  <2>1. \A e \in events' : e.value # None /\ snap[e.item] # None
    BY <1>0, <1>14, EventFields DEF Add, SensorType
  <2>2. QED
    BY <1>0, <1>14, <2>1 DEF Add, Collecting, Persists, MemoryFirst, StoreFirst, history
<1>15. CASE Forget
  BY <1>0, <1>15 DEF Forget, Collecting, Persists, MemoryFirst, StoreFirst
<1>16. ASSUME NEW e \in events, Emit(e) PROVE StepInv' /\ FirstInv'
  BY <1>0, <1>16 DEF Emit, known, collector, Persists
<1>17. CASE Rest
  BY <1>0, <1>17 DEF Rest, known, history, Persists
<1>18. CASE Deliver \/ DeliverFails
  BY <1>0, <1>18 DEF Deliver, DeliverFails, known, collector, Persists
<1>19. ASSUME NEW i \in Items, Hear(i) PROVE StepInv' /\ FirstInv'
  <2>1. listener # NotListening /\ sensor = "process"
    BY <1>0, <1>1, <1>19 DEF Hear
  <2>2. QED
    BY <1>0, <1>19, <2>1 DEF Hear, Listener, collector, Persists, MemoryFirst, StoreFirst
<1>20. CASE Note \/ Tell \/ ListenerEnds
  <2>1. listener # NotListening /\ sensor = "process"
    BY <1>0, <1>1, <1>20 DEF Note, Tell, ListenerEnds
  <2>2. QED
    BY <1>0, <1>20, <2>1 DEF Note, Tell, ListenerEnds, Listener, collector, Persists, MemoryFirst,
       StoreFirst
<1>21. CASE Restart
  BY <1>0, <1>21 DEF Restart, Persists
<1>22. CASE CollectRaises \/ UNCHANGED sensorVars
  BY <1>0, <1>22 DEF CollectRaises, sensorVars, known, collector, history, Persists
<1>23. CASE SetupFails
  BY <1>0, <1>23 DEF SetupFails, known, history, Persists
<1>24. QED
  BY <1>2, <1>3, <1>4, <1>5, <1>6, <1>7, <1>8, <1>9, <1>10, <1>11, <1>12, <1>13, <1>14, <1>15,
     <1>16, <1>17, <1>18, <1>19, <1>20, <1>21, <1>22, <1>23 DEF SensorNext

-----------------------------------------------------------------------------
(* One lemma for each way in which a step changes what is told of an item. *)
LEMMA NotTelling ==
  /\ listener.pc # "tell" => Telling = {} /\ Waiting = events /\ \A i : i \notin ItemsOf(Telling)
  /\ listener.pc = "tell" => Telling = {Event(listener.item, listener.value)}
BY DEF Telling, Waiting, ItemsOf

LEMMA NoItems == \A i : i \notin ItemsOf({})
BY DEF ItemsOf

LEMMA OnlyProcessTells ==
  ASSUME StepInv, sensor # "process"
  PROVE  Telling = {} /\ Waiting = events /\ listener.pc = "off"
<1>1. listener.pc = "off"
  BY DEF StepInv, NotListening
<1>2. QED
  BY <1>1, NotTelling

\* Nothing was told, and item i is known as it was.
LEMMA Unmoved ==
  ASSUME NEW i \in Items, ItemInv(i), UNCHANGED <<told, queue, events, sensor, stored, saved, first>>,
         Telling' = Telling, memory'[i] = memory[i],
         (pc' = pc /\ snap' = snap) \/ {pc, pc'} \cap (Unset \cup {"store"}) = {}
  PROVE  ItemInv(i)'
<1>1. Waiting' = Waiting
  BY DEF Waiting
<1>2. Knows' <=> Knows
  BY DEF Knows, Persists, Unset
<1>3. Awaited(i)' = Awaited(i)
  BY DEF Awaited, Persists, Silent
<1>4. BaselineInv(i)'
  BY DEF ItemInv, BaselineInv, Persists, Unset
<1>5. QED
  BY <1>1, <1>2, <1>3, <1>4 DEF ItemInv

\* Nothing was told, and a sensor that has failed to start falls back to its
\* baseline at the next.
LEMMA SetupFailsStep ==
  ASSUME PlaceInv, NEW i \in Items, ItemInv(i), SetupFails
  PROVE  ItemInv(i)'
<1>1. /\ pc = "setup" /\ pc' = "broken"
      /\ UNCHANGED <<sensor, stored, saved, memory, told, queue, events, listener>>
  BY DEF SetupFails, known, history
<1>2. Waiting' = Waiting /\ Telling' = Telling
  BY <1>1 DEF Waiting, Telling
<1>3. Knows' <=> Knows
  BY <1>1 DEF Knows, Persists, Unset
<1>4. Awaited(i)' = Awaited(i)
  BY <1>1 DEF Awaited, Persists
<1>5. BaselineInv(i)'
  BY <1>1 DEF BaselineInv, Unset
<1>6. QED
  BY <1>1, <1>2, <1>3, <1>4, <1>5 DEF ItemInv

LEMMA SetupSteps ==
  ASSUME PlaceInv, NEW i \in Items, ItemInv(i),
         SetupBaseline \/ SetupDevices \/ \E listens \in BOOLEAN : SetupAnew(listens)
  PROVE  ItemInv(i)'
<1>1. /\ pc = "setup" /\ pc' = "rest" /\ queue = << >> /\ queue' = << >>
      /\ events = {} /\ events' = {} /\ UNCHANGED <<sensor, stored, saved>>
      /\ listener = NotListening
  BY DEF SetupBaseline, SetupDevices, SetupAnew, Setup, PlaceInv, StepInv, Unset
<1>2. listener'.pc # "tell" /\ listener.pc # "tell"
  BY <1>1 DEF SetupBaseline, SetupDevices, SetupAnew, Listening, NotListening
<1>3. Telling' = {} /\ Waiting' = {} /\ i \notin ItemsOf(Telling')
  BY <1>1, <1>2, NoItems DEF Telling, Waiting
<1>4. News(told', queue', i)
  BY <1>1, SaysEmpty
<1>5. CASE SetupBaseline
  <2>1. Persists(sensor) /\ told' = told /\ memory' = stored
    BY <1>5 DEF SetupBaseline
  <2>2. Waiting = {}
    BY <1>1, <1>2, NotTelling
  <2>3. (Knows' <=> Knows) /\ Awaited(i)' = Awaited(i)
    BY <1>1, <2>1 DEF Knows, Awaited, Persists, Unset
  <2>4. BaselineInv(i)'
    BY <1>1, <2>1 DEF BaselineInv, Persists, Unset
  <2>5. QED
    BY <1>1, <1>3, <1>4, <2>1, <2>2, <2>3, <2>4 DEF ItemInv
<1>6. CASE SetupDevices \/ \E listens \in BOOLEAN : SetupAnew(listens)
  <2>1. ~Persists(sensor)
    BY <1>6 DEF SetupDevices, SetupAnew, Persists, Devices, Anew, MemoryFirst, StoreFirst
  <2>2. told' = memory'
    BY <1>6 DEF SetupDevices, SetupAnew
  <2>3. Awaited(i)' = memory'[i]
    BY <1>1, <2>1 DEF Awaited, Persists
  <2>4. Says(told', queue', i, Awaited(i)')
    BY <1>1, <2>2, <2>3, SaysEmpty
  <2>5. Awaits(told', queue', Waiting', i, Awaited(i)')
    BY <1>3, <2>4, AwaitsNone, NoItems
  <2>6. BaselineInv(i)'
    BY <1>1, <2>1 DEF BaselineInv, Persists
  <2>7. QED
    BY <1>3, <1>4, <2>5, <2>6 DEF ItemInv
<1>7. QED
  BY <1>5, <1>6

\* The events of a comparison of the snapshot with what was told.
LEMMA SnapEvents ==
  ASSUME SensorType, NEW S \in SUBSET Items, NEW i \in Items, NEW t, NEW q, NEW u \in Values,
         Says(t, q, i, u), i \in S => u # snap[i], i \notin S => u = snap[i]
  PROVE  Awaits(t, q, {Event(j, snap[j]) : j \in S}, i, snap[i])
<1> DEFINE P == {Event(j, snap[j]) : j \in S}
<1>1. \A j \in S : snap[j] \in Values
  BY DEF SensorType
<1>2. \A e \in P : \E j \in S : e = Event(j, snap[j]) /\ e.item = j /\ e.value = snap[j]
  BY <1>1, EventFields
<1>3. CASE i \in S
  <2>1. Event(i, snap[i]) \in P /\ Event(i, snap[i]).item = i
    BY <1>1, <1>3, EventFields
  <2>2. i \in ItemsOf(P)
    BY <2>1 DEF ItemsOf
  <2>3. \A e \in P : e.item = i => e.value = snap[i]
    BY <1>2
  <2>4. QED
    BY <1>3, <2>2, <2>3, AwaitsNew
<1>4. CASE i \notin S
  <2>1. i \notin ItemsOf(P)
    BY <1>2, <1>4 DEF ItemsOf
  <2>2. QED
    BY <1>4, <2>1, AwaitsNone
<1>5. QED
  BY <1>3, <1>4

LEMMA CompareFirstStep ==
  ASSUME PlaceInv, NEW i \in Items, ItemInv(i), CompareFirst
  PROVE  ItemInv(i)'
<1>1. /\ Persists(sensor) /\ pc = "compare" /\ pc' = "store" /\ ~saved /\ queue = << >>
      /\ UNCHANGED <<sensor, queue, saved, stored, snap, listener>> /\ events = {} /\ first'
      /\ sensor \in TellsFirst => told = Nothing
      /\ sensor # "process"
  BY DEF CompareFirst, Collecting, PlaceInv, StepInv, FirstInv, Unset
<1>2. Telling = {} /\ listener.pc = "off"
  BY <1>1, OnlyProcessTells DEF PlaceInv
<1>3. Waiting' = events' /\ i \notin ItemsOf(Telling')
  BY <1>1, <1>2, NoItems DEF Waiting, Telling
<1>4. SensorType /\ snap[i] \in Values
  BY DEF PlaceInv, SensorType
<1>5. Awaits(told', queue', Waiting', i, snap[i])
  <2>1. CASE sensor \in TellsFirst
    <3>1. events' = {Event(j, snap[j]) : j \in {k \in Items : snap[k] # None}} /\ told' = told
      BY <2>1 DEF CompareFirst
    <3>2. told[i] = None /\ None \in Values
      BY <1>1, <2>1, NothingTyped DEF Values
    <3>3. Says(told', queue', i, None)
      BY <1>1, <3>1, <3>2, SaysEmpty
    <3>4. Awaits(told', queue', events', i, snap[i])
      BY <1>4, <3>1, <3>2, <3>3, SnapEvents
    <3>5. QED
      BY <1>3, <3>4
  <2>2. CASE sensor \notin TellsFirst
    <3>1. told' = snap /\ events' = {}
      BY <1>1, <2>2 DEF CompareFirst
    <3>2. Says(told', queue', i, snap[i])
      BY <1>1, <3>1, SaysEmpty
    <3>3. QED
      BY <1>3, <3>1, <3>2, NoItems, AwaitsNone
  <2>3. QED
    BY <2>1, <2>2
<1>6. Awaited(i)' = snap[i]
  BY <1>1 DEF Awaited, Persists
<1>7. BaselineInv(i)'
  BY <1>1 DEF BaselineInv
<1>8. News(told', queue', i)
  BY <1>1, SaysEmpty
<1>9. QED
  BY <1>3, <1>5, <1>6, <1>7, <1>8 DEF ItemInv

LEMMA CompareStep ==
  ASSUME PlaceInv, NEW i \in Items, ItemInv(i), Compare
  PROVE  ItemInv(i)'
<1>1. /\ Persists(sensor) /\ pc = "compare" /\ saved /\ events = {}
      /\ UNCHANGED <<sensor, queue, saved, stored, snap, listener, told>>
      /\ sensor # "process" /\ ~first'
      /\ events' = {Event(j, snap[j]) : j \in Changed \ Silent}
      /\ pc' = IF Changed # {} THEN "store" ELSE IF sensor = "kernel" THEN "more" ELSE "emit"
      /\ memory' = IF sensor \in MemoryFirst THEN snap ELSE memory
  BY DEF Compare, Collecting, history, PlaceInv, StepInv, FirstInv, SensorType, Unset
<1>2. Telling = {} /\ Waiting = {} /\ listener.pc = "off"
  BY <1>1, OnlyProcessTells DEF PlaceInv
<1>3. Waiting' = events' /\ i \notin ItemsOf(Telling')
  BY <1>1, <1>2, NoItems DEF Waiting, Telling
<1>4. SensorType /\ stored[i] \in Values /\ Changed \subseteq Items /\ (i \in Changed <=> snap[i] # memory[i])
  BY DEF PlaceInv, SensorType, Changed
<1>5. memory[i] = stored[i] /\ Says(told, queue, i, stored[i]) /\ News(told, queue, i)
  <2>1. Knows /\ Awaited(i) = stored[i]
    BY <1>1 DEF Knows, Awaited
  <2>2. Awaits(told, queue, Waiting, i, stored[i])
    BY <2>1 DEF ItemInv
  <2>3. Says(told, queue, i, stored[i])
    BY <1>2, <2>2, NoItems, AwaitsNone
  <2>4. QED
    BY <1>1, <2>3 DEF ItemInv, BaselineInv, Unset
<1>6. (i \in Silent' <=> i \in Silent) /\ (i \in Silent => i \in Changed)
  BY <1>1, <1>4 DEF Silent, MemoryFirst
<1>7. Awaits(told', queue', Waiting', i, IF i \in Silent THEN stored[i] ELSE snap[i])
  <2>1. CASE i \notin Silent
    <3>1. PICK S \in SUBSET Items : S = Changed \ Silent
      BY <1>4
    <3>2. Awaits(told, queue, events', i, snap[i])
      BY <1>1, <1>4, <1>5, <2>1, <3>1, SnapEvents
    <3>3. QED
      BY <1>1, <1>3, <2>1, <3>2
  <2>2. CASE i \in Silent
    <3>1. \A j \in Changed : Event(j, snap[j]).item = j
      BY <1>4, EventFields DEF SensorType
    <3>2. i \notin ItemsOf(events')
      BY <1>1, <2>2, <3>1 DEF ItemsOf
    <3>3. QED
      BY <1>1, <1>3, <1>5, <2>2, <3>2, AwaitsNone
  <2>3. QED
    BY <2>1, <2>2
<1>8. Awaited(i)' = IF i \in Silent THEN stored[i] ELSE snap[i]
  BY <1>1, <1>4, <1>5, <1>6 DEF Awaited, Persists
<1>9. BaselineInv(i)'
  BY <1>1, <1>4, <1>5 DEF BaselineInv, Persists
<1>10. QED
  BY <1>1, <1>3, <1>5, <1>7, <1>8, <1>9 DEF ItemInv

LEMMA CompareAgainStep ==
  ASSUME PlaceInv, NEW i \in Items, ItemInv(i), CompareAgain
  PROVE  ItemInv(i)'
<1>1. /\ ~Persists(sensor) /\ pc = "compare" /\ events = {} /\ pc' \notin Unset
      /\ UNCHANGED <<sensor, queue, snap, listener, told>>
      /\ sensor # "process"
      /\ events' = {Event(j, snap[j]) : j \in Changed}
      /\ memory' = snap
  BY DEF CompareAgain, Collecting, history, PlaceInv, StepInv, Unset
<1>2. Telling = {} /\ Waiting = {} /\ listener.pc = "off"
  BY <1>1, OnlyProcessTells DEF PlaceInv
<1>3. Waiting' = events' /\ i \notin ItemsOf(Telling')
  BY <1>1, <1>2, NoItems DEF Waiting, Telling
<1>4. SensorType /\ memory[i] \in Values /\ Changed \subseteq Items /\ (i \in Changed <=> snap[i] # memory[i])
  BY DEF PlaceInv, SensorType, Changed
<1>5. Says(told, queue, i, memory[i]) /\ News(told, queue, i)
  <2>1. Knows /\ Awaited(i) = memory[i]
    BY <1>1 DEF Knows, Awaited, Unset
  <2>2. Awaits(told, queue, Waiting, i, memory[i])
    BY <2>1 DEF ItemInv
  <2>3. QED
    BY <1>2, <2>2, NoItems, AwaitsNone DEF ItemInv
<1>6. Awaits(told', queue', Waiting', i, snap[i])
  <2>1. Awaits(told, queue, events', i, snap[i])
    BY <1>1, <1>4, <1>5, SnapEvents
  <2>2. QED
    BY <1>1, <1>3, <2>1
<1>7. Awaited(i)' = snap[i]
  BY <1>1 DEF Awaited, Persists
<1>8. BaselineInv(i)'
  BY <1>1 DEF BaselineInv, Persists
<1>9. QED
  BY <1>1, <1>3, <1>5, <1>6, <1>7, <1>8 DEF ItemInv

LEMMA StoreStep ==
  ASSUME PlaceInv, NEW i \in Items \ lost', ItemInv(i), Store
  PROVE  ItemInv(i)'
<1>1. /\ Persists(sensor) /\ pc = "store" /\ pc' \in {"more", "emit"} /\ saved'
      /\ UNCHANGED <<sensor, queue, snap, listener, told, events>>
      /\ sensor # "process" /\ (first <=> ~saved)
      /\ stored' = [j \in Items |-> IF first \/ j \in ItemsOf(events) \cup Silent THEN snap[j]
                                    ELSE stored[j]]
      /\ memory' = snap /\ (first \/ i \notin Silent)
  BY DEF Store, Collecting, history, PlaceInv, StepInv, FirstInv, Persists, MemoryFirst, StoreFirst,
     Unset
<1>2. Telling = {} /\ Waiting = events /\ listener.pc = "off"
  BY <1>1, OnlyProcessTells DEF PlaceInv
<1>3. Waiting' = Waiting /\ i \notin ItemsOf(Telling')
  BY <1>1, <1>2, NoItems DEF Waiting, Telling
<1>4. Awaits(told, queue, Waiting, i, snap[i]) /\ News(told, queue, i)
  <2>1. Knows /\ Awaited(i) = snap[i]
    BY <1>1 DEF Knows, Awaited
  <2>2. QED
    BY <2>1 DEF ItemInv
<1>5. stored'[i] = snap[i]
  <2>1. CASE first \/ i \in ItemsOf(events)
    BY <1>1, <2>1
  <2>2. CASE ~first /\ i \notin ItemsOf(events)
    <3>1. Says(told, queue, i, stored[i])
      BY <1>1, <2>2 DEF ItemInv, BaselineInv
    <3>2. Says(told, queue, i, snap[i])
      BY <1>2, <1>4, <2>2, AwaitsNone
    <3>3. queue \in Seq(EventType)
      BY DEF PlaceInv, SensorType
    <3>4. QED
      BY <1>1, <2>2, <3>1, <3>2, <3>3, SaysOne
  <2>3. QED
    BY <2>1, <2>2
<1>6. Awaited(i)' = snap[i]
  BY <1>1, <1>5 DEF Awaited, Persists
<1>7. BaselineInv(i)'
  BY <1>1, <1>5 DEF BaselineInv, Persists
<1>8. QED
  BY <1>1, <1>3, <1>4, <1>6, <1>7 DEF ItemInv

LEMMA FailSteps ==
  ASSUME PlaceInv, NEW i \in Items \ lost', ItemInv(i), StoreFails \/ MoreFails
  PROVE  ItemInv(i)'
<1>1. /\ pc' = "rest" /\ events' = {} /\ sensor # "process"
      /\ UNCHANGED <<sensor, queue, snap, listener, told, stored, saved, memory>>
  BY DEF StoreFails, MoreFails, Raises, Collecting, known, PlaceInv, StepInv, Persists,
     MemoryFirst, StoreFirst
<1>2. Telling = {} /\ Waiting = events /\ listener.pc = "off"
  BY <1>1, OnlyProcessTells DEF PlaceInv
<1>3. Waiting' = {} /\ i \notin ItemsOf(Telling') /\ i \notin ItemsOf(Waiting')
  BY <1>1, <1>2, NoItems DEF Waiting, Telling
<1>4. News(told', queue', i)
  BY <1>1 DEF ItemInv
<1>5. CASE StoreFails
  <2>1. /\ Persists(sensor) /\ pc = "store" /\ (first <=> ~saved)
        /\ sensor \in MemoryFirst /\ ~first => i \notin ItemsOf(events)
    BY <1>5 DEF StoreFails, Raises, PlaceInv, StepInv, FirstInv, Unset
  <2>2. CASE ~saved
    <3>1. ~Knows' /\ BaselineInv(i)'
      BY <1>1, <2>1, <2>2 DEF Knows, BaselineInv, Persists
    <3>2. QED
      BY <1>3, <1>4, <3>1 DEF ItemInv
  <2>3. CASE saved
    <3>1. Says(told, queue, i, stored[i])
          /\ memory[i] = IF sensor \in MemoryFirst THEN snap[i] ELSE stored[i]
      BY <2>1, <2>3 DEF ItemInv, BaselineInv, Unset
    <3>2. memory[i] = stored[i]
      <4>1. CASE sensor \in MemoryFirst
        <5>1. i \notin ItemsOf(Waiting)
          BY <1>2, <2>1, <2>3, <4>1
        <5>2. Knows /\ Awaited(i) = snap[i]
          BY <2>1, <4>1 DEF Knows, Awaited, Silent, MemoryFirst, Unset
        <5>3. Says(told, queue, i, snap[i])
          BY <5>1, <5>2, AwaitsNone DEF ItemInv
        <5>4. queue \in Seq(EventType)
          BY DEF PlaceInv, SensorType
        <5>5. QED
          BY <3>1, <4>1, <5>3, <5>4, SaysOne
      <4>2. QED
        BY <3>1, <4>1
    <3>3. Awaits(told', queue', Waiting', i, stored[i])
      BY <1>1, <1>3, <3>1, AwaitsNone
    <3>4. Awaited(i)' = stored[i] /\ BaselineInv(i)'
      BY <1>1, <2>1, <3>2 DEF Awaited, BaselineInv, Persists, Unset
    <3>5. QED
      BY <1>3, <1>4, <3>3, <3>4 DEF ItemInv
  <2>4. QED
    BY <2>2, <2>3
<1>6. CASE MoreFails
  <2>1. pc = "more" /\ i \notin ItemsOf(Waiting)
    BY <1>2, <1>6 DEF MoreFails, Raises
  <2>2. Knows
    BY <2>1 DEF Knows, PlaceInv, FirstInv, Unset
  <2>3. Says(told, queue, i, Awaited(i))
    BY <2>1, <2>2, AwaitsNone DEF ItemInv
  <2>4. Awaited(i)' = Awaited(i) /\ BaselineInv(i)'
    BY <1>1, <2>1 DEF Awaited, BaselineInv, ItemInv, Persists, Unset
  <2>5. Awaits(told', queue', Waiting', i, Awaited(i)')
    BY <1>1, <1>3, <2>3, <2>4, AwaitsNone
  <2>6. QED
    BY <1>3, <1>4, <2>4, <2>5 DEF ItemInv
<1>7. QED
  BY <1>5, <1>6

LEMMA AddStep ==
  ASSUME PlaceInv, NEW i \in Items, ItemInv(i), Add
  PROVE  ItemInv(i)'
<1>1. /\ sensor = "process" /\ pc = "add" /\ pc' = "each" /\ item \in Items
      /\ UNCHANGED <<sensor, queue, snap, listener, told, stored, saved, first>>
      /\ snap[item] \in Contents
      /\ \A e \in events : e.value # None
  BY DEF Add, Collecting, history, PlaceInv, StepInv, SensorType, Values
<1>2. ~Persists(sensor) /\ Knows /\ Awaited(i) = memory[i]
  BY <1>1 DEF Persists, MemoryFirst, StoreFirst, Knows, Awaited, Unset
<1>3. Telling' = Telling
  BY <1>1 DEF Telling
<1>4. CASE ~(memory[item] = None /\ i = item)
  <2>1. CASE memory[item] = None
    <3>1. /\ events' = events \cup {Event(item, snap[item])} /\ memory'[i] = memory[i]
          /\ Event(item, snap[item]).item = item /\ item # i
      BY <1>1, <1>4, <2>1, EventFields DEF Add, PlaceInv, SensorType, Values
    <3>2. {e \in Waiting : e.item = i} = {e \in Waiting' : e.item = i}
      BY <1>3, <3>1 DEF Waiting
    <3>3. Awaits(told, queue, Waiting', i, memory[i])
      BY <1>2, <3>2, AwaitsSame DEF ItemInv
    <3>4. i \in ItemsOf(events') => i \in ItemsOf(events)
      BY <3>1 DEF ItemsOf
    <3>5. Awaited(i)' = memory[i] /\ BaselineInv(i)'
      BY <1>1, <1>2, <3>1 DEF Awaited, BaselineInv, Persists
    <3>6. QED
      BY <1>1, <1>3, <3>3, <3>4, <3>5 DEF ItemInv
  <2>2. CASE memory[item] # None
    BY <1>1, <1>3, <2>2, Unmoved DEF Add, Unset
  <2>3. QED
    BY <2>1, <2>2
<1>5. CASE memory[item] = None /\ i = item
  <2>1. /\ events' = events \cup {Event(i, snap[i])} /\ memory'[i] = snap[i]
        /\ Event(i, snap[i]).item = i /\ Event(i, snap[i]).value = snap[i]
    BY <1>1, <1>5, EventFields DEF Add, PlaceInv, SensorType, Values
  <2>2. None \in Values /\ snap[i] # None
    BY <1>1, <1>5 DEF Values, Contents, None
  <2>3. Awaits(told, queue, Waiting, i, None)
    BY <1>2, <1>5 DEF ItemInv
  <2>4. \A e \in Waiting : e.value # None
    <3>1. \A e \in Telling : e.value # None
      BY EventFields DEF Telling, PlaceInv, SensorType, Values, Contents, None
    <3>2. QED
      BY <1>1, <3>1 DEF Waiting
  <2>5. i \notin ItemsOf(Waiting)
    <3>1. SUFFICES ASSUME i \in ItemsOf(Waiting) PROVE FALSE
      OBVIOUS
    <3>2. PICK e \in Waiting : e.item = i
      BY <3>1 DEF ItemsOf
    <3>3. e.value = None
      BY <2>3, <3>1, <3>2 DEF Awaits
    <3>4. QED
      BY <2>4, <3>3
  <2>6. Says(told, queue, i, None)
    BY <2>3, <2>5, AwaitsNone
  <2>7. i \in ItemsOf(Waiting') /\ \A e \in Waiting' : e.item = i => e.value = snap[i]
    BY <1>3, <2>1, <2>5 DEF Waiting, ItemsOf
  <2>8. Awaits(told', queue', Waiting', i, snap[i])
    BY <1>1, <2>2, <2>6, <2>7, AwaitsNew
  <2>9. i \notin ItemsOf(Telling')
    BY <1>3, <2>5 DEF Waiting, ItemsOf
  <2>10. Awaited(i)' = snap[i] /\ BaselineInv(i)'
    BY <1>1, <1>2, <2>1 DEF Awaited, BaselineInv, Persists
  <2>11. QED
    BY <1>1, <2>8, <2>9, <2>10 DEF ItemInv
<1>6. QED
  BY <1>4, <1>5

LEMMA RemoveStep ==
  ASSUME PlaceInv, NEW i \in Items \ (lost' \cup overtaken'), ItemInv(i), Forget
  PROVE  ItemInv(i)'
<1> DEFINE gone == {j \in Items : memory[j] # None /\ snap[j] = None}
<1>1. /\ sensor = "process" /\ pc = "each" /\ pc' = "emit"
      /\ UNCHANGED <<sensor, queue, snap, listener, told, stored, saved>>
      /\ \A e \in events : snap[e.item] # None
      /\ memory' = [j \in Items |-> IF j \in gone THEN None ELSE memory[j]]
      /\ events' = IF first THEN events ELSE events \cup {Event(j, None) : j \in gone}
      /\ lost' = IF first THEN lost \cup gone ELSE lost
      /\ overtaken' = IF listener.pc = "tell" THEN overtaken \cup (gone \cap {listener.item})
                                              ELSE overtaken
  BY DEF Forget, Collecting, history, PlaceInv, StepInv
<1>2. ~Persists(sensor) /\ Knows /\ Awaited(i) = memory[i] /\ None \in Values /\ SensorType
  BY <1>1 DEF Persists, MemoryFirst, StoreFirst, Knows, Awaited, Values, PlaceInv, Unset
<1>3. Telling' = Telling
  BY <1>1 DEF Telling
<1>4. Awaited(i)' = memory'[i] /\ BaselineInv(i)'
  BY <1>1, <1>2 DEF Awaited, BaselineInv, Persists
<1>5. \A e \in {Event(j, None) : j \in gone} : e.item \in gone /\ e.value = None
  BY <1>2, EventFields
<1>6. CASE i \notin gone
  <2>1. memory'[i] = memory[i]
    BY <1>1, <1>6
  <2>2. {e \in events : e.item = i} = {e \in events' : e.item = i}
    BY <1>1, <1>5, <1>6
  <2>3. {e \in Waiting : e.item = i} = {e \in Waiting' : e.item = i}
    BY <1>3, <2>2 DEF Waiting
  <2>4. Awaits(told, queue, Waiting', i, memory[i])
    BY <1>2, <2>3, AwaitsSame DEF ItemInv
  <2>5. i \in ItemsOf(events') => i \in ItemsOf(events)
    BY <2>2 DEF ItemsOf
  <2>6. QED
    BY <1>1, <1>3, <1>4, <2>1, <2>4, <2>5 DEF ItemInv
<1>7. CASE i \in gone
  <2>1. ~first /\ memory[i] # None /\ memory'[i] = None /\ memory[i] \in Values
    BY <1>1, <1>2, <1>7 DEF SensorType
  <2>2. i \notin ItemsOf(events)
    BY <1>1, <1>7 DEF ItemsOf
  <2>3. i \notin ItemsOf(Telling)
    <3>1. SUFFICES ASSUME i \in ItemsOf(Telling) PROVE FALSE
      OBVIOUS
    <3>2. listener.pc = "tell" /\ Telling = {Event(listener.item, listener.value)}
      BY <3>1, NotTelling
    <3>3. i = listener.item
      BY <3>1, <3>2 DEF ItemsOf, Event
    <3>4. QED
      BY <1>1, <1>7, <3>2, <3>3
  <2>4. i \notin ItemsOf(Waiting)
    BY <2>2, <2>3 DEF Waiting, ItemsOf
  <2>5. Says(told, queue, i, memory[i])
    BY <1>2, <2>4, AwaitsNone DEF ItemInv
  <2>6. Event(i, None) \in events' /\ Event(i, None).item = i
    BY <1>1, <1>2, <1>7, <2>1, EventFields
  <2>7. i \in ItemsOf(Waiting')
    BY <2>6 DEF ItemsOf, Waiting
  <2>8. \A e \in Waiting' : e.item = i => e.value = None
    BY <1>1, <1>3, <1>5, <2>1, <2>4 DEF ItemsOf, Waiting
  <2>9. Awaits(told', queue', Waiting', i, None)
    BY <1>1, <2>1, <2>5, <2>7, <2>8, AwaitsNew
  <2>10. QED
    BY <1>1, <1>3, <1>4, <2>1, <2>3, <2>9 DEF ItemInv
<1>8. QED
  BY <1>6, <1>7

\* An event e of P gets to the queue, or is lost.
LEMMA PutStep ==
  ASSUME PlaceInv, NEW i \in Items \ lost', News(told, queue, i), NEW v,
         NEW P \in SUBSET EventType, NEW e \in P, Awaits(told, queue, P, i, v), Put(e)
  PROVE  News(told, queue', i) /\ Awaits(told, queue', P \ {e}, i, v)
<1>1. queue \in Seq(EventType)
  BY DEF PlaceInv, SensorType
<1>2. CASE queue' = Append(queue, e)
  BY <1>1, <1>2, AwaitsPut
<1>3. CASE queue' = queue /\ lost' = lost \cup {e.item}
  <2>1. e.item # i
    BY <1>3
  <2>2. {d \in P : d.item = i} = {d \in P \ {e} : d.item = i}
    BY <2>1
  <2>3. QED
    BY <1>3, <2>2, AwaitsSame
<1>4. QED
  BY <1>2, <1>3 DEF Put

LEMMA WaitingTyped == SensorType => Waiting \in SUBSET EventType
<1>1. SensorType => Telling \subseteq EventType
  BY EventFields DEF SensorType, Telling, Values
<1>2. QED
  BY <1>1 DEF Waiting, SensorType

LEMMA EmitStep ==
  ASSUME PlaceInv, NEW i \in Items \ lost', ItemInv(i), NEW e \in events, Emit(e)
  PROVE  ItemInv(i)'
<1>1. /\ pc = "emit" /\ events' = events \ {e} /\ Put(e)
      /\ UNCHANGED <<sensor, pc, snap, listener, told, stored, saved, memory>>
  BY DEF Emit, known, collector
<1>2. Knows
  BY <1>1 DEF Knows, PlaceInv, FirstInv, Unset
<1>3. e \in Waiting /\ Waiting \in SUBSET EventType
  BY WaitingTyped DEF Waiting, PlaceInv
<1>4. News(told, queue', i) /\ Awaits(told, queue', Waiting \ {e}, i, Awaited(i))
  BY <1>1, <1>2, <1>3, PutStep DEF ItemInv
<1>5. Telling' = Telling
  BY <1>1 DEF Telling
<1>6. {d \in Waiting \ {e} : d.item = i} = {d \in Waiting' : d.item = i}
  <2>1. e.item = i => e \notin Telling
    BY DEF ItemInv, ItemsOf
  <2>2. QED
    BY <1>1, <1>5, <2>1 DEF Waiting
<1>7. Awaits(told, queue', Waiting', i, Awaited(i))
  BY <1>4, <1>6, AwaitsSame
<1>8. Awaited(i)' = Awaited(i)
  BY <1>1 DEF Awaited, Persists
<1>9. BaselineInv(i)'
  BY <1>1 DEF ItemInv, BaselineInv, Persists
<1>10. i \in ItemsOf(Telling') => i \notin ItemsOf(events')
  BY <1>1, <1>5 DEF ItemInv, ItemsOf
<1>11. QED
  BY <1>1, <1>4, <1>7, <1>8, <1>9, <1>10 DEF ItemInv

LEMMA TellStep ==
  ASSUME PlaceInv, NEW i \in Items \ lost', ItemInv(i), Tell
  PROVE  ItemInv(i)'
<1> DEFINE e == Event(listener.item, listener.value)
<1>1. /\ Put(e) /\ listener.pc = "tell" /\ listener'.pc = "wait" /\ Telling = {e}
      /\ UNCHANGED <<sensor, pc, snap, events, told, stored, saved, memory>>
  BY NotTelling DEF Tell, Listener, collector, Listening, NotListening
<1>2. Telling' = {} /\ Waiting' = events /\ i \notin ItemsOf(Telling')
  BY <1>1, NoItems DEF Telling, Waiting
<1>3. e \in Waiting /\ Waiting \in SUBSET EventType
  BY <1>1, WaitingTyped DEF Waiting, PlaceInv
<1> HIDE DEF e
<1>4. Knows
  <2>1. sensor = "process" /\ pc \notin Unset
    BY <1>1 DEF PlaceInv, StepInv, NotListening
  <2>2. QED
    BY <2>1 DEF Knows, Persists, MemoryFirst, StoreFirst
<1>5. News(told, queue', i) /\ Awaits(told, queue', Waiting \ {e}, i, Awaited(i))
  BY <1>1, <1>3, <1>4, PutStep DEF ItemInv
<1>6. {d \in Waiting \ {e} : d.item = i} = {d \in Waiting' : d.item = i}
  <2>1. e.item = i => e \notin events
    BY <1>1 DEF ItemInv, ItemsOf
  <2>2. QED
    BY <1>1, <1>2, <2>1 DEF Waiting
<1>7. Awaits(told, queue', Waiting', i, Awaited(i))
  BY <1>5, <1>6, AwaitsSame
<1>8. Awaited(i)' = Awaited(i)
  <2>1. ~Persists(sensor)
    BY <1>1 DEF PlaceInv, StepInv, NotListening, Persists, MemoryFirst, StoreFirst
  <2>2. QED
    BY <1>1, <2>1 DEF Awaited, Persists
<1>9. BaselineInv(i)'
  <2>1. ~Persists(sensor)
    BY <1>1 DEF PlaceInv, StepInv, NotListening, Persists, MemoryFirst, StoreFirst
  <2>2. QED
    BY <1>1, <2>1 DEF BaselineInv, Persists
<1>10. QED
  BY <1>1, <1>2, <1>5, <1>7, <1>8, <1>9 DEF ItemInv

LEMMA NoteStep ==
  ASSUME PlaceInv, NEW i \in Items \ overtaken', ItemInv(i), Note
  PROVE  ItemInv(i)'
<1>1. /\ listener.pc = "note" /\ Telling = {} /\ Waiting = events
      /\ sensor = "process" /\ pc \notin Unset /\ SensorType
      /\ UNCHANGED <<sensor, pc, snap, events, told, stored, saved, first, queue>>
      /\ listener.item \in Items /\ listener.value \in Values
  BY NotTelling DEF Note, Listener, collector, PlaceInv, StepInv, NotListening, SensorType, Values
<1>2. ~Persists(sensor) /\ Knows /\ Awaited(i) = memory[i] /\ Awaited(i)' = memory'[i]
      /\ BaselineInv(i)'
  BY <1>1 DEF Persists, MemoryFirst, StoreFirst, Knows, Awaited, BaselineInv
<1>3. CASE memory[listener.item] = listener.value
  <2>1. memory' = memory /\ listener'.pc = "wait"
    BY <1>3 DEF Note, Listening, NotListening
  <2>2. Telling' = {}
    BY <2>1 DEF Telling
  <2>3. QED
    BY <1>1, <2>1, <2>2, Unmoved
<1>4. CASE memory[listener.item] # listener.value
  <2>1. /\ memory' = [memory EXCEPT ![listener.item] = listener.value]
        /\ listener' = [listener EXCEPT !.pc = "tell"]
        /\ pc # "rest" => listener.item # i
    BY <1>4 DEF Note
  <2>2. /\ Telling' = {Event(listener.item, listener.value)}
        /\ Waiting' = events \cup {Event(listener.item, listener.value)}
    <3>1. listener \in ListenerType
      BY <1>1 DEF SensorType
    <3>2. listener'.pc = "tell" /\ listener'.item = listener.item /\ listener'.value = listener.value
      BY <2>1, <3>1 DEF ListenerType
    <3>3. QED
      BY <1>1, <3>2 DEF Telling, Waiting, Event
  <2>3. /\ Event(listener.item, listener.value).item = listener.item
        /\ Event(listener.item, listener.value).value = listener.value
    BY <1>1, EventFields
  <2>4. CASE i # listener.item
    <3>1. memory'[i] = memory[i] /\ i \notin ItemsOf(Telling')
      BY <2>1, <2>2, <2>3, <2>4, <1>1 DEF ItemsOf, SensorType
    <3>2. {d \in Waiting : d.item = i} = {d \in Waiting' : d.item = i}
      BY <1>1, <2>2, <2>3, <2>4
    <3>3. Awaits(told, queue, Waiting', i, memory[i])
      BY <1>2, <3>2, AwaitsSame DEF ItemInv
    <3>4. QED
      BY <1>1, <1>2, <3>1, <3>3 DEF ItemInv
  <2>5. CASE i = listener.item
    <3>1. events = {} /\ i \notin ItemsOf(events) /\ i \notin ItemsOf(Waiting)
      BY <1>1, <2>1, <2>5, NoItems DEF PlaceInv, StepInv
    <3>2. Says(told, queue, i, memory[i]) /\ memory[i] \in Values
      BY <1>1, <1>2, <3>1, AwaitsNone DEF ItemInv, SensorType
    <3>3. memory'[i] = listener.value
      BY <1>1, <2>1, <2>5 DEF SensorType
    <3>4. i \in ItemsOf(Waiting') /\ \A e \in Waiting' : e.item = i => e.value = listener.value
      BY <2>2, <2>3, <2>5, <3>1 DEF ItemsOf
    <3>5. Awaits(told', queue', Waiting', i, memory'[i])
      BY <1>1, <1>4, <2>5, <3>2, <3>3, <3>4, AwaitsNew
    <3>6. QED
      BY <1>1, <1>2, <3>1, <3>5 DEF ItemInv
  <2>6. QED
    BY <2>4, <2>5
<1>5. QED
  BY <1>3, <1>4

LEMMA DeliverStep ==
  ASSUME PlaceInv, NEW i \in Items \ lost', ItemInv(i), Deliver \/ DeliverFails
  PROVE  ItemInv(i)'
<1>1. /\ queue # << >> /\ queue \in Seq(EventType) /\ queue' = Tail(queue)
      /\ UNCHANGED <<sensor, pc, snap, events, listener, stored, saved, memory, first>>
      /\ told \in [Items -> Values] /\ Head(queue).item \in Items
  <2>1. queue # << >> /\ queue \in Seq(EventType) /\ told \in [Items -> Values]
    BY DEF Deliver, DeliverFails, PlaceInv, SensorType
  <2>2. Head(queue) \in EventType
    BY <2>1, TailOne
  <2>3. QED
    BY <2>1, <2>2 DEF Deliver, DeliverFails, known, collector, EventType
<1>2. told'[i] = IF Head(queue).item = i THEN Head(queue).value ELSE told[i]
  BY <1>1 DEF Deliver, DeliverFails
<1>3. Telling' = Telling /\ Waiting' = Waiting
  BY <1>1 DEF Telling, Waiting
<1>4. News(told', queue', i)
  BY <1>1, <1>2, SaysTail DEF ItemInv
<1>5. Knows' <=> Knows
  BY <1>1 DEF Knows, Persists
<1>6. Awaited(i)' = Awaited(i)
  BY <1>1 DEF Awaited, Persists, Silent
<1>7. Knows => Awaits(told', queue', Waiting, i, Awaited(i))
  BY <1>1, <1>2, AwaitsTail DEF ItemInv
<1>8. Says(told, queue, i, stored[i]) => Says(told', queue', i, stored[i])
  BY <1>1, <1>2, SaysTail
<1>9. BaselineInv(i)'
  BY <1>1, <1>8 DEF ItemInv, BaselineInv, Persists
<1>10. QED
  BY <1>1, <1>3, <1>4, <1>5, <1>6, <1>7, <1>9 DEF ItemInv

LEMMA RestartStep ==
  ASSUME PlaceInv, ToldInv, Restart, NEW i \in Items \ (lost' \cup overtaken')
  PROVE  ItemInv(i)'
<1>1. /\ pc' = "setup" /\ events' = {} /\ queue' = << >> /\ listener' = NotListening
      /\ UNCHANGED <<sensor, stored, saved, told, overtaken>>
  BY DEF Restart
<1>2. Telling' = {} /\ Waiting' = {} /\ i \notin ItemsOf(Telling') /\ i \notin ItemsOf(Waiting')
  BY <1>1, NoItems DEF Telling, Waiting, NotListening
<1>3. News(told', queue', i)
  BY <1>1, SaysEmpty
<1>4. BaselineInv(i)'
  BY <1>1 DEF BaselineInv, Unset
<1>5. CASE ~(Persists(sensor) /\ saved)
  <2>1. ~Knows'
    BY <1>1, <1>5 DEF Knows, Persists, Unset
  <2>2. QED
    BY <1>2, <1>3, <1>4, <2>1 DEF ItemInv
<1>6. CASE Persists(sensor) /\ saved
  <2>1. /\ i \notin lost \cup overtaken /\ i \notin ItemsOf(Queued)
        /\ pc \in {"more", "emit"} => i \notin ItemsOf(events)
    BY <1>1, <1>6 DEF Restart
  <2>2. ItemInv(i)
    BY <2>1 DEF ToldInv
  <2>3. sensor # "process"
    BY <1>6 DEF Persists, MemoryFirst, StoreFirst
  <2>4. Waiting = events
    BY <2>3, OnlyProcessTells DEF PlaceInv
  <2>5. Says(told, queue, i, stored[i])
    <3>1. CASE pc = "store"
      BY <1>6, <2>2, <3>1 DEF ItemInv, BaselineInv
    <3>2. CASE pc # "store"
      <4>1. Knows /\ Awaited(i) = stored[i]
        BY <1>6, <3>2 DEF Knows, Awaited
      <4>2. pc \in Unset \cup {"rest", "compare", "more", "emit"}
        BY <2>3, <3>2 DEF Unset, PlaceInv, StepInv, SensorType, Pcs
      <4>3. i \notin ItemsOf(Waiting)
        BY <2>1, <2>4, <4>2, NoItems DEF PlaceInv, StepInv
      <4>4. QED
        BY <2>2, <4>1, <4>3, AwaitsNone DEF ItemInv
    <3>3. QED
      BY <3>1, <3>2
  <2>6. queue \in Seq(EventType)
    BY DEF PlaceInv, SensorType
  <2>7. \A n \in 1..Len(queue) : queue[n].item # i
    <3>1. \A n \in 1..Len(queue) : n \in DOMAIN queue
      BY <2>6
    <3>2. QED
      BY <2>1, <3>1 DEF ItemsOf, Queued
  <2>8. told[i] = stored[i]
    BY <2>5, <2>7 DEF Says
  <2>9. Says(told', queue', i, stored[i])
    BY <1>1, <2>8, SaysEmpty
  <2>10. Awaited(i)' = stored[i]
    BY <1>1, <1>6 DEF Awaited, Persists
  <2>11. Awaits(told', queue', Waiting', i, Awaited(i)')
    BY <1>2, <2>9, <2>10, AwaitsNone
  <2>12. QED
    BY <1>2, <1>3, <1>4, <2>11 DEF ItemInv
<1>7. QED
  BY <1>5, <1>6

-----------------------------------------------------------------------------
LEMMA QuietSteps ==
  ASSUME PlaceInv, NEW i \in Items \ lost', ItemInv(i),
         \/ \E j \in Items, v \in Contents \cup {None, Over} : Change(j, v)
         \/ \E hidden \in SUBSET Items : Snapshot(hidden)
         \/ More \/ Rest \/ ListenerEnds
         \/ \E j \in Items : LookUp(j) \/ Hear(j)
         \/ CollectRaises \/ UNCHANGED sensorVars
  PROVE  ItemInv(i)'
<1>1. UNCHANGED <<told, queue, events, sensor, stored, saved, first>>
  BY DEF CollectRaises, Change, Snapshot, More, Rest, ListenerEnds, LookUp, Hear, Collecting, Listener,
     sensorVars, known, collector, history
<1>2. (pc' = pc /\ snap' = snap) \/ {pc, pc'} \cap (Unset \cup {"store"}) = {}
  BY DEF Unset, CollectRaises, Change, Snapshot, More, Rest, ListenerEnds, LookUp, Hear, Collecting, Listener,
     sensorVars, known, collector
<1>3. memory'[i] = memory[i]
  BY DEF CollectRaises, Change, Snapshot, More, Rest, ListenerEnds, LookUp, Hear, Collecting, Listener,
     sensorVars, known, PlaceInv, SensorType
<1>4. Telling' = Telling
  <2>1. ASSUME NEW j \in Items, NEW v \in Contents \cup {None, Over}, Change(j, v)
        PROVE  Telling' = Telling
    <3>1. listener \in ListenerType
      BY DEF PlaceInv, SensorType
    <3>2. listener'.pc = listener.pc /\ listener'.item = listener.item /\ listener'.value = listener.value
      BY <2>1, <3>1 DEF Change, ListenerType
    <3>3. QED
      BY <3>2 DEF Telling
  <2>2. ASSUME NEW hidden \in SUBSET Items, Snapshot(hidden) PROVE Telling' = Telling
    BY <2>2 DEF Snapshot, Telling
  <2>3. CASE More \/ Rest \/ CollectRaises \/ UNCHANGED sensorVars
    BY <2>3 DEF CollectRaises, More, Rest, sensorVars, Collecting, Telling
  <2>4. CASE ListenerEnds
    BY <2>4 DEF ListenerEnds, NotListening, Telling
  <2>5. ASSUME NEW j \in Items, LookUp(j) PROVE Telling' = Telling
    BY <2>5 DEF LookUp, Collecting, Telling
  <2>6. ASSUME NEW j \in Items, Hear(j) PROVE Telling' = Telling
    <3>1. listener \in ListenerType /\ listener.pc = "wait"
      BY <2>6 DEF PlaceInv, SensorType, Hear
    <3>2. listener'.pc \in {"note", "wait"}
      BY <2>6, <3>1 DEF Hear, ListenerType
    <3>3. QED
      BY <3>1, <3>2 DEF Telling
  <2>7. QED
    BY <2>1, <2>2, <2>3, <2>4, <2>5, <2>6
<1>5. QED
  BY <1>1, <1>2, <1>3, <1>4, Unmoved

LEMMA ToldStep ==
  ASSUME PlaceInv, ToldInv, SensorNext \/ UNCHANGED sensorVars
  PROVE  ToldInv'
<1>1. SUFFICES ASSUME NEW i \in Items \ (lost' \cup overtaken') PROVE ItemInv(i)'
  BY DEF ToldInv
<1>2. CASE Restart
  BY <1>2, RestartStep
<1>3. CASE ~Restart
  <2>1. lost \subseteq lost' /\ overtaken \subseteq overtaken'
    BY <1>3 DEF SensorNext, Change, SetupBaseline, SetupDevices, SetupAnew, Setup, SetupFails, CollectRaises, Snapshot,
       CompareFirst, Compare, CompareAgain, Store, StoreFails, More, MoreFails, Raises, LookUp,
       Add, Forget, Emit, Put, Rest, Deliver, DeliverFails, Hear, Note, Tell, ListenerEnds,
       Listener, Collecting, sensorVars, history
  <2>2. ItemInv(i)
    BY <2>1 DEF ToldInv
  <2>3. ASSUME NEW e \in events, Emit(e) PROVE ItemInv(i)'
    BY <2>2, <2>3, EmitStep
  <2>4. QED
    BY <1>3, <2>2, <2>3, SetupSteps, SetupFailsStep, CompareFirstStep, CompareStep, CompareAgainStep, StoreStep,
       FailSteps, AddStep, RemoveStep, TellStep, NoteStep, DeliverStep, QuietSteps
       DEF SensorNext
<1>4. QED
  BY <1>2, <1>3

LEMMA InvariantTold == SensorSpec => [](PlaceInv /\ ToldInv)
<1>1. SensorInit => PlaceInv /\ ToldInv
  <2>1. SUFFICES ASSUME SensorInit, NEW i \in Items PROVE ItemInv(i)
    BY InitPlace DEF ToldInv
  <2>2. /\ pc = "setup" /\ events = {} /\ queue = << >> /\ ~saved /\ listener.pc = "off"
    BY <2>1 DEF SensorInit, NotListening
  <2>3. ~Knows /\ BaselineInv(i) /\ i \notin ItemsOf(Telling)
    BY <2>2, NoItems DEF Unset, Knows, BaselineInv, Telling
  <2>4. QED
    BY <2>2, <2>3, SaysEmpty DEF ItemInv
<1>2. PlaceInv /\ ToldInv /\ [SensorNext]_sensorVars => (PlaceInv /\ ToldInv)'
  BY PlaceStep, ToldStep
<1>3. QED
  BY <1>1, <1>2, PTL DEF SensorSpec

FaultsInv == faults \in Nat

LEMMA FaultsCounted == SensorSpec => []FaultsInv
<1>1. SensorInit => FaultsInv
  BY DEF SensorInit, FaultsInv
<1>2. FaultsInv /\ [SensorNext]_sensorVars => FaultsInv'
  BY DEF FaultsInv, SensorNext, Change, SetupBaseline, SetupDevices, SetupAnew, Setup, SetupFails, CollectRaises, Snapshot, CompareFirst,
     Compare, CompareAgain, Store, StoreFails, More, MoreFails, Raises, LookUp, Add, Forget, Emit,
     Rest, Deliver, DeliverFails, Hear, Note, Tell, ListenerEnds, Listener, Collecting, Restart,
     Faulty, sensorVars
<1>3. QED
  BY <1>1, <1>2, PTL DEF SensorSpec

(* collect, run_once, emit and _pipeline: what a sensor of any kind knows  *)
(* at rest, the pipeline was told last, however restarts, exceptions, full *)
(* queues and the listener fall between snapshot, memory, table and events. *)
THEOREM SensorsTellWhatTheyKnow == SensorSpec => []TellsWhatItKnows
<1>1. PlaceInv /\ ToldInv => TellsWhatItKnows
  <2>1. SUFFICES ASSUME PlaceInv, ToldInv, pc = "rest", ~first, queue = << >>,
                        listener.pc \in {"off", "wait"}, NEW i \in Items \ (lost \cup overtaken)
                 PROVE  told[i] = memory[i]
    BY DEF TellsWhatItKnows
  <2>2. ItemInv(i) /\ (Persists(sensor) => saved)
    BY <2>1 DEF ToldInv, PlaceInv, FirstInv, Unset
  <2>3. Knows /\ Awaited(i) = memory[i]
    BY <2>1, <2>2 DEF Unset, Knows, Awaited, ItemInv, BaselineInv
  <2>4. Waiting = {}
    BY <2>1, NotTelling DEF PlaceInv, StepInv
  <2>5. Says(told, queue, i, memory[i])
    BY <2>2, <2>3, <2>4, NoItems, AwaitsNone DEF ItemInv
  <2>6. QED
    BY <2>1, <2>5, SaysEmpty
<1>2. QED
  BY <1>1, InvariantTold, PTL

(* _pipeline: whatever is delivered is not what was delivered of that item *)
(* before: no change is reported twice, after a restart either.            *)
THEOREM SensorsTellNews == SensorSpec => ToldOnce
<1> DEFINE Delivers == queue # << >> /\ queue' = Tail(queue) /\ faults' = faults
           Tells == told' # told \/ Head(queue).item \in lost \cup overtaken
<1>1. ASSUME PlaceInv, ToldInv, FaultsInv, SensorNext, Delivers PROVE Tells
  <2>1. /\ queue \in Seq(EventType) /\ queue # << >> /\ queue' = Tail(queue)
        /\ Len(queue) \in Nat \ {0} /\ Len(queue') = Len(queue) - 1
        /\ Head(queue) = queue[1] /\ Head(queue) \in EventType
    BY <1>1, TailOne DEF PlaceInv, SensorType
  <2>2. queue' # queue /\ \A e \in EventType : queue' # Append(queue, e)
    <3>1. Len(queue') # Len(queue) /\ Len(queue') # Len(queue) + 1
      <4>1. \A a \in Nat : \A b : b = a - 1 => b # a /\ b # a + 1
        OBVIOUS
      <4>2. Len(queue) \in Nat /\ Len(queue') = Len(queue) - 1
        BY <2>1
      <4>3. QED
        BY <4>1, <4>2, Zenon
    <3>2. \A e \in EventType : Len(Append(queue, e)) = Len(queue) + 1
      BY <2>1, AppendOne
    <3>3. QED
      BY <3>1, <3>2, Zenon
  <2>4. ~(\E e \in events : Emit(e))
    <3>1. ASSUME NEW e \in events, Emit(e) PROVE FALSE
      <4>1. queue' = queue \/ queue' = Append(queue, e)
        BY <3>1 DEF Emit, Put
      <4>2. e \in EventType
        BY <1>1 DEF PlaceInv, SensorType
      <4>3. QED
        BY <2>2, <4>1, <4>2
    <3>2. QED
      BY <3>1
  <2>5. ~Tell
    <3>1. ASSUME Tell PROVE FALSE
      <4>1. PICK e \in EventType : Put(e)
        BY <1>1, <3>1, EventFields DEF Tell, PlaceInv, SensorType, Values
      <4>2. queue' = queue \/ queue' = Append(queue, e)
        BY <4>1 DEF Put
      <4>3. QED
        BY <2>2, <4>2
    <3>2. QED
      BY <3>1
  <2>6. ~Restart /\ ~DeliverFails
    BY <1>1 DEF Restart, DeliverFails, Faulty, FaultsInv
  <2>7. Deliver
    BY <1>1, <2>2, <2>4, <2>5, <2>6 DEF SensorNext, Change, SetupBaseline, SetupDevices, SetupAnew,
       Setup, SetupFails, CollectRaises, sensorVars, Snapshot, CompareFirst, Compare, CompareAgain, Store, StoreFails, More, MoreFails,
       Raises, LookUp, Add, Forget, Rest, Hear, Note, ListenerEnds, Listener, Collecting
  <2>8. PICK i \in Items : i = Head(queue).item
    BY <2>1 DEF EventType
  <2>9. CASE i \in lost \cup overtaken
    BY <2>8, <2>9
  <2>10. CASE i \notin lost \cup overtaken
    <3>1. News(told, queue, i)
      BY <1>1, <2>10 DEF ToldInv, ItemInv
    <3>2. 1 \in 1..Len(queue) /\ 1..(1 - 1) = {} /\ queue[1].item = i
      BY <2>1, <2>8
    <3>3. told[i] # queue[1].value
      BY <3>1, <3>2 DEF News
    <3>4. told'[i] = Head(queue).value
      BY <1>1, <2>7, <2>8 DEF Deliver, PlaceInv, SensorType
    <3>5. QED
      BY <2>1, <3>3, <3>4
  <2>11. QED
    BY <2>9, <2>10
<1>2. PlaceInv /\ ToldInv /\ FaultsInv /\ [SensorNext]_sensorVars => [Delivers => Tells]_sensorVars
  BY <1>1
<1>3. QED
  BY <1>2, InvariantTold, FaultsCounted, PTL DEF SensorSpec, ToldOnce

-----------------------------------------------------------------------------
(* A process that was there and is gone is over for good.  One that is     *)
(* known and not in the snapshot was gone when it was taken, or the        *)
(* listener has noted it since.                                            *)
Ended(i) == world[i] = Over \/ i \in overtaken

StopInv ==
  sensor = "process" =>
    /\ \A i \in Items : memory[i] # None \/ snap[i] # None => world[i] # None
    /\ listener.pc \in {"note", "tell"} => world[listener.item] # None
    /\ pc \in {"each", "add"} => \A i \in Items : memory[i] # None /\ snap[i] = None => Ended(i)
    /\ \A e \in events \cup Queued : e.value = None => Ended(e.item)

LEMMA QueuedAre ==
  ASSUME NEW q \in Seq(EventType)
  PROVE  /\ \A e \in EventType : {Append(q, e)[n] : n \in DOMAIN Append(q, e)}
                                   = {q[n] : n \in DOMAIN q} \cup {e}
         /\ q # << >> => {Tail(q)[n] : n \in DOMAIN Tail(q)} \subseteq {q[n] : n \in DOMAIN q}
<1>1. ASSUME NEW e \in EventType
      PROVE  {Append(q, e)[n] : n \in DOMAIN Append(q, e)} = {q[n] : n \in DOMAIN q} \cup {e}
  <2>1. PICK r \in Seq(EventType) : r = Append(q, e)
    BY AppendOne
  <2>2. /\ Len(q) \in Nat /\ Len(r) = Len(q) + 1
        /\ \A n \in 1..Len(q) : r[n] = q[n]
        /\ r[Len(q) + 1] = e
    BY <2>1, AppendOne
  <2>3. DOMAIN q = 1..Len(q) /\ DOMAIN r = 1..(Len(q) + 1)
    BY <2>2, LenProperties
  <2>4. {r[n] : n \in DOMAIN r} = {q[n] : n \in DOMAIN q} \cup {e}
    BY <2>2, <2>3
  <2>5. QED
    BY <2>1, <2>4
<1>2. ASSUME q # << >>
      PROVE  {Tail(q)[n] : n \in DOMAIN Tail(q)} \subseteq {q[n] : n \in DOMAIN q}
  <2>1. PICK r \in Seq(EventType) : r = Tail(q)
    BY <1>2, TailOne
  <2>2. /\ Len(q) \in Nat \ {0} /\ Len(r) = Len(q) - 1
        /\ \A n \in 1..(Len(q) - 1) : r[n] = q[n + 1]
    BY <1>2, <2>1, TailOne
  <2>3. DOMAIN q = 1..Len(q) /\ DOMAIN r = 1..(Len(q) - 1)
    BY <2>2, LenProperties
  <2>4. {r[n] : n \in DOMAIN r} \subseteq {q[n] : n \in DOMAIN q}
    <3>1. ASSUME NEW n \in DOMAIN r PROVE r[n] \in {q[m] : m \in DOMAIN q}
      <4>1. n + 1 \in DOMAIN q /\ r[n] = q[n + 1]
        BY <2>2, <2>3
      <4>2. QED
        BY <4>1
    <3>2. QED
      BY <3>1
  <2>5. QED
    BY <2>1, <2>4
<1>3. QED
  BY <1>1, <1>2

LEMMA QueuedStep ==
  ASSUME SensorType
  PROVE  /\ \A e \in EventType : queue' = Append(queue, e) => Queued' = Queued \cup {e}
         /\ queue # << >> /\ queue' = Tail(queue) => Queued' \subseteq Queued
         /\ queue' = queue => Queued' = Queued
         /\ queue' = << >> => Queued' = {}
<1>1. queue \in Seq(EventType)
  BY DEF SensorType
<1>2. ASSUME NEW e \in EventType, queue' = Append(queue, e) PROVE Queued' = Queued \cup {e}
  BY <1>1, <1>2, QueuedAre DEF Queued
<1>3. ASSUME queue # << >>, queue' = Tail(queue) PROVE Queued' \subseteq Queued
  BY <1>1, <1>3, QueuedAre DEF Queued
<1>4. queue' = << >> => Queued' = {}
  BY DEF Queued
<1>5. QED
  BY <1>2, <1>3, <1>4 DEF Queued

LEMMA StopStep ==
  ASSUME PlaceInv, StopInv, SensorNext \/ UNCHANGED sensorVars
  PROVE  StopInv'
<1> SUFFICES ASSUME sensor = "process" PROVE StopInv'
  BY DEF SensorNext, Change, SetupBaseline, SetupDevices, SetupAnew, Setup, SetupFails, CollectRaises, Snapshot,
     CompareFirst, Compare, CompareAgain, Store, StoreFails, More, MoreFails, Raises, LookUp,
     Add, Forget, Emit, Rest, Deliver, DeliverFails, Hear, Note, Tell, ListenerEnds,
     Listener, Collecting, Restart, sensorVars, StopInv
<1>0. SensorType /\ StepInv /\ ~Persists(sensor) /\ sensor \notin Devices
  BY DEF PlaceInv, Persists, MemoryFirst, StoreFirst, Devices
<1>1. /\ \A i \in Items : memory[i] # None \/ snap[i] # None => world[i] # None
      /\ listener.pc \in {"note", "tell"} => world[listener.item] # None
      /\ pc \in {"each", "add"} => \A i \in Items : memory[i] # None /\ snap[i] = None => Ended(i)
      /\ \A e \in events \cup Queued : e.value = None => Ended(e.item)
  BY DEF StopInv
<1>2. \A i \in Items : Nothing[i] = None
  BY NothingTyped
<1>3. ASSUME NEW i \in Items, NEW v \in Contents \cup {None, Over}, Change(i, v) PROVE StopInv'
  <2>1. /\ v # None /\ world[i] # Over /\ world' = [world EXCEPT ![i] = v]
        /\ listener'.pc = listener.pc /\ listener'.item = listener.item
        /\ UNCHANGED <<sensor, memory, snap, pc, events, queue, overtaken>>
    <3>1. v = None => sensor # "process"
      BY <1>3 DEF Change, None, Over
    <3>2. /\ world[i] # Over /\ world' = [world EXCEPT ![i] = v]
          /\ listener' = listener \/ listener' = [listener EXCEPT !.execs = @ \cup {i}]
          /\ UNCHANGED <<sensor, memory, snap, pc, events, queue, overtaken>>
      BY <1>3 DEF Change, known, collector
    <3>3. listener \in ListenerType
      BY <1>0 DEF SensorType
    <3>4. listener'.pc = listener.pc /\ listener'.item = listener.item
      BY <3>2, <3>3 DEF ListenerType
    <3>5. QED
      BY <3>1, <3>2, <3>4
  <2>2. \A j \in Items : world[j] # None => world'[j] # None
    BY <1>0, <2>1 DEF SensorType
  <2>3. \A j \in Items : Ended(j) => Ended(j)'
    BY <1>0, <2>1 DEF SensorType, Ended
  <2>4. Queued' = Queued /\ \A e \in events \cup Queued : e.item \in Items
    <3>1. Queued' = Queued
      BY <2>1 DEF Queued
    <3>2. queue \in Seq(EventType) /\ events \subseteq EventType
      BY <1>0 DEF SensorType
    <3>3. Queued \subseteq EventType
      BY <3>2, LenProperties, ElementOfSeq DEF Queued
    <3>4. QED
      BY <3>1, <3>2, <3>3 DEF EventType
  <2>5. listener.pc \in {"note", "tell"} => listener.item \in Items
    BY <1>0 DEF SensorType
  <2>6. QED
    BY <1>1, <2>1, <2>2, <2>3, <2>4, <2>5 DEF StopInv
<1>4. ASSUME NEW listens \in BOOLEAN, SetupAnew(listens) PROVE StopInv'
  <2>1. /\ listener'.pc \in {"wait", "off"} /\ memory' = Nothing /\ pc' = "rest"
        /\ UNCHANGED <<sensor, world, snap, events, queue, overtaken>>
    BY <1>4 DEF SetupAnew, Setup, Listening, NotListening
  <2>2. QED
    BY <1>1, <1>2, <2>1, QueuedStep, <1>0 DEF StopInv, Ended
<1>5. ASSUME NEW hidden \in SUBSET Items, Snapshot(hidden) PROVE StopInv'
  <2>1. /\ hidden = {} /\ snap' = [i \in Items |-> IF i \in hidden THEN None ELSE Seen[i]]
        /\ UNCHANGED <<sensor, world, memory, listener, events, queue, overtaken>>
    BY <1>0, <1>5 DEF Snapshot, Capped, MemoryFirst, known, history
  <2>2. \A i \in Items : snap'[i] = IF world[i] \in Contents THEN world[i] ELSE None
    BY <1>0, <2>1, SeenTyped
  <2>3. \A i \in Items : snap'[i] = None => world[i] \in {None, Over}
    BY <1>0, <2>2 DEF SensorType, Values, Contents, None
  <2>4. \A i \in Items : snap'[i] # None => world[i] # None
    BY <2>2 DEF Contents, None
  <2>5. QED
    BY <1>0, <1>1, <2>1, <2>3, <2>4, QueuedStep DEF StopInv, Ended
<1>6. ASSUME NEW i \in Items, LookUp(i) PROVE StopInv'
  <2>1. /\ pc = "each" /\ snap[i] # None /\ pc' \in {"each", "add"}
        /\ memory' = memory \/ memory' = [memory EXCEPT ![i] = snap[i]]
        /\ UNCHANGED <<sensor, world, snap, listener, events, queue, overtaken>>
    BY <1>0, <1>6 DEF LookUp, Collecting, StepInv
  <2>2. \A j \in Items : memory'[j] # None => memory[j] # None \/ j = i
    BY <1>0, <2>1 DEF SensorType
  <2>3. QED
    BY <1>0, <1>1, <2>1, <2>2, QueuedStep DEF StopInv, Ended
<1>7. CASE Add
  <2>1. /\ pc = "add" /\ item \in Items /\ snap[item] # None /\ pc' = "each"
        /\ UNCHANGED <<sensor, world, snap, listener, queue, overtaken>>
        /\ \/ UNCHANGED <<memory, events>>
           \/ /\ memory' = [memory EXCEPT ![item] = snap[item]]
              /\ events' = events \cup {Event(item, snap[item])}
    BY <1>0, <1>7 DEF Add, Collecting, StepInv, SensorType, history
  <2>2. \A j \in Items : memory'[j] # None => memory[j] # None \/ j = item
    BY <1>0, <2>1 DEF SensorType
  <2>3. \A e \in events' : e \in events \/ e.value # None
    BY <1>0, <2>1, EventFields DEF SensorType
  <2>4. QED
    BY <1>0, <1>1, <2>1, <2>2, <2>3, QueuedStep DEF StopInv, Ended
<1>8. CASE Forget
  <2>1. /\ pc = "each" /\ pc' = "emit"
        /\ UNCHANGED <<sensor, world, snap, listener, queue>>
        /\ overtaken \subseteq overtaken'
        /\ \A i \in Items : memory'[i] # None => memory[i] # None
        /\ events' \subseteq events \cup
             {Event(i, None) : i \in {j \in Items : memory[j] # None /\ snap[j] = None}}
    BY <1>0, <1>8 DEF Forget, Collecting, SensorType
  <2>2. \A e \in events' : e.value = None => Ended(e.item)
    <3>1. ASSUME NEW i \in Items, memory[i] # None, snap[i] = None
          PROVE  Event(i, None).item = i /\ Ended(i)
      BY <1>1, <2>1, <3>1 DEF Event
    <3>2. ASSUME NEW e \in events', e.value = None PROVE Ended(e.item)
      BY <1>1, <2>1, <3>1, <3>2
    <3>3. QED
      BY <3>2
  <2>3. QED
    BY <1>0, <1>1, <2>1, <2>2, QueuedStep DEF StopInv, Ended
<1>9. ASSUME NEW e \in events, Emit(e) PROVE StopInv'
  <2>1. /\ events' = events \ {e} /\ Put(e) /\ e \in EventType
        /\ UNCHANGED <<sensor, world, snap, listener, overtaken, memory, pc>>
    BY <1>0, <1>9 DEF Emit, known, collector, SensorType
  <2>2. Queued' \subseteq Queued \cup {e}
    BY <1>0, <2>1, QueuedStep DEF Put
  <2>3. QED
    BY <1>1, <2>1, <2>2 DEF StopInv, Ended
<1>10. CASE Tell
  <2>1. /\ listener.pc = "tell" /\ Put(Event(listener.item, listener.value)) /\ listener'.pc = "wait"
        /\ UNCHANGED <<sensor, world, snap, events, overtaken, memory, pc>>
    BY <1>10 DEF Tell, Listener, collector, Listening, NotListening
  <2>2. PICK e \in EventType : e = Event(listener.item, listener.value) /\ e.value # None
    BY <1>0, <2>1, EventFields DEF SensorType, Values, Contents, None
  <2>3. Queued' \subseteq Queued \cup {e}
    BY <1>0, <2>1, <2>2, QueuedStep DEF Put
  <2>4. QED
    BY <1>1, <2>1, <2>2, <2>3 DEF StopInv, Ended
<1>11. CASE Rest
  <2>1. /\ pc' = "rest" /\ snap' = Nothing
        /\ UNCHANGED <<sensor, world, listener, events, queue, overtaken, memory>>
    BY <1>11 DEF Rest, known, history
  <2>2. QED
    BY <1>0, <1>1, <1>2, <2>1, QueuedStep DEF StopInv, Ended
<1>12. CASE Deliver \/ DeliverFails
  <2>1. /\ queue # << >> /\ queue' = Tail(queue)
        /\ UNCHANGED <<sensor, world, snap, listener, events, overtaken, memory, pc>>
    BY <1>12 DEF Deliver, DeliverFails, known, collector
  <2>2. Queued' \subseteq Queued
    BY <1>0, <2>1, QueuedStep
  <2>3. QED
    BY <1>1, <2>1, <2>2 DEF StopInv, Ended
<1>13. ASSUME NEW i \in Items, Hear(i) PROVE StopInv'
  <2>1. /\ listener'.pc \in {"note", "tell"} => world[listener'.item] # None
        /\ UNCHANGED <<sensor, world, snap, events, queue, overtaken, memory, pc>>
    BY <1>0, <1>13 DEF Hear, Listener, collector, SensorType, ListenerType, Contents, None
  <2>2. QED
    BY <1>0, <1>1, <2>1, QueuedStep DEF StopInv, Ended
<1>14. CASE Note
  <2>1. /\ listener.pc = "note" /\ listener.item \in Items
        /\ UNCHANGED <<sensor, world, snap, events, queue, pc>>
        /\ overtaken \subseteq overtaken'
    BY <1>0, <1>14 DEF Note, Listener, collector, SensorType
  <2>2. /\ listener'.pc \in {"note", "tell"} => world[listener'.item] # None
        /\ \A j \in Items : memory'[j] # None => memory[j] # None \/ j = listener.item
        /\ pc # "rest" => \A j \in Items : memory'[j] # None =>
                            memory[j] # None \/ j \in overtaken'
    BY <1>0, <1>1, <1>14, <2>1 DEF Note, SensorType, ListenerType, Listening, NotListening
  <2>3. QED
    BY <1>0, <1>1, <2>1, <2>2, QueuedStep DEF StopInv, Ended
<1>15. CASE ListenerEnds
  <2>1. /\ listener'.pc = "off"
        /\ UNCHANGED <<sensor, world, snap, events, queue, overtaken, memory, pc>>
    BY <1>15 DEF ListenerEnds, Listener, collector, NotListening
  <2>2. QED
    BY <1>0, <1>1, <2>1, QueuedStep DEF StopInv, Ended
<1>16. CASE Restart
  <2>1. /\ listener'.pc = "off" /\ pc' = "setup" /\ snap' = Nothing /\ memory' = Nothing
        /\ events' = {} /\ queue' = << >>
        /\ UNCHANGED <<sensor, world, overtaken>>
    BY <1>16 DEF Restart, NotListening
  <2>2. QED
    BY <1>0, <1>2, <2>1, QueuedStep DEF StopInv, Ended
<1>17. CASE CollectRaises \/ UNCHANGED sensorVars
  BY <1>0, <1>1, <1>17, QueuedStep DEF CollectRaises, sensorVars, known, collector, history, StopInv, Ended
<1>18. ~(\/ SetupBaseline \/ SetupDevices \/ CompareFirst \/ Compare \/ CompareAgain
         \/ Store \/ StoreFails \/ More \/ MoreFails \/ SetupFails)
  BY <1>0 DEF SetupFails, SetupBaseline, SetupDevices, CompareFirst, Compare, CompareAgain, Store,
     StoreFails, More, MoreFails, StepInv
<1>19. QED
  BY <1>3, <1>4, <1>5, <1>6, <1>7, <1>8, <1>9, <1>10, <1>11, <1>12, <1>13, <1>14, <1>15, <1>16,
     <1>17, <1>18 DEF SensorNext

(* The process sensor and its listener: a process of which an event says   *)
(* that it has ended has ended, though the snapshot was taken before the   *)
(* comparison and the event is delivered after it, unless the listener has *)
(* noted the process in between.                                           *)
THEOREM ReportedStopsAreTrue == SensorSpec => []StopsAreTrue
<1>1. SensorInit => StopInv
  <2>1. SUFFICES ASSUME SensorInit PROVE StopInv
    OBVIOUS
  <2>2. Queued = {} /\ events = {} /\ pc = "setup" /\ listener.pc = "off"
        /\ \A i \in Items : memory[i] = None /\ snap[i] = None
    BY <2>1, NothingTyped DEF SensorInit, Queued, NotListening
  <2>3. QED
    BY <2>2 DEF StopInv
<1>2. PlaceInv /\ StopInv /\ [SensorNext]_sensorVars => StopInv'
  BY StopStep
<1>3. StopInv => StopsAreTrue
  BY DEF StopInv, StopsAreTrue, Ended, Over, Contents
<1>4. QED
  BY <1>1, <1>2, <1>3, InvariantTold, PTL DEF SensorSpec

=============================================================================
