----------------------------- MODULE Isolation -----------------------------
(***************************************************************************)
(* Network isolation of an endpoint and blocking of an address             *)
(* (response/actions.py on Linux, IPv4).  Each action is a series of       *)
(* iptables commands; -w makes every one of them atomic, but nothing makes *)
(* the series atomic, and no lock keeps two actions apart: the heartbeat   *)
(* thread runs those ordered in the console, the pipeline thread those of  *)
(* the playbooks.                                                          *)
(*                                                                         *)
(* An operator named X_Y is not used by the specification: it is X with    *)
(* the mistake Y, and shows that a property of X would notice it.          *)
(***************************************************************************)
EXTENDS Integers, FiniteSets, Sequences, SequencesExt

CONSTANTS
  Actors,     \* the threads that run actions
  MaxActions, \* bound: actions run
  MaxFails    \* bound: commands that fail for reasons outside the model

ASSUME IsolationAssumption ==
  IsFiniteSet(Actors) /\ MaxActions \in Nat /\ MaxFails \in Nat

Chains == {"SENTINEL-XDR", "SENTINEL-XDR-ISOLATE"}
Hooks == {"INPUT", "OUTPUT", "FORWARD"}

(* A packet comes from or goes to somebody: the loopback interface, the    *)
(* server, or another address.                                             *)
Dirs == {"from", "to"}
HookOf(dir) == IF dir = "from" THEN "INPUT" ELSE "OUTPUT"

VARIABLES
  serverIsName, \* server_host is a host name, not an IPv4 address; never changes
  rules,        \* the rules of the chains that exist, in order
  jumps,        \* how often each hook jumps to each chain
  run,          \* per actor: the action under way and the commands it has left
  started,      \* actions run so far
  fails,        \* commands that failed for reasons outside the model
  ignored,      \* history: those of them whose failure the action did not notice
  isolation, blocking \* the last results of isolate_host or release_host,
                      \* and of block_ip or unblock_ip

vars == <<serverIsName, rules, jumps, run, started, fails, ignored, isolation, blocking>>

-----------------------------------------------------------------------------
Accept(dir, peer) == [dir |-> dir, peer |-> peer, drop |-> FALSE]
Drop(dir, peer) == [dir |-> dir, peer |-> peer, drop |-> TRUE]

Matches(r, dir, peer) == r.dir \in {dir, "any"} /\ r.peer \in {peer, "any"}

\* Whether a packet is dropped: by a chain its hook jumps to, whose first
\* rule that matches it drops it.
Dropped(dir, peer) ==
  \E c \in DOMAIN rules :
    /\ jumps[c][HookOf(dir)] > 0
    /\ \E k \in DOMAIN rules[c] :
         /\ rules[c][k].drop
         /\ Matches(rules[c][k], dir, peer)
         /\ \A j \in 1..(k - 1) : ~Matches(rules[c][j], dir, peer)

-----------------------------------------------------------------------------
\* The iptables commands: on a chain, on a jump to it, on a rule of it.  An
\* action that cannot go on without a command is said to need it.
OnChain(op, c) == [op |-> op, chain |-> c]
OnJump(op, c, h) == [op |-> op, chain |-> c, hook |-> h]
OnRule(op, c, r, needed) == [op |-> op, chain |-> c, rule |-> r, needed |-> needed]
PerHook(op, c) ==
  <<OnJump(op, c, "INPUT"), OnJump(op, c, "OUTPUT"), OnJump(op, c, "FORWARD")>>

\* _ensure_chain.
EnsureChain(c) == <<OnChain("new", c)>> \o PerHook("check jump", c)

Loopback == <<Accept("from", "lo"), Accept("to", "lo")>>
Server == IF serverIsName THEN << >> ELSE <<Accept("from", "server"), Accept("to", "server")>>

IsolationRules_DropFirst == <<Drop("any", "any")>> \o Loopback \o Server

\* The rules of isolate_host: is_valid_ip leaves a host name out.
IsolationRules == Loopback \o Server \o <<Drop("any", "any")>>

AddIsolationRules_Unneeded ==
  [k \in DOMAIN IsolationRules |->
     OnRule("add", "SENTINEL-XDR-ISOLATE", IsolationRules[k], FALSE)]

AddIsolationRules ==
  [k \in DOMAIN IsolationRules |->
     OnRule("add", "SENTINEL-XDR-ISOLATE", IsolationRules[k], TRUE)]

Isolate ==
  <<OnChain("new", "SENTINEL-XDR-ISOLATE"), OnChain("flush", "SENTINEL-XDR-ISOLATE")>>
  \o AddIsolationRules \o PerHook("check jump", "SENTINEL-XDR-ISOLATE")

Release ==
  PerHook("delete jump", "SENTINEL-XDR-ISOLATE")
  \o <<OnChain("flush", "SENTINEL-XDR-ISOLATE"), OnChain("remove", "SENTINEL-XDR-ISOLATE")>>

Block(p) ==
  EnsureChain("SENTINEL-XDR")
  \o <<OnRule("check", "SENTINEL-XDR", Drop("from", p), FALSE),
       OnRule("add", "SENTINEL-XDR", Drop("from", p), TRUE),
       OnRule("add", "SENTINEL-XDR", Drop("to", p), FALSE)>>

Unblock_OneWay(p) == <<OnRule("delete", "SENTINEL-XDR", Drop("from", p), FALSE)>>

Unblock(p) ==
  <<OnRule("delete", "SENTINEL-XDR", Drop("from", p), FALSE),
    OnRule("delete", "SENTINEL-XDR", Drop("to", p), FALSE)>>

\* block_ip refuses the server's address when that is what it was given.
Blockable == IF serverIsName THEN {"peer", "server"} ELSE {"peer"}

-----------------------------------------------------------------------------
\* Whether a command does what it says, in this state.
Works(c) ==
  LET exists == c.chain \in DOMAIN rules IN
  CASE c.op = "new"    -> ~exists
    [] c.op \in {"flush", "add", "insert jump"} -> exists
    [] c.op = "remove" -> exists /\ rules[c.chain] = << >> /\ \A h \in Hooks : jumps[c.chain][h] = 0
    [] c.op \in {"check jump", "delete jump"} -> jumps[c.chain][c.hook] > 0
    [] c.op \in {"check", "delete"} -> exists /\ c.rule \in ToSet(rules[c.chain])

\* The chains, and the jumps, after a command that works.
RulesAfter(c) ==
  CASE c.op = "new" -> [x \in DOMAIN rules \cup {c.chain} |-> IF x = c.chain THEN << >> ELSE rules[x]]
    [] c.op = "flush" -> [rules EXCEPT ![c.chain] = << >>]
    [] c.op = "remove" -> [x \in DOMAIN rules \ {c.chain} |-> rules[x]]
    [] c.op = "add" -> [rules EXCEPT ![c.chain] = Append(@, c.rule)]
    [] c.op = "delete" ->
         [rules EXCEPT ![c.chain] = RemoveAt(@, SelectInSeq(@, LAMBDA r : r = c.rule))]
    [] OTHER -> rules

JumpsAfter(c) ==
  CASE c.op = "insert jump" -> [jumps EXCEPT ![c.chain][c.hook] = @ + 1]
    [] c.op = "delete jump" -> [jumps EXCEPT ![c.chain][c.hook] = @ - 1]
    [] OTHER -> jumps

\* What is left to do after a command that worked, and after one that failed:
\* -D is repeated until it fails; -I follows a -C that failed.
AfterSuccess(c, rest) ==
  CASE c.op \in {"delete jump", "delete"} -> <<c>> \o rest
    [] c.op = "check" -> << >>
    [] OTHER -> rest

Aborts(c) == c.op = "add" /\ c.needed

AfterFailure(c, rest) ==
  CASE c.op = "check jump" -> <<OnJump("insert jump", c.chain, c.hook)>> \o rest
    [] Aborts(c) -> << >>
    [] OTHER -> rest

Idle == [action |-> "none"]
NoResult == [action |-> "none", ip |-> "none", success |-> FALSE]

Init ==
  /\ serverIsName \in BOOLEAN
  /\ rules = << >>
  /\ jumps = [c \in Chains |-> [h \in Hooks |-> 0]]
  /\ run = [a \in Actors |-> Idle]
  /\ started = 0 /\ fails = 0
  /\ ignored = {}
  /\ isolation = NoResult /\ blocking = NoResult

Start(a, action, ip, left) ==
  /\ run[a] = Idle
  /\ started < MaxActions
  /\ started' = started + 1
  /\ run' = [run EXCEPT ![a] = [action |-> action, ip |-> ip, left |-> left]]
  /\ UNCHANGED <<serverIsName, rules, jumps, fails, ignored, isolation, blocking>>

StartIsolate(a) == Start(a, "isolate_host", "none", Isolate)
StartRelease(a) == Start(a, "release_host", "none", Release)
StartBlock(a, p) == Start(a, "block_ip", p, Block(p))
StartUnblock(a, p) == Start(a, "unblock_ip", p, Unblock(p))

\* AUTO_SAFE: a playbook isolates and blocks; it neither releases nor unblocks.
Orderable == Actors \ {"pipeline"}

\* The result that the action of an actor reports at its end.
Report(a, success) ==
  LET result == [action |-> run[a].action, ip |-> run[a].ip, success |-> success] IN
  /\ isolation' = IF result.action \in {"isolate_host", "release_host"} THEN result ELSE isolation
  /\ blocking' = IF result.action \in {"block_ip", "unblock_ip"} THEN result ELSE blocking

\* An actor goes on with left, or reports if nothing is left.
Continue(a, left, success) ==
  IF left = << >>
  THEN run' = [run EXCEPT ![a] = Idle] /\ Report(a, success)
  ELSE run' = [run EXCEPT ![a].left = left] /\ UNCHANGED <<isolation, blocking>>

\* The next command of an actor works; or it fails, as its state has it or
\* for a reason of its own.
Succeed(a) ==
  /\ run[a] # Idle
  /\ LET c == Head(run[a].left) IN
       /\ Works(c)
       /\ rules' = RulesAfter(c)
       /\ jumps' = JumpsAfter(c)
       /\ Continue(a, AfterSuccess(c, Tail(run[a].left)), TRUE)
  /\ UNCHANGED <<serverIsName, started, fails, ignored>>

Fail(a) ==
  /\ run[a] # Idle
  /\ LET c == Head(run[a].left) IN
       /\ IF Works(c)
          THEN /\ fails < MaxFails
               /\ fails' = fails + 1
               /\ ignored' = IF Aborts(c) THEN ignored ELSE ignored \cup {c.op}
          ELSE UNCHANGED <<fails, ignored>>
       /\ Continue(a, AfterFailure(c, Tail(run[a].left)), ~Aborts(c))
  /\ UNCHANGED <<serverIsName, rules, jumps, started>>

Next ==
  \/ \E a \in Actors : StartIsolate(a)
  \/ \E a \in Orderable : StartRelease(a)
  \/ \E a \in Actors, p \in Blockable : StartBlock(a, p)
  \/ \E a \in Orderable, p \in Blockable : StartUnblock(a, p)
  \/ \E a \in Actors : Succeed(a)
  \/ \E a \in Actors : Fail(a)

Spec == Init /\ [][Next]_vars

-----------------------------------------------------------------------------
(* README.md, "Respuesta": an isolated endpoint keeps its channel with the *)
(* server (and itself).  At no instant, not even between two commands or   *)
(* after one that failed, are its packets dropped.  A server that was      *)
(* configured by name has no rule, and is cut off.                         *)
ChannelKept ==
  \A dir \in Dirs :
    ~Dropped(dir, "lo") /\ (serverIsName \/ ~Dropped(dir, "server"))

Reported(r, action) == r.action = action /\ r.success

(* The same section, of what is left when no action is under way: after an *)
(* isolate_host that reported success, an endpoint whose server has an     *)
(* address exchanges packets with it.  Two threads that isolate at a time  *)
(* may leave the DROP of one before the rules of the other.                *)
ServerKept ==
  ((\A a \in Actors : run[a] = Idle) /\ Reported(isolation, "isolate_host") /\ ~serverIsName) =>
    \A dir \in Dirs : ~Dropped(dir, "server")

(* When isolate_host reported success, and nothing has been done since,    *)
(* the endpoint exchanges no packet with anybody else; when release_host   *)
(* did, it drops none for being isolated; whatever commands failed before  *)
(* or during it, unless it was the -I or the -D of a jump.                 *)
IsolatedAsReported ==
  (\A a \in Actors : run[a] = Idle) =>
    /\ Reported(isolation, "isolate_host") /\ "insert jump" \notin ignored =>
         \A dir \in Dirs : Dropped(dir, "other")
    /\ Reported(isolation, "release_host") /\ "delete jump" \notin ignored =>
         \A dir \in Dirs : ~Dropped(dir, "other")

(* When block_ip reported success the address is blocked both ways, unless *)
(* an -I or the second -A failed, or a -D before it: then its -C may find  *)
(* half of an earlier block and be content.  When unblock_ip did, the      *)
(* address is not blocked, unless a -D failed or the endpoint is isolated. *)
BlockedAsReported ==
  (\A a \in Actors : run[a] = Idle) =>
    /\ Reported(blocking, "block_ip") /\ {"insert jump", "add", "delete"} \cap ignored = {} =>
         \A dir \in Dirs : Dropped(dir, blocking.ip)
    /\ Reported(blocking, "unblock_ip") /\ "delete" \notin ignored =>
         \A dir \in Dirs : Dropped(dir, blocking.ip) => Dropped(dir, "other")

=============================================================================
