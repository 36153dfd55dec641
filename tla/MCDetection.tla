---------------------------- MODULE MCDetection ----------------------------
(* Small instances of Detection.                                           *)
EXTENDS Detection

Sensed(kind, who, what) == [kind |-> kind, who |-> who, what |-> what]

\* One address and another, users, and one group of each of the other rules.
AttackEvents ==
  {Sensed("login_failed", "ip1", "u1"), Sensed("login_failed", "ip1", "u2"),
   Sensed("login_failed", "ip2", "u1"), Sensed("login_success", "ip1", "u1"),
   Sensed("su_failed", "u1", "root"), Sensed("inbound", "ip1", "p1"),
   Sensed("inbound", "ip1", "p2")}

\* Logins of a user from two addresses and from the machine itself, a program
\* that is started and one that was running, and the rules on files and processes.
BaselineEvents ==
  {Sensed("login_success", ip, "u1") : ip \in {"ip1", "ip2", "local"}}
  \cup {Sensed(k, "host", "exe1") : k \in {"process_start", "initial_process"}}
  \cup {Sensed("suspicious_change", "host", "f1"), Sensed("file_delete", "host", "f1"),
        Sensed("ransom_note", "d1", "f2"), Sensed("suspicious_note", "d1", "f3"),
        Sensed("outbound", "exe1", "ip1"), Sensed("recon", "shell", "exe2")}

\* An address that tries a user for longer than cooldown and deduplication last.
LastingEvents == {Sensed("login_failed", "ip1", "u1")}

\* Attacks, with events that wait in the queue; one that lasts; and the baseline,
\* with a restart.
Scenes ==
  {[events |-> AttackEvents, learning |-> 0, lag |-> 1,
    maxEvents |-> 4, maxRestarts |-> 0, maxClock |-> 4],
   [events |-> LastingEvents, learning |-> 0, lag |-> 0,
    maxEvents |-> 8, maxRestarts |-> 0, maxClock |-> 6],
   [events |-> BaselineEvents, learning |-> 1, lag |-> 0,
    maxEvents |-> 3, maxRestarts |-> 1, maxClock |-> 2]}

Rules == ThresholdRules \cup WindowRules
Lengths ==
  [r \in Rules \cup {"failed_total"} |-> CASE r = "failed_total"   -> 3
                                          [] r = "BEH-BRUTEFORCE" -> 2
                                          [] OTHER                -> 1]
Pairs == [r \in Rules |-> 2]
Cooldowns == [r \in WindowRules \cup {"BEH-RANSOM-NOTE"} |-> 2]

=============================================================================
