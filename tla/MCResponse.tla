----------------------------- MODULE MCResponse -----------------------------
(* A small instance of Response.  Which contents and pids they are makes   *)
(* no difference.                                                          *)
EXTENDS Response, TLC

ResponseSymmetry == Permutations(Contents) \cup Permutations(Pids)

=============================================================================
