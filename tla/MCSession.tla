----------------------------- MODULE MCSession -----------------------------
(* A small instance of Session: its cfg gives every constant a value.      *)
EXTENDS Session

=============================================================================
