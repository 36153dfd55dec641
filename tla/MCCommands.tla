----------------------------- MODULE MCCommands -----------------------------
(* A small instance of Commands: its cfg gives every constant a value.     *)
EXTENDS Commands

=============================================================================
