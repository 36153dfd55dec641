---------------------------- MODULE MCIsolation ----------------------------
(* Small instances of Isolation: each cfg gives every constant a value.    *)
EXTENDS Isolation

=============================================================================
