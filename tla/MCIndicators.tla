---------------------------- MODULE MCIndicators ----------------------------
(* A small instance of Indicators: its cfg gives every constant a value.   *)
EXTENDS Indicators

=============================================================================
