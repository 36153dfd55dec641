----------------------------- MODULE MCSensors -----------------------------
(* A small instance of Sensors: its cfg gives every constant a value.      *)
EXTENDS Sensors

=============================================================================
