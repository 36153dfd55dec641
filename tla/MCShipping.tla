----------------------------- MODULE MCShipping -----------------------------
(* A small instance of Shipping: its cfg gives every constant a value.     *)
EXTENDS Shipping

=============================================================================
