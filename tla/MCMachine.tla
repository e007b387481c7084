----------------------------- MODULE MCMachine ------------------------------
(* Machine with two addresses and two data values.                           *)
EXTENDS Machine

=============================================================================
