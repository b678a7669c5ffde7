------------------------------ MODULE MCStimer ------------------------------
(* Stimer on small instances. *)
EXTENDS Stimer, TLC
=============================================================================
