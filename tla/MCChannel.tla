----------------------------- MODULE MCChannel -----------------------------
(* Model checking of Channel: all constants are small numbers. *)
EXTENDS Channel
=============================================================================
