------------------------------ MODULE MCWorker ------------------------------
(* Model checking of Worker: pushers are model values. *)
EXTENDS Worker
=============================================================================
