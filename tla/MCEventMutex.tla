---------------------------- MODULE MCEventMutex ----------------------------
(* Model checking of EventMutex: coroutines are model values. *)
EXTENDS EventMutex
=============================================================================
