--------------------------- MODULE MCMessageQueue ---------------------------
(* Model checking of MessageQueue: producers and messages are model values. *)
EXTENDS MessageQueue
=============================================================================
