-------------------------- MODULE MCClientManager --------------------------
(* Model checking of ClientManager with one slot and three connections in   *)
(* turn, so that the slot is used again while old ids are still held.       *)
EXTENDS ClientManager
=============================================================================
