---------------------------- MODULE MCIdBuilder ----------------------------
(* Model checking of IdBuilder with a process of each kind: s1 takes a new  *)
(* number at each start, as the servers do, and s2 keeps its number.        *)
EXTENDS IdBuilder
=============================================================================
