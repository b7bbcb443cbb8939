----------------------------- MODULE MCDataLog -----------------------------
(* Model checking of DataLog: documents and values are interchangeable. *)
EXTENDS DataLog, TLC

Symmetry == Permutations(Id) \cup Permutations(Val)
=============================================================================
