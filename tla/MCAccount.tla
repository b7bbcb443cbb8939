----------------------------- MODULE MCAccount -----------------------------
(* One account, two agents and two login connections, each used once; one   *)
(* agent or both may crash.                                                 *)
EXTENDS Account
=============================================================================
