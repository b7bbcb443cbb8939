----------------------------- MODULE MCEvBuffer -----------------------------
(* Model checking of EvBuffer.  The separator is two bytes that both occur  *)
(* alone in the stream, so that it may straddle nodes and half match.       *)
EXTENDS EvBuffer

CONSTANTS cr, lf

CrLf == <<cr, lf>>
=============================================================================
