------------------------------- MODULE MCKcp -------------------------------
(* Model checking of Kcp.  Either Left sends messages of one and of two      *)
(* fragments through windows of two segments, and minds congestion; or Right *)
(* sends two segments at once to a peer that has room for one segment.       *)
EXTENDS Kcp, TLC

CONSTANTS short, long

FragsOf == short :> 1 @@ long :> 2
ScriptOf == Left :> {<<short, long>>} @@ Right :> {<<short, short>>}
SndWndOf == Left :> 2 @@ Right :> 2
RcvWndOf == Left :> 1 @@ Right :> 2
NoCwndOf == Left :> FALSE @@ Right :> TRUE
=============================================================================
