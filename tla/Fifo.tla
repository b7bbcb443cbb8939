-------------------------------- MODULE Fifo --------------------------------
(***************************************************************************)
(* What a worker's message queue promises its callers: one order of pushes *)
(* that every pop follows, no message lost, duplicated or altered, and a   *)
(* NULL answer only at an instant at which everything pushed was popped.   *)
(***************************************************************************)
EXTENDS Naturals, Sequences

CONSTANTS Msg,    \* the messages producers push
          NoMsg   \* queue_pop's NULL

VARIABLES pushed,   \* every message pushed so far, in the order of the pushes
          popped,   \* every message the reader has received, in order
          answer    \* what the reader's last call of queue_pop told it

vars == <<pushed, popped, answer>>

Init ==
  /\ pushed = <<>>
  /\ popped = <<>>
  /\ answer = NoMsg

Push(m) ==
  /\ pushed' = Append(pushed, m)
  /\ UNCHANGED <<popped, answer>>

Pop ==
  /\ Len(popped) < Len(pushed)
  /\ answer' = pushed[Len(popped) + 1]
  /\ popped' = Append(popped, answer')
  /\ UNCHANGED pushed

PopEmpty ==
  /\ Len(popped) = Len(pushed)
  /\ answer' = NoMsg
  /\ UNCHANGED <<pushed, popped>>

Next ==
  \/ \E m \in Msg : Push(m)
  \/ Pop
  \/ PopEmpty

Spec == Init /\ [][Next]_vars
=============================================================================
