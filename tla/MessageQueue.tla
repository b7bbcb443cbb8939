---------------------------- MODULE MessageQueue ----------------------------
(***************************************************************************)
(* The queue between the threads that send to a worker and the worker      *)
(* (luaclib/message_queue.c): two growing rings, one that producers write  *)
(* under the lock and one that the reader drains without it.  The reader   *)
(* takes the lock only to exchange the two when its own ring is empty.     *)
(* queue_pop returns a pointer into the ring; worker_callback              *)
(* (luaclib/lua-worker.c) reads the message through it afterwards.         *)
(***************************************************************************)
EXTENDS Naturals, Sequences

CONSTANTS Producer,    \* threads that call queue_push
          Msg,         \* messages
          NoMsg,       \* no message: NULL, or a slot that was never written
          InitCap,     \* slots of a new ring (8 in the code)
          Threshold,   \* first length reported as overload (THRESHOLD)
          MaxPush      \* bound: number of messages pushed in a behaviour

ASSUME QueueAssumption ==
  /\ InitCap \in Nat \ {0}
  /\ Threshold \in Nat \ {0}
  /\ MaxPush \in Nat
  /\ NoMsg \notin Msg

VARIABLES
  head, tail, cap,   \* queue[q].head, .tail, .cap
  message,           \* queue[q].message: the slots of ring q
  block,             \* how often ring q's array was reallocated (its identity)
  threshold,         \* queue[q].threshold
  overload,          \* queue[q].overload
  reader, writer,    \* which ring is read and which is written
  locked,            \* mq->lock is held
  pc,                \* where each producer is in queue_push
  arg,               \* the message each producer is pushing
  rpc,               \* where the reader is
  held,              \* the pointer queue_pop returned
  pushed, popped,    \* history: messages in push order, and as received
  answer             \* the reader's last answer

ring == <<head, tail, cap, message, block>>
limits == <<threshold, overload>>
ends == <<reader, writer>>
sending == <<pc, arg>>
history == <<pushed, popped, answer>>
vars == <<ring, limits, ends, locked, sending, rpc, held, history>>

Ring == {0, 1}

\* queue_create
Init ==
  /\ head = [q \in Ring |-> 0]
  /\ tail = [q \in Ring |-> 0]
  /\ cap = [q \in Ring |-> InitCap]
  /\ message = [q \in Ring |-> [i \in 0 .. InitCap - 1 |-> NoMsg]]
  /\ block = [q \in Ring |-> 0]
  /\ threshold = [q \in Ring |-> Threshold]
  /\ overload = [q \in Ring |-> FALSE]
  /\ reader = 0
  /\ writer = 1
  /\ locked = FALSE
  /\ pc = [p \in Producer |-> "idle"]
  /\ arg = [p \in Producer |-> NoMsg]
  /\ rpc = "pop"
  /\ held = [q |-> 0, slot |-> 0, block |-> 0]
  /\ pushed = <<>>
  /\ popped = <<>>
  /\ answer = NoMsg

\* queue_length
Length(h, t, c) == IF h <= t THEN t - h ELSE t + c - h

\* ++i, back to 0 at the end of the array
Step(i, c) == IF i + 1 >= c THEN 0 ELSE i + 1

\* queue_push, up to the lock
PushLock(p, m) ==
  /\ pc[p] = "idle"
  /\ ~locked
  /\ Len(pushed) < MaxPush
  /\ locked' = TRUE
  /\ pc' = [pc EXCEPT ![p] = "store"]
  /\ arg' = [arg EXCEPT ![p] = m]
  /\ UNCHANGED <<ring, limits, ends, rpc, held, history>>

\* the message is stored in the slot at the tail of the writer's ring
PushStore(p) ==
  /\ pc[p] = "store"
  /\ message' = [message EXCEPT ![writer][tail[writer]] = arg[p]]
  /\ pc' = [pc EXCEPT ![p] = "advance"]
  /\ UNCHANGED <<head, tail, cap, block, limits, ends, locked, arg, rpc, held, history>>

\* the slots of ring q copied to the front of an array twice as long
Grown(q) ==
  [i \in 0 .. 2 * cap[q] - 1 |->
     IF i < cap[q] THEN message[q][(head[q] + i) % cap[q]] ELSE NoMsg]

\* the tail advances; a ring that is now full is reallocated
Advance(q) ==
  LET t == Step(tail[q], cap[q]) IN
  IF head[q] = t
  THEN /\ message' = [message EXCEPT ![q] = Grown(q)]
       /\ head' = [head EXCEPT ![q] = 0]
       /\ tail' = [tail EXCEPT ![q] = cap[q]]
       /\ cap' = [cap EXCEPT ![q] = 2 * cap[q]]
       /\ block' = [block EXCEPT ![q] = @ + 1]
  ELSE /\ tail' = [tail EXCEPT ![q] = t]
       /\ UNCHANGED <<head, cap, message, block>>

\* a length that reaches the threshold doubles it and marks the ring
CheckOverload(q) ==
  IF Length(head'[q], tail'[q], cap'[q]) >= threshold[q]
  THEN /\ threshold' = [threshold EXCEPT ![q] = 2 * @]
       /\ overload' = [overload EXCEPT ![q] = TRUE]
  ELSE UNCHANGED limits

PushAdvance(p) ==
  /\ pc[p] = "advance"
  /\ Advance(writer)
  /\ CheckOverload(writer)
  /\ pushed' = Append(pushed, arg[p])
  /\ pc' = [pc EXCEPT ![p] = "unlock"]
  /\ UNCHANGED <<ends, locked, arg, rpc, held, popped, answer>>

PushUnlock(p) ==
  /\ pc[p] = "unlock"
  /\ locked' = FALSE
  /\ pc' = [pc EXCEPT ![p] = "idle"]
  /\ arg' = [arg EXCEPT ![p] = NoMsg]
  /\ UNCHANGED <<ring, limits, ends, rpc, held, history>>

-----------------------------------------------------------------------------
\* &queue->message[queue->head++]
Take(q) ==
  /\ head[q] # tail[q]
  /\ held' = [q |-> q, slot |-> head[q], block |-> block[q]]
  /\ head' = [head EXCEPT ![q] = Step(@, cap[q])]
  /\ rpc' = "use"

\* the overload report at the start of queue_pop
Report == overload' = [overload EXCEPT ![reader] = FALSE]

\* queue_pop finds a message in the reader's ring
PopTake ==
  /\ rpc = "pop"
  /\ Report
  /\ Take(reader)
  /\ UNCHANGED <<tail, cap, message, block, threshold, ends, locked, sending, history>>

\* Fault: an empty reader's ring is answered without exchanging the rings.
PopMissReturn ==
  /\ rpc = "pop"
  /\ head[reader] = tail[reader]
  /\ Report
  /\ UNCHANGED <<ring, threshold, ends, locked, sending, rpc, held, history>>

\* queue_pop finds the reader's ring empty and goes for the lock
PopMiss ==
  /\ rpc = "pop"
  /\ head[reader] = tail[reader]
  /\ Report
  /\ rpc' = "lock"
  /\ UNCHANGED <<ring, threshold, ends, locked, sending, held, history>>

\* Fault: the rings are exchanged without the lock.
PopLockMissing ==
  /\ rpc = "lock"
  /\ rpc' = "swap"
  /\ UNCHANGED <<ring, limits, ends, locked, sending, held, history>>

PopLock ==
  /\ rpc = "lock"
  /\ ~locked
  /\ locked' = TRUE
  /\ rpc' = "swap"
  /\ UNCHANGED <<ring, limits, ends, sending, held, history>>

\* Fault: only the reader's index is exchanged.
PopSwapReaderOnly ==
  /\ rpc = "swap"
  /\ reader' = (reader + 1) % 2
  /\ locked' = FALSE
  /\ rpc' = "retry"
  /\ answer' = IF head[reader'] = tail[reader'] THEN NoMsg ELSE answer
  /\ UNCHANGED <<ring, limits, writer, sending, held, pushed, popped>>

\* the rings are exchanged under the lock, and the lock is released
PopSwap ==
  /\ rpc = "swap"
  /\ writer' = (writer + 1) % 2
  /\ reader' = (reader + 1) % 2
  /\ locked' = FALSE
  /\ rpc' = "retry"
  /\ answer' = IF head[reader'] = tail[reader'] THEN NoMsg ELSE answer
  /\ UNCHANGED <<ring, limits, sending, held, pushed, popped>>

PopRetryTake ==
  /\ rpc = "retry"
  /\ Take(reader)
  /\ UNCHANGED <<tail, cap, message, block, limits, ends, locked, sending, history>>

\* queue_pop returns NULL
PopRetryNull ==
  /\ rpc = "retry"
  /\ head[reader] = tail[reader]
  /\ rpc' = "pop"
  /\ UNCHANGED <<ring, limits, ends, locked, sending, held, history>>

\* worker_callback reads the message through the pointer it was given
Use ==
  /\ rpc = "use"
  /\ answer' = message[held.q][held.slot]
  /\ popped' = Append(popped, answer')
  /\ rpc' = "pop"
  /\ UNCHANGED <<ring, limits, ends, locked, sending, held, pushed>>

Push(p) ==
  \/ \E m \in Msg : PushLock(p, m)
  \/ PushStore(p)
  \/ PushAdvance(p)
  \/ PushUnlock(p)

Pop == PopTake \/ PopMiss \/ PopLock \/ PopSwap \/ PopRetryTake \/ PopRetryNull \/ Use

Next == Pop \/ \E p \in Producer : Push(p)

Spec == Init /\ [][Next]_vars

\* A thread inside queue_push or queue_pop keeps running: it blocks only on
\* the lock, which its holder releases after finitely many steps.
FairSpec ==
  /\ Spec
  /\ WF_vars(Pop)
  /\ \A p \in Producer : WF_vars(PushStore(p) \/ PushAdvance(p) \/ PushUnlock(p))

-----------------------------------------------------------------------------
TypeOK ==
  /\ head \in [Ring -> Nat]
  /\ tail \in [Ring -> Nat]
  /\ cap \in [Ring -> Nat \ {0}]
  /\ \A q \in Ring : /\ head[q] < cap[q]
                     /\ tail[q] < cap[q]
                     /\ message[q] \in [0 .. cap[q] - 1 -> Msg \cup {NoMsg}]
  /\ DOMAIN message = Ring
  /\ block \in [Ring -> Nat]
  /\ threshold \in [Ring -> Nat \ {0}]
  /\ overload \in [Ring -> BOOLEAN]
  /\ reader \in Ring
  /\ writer \in Ring
  /\ locked \in BOOLEAN
  /\ pc \in [Producer -> {"idle", "store", "advance", "unlock"}]
  /\ arg \in [Producer -> Msg \cup {NoMsg}]
  /\ rpc \in {"pop", "lock", "swap", "retry", "use"}
  /\ held \in [q : Ring, slot : Nat, block : Nat]
  /\ pushed \in Seq(Msg)
  /\ popped \in Seq(Msg)
  /\ answer \in Msg \cup {NoMsg}

\* the reader has taken a slot and has not read it yet
InFlight == IF rpc = "use" THEN 1 ELSE 0

Count(q) == Length(head[q], tail[q], cap[q])

\* The worker reads exactly the messages pushed to it, in the order in which
\* the pushes passed through queue_push's critical section.
FifoOrder ==
  /\ Len(popped) <= Len(pushed)
  /\ \A k \in 1 .. Len(popped) : popped[k] = pushed[k]

\* Every message pushed is received, in the reader's hand, or in one of the
\* two rings: growing a ring (the copy loop of queue_push) and exchanging the
\* rings (queue_pop) lose and duplicate nothing.
NothingLost ==
  Len(popped) + InFlight + Count(reader) + Count(writer) = Len(pushed)

\* The pointer queue_pop returned stays good until the next queue_pop although
\* the lock is not held: no push reallocates or overwrites the array it points
\* into, so worker_callback reads the message that was next in order.
HeldSlotStable ==
  rpc = "use" =>
    /\ held.block = block[held.q]
    /\ Len(popped) < Len(pushed)
    /\ message[held.q][held.slot] = pushed[Len(popped) + 1]

\* queue_push's assert(mq->writer != mq->reader), and why it protects the
\* unlocked half of queue_pop: only one thread is between lock and unlock, so
\* the rings cannot be exchanged under a producer that is filling one.
SeparateRings ==
  /\ writer # reader
  /\ \A p, r \in Producer : pc[p] # "idle" /\ pc[r] # "idle" => p = r
  /\ \A p \in Producer : pc[p] # "idle" => rpc # "swap"

\* After every push the ring is shorter than its threshold, so each crossing
\* of a threshold has been marked for the reader to report.
OverloadMarked == \A q \in Ring : Count(q) < threshold[q]

\* The two rings with their unlocked reader implement one atomic queue.
FifoQueue == INSTANCE Fifo WITH
  Msg <- Msg, NoMsg <- NoMsg, pushed <- pushed, popped <- popped, answer <- answer
FifoSpec == FifoQueue!Spec

\* Every message pushed is eventually received by the worker.
AllDelivered == \A n \in 1 .. MaxPush : Len(pushed) >= n ~> Len(popped) >= n
=============================================================================
