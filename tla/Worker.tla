------------------------------- MODULE Worker -------------------------------
(***************************************************************************)
(* A worker thread of luaclib/lua-worker.c: the threads that push to it,   *)
(* its dispatch loop, its condition variable and the pipe over which it    *)
(* sends replies to the main thread.                                       *)
(*                                                                         *)
(* The message queue is the atomic queue of module Fifo, which the code's  *)
(* two rings implement (theorem RefinementThm of MessageQueueProofs).  The *)
(* reference count starts at InitRef: _worker sets it to 1 and then stores *)
(* the result of luaL_ref in the same field.                               *)
(***************************************************************************)
EXTENDS Integers, Sequences, FiniteSets

CONSTANTS Pusher,    \* threads that push: the main thread, other workers
          None,      \* nobody
          MaxPush,   \* bound: messages pushed
          PipeCap,   \* messages the pipe holds before write reports EAGAIN
          InitRef    \* the reference count a worker starts with

ASSUME WorkerAssumption ==
  /\ IsFiniteSet(Pusher)
  /\ "worker" \notin Pusher /\ None \notin Pusher \cup {"worker"}
  /\ MaxPush \in Nat
  /\ PipeCap \in Nat \ {0}
  /\ InitRef \in Nat \ {0}

VARIABLES
  slot,        \* the worker is in the manager's table
  ctx_ref,         \* ctx->ref
  released,    \* worker_release was called
  push,        \* where each pusher is in worker_push
  lock,        \* ctx->mutex: its holder
  pc,          \* where the worker is in worker_dispatch
  queue,       \* the message queue, by message number
  pushed,      \* messages pushed so far
  handled,     \* messages the callback got
  quit,        \* ctx->quit
  list,        \* ctx->first .. ctx->last: replies not written yet
  pipe,        \* replies in the pipe
  replied,     \* replies produced, in order
  received     \* replies the main thread read, in order

refs == <<slot, ctx_ref, released>>
msgs == <<queue, pushed, handled, quit>>
replies == <<list, pipe, replied, received>>
vars == <<refs, push, lock, pc, msgs, replies>>

Init ==
  /\ slot = TRUE /\ ctx_ref = InitRef /\ released = FALSE
  /\ push = [p \in Pusher |-> "idle"]
  /\ lock = None
  /\ pc = "pop"
  /\ queue = <<>> /\ pushed = 0 /\ handled = {} /\ quit = FALSE
  /\ list = <<>> /\ pipe = <<>> /\ replied = <<>> /\ received = <<>>

\* worker_unref: the last user releases the worker
Unref ==
  /\ ctx_ref' = ctx_ref - 1
  /\ released' = (released \/ ctx_ref' = 0)

-----------------------------------------------------------------------------
(* worker_push *)

At(p, from, to) ==
  /\ push[p] = from
  /\ push' = [push EXCEPT ![p] = to]

\* Fault: the reference is not counted.
PushRefFree(p) ==
  /\ At(p, "idle", "ref")
  /\ pushed + Cardinality({q \in Pusher : push[q] = "ref"}) < MaxPush
  /\ slot
  /\ UNCHANGED <<refs, lock, pc, msgs, replies>>

\* worker_ref, under the manager's lock
PushRef(p) ==
  /\ At(p, "idle", "ref")
  /\ pushed + Cardinality({q \in Pusher : push[q] = "ref"}) < MaxPush
  /\ slot
  /\ ctx_ref' = ctx_ref + 1
  /\ UNCHANGED <<slot, released, lock, pc, msgs, replies>>

QueuePush(p) ==
  /\ At(p, "ref", "queued")
  /\ pushed' = pushed + 1
  /\ queue' = Append(queue, pushed')
  /\ UNCHANGED <<refs, lock, pc, handled, quit, replies>>

TryLock(p) ==
  /\ At(p, "queued", "locked")
  /\ lock = None
  /\ lock' = p
  /\ UNCHANGED <<refs, pc, msgs, replies>>

\* pthread_mutex_trylock finds the mutex taken: no signal
TryLockBusy(p) ==
  /\ At(p, "queued", "unref")
  /\ lock # None
  /\ UNCHANGED <<refs, lock, pc, msgs, replies>>

Signal(p) ==
  /\ At(p, "locked", "unref")
  /\ lock' = None
  /\ pc' = IF pc = "wait" THEN "woken" ELSE pc
  /\ UNCHANGED <<refs, msgs, replies>>

PushUnref(p) ==
  /\ At(p, "unref", "idle")
  /\ Unref
  /\ UNCHANGED <<slot, lock, pc, msgs, replies>>

-----------------------------------------------------------------------------
(* worker_dispatch *)

Goto(from, to) == pc = from /\ pc' = to

PopNull ==
  /\ Goto("pop", "lock")
  /\ queue = <<>>
  /\ UNCHANGED <<refs, push, lock, msgs, replies>>

\* queue_pop and worker_callback: Lua may reply over the pipe and may quit
Callback ==
  /\ Goto("pop", "flush")
  /\ queue # <<>>
  /\ queue' = Tail(queue)
  /\ handled' = handled \cup {Head(queue)}
  /\ quit' \in BOOLEAN
  /\ \/ /\ list' = Append(list, Head(queue))
        /\ replied' = Append(replied, Head(queue))
     \/ UNCHANGED <<list, replied>>
  /\ UNCHANGED <<refs, push, lock, pushed, pipe, received>>

Lock ==
  /\ Goto("lock", "enter")
  /\ lock = None
  /\ lock' = "worker"
  /\ UNCHANGED <<refs, push, msgs, replies>>

\* pthread_cond_timedwait gives the mutex up and waits
CondWait ==
  /\ Goto("enter", "wait")
  /\ lock' = None
  /\ UNCHANGED <<refs, push, msgs, replies>>

\* Fault: the wait has no deadline.
TimeoutNever ==
  /\ Goto("wait", "woken")
  /\ FALSE
  /\ UNCHANGED <<refs, push, lock, msgs, replies>>

\* the deadline passes, or the wait ends by itself
WaitTimeout ==
  /\ Goto("wait", "woken")
  /\ UNCHANGED <<refs, push, lock, msgs, replies>>

Relock ==
  /\ Goto("woken", "unlock")
  /\ lock = None
  /\ lock' = "worker"
  /\ UNCHANGED <<refs, push, msgs, replies>>

\* Fault: only a handled message is followed by a write to the pipe.
UnlockNoFlush ==
  /\ Goto("unlock", "pop")
  /\ lock' = None
  /\ UNCHANGED <<refs, push, msgs, replies>>

\* after the wait the worker tries the pipe again
Unlock ==
  /\ Goto("unlock", "flush")
  /\ lock' = None
  /\ UNCHANGED <<refs, push, msgs, replies>>

\* worker_send_pipe writes one reply
SendPipe ==
  /\ pc = "flush"
  /\ list # <<>>
  /\ Len(pipe) < PipeCap
  /\ pipe' = Append(pipe, Head(list))
  /\ list' = Tail(list)
  /\ UNCHANGED <<refs, push, lock, pc, msgs, replied, received>>

\* Fault: the list is emptied also when the pipe is full.
FlushDoneDrops ==
  /\ Goto("flush", IF quit THEN "quit" ELSE "pop")
  /\ list = <<>> \/ Len(pipe) >= PipeCap
  /\ list' = <<>>
  /\ UNCHANGED <<refs, push, lock, msgs, pipe, replied, received>>

\* worker_send_pipe returns: everything is written or write gives EAGAIN
FlushDone ==
  /\ Goto("flush", IF quit THEN "quit" ELSE "pop")
  /\ list = <<>> \/ Len(pipe) >= PipeCap
  /\ UNCHANGED <<refs, push, lock, msgs, replies>>

\* workder_quit: out of the table, then give up the worker's own reference
DeleteWorker ==
  /\ Goto("quit", "leave")
  /\ slot' = FALSE
  /\ UNCHANGED <<ctx_ref, released, push, lock, msgs, replies>>

QuitUnref ==
  /\ Goto("leave", "exit")
  /\ Unref
  /\ UNCHANGED <<slot, push, lock, msgs, replies>>

\* read_pipe in the main thread
ReadPipe ==
  /\ pipe # <<>>
  /\ received' = Append(received, Head(pipe))
  /\ pipe' = Tail(pipe)
  /\ UNCHANGED <<refs, push, lock, pc, msgs, list, replied>>

-----------------------------------------------------------------------------
PushStep(p) ==
  PushRef(p) \/ QueuePush(p) \/ TryLock(p) \/ TryLockBusy(p) \/ Signal(p) \/ PushUnref(p)

Dispatch ==
  \/ PopNull \/ Callback
  \/ Lock \/ CondWait \/ WaitTimeout \/ Relock \/ Unlock
  \/ SendPipe \/ FlushDone
  \/ DeleteWorker \/ QuitUnref

Next ==
  \/ \E p \in Pusher : PushStep(p)
  \/ Dispatch
  \/ ReadPipe

Spec == Init /\ [][Next]_vars

\* Threads run, so that a timed wait ends and a mutex is given up and
\* obtained, and the main loop reads its pipe.
FairSpec ==
  /\ Spec
  /\ WF_vars(Dispatch)
  /\ WF_vars(ReadPipe)
  /\ \A p \in Pusher : WF_vars(Signal(p))

-----------------------------------------------------------------------------
TypeOK ==
  /\ slot \in BOOLEAN /\ ctx_ref \in Int /\ released \in BOOLEAN
  /\ push \in [Pusher -> {"idle", "ref", "queued", "locked", "unref"}]
  /\ lock \in Pusher \cup {"worker", None}
  /\ pc \in {"pop", "lock", "enter", "wait", "woken", "unlock", "flush", "quit", "leave", "exit"}
  /\ queue \in Seq(Nat) /\ pushed \in Nat /\ handled \subseteq Nat /\ quit \in BOOLEAN
  /\ list \in Seq(Nat) /\ pipe \in Seq(Nat) /\ replied \in Seq(Nat) /\ received \in Seq(Nat)

\* Nobody uses a worker that was released: not a pusher that got hold of it
\* before it left the table, and not its own thread.
UsersHoldWorker ==
  released => (\A p \in Pusher : push[p] = "idle") /\ pc = "exit"

\* The worker's mutex is held exactly by the thread that is between its lock
\* and its unlock; a wait that ends takes it again before it goes on.
OneLockHolder ==
  /\ \A p \in Pusher : push[p] = "locked" <=> lock = p
  /\ pc \in {"enter", "unlock"} <=> lock = "worker"

\* Replies reach the main thread in the order in which they were sent, none
\* lost or doubled, although a full pipe interrupts worker_send_pipe.
RepliesInOrder ==
  replied = received \o pipe \o list

\* A message in the queue is handled unless the worker quits, also when its
\* pusher found the mutex taken, or signalled before the worker waited.
EveryMessageHandled ==
  \A m \in 1 .. MaxPush : pushed >= m ~> (m \in handled \/ pc = "exit")

\* A reply is read by the main thread unless the worker quits, also when the
\* pipe was full and no other message comes.
EveryReplyArrives ==
  \A n \in 1 .. MaxPush : Len(replied) >= n ~> (Len(received) >= n \/ pc = "exit")
=============================================================================
