----------------------------- MODULE EventMutex -----------------------------
(***************************************************************************)
(* event.mutex of lualib/event.lua: a re-entrant lock for coroutines, with *)
(* the sessions, wait, wakeup and timers of the event loop it is built on. *)
(* The loop is single-threaded; a step runs one coroutine from where it    *)
(* was resumed to where it yields or ends.  A coroutine may yield inside   *)
(* the function it runs under the mutex (an RPC, a sleep), so the steps of *)
(* the others fall between its own.                                        *)
(***************************************************************************)
EXTENDS Naturals, Sequences

CONSTANTS Thread,      \* the coroutines that use the mutex
          NoThread,        \* nil
          MaxDepth,    \* bound: how deep a coroutine re-enters the mutex
          MaxSession   \* bound: sessions generated (math.maxinteger in the code)

ASSUME MutexAssumption ==
  /\ NoThread \notin Thread
  /\ MaxDepth \in Nat
  /\ MaxSession \in Nat

VARIABLES
  current_thread,    \* the owner, or the coroutine the mutex was handed to
  ref,               \* how often the owner has entered
  thread_queue,      \* coroutines waiting for the mutex, in order
  thread_session,    \* the session each of them waits on
  session,           \* _session: the next session to hand out
  co_wait,           \* co_wait[t] = s stands for _co_wait[s] = t; 0 for none
  timers,            \* sessions that a timer(0) is going to wake
  depth              \* mutex-protected calls each coroutine is inside of

mutex == <<current_thread, ref, thread_queue, thread_session>>
loop == <<session, co_wait, timers>>
mutex_vars == <<mutex, loop, depth>>

MutexInit ==
  /\ current_thread = NoThread
  /\ ref = 0
  /\ thread_queue = <<>>
  /\ thread_session = [t \in Thread |-> 0]
  /\ session = 1
  /\ co_wait = [t \in Thread |-> 0]
  /\ timers = {}
  /\ depth = [t \in Thread |-> 0]

Running(t) == co_wait[t] = 0

\* the part of the mutex function after the wait: f starts
Start(t) ==
  /\ current_thread' = t
  /\ ref' = ref + 1
  /\ depth' = [depth EXCEPT ![t] = @ + 1]

\* Fault: the owner is not compared with the caller.
EnterUnchecked(t) ==
  /\ Running(t)
  /\ depth[t] < MaxDepth
  /\ Start(t)
  /\ UNCHANGED <<thread_queue, thread_session, loop>>

\* the mutex is free or the caller owns it
Enter(t) ==
  /\ Running(t)
  /\ depth[t] < MaxDepth
  /\ current_thread \in {NoThread, t}
  /\ Start(t)
  /\ UNCHANGED <<thread_queue, thread_session, loop>>

\* gen_session and wait: the coroutine yields, co_monitor files it
Wait(t) ==
  /\ session < MaxSession
  /\ session' = session + 1
  /\ co_wait' = [co_wait EXCEPT ![t] = session]

\* another coroutine owns the mutex or was handed it
Enqueue(t) ==
  /\ Running(t)
  /\ current_thread \notin {NoThread, t}
  /\ thread_queue' = Append(thread_queue, t)
  /\ thread_session' = [thread_session EXCEPT ![t] = session]
  /\ Wait(t)
  /\ UNCHANGED <<current_thread, ref, timers, depth>>

\* Fault: the queue is emptied with the first of its coroutines.
HandOverForgets ==
  /\ thread_queue' = <<>>
  /\ IF thread_queue = <<>>
     THEN /\ current_thread' = NoThread
          /\ UNCHANGED timers
     ELSE /\ current_thread' = Head(thread_queue)
          /\ timers' = timers \cup {thread_session[Head(thread_queue)]}

\* Fault: tremove without a position takes the last in line.
HandOverLast ==
  IF thread_queue = <<>>
  THEN /\ current_thread' = NoThread
       /\ UNCHANGED <<thread_queue, timers>>
  ELSE LET n == Len(thread_queue)
       IN /\ current_thread' = thread_queue[n]
          /\ thread_queue' = SubSeq(thread_queue, 1, n - 1)
          /\ timers' = timers \cup {thread_session[thread_queue[n]]}

\* the next in line becomes the owner before it runs; a timer wakes it
HandOver ==
  IF thread_queue = <<>>
  THEN /\ current_thread' = NoThread
       /\ UNCHANGED <<thread_queue, timers>>
  ELSE /\ current_thread' = Head(thread_queue)
       /\ thread_queue' = Tail(thread_queue)
       /\ timers' = timers \cup {thread_session[Head(thread_queue)]}

\* xpcall_ret: f returned or raised an error, which is raised again only
\* after the mutex was released
Leave(t) ==
  /\ Running(t)
  /\ depth[t] > 0
  /\ ref' = ref - 1
  /\ depth' = [depth EXCEPT ![t] = @ - 1]
  /\ IF ref' = 0
     THEN HandOver
     ELSE UNCHANGED <<current_thread, thread_queue, timers>>
  /\ UNCHANGED <<thread_session, session, co_wait>>

\* the timer cancels itself and wakes the coroutine that waits on s
Fire(s, t) ==
  /\ s \in timers
  /\ co_wait[t] = s
  /\ timers' = timers \ {s}
  /\ co_wait' = [co_wait EXCEPT ![t] = 0]
  /\ Start(t)
  /\ UNCHANGED <<thread_queue, thread_session, session>>

MutexNext ==
  \/ \E t \in Thread : Enter(t) \/ Enqueue(t) \/ Leave(t)
  \/ \E t \in Thread : \E s \in timers : Fire(s, t)

MutexSpec == MutexInit /\ [][MutexNext]_mutex_vars

\* The loop runs an expired timer, and the function a coroutine runs under
\* the mutex ends: it does not nest and return for ever.
MutexFairSpec ==
  /\ MutexSpec
  /\ WF_mutex_vars(\E t \in Thread : \E s \in timers : Fire(s, t))
  /\ \A t \in Thread : WF_mutex_vars(Leave(t)) /\ SF_mutex_vars(depth[t] = 1 /\ Leave(t))

-----------------------------------------------------------------------------
MutexTypeOK ==
  /\ current_thread \in Thread \cup {NoThread}
  /\ ref \in Nat
  /\ thread_queue \in Seq(Thread)
  /\ thread_session \in [Thread -> Nat]
  /\ session \in Nat \ {0}
  /\ co_wait \in [Thread -> Nat]
  /\ timers \subseteq Nat
  /\ depth \in [Thread -> Nat]

\* Two coroutines are never inside functions run under the same mutex, even
\* when one of them yields there, re-enters it or leaves it with an error.
MutualExclusion ==
  \A t, u \in Thread : depth[t] > 0 /\ depth[u] > 0 => t = u

\* assert(ref == 0) -- current_thread == thread: when the timer wakes a
\* waiter, nobody entered since the mutex was handed to it.
HandedOver ==
  \A t \in Thread :
    co_wait[t] \in timers => ref = 0 /\ current_thread = t

\* Every wakeup finds its session, and every waiter has one coming: it is in
\* the queue under the session it waits on, or its timer is pending, and
\* while somebody waits the mutex has an owner that will release it.
NoLostWakeup ==
  /\ \A s \in timers : \E t \in Thread : co_wait[t] = s
  /\ \A t \in Thread : co_wait[t] # 0 =>
       /\ current_thread # NoThread
       /\ \/ co_wait[t] \in timers
          \/ /\ thread_session[t] = co_wait[t]
             /\ \E i \in 1 .. Len(thread_queue) : thread_queue[i] = t

\* Waiters get the mutex in the order in which they asked for it: nobody
\* overtakes, not even a coroutine that calls while the mutex is handed over.
FirstComeFirstServed ==
  [][\A t, u \in Thread :
       co_wait[t] # 0 /\ co_wait'[t] = 0 /\ co_wait[u] # 0 => co_wait[t] <= co_wait[u]]_mutex_vars

\* Every coroutine that waits for the mutex gets it.
EveryWaiterEnters ==
  \A t \in Thread : co_wait[t] # 0 ~> depth[t] > 0
=============================================================================
