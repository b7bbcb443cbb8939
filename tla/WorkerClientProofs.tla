------------------------- MODULE WorkerClientProofs -------------------------
(***************************************************************************)
(* Proofs about event.mutex for any set of coroutines, any depth of        *)
(* re-entrance and any number of sessions.                                 *)
(*                                                                         *)
(* None of the properties is inductive alone.  The inductive invariant     *)
(* adds what the code never writes down: who owns the mutex in which of    *)
(* its three states (free, entered, handed over but not yet woken), and    *)
(* that sessions grow along the queue.                                     *)
(*                                                                         *)
(* Proofs about a worker thread for any finite set of pushers, any number  *)
(* of messages, any capacity of the pipe and any initial reference count   *)
(* of at least one.                                                        *)
(*                                                                         *)
(* UsersHoldWorker needs the meaning of the count: it is InitRef, plus one *)
(* for each pusher inside worker_push, minus one once the worker left; and *)
(* that a worker that is leaving is no longer in the table.                *)
(*                                                                         *)
(* For any number of slots, connections and packets: slots are neither     *)
(* lost nor given out twice, close_func is called at most once for a       *)
(* client, and no packet follows its close.                                *)
(***************************************************************************)
EXTENDS EventMutex, Worker, ClientManager, FiniteSetTheorems, SequenceTheorems, TLAPS

-----------------------------------------------------------------------------
(* event.mutex and the worker *)

-----------------------------------------------------------------------------
(* event.mutex *)

\* Coroutines in the queue wait under the session stored for them, without a
\* timer, and asked in the order of the queue.
QueueInv ==
  /\ \A i \in 1 .. Len(thread_queue) :
       /\ co_wait[thread_queue[i]] # 0
       /\ co_wait[thread_queue[i]] = thread_session[thread_queue[i]]
       /\ co_wait[thread_queue[i]] \notin timers
  /\ \A i, j \in 1 .. Len(thread_queue) :
       i < j => co_wait[thread_queue[i]] < co_wait[thread_queue[j]]

\* Waiters have distinct sessions below the next one, and are in the queue or
\* have a timer.
WaitInv ==
  /\ \A t \in Thread : co_wait[t] # 0 =>
       /\ co_wait[t] < session
       /\ co_wait[t] \in timers \/ \E i \in 1 .. Len(thread_queue) : thread_queue[i] = t
  /\ \A t, u \in Thread : co_wait[t] # 0 /\ co_wait[t] = co_wait[u] => t = u

\* Only the owner is inside, as often as ref says.
DepthInv ==
  /\ \A t \in Thread : t # current_thread => depth[t] = 0
  /\ current_thread # NoThread => depth[current_thread] = ref

\* The three states of the mutex.
Free == current_thread = NoThread /\ ref = 0 /\ timers = {} /\ thread_queue = <<>>
Entered == current_thread # NoThread /\ ref > 0 /\ timers = {} /\ co_wait[current_thread] = 0
Passing ==
  /\ current_thread # NoThread
  /\ ref = 0
  /\ co_wait[current_thread] # 0
  /\ timers = {co_wait[current_thread]}
  /\ \A i \in 1 .. Len(thread_queue) : co_wait[current_thread] < co_wait[thread_queue[i]]

StateInv == Free \/ Entered \/ Passing

MutexInv == MutexTypeOK /\ QueueInv /\ WaitInv /\ DepthInv /\ StateInv

-----------------------------------------------------------------------------
\* The mutex starts free.
LEMMA InitInv == MutexInit => MutexInv
<1> SUFFICES ASSUME MutexInit PROVE MutexInv
  BY Zenon
<1>1. MutexTypeOK
  BY DEF MutexInit, MutexTypeOK
<1>2. QueueInv
  BY DEF MutexInit, QueueInv
<1>3. WaitInv
  BY Zenon DEF MutexInit, WaitInv
<1>4. DepthInv /\ StateInv
  BY Zenon DEF MutexInit, DepthInv, StateInv, Free
<1> QED
  BY <1>1, <1>2, <1>3, <1>4, Zenon DEF MutexInv

\* Entering a free mutex, or one the caller owns.
LEMMA EnterInv == ASSUME MutexInv, NEW t \in Thread, Enter(t) PROVE MutexInv'
<1>0. NoThread \notin Thread
  BY MutexAssumption, Zenon
<1>1. co_wait[t] = 0 /\ current_thread \in {NoThread, t} /\ current_thread' = t /\ ref' = ref + 1
      /\ depth' = [depth EXCEPT ![t] = depth[t] + 1]
      /\ UNCHANGED <<thread_queue, thread_session, session, co_wait, timers>>
  BY Zenon DEF Enter, Start, Running, loop
<1>2. MutexTypeOK'
  BY <1>1 DEF MutexInv, MutexTypeOK
<1>3. QueueInv' /\ WaitInv'
  BY <1>1, Zenon DEF MutexInv, QueueInv, WaitInv
<1>4. Free \/ Entered
  BY <1>1, <1>0, Zenon DEF MutexInv, StateInv, Passing
<1>5. DepthInv'
  BY <1>0, <1>1, <1>4, Zenon DEF MutexInv, MutexTypeOK, DepthInv, Free, Entered
<1>6. Entered'
  BY <1>0, <1>1, <1>4 DEF MutexInv, MutexTypeOK, Free, Entered
<1> QED
  BY <1>2, <1>3, <1>5, <1>6, Zenon DEF MutexInv, StateInv

\* Queueing behind the owner.
LEMMA EnqueueInv == ASSUME MutexInv, NEW t \in Thread, Enqueue(t) PROVE MutexInv'
<1> DEFINE n == Len(thread_queue)
<1>0. NoThread \notin Thread
  BY MutexAssumption, Zenon
<1>1. /\ co_wait[t] = 0 /\ current_thread # NoThread /\ current_thread # t
      /\ thread_queue' = Append(thread_queue, t)
      /\ thread_session' = [thread_session EXCEPT ![t] = session]
      /\ session' = session + 1
      /\ co_wait' = [co_wait EXCEPT ![t] = session]
      /\ UNCHANGED <<current_thread, ref, timers, depth>>
  BY Zenon DEF Enqueue, Running, Wait
<1>2. /\ thread_queue \in Seq(Thread) /\ n \in Nat /\ session \in Nat \ {0}
      /\ co_wait \in [Thread -> Nat] /\ thread_session \in [Thread -> Nat]
      /\ current_thread \in Thread
  BY <1>1 DEF MutexInv, MutexTypeOK
<1>3. MutexTypeOK'
  BY <1>1, <1>2 DEF MutexInv, MutexTypeOK
<1>4. /\ Len(thread_queue') = n + 1
      /\ \A i \in 1 .. n : thread_queue'[i] = thread_queue[i]
      /\ thread_queue'[n + 1] = t
      /\ \A i \in 1 .. n : thread_queue[i] \in Thread
  BY <1>1, <1>2
<1>5. /\ co_wait'[t] = session /\ thread_session'[t] = session
      /\ \A u \in Thread : u # t => co_wait'[u] = co_wait[u] /\ thread_session'[u] = thread_session[u]
  BY <1>1, <1>2, Zenon
<1>6. \A i \in 1 .. n : thread_queue[i] # t /\ co_wait[thread_queue[i]] < session
  BY <1>1, <1>2, <1>4, Zenon DEF MutexInv, QueueInv, WaitInv
<1>7. session \notin timers
  BY <1>1, <1>2 DEF MutexInv, StateInv, Free, Entered, Passing, WaitInv
<1>8. QueueInv'
  <2>1. \A i \in 1 .. (n + 1) : i \in 1 .. n \/ i = n + 1
    BY <1>2
  <2>2. \A i \in 1 .. n : co_wait'[thread_queue'[i]] = co_wait[thread_queue[i]]
                         /\ thread_session'[thread_queue'[i]] = thread_session[thread_queue[i]]
    BY <1>4, <1>5, <1>6, Zenon
  <2>3. \A i \in 1 .. (n + 1) : /\ co_wait'[thread_queue'[i]] # 0
                                /\ co_wait'[thread_queue'[i]] = thread_session'[thread_queue'[i]]
                                /\ co_wait'[thread_queue'[i]] \notin timers
    <3> SUFFICES ASSUME NEW i \in 1 .. (n + 1)
                 PROVE /\ co_wait'[thread_queue'[i]] # 0
                       /\ co_wait'[thread_queue'[i]] = thread_session'[thread_queue'[i]]
                       /\ co_wait'[thread_queue'[i]] \notin timers
      BY Zenon
    <3>1. CASE i \in 1 .. n
      BY <3>1, <2>2, Zenon DEF MutexInv, QueueInv
    <3>2. CASE i = n + 1
      BY <3>2, <1>2, <1>4, <1>5, <1>7, Zenon
    <3> QED
      BY <3>1, <3>2, <2>1, Zenon
  <2>4. ASSUME NEW i \in 1 .. (n + 1), NEW j \in 1 .. (n + 1), i < j
        PROVE co_wait'[thread_queue'[i]] < co_wait'[thread_queue'[j]]
    <3>1. i \in 1 .. n
      BY <2>4, <1>2
    <3>2. CASE j = n + 1
      BY <3>1, <3>2, <1>4, <1>5, <1>6, <2>2, Zenon
    <3>3. CASE j \in 1 .. n
      BY <3>1, <3>3, <2>2, <2>4, Zenon DEF MutexInv, QueueInv
    <3> QED
      BY <3>2, <3>3, <2>1, Zenon
  <2> QED
    BY <2>3, <2>4, <1>1, <1>4 DEF QueueInv
<1>9. WaitInv'
  <2>1. ASSUME NEW u \in Thread, co_wait'[u] # 0
        PROVE co_wait'[u] < session' /\ (co_wait'[u] \in timers' \/ \E i \in 1 .. (n + 1) : thread_queue'[i] = u)
    <3>1. CASE u = t
      BY <3>1, <1>1, <1>2, <1>4, <1>5
    <3>2. CASE u # t
      <4>1. co_wait'[u] = co_wait[u] /\ co_wait[u] \in Nat
        BY <3>2, <1>5, <1>2, Zenon
      <4>2. co_wait[u] < session /\ (co_wait[u] \in timers \/ \E i \in 1 .. n : thread_queue[i] = u)
        BY <2>1, <4>1, Zenon DEF MutexInv, WaitInv
      <4>3. co_wait[u] < session'
        BY <4>1, <4>2, <1>1, <1>2
      <4>4. (\E i \in 1 .. n : thread_queue[i] = u) => \E i \in 1 .. (n + 1) : thread_queue'[i] = u
        BY <1>4, <1>2
      <4> QED
        BY <4>1, <4>2, <4>3, <4>4, <1>1
    <3> QED
      BY <3>1, <3>2, Zenon
  <2>2. ASSUME NEW u \in Thread, NEW v \in Thread, co_wait'[u] # 0, co_wait'[u] = co_wait'[v]
        PROVE u = v
    <3>1. \A w \in Thread : w # t /\ co_wait'[w] # 0 => co_wait'[w] < session
      BY <1>5, Zenon DEF MutexInv, WaitInv
    <3>2. CASE u # t /\ v # t
      BY <3>2, <2>2, <1>5, Zenon DEF MutexInv, WaitInv
    <3>3. CASE u = t \/ v = t
      BY <3>3, <3>1, <2>2, <1>5, <1>2
    <3> QED
      BY <3>2, <3>3, Zenon
  <2> QED
    BY <2>1, <2>2, <1>4, Zenon DEF WaitInv
<1>10. DepthInv'
  BY <1>1, Zenon DEF MutexInv, DepthInv
<1>11. StateInv'
  <2>1. CASE Entered
    BY <2>1, <1>1, <1>2, <1>5, Zenon DEF Entered, StateInv
  <2>2. CASE Passing
    <3>1. co_wait'[current_thread] = co_wait[current_thread] /\ co_wait[current_thread] < session
      BY <2>2, <1>1, <1>2, <1>5, Zenon DEF Passing, MutexInv, WaitInv
    <3>2. \A i \in 1 .. n : co_wait[current_thread] < co_wait'[thread_queue'[i]]
      BY <2>2, <1>4, <1>5, <1>6 DEF Passing
    <3>3. \A i \in 1 .. (n + 1) : co_wait[current_thread] < co_wait'[thread_queue'[i]]
      <4>1. \A i \in 1 .. (n + 1) : i \in 1 .. n \/ i = n + 1
        BY <1>2
      <4>2. co_wait'[thread_queue'[n + 1]] = session
        BY <1>4, <1>5, Zenon
      <4> QED
        BY <3>1, <3>2, <4>1, <4>2, Zenon
    <3> QED
      BY <2>2, <3>1, <3>3, <1>1, <1>4, Zenon DEF Passing, StateInv
  <2> QED
    BY <2>1, <2>2, <1>1, Zenon DEF MutexInv, StateInv, Free
<1> QED
  BY <1>3, <1>8, <1>9, <1>10, <1>11, Zenon DEF MutexInv

\* Leaving: an inner call only counts down; the last one frees the mutex or
\* hands it to the head of the queue.
LEMMA LeaveInv == ASSUME MutexInv, NEW t \in Thread, Leave(t) PROVE MutexInv'
<1> DEFINE n == Len(thread_queue)
<1>0. NoThread \notin Thread
  BY MutexAssumption, Zenon
<1>1. /\ co_wait[t] = 0 /\ depth[t] > 0 /\ ref' = ref - 1
      /\ depth' = [depth EXCEPT ![t] = depth[t] - 1]
      /\ UNCHANGED <<thread_session, session, co_wait>>
  BY Zenon DEF Leave, Running
<1>2. /\ thread_queue \in Seq(Thread) /\ n \in Nat /\ ref \in Nat /\ depth \in [Thread -> Nat]
      /\ co_wait \in [Thread -> Nat] /\ thread_session \in [Thread -> Nat] /\ timers \subseteq Nat
  BY DEF MutexInv, MutexTypeOK
<1>3. current_thread = t /\ depth[t] = ref /\ ref > 0
  <2>1. current_thread = t
    <3>1. depth[t] # 0
      BY <1>1, <1>2
    <3> QED
      BY <3>1, Zenon DEF MutexInv, DepthInv
  <2>2. depth[t] = ref
    BY <2>1, <1>0, Zenon DEF MutexInv, DepthInv
  <2> QED
    BY <2>1, <2>2, <1>1, Zenon
<1>4. Entered /\ timers = {}
  BY <1>0, <1>2, <1>3 DEF MutexInv, StateInv, Free, Entered, Passing
<1>5. ref' \in Nat /\ depth' \in [Thread -> Nat] /\ depth'[t] = ref'
      /\ \A u \in Thread : u # t => depth'[u] = 0
  BY <1>1, <1>2, <1>3 DEF MutexInv, DepthInv
<1>6. CASE ref' # 0
  <2>1. UNCHANGED <<current_thread, thread_queue, timers>>
    BY <1>6, Zenon DEF Leave
  <2>2. MutexTypeOK'
    BY <1>1, <1>5, <2>1, Zenon DEF MutexInv, MutexTypeOK
  <2>3. QueueInv' /\ WaitInv'
    BY <1>1, <2>1, Zenon DEF MutexInv, QueueInv, WaitInv
  <2>4. DepthInv'
    BY <1>3, <1>5, <2>1, Zenon DEF DepthInv
  <2>5. Entered'
    BY <1>1, <1>2, <1>4, <1>5, <1>6, <2>1 DEF Entered
  <2> QED
    BY <2>2, <2>3, <2>4, <2>5, Zenon DEF MutexInv, StateInv
<1>7. CASE ref' = 0 /\ thread_queue = <<>>
  <2>1. current_thread' = NoThread /\ UNCHANGED <<thread_queue, timers>>
    BY <1>7, Zenon DEF Leave, HandOver
  <2>2. MutexTypeOK'
    BY <1>1, <1>5, <2>1, Zenon DEF MutexInv, MutexTypeOK
  <2>3. QueueInv' /\ WaitInv'
    BY <1>1, <2>1, Zenon DEF MutexInv, QueueInv, WaitInv
  <2>4. DepthInv'
    BY <1>5, <1>7, <2>1, Zenon DEF DepthInv
  <2>5. Free'
    BY <1>4, <1>7, <2>1, Zenon DEF Free
  <2> QED
    BY <2>2, <2>3, <2>4, <2>5, Zenon DEF MutexInv, StateInv
<1>8. CASE ref' = 0 /\ thread_queue # <<>>
  <2> DEFINE h == thread_queue[1]
  <2>1. /\ current_thread' = Head(thread_queue)
        /\ thread_queue' = Tail(thread_queue)
        /\ timers' = timers \cup {thread_session[Head(thread_queue)]}
    BY <1>8, Zenon DEF Leave, HandOver
  <2>2. /\ n >= 1 /\ Head(thread_queue) = h /\ h \in Thread
        /\ thread_queue' \in Seq(Thread) /\ Len(thread_queue') = n - 1
        /\ \A i \in 1 .. (n - 1) : thread_queue'[i] = thread_queue[i + 1]
    BY <1>2, <1>8, <2>1
  <2>3. co_wait[h] # 0 /\ co_wait[h] = thread_session[h]
    BY <2>2, <1>2 DEF MutexInv, QueueInv
  <2>4. current_thread' = h /\ timers' = {co_wait[h]} /\ h # t /\ co_wait'[h] = co_wait[h]
    BY <1>1, <1>4, <2>1, <2>2, <2>3, Zenon
  <2>5. MutexTypeOK'
    BY <1>1, <1>2, <1>5, <2>2, <2>4 DEF MutexInv, MutexTypeOK
  <2>6. \A i \in 1 .. (n - 1) : i + 1 \in 1 .. n /\ 1 < i + 1 /\ 1 \in 1 .. n
    BY <1>2
  <2>7. \A i \in 1 .. (n - 1) :
          co_wait'[thread_queue'[i]] = co_wait[thread_queue[i + 1]] /\ co_wait[h] < co_wait'[thread_queue'[i]]
    BY <1>1, <2>2, <2>6 DEF MutexInv, QueueInv
  <2>8. QueueInv'
    <3>1. ASSUME NEW i \in 1 .. (n - 1)
          PROVE /\ co_wait'[thread_queue'[i]] # 0
                /\ co_wait'[thread_queue'[i]] = thread_session'[thread_queue'[i]]
                /\ co_wait'[thread_queue'[i]] \notin timers'
      <4>1. co_wait[thread_queue[i + 1]] # 0 /\ co_wait[thread_queue[i + 1]] = thread_session[thread_queue[i + 1]]
        BY <2>6, Zenon DEF MutexInv, QueueInv
      <4>2. thread_session'[thread_queue'[i]] = thread_session[thread_queue[i + 1]]
        BY <1>1, <2>2, Zenon
      <4>3. co_wait'[thread_queue'[i]] # co_wait[h]
        <5>1. co_wait[h] \in Nat
          BY <1>2, <2>2, Zenon
        <5> QED
          BY <2>7, <5>1
      <4> QED
        BY <4>1, <4>2, <4>3, <2>4, <2>7, Zenon
    <3>2. ASSUME NEW i \in 1 .. (n - 1), NEW j \in 1 .. (n - 1), i < j
          PROVE co_wait'[thread_queue'[i]] < co_wait'[thread_queue'[j]]
      <4>1. i + 1 \in 1 .. n /\ j + 1 \in 1 .. n /\ i + 1 < j + 1
        BY <3>2, <1>2
      <4>2. co_wait[thread_queue[i + 1]] < co_wait[thread_queue[j + 1]]
        BY <4>1, Zenon DEF MutexInv, QueueInv
      <4> QED
        BY <4>2, <2>7
    <3> QED
      BY <3>1, <3>2, <2>2, Zenon DEF QueueInv
  <2>9. WaitInv'
    <3>1. ASSUME NEW u \in Thread, co_wait'[u] # 0
          PROVE co_wait'[u] < session' /\ (co_wait'[u] \in timers' \/ \E i \in 1 .. (n - 1) : thread_queue'[i] = u)
      <4>1. co_wait'[u] = co_wait[u] /\ session' = session
        BY <1>1, Zenon
      <4>2. co_wait[u] < session /\ \E i \in 1 .. n : thread_queue[i] = u
        BY <3>1, <4>1, <1>4 DEF MutexInv, WaitInv
      <4>3. PICK k \in 1 .. n : thread_queue[k] = u
        BY <4>2, Zenon
      <4>4. CASE k = 1
        BY <4>1, <4>2, <4>3, <4>4, <2>4
      <4>5. CASE k # 1
        <5>1. k - 1 \in 1 .. (n - 1) /\ (k - 1) + 1 = k
          BY <4>5, <1>2
        <5>2. thread_queue'[k - 1] = u
          BY <5>1, <4>3, <2>2
        <5> QED
          BY <4>1, <4>2, <5>1, <5>2
      <4> QED
        BY <4>4, <4>5, Zenon
    <3>2. \A u, v \in Thread : co_wait'[u] # 0 /\ co_wait'[u] = co_wait'[v] => u = v
      BY <1>1, Zenon DEF MutexInv, WaitInv
    <3> QED
      BY <3>1, <3>2, <2>2 DEF WaitInv
  <2>10. DepthInv'
    BY <1>5, <1>8, <2>2, <2>4, Zenon DEF DepthInv
  <2>11. Passing'
    BY <1>0, <1>8, <2>2, <2>3, <2>4, <2>7 DEF Passing
  <2> QED
    BY <2>5, <2>8, <2>9, <2>10, <2>11, Zenon DEF MutexInv, StateInv
<1> QED
  BY <1>6, <1>7, <1>8, Zenon

\* The timer wakes the coroutine the mutex was handed to, which enters.
LEMMA FireInv == ASSUME MutexInv, NEW t \in Thread, NEW s \in timers, Fire(s, t) PROVE MutexInv'
<1>0. NoThread \notin Thread
  BY MutexAssumption, Zenon
<1>1. /\ co_wait[t] = s /\ current_thread' = t /\ ref' = ref + 1 /\ timers' = timers \ {s}
      /\ depth' = [depth EXCEPT ![t] = depth[t] + 1]
      /\ co_wait' = [co_wait EXCEPT ![t] = 0]
      /\ UNCHANGED <<thread_queue, thread_session, session>>
  BY Zenon DEF Fire, Start
<1>2. /\ thread_queue \in Seq(Thread) /\ ref \in Nat /\ depth \in [Thread -> Nat]
      /\ co_wait \in [Thread -> Nat] /\ current_thread \in Thread \cup {NoThread}
  BY Zenon DEF MutexInv, MutexTypeOK
<1>3. Passing
  BY Zenon DEF MutexInv, StateInv, Free, Entered
<1>4. current_thread = t /\ s # 0 /\ timers = {s}
  BY <1>1, <1>2, <1>3, Zenon DEF MutexInv, WaitInv, Passing
<1>5. MutexTypeOK'
  BY <1>1, <1>2, <1>4 DEF MutexInv, MutexTypeOK
<1>6. \A u \in Thread : u # t => co_wait'[u] = co_wait[u]
  BY <1>1, <1>2, Zenon
<1>7. \A i \in 1 .. Len(thread_queue) :
        thread_queue[i] \in Thread /\ thread_queue[i] # t /\ co_wait'[thread_queue[i]] = co_wait[thread_queue[i]]
  <2>1. \A i \in 1 .. Len(thread_queue) : thread_queue[i] \in Thread
    BY <1>2
  <2>2. \A i \in 1 .. Len(thread_queue) : thread_queue[i] # t
    BY <1>1, Zenon DEF MutexInv, QueueInv
  <2> QED
    BY <2>1, <2>2, <1>6, Zenon
<1>8. QueueInv'
  BY <1>1, <1>7 DEF MutexInv, QueueInv
<1>9. WaitInv'
  <2>1. co_wait'[t] = 0
    BY <1>1, <1>2, Zenon
  <2>2. \A u \in Thread : u # t /\ co_wait[u] # 0 => co_wait[u] \notin timers
    BY <1>1, <1>4, Zenon DEF MutexInv, WaitInv
  <2> QED
    BY <1>1, <1>6, <2>1, <2>2 DEF MutexInv, WaitInv
<1>10. DepthInv'
  <2>1. depth'[t] = ref'
    <3>1. depth[t] = ref
      BY <1>0, <1>4, Zenon DEF MutexInv, DepthInv
    <3> QED
      BY <3>1, <1>1, <1>2, Zenon
  <2>2. \A u \in Thread : u # t => depth'[u] = 0
    BY <1>1, <1>2, <1>4, Zenon DEF MutexInv, DepthInv
  <2> QED
    BY <1>1, <2>1, <2>2, Zenon DEF DepthInv
<1>11. Entered'
  <2>1. ref' > 0 /\ timers' = {}
    BY <1>1, <1>2, <1>4
  <2>2. co_wait'[t] = 0 /\ t # NoThread
    BY <1>0, <1>1, <1>2
  <2> QED
    BY <1>1, <2>1, <2>2 DEF Entered
<1> QED
  BY <1>5, <1>8, <1>9, <1>10, <1>11 DEF MutexInv, StateInv

\* Every step keeps the invariant.
LEMMA NextInv == MutexInv /\ [MutexNext]_mutex_vars => MutexInv'
<1> SUFFICES ASSUME MutexInv, [MutexNext]_mutex_vars PROVE MutexInv'
  BY Zenon
<1>1. ASSUME NEW t \in Thread, Enter(t) PROVE MutexInv'
  BY <1>1, EnterInv, Zenon
<1>2. ASSUME NEW t \in Thread, Enqueue(t) PROVE MutexInv'
  BY <1>2, EnqueueInv
<1>3. ASSUME NEW t \in Thread, Leave(t) PROVE MutexInv'
  BY <1>3, LeaveInv, Zenon
<1>4. ASSUME NEW t \in Thread, NEW s \in timers, Fire(s, t) PROVE MutexInv'
  BY <1>4, FireInv, Zenon
<1>5. CASE UNCHANGED mutex_vars
  BY <1>5, Zenon DEF mutex_vars, mutex, loop, MutexInv, MutexTypeOK, QueueInv, WaitInv, DepthInv, StateInv, Free, Entered, Passing
<1> QED
  BY <1>1, <1>2, <1>3, <1>4, <1>5 DEF MutexNext

\* The inductive invariant holds in every behaviour of the mutex.
THEOREM MutexInvariance == MutexSpec => []MutexInv
<1> QED
  BY InitInv, NextInv, PTL DEF MutexSpec

\* For any number of coroutines, two are never inside the same mutex, however
\* they nest, yield and fail in there.
THEOREM ExclusionThm == MutexSpec => []MutualExclusion
<1>1. MutexInv => MutualExclusion
  <2> SUFFICES ASSUME MutexInv, NEW t \in Thread, NEW u \in Thread, depth[t] > 0, depth[u] > 0
               PROVE t = u
    BY Zenon DEF MutualExclusion
  <2>1. depth[t] # 0 /\ depth[u] # 0
    BY DEF MutexInv, MutexTypeOK
  <2> QED
    BY <2>1, Zenon DEF MutexInv, DepthInv
<1> QED
  BY <1>1, MutexInvariance, PTL

\* assert(ref == 0) in event.mutex never fails, and its comment is right:
\* the coroutine that is woken already is the owner.
THEOREM HandedOverThm == MutexSpec => []HandedOver
<1>1. MutexInv => HandedOver
  <2> SUFFICES ASSUME MutexInv, NEW t \in Thread, co_wait[t] \in timers
               PROVE ref = 0 /\ current_thread = t
    BY Zenon DEF HandedOver
  <2>1. Passing
    BY Zenon DEF MutexInv, StateInv, Free, Entered
  <2> QED
    BY <2>1, Zenon DEF Passing, MutexInv, MutexTypeOK, WaitInv
<1> QED
  BY <1>1, MutexInvariance, PTL

\* event.wakeup never reports "session not found" for a mutex, and no waiter
\* is left without a queue place or a timer.
THEOREM WakeupThm == MutexSpec => []NoLostWakeup
<1>1. MutexInv => NoLostWakeup
  <2> SUFFICES ASSUME MutexInv PROVE NoLostWakeup
    BY Zenon
  <2>1. \A s \in timers : \E t \in Thread : co_wait[t] = s
    BY Zenon DEF MutexInv, MutexTypeOK, StateInv, Free, Entered, Passing
  <2>2. ASSUME NEW t \in Thread, co_wait[t] # 0
        PROVE /\ current_thread # NoThread
              /\ \/ co_wait[t] \in timers
                 \/ /\ thread_session[t] = co_wait[t]
                    /\ \E i \in 1 .. Len(thread_queue) : thread_queue[i] = t
    <3>1. co_wait[t] \in timers \/ \E i \in 1 .. Len(thread_queue) : thread_queue[i] = t
      BY <2>2, Zenon DEF MutexInv, WaitInv
    <3>2. ASSUME NEW i \in 1 .. Len(thread_queue), thread_queue[i] = t
          PROVE thread_session[t] = co_wait[t]
      BY <3>2, Zenon DEF MutexInv, QueueInv
    <3>3. current_thread # NoThread
      BY <3>1 DEF MutexInv, StateInv, Free, Entered, Passing
    <3> QED
      BY <3>1, <3>2, <3>3, Zenon
  <2> QED
    BY <2>1, <2>2, Zenon DEF NoLostWakeup
<1> QED
  BY <1>1, MutexInvariance, PTL

\* Whoever has waited longest is woken next.
THEOREM OrderOfEntryThm == MutexSpec => FirstComeFirstServed
<1> DEFINE A == \A t, u \in Thread :
                  co_wait[t] # 0 /\ co_wait'[t] = 0 /\ co_wait[u] # 0 => co_wait[t] <= co_wait[u]
<1>1. MutexInv /\ [MutexNext]_mutex_vars => [A]_mutex_vars
  <2> SUFFICES ASSUME MutexInv, [MutexNext]_mutex_vars, ~ UNCHANGED mutex_vars,
                      NEW t \in Thread, NEW u \in Thread, co_wait[t] # 0, co_wait'[t] = 0, co_wait[u] # 0
               PROVE co_wait[t] <= co_wait[u]
    BY Zenon
  <2>1. co_wait \in [Thread -> Nat] /\ session \in Nat \ {0}
    BY Zenon DEF MutexInv, MutexTypeOK
  <2>2. ASSUME NEW v \in Thread, Enter(v) \/ Leave(v) PROVE FALSE
    BY <2>2, Zenon DEF Enter, Leave, loop
  <2>3. ASSUME NEW v \in Thread, Enqueue(v) PROVE FALSE
    BY <2>1, <2>3, Zenon DEF Enqueue, Wait
  <2>4. ASSUME NEW v \in Thread, NEW s \in timers, Fire(s, v) PROVE co_wait[t] <= co_wait[u]
    <3>1. t = v /\ co_wait[t] = s
      BY <2>1, <2>4, Zenon DEF Fire
    <3>2. Passing
      BY Zenon DEF MutexInv, StateInv, Free, Entered
    <3>3. current_thread = t
      BY <3>1, <3>2, Zenon DEF Passing, MutexInv, MutexTypeOK, WaitInv
    <3>4. co_wait[u] \in timers \/ \E i \in 1 .. Len(thread_queue) : thread_queue[i] = u
      BY Zenon DEF MutexInv, WaitInv
    <3>5. co_wait[t] = co_wait[u] \/ co_wait[t] < co_wait[u]
      BY <3>2, <3>3, <3>4 DEF Passing
    <3> QED
      BY <2>1, <3>5
  <2> QED
    BY <2>2, <2>3, <2>4, Zenon DEF MutexNext
<1> QED
  BY <1>1, MutexInvariance, PTL DEF MutexSpec, FirstComeFirstServed
-----------------------------------------------------------------------------
(* the worker *)

InFlight == {p \in Pusher : push[p] # "idle"}

Own == IF pc = "exit" THEN InitRef - 1 ELSE InitRef

RefInv ==
  /\ ctx_ref = Own + Cardinality(InFlight)
  /\ pc \in {"leave", "exit"} => ~ slot
  /\ released => ctx_ref = 0

Inv == TypeOK /\ OneLockHolder /\ RepliesInOrder /\ RefInv

-----------------------------------------------------------------------------
\* Moving the head of one sequence to the end of the sequence before it does
\* not change their concatenation.
LEMMA ShiftHead ==
  ASSUME NEW S, NEW s \in Seq(S), NEW t \in Seq(S), t # <<>>
  PROVE Append(s, Head(t)) \o Tail(t) = s \o t
<1>1. Head(t) \in S /\ Tail(t) \in Seq(S) /\ t = <<Head(t)>> \o Tail(t)
  BY HeadTailProperties, ConcatProperties, SeqEqual
<1>2. Append(s, Head(t)) = s \o <<Head(t)>>
  BY <1>1, AppendIsConcat, Zenon
<1>3. <<Head(t)>> \in Seq(S)
  BY <1>1
<1>4. (s \o <<Head(t)>>) \o Tail(t) = s \o (<<Head(t)>> \o Tail(t))
  BY <1>1, <1>3, ConcatAssociative
<1> QED
  BY <1>1, <1>2, <1>4, Zenon

\* Appending commutes with a concatenation in front.
LEMMA AppendConcat ==
  ASSUME NEW S, NEW s \in Seq(S), NEW t \in Seq(S), NEW e \in S
  PROVE s \o Append(t, e) = Append(s \o t, e)
<1>1. <<e>> \in Seq(S) /\ s \o t \in Seq(S)
  BY ConcatProperties
<1> QED
  BY <1>1, AppendIsConcat, ConcatAssociative

\* The two facts about concatenation that the replies need.
LEMMA ReplyFacts ==
  /\ \A s, t, u \in Seq(Nat) : (s \o t) \o u = s \o (t \o u)
  /\ \A s, t \in Seq(Nat) : \A e \in Nat : s \o Append(t, e) = Append(s \o t, e)
<1>1. ASSUME NEW s \in Seq(Nat), NEW t \in Seq(Nat), NEW u \in Seq(Nat) PROVE (s \o t) \o u = s \o (t \o u)
  BY ConcatAssociative
<1>2. ASSUME NEW s \in Seq(Nat), NEW t \in Seq(Nat), NEW e \in Nat PROVE s \o Append(t, e) = Append(s \o t, e)
  BY AppendConcat
<1> QED
  BY <1>1, <1>2, Zenon

\* The steps of a pusher keep the types.
LEMMA PushType == ASSUME TypeOK, NEW p \in Pusher, PushStep(p) PROVE TypeOK'
<1>1. CASE PushRef(p)
  BY <1>1 DEF TypeOK, PushRef, At, msgs, replies
<1>2. CASE QueuePush(p)
  BY <1>2 DEF TypeOK, QueuePush, At, refs, replies
<1>3. CASE TryLock(p)
  BY <1>3, Zenon DEF TypeOK, TryLock, At, refs, msgs, replies
<1>4. CASE TryLockBusy(p)
  BY <1>4, Zenon DEF TypeOK, TryLockBusy, At, refs, msgs, replies
<1>5. CASE Signal(p)
  BY <1>5 DEF TypeOK, Signal, At, refs, msgs, replies
<1>6. CASE PushUnref(p)
  <2>1. push' \in [Pusher -> {"idle", "ref", "queued", "locked", "unref"}]
    BY <1>6 DEF TypeOK, PushUnref, At
  <2>2. ctx_ref' \in Int
    BY <1>6 DEF TypeOK, PushUnref, Unref
  <2>3. released' \in BOOLEAN
    BY <1>6, Zenon DEF PushUnref, Unref
  <2>4. UNCHANGED <<slot, lock, pc, msgs, replies>>
    BY <1>6, Zenon DEF PushUnref
  <2> QED
    BY <2>1, <2>2, <2>3, <2>4, Zenon DEF TypeOK, msgs, replies
<1> QED
  BY <1>1, <1>2, <1>3, <1>4, <1>5, <1>6, Zenon DEF PushStep

\* The steps of the worker keep the types.
LEMMA DispatchType == ASSUME TypeOK, Dispatch PROVE TypeOK'
<1>1. CASE PopNull
  BY <1>1, Zenon DEF TypeOK, PopNull, Goto, refs, msgs, replies
<1>2. CASE Callback
  <2>1. queue \in Seq(Nat) /\ queue # <<>> /\ Head(queue) \in Nat /\ Tail(queue) \in Seq(Nat)
    BY <1>2 DEF TypeOK, Callback
  <2>2. list' \in Seq(Nat) /\ replied' \in Seq(Nat)
    <3>1. list \in Seq(Nat) /\ replied \in Seq(Nat)
      BY Zenon DEF TypeOK
    <3>2. \/ list' = Append(list, Head(queue)) /\ replied' = Append(replied, Head(queue))
          \/ list' = list /\ replied' = replied
      BY <1>2, Zenon DEF Callback
    <3>3. Append(list, Head(queue)) \in Seq(Nat) /\ Append(replied, Head(queue)) \in Seq(Nat)
      BY <2>1, <3>1
    <3> QED
      BY <3>1, <3>2, <3>3, Zenon
  <2>3. queue' \in Seq(Nat) /\ handled' \subseteq Nat /\ quit' \in BOOLEAN /\ pc' = "flush"
        /\ UNCHANGED <<refs, push, lock, pushed, pipe, received>>
    BY <1>2, <2>1, Zenon DEF TypeOK, Callback, Goto
  <2> QED
    BY <2>2, <2>3, Zenon DEF TypeOK, refs
<1>3. CASE Lock
  BY <1>3, Zenon DEF TypeOK, Lock, Goto, refs, msgs, replies
<1>4. CASE CondWait
  BY <1>4, Zenon DEF TypeOK, CondWait, Goto, refs, msgs, replies
<1>5. CASE WaitTimeout
  BY <1>5 DEF TypeOK, WaitTimeout, Goto, refs, msgs, replies
<1>6. CASE Relock
  BY <1>6 DEF TypeOK, Relock, Goto, refs, msgs, replies
<1>7. CASE Unlock
  BY <1>7, Zenon DEF TypeOK, Unlock, Goto, refs, msgs, replies
<1>8. CASE SendPipe
  BY <1>8 DEF TypeOK, SendPipe, refs, msgs
<1>9. CASE FlushDone
  BY <1>9, Zenon DEF TypeOK, FlushDone, Goto, refs, msgs, replies
<1>10. CASE DeleteWorker
  BY <1>10, Zenon DEF TypeOK, DeleteWorker, Goto, msgs, replies
<1>11. CASE QuitUnref
  BY <1>11 DEF TypeOK, QuitUnref, Unref, Goto, msgs, replies
<1> QED
  BY <1>1, <1>2, <1>3, <1>4, <1>5, <1>6, <1>7, <1>8, <1>9, <1>10, <1>11, Zenon DEF Dispatch

\* Every step keeps the types.
LEMMA TypeStep == ASSUME TypeOK, [Next]_vars PROVE TypeOK'
<1>1. CASE ReadPipe
  BY <1>1 DEF TypeOK, ReadPipe, refs, msgs
<1>2. CASE UNCHANGED vars
  BY <1>2, Zenon DEF TypeOK, vars, refs, msgs, replies
<1> QED
  BY <1>1, <1>2, PushType, DispatchType, Zenon DEF Next

\* The mutex stays with the thread between lock and unlock.
LEMMA LockStep == ASSUME TypeOK, OneLockHolder, [Next]_vars PROVE OneLockHolder'
<1>0. "worker" \notin Pusher /\ None \notin Pusher /\ None # "worker"
  BY WorkerAssumption, Zenon
<1>1. ASSUME NEW p \in Pusher, PushRef(p) \/ QueuePush(p) \/ TryLockBusy(p) \/ PushUnref(p) PROVE OneLockHolder'
  BY <1>1, Zenon DEF OneLockHolder, TypeOK, PushRef, QueuePush, TryLockBusy, PushUnref, At
<1>2. ASSUME NEW p \in Pusher, TryLock(p) PROVE OneLockHolder'
  BY <1>0, <1>2, Zenon DEF OneLockHolder, TypeOK, TryLock, At
<1>3. ASSUME NEW p \in Pusher, Signal(p) PROVE OneLockHolder'
  BY <1>0, <1>3, Zenon DEF OneLockHolder, TypeOK, Signal, At
<1>4. CASE Lock \/ Relock
  BY <1>0, <1>4 DEF OneLockHolder, TypeOK, Lock, Relock, Goto
<1>5. CASE CondWait \/ Unlock
  BY <1>0, <1>5, Zenon DEF OneLockHolder, TypeOK, CondWait, Unlock, Goto
<1>6. CASE PopNull \/ Callback \/ WaitTimeout \/ SendPipe \/ FlushDone \/ DeleteWorker \/ QuitUnref
  BY <1>6, Zenon DEF OneLockHolder, PopNull, Callback, WaitTimeout, SendPipe, FlushDone, DeleteWorker, QuitUnref, Goto
<1>7. CASE ReadPipe \/ UNCHANGED vars
  BY <1>7, Zenon DEF OneLockHolder, ReadPipe, vars
<1> QED
  BY <1>1, <1>2, <1>3, <1>4, <1>5, <1>6, <1>7, Zenon DEF Next, PushStep, Dispatch

\* Replies only move from the list to the pipe and from the pipe to main.
LEMMA ReplyStep == ASSUME TypeOK, RepliesInOrder, [Next]_vars PROVE RepliesInOrder'
<1>0. list \in Seq(Nat) /\ pipe \in Seq(Nat) /\ received \in Seq(Nat) /\ queue \in Seq(Nat)
  BY Zenon DEF TypeOK
<1>1. ASSUME NEW p \in Pusher, PushStep(p) PROVE RepliesInOrder'
  BY <1>1, Zenon DEF RepliesInOrder, PushStep, PushRef, QueuePush, TryLock, TryLockBusy, Signal, PushUnref, replies
<1>2. CASE Callback
  <2>1. CASE UNCHANGED <<list, replied, pipe, received>>
    BY <2>1, Zenon DEF RepliesInOrder
  <2>2. CASE list' = Append(list, Head(queue)) /\ replied' = Append(replied, Head(queue))
    <3>1. Head(queue) \in Nat /\ pipe' = pipe /\ received' = received
      BY <1>0, <1>2 DEF Callback
    <3>2. received \o pipe \in Seq(Nat)
      BY <1>0, ConcatProperties
    <3>3. (received \o pipe) \o Append(list, Head(queue)) = Append((received \o pipe) \o list, Head(queue))
      BY <1>0, <3>1, <3>2, ReplyFacts, Zenon
    <3> QED
      BY <2>2, <3>1, <3>3, Zenon DEF RepliesInOrder
  <2> QED
    BY <1>2, <2>1, <2>2 DEF Callback
<1>3. CASE SendPipe
  <2>1. list # <<>> /\ pipe' = Append(pipe, Head(list)) /\ list' = Tail(list) /\ UNCHANGED <<replied, received>>
    BY <1>3, Zenon DEF SendPipe
  <2>2. Head(list) \in Nat /\ Tail(list) \in Seq(Nat) /\ Append(pipe, Head(list)) \in Seq(Nat)
    BY <1>0, <2>1
  <2>3. Append(pipe, Head(list)) \o Tail(list) = pipe \o list
    BY <1>0, <2>1, ShiftHead, Zenon
  <2>4. (received \o Append(pipe, Head(list))) \o Tail(list) = received \o (Append(pipe, Head(list)) \o Tail(list))
    BY <1>0, <2>2, ReplyFacts, Zenon
  <2>5. (received \o pipe) \o list = received \o (pipe \o list)
    BY <1>0, ConcatAssociative
  <2> QED
    BY <2>1, <2>3, <2>4, <2>5, Zenon DEF RepliesInOrder
<1>4. CASE ReadPipe
  <2>1. pipe # <<>> /\ received' = Append(received, Head(pipe)) /\ pipe' = Tail(pipe) /\ UNCHANGED <<list, replied>>
    BY <1>4, Zenon DEF ReadPipe
  <2>2. Append(received, Head(pipe)) \o Tail(pipe) = received \o pipe
    BY <1>0, <2>1, ShiftHead, Zenon
  <2> QED
    BY <2>1, <2>2, Zenon DEF RepliesInOrder
<1>5. CASE PopNull \/ Lock \/ CondWait \/ WaitTimeout \/ Relock \/ Unlock \/ FlushDone \/ DeleteWorker \/ QuitUnref
  BY <1>5, Zenon DEF RepliesInOrder, PopNull, Lock, CondWait, WaitTimeout, Relock, Unlock, FlushDone, DeleteWorker, QuitUnref, replies
<1>6. CASE UNCHANGED vars
  BY <1>6 DEF RepliesInOrder, vars, replies
<1> QED
  BY <1>1, <1>2, <1>3, <1>4, <1>5, <1>6, Zenon DEF Next, Dispatch

\* The pushers inside worker_push are finitely many.
LEMMA InFlightFinite == ASSUME TypeOK PROVE IsFiniteSet(InFlight) /\ Cardinality(InFlight) \in Nat
<1>1. InFlight \subseteq Pusher
  BY Zenon DEF InFlight
<1> QED
  BY <1>1, WorkerAssumption, FS_Subset, FS_CardinalityType

\* The reference count counts the users of the worker.
LEMMA RefStep == ASSUME TypeOK, RefInv, [Next]_vars PROVE RefInv'
<1>0. IsFiniteSet(InFlight) /\ Cardinality(InFlight) \in Nat /\ ctx_ref \in Int /\ InitRef \in Nat \ {0}
  BY InFlightFinite, WorkerAssumption DEF TypeOK
<1>1. ASSUME NEW p \in Pusher, PushRef(p) PROVE RefInv'
  <2>1. push[p] = "idle" /\ push' = [push EXCEPT ![p] = "ref"] /\ ctx_ref' = ctx_ref + 1 /\ slot /\ UNCHANGED <<slot, released, pc>>
    BY <1>1 DEF PushRef, At
  <2>2. InFlight' = InFlight \cup {p} /\ p \notin InFlight
    BY <2>1 DEF InFlight, TypeOK
  <2>3. Cardinality(InFlight') = Cardinality(InFlight) + 1
    BY <2>2, <1>0, FS_AddElement
  <2>4. pc # "exit" /\ Own = InitRef /\ Own' = InitRef
    BY <2>1, Zenon DEF RefInv, Own
  <2>5. ~ released
    BY <1>0, <2>4 DEF RefInv
  <2> QED
    BY <1>0, <2>1, <2>3, <2>4, <2>5 DEF RefInv
<1>2. ASSUME NEW p \in Pusher, PushUnref(p) PROVE RefInv'
  <2>1. push[p] = "unref" /\ push' = [push EXCEPT ![p] = "idle"] /\ ctx_ref' = ctx_ref - 1 /\ UNCHANGED <<slot, pc>>
        /\ (released' <=> released \/ ctx_ref' = 0)
    BY <1>2, Zenon DEF PushUnref, Unref, At
  <2>2. InFlight' = InFlight \ {p} /\ p \in InFlight
    BY <2>1, Zenon DEF InFlight, TypeOK
  <2>3. Cardinality(InFlight') = Cardinality(InFlight) - 1
    BY <2>2, <1>0, FS_RemoveElement, Zenon
  <2>4. Own' = Own /\ Own \in Nat
    BY <1>0, <2>1 DEF Own
  <2>5. Cardinality(InFlight) # 0
    BY <1>0, <2>2, FS_EmptySet
  <2>6. ~ released
    BY <1>0, <2>4, <2>5 DEF RefInv
  <2>7. ctx_ref' = Own' + Cardinality(InFlight')
    BY <1>0, <2>1, <2>3, <2>4 DEF RefInv
  <2> QED
    BY <2>1, <2>6, <2>7 DEF RefInv
<1>3. CASE QuitUnref
  <2>1. pc = "leave" /\ pc' = "exit" /\ ctx_ref' = ctx_ref - 1 /\ UNCHANGED <<slot, push>>
        /\ (released' <=> released \/ ctx_ref' = 0)
    BY <1>3, Zenon DEF QuitUnref, Unref, Goto
  <2>2. InFlight' = InFlight
    BY <2>1, Zenon DEF InFlight
  <2>3. Own = InitRef /\ Own' = InitRef - 1
    BY <2>1, Zenon DEF Own
  <2>4. ~ released
    BY <1>0, <2>3 DEF RefInv
  <2>5. ctx_ref' = Own' + Cardinality(InFlight')
    BY <1>0, <2>1, <2>2, <2>3 DEF RefInv
  <2> QED
    BY <2>1, <2>4, <2>5 DEF RefInv
<1>4. CASE DeleteWorker
  <2>1. pc # "exit" /\ pc' # "exit" /\ ~ slot' /\ UNCHANGED <<ctx_ref, released, push>>
    BY <1>4, Zenon DEF DeleteWorker, Goto
  <2> QED
    BY <2>1, Zenon DEF RefInv, Own, InFlight
<1>5. ASSUME NEW p \in Pusher, QueuePush(p) \/ TryLock(p) \/ TryLockBusy(p) \/ Signal(p) PROVE RefInv'
  <2>1. InFlight' = InFlight
    BY <1>5 DEF InFlight, TypeOK, QueuePush, TryLock, TryLockBusy, Signal, At
  <2>2. UNCHANGED refs /\ (pc' = pc \/ (pc = "wait" /\ pc' = "woken"))
    BY <1>5, Zenon DEF QueuePush, TryLock, TryLockBusy, Signal
  <2> QED
    BY <2>1, <2>2 DEF RefInv, Own, refs
<1>6. CASE PopNull \/ Callback \/ Lock \/ CondWait \/ WaitTimeout \/ Relock \/ Unlock \/ SendPipe \/ FlushDone
  <2>1. UNCHANGED <<refs, push>> /\ pc \notin {"leave", "exit"} /\ pc' \notin {"leave", "exit"}
    BY <1>6, Zenon DEF PopNull, Callback, Lock, CondWait, WaitTimeout, Relock, Unlock, SendPipe, FlushDone, Goto
  <2> QED
    BY <2>1, Zenon DEF RefInv, Own, InFlight, refs
<1>7. CASE ReadPipe \/ UNCHANGED vars
  <2>1. UNCHANGED <<refs, push, pc>>
    BY <1>7 DEF ReadPipe, vars
  <2> QED
    BY <2>1, Zenon DEF RefInv, Own, InFlight, refs
<1> QED
  BY <1>1, <1>2, <1>3, <1>4, <1>5, <1>6, <1>7, Zenon DEF Next, PushStep, Dispatch

\* The inductive invariant holds in every behaviour of a worker.
THEOREM WorkerInvariance == Spec => []Inv
<1>1. Init => Inv
  <2> SUFFICES ASSUME Init PROVE Inv
    BY Zenon
  <2>1. TypeOK
    <3>1. slot \in BOOLEAN /\ released \in BOOLEAN /\ quit \in BOOLEAN
      BY Zenon DEF Init
    <3>2. push \in [Pusher -> {"idle", "ref", "queued", "locked", "unref"}]
      BY Zenon DEF Init
    <3> QED
      BY <3>1, <3>2, WorkerAssumption DEF Init, TypeOK
  <2>2. OneLockHolder
    BY WorkerAssumption, Zenon DEF Init, OneLockHolder
  <2>3. RepliesInOrder
    BY DEF Init, RepliesInOrder
  <2>4. InFlight = {}
    BY Zenon DEF Init, InFlight
  <2>5. RefInv
    BY <2>4, FS_EmptySet, WorkerAssumption DEF Init, RefInv, Own
  <2> QED
    BY <2>1, <2>2, <2>3, <2>5 DEF Inv
<1>2. Inv /\ [Next]_vars => Inv'
  BY TypeStep, LockStep, ReplyStep, RefStep, Zenon DEF Inv
<1> QED
  BY <1>1, <1>2, PTL DEF Spec

\* For any number of pushers and any initial count of at least one, a worker
\* that was released has no user left.
THEOREM UsersHoldWorkerThm == Spec => []UsersHoldWorker
<1>1. Inv => UsersHoldWorker
  <2> SUFFICES ASSUME Inv, released PROVE (\A p \in Pusher : push[p] = "idle") /\ pc = "exit"
    BY Zenon DEF UsersHoldWorker
  <2>0. IsFiniteSet(InFlight) /\ Cardinality(InFlight) \in Nat /\ InitRef \in Nat \ {0}
    BY InFlightFinite, WorkerAssumption DEF Inv
  <2>1. Own + Cardinality(InFlight) = 0 /\ Own \in Nat
    BY <2>0 DEF Inv, RefInv, Own
  <2>2. Own = 0 /\ Cardinality(InFlight) = 0
    BY <2>0, <2>1
  <2>3. InFlight = {}
    BY <2>0, <2>2, FS_EmptySet
  <2>4. pc = "exit"
    BY <2>0, <2>2 DEF Own
  <2> QED
    BY <2>3, <2>4, Zenon DEF InFlight
<1> QED
  BY <1>1, WorkerInvariance, PTL

\* Replies arrive in order and none is lost, for any capacity of the pipe.
THEOREM RepliesInOrderThm == Spec => []RepliesInOrder
<1> QED
  BY WorkerInvariance, PTL DEF Inv

\* The worker's mutex has one holder.
THEOREM OneLockHolderThm == Spec => []OneLockHolder
<1> QED
  BY WorkerInvariance, PTL DEF Inv

-----------------------------------------------------------------------------
(* the client manager *)

\* A client record stays one, and no empty slot, when a field changes.
LEMMA RecFacts ==
  ASSUME ManagerTypeOK, NEW s \in Live
  PROVE  s \in Slot /\ mgr[s] \in ClientRec /\ mgr[s] # NoClient /\ mgr[s].id \in Nat
<1>1. s \in Slot /\ mgr[s] # NoClient
  BY Zenon DEF Live
<1>2. mgr[s] \in ClientRec
  BY <1>1, Zenon DEF ManagerTypeOK
<1> QED BY <1>1, <1>2 DEF ClientRec

\* Steps that keep the slots keep the invariant's part about them.
LEMMA SlotsKept ==
  ASSUME SlotsOwned, Live' = Live, freelist' = freelist
  PROVE  SlotsOwned'
BY Zenon DEF SlotsOwned

\* close_client returns the slot of a live client.
LEMMA SlotsClosed ==
  ASSUME ManagerTypeOK, SlotsOwned, NEW s \in Live, CloseClient(s)
  PROVE  /\ SlotsOwned' /\ Live' = Live \ {s}
         /\ freelist' \in Seq(Slot) /\ mgr' \in [Slot -> ClientRec \cup {NoClient}]
         /\ \A t \in Live' : mgr'[t] = mgr[t]
<1>1. s \in Slot /\ freelist \in Seq(Slot) /\ mgr \in [Slot -> ClientRec \cup {NoClient}]
  BY Zenon DEF ManagerTypeOK, Live
<1>2. mgr' = [mgr EXCEPT ![s] = NoClient] /\ freelist' = <<s>> \o freelist
  BY Zenon DEF CloseClient
<1>3. Live' = Live \ {s} /\ \A t \in Slot : t # s => mgr'[t] = mgr[t]
  BY <1>1, <1>2 DEF Live
<1>4. /\ freelist' \in Seq(Slot)
      /\ DOMAIN freelist' = 1 .. Len(freelist) + 1 /\ DOMAIN freelist = 1 .. Len(freelist)
      /\ Len(freelist) \in Nat /\ freelist'[1] = s
      /\ \A i \in 1 .. Len(freelist) : freelist'[i + 1] = freelist[i]
  BY <1>1, <1>2
<1>5. \A i \in DOMAIN freelist' : i = 1 \/ (i - 1 \in DOMAIN freelist /\ freelist'[i] = freelist[i - 1])
  BY <1>4
<1>6. s \notin {freelist[i] : i \in DOMAIN freelist}
  BY Zenon DEF SlotsOwned
<1>7. {freelist'[i] : i \in DOMAIN freelist'} = {s} \cup {freelist[i] : i \in DOMAIN freelist}
  <2>1. ASSUME NEW i \in DOMAIN freelist PROVE i + 1 \in DOMAIN freelist' /\ freelist'[i + 1] = freelist[i]
    BY <1>4
  <2>2. 1 \in DOMAIN freelist'
    BY <1>4
  <2> QED BY <1>4, <1>5, <2>1, <2>2
<1>8. {freelist'[i] : i \in DOMAIN freelist'} = Slot \ Live'
  BY <1>1, <1>3, <1>7, Zenon DEF SlotsOwned, Live
<1>9. \A i, j \in DOMAIN freelist' : freelist'[i] = freelist'[j] => i = j
  <2> SUFFICES ASSUME NEW i \in DOMAIN freelist', NEW j \in DOMAIN freelist', freelist'[i] = freelist'[j]
               PROVE  i = j
    BY Zenon
  <2>1. CASE i = 1 /\ j = 1
    BY <2>1, Zenon
  <2>2. CASE i = 1 /\ j # 1
    BY <1>4, <1>5, <1>6, <2>2, Zenon
  <2>3. CASE i # 1 /\ j = 1
    BY <1>4, <1>5, <1>6, <2>3
  <2>4. CASE i # 1 /\ j # 1
    <3>1. i - 1 \in DOMAIN freelist /\ j - 1 \in DOMAIN freelist /\ freelist[i - 1] = freelist[j - 1]
      BY <1>5, <2>4
    <3>2. i - 1 = j - 1 /\ i \in Nat /\ j \in Nat
      BY <1>4, <3>1 DEF SlotsOwned
    <3> QED BY <3>2
  <2> QED BY <2>1, <2>2, <2>3, <2>4, Zenon
<1>10. SlotsOwned'
  BY <1>8, <1>9, Zenon DEF SlotsOwned
<1>11. mgr' \in [Slot -> ClientRec \cup {NoClient}]
  BY <1>1, <1>2, Zenon
<1>12. \A t \in Live' : mgr'[t] = mgr[t]
  BY <1>3, Zenon DEF Live
<1> QED BY <1>3, <1>4, <1>10, <1>11, <1>12

\* A step that frees the client in slot s keeps the slots and the ids right,
\* whether or not it reports the client or Lua closed it.
LEMMA FreedKept ==
  ASSUME ClientInv, NEW s \in Live, CloseClient(s), UNCHANGED <<index, accepted>>,
         reported' \subseteq reported \cup {mgr[s].id}, again' = again,
         silent' \subseteq silent \cup {mgr[s].id}
  PROVE  /\ SlotsOwned' /\ LiveIds' /\ ReportedOnce'
         /\ freelist' \in Seq(Slot) /\ mgr' \in [Slot -> ClientRec \cup {NoClient}]
<1>t. ManagerTypeOK
  BY Zenon DEF ClientInv
<1>1. /\ SlotsOwned' /\ Live' = Live \ {s} /\ \A t \in Live' : mgr'[t] = mgr[t]
      /\ freelist' \in Seq(Slot) /\ mgr' \in [Slot -> ClientRec \cup {NoClient}]
  BY <1>t, SlotsClosed, Zenon DEF ClientInv
<1>2. \A t \in Live' : mgr'[t].id # mgr[s].id /\ t \in Live
  BY <1>1, Zenon DEF ClientInv, LiveIds
<1>3. LiveIds'
  BY <1>1, <1>2 DEF ClientInv, LiveIds
<1>4. ReportedOnce'
  BY <1>1, <1>2, Zenon DEF ClientInv, ReportedOnce
<1> QED BY <1>1, <1>3, <1>4, Zenon

\* A step that changes the fields of the client in slot s, but not its id, and
\* does not unmark it.
LEMMA RecordKept ==
  ASSUME ClientInv, NEW s \in Live, NEW r \in ClientRec, mgr' = [mgr EXCEPT ![s] = r],
         r.id = mgr[s].id, mgr[s].mark => r.mark,
         UNCHANGED <<freelist, index, accepted, reported, again>>,
         silent' \subseteq silent \cup {mgr[s].id}, silent' # silent => r.mark
  PROVE  /\ SlotsOwned' /\ LiveIds' /\ ReportedOnce'
         /\ freelist' \in Seq(Slot) /\ mgr' \in [Slot -> ClientRec \cup {NoClient}]
<1>t. ManagerTypeOK
  BY Zenon DEF ClientInv
<1>1. mgr \in [Slot -> ClientRec \cup {NoClient}] /\ s \in Slot /\ freelist' \in Seq(Slot)
  BY <1>t, Zenon DEF ManagerTypeOK, Live
<1>2. mgr' \in [Slot -> ClientRec \cup {NoClient}] /\ mgr'[s] = r
  BY <1>1, Zenon
<1>3. \A t \in Slot : t # s => mgr'[t] = mgr[t]
  BY <1>1, Zenon
<1>4. Live' = Live
  BY <1>1, <1>2, <1>3, NoClientAssumption, Zenon DEF Live
<1>5. SlotsOwned'
  BY <1>4, SlotsKept DEF ClientInv
<1>6. \A t \in Live : t \in Slot /\ mgr'[t].id = mgr[t].id
  BY <1>2, <1>3 DEF Live
<1>7. ReportedOnce'
  BY <1>4, <1>6 DEF ClientInv, ReportedOnce
<1>8. ASSUME NEW t \in Live, mgr[t].id \in silent' PROVE mgr'[t].mark
  <2>1. CASE t = s
    <3>1. CASE silent' # silent
      BY <1>2, <2>1, <3>1, Zenon
    <3>2. CASE silent' = silent
      BY <1>2, <1>8, <2>1, <3>2, Zenon DEF ClientInv, LiveIds
    <3> QED BY <3>1, <3>2, Zenon
  <2>2. CASE t # s
    <3>1. mgr[t].id \in silent /\ mgr'[t] = mgr[t]
      BY <1>3, <1>6, <1>8, <2>2, Zenon DEF ClientInv, LiveIds
    <3> QED BY <3>1, Zenon DEF ClientInv, LiveIds
  <2> QED BY <2>1, <2>2, Zenon
<1>9. LiveIds'
  BY <1>4, <1>6, <1>8 DEF ClientInv, LiveIds
<1> QED BY <1>1, <1>2, <1>5, <1>7, <1>9, Zenon

\* error_happen frees a live client and reports it for the first time.
LEMMA ErrorKept ==
  ASSUME ClientInv, NEW s \in Live, ErrorHappen(s), UNCHANGED <<index, accepted, silent>>
  PROVE  /\ SlotsOwned' /\ LiveIds' /\ ReportedOnce'
         /\ freelist' \in Seq(Slot) /\ mgr' \in [Slot -> ClientRec \cup {NoClient}]
         /\ reported' \subseteq accepted
<1>1. mgr[s].id \notin reported /\ mgr[s].id \in accepted
  BY Zenon DEF ClientInv, ReportedOnce, LiveIds
<1>2. CloseClient(s) /\ reported' = reported \cup {mgr[s].id} /\ again' = again
  BY <1>1, Zenon DEF ErrorHappen
<1>3. reported' \subseteq accepted
  BY <1>1, <1>2, Zenon DEF ClientInv, ManagerTypeOK
<1> QED BY <1>2, <1>3, FreedKept, Zenon

\* Steps that leave the clients alone.
LEMMA OthersKept ==
  ASSUME ClientInv, UNCHANGED <<mgr, freelist, index, accepted, reported, again, silent, late>>,
         listening' \in BOOLEAN, reading' \in Slot,
         at' \in {"loop", "read", "lua", "timeout", "down"}, back' \in {"loop", "read", "timeout"}
  PROVE  ClientInv'
<1>1. ManagerTypeOK'
  BY Zenon DEF ClientInv, ManagerTypeOK
<1>2. Live' = Live
  BY Zenon DEF Live
<1>3. SlotsOwned' /\ LiveIds' /\ ReportedOnce' /\ NothingLate'
  BY <1>2 DEF ClientInv, SlotsOwned, LiveIds, ReportedOnce, NothingLate
<1> QED BY <1>1, <1>3, Zenon DEF ClientInv

\* The invariant holds at first.
LEMMA InitClient == ManagerInit => ClientInv
<1> SUFFICES ASSUME ManagerInit PROVE ClientInv
  BY Zenon
<1> USE DEF ManagerInit
<1>1. Live = {}
  BY Zenon DEF Live
<1>2. \A i \in 1 .. MaxClient : MaxClient - i \in Slot
  BY ClientAssumption DEF Slot
<1>3. freelist \in Seq(Slot) /\ DOMAIN freelist = 1 .. MaxClient
  BY <1>2, ClientAssumption
<1>4. 0 \in Slot
  BY ClientAssumption DEF Slot
<1>5. ManagerTypeOK
  BY <1>3, <1>4, Zenon DEF ManagerTypeOK
<1>6. \A s \in Slot : MaxClient - s \in 1 .. MaxClient /\ MaxClient - (MaxClient - s) = s
  BY ClientAssumption DEF Slot
<1>7. SlotsOwned
  <2>1. {freelist[i] : i \in DOMAIN freelist} = Slot
    BY <1>2, <1>3, <1>6
  <2>2. \A i, j \in DOMAIN freelist : freelist[i] = freelist[j] => i = j
    BY <1>3, ClientAssumption
  <2> QED BY <1>1, <2>1, <2>2 DEF SlotsOwned
<1> QED BY <1>1, <1>5, <1>7, Zenon DEF ClientInv, LiveIds, ReportedOnce, NothingLate

\* The parts of the invariant after a step of the thread.
LEMMA Assembled ==
  ASSUME ClientInv, SlotsOwned', LiveIds', ReportedOnce', late' = late,
         freelist' \in Seq(Slot), mgr' \in [Slot -> ClientRec \cup {NoClient}],
         index' = index, accepted' = accepted, reported' \subseteq accepted, silent' \subseteq accepted,
         listening' \in BOOLEAN, reading' \in Slot,
         at' \in {"loop", "read", "lua", "timeout", "down"}, back' \in {"loop", "read", "timeout"}
  PROVE  ClientInv'
<1>1. ManagerTypeOK'
  BY Zenon DEF ClientInv, ManagerTypeOK
<1>2. NothingLate'
  BY Zenon DEF ClientInv, NothingLate
<1> QED BY <1>1, <1>2, Zenon DEF ClientInv

\* A step whose only effect on the container is error_happen.
LEMMA ErrorStep ==
  ASSUME ClientInv, NEW s \in Live, ErrorHappen(s),
         UNCHANGED <<index, listening, reading, accepted, silent, late>>,
         at' \in {"loop", "read", "lua", "timeout", "down"}, back' \in {"loop", "read", "timeout"}
  PROVE  ClientInv'
<1>1. silent' \subseteq accepted /\ listening' \in BOOLEAN /\ reading' \in Slot
  BY Zenon DEF ClientInv, ManagerTypeOK
<1> QED BY <1>1, ErrorKept, Assembled, Zenon

\* A step that frees a client without a word to Lua.
LEMMA FreeStep ==
  ASSUME ClientInv, NEW s \in Live, CloseClient(s),
         UNCHANGED <<index, listening, reading, accepted, reported, again, late>>,
         silent' = silent \/ silent' = silent \cup {mgr[s].id},
         at' \in {"loop", "read", "lua", "timeout", "down"}, back' \in {"loop", "read", "timeout"}
  PROVE  ClientInv'
<1>1. mgr[s].id \in accepted
  BY Zenon DEF ClientInv, LiveIds
<1>2. silent' \subseteq accepted /\ reported' \subseteq accepted /\ listening' \in BOOLEAN /\ reading' \in Slot
  BY <1>1, Zenon DEF ClientInv, ManagerTypeOK
<1>3. reported' \subseteq reported \cup {mgr[s].id} /\ silent' \subseteq silent \cup {mgr[s].id}
  BY Zenon
<1> QED BY <1>2, <1>3, FreedKept, Assembled, Zenon

\* A step that changes fields of a client.
LEMMA FieldStep ==
  ASSUME ClientInv, NEW s \in Live, NEW r \in ClientRec, mgr' = [mgr EXCEPT ![s] = r],
         r.id = mgr[s].id, mgr[s].mark => r.mark,
         UNCHANGED <<freelist, index, listening, accepted, reported, again, late>>,
         silent' = silent \/ (silent' = silent \cup {mgr[s].id} /\ r.mark), reading' \in Slot,
         at' \in {"loop", "read", "lua", "timeout", "down"}, back' \in {"loop", "read", "timeout"}
  PROVE  ClientInv'
<1>1. mgr[s].id \in accepted
  BY Zenon DEF ClientInv, LiveIds
<1>2. silent' \subseteq accepted /\ reported' \subseteq accepted /\ listening' \in BOOLEAN
  BY <1>1, Zenon DEF ClientInv, ManagerTypeOK
<1>3. silent' \subseteq silent \cup {mgr[s].id} /\ (silent' # silent => r.mark)
  BY Zenon
<1> QED BY <1>2, <1>3, RecordKept, Assembled, Zenon

\* A peer that sends or closes keeps ClientInv.
LEMMA PeerInv ==
  ASSUME ClientInv, NEW s \in Slot, PeerSend(s, "good") \/ PeerSend(s, "bad") \/ PeerClose(s)
  PROVE  ClientInv'
<1>1. ManagerTypeOK /\ s \in Live /\ UNCHANGED <<freelist, index, listening, at, back, reading, history>>
  BY Zenon DEF ClientInv, PeerSend, PeerClose
<1>2. mgr[s] \in ClientRec /\ mgr \in [Slot -> ClientRec \cup {NoClient}]
  BY <1>1, RecFacts DEF ManagerTypeOK
<1>3. PICK r \in ClientRec : mgr' = [mgr EXCEPT ![s] = r] /\ r.id = mgr[s].id /\ (mgr[s].mark => r.mark)
  <2>1. ASSUME NEW p \in {"good", "bad"}, PeerSend(s, p)
        PROVE  \E r \in ClientRec : mgr' = [mgr EXCEPT ![s] = r] /\ r.id = mgr[s].id /\ (mgr[s].mark => r.mark)
    <3>0. Append(mgr[s].wire, p) \in Seq({"good", "bad"})
      BY <1>2 DEF ClientRec
    <3>1. [mgr[s] EXCEPT !.wire = Append(@, p)] \in ClientRec
      BY <1>2, <3>0, Zenon DEF ClientRec
    <3> QED BY <1>2, <2>1, <3>1, Zenon DEF PeerSend, ClientRec
  <2>2. CASE PeerClose(s)
    <3>1. [mgr[s] EXCEPT !.gone = TRUE] \in ClientRec
      BY <1>2, Zenon DEF ClientRec
    <3> QED BY <1>2, <2>2, <3>1, Zenon DEF PeerClose, ClientRec
  <2> QED BY <2>1, <2>2
<1>4. UNCHANGED <<freelist, index, listening, accepted, reported, again, late>> /\ silent' = silent
  BY <1>1, Zenon DEF history
<1>5. /\ reading' \in Slot
      /\ at' \in {"loop", "read", "lua", "timeout", "down"} /\ back' \in {"loop", "read", "timeout"}
  BY <1>1, Zenon DEF ManagerTypeOK
<1> QED BY <1>1, <1>3, <1>4, <1>5, FieldStep, Zenon

\* ReadEvent keeps ClientInv.
LEMMA ReadEventInv ==
  ASSUME ClientInv, NEW s \in Slot, ReadEvent(s)
  PROVE  ClientInv'
<1> DEFINE r == [mgr[s] EXCEPT !.execute = TRUE, !.input = @ \o mgr[s].wire, !.wire = <<>>]
<1>1. ManagerTypeOK /\ s \in Live
  BY Zenon DEF ClientInv, ReadEvent
<1>2. mgr[s] \in ClientRec /\ mgr \in [Slot -> ClientRec \cup {NoClient}]
  BY <1>1, RecFacts DEF ManagerTypeOK
<1>3. mgr[s].input \o mgr[s].wire \in Seq({"good", "bad"}) /\ <<>> \in Seq({"good", "bad"})
  BY <1>2 DEF ClientRec
<1>4. r \in ClientRec /\ r.id = mgr[s].id /\ r.mark = mgr[s].mark
  BY <1>2, <1>3, Zenon DEF ClientRec
<1>5. mgr' = [mgr EXCEPT ![s] = r]
  BY <1>2, Zenon DEF ReadEvent, ClientRec
<1>6. /\ UNCHANGED <<freelist, index, listening, accepted, reported, again, late>> /\ silent' = silent
      /\ reading' \in Slot /\ at' = "read" /\ back' \in {"loop", "read", "timeout"}
  BY <1>1, Zenon DEF ReadEvent, history, ManagerTypeOK
<1> HIDE DEF r
<1> QED BY <1>1, <1>4, <1>5, <1>6, FieldStep, Zenon

\* The packets of the read loop: a live client that is not marked was neither
\* reported nor closed by Lua, so its packet is not late.
LEMMA PacketInv ==
  ASSUME ClientInv, GoodPacket
  PROVE  ClientInv'
<1> DEFINE s == reading
           r == [mgr[s] EXCEPT !.input = Tail(@), !.freq = Count(@), !.tick = 1]
<1>1. ManagerTypeOK /\ s \in Live /\ ~ mgr[s].mark /\ mgr[s].input # <<>>
  BY Zenon DEF ClientInv, GoodPacket, Packet
<1>2. mgr[s] \in ClientRec /\ mgr \in [Slot -> ClientRec \cup {NoClient}] /\ s \in Slot
  BY <1>1, RecFacts DEF ManagerTypeOK
<1>3. Tail(mgr[s].input) \in Seq({"good", "bad"}) /\ Count(mgr[s].freq) \in Nat
  BY <1>1, <1>2 DEF ClientRec, Count
<1>4. r \in ClientRec /\ r.id = mgr[s].id /\ r.mark = mgr[s].mark
  BY <1>2, <1>3, Zenon DEF ClientRec
<1>5. mgr' = [mgr EXCEPT ![s] = r]
  BY <1>2, Zenon DEF GoodPacket, ClientRec
<1>6. late' = late
  BY <1>1, Zenon DEF GoodPacket, ClientInv, ReportedOnce, LiveIds
<1>7. /\ UNCHANGED <<freelist, index, listening, accepted, reported, again>> /\ silent' = silent
      /\ reading' \in Slot /\ at' = "lua" /\ back' = "read"
  BY <1>2, Zenon DEF GoodPacket, CallLua
<1> HIDE DEF r, s
<1> QED BY <1>1, <1>4, <1>5, <1>6, <1>7, FieldStep, Zenon

\* ReadDone keeps ClientInv.
LEMMA ReadDoneInv ==
  ASSUME ClientInv, ReadDone
  PROVE  ClientInv'
<1> DEFINE s == reading
           r == [mgr[s] EXCEPT !.execute = FALSE]
<1>1. ManagerTypeOK /\ s \in Live
  BY DEF ClientInv, ReadDone
<1>2. mgr[s] \in ClientRec /\ mgr \in [Slot -> ClientRec \cup {NoClient}] /\ s \in Slot
  BY <1>1, RecFacts DEF ManagerTypeOK
<1>3. r \in ClientRec /\ r.id = mgr[s].id /\ r.mark = mgr[s].mark
  BY <1>2, Zenon DEF ClientRec
<1>4. /\ UNCHANGED <<index, listening, accepted, reported, again, late, reading>> /\ silent' = silent
      /\ reading' \in Slot /\ at' = "loop" /\ back' \in {"loop", "read", "timeout"}
  BY <1>1, <1>2 DEF ReadDone, history, ManagerTypeOK
<1>5. CASE mgr[s].mark
  <2>1. CloseClient(s)
    BY <1>5 DEF ReadDone
  <2> HIDE DEF s
  <2> QED BY <1>1, <1>4, <2>1, FreeStep
<1>6. CASE ~ mgr[s].mark
  <2>1. mgr' = [mgr EXCEPT ![s] = r] /\ freelist' = freelist
    BY <1>2, <1>6 DEF ReadDone
  <2> HIDE DEF r, s
  <2> QED BY <1>1, <1>3, <1>4, <2>1, FieldStep, Zenon
<1> QED BY <1>5, <1>6, Zenon

\* Timeout keeps ClientInv.
LEMMA TimeoutInv ==
  ASSUME ClientInv, NEW s \in Slot, Timeout(s)
  PROVE  ClientInv'
<1> DEFINE r == [mgr[s] EXCEPT !.freq = 0, !.tick = IF @ = 0 THEN 0 ELSE @ + 1]
<1>1. ManagerTypeOK /\ s \in Live
  BY DEF ClientInv, Timeout
<1>2. mgr[s] \in ClientRec /\ mgr \in [Slot -> ClientRec \cup {NoClient}]
  BY <1>1, RecFacts, Zenon DEF ManagerTypeOK
<1>t. (IF mgr[s].tick = 0 THEN 0 ELSE mgr[s].tick + 1) \in Nat
  BY <1>2 DEF ClientRec
<1>3. r \in ClientRec /\ r.id = mgr[s].id /\ r.mark = mgr[s].mark
  BY <1>2, <1>t, Zenon DEF ClientRec
<1>4. UNCHANGED <<index, listening, reading, accepted, silent, late>> /\ reading' \in Slot
  BY <1>1, Zenon DEF Timeout, ManagerTypeOK
<1>5. CASE mgr[s].tick > AliveTime + 1
  <2>1. ErrorHappen(s) /\ at' = "lua" /\ back' = "loop"
    BY <1>5, Zenon DEF Timeout, CallLua
  <2> QED BY <1>1, <1>4, <2>1, ErrorStep, Zenon
<1>6. CASE ~ (mgr[s].tick > AliveTime + 1)
  <2>1. mgr' = [mgr EXCEPT ![s] = r]
    BY <1>2, <1>6, Zenon DEF Timeout, ClientRec
  <2>2. UNCHANGED <<freelist, reported, again, at, back>>
    BY <1>6 DEF Timeout
  <2>3. at' \in {"loop", "read", "lua", "timeout", "down"} /\ back' \in {"loop", "read", "timeout"}
    BY <1>1, <2>2 DEF ManagerTypeOK
  <2> HIDE DEF r
  <2> QED BY <1>1, <1>3, <1>4, <2>1, <2>2, <2>3, FieldStep, Zenon
<1> QED BY <1>5, <1>6

\* WriteDrained keeps ClientInv.
LEMMA WriteDrainedInv ==
  ASSUME ClientInv, NEW s \in Slot, WriteDrained(s)
  PROVE  ClientInv'
<1> DEFINE r == [mgr[s] EXCEPT !.wio = FALSE]
<1>1. ManagerTypeOK /\ s \in Live
  BY DEF ClientInv, WriteDrained
<1>2. mgr[s] \in ClientRec /\ mgr \in [Slot -> ClientRec \cup {NoClient}]
  BY <1>1, RecFacts, Zenon DEF ManagerTypeOK
<1>3. r \in ClientRec /\ r.id = mgr[s].id /\ r.mark = mgr[s].mark
  BY <1>2, Zenon DEF ClientRec
<1>4. /\ UNCHANGED <<index, listening, reading, accepted, reported, again, late>> /\ silent' = silent
      /\ reading' \in Slot
      /\ at' \in {"loop", "read", "lua", "timeout", "down"} /\ back' \in {"loop", "read", "timeout"}
  BY <1>1 DEF WriteDrained, history, ManagerTypeOK
<1>5. CASE mgr[s].grace
  <2>1. CloseClient(s)
    BY <1>5 DEF WriteDrained
  <2> QED BY <1>1, <1>4, <2>1, FreeStep
<1>6. CASE ~ mgr[s].grace
  <2>1. mgr' = [mgr EXCEPT ![s] = r] /\ freelist' = freelist
    BY <1>2, <1>6 DEF WriteDrained
  <2> HIDE DEF r
  <2> QED BY <1>1, <1>3, <1>4, <2>1, FieldStep, Zenon
<1> QED BY <1>5, <1>6

\* Lua code: client_manager_close and client_manager_send.
LEMMA LuaInv ==
  ASSUME ClientInv, NEW id \in accepted, NEW s \in Slot, CloseNow(id, s) \/ CloseGrace(id, s) \/ Send(id, s)
  PROVE  ClientInv'
<1>1. ManagerTypeOK /\ s \in Live /\ UNCHANGED <<index, listening, at, back, reading, accepted, late>>
  BY DEF ClientInv, CloseNow, CloseGrace, Send, GetClient
<1>2. mgr[s] \in ClientRec /\ mgr \in [Slot -> ClientRec \cup {NoClient}]
  BY <1>1, RecFacts DEF ManagerTypeOK
<1>3. /\ reading' \in Slot
      /\ at' \in {"loop", "read", "lua", "timeout", "down"} /\ back' \in {"loop", "read", "timeout"}
  BY <1>1 DEF ManagerTypeOK
<1>4. CASE CloseNow(id, s)
  <2> DEFINE r == [mgr[s] EXCEPT !.mark = TRUE]
  <2>1. r \in ClientRec /\ r.id = mgr[s].id /\ r.mark
    BY <1>2, Zenon DEF ClientRec
  <2>2. UNCHANGED <<reported, again>> /\ silent' = silent \cup {mgr[s].id}
    BY <1>4 DEF CloseNow
  <2>3. CASE mgr[s].execute
    <3>1. mgr' = [mgr EXCEPT ![s] = r] /\ freelist' = freelist
      BY <1>2, <1>4, <2>3 DEF CloseNow
    <3> HIDE DEF r
    <3> QED BY <1>1, <1>3, <2>1, <2>2, <3>1, FieldStep, Zenon
  <2>4. CASE ~ mgr[s].execute
    <3>1. CloseClient(s)
      BY <1>4, <2>4 DEF CloseNow
    <3> QED BY <1>1, <1>3, <2>2, <3>1, FreeStep
  <2> QED BY <2>3, <2>4
<1>5. CASE CloseGrace(id, s)
  <2> DEFINE r == [mgr[s] EXCEPT !.grace = TRUE, !.rio = FALSE, !.wio = TRUE]
  <2>1. r \in ClientRec /\ r.id = mgr[s].id /\ r.mark = mgr[s].mark
    BY <1>2, Zenon DEF ClientRec
  <2>2. UNCHANGED <<freelist, reported, again, silent>>
    BY <1>5 DEF CloseGrace
  <2>3. mgr' = [mgr EXCEPT ![s] = r]
    BY <1>2, <1>5, Zenon DEF CloseGrace, ClientRec
  <2> HIDE DEF r
  <2> QED BY <1>1, <1>3, <2>1, <2>2, <2>3, FieldStep, Zenon
<1>6. CASE Send(id, s)
  <2> DEFINE r == [mgr[s] EXCEPT !.wio = TRUE]
  <2>1. r \in ClientRec /\ r.id = mgr[s].id /\ r.mark = mgr[s].mark
    BY <1>2, Zenon DEF ClientRec
  <2>2. silent' = silent
    BY <1>6 DEF Send
  <2>3. CASE mgr' = [mgr EXCEPT ![s].wio = TRUE] /\ UNCHANGED <<freelist, reported, again>>
    <3>1. mgr' = [mgr EXCEPT ![s] = r]
      BY <1>2, <2>3
    <3> HIDE DEF r
    <3> QED BY <1>1, <1>3, <2>1, <2>2, <2>3, <3>1, FieldStep, Zenon
  <2>4. CASE ErrorHappen(s)
    BY <1>1, <1>3, <2>2, <2>4, ErrorStep
  <2> QED BY <1>6, <2>3, <2>4 DEF Send
<1> QED BY <1>4, <1>5, <1>6

\* accept_client: the slot comes off the freelist and the id is a new one,
\* because ids grow with the index.
LEMMA AcceptInv ==
  ASSUME ClientInv, Accept
  PROVE  ClientInv'
<1> DEFINE s == Head(freelist)
           id == index * MaxOffset + s
<1>1. ManagerTypeOK /\ freelist # <<>> /\ freelist \in Seq(Slot) /\ index \in Nat
  BY DEF ClientInv, Accept, ManagerTypeOK
<1>2. /\ DOMAIN freelist = 1 .. Len(freelist) /\ Len(freelist) \in Nat \ {0}
      /\ Tail(freelist) \in Seq(Slot) /\ DOMAIN Tail(freelist) = 1 .. Len(freelist) - 1
      /\ \A i \in 1 .. Len(freelist) - 1 : Tail(freelist)[i] = freelist[i + 1]
      /\ s = freelist[1]
  BY <1>1
<1>3. s \in Slot /\ s \notin Live
  <2>1. 1 \in DOMAIN freelist /\ s = freelist[1]
    BY <1>2
  <2>2. s \in Slot \ Live
    BY <2>1, Zenon DEF ClientInv, SlotsOwned
  <2> QED BY <2>2
<1>4. /\ index * MaxOffset \in Nat /\ (index + 1) * MaxOffset = index * MaxOffset + MaxOffset
      /\ s \in Nat /\ s < MaxOffset
  BY <1>1, <1>3, ClientAssumption DEF Slot
<1>5. id \in Nat /\ index * MaxOffset <= id /\ id < (index + 1) * MaxOffset
  BY <1>4, ClientAssumption
<1>6. Client(id) \in ClientRec /\ Client(id).id = id /\ Client(id) # NoClient
  <2>1. <<>> \in Seq({"good", "bad"}) /\ 0 \in Nat
    OBVIOUS
  <2>2. Client(id) \in ClientRec /\ Client(id).id = id
    BY <1>5, <2>1 DEF Client, ClientRec
  <2> QED BY <2>2, NoClientAssumption
<1>7. /\ mgr' = [mgr EXCEPT ![s] = Client(id)] /\ accepted' = accepted \cup {id}
      /\ freelist' = Tail(freelist) /\ index' = index + 1
      /\ UNCHANGED <<listening, reading, reported, again, silent, late>>
      /\ at' = "lua" /\ back' = "loop"
  BY Zenon DEF Accept, CallLua
<1> HIDE DEF s, id
<1>8. mgr \in [Slot -> ClientRec \cup {NoClient}]
  BY <1>1 DEF ManagerTypeOK
<1>9. /\ mgr' \in [Slot -> ClientRec \cup {NoClient}] /\ mgr'[s] = Client(id)
      /\ \A t \in Slot : t # s => mgr'[t] = mgr[t]
  BY <1>3, <1>6, <1>7, <1>8
<1>10. Live' = Live \cup {s}
  BY <1>3, <1>6, <1>9 DEF Live
<1>11. id \notin accepted
  BY <1>4, <1>5 DEF ClientInv, LiveIds, ManagerTypeOK
<1>12. SlotsOwned'
  <2>1. ASSUME NEW i \in DOMAIN freelist' PROVE i + 1 \in DOMAIN freelist /\ freelist'[i] = freelist[i + 1] /\ freelist'[i] # s
    <3>1. i + 1 \in DOMAIN freelist /\ 1 \in DOMAIN freelist /\ i + 1 # 1 /\ freelist'[i] = freelist[i + 1]
      BY <1>2, <1>7
    <3> QED BY <1>2, <3>1, Zenon DEF ClientInv, SlotsOwned
  <2>2. ASSUME NEW i \in DOMAIN freelist, freelist[i] # s PROVE i - 1 \in DOMAIN freelist' /\ freelist'[i - 1] = freelist[i]
    <3>1. i \in 2 .. Len(freelist)
      BY <1>2, <2>2
    <3> QED BY <1>2, <1>7, <3>1
  <2>3. {freelist'[i] : i \in DOMAIN freelist'} = {freelist[i] : i \in DOMAIN freelist} \ {s}
    BY <2>1, <2>2
  <2>4. {freelist'[i] : i \in DOMAIN freelist'} = Slot \ Live'
    BY <1>10, <2>3 DEF ClientInv, SlotsOwned
  <2>5. ASSUME NEW i \in DOMAIN freelist', NEW j \in DOMAIN freelist', freelist'[i] = freelist'[j] PROVE i = j
    <3>1. i + 1 = j + 1
      BY <2>1, <2>5 DEF ClientInv, SlotsOwned
    <3> QED BY <1>2, <1>7, <3>1
  <2> QED BY <2>4, <2>5, Zenon DEF SlotsOwned
<1>13. LiveIds'
  <2>1. \A k \in accepted' : k < index' * MaxOffset
    <3>1. ASSUME NEW k \in accepted PROVE k < (index + 1) * MaxOffset
      BY <1>4, ClientAssumption DEF ClientInv, LiveIds, ManagerTypeOK
    <3> QED BY <1>5, <1>7, <3>1
  <2>2. id \notin silent
    BY <1>1, <1>11, Zenon DEF ManagerTypeOK
  <2>3. \A t \in Live : t \in Slot /\ t # s /\ mgr'[t] = mgr[t]
    BY <1>3, <1>9, Zenon DEF Live
  <2>4. \A t \in Live' : mgr'[t].id \in accepted' /\ (mgr'[t].id \in silent' => mgr'[t].mark)
    BY <1>6, <1>7, <1>9, <1>10, <2>2, <2>3 DEF ClientInv, LiveIds
  <2>5. \A t, u \in Live' : mgr'[t].id = mgr'[u].id => t = u
    BY <1>6, <1>9, <1>10, <1>11, <2>3 DEF ClientInv, LiveIds
  <2> QED BY <2>1, <2>4, <2>5 DEF LiveIds
<1>14. ReportedOnce'
  <2>1. id \notin reported
    BY <1>1, <1>11, Zenon DEF ManagerTypeOK
  <2>2. \A t \in Live : t \in Slot /\ mgr'[t] = mgr[t]
    BY <1>3, <1>9 DEF Live
  <2> QED BY <1>6, <1>7, <1>9, <1>10, <2>1, <2>2 DEF ClientInv, ReportedOnce
<1>15. ManagerTypeOK' /\ NothingLate'
  BY <1>1, <1>2, <1>5, <1>7, <1>9 DEF ClientInv, ManagerTypeOK, NothingLate
<1> QED BY <1>12, <1>13, <1>14, <1>15 DEF ClientInv

\* client_manager_release empties the container.
LEMMA ReleaseInv ==
  ASSUME ClientInv, Release
  PROVE  ClientInv'
<1>1. Live' = {}
  BY DEF Live, Release
<1>2. \A i \in 1 .. MaxClient : MaxClient - i \in Slot
  BY ClientAssumption DEF Slot
<1>3. freelist' \in Seq(Slot) /\ DOMAIN freelist' = 1 .. MaxClient
  BY <1>2, ClientAssumption DEF Release
<1>4. ManagerTypeOK'
  BY <1>3, Zenon DEF ClientInv, ManagerTypeOK, Release, history
<1>5. \A s \in Slot : MaxClient - s \in 1 .. MaxClient /\ MaxClient - (MaxClient - s) = s
  BY ClientAssumption DEF Slot
<1>6. SlotsOwned'
  <2>0. freelist' = [i \in 1 .. MaxClient |-> MaxClient - i]
    BY DEF Release
  <2>1. {freelist'[i] : i \in DOMAIN freelist'} = Slot
    BY <1>2, <1>3, <1>5, <2>0
  <2>2. \A i, j \in DOMAIN freelist' : freelist'[i] = freelist'[j] => i = j
    BY <1>3, <2>0, ClientAssumption
  <2> QED BY <1>1, <2>1, <2>2 DEF SlotsOwned
<1>7. LiveIds' /\ ReportedOnce' /\ NothingLate'
  BY <1>1, Zenon DEF ClientInv, LiveIds, ReportedOnce, NothingLate, Release, history
<1> QED BY <1>4, <1>6, <1>7, Zenon DEF ClientInv

\* Every step keeps the invariant.
LEMMA ManagerNextInv ==
  ASSUME ClientInv, [ManagerNext]_manager_vars
  PROVE  ClientInv'
<1>t. ManagerTypeOK
  BY DEF ClientInv
<1>1. CASE Accept
  BY <1>1, AcceptInv
<1>2. CASE Reject \/ UNCHANGED manager_vars
  <2>1. UNCHANGED <<mgr, freelist, index, listening, at, back, reading, accepted, reported, again, silent, late>>
    BY <1>2 DEF Reject, manager_vars, container, history
  <2> QED BY <1>t, <2>1, OthersKept DEF ManagerTypeOK
<1>3. CASE OtherEvent
  BY <1>t, <1>3, OthersKept DEF OtherEvent, CallLua, container, history, ManagerTypeOK
<1>4. CASE Release
  BY <1>4, ReleaseInv, Zenon
<1>5. ASSUME NEW s \in Slot, PeerSend(s, "good") \/ PeerSend(s, "bad") \/ PeerClose(s) PROVE ClientInv'
  BY <1>5, PeerInv
<1>6. ASSUME NEW s \in Slot, ReadEvent(s) PROVE ClientInv'
  BY <1>6, ReadEventInv
<1>7. ASSUME NEW s \in Slot, ReadFails(s) \/ TimeoutFreq(s) \/ WriteFails(s) PROVE ClientInv'
  <2>1. /\ s \in Live /\ ErrorHappen(s) /\ at' = "lua" /\ back' \in {"loop", "read", "timeout"}
        /\ UNCHANGED <<index, listening, reading, accepted, silent, late>>
    BY <1>7 DEF ReadFails, TimeoutFreq, WriteFails, CallLua
  <2> QED BY <2>1, ErrorStep
<1>8. ASSUME NEW s \in Slot, Timeout(s) PROVE ClientInv'
  BY <1>8, TimeoutInv, Zenon
<1>9. ASSUME NEW s \in Slot, WriteDrained(s) PROVE ClientInv'
  BY <1>9, WriteDrainedInv, Zenon
<1>10. CASE GoodPacket
  BY <1>10, PacketInv, Zenon
<1>11. CASE BadPacket
  <2>1. /\ reading \in Live /\ ErrorHappen(reading) /\ at' = "lua" /\ back' = "loop"
        /\ UNCHANGED <<index, listening, reading, accepted, silent, late>>
    BY <1>11 DEF BadPacket, Packet, CallLua
  <2> QED BY <2>1, ErrorStep
<1>12. CASE ReadDone
  BY <1>12, ReadDoneInv, Zenon
<1>13. CASE ReadFreed \/ TimeoutFreed
  BY <1>t, <1>13, OthersKept DEF ReadFreed, TimeoutFreed, Afterwards, container, history, ManagerTypeOK
<1>14. ASSUME NEW id \in accepted, NEW s \in Slot, CloseNow(id, s) \/ CloseGrace(id, s) \/ Send(id, s)
       PROVE  ClientInv'
  BY <1>14, LuaInv
<1>15. CASE Listen
  BY <1>t, <1>15, OthersKept DEF Listen, container, history, ManagerTypeOK
<1>16. CASE Return
  BY <1>t, <1>16, OthersKept DEF Return, container, history, ManagerTypeOK
<1> QED BY <1>1, <1>2, <1>3, <1>4, <1>5, <1>6, <1>7, <1>8, <1>9, <1>10, <1>11, <1>12, <1>13, <1>14, <1>15,
           <1>16, Zenon DEF ManagerNext, LuaStep

\* The invariant of the client manager, for every number of slots,
\* connections and packets.
THEOREM ClientInvariance == ManagerSpec => []ClientInv
<1>1. ClientInv /\ [ManagerNext]_manager_vars => ClientInv'
  BY ManagerNextInv, Zenon
<1> QED BY InitClient, <1>1, PTL DEF ManagerSpec

\* close_client and accept_client neither lose a slot of the container nor
\* give one to two clients, whichever callbacks free clients.
THEOREM SlotsAreOwned == ManagerSpec => []SlotsOwned
<1>1. ClientInv => SlotsOwned
  BY DEF ClientInv
<1> QED BY <1>1, ClientInvariance, PTL

\* error_happen calls close_func at most once for a client.
THEOREM ReportedAtMostOnce == ManagerSpec => []ReportedOnce
<1>1. ClientInv => ReportedOnce
  BY DEF ClientInv
<1> QED BY <1>1, ClientInvariance, PTL

\* read_complete hands no packet to data_func after the client is closed.
THEOREM NoLatePacket == ManagerSpec => []NothingLate
<1>1. ClientInv => NothingLate
  BY DEF ClientInv
<1> QED BY <1>1, ClientInvariance, PTL

-----------------------------------------------------------------------------
\* Ids pass through get_client unchanged until the index outgrows an int.
LEMMA IdsFit ==
  ASSUME ClientInv, index * MaxOffset <= IntMod, NEW id \in accepted
  PROVE  LuaId(id) = id
<1>1. id \in Nat /\ IntMod \in Nat \ {0} /\ index * MaxOffset \in Nat
  BY ClientAssumption DEF ClientInv, ManagerTypeOK
<1>2. id < IntMod
  BY <1>1 DEF ClientInv, LiveIds
<1>3. id % IntMod = id
  BY <1>1, <1>2
<1> QED BY <1>3 DEF LuaId

\* The index counts the connections: it never goes back.
LEMMA IndexGrows ==
  ASSUME ClientInv, [ManagerNext]_manager_vars, index' * MaxOffset <= IntMod
  PROVE  index * MaxOffset <= IntMod
<1>1. index \in Nat /\ MaxOffset \in Nat /\ IntMod \in Nat
  BY ClientAssumption, Zenon DEF ClientInv, ManagerTypeOK
<1>2. index' = index \/ index' = index + 1
  BY Zenon DEF ManagerNext, LuaStep, Accept, Reject, OtherEvent, Release, PeerSend, PeerClose, ReadEvent, ReadFails, TimeoutFreq,
         Timeout, WriteDrained, WriteFails, GoodPacket, BadPacket, ReadDone, ReadFreed, TimeoutFreed, CloseNow,
         CloseGrace, Send, Listen, Return, manager_vars
<1>3. (index + 1) * MaxOffset = index * MaxOffset + MaxOffset /\ index * MaxOffset \in Nat
  BY <1>1
<1>4. CASE index' = index
  BY <1>4
<1>5. CASE index' = index + 1
  BY <1>1, <1>3, <1>5
<1> QED BY <1>2, <1>4, <1>5, Zenon

\* Only get_client can find the wrong client.
LEMMA MisnamedOnlyByLua ==
  ASSUME ClientInv, [ManagerNext]_manager_vars, index * MaxOffset <= IntMod, misnamed = {}
  PROVE  misnamed' = {}
<1>1. ASSUME NEW id \in accepted, NEW s \in Slot, CloseNow(id, s) \/ CloseGrace(id, s) \/ Send(id, s)
      PROVE  misnamed' = {}
  <2>1. GetClient(id, s)
    BY <1>1 DEF CloseNow, CloseGrace, Send
  <2>2. mgr[s].id = id
    BY <2>1, IdsFit DEF GetClient
  <2> QED BY <2>1, <2>2 DEF GetClient
<1>2. CASE ~ \E id \in accepted, s \in Slot : CloseNow(id, s) \/ CloseGrace(id, s) \/ Send(id, s)
  <2>1. misnamed' = misnamed
    BY <1>2, Zenon DEF ManagerNext, LuaStep, Accept, Reject, OtherEvent, Release, PeerSend, PeerClose, ReadEvent, ReadFails,
         TimeoutFreq, Timeout, WriteDrained, WriteFails, GoodPacket, BadPacket, ReadDone, ReadFreed, TimeoutFreed,
         Listen, Return, manager_vars, history
  <2> QED BY <2>1, Zenon
<1> QED BY <1>1, <1>2

\* get_client: until index * MaxOffset outgrows an int, an id that Lua still holds
\* names its own client or none, however often the slot was given away since.
THEOREM IdNamesItsClient == ManagerSpec => [](index * MaxOffset <= IntMod => NamesItsClient)
<1> DEFINE Steady == index * MaxOffset <= IntMod => NamesItsClient
<1>1. ManagerInit => Steady
  BY DEF ManagerInit, NamesItsClient
<1>2. ClientInv /\ Steady /\ [ManagerNext]_manager_vars => Steady'
  <2> SUFFICES ASSUME ClientInv, Steady, [ManagerNext]_manager_vars, index' * MaxOffset <= IntMod PROVE NamesItsClient'
    OBVIOUS
  <2>1. index * MaxOffset <= IntMod
    BY IndexGrows
  <2> QED BY <2>1, MisnamedOnlyByLua DEF NamesItsClient
<1> HIDE DEF Steady
<1>3. ManagerSpec => []Steady
  BY <1>1, <1>2, ClientInvariance, PTL DEF ManagerSpec
<1> QED BY <1>3, PTL DEF Steady

\* The ids of the clients in the container.
LiveId == {mgr[s].id : s \in Live}

\* A client that is freed or changes another field than its id adds none.
LEMMA IdsKept ==
  ASSUME ManagerTypeOK, NEW s \in Live, NEW r, mgr' = [mgr EXCEPT ![s] = r], r = NoClient \/ r.id = mgr[s].id
  PROVE  LiveId' \subseteq LiveId
<1>1. s \in Slot /\ mgr \in [Slot -> ClientRec \cup {NoClient}]
  BY DEF ManagerTypeOK, Live
<1>2. mgr'[s] = r /\ \A t \in Slot : t # s => mgr'[t] = mgr[t]
  BY <1>1
<1>3. \A t \in Live' : t \in Live /\ mgr'[t].id = mgr[t].id
  BY <1>1, <1>2 DEF Live
<1> QED BY <1>3 DEF LiveId

\* Only accept_client makes an id one of a client.
LEMMA LiveIdShrinks ==
  ASSUME ClientInv, [ManagerNext]_manager_vars, ~ Accept
  PROVE  LiveId' \subseteq LiveId
<1>t. ManagerTypeOK /\ mgr \in [Slot -> ClientRec \cup {NoClient}]
  BY DEF ClientInv, ManagerTypeOK
<1>1. CASE UNCHANGED mgr
  BY <1>1, Zenon DEF LiveId, Live
<1>2. CASE Release
  BY <1>2 DEF Release, LiveId, Live
<1>3. ASSUME NEW s \in Live, mgr' = [mgr EXCEPT ![s] = NoClient] PROVE LiveId' \subseteq LiveId
  BY <1>t, <1>3, IdsKept, Zenon
<1>4. ASSUME NEW s \in Live, NEW r, mgr' = [mgr EXCEPT ![s] = r], r.id = mgr[s].id PROVE LiveId' \subseteq LiveId
  BY <1>t, <1>4, IdsKept, Zenon
<1>5. ASSUME NEW s \in Slot, PeerSend(s, "good") \/ PeerSend(s, "bad") \/ PeerClose(s) PROVE LiveId' \subseteq LiveId
  <2>1. s \in Live /\ mgr[s] \in ClientRec
    BY <1>t, <1>5, RecFacts, Zenon DEF PeerSend, PeerClose
  <2>2. \E r : mgr' = [mgr EXCEPT ![s] = r] /\ r.id = mgr[s].id
    <3>1. ASSUME NEW p, PeerSend(s, p) PROVE mgr' = [mgr EXCEPT ![s] = [mgr[s] EXCEPT !.wire = Append(@, p)]]
      BY <1>t, <3>1 DEF PeerSend
    <3>2. ASSUME PeerClose(s) PROVE mgr' = [mgr EXCEPT ![s] = [mgr[s] EXCEPT !.gone = TRUE]]
      BY <1>t, <3>2 DEF PeerClose
    <3>3. \A x : [mgr[s] EXCEPT !.wire = x].id = mgr[s].id /\ [mgr[s] EXCEPT !.gone = x].id = mgr[s].id
      BY <2>1 DEF ClientRec
    <3> QED BY <1>5, <3>1, <3>2, <3>3, Zenon
  <2> QED BY <1>4, <2>1, <2>2, Zenon
<1>6. ASSUME NEW s \in Slot, ReadEvent(s) PROVE LiveId' \subseteq LiveId
  <2>1. s \in Live /\ mgr[s] \in ClientRec
    BY <1>t, <1>6, RecFacts DEF ReadEvent
  <2> DEFINE r == [mgr[s] EXCEPT !.execute = TRUE, !.input = @ \o mgr[s].wire, !.wire = <<>>]
  <2>2. mgr' = [mgr EXCEPT ![s] = r] /\ r.id = mgr[s].id
    BY <1>t, <1>6, <2>1, Zenon DEF ReadEvent, ClientRec
  <2> QED BY <1>4, <2>1, <2>2, Zenon
<1>7. ASSUME NEW s \in Slot, ReadFails(s) \/ TimeoutFreq(s) \/ WriteFails(s) PROVE LiveId' \subseteq LiveId
  BY <1>3, <1>7 DEF ReadFails, TimeoutFreq, WriteFails, ErrorHappen, CloseClient
<1>8. ASSUME NEW s \in Slot, Timeout(s) PROVE LiveId' \subseteq LiveId
  <2>1. s \in Live /\ mgr[s] \in ClientRec
    BY <1>t, <1>8, RecFacts DEF Timeout
  <2> DEFINE r == [mgr[s] EXCEPT !.freq = 0, !.tick = IF @ = 0 THEN 0 ELSE @ + 1]
  <2>2. mgr' = [mgr EXCEPT ![s] = NoClient] \/ mgr' = [mgr EXCEPT ![s] = r]
    BY <1>t, <1>8, <2>1, Zenon DEF Timeout, ErrorHappen, CloseClient
  <2>3. r.id = mgr[s].id
    BY <2>1 DEF ClientRec
  <2> HIDE DEF r
  <2> QED BY <1>3, <1>4, <2>1, <2>2, <2>3
<1>9. ASSUME NEW s \in Slot, WriteDrained(s) PROVE LiveId' \subseteq LiveId
  <2>1. s \in Live /\ mgr[s] \in ClientRec
    BY <1>t, <1>9, RecFacts DEF WriteDrained
  <2>2. mgr' = [mgr EXCEPT ![s] = NoClient] \/ mgr' = [mgr EXCEPT ![s] = [mgr[s] EXCEPT !.wio = FALSE]]
    BY <1>t, <1>9, <2>1 DEF WriteDrained, CloseClient
  <2>3. [mgr[s] EXCEPT !.wio = FALSE].id = mgr[s].id
    BY <2>1 DEF ClientRec
  <2> QED BY <1>3, <1>4, <2>1, <2>2, <2>3, Zenon
<1>10. CASE GoodPacket
  <2> DEFINE r == [mgr[reading] EXCEPT !.input = Tail(@), !.freq = Count(@), !.tick = 1]
  <2>1. reading \in Live /\ mgr[reading] \in ClientRec
    BY <1>t, <1>10, RecFacts DEF GoodPacket, Packet
  <2>2. mgr' = [mgr EXCEPT ![reading] = r] /\ r.id = mgr[reading].id
    BY <1>t, <1>10, <2>1, Zenon DEF GoodPacket, ClientRec
  <2> QED BY <1>4, <2>1, <2>2, Zenon
<1>11. CASE BadPacket
  BY <1>3, <1>11, Zenon DEF BadPacket, Packet, ErrorHappen, CloseClient
<1>12. CASE ReadDone
  <2>1. reading \in Live /\ mgr[reading] \in ClientRec
    BY <1>t, <1>12, RecFacts DEF ReadDone
  <2>2. mgr' = [mgr EXCEPT ![reading] = NoClient] \/ mgr' = [mgr EXCEPT ![reading] = [mgr[reading] EXCEPT !.execute = FALSE]]
    BY <1>t, <1>12, <2>1 DEF ReadDone, CloseClient
  <2>3. [mgr[reading] EXCEPT !.execute = FALSE].id = mgr[reading].id
    BY <2>1 DEF ClientRec
  <2> QED BY <1>3, <1>4, <2>1, <2>2, <2>3, Zenon
<1>13. ASSUME NEW id \in accepted, NEW s \in Slot, CloseNow(id, s) \/ CloseGrace(id, s) \/ Send(id, s)
       PROVE  LiveId' \subseteq LiveId
  <2>1. s \in Live /\ mgr[s] \in ClientRec
    BY <1>t, <1>13, RecFacts DEF CloseNow, CloseGrace, Send, GetClient
  <2> DEFINE r1 == [mgr[s] EXCEPT !.mark = TRUE]
             r2 == [mgr[s] EXCEPT !.grace = TRUE, !.rio = FALSE, !.wio = TRUE]
             r3 == [mgr[s] EXCEPT !.wio = TRUE]
  <2>2. CloseNow(id, s) => mgr' = [mgr EXCEPT ![s] = NoClient] \/ mgr' = [mgr EXCEPT ![s] = r1]
    BY <1>t, <2>1 DEF CloseNow, CloseClient
  <2>3. CloseGrace(id, s) => mgr' = [mgr EXCEPT ![s] = r2]
    BY <1>t, <2>1, Zenon DEF CloseGrace
  <2>4. Send(id, s) => mgr' = [mgr EXCEPT ![s] = NoClient] \/ mgr' = [mgr EXCEPT ![s] = r3]
    BY <1>t, <2>1 DEF Send, ErrorHappen, CloseClient
  <2>5. r1.id = mgr[s].id /\ r2.id = mgr[s].id /\ r3.id = mgr[s].id
    BY <2>1 DEF ClientRec
  <2> HIDE DEF r1, r2, r3
  <2> QED BY <1>3, <1>4, <1>13, <2>1, <2>2, <2>3, <2>4, <2>5
<1>14. Reject \/ OtherEvent \/ ReadFreed \/ TimeoutFreed \/ Listen \/ Return \/ UNCHANGED manager_vars => UNCHANGED mgr
  BY DEF Reject, OtherEvent, ReadFreed, TimeoutFreed, Listen, Return, manager_vars, container
<1> QED BY <1>1, <1>2, <1>5, <1>6, <1>7, <1>8, <1>9, <1>10, <1>11, <1>12, <1>13, <1>14 DEF ManagerNext, LuaStep

\* accept_client gives every connection an id of its own: one that was freed, by
\* whichever path, is never that of a client again.
THEOREM FreedIdsStayFree == ManagerSpec => [][\A id \in accepted \ LiveId : id \notin LiveId']_manager_vars
<1>1. ASSUME ClientInv, [ManagerNext]_manager_vars PROVE \A id \in accepted \ LiveId : id \notin LiveId'
  <2>1. CASE ~ Accept
    BY <1>1, <2>1, LiveIdShrinks
  <2>2. CASE Accept
    <3> DEFINE s == Head(freelist)
               new == index * MaxOffset + s
    <3>1. mgr \in [Slot -> ClientRec \cup {NoClient}] /\ freelist \in Seq(Slot) /\ freelist # <<>> /\ index \in Nat
      BY <1>1, <2>2 DEF ClientInv, ManagerTypeOK, Accept
    <3>2. s \in Slot /\ s \in Nat /\ index * MaxOffset \in Nat
      BY <3>1, ClientAssumption DEF Slot
    <3>3. mgr' = [mgr EXCEPT ![s] = Client(new)]
      BY <2>2, Zenon DEF Accept
    <3>4. new \notin accepted
      BY <1>1, <3>2 DEF ClientInv, LiveIds, ManagerTypeOK
    <3>5. \A t \in Slot : (t = s /\ mgr'[t].id = new) \/ mgr'[t] = mgr[t]
      BY <3>1, <3>2, <3>3, Zenon DEF Client
    <3> HIDE DEF s, new
    <3> QED BY <3>4, <3>5 DEF LiveId, Live
  <2> QED BY <2>1, <2>2
<1> QED BY <1>1, ClientInvariance, PTL DEF ManagerSpec
=============================================================================
