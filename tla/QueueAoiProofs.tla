--------------------------- MODULE QueueAoiProofs ---------------------------
(***************************************************************************)
(* For any number of producers, any messages and rings of any initial      *)
(* size: the queue of MessageQueue is safe and implements Fifo.            *)
(*                                                                         *)
(* The views of the area of interest are exact for every size of scene,    *)
(* tile and range, any number of fighters and any assignment of levels.    *)
(* The views follow the lists, and the lists follow the positions because  *)
(* an object is always in one list, the one of its tile and its level.     *)
(***************************************************************************)
EXTENDS MessageQueue, FastAoi, TLAPS

-----------------------------------------------------------------------------
(* the queue of a worker *)

\* the slot that holds the i-th message of ring q, counted from the head
Slot(q, i) == IF head[q] + i < cap[q] THEN head[q] + i ELSE head[q] + i - cap[q]

\* ring q holds the pushes that follow the first n
Holds(q, n) ==
  /\ n + Count(q) <= Len(pushed)
  /\ \A i \in Nat : i < Count(q) => message[q][Slot(q, i)] = pushed[n + i + 1]

\* who may be between lock and unlock, and what a producer there has done
LockInv ==
  /\ SeparateRings
  /\ rpc = "swap" => locked
  /\ \A p \in Producer :
       /\ pc[p] # "idle" => locked
       /\ pc[p] \in {"store", "advance"} => arg[p] \in Msg
       /\ pc[p] = "advance" => message[writer][tail[writer]] = arg[p]

\* where the reader is and what its pointer points to
ReaderInv ==
  /\ rpc \in {"lock", "swap"} => head[reader] = tail[reader]
  /\ rpc = "use" => /\ held.q = reader
                    /\ held.block = block[reader]
                    /\ held.slot < cap[reader]
                    /\ Len(popped) < Len(pushed)
                    /\ message[reader][held.slot] = pushed[Len(popped) + 1]

\* the two rings hold what was pushed and not taken, the reader's ring first
ContentsInv ==
  /\ Holds(reader, Len(popped) + InFlight)
  /\ Holds(writer, Len(popped) + InFlight + Count(reader))

IInv ==
  /\ TypeOK
  /\ LockInv
  /\ ReaderInv
  /\ ContentsInv
  /\ NothingLost
  /\ FifoOrder
  /\ OverloadMarked

-----------------------------------------------------------------------------
\* Indices of the copy loop in queue_push: % cap is a single wrap-around.
LEMMA ModSlot ==
  ASSUME NEW h \in Nat, NEW i \in Nat, NEW c \in Nat \ {0}, h < c, i < c
  PROVE  (h + i) % c = IF h + i < c THEN h + i ELSE h + i - c
<1>1. CASE h + i < c
  <2>1. ASSUME NEW a \in Nat, a < c PROVE a % c = a
    BY <2>1, SMT
  <2> QED BY <1>1, <2>1
<1>2. CASE h + i >= c
  <2>1. ASSUME NEW a \in Nat, c <= a, a < 2 * c PROVE a % c = a - c
    BY <2>1, SMT
  <2> QED BY <1>2, <2>1
<1> QED BY <1>1, <1>2

\* A ring is never read as full: its length is below its capacity, and zero
\* exactly when head and tail meet.
LEMMA LengthRange ==
  ASSUME NEW h \in Nat, NEW t \in Nat, NEW c \in Nat \ {0}, h < c, t < c
  PROVE  /\ Length(h, t, c) \in Nat
         /\ Length(h, t, c) < c
         /\ Length(h, t, c) = 0 <=> h = t
BY DEF Length

\* The slot at the tail is free: no message of the ring is stored there, and
\* the slots of different messages differ.
LEMMA FreeSlot ==
  ASSUME NEW h \in Nat, NEW t \in Nat, NEW c \in Nat \ {0}, h < c, t < c,
         NEW i \in Nat, i < Length(h, t, c)
  PROVE  (IF h + i < c THEN h + i ELSE h + i - c) # t
BY DEF Length

\* The number of messages in a ring.
LEMMA CountType ==
  ASSUME TypeOK, NEW q \in Ring
  PROVE  /\ Count(q) \in Nat
         /\ Count(q) < cap[q]
         /\ Count(q) = 0 <=> head[q] = tail[q]
BY LengthRange, Zenon DEF TypeOK, Count

\* The types of the histories.
LEMMA HistoryType ==
  ASSUME TypeOK
  PROVE  /\ pushed \in Seq(Msg) /\ Len(pushed) \in Nat
         /\ popped \in Seq(Msg) /\ Len(popped) \in Nat
<1>1. pushed \in Seq(Msg) /\ popped \in Seq(Msg)
  BY DEF TypeOK
<1> QED BY <1>1

\* The two ends are different rings.
LEMMA EndsType ==
  ASSUME IInv
  PROVE  reader \in Ring /\ writer \in Ring /\ reader # writer
BY DEF IInv, TypeOK, LockInv, SeparateRings

\* The slot at the tail is the one after the last message.
LEMMA TailSlot ==
  ASSUME NEW h \in Nat, NEW t \in Nat, NEW c \in Nat \ {0}, h < c, t < c
  PROVE  (IF h + Length(h, t, c) < c THEN h + Length(h, t, c)
          ELSE h + Length(h, t, c) - c) = t
BY DEF Length

\* What ++tail does to the length, and when it fills the ring.
LEMMA StepLength ==
  ASSUME NEW h \in Nat, NEW t \in Nat, NEW c \in Nat \ {0}, h < c, t < c
  PROVE  /\ Step(t, c) \in Nat
         /\ Step(t, c) < c
         /\ h # Step(t, c) => Length(h, Step(t, c), c) = Length(h, t, c) + 1
         /\ h = Step(t, c) => Length(h, t, c) + 1 = c
BY DEF Length, Step

\* What head++ does to a ring that is not empty.
LEMMA TakeLength ==
  ASSUME NEW h \in Nat, NEW t \in Nat, NEW c \in Nat \ {0}, h < c, t < c, h # t
  PROVE  /\ Step(h, c) \in Nat
         /\ Step(h, c) < c
         /\ Length(Step(h, c), t, c) + 1 = Length(h, t, c)
BY DEF Length, Step

\* queue_create establishes the invariant.
LEMMA InitInv == Init => IInv
<1> SUFFICES ASSUME Init PROVE IInv
  OBVIOUS
<1> USE QueueAssumption DEF Init, Ring
<1>1. TypeOK
  <2>1. /\ head \in [Ring -> Nat] /\ tail \in [Ring -> Nat] /\ cap \in [Ring -> Nat \ {0}]
        /\ block \in [Ring -> Nat] /\ threshold \in [Ring -> Nat \ {0}]
        /\ reader \in Ring /\ writer \in Ring
    OBVIOUS
  <2>2. /\ overload \in [Ring -> BOOLEAN] /\ locked \in BOOLEAN
    BY Zenon
  <2>3. \A q \in Ring : /\ head[q] < cap[q]
                        /\ tail[q] < cap[q]
                        /\ message[q] \in [0 .. cap[q] - 1 -> Msg \cup {NoMsg}]
    OBVIOUS
  <2>4. /\ DOMAIN message = Ring
        /\ pc \in [Producer -> {"idle", "store", "advance", "unlock"}]
        /\ arg \in [Producer -> Msg \cup {NoMsg}]
        /\ rpc \in {"pop", "lock", "swap", "retry", "use"}
        /\ held \in [q : Ring, slot : Nat, block : Nat]
    OBVIOUS
  <2>5. pushed \in Seq(Msg) /\ popped \in Seq(Msg) /\ answer \in Msg \cup {NoMsg}
    OBVIOUS
  <2> QED BY ONLY <2>1, <2>2, <2>3, <2>4, <2>5, Zenon DEF TypeOK
<1>2. \A q \in Ring : Count(q) = 0
  BY DEF Count, Length
<1>3. LockInv
  BY DEF LockInv, SeparateRings
<1>4. ReaderInv
  BY DEF ReaderInv
<1>5. InFlight = 0 /\ Len(popped) = 0 /\ Len(pushed) = 0
  BY DEF InFlight
<1>6. ContentsInv
  BY <1>2, <1>5 DEF ContentsInv, Holds
<1>7. NothingLost
  BY <1>2, <1>5 DEF NothingLost
<1>8. FifoOrder
  BY <1>5 DEF FifoOrder
<1>9. OverloadMarked
  BY <1>2 DEF OverloadMarked
<1> QED BY <1>1, <1>3, <1>4, <1>6, <1>7, <1>8, <1>9 DEF IInv

\* Taking the lock: nobody else is between lock and unlock.
LEMMA PushLockInv ==
  ASSUME IInv, NEW p \in Producer, NEW m \in Msg, PushLock(p, m)
  PROVE  IInv'
<1> USE DEF IInv, PushLock, ring, limits, ends, history
<1>1. TypeOK'
  <2>1. locked' \in BOOLEAN /\ overload' \in [Ring -> BOOLEAN]
    BY Zenon DEF TypeOK
  <2> QED BY <2>1, Zenon DEF TypeOK
<1>2. LockInv'
  BY Zenon DEF LockInv, SeparateRings, TypeOK
<1>3. ReaderInv'
  BY DEF ReaderInv
<1>4. ContentsInv' /\ NothingLost' /\ FifoOrder' /\ OverloadMarked'
  BY DEF ContentsInv, NothingLost, FifoOrder, OverloadMarked, Holds, Slot, Count, InFlight
<1> QED BY <1>1, <1>2, <1>3, <1>4

\* Storing in the free slot at the tail leaves every occupied slot alone.
LEMMA PushStoreInv ==
  ASSUME IInv, NEW p \in Producer, PushStore(p)
  PROVE  IInv'
<1> USE DEF IInv, PushStore, limits, ends, history
<1>1. TypeOK'
  <2>1. locked' \in BOOLEAN /\ overload' \in [Ring -> BOOLEAN]
    BY Zenon DEF TypeOK
  <2>2. arg[p] \in Msg /\ writer \in Ring /\ tail[writer] < cap[writer]
    BY DEF LockInv, TypeOK
  <2>3. \A q \in Ring : message'[q] \in [0 .. cap[q] - 1 -> Msg \cup {NoMsg}]
    BY <2>2, Zenon DEF TypeOK
  <2> QED BY <2>1, <2>3, Zenon DEF TypeOK
<1>2. LockInv'
  <2>1. message'[writer][tail[writer]] = arg[p]
    <3>1. writer \in DOMAIN message /\ tail[writer] \in 0 .. cap[writer] - 1
      BY DEF TypeOK
    <3>2. DOMAIN message[writer] = 0 .. cap[writer] - 1
      BY <3>1 DEF TypeOK
    <3> QED BY <3>1, <3>2
  <2>2. \A r \in Producer : pc'[r] # "idle" => r = p
    BY DEF LockInv, SeparateRings, TypeOK
  <2> QED BY <2>1, <2>2, Zenon DEF LockInv, SeparateRings, TypeOK
<1>3. /\ \A q \in Ring : q # writer => message'[q] = message[q]
      /\ \A i : i # tail[writer] => message'[writer][i] = message[writer][i]
  BY DEF TypeOK
<1>4. reader # writer /\ reader \in Ring /\ writer \in Ring
  BY DEF LockInv, SeparateRings, TypeOK
<1>5. ReaderInv'
  BY <1>3, <1>4 DEF ReaderInv
<1>6. \A i \in Nat : i < Count(writer) => Slot(writer, i) # tail[writer]
  BY <1>4, FreeSlot, Zenon DEF Count, Slot, TypeOK
<1>7. ContentsInv'
  BY <1>3, <1>4, <1>6 DEF ContentsInv, Holds, Slot, Count, InFlight
<1>8. NothingLost' /\ FifoOrder' /\ OverloadMarked'
  BY DEF NothingLost, FifoOrder, OverloadMarked, Count, InFlight
<1> QED BY <1>1, <1>2, <1>5, <1>7, <1>8

\* PushUnlock keeps IInv.
LEMMA PushUnlockInv ==
  ASSUME IInv, NEW p \in Producer, PushUnlock(p)
  PROVE  IInv'
<1> USE DEF IInv, PushUnlock, ring, limits, ends, history
<1>1. TypeOK'
  <2>1. locked' \in BOOLEAN /\ overload' \in [Ring -> BOOLEAN]
    BY Zenon DEF TypeOK
  <2> QED BY <2>1, Zenon DEF TypeOK
<1>2. LockInv'
  BY Zenon DEF LockInv, SeparateRings, TypeOK
<1>3. ReaderInv'
  BY DEF ReaderInv
<1>4. ContentsInv' /\ NothingLost' /\ FifoOrder' /\ OverloadMarked'
  BY DEF ContentsInv, NothingLost, FifoOrder, OverloadMarked, Holds, Slot, Count, InFlight
<1> QED BY <1>1, <1>2, <1>3, <1>4

\* Advancing the tail adds the stored message at the end of the writer's
\* ring, whether or not the ring had to grow.
LEMMA PushAdvanceInv ==
  ASSUME IInv, NEW p \in Producer, PushAdvance(p)
  PROVE  IInv'
<1> DEFINE w == writer
           h == head[w]
           t == tail[w]
           c == cap[w]
           n == Count(w)
<1> USE DEF IInv
<1>1. /\ w \in Ring /\ reader \in Ring /\ reader # w
      /\ h \in Nat /\ t \in Nat /\ c \in Nat \ {0} /\ h < c /\ t < c
      /\ DOMAIN message = Ring
      /\ message[w] \in [0 .. c - 1 -> Msg \cup {NoMsg}]
      /\ n \in Nat /\ n = Length(h, t, c)
  BY LengthRange, Zenon DEF TypeOK, LockInv, SeparateRings, Count
<1>2. arg[p] \in Msg /\ message[w][t] = arg[p] /\ pushed \in Seq(Msg)
  BY DEF LockInv, TypeOK, PushAdvance
<1>3. /\ pushed' = Append(pushed, arg[p])
      /\ pushed' \in Seq(Msg)
      /\ Len(pushed') = Len(pushed) + 1
      /\ \A k \in 1 .. Len(pushed) : pushed'[k] = pushed[k]
      /\ pushed'[Len(pushed) + 1] = arg[p]
      /\ Len(pushed) \in Nat
  BY <1>2 DEF PushAdvance
<1>4. /\ UNCHANGED <<reader, writer, locked, arg, rpc, held, popped, answer>>
      /\ pc' = [pc EXCEPT ![p] = "unlock"]
  BY DEF PushAdvance, ends
<1>5. \A q \in Ring : q # w =>
         /\ head'[q] = head[q] /\ tail'[q] = tail[q] /\ cap'[q] = cap[q]
         /\ message'[q] = message[q] /\ block'[q] = block[q]
  BY Zenon DEF PushAdvance, Advance, TypeOK
<1>6. /\ head' \in [Ring -> Nat] /\ tail' \in [Ring -> Nat]
      /\ cap' \in [Ring -> Nat \ {0}] /\ block' \in [Ring -> Nat]
      /\ DOMAIN message' = Ring
      /\ head'[w] < cap'[w] /\ tail'[w] < cap'[w]
      /\ message'[w] \in [0 .. cap'[w] - 1 -> Msg \cup {NoMsg}]
      /\ Length(head'[w], tail'[w], cap'[w]) = n + 1
      /\ \A i \in Nat : i < n + 1 =>
           message'[w][(IF head'[w] + i < cap'[w] THEN head'[w] + i
                        ELSE head'[w] + i - cap'[w])]
             = IF i = n THEN arg[p] ELSE message[w][Slot(w, i)]
  <2>1. CASE h # Step(t, c)
    <3>1. /\ tail' = [tail EXCEPT ![w] = Step(t, c)]
          /\ UNCHANGED <<head, cap, message, block>>
      BY <2>1 DEF PushAdvance, Advance
    <3>2. /\ Step(t, c) \in Nat /\ Step(t, c) < c
          /\ Length(h, Step(t, c), c) = n + 1
      BY <1>1, <2>1, StepLength
    <3>3. /\ head' \in [Ring -> Nat] /\ tail' \in [Ring -> Nat]
          /\ cap' \in [Ring -> Nat \ {0}] /\ block' \in [Ring -> Nat]
          /\ head'[w] = h /\ tail'[w] = Step(t, c) /\ cap'[w] = c
          /\ message'[w] = message[w]
      BY <1>1, <3>1, <3>2, Zenon DEF TypeOK
    <3>4. message[w][(IF h + n < c THEN h + n ELSE h + n - c)] = arg[p]
      BY <1>1, <1>2, TailSlot
    <3> QED BY <1>1, <3>1, <3>2, <3>3, <3>4, Zenon DEF Slot
  <2>2. CASE h = Step(t, c)
    <3>1. /\ message' = [message EXCEPT ![w] = Grown(w)]
          /\ head' = [head EXCEPT ![w] = 0]
          /\ tail' = [tail EXCEPT ![w] = c]
          /\ cap' = [cap EXCEPT ![w] = 2 * c]
          /\ block' = [block EXCEPT ![w] = @ + 1]
      BY <2>2 DEF PushAdvance, Advance
    <3>2. n + 1 = c
      BY <1>1, <2>2, StepLength
    <3>3. /\ head' \in [Ring -> Nat] /\ tail' \in [Ring -> Nat]
          /\ cap' \in [Ring -> Nat \ {0}] /\ block' \in [Ring -> Nat]
          /\ head'[w] = 0 /\ tail'[w] = c /\ cap'[w] = 2 * c
          /\ message'[w] = Grown(w) /\ DOMAIN message' = Ring
      <4>1. 2 * c \in Nat \ {0} /\ c \in Nat
        BY <1>1
      <4>2. /\ head' \in [Ring -> Nat] /\ head'[w] = 0
            /\ tail' \in [Ring -> Nat] /\ tail'[w] = c
        BY <1>1, <3>1, <4>1, Zenon DEF TypeOK
      <4>3. cap' \in [Ring -> Nat \ {0}] /\ cap'[w] = 2 * c
        BY <1>1, <3>1, <4>1 DEF TypeOK
      <4>4. block' \in [Ring -> Nat]
        <5>1. block \in [Ring -> Nat]
          BY Zenon DEF TypeOK
        <5>2. block[w] \in Nat
          BY <1>1, <5>1
        <5>3. block[w] + 1 \in Nat
          BY <5>2
        <5> QED BY <1>1, <3>1, <5>1, <5>3
      <4>5. message'[w] = Grown(w) /\ DOMAIN message' = Ring
        BY <1>1, <3>1
      <4> QED BY <4>2, <4>3, <4>4, <4>5
    <3>4. \A i \in Nat : i < c => /\ (h + i) % c = Slot(w, i)
                                  /\ Slot(w, i) \in 0 .. c - 1
      <4> SUFFICES ASSUME NEW i \in Nat, i < c
                   PROVE  (h + i) % c = Slot(w, i) /\ Slot(w, i) \in 0 .. c - 1
        OBVIOUS
      <4>1. (h + i) % c = IF h + i < c THEN h + i ELSE h + i - c
        BY <1>1, ModSlot, Zenon
      <4>2. Slot(w, i) = IF h + i < c THEN h + i ELSE h + i - c
        BY DEF Slot
      <4>3. (IF h + i < c THEN h + i ELSE h + i - c) \in 0 .. c - 1
        BY <1>1
      <4> QED BY <4>1, <4>2, <4>3
    <3>5. /\ Grown(w) \in [0 .. 2 * c - 1 -> Msg \cup {NoMsg}]
          /\ \A i \in Nat : i < c => Grown(w)[i] = message[w][Slot(w, i)]
      <4>1. \A i \in 0 .. 2 * c - 1 :
               Grown(w)[i] = IF i < c THEN message[w][(h + i) % c] ELSE NoMsg
        BY DEF Grown
      <4>2. ASSUME NEW i \in Nat, i < c PROVE Grown(w)[i] = message[w][Slot(w, i)]
        <5>1. i \in 0 .. 2 * c - 1
          BY <1>1, <4>2
        <5> QED BY <3>4, <4>1, <4>2, <5>1
      <4>3. \A i \in 0 .. 2 * c - 1 :
               (IF i < c THEN message[w][(h + i) % c] ELSE NoMsg) \in Msg \cup {NoMsg}
        BY <1>1, <3>4
      <4>4. Grown(w) \in [0 .. 2 * c - 1 -> Msg \cup {NoMsg}]
        BY <4>3 DEF Grown
      <4> QED BY <4>2, <4>4
    <3>6. Slot(w, n) = t
      BY <1>1, TailSlot DEF Slot
    <3>7. Length(0, c, 2 * c) = n + 1
      BY <1>1, <3>2 DEF Length
    <3>8. head'[w] < cap'[w] /\ tail'[w] < cap'[w]
      BY <1>1, <3>3
    <3>9. ASSUME NEW i \in Nat, i < n + 1
          PROVE  message'[w][(IF head'[w] + i < cap'[w] THEN head'[w] + i
                              ELSE head'[w] + i - cap'[w])]
                   = IF i = n THEN arg[p] ELSE message[w][Slot(w, i)]
      <4>1. (IF head'[w] + i < cap'[w] THEN head'[w] + i ELSE head'[w] + i - cap'[w]) = i
        BY <1>1, <3>2, <3>3, <3>9
      <4>2. message'[w][i] = message[w][Slot(w, i)]
        BY <1>1, <3>2, <3>3, <3>5, <3>9, Zenon
      <4> QED BY <1>2, <3>6, <4>1, <4>2
    <3> QED BY <3>3, <3>5, <3>7, <3>8, <3>9
  <2> QED BY <2>1, <2>2, Zenon
<1>7. Count(w)' = n + 1 /\ Count(reader)' = Count(reader)
  BY <1>1, <1>4, <1>5, <1>6, Zenon DEF Count
<1>8. /\ threshold' \in [Ring -> Nat \ {0}]
      /\ threshold'[reader] = threshold[reader]
      /\ n + 1 < threshold'[w]
  <2>1. n < threshold[w] /\ threshold \in [Ring -> Nat \ {0}]
    BY <1>1 DEF OverloadMarked, TypeOK
  <2>2. CASE n + 1 >= threshold[w]
    <3>1. threshold' = [threshold EXCEPT ![w] = 2 * threshold[w]]
      BY <1>6, <2>2 DEF PushAdvance, CheckOverload
    <3> QED BY <1>1, <2>1, <3>1
  <2>3. CASE ~ (n + 1 >= threshold[w])
    <3>1. threshold' = threshold
      BY <1>6, <2>3 DEF PushAdvance, CheckOverload, limits
    <3> QED BY <1>1, <2>1, <2>3, <3>1
  <2> QED BY <2>2, <2>3
<1>9. overload' \in [Ring -> BOOLEAN] /\ locked' \in BOOLEAN
  BY <1>4, Zenon DEF PushAdvance, CheckOverload, limits, TypeOK
<1>10. TypeOK'
  <2>1. \A q \in Ring : /\ head'[q] < cap'[q]
                        /\ tail'[q] < cap'[q]
                        /\ message'[q] \in [0 .. cap'[q] - 1 -> Msg \cup {NoMsg}]
    BY <1>5, <1>6, Zenon DEF TypeOK
  <2> QED BY <1>3, <1>4, <1>6, <1>8, <1>9, <2>1, Zenon DEF TypeOK
<1>11. LockInv'
  <2>1. \A r \in Producer : pc'[r] # "idle" => r = p
    BY <1>4 DEF LockInv, SeparateRings, TypeOK, PushAdvance
  <2>2. pc'[p] = "unlock" /\ pc[p] = "advance"
    BY <1>4 DEF TypeOK, PushAdvance
  <2>3. locked /\ rpc # "swap"
    BY <2>2, Zenon DEF LockInv, SeparateRings
  <2> QED BY <1>1, <1>4, <2>1, <2>2, <2>3, Zenon DEF LockInv, SeparateRings
<1>12. popped \in Seq(Msg) /\ Len(popped) \in Nat /\ InFlight \in Nat /\ InFlight' = InFlight
  BY <1>4 DEF TypeOK, InFlight
<1>13. ReaderInv'
  BY <1>1, <1>3, <1>4, <1>5, <1>12 DEF ReaderInv
<1>14. NothingLost'
  BY <1>3, <1>4, <1>7, <1>12, CountType, <1>1 DEF NothingLost
<1>15. FifoOrder'
  BY <1>3, <1>4, <1>12 DEF FifoOrder
<1>16. OverloadMarked'
  BY <1>1, <1>4, <1>7, <1>8 DEF OverloadMarked, Ring
<1>17. ContentsInv'
  <2>0. Count(reader) \in Nat /\ Len(popped) + InFlight + Count(reader) + n = Len(pushed)
    BY <1>1, CountType, Zenon DEF NothingLost
  <2>1. Holds(reader, Len(popped) + InFlight)'
    <3>1. ASSUME NEW i \in Nat, i < Count(reader)
          PROVE  message'[reader][Slot(reader, i)'] = pushed'[Len(popped) + InFlight + i + 1]
      <4>1. message[reader][Slot(reader, i)] = pushed[Len(popped) + InFlight + i + 1]
        BY <3>1, Zenon DEF ContentsInv, Holds
      <4>2. Slot(reader, i)' = Slot(reader, i)
        BY <1>1, <1>4, <1>5 DEF Slot
      <4> QED BY <1>1, <1>3, <1>5, <1>12, <2>0, <3>1, <4>1, <4>2
    <3> QED BY <1>1, <1>3, <1>4, <1>7, <1>12, <2>0, <3>1 DEF Holds
  <2>2. Holds(writer, Len(popped) + InFlight + Count(reader))'
    <3>1. ASSUME NEW i \in Nat, i < n + 1
          PROVE  message'[w][Slot(w, i)'] = pushed'[Len(popped) + InFlight + Count(reader) + i + 1]
      <4>1. CASE i = n
        BY <1>3, <1>4, <1>6, <2>0, <3>1, <4>1, Zenon DEF Slot
      <4>2. CASE i < n
        <5>1. message[w][Slot(w, i)] = pushed[Len(popped) + InFlight + Count(reader) + i + 1]
          BY <4>2 DEF ContentsInv, Holds
        <5>2. message'[w][Slot(w, i)'] = message[w][Slot(w, i)]
          <6>1. Slot(w, i)' = IF head'[w] + i < cap'[w] THEN head'[w] + i
                              ELSE head'[w] + i - cap'[w]
            BY <1>4, Zenon DEF Slot
          <6> QED BY <1>1, <1>6, <3>1, <4>2, <6>1
        <5> QED BY <1>1, <1>3, <1>12, <2>0, <4>2, <5>1, <5>2
      <4> QED BY <1>1, <3>1, <4>1, <4>2
    <3>2. /\ (Len(popped) + InFlight + Count(reader))' = Len(popped) + InFlight + Count(reader)
          /\ Count(writer)' = n + 1
          /\ Len(popped) + InFlight + Count(reader) + (n + 1) <= Len(pushed')
      BY <1>1, <1>3, <1>4, <1>7, <1>12, <2>0
    <3> QED BY <1>4, <3>1, <3>2 DEF Holds
  <2> QED BY <2>1, <2>2 DEF ContentsInv
<1> QED BY <1>10, <1>11, <1>13, <1>14, <1>15, <1>16, <1>17

\* Taking the head slot moves its message from the reader's ring to its hand.
LEMMA TakeInv ==
  ASSUME IInv, rpc \in {"pop", "retry"}, Take(reader), overload' \in [Ring -> BOOLEAN],
         UNCHANGED <<tail, cap, message, block, threshold, ends, locked, sending, history>>
  PROVE  IInv'
<1> DEFINE r == reader
           h == head[r]
           t == tail[r]
           c == cap[r]
           d == Len(popped)
<1> USE DEF IInv, ends, sending, history
<1>1. /\ r \in Ring /\ writer \in Ring /\ writer # r
      /\ h \in Nat /\ t \in Nat /\ c \in Nat \ {0} /\ h < c /\ t < c /\ h # t
      /\ Count(r) = Length(h, t, c) /\ Count(r) \in Nat
      /\ Count(writer) \in Nat
      /\ d \in Nat /\ Len(pushed) \in Nat
      /\ head \in [Ring -> Nat]
      /\ r' = r
  <2>1. /\ r \in Ring /\ writer \in Ring /\ writer # r
        /\ d \in Nat /\ Len(pushed) \in Nat
        /\ head \in [Ring -> Nat]
        /\ r' = r
    BY EndsType, HistoryType, Zenon DEF TypeOK
  <2>2. h \in Nat /\ t \in Nat /\ c \in Nat \ {0} /\ h < c /\ t < c /\ h # t
    BY <2>1 DEF TypeOK, Take
  <2>3. Count(r) = Length(h, t, c)
    BY Zenon DEF Count
  <2>4. Count(r) \in Nat /\ Count(writer) \in Nat
    BY <2>1, CountType
  <2> QED BY <2>1, <2>2, <2>3, <2>4, Zenon
<1>2. /\ head' = [head EXCEPT ![r] = Step(h, c)]
      /\ held' = [q |-> r, slot |-> h, block |-> block[r]]
      /\ rpc' = "use"
  BY Zenon DEF Take
<1>3. /\ Step(h, c) \in Nat /\ Step(h, c) < c
      /\ Length(Step(h, c), t, c) + 1 = Length(h, t, c)
  BY <1>1, TakeLength, Zenon
<1>4. /\ head' \in [Ring -> Nat] /\ head'[r] = Step(h, c)
      /\ head'[writer] = head[writer]
  BY <1>1, <1>2, <1>3, Zenon
<1>5. Count(r)' + 1 = Count(r) /\ Count(writer)' = Count(writer) /\ Count(r)' \in Nat
  <2>1. Count(r)' = Length(Step(h, c), t, c) /\ Count(writer)' = Count(writer)
    BY <1>1, <1>4, Zenon DEF Count
  <2>2. Length(Step(h, c), t, c) \in Nat
    BY <1>1, <1>3, LengthRange, Zenon
  <2> QED BY <1>1, <1>3, <2>1, <2>2, Zenon
<1>6. InFlight = 0 /\ InFlight' = 1
  BY <1>2 DEF InFlight
<1>7. TypeOK'
  <2>1. \A q \in Ring : head'[q] < cap[q]
    BY <1>1, <1>2, <1>3 DEF TypeOK
  <2>2. held' \in [q : Ring, slot : Nat, block : Nat]
    BY <1>1, <1>2, Zenon DEF TypeOK
  <2> QED BY <1>2, <1>4, <2>1, <2>2, Zenon DEF TypeOK
<1>8. LockInv'
  BY <1>2, Zenon DEF LockInv, SeparateRings
<1>9. /\ d + 0 + Count(r) <= Len(pushed)
      /\ \A i \in Nat : i < Count(r) => message[r][Slot(r, i)] = pushed[d + i + 1]
  BY <1>1, <1>6 DEF ContentsInv, Holds
<1>10. ReaderInv'
  <2>1. message[r][Slot(r, 0)] = pushed[d + 1]
    <3>1. 0 < Count(r) /\ d + 0 + 1 = d + 1
      BY <1>1, <1>5
    <3> QED BY <1>9, <3>1, Zenon
  <2>2. Slot(r, 0) = h /\ d < Len(pushed)
    BY <1>1, <1>5, <1>9 DEF Slot
  <2> QED BY <1>1, <1>2, <2>1, <2>2, Zenon DEF ReaderInv
<1>11. ContentsInv'
  <2>1. Holds(reader, Len(popped) + InFlight)'
    <3>1. ASSUME NEW i \in Nat, i < Count(r)'
          PROVE  message[r][Slot(r, i)'] = pushed[d + 1 + i + 1]
      <4>1. message[r][Slot(r, i + 1)] = pushed[d + (i + 1) + 1]
        <5>1. i + 1 \in Nat /\ i + 1 < Count(r)
          BY <1>1, <1>5, <3>1
        <5> QED BY <1>9, <5>1, Zenon
      <4>2. Slot(r, i)' = IF Step(h, c) + i < c THEN Step(h, c) + i ELSE Step(h, c) + i - c
        BY <1>1, <1>4 DEF Slot
      <4>3. Slot(r, i + 1) = IF h + (i + 1) < c THEN h + (i + 1) ELSE h + (i + 1) - c
        BY Zenon DEF Slot
      <4>4. i + 1 < c
        <5>1. Length(h, t, c) < c
          BY <1>1, LengthRange, Zenon
        <5> QED BY <1>1, <1>5, <3>1, <5>1
      <4>5. Slot(r, i)' = Slot(r, i + 1)
        BY <1>1, <4>2, <4>3, <4>4 DEF Step
      <4>6. d + (i + 1) + 1 = d + 1 + i + 1
        BY <1>1
      <4> QED BY <4>1, <4>5, <4>6
    <3>2. d + 1 + Count(r)' <= Len(pushed)
      BY <1>1, <1>5, <1>9
    <3> QED BY <1>1, <1>6, <3>1, <3>2 DEF Holds
  <2>2. Holds(writer, Len(popped) + InFlight + Count(reader))'
    <3>1. \A i \in Nat : Slot(writer, i)' = Slot(writer, i)
      BY <1>4, Zenon DEF Slot
    <3>2. (Len(popped) + InFlight + Count(reader))' = Len(popped) + InFlight + Count(reader)
      BY <1>1, <1>5, <1>6
    <3> QED BY <1>5, <3>1, <3>2, Zenon DEF ContentsInv, Holds
  <2> QED BY <2>1, <2>2 DEF ContentsInv
<1>12. NothingLost'
  BY <1>1, <1>5, <1>6 DEF NothingLost
<1>13. FifoOrder'
  BY DEF FifoOrder
<1>14. OverloadMarked'
  <2>1. threshold \in [Ring -> Nat \ {0}]
    BY DEF TypeOK
  <2> QED BY <1>1, <1>5, <2>1 DEF OverloadMarked, Ring
<1> QED BY <1>7, <1>8, <1>10, <1>11, <1>12, <1>13, <1>14

\* PopTake keeps IInv.
LEMMA PopTakeInv ==
  ASSUME IInv, PopTake
  PROVE  IInv'
<1>1. overload' \in [Ring -> BOOLEAN]
  BY DEF IInv, TypeOK, PopTake, Report
<1> QED BY <1>1, TakeInv DEF PopTake

\* PopRetryTake keeps IInv.
LEMMA PopRetryTakeInv ==
  ASSUME IInv, PopRetryTake
  PROVE  IInv'
<1>1. overload' \in [Ring -> BOOLEAN]
  BY DEF IInv, TypeOK, PopRetryTake, limits
<1> QED BY <1>1, TakeInv, Zenon DEF PopRetryTake, limits

\* PopMiss keeps IInv.
LEMMA PopMissInv ==
  ASSUME IInv, PopMiss
  PROVE  IInv'
<1> USE DEF IInv, PopMiss, ring, ends, sending, history
<1>1. TypeOK'
  <2>1. locked' \in BOOLEAN /\ overload' \in [Ring -> BOOLEAN]
    BY DEF TypeOK, Report
  <2> QED BY <2>1, Zenon DEF TypeOK
<1>2. LockInv'
  BY DEF LockInv, SeparateRings
<1>3. ReaderInv'
  BY Zenon DEF ReaderInv
<1>4. ContentsInv' /\ NothingLost' /\ FifoOrder' /\ OverloadMarked'
  BY DEF ContentsInv, NothingLost, FifoOrder, OverloadMarked, Holds, Slot, Count, InFlight
<1> QED BY <1>1, <1>2, <1>3, <1>4, Zenon

\* PopLock keeps IInv.
LEMMA PopLockInv ==
  ASSUME IInv, PopLock
  PROVE  IInv'
<1> USE DEF IInv, PopLock, ring, limits, ends, sending, history
<1>1. TypeOK'
  <2>1. locked' \in BOOLEAN /\ overload' \in [Ring -> BOOLEAN]
    BY Zenon DEF TypeOK
  <2> QED BY <2>1, Zenon DEF TypeOK
<1>2. LockInv'
  BY DEF LockInv, SeparateRings
<1>3. ReaderInv'
  BY DEF ReaderInv
<1>4. ContentsInv' /\ NothingLost' /\ FifoOrder' /\ OverloadMarked'
  BY DEF ContentsInv, NothingLost, FifoOrder, OverloadMarked, Holds, Slot, Count, InFlight
<1> QED BY <1>1, <1>2, <1>3, <1>4, Zenon

\* Exchanging the rings when the reader's is empty keeps the order: what the
\* writer's ring held is now next, and nothing stands behind it.
LEMMA PopSwapInv ==
  ASSUME IInv, PopSwap
  PROVE  IInv'
<1> USE DEF IInv, PopSwap, ring, limits, sending
<1>1. reader' = writer /\ writer' = reader /\ reader \in Ring /\ writer \in Ring
  BY EndsType DEF Ring
<1>2. TypeOK'
  <2>1. locked' \in BOOLEAN /\ overload' \in [Ring -> BOOLEAN]
    BY Zenon DEF TypeOK
  <2> QED BY <1>1, <2>1, Zenon DEF TypeOK
<1>3. LockInv'
  BY <1>1, Zenon DEF LockInv, SeparateRings, TypeOK
<1>4. ReaderInv'
  BY DEF ReaderInv
<1>5. /\ Count(reader) = 0 /\ Count(writer) \in Nat
      /\ Count(reader)' = Count(writer) /\ Count(writer)' = Count(reader)
      /\ InFlight = 0 /\ InFlight' = 0
      /\ Len(popped) \in Nat /\ Len(pushed) \in Nat
  <2>1. Count(reader) = 0 /\ Count(writer) \in Nat
    BY <1>1, CountType, Zenon DEF ReaderInv
  <2>2. Count(reader)' = Count(writer) /\ Count(writer)' = Count(reader)
    BY <1>1 DEF Count
  <2> QED BY <2>1, <2>2, HistoryType DEF InFlight
<1>6. NothingLost'
  BY <1>5 DEF NothingLost
<1>7. ContentsInv'
  <2>1. Holds(writer, Len(popped))
    BY <1>5 DEF ContentsInv
  <2>2. Holds(reader, Len(popped) + InFlight)'
    <3>1. (Len(popped) + InFlight)' = Len(popped)
      BY <1>5
    <3>2. \A i \in Nat : Slot(reader, i)' = Slot(writer, i)
      BY <1>1 DEF Slot
    <3> QED BY <1>1, <1>5, <2>1, <3>1, <3>2, Zenon DEF Holds
  <2>3. Holds(writer, Len(popped) + InFlight + Count(reader))'
    <3>1. (Len(popped) + InFlight + Count(reader))' + 0 <= Len(pushed')
      BY <1>5 DEF NothingLost
    <3> QED BY <1>5, <3>1 DEF Holds
  <2> QED BY <2>2, <2>3 DEF ContentsInv
<1>8. FifoOrder'
  BY Zenon DEF FifoOrder
<1>9. OverloadMarked'
  BY Zenon DEF OverloadMarked, Count
<1> QED BY <1>2, <1>3, <1>4, <1>6, <1>7, <1>8, <1>9, Zenon

\* PopRetryNull keeps IInv.
LEMMA PopRetryNullInv ==
  ASSUME IInv, PopRetryNull
  PROVE  IInv'
<1> USE DEF IInv, PopRetryNull, ring, limits, ends, sending, history
<1>1. TypeOK'
  BY Zenon DEF TypeOK
<1>2. LockInv'
  BY Zenon DEF LockInv, SeparateRings
<1>3. ReaderInv'
  BY DEF ReaderInv
<1>4. ContentsInv' /\ NothingLost' /\ FifoOrder' /\ OverloadMarked'
  BY Zenon DEF ContentsInv, NothingLost, FifoOrder, OverloadMarked, Holds, Slot, Count, InFlight
<1> QED BY <1>1, <1>2, <1>3, <1>4, Zenon

\* The worker reads the message that was next in push order.
LEMMA UseInv ==
  ASSUME IInv, Use
  PROVE  IInv'
<1> USE DEF IInv, Use, ring, limits, ends, sending
<1>1. /\ Len(popped) < Len(pushed)
      /\ answer' = pushed[Len(popped) + 1]
      /\ popped \in Seq(Msg) /\ pushed \in Seq(Msg)
      /\ Len(popped) \in Nat /\ Len(pushed) \in Nat
  BY DEF ReaderInv, TypeOK
<1>2. answer' \in Msg
  BY <1>1
<1>3. /\ popped' \in Seq(Msg)
      /\ Len(popped') = Len(popped) + 1
      /\ \A k \in 1 .. Len(popped) : popped'[k] = popped[k]
      /\ popped'[Len(popped) + 1] = pushed[Len(popped) + 1]
  BY <1>1, <1>2
<1>4. TypeOK'
  BY <1>2, <1>3, Zenon DEF TypeOK
<1>5. LockInv'
  BY DEF LockInv, SeparateRings
<1>6. ReaderInv'
  BY Zenon DEF ReaderInv
<1>7. InFlight = 1 /\ InFlight' = 0
  BY Zenon DEF InFlight
<1>8. Count(reader)' = Count(reader) /\ Count(writer)' = Count(writer)
  BY Zenon DEF Count
<1>9. Count(reader) \in Nat /\ Count(writer) \in Nat
  BY CountType, Zenon DEF TypeOK
<1>10. (Len(popped) + InFlight)' = Len(popped) + InFlight
  BY <1>1, <1>3, <1>7
<1>11. ContentsInv'
  BY <1>8, <1>10, Zenon DEF ContentsInv, Holds, Slot
<1>12. NothingLost'
  BY <1>8, <1>10 DEF NothingLost
<1>13. FifoOrder'
  BY <1>1, <1>3 DEF FifoOrder
<1>14. OverloadMarked'
  BY DEF OverloadMarked, Count
<1> QED BY <1>4, <1>5, <1>6, <1>11, <1>12, <1>13, <1>14, Zenon

\* Stutter keeps IInv.
LEMMA StutterInv ==
  ASSUME IInv, UNCHANGED vars
  PROVE  IInv'
BY Zenon DEF IInv, vars, ring, limits, ends, sending, history, TypeOK, LockInv, SeparateRings,
       ReaderInv, ContentsInv, Holds, Slot, Count, InFlight, NothingLost, FifoOrder, OverloadMarked

\* Every step keeps the invariant.
LEMMA NextInv == IInv /\ [Next]_vars => IInv'
<1> SUFFICES ASSUME IInv, [Next]_vars PROVE IInv'
  OBVIOUS
<1>1. CASE Pop
  BY <1>1, PopTakeInv, PopMissInv, PopLockInv, PopSwapInv, PopRetryTakeInv, PopRetryNullInv,
     UseInv DEF Pop
<1>2. ASSUME NEW p \in Producer, Push(p) PROVE IInv'
  BY <1>2, PushLockInv, PushStoreInv, PushAdvanceInv, PushUnlockInv DEF Push
<1>3. CASE UNCHANGED vars
  BY <1>3, StutterInv
<1> QED BY <1>1, <1>2, <1>3 DEF Next

\* The inductive invariant of the queue: who is between lock and unlock, what the
\* pointer of queue_pop points to, and which pushes the two rings hold.
THEOREM Invariance == Spec => []IInv
BY InitInv, NextInv, PTL DEF Spec

\* The worker receives the messages in push order, unaltered (FifoOrder).
THEOREM OrderThm == Spec => []FifoOrder
<1>1. IInv => FifoOrder
  BY DEF IInv
<1> QED BY <1>1, Invariance, PTL

\* Growing and exchanging the rings lose no message (NothingLost).
THEOREM LossThm == Spec => []NothingLost
<1>1. IInv => NothingLost
  BY DEF IInv
<1> QED BY <1>1, Invariance, PTL

\* The pointer queue_pop returns is good until the next queue_pop, although
\* the lock is not held while it is used (HeldSlotStable).
THEOREM SlotThm == Spec => []HeldSlotStable
<1>1. IInv => HeldSlotStable
  BY DEF IInv, ReaderInv, HeldSlotStable
<1> QED BY <1>1, Invariance, PTL

\* queue_push's assertion holds and the critical sections exclude each other
\* (SeparateRings).
THEOREM RingsThm == Spec => []SeparateRings
<1>1. IInv => SeparateRings
  BY DEF IInv, LockInv
<1> QED BY <1>1, Invariance, PTL

-----------------------------------------------------------------------------
\* The queue starts as an empty Fifo.
LEMMA InitFifo == Init => FifoQueue!Init
BY DEF Init, FifoQueue!Init

\* A push takes effect when its tail advances, a pop when the message is read,
\* a NULL answer when the rings are exchanged; every other step is invisible.
LEMMA NextFifo == IInv /\ [Next]_vars => [FifoQueue!Next]_(FifoQueue!vars)
<1> SUFFICES ASSUME IInv, [Next]_vars
             PROVE  FifoQueue!Next \/ UNCHANGED FifoQueue!vars
  OBVIOUS
<1> USE DEF FifoQueue!vars
<1>1. ASSUME NEW p \in Producer, PushAdvance(p) PROVE FifoQueue!Next
  <2>1. arg[p] \in Msg
    BY <1>1 DEF PushAdvance, IInv, LockInv
  <2>2. FifoQueue!Push(arg[p])
    BY <1>1 DEF PushAdvance, FifoQueue!Push
  <2> QED BY <2>1, <2>2, Zenon DEF FifoQueue!Next
<1>2. CASE Use
  <2>1. FifoQueue!Pop
    BY <1>2 DEF Use, FifoQueue!Pop, IInv, ReaderInv
  <2> QED BY <2>1 DEF FifoQueue!Next
<1>3. CASE PopSwap
  <2>1. reader' = writer /\ reader \in Ring /\ writer \in Ring
    BY <1>3, EndsType DEF PopSwap, Ring
  <2>2. CASE head[writer] = tail[writer]
    <3>1. Count(reader) = 0 /\ Count(writer) = 0
      BY <1>3, <2>1, <2>2, CountType DEF PopSwap, IInv, ReaderInv
    <3>2. InFlight = 0 /\ Len(popped) \in Nat
      BY <1>3 DEF PopSwap, InFlight, IInv, TypeOK
    <3>3. Len(popped) = Len(pushed)
      BY <3>1, <3>2 DEF IInv, NothingLost
    <3>4. FifoQueue!PopEmpty
      BY <1>3, <2>1, <2>2, <3>3 DEF PopSwap, ring, FifoQueue!PopEmpty
    <3> QED BY <3>4, Zenon DEF FifoQueue!Next
  <2>3. CASE head[writer] # tail[writer]
    BY <1>3, <2>1, <2>3 DEF PopSwap, ring
  <2> QED BY <2>2, <2>3
<1>4. ASSUME NEW p \in Producer,
             (\E m \in Msg : PushLock(p, m)) \/ PushStore(p) \/ PushUnlock(p)
      PROVE  UNCHANGED FifoQueue!vars
  BY <1>4, Zenon DEF PushLock, PushStore, PushUnlock, history
<1>5. CASE PopTake \/ PopMiss \/ PopLock \/ PopRetryTake \/ PopRetryNull \/ UNCHANGED vars
  BY <1>5 DEF PopTake, PopMiss, PopLock, PopRetryTake, PopRetryNull, vars, history
<1> QED BY <1>1, <1>2, <1>3, <1>4, <1>5 DEF Next, Pop, Push

\* The two-ring queue with its unlocked reader implements one atomic FIFO
\* queue (FifoSpec).
THEOREM RefinementThm == Spec => FifoSpec
BY InitFifo, NextFifo, Invariance, PTL DEF Spec, FifoSpec, FifoQueue!Spec

-----------------------------------------------------------------------------
(* the area of interest *)

TileOf(i) == TileAt(mgr[i].pos)

\* An object is in the list of its tile and level and in no other.
Placed ==
  \A i \in Id, t \in Tile, l \in Level :
    i \in list[t][l] <=> i \in Used /\ t = TileOf(i) /\ l = LevelOf[mgr[i].uid]

\* A fighter is in at most one slot.
OneSlot == \A i, j \in Used : mgr[i].uid = mgr[j].uid => i = j

\* A fighter who is not in the scene has nobody in view.
OutsideBlind == \A u \in Uid : u \notin Inside => view[u] = {}

\* No fighter is in its own view.
NotSelf == \A u \in Uid : u \notin view[u]

AoiInv == AoiTypeOK /\ Placed /\ OneSlot /\ OutsideBlind /\ NotSelf /\ ViewsExact

-----------------------------------------------------------------------------
\* tile_withpos never leaves the grid for a position the operations accept.
LEMMA TileInGrid == \A p \in Pos : TileAt(p) \in Tile
<1> USE AoiAssumption
<1>1. ASSUME NEW n \in Nat, NEW c \in 0 .. (n \div TileRange) * TileRange - 1
      PROVE  c \div TileRange \in 0 .. n \div TileRange - 1
  <2>1. n \div TileRange \in Nat /\ c \in Nat /\ c \div TileRange \in Nat
    OBVIOUS
  <2>2. (c \div TileRange) * TileRange <= c
    OBVIOUS
  <2>3. c < (n \div TileRange) * TileRange
    BY <2>1
  <2>4. ASSUME c \div TileRange >= n \div TileRange
        PROVE  (c \div TileRange) * TileRange >= (n \div TileRange) * TileRange
    BY <2>1, <2>4
  <2> QED BY <2>1, <2>2, <2>3, <2>4
<1>2. SUFFICES ASSUME NEW p \in Pos PROVE TileAt(p) \in Tile
  OBVIOUS
<1>3. MaxX + 1 = SceneWidth \div TileRange /\ MaxZ + 1 = SceneHeigh \div TileRange
  BY DEF MaxX, MaxZ
<1>4. /\ p.x \in 0 .. (SceneWidth \div TileRange) * TileRange - 1
      /\ p.z \in 0 .. (SceneHeigh \div TileRange) * TileRange - 1
  BY <1>3 DEF Pos
<1>5. /\ p.x \div TileRange \in 0 .. SceneWidth \div TileRange - 1
      /\ p.z \div TileRange \in 0 .. SceneHeigh \div TileRange - 1
  BY <1>1, <1>4, Zenon
<1> QED BY <1>5 DEF TileAt, Tile, MaxX, MaxZ

\* Cutting a region off at the edges of the grid loses no tile of the grid.
LEMMA RegionIsNear == \A s, t \in Tile : s \in Region(t) <=> Near(s, t)
<1> SUFFICES ASSUME NEW s \in Tile, NEW t \in Tile PROVE s \in Region(t) <=> Near(s, t)
  OBVIOUS
<1>1. ASSUME NEW max \in Int, NEW a \in 0 .. max, NEW b \in 0 .. max
      PROVE  a \in Low(b) .. High(b, max) <=> Dist(a, b) <= Range
  BY AoiAssumption DEF Low, High, Dist
<1>2. /\ s[1] \in 0 .. MaxX /\ s[2] \in 0 .. MaxZ /\ s = <<s[1], s[2]>>
      /\ t[1] \in 0 .. MaxX /\ t[2] \in 0 .. MaxZ
  BY DEF Tile
<1>3. MaxX \in Int /\ MaxZ \in Int
  BY AoiAssumption DEF MaxX, MaxZ
<1>4. s \in Region(t) <=> s[1] \in Low(t[1]) .. High(t[1], MaxX) /\ s[2] \in Low(t[2]) .. High(t[2], MaxZ)
  BY <1>2 DEF Region
<1> QED BY <1>1, <1>2, <1>3, <1>4 DEF Near

\* A region holds only tiles of the grid.
LEMMA RegionInGrid == \A t \in Tile : Region(t) \in SUBSET Tile
BY AoiAssumption DEF Region, Tile, Low, High, MaxX, MaxZ

\* Who is near is seen from near.
LEMMA NearSymmetric == \A s, t \in Tile : Near(s, t) <=> Near(t, s)
<1> SUFFICES ASSUME NEW s \in Tile, NEW t \in Tile PROVE Near(s, t) <=> Near(t, s)
  OBVIOUS
<1>1. s[1] \in Int /\ s[2] \in Int /\ t[1] \in Int /\ t[2] \in Int
  BY AoiAssumption DEF Tile, MaxX, MaxZ
<1> QED BY <1>1 DEF Near, Dist

\* What the types say of one slot.
LEMMA TypeFacts ==
  ASSUME AoiTypeOK
  PROVE  /\ \A i \in Used : /\ mgr[i] \in Object /\ mgr[i].uid \in Uid /\ mgr[i].pos \in Pos
                            /\ TileOf(i) \in Tile /\ LevelOf[mgr[i].uid] \in Level
         /\ Used \subseteq Id
<1>1. \A i \in Used : mgr[i] \in Object
  BY DEF AoiTypeOK, Used
<1>2. \A i \in Used : mgr[i].uid \in Uid /\ mgr[i].pos \in Pos
  BY <1>1, Zenon DEF Object
<1> QED BY <1>1, <1>2, TileInGrid, AoiAssumption DEF TileOf, Used

\* The slots of a table: objects on the searched tiles at the common or the own level.
LEMMA SightsAre ==
  ASSUME AoiTypeOK, Placed, NEW ms \in [Id -> Object \cup {NoObject}], NEW i \in Id,
         ms[i] \in Object, \A j \in Id \ {i} : ms[j] = mgr[j],
         NEW ls \in [Tile -> [Level -> SUBSET Id]],
         \A j \in Id \ {i}, t \in Tile, l \in Level : j \in ls[t][l] <=> j \in list[t][l],
         NEW ts \in SUBSET Tile, NEW v
  PROVE  v \in Sights(ms, ls, ts, i) <=>
           \E j \in Used \ {i} : /\ mgr[j].uid = v /\ TileOf(j) \in ts
                                 /\ LevelOf[v] \in {Common, LevelOf[ms[i].uid]}
<1> DEFINE lv == LevelOf[ms[i].uid]
           S == (UNION {ls[t][Common] \cup ls[t][lv] : t \in ts}) \ {i}
<1>1. lv \in Level /\ Common \in Level
  BY AoiAssumption DEF Object
<1>2. \A j : j \in S <=> j # i /\ \E t \in ts : j \in ls[t][Common] \/ j \in ls[t][lv]
  OBVIOUS
<1>3. \A t \in ts : ls[t][Common] \subseteq Id /\ ls[t][lv] \subseteq Id
  BY <1>1
<1> HIDE DEF lv
<1>4. \A j \in Id \ {i} : \A t \in ts :
        (j \in ls[t][Common] \/ j \in ls[t][lv])
          <=> j \in Used /\ t = TileOf(j) /\ LevelOf[mgr[j].uid] \in {Common, lv}
  BY <1>1 DEF Placed
<1>5. \A j : j \in S <=> j \in Used \ {i} /\ TileOf(j) \in ts /\ LevelOf[mgr[j].uid] \in {Common, lv}
  BY <1>2, <1>3, <1>4 DEF Used
<1> HIDE DEF S
<1>6. v \in Sights(ms, ls, ts, i) <=> \E j \in S : v = ms[j].uid
  BY Zenon DEF Sights, S, lv
<1>7. \A j \in S : ms[j] = mgr[j]
  BY <1>5 DEF Used
<1> QED BY <1>5, <1>6, <1>7 DEF lv

\* Whom a fighter has in view after the tables are applied.
LEMMA ToldIs ==
  ASSUME NEW u \in Uid, NEW came, NEW gone, NEW v \in Uid, NEW w
  PROVE  w \in Told(u, came, gone)[v] <=>
           \/ v = u /\ (w \in view[u] \/ w \in came) /\ w \notin gone
           \/ v # u /\ (w \in view[v] \/ (v \in came /\ w = u)) /\ ~ (v \in gone /\ w = u)
BY DEF Told, Hears

\* The invariant holds at first.
LEMMA InitAoi == AoiInit => AoiInv
<1> SUFFICES ASSUME AoiInit PROVE AoiInv
  OBVIOUS
<1>1. Used = {} /\ Inside = {}
  BY DEF AoiInit, Used, Inside
<1>2. AoiTypeOK
  BY DEF AoiInit, AoiTypeOK
<1>3. Placed
  BY <1>1 DEF AoiInit, Placed
<1> QED BY <1>1, <1>2, <1>3, Zenon DEF AoiInv, OneSlot, OutsideBlind, NotSelf, ViewsExact, AoiInit

-----------------------------------------------------------------------------
\* laoi_enter keeps the invariant.
LEMMA EnterStep ==
  ASSUME AoiInv, NEW u \in Uid, NEW p \in Pos, Enter(u, p)
  PROVE  AoiInv'
<1> USE DEF AoiInv
<1> DEFINE T == TileAt(p)
<1>1. PICK i \in Free :
        /\ u \notin Inside
        /\ mgr' = [mgr EXCEPT ![i] = [uid |-> u, pos |-> p]]
        /\ list' = ListPush(list, T, LevelOf[u], i)
        /\ view' = Told(u, Sights(mgr', list, Region(T), i), {})
  BY Zenon DEF Enter, Around
<1>2. i \in Id /\ i \notin Used
  BY <1>1 DEF Free
<1>3. T \in Tile /\ LevelOf[u] \in Level
  BY TileInGrid, AoiAssumption
<1>4. [uid |-> u, pos |-> p] \in Object /\ [uid |-> u, pos |-> p] # NoObject
  BY NoObjectAssumption DEF Object
<1>5. /\ mgr' \in [Id -> Object \cup {NoObject}]
      /\ mgr'[i] = [uid |-> u, pos |-> p]
      /\ \A j \in Id \ {i} : mgr'[j] = mgr[j]
  BY <1>1, <1>2, <1>4, Zenon DEF AoiTypeOK
<1>6. Used' = Used \cup {i} /\ Inside' = Inside \cup {u}
  <2>1. Used' = Used \cup {i}
    BY <1>2, <1>4, <1>5, Zenon DEF Used
  <2>2. \A j \in Used : mgr'[j].uid = mgr[j].uid
    BY <1>2, <1>5, Zenon DEF Used
  <2>3. mgr'[i].uid = u
    BY <1>5
  <2> QED BY <2>1, <2>2, <2>3, Zenon DEF Inside
<1>7. /\ \A j \in Used : mgr'[j] = mgr[j] /\ TileOf(j)' = TileOf(j)
      /\ TileOf(i)' = T /\ mgr'[i].uid = u
  BY <1>2, <1>5 DEF TileOf, Used
<1>8. /\ list' \in [Tile -> [Level -> SUBSET Id]]
      /\ \A j \in Id, t \in Tile, l \in Level :
           j \in list'[t][l] <=> j \in list[t][l] \/ (j = i /\ t = T /\ l = LevelOf[u])
  BY <1>1, <1>2, <1>3, Zenon DEF AoiTypeOK, ListPush
<1> DEFINE came == Sights(mgr', list, Region(T), i)
<1>9. \A v : v \in came <=> \E j \in Used : /\ mgr[j].uid = v /\ Near(TileOf(j), T)
                                            /\ LevelOf[v] \in {Common, LevelOf[u]}
  <2>2. Region(T) \in SUBSET Tile
    BY <1>3, RegionInGrid, Zenon
  <2>3. SUFFICES ASSUME NEW v
                 PROVE  v \in came <=> \E j \in Used : /\ mgr[j].uid = v /\ Near(TileOf(j), T)
                                                       /\ LevelOf[v] \in {Common, LevelOf[u]}
    BY Zenon
  <2>4. v \in came <=> \E j \in Used \ {i} : /\ mgr[j].uid = v /\ TileOf(j) \in Region(T)
                                             /\ LevelOf[v] \in {Common, LevelOf[u]}
    <3> HIDE DEF T
    <3>1. list \in [Tile -> [Level -> SUBSET Id]]
      BY Zenon DEF AoiTypeOK
    <3>2. mgr'[i] \in Object /\ mgr'[i].uid = u
      BY <1>4, <1>5
    <3> DEFINE ms == mgr'
               ts == Region(T)
    <3>3. ms \in [Id -> Object \cup {NoObject}] /\ ms[i] \in Object /\ ts \in SUBSET Tile
      BY <1>5, <2>2, <3>2
    <3>4. \A j \in Id \ {i} : ms[j] = mgr[j]
      BY <1>5
    <3>5. ms[i].uid = u
      BY <3>2
    <3> HIDE DEF ms, ts
    <3>6. v \in Sights(ms, list, ts, i) <=>
            \E j \in Used \ {i} : /\ mgr[j].uid = v /\ TileOf(j) \in ts
                                  /\ LevelOf[v] \in {Common, LevelOf[ms[i].uid]}
      BY <1>2, <3>1, <3>3, <3>4, SightsAre, Zenon
    <3> QED BY <3>5, <3>6 DEF ms, ts
  <2> QED BY <1>2, <1>3, <2>4, RegionIsNear, TypeFacts
<1> HIDE DEF came, T
<1>10. view' \in [Uid -> SUBSET Uid]
  <2>1. came \subseteq Uid
    BY <1>9, TypeFacts, Zenon
  <2> QED BY <1>1, <2>1, Zenon DEF Told, Hears, AoiTypeOK, came
<1>11. \A v \in Uid, w \in Uid : w \in view'[v] <=>
          \/ v = u /\ w \in came
          \/ v # u /\ (w \in view[v] \/ (v \in came /\ w = u))
  <2>1. view[u] = {}
    BY <1>1, Zenon DEF OutsideBlind
  <2>2. view' = Told(u, came, {})
    BY <1>1, Zenon DEF came
  <2> QED BY <2>1, <2>2, ToldIs
<1>12. AoiTypeOK'
  BY <1>5, <1>8, <1>10, Zenon DEF AoiTypeOK
<1>13. Placed'
  <2> SUFFICES ASSUME NEW j \in Id, NEW t \in Tile, NEW l \in Level
               PROVE  j \in list'[t][l] <=> j \in Used' /\ t = TileOf(j)' /\ l = LevelOf[mgr'[j].uid]
    BY Zenon DEF Placed
  <2>1. CASE j = i
    BY <2>1, <1>2, <1>6, <1>7, <1>8 DEF Placed
  <2>2. CASE j # i
    BY <2>2, <1>6, <1>7, <1>8 DEF Placed
  <2> QED BY <2>1, <2>2, Zenon
<1>14. OneSlot'
  <2>1. \A j \in Used : mgr[j].uid # u
    BY <1>1, Zenon DEF Inside
  <2> QED BY <2>1, <1>6, <1>7 DEF OneSlot
<1>15. OutsideBlind'
  <2> SUFFICES ASSUME NEW v \in Uid, v \notin Inside' PROVE view'[v] = {}
    BY DEF OutsideBlind
  <2>1. v # u /\ v \notin Inside /\ view[v] = {}
    BY <1>6 DEF OutsideBlind
  <2>2. v \notin came
    BY <1>9, <2>1 DEF Inside
  <2>3. view'[v] \subseteq Uid
    BY <1>10, Zenon
  <2> QED BY <1>11, <2>1, <2>2, <2>3, Zenon
<1>16. ViewsExact'
  <2> SUFFICES ASSUME NEW a \in Uid, NEW b \in Uid, a # b, a \in Inside', LevelOf[a] = LevelOf[b]
               PROVE  b \in view'[a] <=> InSight(a, b)'
    BY Zenon DEF ViewsExact
  <2>1. \A c \in Uid : c \in came /\ LevelOf[c] = LevelOf[u] <=>
          LevelOf[c] = LevelOf[u] /\ \E j \in Used : mgr[j].uid = c /\ Near(TileOf(j), T)
    BY <1>9, Zenon
  <2>2. \A j \in Used : Near(TileOf(j), T) <=> Near(T, TileOf(j))
    BY <1>3, NearSymmetric, TypeFacts, Zenon
  <2>3. InSight(a, b)' <=>
          \E k, j \in Used \cup {i} : mgr'[k].uid = a /\ mgr'[j].uid = b /\ Near(TileOf(k)', TileOf(j)')
    BY <1>6, Zenon DEF InSight, TileOf
  <2>4. \A j \in Used : mgr[j].uid # u
    BY <1>1, Zenon DEF Inside
  <2>5. CASE a = u
    <3>1. b \in view'[a] <=> b \in came
      BY <1>11, <2>5, Zenon
    <3>2. InSight(a, b)' <=> \E j \in Used : mgr[j].uid = b /\ Near(T, TileOf(j))
      BY <1>7, <2>3, <2>4, <2>5
    <3> QED BY <2>1, <2>2, <2>5, <3>1, <3>2, Zenon
  <2>6. CASE b = u
    <3>1. b \notin view[a]
      <4>1. a \in Inside
        BY <1>6, <2>6, Zenon
      <4>2. ~ InSight(a, b)
        BY <2>4, <2>6, Zenon DEF InSight
      <4> QED BY <4>1, <4>2 DEF ViewsExact
    <3>2. b \in view'[a] <=> a \in came
      BY <1>11, <2>6, <3>1, Zenon
    <3>3. InSight(a, b)' <=> \E j \in Used : mgr[j].uid = a /\ Near(TileOf(j), T)
      BY <1>7, <2>3, <2>4, <2>6, Zenon
    <3> QED BY <2>1, <2>6, <3>2, <3>3, Zenon
  <2>7. CASE a # u /\ b # u
    <3>1. b \in view'[a] <=> b \in view[a]
      BY <1>11, <2>7, Zenon
    <3>2. InSight(a, b)' <=> \E k, j \in Used : mgr[k].uid = a /\ mgr[j].uid = b /\ Near(TileOf(k), TileOf(j))
      BY <1>7, <2>3, <2>7
    <3>3. a \in Inside
      BY <1>6, <2>7, Zenon
    <3> QED BY <3>1, <3>2, <3>3 DEF ViewsExact, InSight, TileOf
  <2> QED BY <2>5, <2>6, <2>7, Zenon
<1>17. NotSelf'
  <2>1. u \notin came
    BY <1>1, <1>9 DEF Inside
  <2> QED BY <1>11, <2>1, Zenon DEF NotSelf
<1> QED BY <1>12, <1>13, <1>14, <1>15, <1>16, <1>17

\* laoi_leave keeps the invariant.
LEMMA LeaveStep ==
  ASSUME AoiInv, NEW i \in Id, Leave(i)
  PROVE  AoiInv'
<1> USE DEF AoiInv
<1> DEFINE u == mgr[i].uid
           gone == Sights(mgr, list, Region(TileOf(i)), i)
<1>1. /\ i \in Used
      /\ list' = ListRemove(list, i)
      /\ mgr' = [mgr EXCEPT ![i] = NoObject]
      /\ view' = [Told(u, {}, gone) EXCEPT ![u] = {}]
  BY Zenon DEF Leave, TileOf, Around
<1>2. u \in Uid /\ mgr[i] \in Object /\ TileOf(i) \in Tile
  BY <1>1, TypeFacts, Zenon
<1>3. \A v : v \in gone <=> \E j \in Used \ {i} : /\ mgr[j].uid = v /\ Near(TileOf(j), TileOf(i))
                                                  /\ LevelOf[v] \in {Common, LevelOf[u]}
  <2> DEFINE ts == Region(TileOf(i))
  <2>1. ts \in SUBSET Tile
    BY <1>2, RegionInGrid
  <2>2. mgr \in [Id -> Object \cup {NoObject}] /\ list \in [Tile -> [Level -> SUBSET Id]]
    BY DEF AoiTypeOK
  <2> HIDE DEF ts
  <2>3. \A v : v \in Sights(mgr, list, ts, i) <=>
          \E j \in Used \ {i} : /\ mgr[j].uid = v /\ TileOf(j) \in ts
                                /\ LevelOf[v] \in {Common, LevelOf[u]}
    BY <1>2, <2>1, <2>2, SightsAre, Zenon
  <2> QED BY <1>2, <2>3, RegionIsNear, TypeFacts DEF ts
<1> HIDE DEF u, gone
<1>4. /\ mgr' \in [Id -> Object \cup {NoObject}]
      /\ mgr'[i] = NoObject /\ \A j \in Id \ {i} : mgr'[j] = mgr[j]
  BY <1>1 DEF AoiTypeOK
<1>5. Used' = Used \ {i}
  BY <1>4 DEF Used
<1>6. \A j \in Used \ {i} : mgr'[j] = mgr[j] /\ TileOf(j)' = TileOf(j)
  BY <1>4 DEF TileOf, Used
<1>7. \A j \in Used \ {i} : mgr[j].uid # u
  BY <1>1, Zenon DEF OneSlot, u
<1>8. Inside' = Inside \ {u}
  BY <1>1, <1>5, <1>6, <1>7 DEF Inside, u
<1>9. /\ list' \in [Tile -> [Level -> SUBSET Id]]
      /\ \A j \in Id, t \in Tile, l \in Level : j \in list'[t][l] <=> j \in list[t][l] /\ j # i
  BY <1>1, Zenon DEF AoiTypeOK, ListRemove
<1>10. view' \in [Uid -> SUBSET Uid]
  BY <1>1, <1>2, Zenon DEF Told, Hears, AoiTypeOK
<1>11. \A v \in Uid, w \in Uid : w \in view'[v] <=> v # u /\ w \in view[v] /\ ~ (v \in gone /\ w = u)
  <2>1. \A v \in Uid : view'[v] = IF v = u THEN {} ELSE Told(u, {}, gone)[v]
    BY <1>1, <1>2, Zenon DEF Told
  <2> QED BY <1>2, <2>1, ToldIs
<1>12. AoiTypeOK'
  BY <1>4, <1>9, <1>10, Zenon DEF AoiTypeOK
<1>13. Placed'
  BY <1>5, <1>6, <1>9 DEF Placed
<1>14. OneSlot'
  BY <1>5, <1>6 DEF OneSlot
<1>15. OutsideBlind'
  <2> SUFFICES ASSUME NEW v \in Uid, v \notin Inside' PROVE view'[v] = {}
    BY DEF OutsideBlind
  <2>1. v # u => view[v] = {}
    BY <1>8 DEF OutsideBlind
  <2>2. view'[v] \subseteq Uid
    BY <1>10, Zenon
  <2> QED BY <1>11, <2>1, <2>2
<1>16. ViewsExact'
  <2> SUFFICES ASSUME NEW a \in Uid, NEW b \in Uid, a # b, a \in Inside', LevelOf[a] = LevelOf[b]
               PROVE  b \in view'[a] <=> InSight(a, b)'
    BY DEF ViewsExact
  <2>1. a # u /\ a \in Inside
    BY <1>8, Zenon
  <2>2. b \in view[a] <=> InSight(a, b)
    BY <2>1, Zenon DEF ViewsExact
  <2>3. InSight(a, b)' <=>
          \E k, j \in Used \ {i} : mgr[k].uid = a /\ mgr[j].uid = b /\ Near(TileOf(k), TileOf(j))
    BY <1>5, <1>6 DEF InSight, TileOf
  <2>4. InSight(a, b) <=>
          \E k \in Used \ {i}, j \in Used : mgr[k].uid = a /\ mgr[j].uid = b /\ Near(TileOf(k), TileOf(j))
    BY <2>1, Zenon DEF InSight, TileOf, u
  <2>5. CASE b = u
    <3>1. InSight(a, b) => a \in gone
      BY <1>1, <1>3, <1>7, <2>4, <2>5, Zenon
    <3>2. ~ InSight(a, b)'
      BY <1>7, <2>3, <2>5, Zenon
    <3> QED BY <1>11, <2>1, <2>2, <2>5, <3>1, <3>2, Zenon
  <2>6. CASE b # u
    <3>1. InSight(a, b)' <=> InSight(a, b)
      BY <2>3, <2>4, <2>6, Zenon DEF u
    <3> QED BY <1>11, <2>1, <2>2, <2>6, <3>1, Zenon
  <2> QED BY <2>5, <2>6
<1>17. NotSelf'
  BY <1>11, Zenon DEF NotSelf
<1> QED BY <1>12, <1>13, <1>14, <1>15, <1>16, <1>17, Zenon

\* laoi_update keeps the invariant.
LEMMA UpdateStep ==
  ASSUME AoiInv, NEW i \in Id, NEW p \in Pos, Update(i, p)
  PROVE  AoiInv'
<1> USE DEF AoiInv
<1> DEFINE u == mgr[i].uid
           old == TileOf(i)
           new == TileAt(p)
           came == Sights(mgr', list', Region(new) \ Region(old), i)
           gone == Sights(mgr', list', Region(old) \ Region(new), i)
<1>1. /\ i \in Used
      /\ mgr' = [mgr EXCEPT ![i].pos = p]
      /\ old = new => UNCHANGED <<list, view>>
      /\ old # new => /\ list' = ListPush(ListRemove(list, i), new, LevelOf[u], i)
                      /\ view' = Told(u, came, gone)
  BY DEF Update, TileOf
<1>2. u \in Uid /\ mgr[i] \in Object /\ old \in Tile /\ new \in Tile /\ LevelOf[u] \in Level
  BY <1>1, TypeFacts, TileInGrid, Zenon
<1>3. /\ mgr' \in [Id -> Object \cup {NoObject}]
      /\ mgr'[i] \in Object /\ mgr'[i].uid = u /\ mgr'[i].pos = p
      /\ \A j \in Id \ {i} : mgr'[j] = mgr[j]
  <2>1. mgr'[i] = [mgr[i] EXCEPT !.pos = p]
    BY <1>1 DEF AoiTypeOK
  <2>2. mgr'[i] \in Object /\ mgr'[i].uid = u /\ mgr'[i].pos = p
    BY <1>2, <2>1 DEF Object
  <2>3. \A j \in Id \ {i} : mgr'[j] = mgr[j]
    BY <1>1 DEF AoiTypeOK
  <2>4. mgr' = [mgr EXCEPT ![i] = mgr'[i]]
    BY <1>1, <2>1 DEF AoiTypeOK
  <2> QED BY <2>2, <2>3, <2>4 DEF AoiTypeOK
<1>4. Used' = Used
  BY <1>1, <1>3, NoObjectAssumption DEF Used
<1>5. /\ \A j \in Used \ {i} : mgr'[j] = mgr[j] /\ TileOf(j)' = TileOf(j)
      /\ TileOf(i)' = new
      /\ \A j \in Used : mgr'[j].uid = mgr[j].uid
  BY <1>1, <1>3, Zenon DEF TileOf, Used
<1>6. Inside' = Inside
  BY <1>4, <1>5 DEF Inside
<1>7. OneSlot'
  BY <1>4, <1>5 DEF OneSlot
<1>8. CASE old = new
  <2> HIDE DEF u, came, gone, new
  <2>1. list' = list /\ view' = view
    BY <1>1, <1>8, Zenon
  <2>2. \A j \in Used : TileOf(j)' = TileOf(j)
    BY <1>5, <1>8, Zenon
  <2>3. AoiTypeOK' /\ OutsideBlind' /\ NotSelf'
    BY <1>3, <1>6, <2>1, Zenon DEF AoiTypeOK, OutsideBlind, NotSelf
  <2>4. Placed'
    BY <1>4, <1>5, <2>1, <2>2 DEF Placed
  <2>5. \A a, b \in Uid : InSight(a, b)' <=> InSight(a, b)
    BY <1>4, <1>5, <2>2 DEF InSight, TileOf
  <2>6. ViewsExact'
    BY <1>6, <2>1, <2>5 DEF ViewsExact
  <2> QED BY <1>7, <2>3, <2>4, <2>6
<1>9. CASE old # new
  <2>1. /\ list' \in [Tile -> [Level -> SUBSET Id]]
        /\ \A j \in Id, t \in Tile, l \in Level :
             j \in list'[t][l] <=> (j # i /\ j \in list[t][l]) \/ (j = i /\ t = new /\ l = LevelOf[u])
    <3>1. /\ ListRemove(list, i) \in [Tile -> [Level -> SUBSET Id]]
          /\ \A j \in Id, t \in Tile, l \in Level : j \in ListRemove(list, i)[t][l] <=> j # i /\ j \in list[t][l]
      BY DEF AoiTypeOK, ListRemove
    <3> HIDE DEF new, u
    <3> QED BY <1>1, <1>2, <1>9, <3>1 DEF ListPush
  <2>2. ASSUME NEW ts \in SUBSET Tile, NEW v
        PROVE  v \in Sights(mgr', list', ts, i) <=>
                 \E j \in Used \ {i} : /\ mgr[j].uid = v /\ TileOf(j) \in ts
                                       /\ LevelOf[v] \in {Common, LevelOf[u]}
    <3> DEFINE ms == mgr'
               ls == list'
    <3>1. /\ ms \in [Id -> Object \cup {NoObject}] /\ ms[i] \in Object /\ ms[i].uid = u
          /\ \A j \in Id \ {i} : ms[j] = mgr[j]
      BY <1>3, Zenon
    <3>2. /\ ls \in [Tile -> [Level -> SUBSET Id]]
          /\ \A j \in Id \ {i}, t \in Tile, l \in Level : j \in ls[t][l] <=> j \in list[t][l]
      BY <2>1
    <3> HIDE DEF ms, ls, u
    <3>3. v \in Sights(ms, ls, ts, i) <=>
            \E j \in Used \ {i} : /\ mgr[j].uid = v /\ TileOf(j) \in ts
                                  /\ LevelOf[v] \in {Common, LevelOf[ms[i].uid]}
      BY <3>1, <3>2, SightsAre, Zenon
    <3> QED BY <3>1, <3>3, Zenon DEF ms, ls
  <2>3. /\ Region(new) \ Region(old) \in SUBSET Tile
        /\ Region(old) \ Region(new) \in SUBSET Tile
    BY <1>2, RegionInGrid, Zenon
  <2>4. /\ \A v : v \in came <=>
             \E j \in Used \ {i} : /\ mgr[j].uid = v /\ LevelOf[v] \in {Common, LevelOf[u]}
                                   /\ Near(TileOf(j), new) /\ ~ Near(TileOf(j), old)
        /\ \A v : v \in gone <=>
             \E j \in Used \ {i} : /\ mgr[j].uid = v /\ LevelOf[v] \in {Common, LevelOf[u]}
                                   /\ Near(TileOf(j), old) /\ ~ Near(TileOf(j), new)
    <3>1. \A j \in Used : TileOf(j) \in Tile
      BY TypeFacts, Zenon
    <3>2. \A j \in Used : /\ TileOf(j) \in Region(new) <=> Near(TileOf(j), new)
                          /\ TileOf(j) \in Region(old) <=> Near(TileOf(j), old)
      BY <1>2, <3>1, RegionIsNear, Zenon
    <3>3. \A v : v \in came <=>
             \E j \in Used \ {i} : /\ mgr[j].uid = v /\ TileOf(j) \in Region(new) \ Region(old)
                                   /\ LevelOf[v] \in {Common, LevelOf[u]}
      BY <2>2, <2>3, Zenon
    <3>4. \A v : v \in gone <=>
             \E j \in Used \ {i} : /\ mgr[j].uid = v /\ TileOf(j) \in Region(old) \ Region(new)
                                   /\ LevelOf[v] \in {Common, LevelOf[u]}
      BY <2>2, <2>3
    <3> HIDE DEF came, gone, u, old, new
    <3> QED BY <3>2, <3>3, <3>4, Zenon
  <2> HIDE DEF came, gone, u, old, new
  <2>5. view' = Told(u, came, gone)
    BY <1>1, <1>9, Zenon
  <2>6. view' \in [Uid -> SUBSET Uid]
    <3>1. came \subseteq Uid
      BY <2>4, TypeFacts
    <3> QED BY <1>2, <2>5, <3>1, Zenon DEF Told, Hears, AoiTypeOK
  <2>7. \A v \in Uid, w \in Uid : w \in view'[v] <=>
           \/ v = u /\ (w \in view[u] \/ w \in came) /\ w \notin gone
           \/ v # u /\ (w \in view[v] \/ (v \in came /\ w = u)) /\ ~ (v \in gone /\ w = u)
    BY <1>2, <2>5, ToldIs
  <2>8. AoiTypeOK'
    BY <1>3, <2>1, <2>6, Zenon DEF AoiTypeOK
  <2>9. Placed'
    <3> SUFFICES ASSUME NEW j \in Id, NEW t \in Tile, NEW l \in Level
                 PROVE  j \in list'[t][l] <=> j \in Used' /\ t = TileOf(j)' /\ l = LevelOf[mgr'[j].uid]
      BY DEF Placed
    <3>1. CASE j = i
      BY <1>1, <1>3, <1>4, <1>5, <2>1, <3>1
    <3>2. CASE j # i
      BY <1>4, <1>5, <2>1, <3>2 DEF Placed
    <3> QED BY <3>1, <3>2
  <2>10. OutsideBlind'
    <3> SUFFICES ASSUME NEW v \in Uid, v \notin Inside' PROVE view'[v] = {}
      BY DEF OutsideBlind
    <3>1. v \notin Inside /\ view[v] = {}
      BY <1>6 DEF OutsideBlind
    <3>2. v # u /\ v \notin came
      BY <1>1, <2>4, <3>1 DEF Inside, u
    <3>3. view'[v] \subseteq Uid
      BY <2>6, Zenon
    <3> QED BY <2>7, <3>1, <3>2, <3>3, Zenon
  <2>11. ViewsExact'
    <3> SUFFICES ASSUME NEW a \in Uid, NEW b \in Uid, a # b, a \in Inside', LevelOf[a] = LevelOf[b]
                 PROVE  b \in view'[a] <=> InSight(a, b)'
      BY DEF ViewsExact
    <3>1. b \in view[a] <=> InSight(a, b)
      BY <1>6 DEF ViewsExact
    <3>2. \A j \in Used \ {i} : mgr[j].uid # u
      BY <1>1, Zenon DEF OneSlot, u
    <3>3. \A j \in Used \ {i} : /\ Near(TileOf(j), new) <=> Near(new, TileOf(j))
                                /\ Near(TileOf(j), old) <=> Near(old, TileOf(j))
      BY <1>2, NearSymmetric, TypeFacts, Zenon
    <3>4. InSight(a, b) <=>
            \E k, j \in Used : mgr[k].uid = a /\ mgr[j].uid = b /\ Near(TileOf(k), TileOf(j))
      BY DEF InSight, TileOf
    <3>5. InSight(a, b)' <=>
            \E k, j \in Used : mgr[k].uid = a /\ mgr[j].uid = b /\ Near(TileOf(k)', TileOf(j)')
      BY <1>4, <1>5 DEF InSight, TileOf
    <3>6. mgr[i].uid = u /\ TileOf(i) = old
      BY Zenon DEF u, old
    <3>7. CASE a = u
      <4>1. InSight(a, b) <=> \E j \in Used \ {i} : mgr[j].uid = b /\ Near(TileOf(j), old)
        BY <1>1, <3>2, <3>3, <3>4, <3>6, <3>7
      <4>2. InSight(a, b)' <=> \E j \in Used \ {i} : mgr[j].uid = b /\ Near(TileOf(j), new)
        BY <1>1, <1>5, <3>2, <3>3, <3>5, <3>6, <3>7
      <4>3. \A j, k \in Used : mgr[j].uid = b /\ mgr[k].uid = b => j = k
        BY Zenon DEF OneSlot
      <4> QED BY <2>4, <2>7, <3>1, <3>7, <4>1, <4>2, <4>3
    <3>8. CASE b = u
      <4>1. InSight(a, b) <=> \E j \in Used \ {i} : mgr[j].uid = a /\ Near(TileOf(j), old)
        BY <1>1, <3>2, <3>4, <3>6, <3>8
      <4>2. InSight(a, b)' <=> \E j \in Used \ {i} : mgr[j].uid = a /\ Near(TileOf(j), new)
        BY <1>1, <1>5, <3>2, <3>5, <3>6, <3>8
      <4>3. \A j, k \in Used : mgr[j].uid = a /\ mgr[k].uid = a => j = k
        BY Zenon DEF OneSlot
      <4> QED BY <2>4, <2>7, <3>1, <3>8, <4>1, <4>2, <4>3
    <3>9. CASE a # u /\ b # u
      <4>1. InSight(a, b)' <=> InSight(a, b)
        BY <1>5, <3>4, <3>5, <3>6, <3>9, Zenon
      <4> QED BY <2>7, <3>1, <3>9, <4>1, Zenon
    <3> QED BY <3>7, <3>8, <3>9, Zenon
  <2>12. NotSelf'
    <3>1. u \notin came
      BY <1>1, <2>4 DEF OneSlot, u
    <3> QED BY <2>7, <3>1 DEF NotSelf
  <2> QED BY <1>7, <2>8, <2>9, <2>10, <2>11, <2>12
<1> QED BY <1>8, <1>9

-----------------------------------------------------------------------------
\* Every reachable state of the area of interest satisfies the inductive invariant:
\* objects are listed on their tile and level only, a fighter holds one slot, and
\* the views added up from the returned tables are exact.
THEOREM AoiInvariance == AoiSpec => []AoiInv
<1>1. AoiInv /\ [AoiNext]_aoi_vars => AoiInv'
  <2> SUFFICES ASSUME AoiInv, [AoiNext]_aoi_vars PROVE AoiInv'
    OBVIOUS
  <2>1. CASE \E u \in Uid, p \in Pos : Enter(u, p)
    BY <2>1, EnterStep
  <2>2. CASE \E i \in Id : Leave(i)
    BY <2>2, LeaveStep
  <2>3. CASE \E i \in Id, p \in Pos : Update(i, p)
    BY <2>3, UpdateStep
  <2>4. CASE UNCHANGED aoi_vars
    <3>1. mgr' = mgr /\ list' = list /\ view' = view
      BY <2>4 DEF aoi_vars
    <3>2. Used' = Used
      BY <3>1 DEF Used
    <3>3. Inside' = Inside
      BY <3>1, <3>2 DEF Inside
    <3>4. AoiTypeOK' /\ OneSlot' /\ OutsideBlind' /\ NotSelf'
      BY <3>1, <3>2, <3>3 DEF AoiInv, AoiTypeOK, OneSlot, OutsideBlind, NotSelf
    <3>5. Placed'
      BY <3>1, <3>2 DEF AoiInv, Placed, TileOf
    <3>6. ViewsExact'
      BY <3>1, <3>2, <3>3 DEF AoiInv, ViewsExact, InSight
    <3> QED BY <3>4, <3>5, <3>6 DEF AoiInv
  <2> QED BY <2>1, <2>2, <2>3, <2>4 DEF AoiNext
<1> QED BY InitAoi, <1>1, PTL DEF AoiSpec

\* For every scene, tile size, range and set of fighters the tables that enter,
\* leave and update return keep the views of fighters of one level exact.
THEOREM ViewsAreExact == AoiSpec => []ViewsExact
<1>1. AoiInv => ViewsExact
  BY DEF AoiInv
<1> QED BY AoiInvariance, <1>1, PTL

\* For every scene, tile size, range and set of fighters, laoi_viewlist answers what
\* the returned tables have added up to.
THEOREM ViewlistIsExact == AoiSpec => []ViewlistIsView
<1>1. AoiInv => ViewlistIsView
  <2> SUFFICES ASSUME AoiInv, NEW i \in Used, NEW v \in Uid, LevelOf[v] = LevelOf[mgr[i].uid]
               PROVE  v \in Viewlist(i) <=> v \in view[mgr[i].uid]
    BY DEF ViewlistIsView
  <2> USE DEF AoiInv
  <2> DEFINE ts == Region(TileOf(i))
  <2>1. i \in Id /\ mgr[i] \in Object /\ mgr[i].uid \in Uid /\ TileOf(i) \in Tile
    BY TypeFacts
  <2>2. ts \in SUBSET Tile
    BY <2>1, RegionInGrid
  <2>3. mgr \in [Id -> Object \cup {NoObject}] /\ list \in [Tile -> [Level -> SUBSET Id]]
    BY DEF AoiTypeOK
  <2> HIDE DEF ts
  <2>4. v \in Sights(mgr, list, ts, i) <=>
          \E j \in Used \ {i} : /\ mgr[j].uid = v /\ TileOf(j) \in ts
                                /\ LevelOf[v] \in {Common, LevelOf[mgr[i].uid]}
    BY <2>1, <2>2, <2>3, SightsAre
  <2>5. v \in Viewlist(i) <=> \E j \in Used \ {i} : mgr[j].uid = v /\ Near(TileOf(i), TileOf(j))
    <3>1. Viewlist(i) = Sights(mgr, list, ts, i)
      BY Zenon DEF Viewlist, Around, ts, TileOf
    <3>2. \A j \in Used : TileOf(j) \in ts <=> Near(TileOf(i), TileOf(j))
      BY <2>1, RegionIsNear, NearSymmetric, TypeFacts, Zenon DEF ts
    <3> QED BY <2>4, <3>1, <3>2, Zenon
  <2>6. CASE v = mgr[i].uid
    BY <2>5, <2>6, Zenon DEF OneSlot, NotSelf
  <2>7. CASE v # mgr[i].uid
    <3>1. mgr[i].uid \in Inside
      BY Zenon DEF Inside
    <3>2. v \in view[mgr[i].uid] <=> InSight(mgr[i].uid, v)
      BY <2>1, <2>7, <3>1, Zenon DEF ViewsExact
    <3>3. InSight(mgr[i].uid, v) <=>
            \E k, j \in Used : mgr[k].uid = mgr[i].uid /\ mgr[j].uid = v /\ Near(TileOf(k), TileOf(j))
      BY Zenon DEF InSight, TileOf
    <3>4. \A k \in Used : mgr[k].uid = mgr[i].uid => k = i
      BY DEF OneSlot
    <3> QED BY <2>5, <2>7, <3>2, <3>3, <3>4, Zenon
  <2> QED BY <2>6, <2>7
<1> QED BY AoiInvariance, <1>1, PTL
=============================================================================
