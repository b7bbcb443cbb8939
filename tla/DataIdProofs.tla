---------------------------- MODULE DataIdProofs ----------------------------
(***************************************************************************)
(* Proofs about the data server, for any documents, cache and log size.    *)
(*                                                                         *)
(* Identifiers are unique for any number of servers, any section size and  *)
(* any number of starts, provided that writes are lost only by processes   *)
(* that take a new number when they start again.                           *)
(***************************************************************************)
EXTENDS DataLog, IdBuilder, WellFoundedInduction, TLAPS

-----------------------------------------------------------------------------
(* the data server *)

\* a non-empty set of numbers has a least element
LEMMA Least ==
  ASSUME NEW T, T \subseteq Nat, T # {}
  PROVE  \E x \in T : \A y \in T : x <= y
<1> DEFINE R == OpToRel(<, Nat)
<1>1. IsWellFoundedOn(R, Nat)
  BY NatLessThanWellFounded
<1> HIDE DEF R
<1>2. PICK x \in T : \A y \in T : ~ (<<y, x>> \in R)
  BY <1>1, WFMin, Zenon
<1>3. \A y \in T : y < x => <<y, x>> \in R
  BY DEF R, OpToRel
<1>4. \A y \in T : ~ (y < x)
  BY <1>2, <1>3, Zenon
<1>5. \A y \in T : x <= y
  BY <1>4
<1> QED
  BY <1>5

\* induction, the property given as the set of numbers that have it
LEMMA Induct ==
  ASSUME NEW S, 0 \in S, \A n \in Nat : n \in S => n + 1 \in S
  PROVE  Nat \subseteq S
<1> SUFFICES ASSUME Nat \ S # {}
             PROVE  FALSE
  OBVIOUS
<1>1. PICK x \in Nat \ S : \A y \in Nat \ S : x <= y
  BY Least, Zenon
<1>2. x # 0 /\ x - 1 \in Nat
  OBVIOUS
<1>3. x - 1 \in S
  BY <1>1, <1>2
<1> QED
  BY <1>2, <1>3

\* R is the run of a loop up to turn m: x before it, and G[y, n] after turn n
\* where it was y before
Runs(R, m, x, X, G) ==
  /\ R \in [0 .. m -> X]
  /\ R[0] = x
  /\ \A n \in 1 .. m : R[n] = G[<<R[n - 1], n>>]

\* every loop has its run
LEMMA LoopRuns ==
  ASSUME NEW X, NEW x \in X, NEW N \in Nat, NEW G \in [X \X (1 .. N) -> X]
  PROVE  \E R : Runs(R, N, x, X, G)
<1> DEFINE S == {k \in Nat : k <= N => \E R : Runs(R, k, x, X, G)}
<1>1. 0 \in S
  <2>1. Runs([n \in 0 .. 0 |-> x], 0, x, X, G)
    BY DEF Runs
  <2> QED
    BY <2>1
<1>2. ASSUME NEW m \in Nat, m \in S
      PROVE  m + 1 \in S
  <2> SUFFICES ASSUME m + 1 <= N
               PROVE  \E R : Runs(R, m + 1, x, X, G)
    OBVIOUS
  <2>1. PICK R : Runs(R, m, x, X, G)
    BY <1>2
  <2> DEFINE Q == [n \in 0 .. m + 1 |-> IF n <= m THEN R[n] ELSE G[<<R[m], m + 1>>]]
  <2>2. R \in [0 .. m -> X] /\ R[0] = x
    BY <2>1 DEF Runs
  <2>3. R[m] \in X /\ m + 1 \in 1 .. N
    BY <2>2
  <2>4. G[<<R[m], m + 1>>] \in X
    BY <2>3
  <2>5. Q \in [0 .. m + 1 -> X] /\ Q[0] = x
    BY <2>2, <2>4
  <2>6. ASSUME NEW n \in 1 .. m + 1
        PROVE  Q[n] = G[<<Q[n - 1], n>>]
    <3>1. CASE n <= m
      BY <3>1, <2>1 DEF Runs
    <3>2. CASE n = m + 1
      BY <3>2
    <3> QED
      BY <3>1, <3>2
  <2>7. Runs(Q, m + 1, x, X, G)
    <3> HIDE DEF Q
    <3> QED
      BY <2>5, <2>6 DEF Runs
  <2> QED
    BY <2>7
<1>3. N \in S
  <2> HIDE DEF S
  <2> QED
    BY <1>1, <1>2, Induct
<1> QED
  BY <1>3

\* what a loop starts with and every turn keeps holds all along
LEMMA Stays ==
  ASSUME NEW X, NEW Q, NEW N \in Nat, Q[0] \in X,
         \A n \in 1 .. N : Q[n - 1] \in X => Q[n] \in X
  PROVE  \A n \in 0 .. N : Q[n] \in X
<1> DEFINE S == {n \in Nat : n <= N => Q[n] \in X}
<1>1. 0 \in S
  OBVIOUS
<1>2. ASSUME NEW n \in Nat, n \in S
      PROVE  n + 1 \in S
  <2> SUFFICES ASSUME n + 1 <= N
               PROVE  Q[n + 1] \in X
    OBVIOUS
  <2>1. n + 1 \in 1 .. N /\ (n + 1) - 1 = n /\ Q[n] \in X
    BY <1>2
  <2> QED
    BY <2>1
<1>3. Nat \subseteq S
  <2> HIDE DEF S
  <2> QED
    BY <1>1, <1>2, Induct
<1> QED
  BY <1>3

-----------------------------------------------------------------------------
(* log_recover *)

ReplayState == [info : Docs, cache : Docs, err : {"none", "no document", "no file"}]
ReplayStart(c) == [info |-> NoDocs, cache |-> c, err |-> "none"]

\* A document with some fields set is a document.
LEMMA MergeType ==
  ASSUME NEW data \in Data, NEW setter \in Setter
  PROVE  Merge(data, setter) \in Data
<1>1. PICK F \in SUBSET Field : setter \in [F -> Val]
  BY DEF Setter
<1> QED
  BY <1>1 DEF Merge, Data

\* One record of the log keeps the type of what is collected.
LEMMA ReplayRecType ==
  ASSUME NEW a \in ReplayState, NEW r \in Record, r.op = "update" => r.data \in Data, disk \in Docs
  PROVE  ReplayRec(a, r) \in ReplayState
<1> DEFINE base == IF a.cache[r.id] # Nil THEN a.cache[r.id] ELSE disk[r.id]
<1>1. r.id \in Id /\ r.data \in Setter
  BY DEF Record
<1>2. a.info \in Docs /\ a.cache \in Docs
  BY DEF ReplayState
<1>3. base \in Data \cup {Nil}
  BY <1>1, <1>2 DEF Docs
<1>4. base # Nil => Merge(base, r.data) \in Data
  BY <1>1, <1>3, MergeType
<1> HIDE DEF base
<1>5. r.op = "update" => [a EXCEPT !.info[r.id] = r.data] \in ReplayState
  BY <1>1, <1>2 DEF ReplayState, Docs
<1>6. [a EXCEPT !.err = "no document"] \in ReplayState /\ [a EXCEPT !.err = "no file"] \in ReplayState
  BY DEF ReplayState
<1>7. base # Nil =>
        [a EXCEPT !.info[r.id] = Merge(base, r.data),
                  !.cache[r.id] = IF @ = Nil THEN Nil ELSE Merge(base, r.data)] \in ReplayState
  BY <1>1, <1>2, <1>4 DEF ReplayState, Docs
<1> QED
  BY <1>5, <1>6, <1>7 DEF ReplayRec, base

\* log_recover is the run of its loop over the records.
LEMMA ReplayRuns ==
  ASSUME DataTypeOK, NEW c \in Docs
  PROVE  \E R : /\ R \in [0 .. Len(log) -> ReplayState]
                /\ R[0] = ReplayStart(c)
                /\ \A n \in 1 .. Len(log) : R[n] = ReplayRec(R[n - 1], log[n])
                /\ Replay(c) = R[Len(log)]
<1> DEFINE N == Len(log)
           X == ReplayState
           G == [p \in X \X (1 .. N) |-> ReplayRec(p[1], log[p[2]])]
           Eqn(R) == R = [n \in 0 .. N |-> IF n = 0 THEN ReplayStart(c) ELSE ReplayRec(R[n - 1], log[n])]
           Q == CHOOSE R : Eqn(R)
<1>1. N \in Nat /\ disk \in Docs
  BY DEF DataTypeOK
<1>2. \A n \in 1 .. N : log[n] \in Record /\ (log[n].op = "update" => log[n].data \in Data)
  BY DEF DataTypeOK
<1>3. \A a \in X, n \in 1 .. N : ReplayRec(a, log[n]) \in X
  BY <1>1, <1>2, ReplayRecType
<1>4. ReplayStart(c) \in X
  BY DEF ReplayStart, ReplayState, NoDocs, Docs
<1> HIDE DEF N, X
<1>5. G \in [X \X (1 .. N) -> X]
  BY <1>3
<1>6. \A a \in X, n \in 1 .. N : G[<<a, n>>] = ReplayRec(a, log[n])
  OBVIOUS
<1> HIDE DEF G
<1>7. PICK R : Runs(R, N, ReplayStart(c), X, G)
  BY <1>1, <1>4, <1>5, LoopRuns, Zenon
<1>8. R \in [0 .. N -> X] /\ R[0] = ReplayStart(c)
  BY <1>7 DEF Runs
<1>9. \A n \in 1 .. N : R[n] = ReplayRec(R[n - 1], log[n])
  <2> SUFFICES ASSUME NEW n \in 1 .. N
               PROVE  R[n] = ReplayRec(R[n - 1], log[n])
    OBVIOUS
  <2>1. R[n] = G[<<R[n - 1], n>>]
    BY <1>7 DEF Runs
  <2>2. R[n - 1] \in X
    BY <1>1, <1>8
  <2> QED
    BY <2>1, <2>2, <1>6
<1>10. Eqn(R)
  BY <1>1, <1>8, <1>9
<1>11. Eqn(Q)
  <2> HIDE DEF Eqn
  <2> QED
    BY <1>10
<1>12. Replay(c) = Q[N]
  BY DEF Replay, N, ReplayStart
<1> HIDE DEF Q
<1>13. /\ Q[0] = ReplayStart(c)
       /\ \A n \in 1 .. N : Q[n] = ReplayRec(Q[n - 1], log[n])
  BY <1>1, <1>11
<1>14. Q \in [0 .. N -> X]
  <2>1. \A n \in 1 .. N : Q[n - 1] \in X => Q[n] \in X
    BY <1>3, <1>13
  <2>2. \A n \in 0 .. N : Q[n] \in X
    BY <1>1, <1>4, <1>13, <2>1, Stays
  <2>3. Q = [n \in 0 .. N |-> Q[n]]
    BY <1>11
  <2> QED
    BY <2>2, <2>3
<1> QED
  BY <1>12, <1>13, <1>14 DEF N, X

\* what one record does to the documents to be saved
LEMMA ReplayRecGives ==
  ASSUME NEW a \in ReplayState, NEW r \in Record, ReplayRec(a, r).err = "none"
  PROVE  /\ a.err = "none"
         /\ \A id \in Id \ {r.id} : ReplayRec(a, r).info[id] = a.info[id]
         /\ r.op = "update" => ReplayRec(a, r).info[r.id] = r.data
<1>1. r.id \in Id /\ a.info \in Docs
  BY DEF Record, ReplayState
<1>2. a.err = "none"
  BY DEF ReplayRec, ReplayState
<1>3. CASE r.op = "update"
  <2>1. ReplayRec(a, r) = [a EXCEPT !.info[r.id] = r.data]
    BY <1>2, <1>3 DEF ReplayRec
  <2>2. ReplayRec(a, r).info = [a.info EXCEPT ![r.id] = r.data]
    BY <2>1 DEF ReplayState
  <2> QED
    BY <1>1, <1>2, <2>2 DEF Docs
<1>4. CASE r.op # "update"
  <2> DEFINE base == IF a.cache[r.id] # Nil THEN a.cache[r.id] ELSE disk[r.id]
             doc == Merge(base, r.data)
  <2>1. ReplayRec(a, r) = IF a.info[r.id] = Nil THEN [a EXCEPT !.err = "no document"]
                          ELSE IF base = Nil THEN [a EXCEPT !.err = "no file"]
                          ELSE [a EXCEPT !.info[r.id] = doc, !.cache[r.id] = IF @ = Nil THEN Nil ELSE doc]
    BY <1>2, <1>4 DEF ReplayRec
  <2> HIDE DEF base, doc
  <2>2. ReplayRec(a, r).info = [a.info EXCEPT ![r.id] = doc]
    BY <2>1 DEF ReplayState
  <2> QED
    BY <1>1, <1>2, <1>4, <2>2 DEF Docs
<1> QED
  BY <1>3, <1>4

\* log_recover collects the newest update of every document it comes to and
\* nothing for a document the log does not name
LEMMA ReplayGives ==
  ASSUME DataTypeOK, NEW c \in Docs, Replay(c).err = "none", NEW id \in Id
  PROVE  /\ Replay(c).info[id] \in Data \cup {Nil}
         /\ (\A i \in DOMAIN log : log[i].id # id) => Replay(c).info[id] = Nil
         /\ \A i \in DOMAIN log :
              Newest(id, i) /\ log[i].op = "update" => Replay(c).info[id] = log[i].data
<1> DEFINE N == Len(log)
<1>1. N \in Nat /\ DOMAIN log = 1 .. N /\ \A i \in 1 .. N : log[i] \in Record
  BY DEF DataTypeOK
<1>2. PICK R : /\ R \in [0 .. N -> ReplayState]
               /\ R[0] = ReplayStart(c)
               /\ \A n \in 1 .. N : R[n] = ReplayRec(R[n - 1], log[n])
               /\ Replay(c) = R[N]
  BY ReplayRuns
<1> HIDE DEF N
<1> DEFINE None(n) == (\A i \in 1 .. n : log[i].id # id) => R[n].info[id] = Nil
           New(n, i) == log[i].id = id /\ \A j \in 1 .. n : j > i => log[j].id # id
           Last(n) == \A i \in 1 .. n : New(n, i) /\ log[i].op = "update" => R[n].info[id] = log[i].data
           S == {n \in Nat : n <= N /\ R[n].err = "none" => None(n) /\ Last(n)}
<1>3. 0 \in S
  BY <1>2 DEF ReplayStart, NoDocs
<1>4. ASSUME NEW n \in Nat, n \in S
      PROVE  n + 1 \in S
  <2> SUFFICES ASSUME n + 1 <= N, R[n + 1].err = "none"
               PROVE  None(n + 1) /\ Last(n + 1)
    OBVIOUS
  <2> DEFINE r == log[n + 1]
  <2>1. n + 1 \in 1 .. N /\ r \in Record /\ R[n] \in ReplayState
    BY <1>1, <1>2
  <2>2. R[n + 1] = ReplayRec(R[n], r)
    BY <2>1, <1>2
  <2>3. /\ R[n].err = "none"
        /\ id # r.id => R[n + 1].info[id] = R[n].info[id]
        /\ id = r.id /\ r.op = "update" => R[n + 1].info[id] = r.data
    BY <2>1, <2>2, ReplayRecGives
  <2>4. None(n) /\ Last(n)
    <3>1. n <= N
      BY <1>1
    <3> HIDE DEF None, Last
    <3> QED
      BY <1>4, <2>3, <3>1
  <2>5. None(n + 1)
    <3> SUFFICES ASSUME \A i \in 1 .. n + 1 : log[i].id # id
                 PROVE  R[n + 1].info[id] = Nil
      OBVIOUS
    <3>1. r.id # id
      OBVIOUS
    <3>2. \A i \in 1 .. n : log[i].id # id
      OBVIOUS
    <3> QED
      BY <3>1, <3>2, <2>3, <2>4
  <2>6. Last(n + 1)
    <3> SUFFICES ASSUME NEW i \in 1 .. n + 1, New(n + 1, i), log[i].op = "update"
                 PROVE  R[n + 1].info[id] = log[i].data
      OBVIOUS
    <3>1. CASE i = n + 1
      BY <3>1, <2>3
    <3>2. CASE i \in 1 .. n
      <4>1. r.id # id
        BY <3>2
      <4>2. New(n, i)
        BY <3>2
      <4> QED
        BY <3>2, <4>1, <4>2, <2>3, <2>4
    <3> QED
      BY <3>1, <3>2
  <2> QED
    BY <2>5, <2>6
<1>5. N \in S
  <2> HIDE DEF S
  <2> QED
    BY <1>1, <1>3, <1>4, Induct
<1>6. None(N) /\ Last(N)
  BY <1>1, <1>2, <1>5
<1>7. R[N].info[id] \in Data \cup {Nil}
  <2>1. R[N] \in ReplayState
    BY <1>1, <1>2
  <2>2. R[N].info \in Docs
    BY <2>1 DEF ReplayState
  <2> QED
    BY <2>2 DEF Docs
<1>8. ASSUME NEW i \in DOMAIN log, Newest(id, i), log[i].op = "update"
      PROVE  R[N].info[id] = log[i].data
  BY <1>1, <1>6, <1>8 DEF Newest
<1>9. (\A i \in DOMAIN log : log[i].id # id) => R[N].info[id] = Nil
  BY <1>1, <1>6
<1> QED
  BY <1>2, <1>7, <1>8, <1>9

\* The type of what log_recover collects.
LEMMA ReplayType ==
  ASSUME DataTypeOK, NEW c \in Docs
  PROVE  /\ Replay(c) \in ReplayState
         /\ Replay(c).cache \in Docs /\ Replay(c).info \in Docs
<1>1. Len(log) \in Nat
  BY DEF DataTypeOK
<1>2. Replay(c) \in ReplayState
  BY <1>1, ReplayRuns
<1> QED
  BY <1>2 DEF ReplayState

-----------------------------------------------------------------------------
(* the invariant, action by action *)

\* The invariant of the data server holds at first.
LEMMA DataInitInv ==
  ASSUME DataInit
  PROVE  DataInv
<1>1. NoDocs \in Docs
  BY DEF NoDocs, Docs
<1>2. log \in Seq(Record) /\ DOMAIN log = {}
  BY DEF DataInit
<1> QED
  BY <1>1, <1>2 DEF DataInit, DataInv, DataTypeOK, UpdatedLast, DumpHoldsUpdates, LogIsNoted, LogHoldsUpdates

\* log_data notes the document and appends its record
LEMMA LogDataInv ==
  ASSUME DataInv, task = "idle",
         NEW r \in Record, NEW doc \in Data, r.op = "update" => doc = r.data,
         LogData(r, doc), cache' \in Docs, UNCHANGED <<disk, pending, task>>
  PROVE  DataInv'
<1>1. r.id \in Id /\ r.op \in {"update", "set"}
  BY DEF Record
<1>2. CASE handle = "closed"
  <2>1. in_log' = in_log \cup {r.id} /\ UNCHANGED <<log, truth, torn>>
    BY <1>2 DEF LogData
  <2>2. DataTypeOK'
    BY <1>1, <2>1 DEF DataInv, DataTypeOK
  <2>3. UpdatedLast' /\ DumpHoldsUpdates' /\ LogHoldsUpdates'
    BY <2>1 DEF DataInv, UpdatedLast, DumpHoldsUpdates, LogHoldsUpdates, Newest
  <2>4. LogIsNoted'
    BY <2>1 DEF DataInv, LogIsNoted
  <2> QED
    BY <2>2, <2>3, <2>4 DEF DataInv
<1>3. CASE handle # "closed"
  <2>1. /\ in_log' = in_log \cup {r.id}
        /\ log' = Append(log, r)
        /\ truth' = [truth EXCEPT ![r.id] = doc]
        /\ torn' = IF r.op = "set" THEN torn \cup {r.id} ELSE torn \ {r.id}
    BY <1>3 DEF LogData
  <2>2. log \in Seq(Record) /\ Len(log) \in Nat /\ DOMAIN log = 1 .. Len(log)
    BY DEF DataInv, DataTypeOK
  <2>3. /\ log' \in Seq(Record) /\ DOMAIN log' = 1 .. Len(log) + 1
        /\ log'[Len(log) + 1] = r
        /\ \A i \in 1 .. Len(log) : log'[i] = log[i]
    BY <2>1, <2>2
  <2>4. DataTypeOK'
    <3>1. truth' \in Docs /\ disk' \in Docs /\ pending' \in Docs
      BY <1>1, <2>1 DEF DataInv, DataTypeOK, Docs
    <3>2. in_log' \subseteq Id /\ torn' \subseteq Id /\ task' = task
      BY <1>1, <2>1 DEF DataInv, DataTypeOK
    <3>3. \A i \in DOMAIN log' : log'[i].op = "update" => log'[i].data \in Data
      BY <2>2, <2>3 DEF DataInv, DataTypeOK
    <3> QED
      BY <2>3, <3>1, <3>2, <3>3, Zenon DEF DataInv, DataTypeOK
  <2>5. ASSUME NEW id \in Id \ torn', NEW i \in DOMAIN log', Newest(id, i)'
        PROVE  log'[i].op = "update" /\ truth'[id] = log'[i].data
    <3>1. log'[i].id = id /\ \A j \in DOMAIN log' : j > i => log'[j].id # id
      BY <2>5 DEF Newest
    <3>2. CASE id = r.id
      <4>1. r.op = "update"
        BY <1>1, <2>1, <3>2
      <4>2. i = Len(log) + 1
        BY <2>2, <2>3, <3>1, <3>2
      <4>3. truth'[id] = doc
        BY <1>1, <2>1, <3>2 DEF DataInv, DataTypeOK, Docs
      <4> QED
        BY <2>3, <4>1, <4>2, <4>3
    <3>3. CASE id # r.id
      <4>1. i \in 1 .. Len(log) /\ id \in Id \ torn
        BY <2>1, <2>2, <2>3, <3>1, <3>3
      <4>2. Newest(id, i)
        BY <4>1, <2>2, <2>3, <3>1 DEF Newest
      <4>3. log[i].op = "update" /\ truth[id] = log[i].data
        BY <4>1, <4>2, <2>2, Zenon DEF DataInv, UpdatedLast, LogHoldsUpdates
      <4>4. truth'[id] = truth[id]
        BY <2>1, <3>3, <4>1, Zenon DEF DataInv, DataTypeOK, Docs
      <4> QED
        BY <2>3, <4>1, <4>3, <4>4, Zenon
    <3> QED
      BY <3>2, <3>3
  <2>6. ASSUME NEW id \in Id \ torn', \A i \in DOMAIN log' : log'[i].id # id
        PROVE  truth'[id] = disk'[id]
    <3>1. id # r.id
      BY <2>2, <2>3, <2>6
    <3>2. \A i \in DOMAIN log : log[i].id # id
      BY <2>2, <2>3, <2>6
    <3>3. id \in Id \ torn
      BY <2>1, <3>1
    <3>4. truth'[id] = truth[id]
      BY <2>1, <3>1, Zenon DEF DataInv, DataTypeOK, Docs
    <3> QED
      BY <3>2, <3>3, <3>4 DEF DataInv, LogHoldsUpdates
  <2>7. UpdatedLast' /\ LogHoldsUpdates'
    BY <2>5, <2>6, Zenon DEF UpdatedLast, LogHoldsUpdates
  <2>8. LogIsNoted'
    BY <2>1, <2>2, <2>3 DEF DataInv, LogIsNoted
  <2>9. DumpHoldsUpdates'
    BY DEF DataInv, DumpHoldsUpdates
  <2> QED
    BY <2>4, <2>7, <2>8, <2>9 DEF DataInv
<1> QED
  BY <1>2, <1>3

\* The type of the cache after update_cached.
LEMMA CachedType ==
  ASSUME NEW c \in Docs, NEW id \in Id, NEW data \in Data, NEW gone
  PROVE  Cached(c, id, data, gone) \in Docs
BY DEF Cached, Docs

\* a step that touches the cache and its list alone
LEMMA CacheOnlyInv ==
  ASSUME DataInv, cache' \in Docs, UNCHANGED <<in_log, log, disk, pending, task, truth, torn>>
  PROVE  DataInv'
<1>1. DataTypeOK'
  BY DEF DataInv, DataTypeOK
<1>2. UpdatedLast' /\ DumpHoldsUpdates' /\ LogHoldsUpdates' /\ LogIsNoted'
  BY DEF DataInv, UpdatedLast, DumpHoldsUpdates, LogHoldsUpdates, LogIsNoted, Newest
<1> QED
  BY <1>1, <1>2 DEF DataInv

\* Update keeps DataInv.
LEMMA UpdateInv ==
  ASSUME DataInv, NEW id \in Id, NEW d \in Data, Update(id, d)
  PROVE  DataInv'
<1> DEFINE ins == Insert(lru, id)
           r == UpdateRec(id, d)
<1>1. /\ task = "idle"
      /\ cache' = Cached(cache, id, d, ins.out)
      /\ IF ins.ok THEN LogData(r, d) ELSE UNCHANGED <<in_log, handle, log, truth, torn>>
      /\ UNCHANGED <<disk, pending, task>>
  BY Zenon DEF Update, Idle
<1> HIDE DEF ins
<1>2. cache' \in Docs
  BY <1>1, CachedType DEF DataInv, DataTypeOK
<1>3. CASE ins.ok
  <2>1. d \in Setter
    BY DEF Data, Setter
  <2>2. r \in Record /\ r.op = "update" /\ r.data = d
    BY <2>1 DEF UpdateRec, Record
  <2> HIDE DEF r
  <2> QED
    BY <1>1, <1>2, <1>3, <2>2, LogDataInv
<1>4. CASE ~ ins.ok
  BY <1>1, <1>2, <1>4, CacheOnlyInv, Zenon
<1> QED
  BY <1>3, <1>4

\* Set keeps DataInv.
LEMMA SetInv ==
  ASSUME DataInv, NEW id \in Id, NEW f \in Field, NEW v \in Val, Set(id, f, v)
  PROVE  DataInv'
<1> DEFINE r == SetRec(id, f, v)
           doc == Merge(cache[id], r.data)
<1>1. /\ task = "idle" /\ cache[id] # Nil
      /\ cache' = [cache EXCEPT ![id] = doc]
      /\ LogData(r, cache'[id])
      /\ UNCHANGED <<disk, pending, task>>
  BY DEF Set, Idle
<1>2. cache \in Docs
  BY DEF DataInv, DataTypeOK
<1>3. r.data \in Setter
  <2>1. r.data \in [{f} -> Val]
    BY DEF SetRec
  <2> QED
    BY <2>1 DEF Setter
<1>4. doc \in Data
  <2>1. cache[id] \in Data
    BY <1>1, <1>2 DEF Docs
  <2> QED
    BY <1>3, <2>1, MergeType
<1>5. r \in Record /\ r.op = "set"
  BY <1>3 DEF SetRec, Record
<1> HIDE DEF r, doc
<1>6. cache' \in Docs /\ cache'[id] = doc
  BY <1>1, <1>2, <1>4 DEF Docs
<1>7. LogData(r, doc)
  BY <1>1, <1>6
<1>8. r.op = "update" => doc = r.data
  BY <1>5
<1> QED
  BY <1>1, <1>4, <1>5, <1>6, <1>7, <1>8, LogDataInv, Zenon

\* the documents log_recover collects are the ones the log was ahead of the
\* files with
LEMMA CollectedInv ==
  ASSUME DataInv, task \in {"down", "idle"}, NEW c \in Docs, Replay(c).err = "none",
         pending' = Replay(c).info, log' = <<>>, cache' \in Docs,
         task' \in {"start", "timer", "stop"} \cup Id,
         UNCHANGED <<in_log, disk, truth, torn>>
  PROVE  DataInv'
<1>1. DataTypeOK
  BY DEF DataInv
<1>2. Replay(c).info \in Docs
  BY <1>1, ReplayType
<1>3. log' \in Seq(Record) /\ DOMAIN log' = {}
  OBVIOUS
<1>4. task' \notin {"down", "idle"}
  BY DataAssumption
<1>5. DataTypeOK'
  BY <1>1, <1>2, <1>3 DEF DataTypeOK
<1>6. ASSUME NEW id \in Id \ torn
      PROVE  truth[id] = IF Replay(c).info[id] # Nil THEN Replay(c).info[id] ELSE disk[id]
  <2>1. CASE \A i \in DOMAIN log : log[i].id # id
    <3>1. Replay(c).info[id] = Nil
      BY <1>1, <2>1, ReplayGives, Zenon
    <3> QED
      BY <2>1, <3>1, Zenon DEF DataInv, LogHoldsUpdates
  <2>2. CASE \E i \in DOMAIN log : log[i].id = id
    <3> DEFINE T == {k \in Nat : k <= Len(log) /\ Len(log) - k \in DOMAIN log /\ log[Len(log) - k].id = id}
    <3>1. Len(log) \in Nat /\ DOMAIN log = 1 .. Len(log)
      BY <1>1 DEF DataTypeOK
    <3>2. PICK i \in DOMAIN log : log[i].id = id
      BY <2>2
    <3>3. Len(log) - i \in T
      BY <3>1, <3>2
    <3>4. PICK k \in T : \A l \in T : k <= l
      BY <3>3, Least, Zenon
    <3> DEFINE m == Len(log) - k
    <3>5. m \in DOMAIN log /\ log[m].id = id
      BY <3>4
    <3>6. ASSUME NEW j \in DOMAIN log, j > m
          PROVE  log[j].id # id
      <4>1. SUFFICES ASSUME log[j].id = id
                     PROVE  FALSE
        OBVIOUS
      <4>2. Len(log) - j \in T
        BY <3>1, <4>1
      <4> QED
        BY <3>1, <3>4, <3>6, <4>2
    <3> HIDE DEF m, T
    <3>7. Newest(id, m)
      BY <3>5, <3>6 DEF Newest
    <3>8. log[m].op = "update" /\ truth[id] = log[m].data
      BY <3>5, <3>7, Zenon DEF DataInv, UpdatedLast, LogHoldsUpdates
    <3>9. Replay(c).info[id] = log[m].data
      BY <1>1, <3>5, <3>7, <3>8, ReplayGives
    <3>10. log[m].data \in Data
      BY <1>1, <3>5, <3>8, Zenon DEF DataTypeOK
    <3>11. log[m].data # Nil
      BY <3>10, DataAssumption DEF Data
    <3> QED
      BY <3>8, <3>9, <3>11
  <2> QED
    BY <2>1, <2>2, Zenon
<1>7. DumpHoldsUpdates'
  BY <1>4, <1>6, Zenon DEF DumpHoldsUpdates
<1>8. UpdatedLast' /\ LogIsNoted' /\ LogHoldsUpdates'
  BY <1>3, <1>4 DEF UpdatedLast, LogIsNoted, LogHoldsUpdates
<1> QED
  BY <1>5, <1>7, <1>8 DEF DataInv

\* log_recover from a handler
LEMMA RecoverInv ==
  ASSUME DataInv, task = "idle", NEW next \in {"timer", "stop"} \cup Id, Recover(cache, next),
         UNCHANGED <<in_log, disk, truth, torn>>
  PROVE  DataInv'
<1>1. DataTypeOK /\ cache \in Docs
  BY DEF DataInv, DataTypeOK
<1>2. cache' = Replay(cache).cache
  BY DEF Recover
<1>3. cache' \in Docs
  BY <1>1, <1>2, ReplayType
<1>4. CASE Replay(cache).err = "none"
  <2>1. pending' = Replay(cache).info /\ log' = <<>> /\ task' = next
    BY <1>4 DEF Recover
  <2>2. task' \in {"start", "timer", "stop"} \cup Id
    BY <2>1
  <2> QED
    BY <1>1, <1>3, <1>4, <2>1, <2>2, CollectedInv, Zenon
<1>5. CASE Replay(cache).err # "none"
  <2>1. UNCHANGED <<pending, log, task>>
    BY <1>5 DEF Recover
  <2> QED
    BY <1>3, <2>1, CacheOnlyInv
<1> QED
  BY <1>4, <1>5, Zenon

\* The type of the cache after a load.
LEMMA LoadFromDiskType ==
  ASSUME DataTypeOK, NEW id \in Id, LoadFromDisk(id)
  PROVE  cache' \in Docs
<1>1. cache \in Docs /\ disk \in Docs
  BY DEF DataTypeOK
<1>2. CASE disk[id] = Nil
  BY <1>1, <1>2 DEF LoadFromDisk
<1>3. CASE disk[id] # Nil
  <2>1. disk[id] \in Data
    BY <1>1, <1>3 DEF Docs
  <2> QED
    BY <1>1, <1>3, <2>1, CachedType DEF LoadFromDisk
<1> QED
  BY <1>2, <1>3

\* Load keeps DataInv.
LEMMA LoadInv ==
  ASSUME DataInv, NEW id \in Id, Load(id)
  PROVE  DataInv'
<1>1. CASE id \in in_log
  BY <1>1, RecoverInv, Zenon DEF Load
<1>2. CASE id \notin in_log
  <2>1. LoadFromDisk(id) /\ UNCHANGED <<in_log, handle, log, disk, pending, task, truth, torn>>
    BY <1>2 DEF Load
  <2>2. cache' \in Docs
    BY <2>1, LoadFromDiskType DEF DataInv
  <2> QED
    BY <2>1, <2>2, CacheOnlyInv
<1> QED
  BY <1>1, <1>2

\* Flush keeps DataInv.
LEMMA FlushInv ==
  ASSUME DataInv, NEW next \in {"timer", "stop"}, Flush(next)
  PROVE  DataInv'
BY RecoverInv DEF Flush

\* Dump keeps DataInv.
LEMMA DumpInv ==
  ASSUME DataInv, NEW id \in Id, Dump(id)
  PROVE  DataInv'
<1>1. /\ task \notin {"down", "idle"} /\ pending[id] # Nil
      /\ disk' = [disk EXCEPT ![id] = pending[id]]
      /\ pending' = [pending EXCEPT ![id] = Nil]
      /\ UNCHANGED <<cache, in_log, log, task, truth, torn>>
  BY DEF Dump
<1>2. pending \in Docs /\ disk \in Docs
  BY DEF DataInv, DataTypeOK
<1>3. pending' \in Docs /\ disk' \in Docs
  BY <1>1, <1>2 DEF Docs
<1>4. DataTypeOK'
  BY <1>1, <1>3 DEF DataInv, DataTypeOK
<1>5. DumpHoldsUpdates'
  <2> SUFFICES ASSUME NEW i \in Id \ torn
               PROVE  truth[i] = IF pending'[i] # Nil THEN pending'[i] ELSE disk'[i]
    BY <1>1 DEF DataInv, DumpHoldsUpdates
  <2>1. truth[i] = IF pending[i] # Nil THEN pending[i] ELSE disk[i]
    BY <1>1, Zenon DEF DataInv, DumpHoldsUpdates
  <2> QED
    BY <1>1, <1>2, <2>1 DEF Docs
<1>6. UpdatedLast'
  BY <1>1 DEF DataInv, UpdatedLast, Newest
<1>7. LogIsNoted' /\ LogHoldsUpdates'
  BY <1>1 DEF LogIsNoted, LogHoldsUpdates
<1> QED
  BY <1>4, <1>5, <1>6, <1>7 DEF DataInv

\* DumpDone keeps DataInv.
LEMMA DumpDoneInv ==
  ASSUME DataInv, DumpDone
  PROVE  DataInv'
<1>1. /\ task \notin {"down", "idle"} /\ pending = NoDocs /\ in_log' = {} /\ task' = "idle"
      /\ IF task \in Id THEN LoadFromDisk(task) ELSE UNCHANGED <<cache, lru>>
      /\ UNCHANGED <<log, disk, pending, truth, torn>>
  BY Zenon DEF DumpDone
<1>2. DataTypeOK /\ cache \in Docs
  BY DEF DataInv, DataTypeOK
<1>3. cache' \in Docs
  BY <1>1, <1>2, LoadFromDiskType, Zenon
<1>4. DataTypeOK'
  BY <1>1, <1>2, <1>3, Zenon DEF DataTypeOK
<1>5. log = <<>> /\ DOMAIN log = {}
  BY <1>1 DEF DataInv, DumpHoldsUpdates
<1>6. \A id \in Id \ torn : truth[id] = disk[id]
  BY <1>1, Zenon DEF DataInv, DumpHoldsUpdates, NoDocs
<1>7. UpdatedLast' /\ LogIsNoted' /\ LogHoldsUpdates'
  BY <1>1, <1>5, <1>6, Zenon DEF UpdatedLast, LogIsNoted, LogHoldsUpdates
<1>8. DumpHoldsUpdates'
  BY <1>1 DEF DumpHoldsUpdates
<1> QED
  BY <1>4, <1>7, <1>8, Zenon DEF DataInv

\* Crash keeps DataInv.
LEMMA DataCrashInv ==
  ASSUME DataInv, Crash
  PROVE  DataInv'
<1>1. /\ task # "down" /\ task' = "down"
      /\ torn' = torn \cup {id \in Id : pending[id] # Nil}
      /\ cache' = NoDocs /\ in_log' = {} /\ pending' = NoDocs
      /\ UNCHANGED <<log, disk, truth>>
  BY DEF Crash
<1>2. NoDocs \in Docs
  BY Zenon DEF NoDocs, Docs
<1>3. DataTypeOK'
  BY <1>1, <1>2, Zenon DEF DataInv, DataTypeOK
<1>4. UpdatedLast'
  BY <1>1 DEF DataInv, UpdatedLast, Newest
<1>5. DumpHoldsUpdates' /\ LogIsNoted'
  BY <1>1 DEF DumpHoldsUpdates, LogIsNoted
<1>6. LogHoldsUpdates'
  <2>1. CASE task = "idle"
    BY <1>1, <2>1 DEF DataInv, LogHoldsUpdates, Newest
  <2>2. CASE task # "idle"
    <3>1. DOMAIN log = {}
      BY <1>1, <2>2 DEF DataInv, DumpHoldsUpdates
    <3>2. \A id \in Id \ torn' : truth[id] = disk[id]
      BY <1>1, <2>2, Zenon DEF DataInv, DumpHoldsUpdates
    <3> QED
      BY <1>1, <3>1, <3>2, Zenon DEF LogHoldsUpdates
  <2> QED
    BY <2>1, <2>2, Zenon
<1> QED
  BY <1>3, <1>4, <1>5, <1>6 DEF DataInv

\* Restart keeps DataInv.
LEMMA RestartInv ==
  ASSUME DataInv, Restart
  PROVE  DataInv'
<1>1. DataTypeOK /\ cache \in Docs
  BY DEF DataInv, DataTypeOK
<1> QED
  BY <1>1, CollectedInv DEF Restart

\* Every step of the data server keeps DataInv: the log and the files together
\* hold the updates, at every moment of a dump.
THEOREM DataInvariance == DataSpec => []DataInv
<1>1. DataInit => DataInv
  BY DataInitInv, Zenon
<1>2. DataInv /\ [DataNext]_data_vars => DataInv'
  <2> SUFFICES ASSUME DataInv, [DataNext]_data_vars
               PROVE  DataInv'
    OBVIOUS
  <2>1. ASSUME NEW id \in Id, NEW d \in Data, Update(id, d) PROVE DataInv'
    BY <2>1, UpdateInv
  <2>2. ASSUME NEW id \in Id, NEW f \in Field, NEW v \in Val, Set(id, f, v) PROVE DataInv'
    BY <2>2, SetInv
  <2>3. ASSUME NEW id \in Id, Load(id) PROVE DataInv'
    BY <2>3, LoadInv
  <2>4. ASSUME NEW id \in Id, Dump(id) PROVE DataInv'
    BY <2>4, DumpInv
  <2>5. CASE Flush("timer") \/ Flush("stop")
    BY <2>5, FlushInv
  <2>6. CASE DumpDone
    BY <2>6, DumpDoneInv
  <2>7. CASE Crash
    BY <2>7, DataCrashInv
  <2>8. CASE Restart
    BY <2>8, RestartInv
  <2>9. CASE UNCHANGED data_vars
    <3>1. cache' \in Docs /\ UNCHANGED <<in_log, log, disk, pending, task, truth, torn>>
      BY <2>9 DEF data_vars, DataInv, DataTypeOK
    <3> QED
      BY <3>1, CacheOnlyInv, Zenon
  <2> QED
    BY <2>1, <2>2, <2>3, <2>4, <2>5, <2>6, <2>7, <2>8, <2>9, Zenon DEF DataNext
<1> QED
  BY <1>1, <1>2, PTL DEF DataSpec

\* No acknowledged update is lost: the newest update in the log, or the file if
\* the log has none, is the document, whatever crashes, failed recoveries and
\* raised updates came before (log_data, log_recover).
THEOREM UpdatesAreHeld == DataSpec => []LogHoldsUpdates
<1>1. DataInv => LogHoldsUpdates
  BY Zenon DEF DataInv
<1> QED
  BY <1>1, DataInvariance, PTL

\* load reads the file only where the file is the document (_data_in_log).
THEOREM LoadsAreCurrent == DataSpec => []DiskIsCurrent
<1>1. DataInv => DiskIsCurrent
  <2> SUFFICES ASSUME DataInv, task = "idle", NEW id \in Id \ torn, id \notin in_log
               PROVE  disk[id] = truth[id]
    BY DEF DiskIsCurrent
  <2>1. \A i \in DOMAIN log : log[i].id # id
    BY DEF DataInv, LogIsNoted
  <2> QED
    BY <2>1 DEF DataInv, LogHoldsUpdates
<1> QED
  BY <1>1, DataInvariance, PTL

-----------------------------------------------------------------------------
(* identifiers *)

\* cursor * DistOffset + dist determines the cursor and the number.
LEMMA UidInjective ==
  ASSUME NEW a \in Nat, NEW b \in Nat,
         NEW d \in 0 .. DistOffset - 1, NEW e \in 0 .. DistOffset - 1,
         a * DistOffset + d = b * DistOffset + e
  PROVE  a = b /\ d = e
<1>1. ASSUME NEW x \in Nat, NEW y \in Nat, x < y PROVE x * DistOffset + DistOffset <= y * DistOffset
  <2>1. PICK k \in Nat : y = x + 1 + k
    <3>1. y - x - 1 \in Nat /\ y = x + 1 + (y - x - 1)
      BY <1>1
    <3> QED BY <3>1
  <2>2. y * DistOffset = x * DistOffset + DistOffset + k * DistOffset
    BY <2>1, IdAssumption
  <2>3. k * DistOffset \in Nat /\ x * DistOffset \in Nat
    BY IdAssumption
  <2> QED BY <2>2, <2>3, IdAssumption
<1>2. a * DistOffset \in Nat /\ b * DistOffset \in Nat /\ DistOffset \in Nat
  BY IdAssumption
<1>3. CASE a < b
  BY <1>1, <1>2, <1>3
<1>4. CASE b < a
  BY <1>1, <1>2, <1>4
<1>5. CASE a = b
  BY <1>2, <1>5
<1> QED BY <1>3, <1>4, <1>5

\* What the types say of one process and one identifier.
LEMMA TypeFacts ==
  ASSUME IdTypeOK
  PROVE  /\ counter \in Nat /\ Section \in Nat /\ DistOffset \in Nat
         /\ \A s \in Server :
              /\ proc[s].dist \in Nat /\ proc[s].dist < DistOffset
              /\ proc[s].begin \in Nat /\ proc[s].cursor \in Nat
              /\ net[s] \in Seq(Nat)
              /\ proc[s].dist # 0 => proc[s].dist \in 1 .. DistOffset - 1
         /\ \A d \in 1 .. DistOffset - 1 : db[d] \in Nat
         /\ \A i \in DOMAIN issued :
              issued[i].uid \in Nat /\ issued[i].dist \in 1 .. DistOffset - 1 /\ issued[i].cursor \in Nat
         /\ issued \in Seq([uid : Nat, dist : 1 .. DistOffset - 1, cursor : Nat])
         /\ DOMAIN issued = 1 .. Len(issued) /\ Len(issued) \in Nat
<1> USE IdAssumption DEF IdTypeOK
<1>1. \A s \in Server : net[s] \in Seq(Nat)
  <2> SUFFICES ASSUME NEW s \in Server PROVE net[s] \in Seq(Nat)
    OBVIOUS
  <2>1. net[s] \in Seq(Nat \ {0})
    OBVIOUS
  <2> QED BY <2>1
<1>2. \A R : \A q \in Seq(R) : Len(q) \in Nat /\ DOMAIN q = 1 .. Len(q) /\ \A i \in DOMAIN q : q[i] \in R
  OBVIOUS
<1>3. issued \in Seq([uid : Nat, dist : 1 .. DistOffset - 1, cursor : Nat])
  OBVIOUS
<1>4. /\ DOMAIN issued = 1 .. Len(issued) /\ Len(issued) \in Nat
      /\ \A i \in DOMAIN issued : issued[i] \in [uid : Nat, dist : 1 .. DistOffset - 1, cursor : Nat]
  BY <1>2, <1>3, Zenon
<1>5. \A i \in DOMAIN issued :
        issued[i].uid \in Nat /\ issued[i].dist \in 1 .. DistOffset - 1 /\ issued[i].cursor \in Nat
  BY <1>4, Zenon
<1>6. \A s \in Server : proc[s] \in [st : {"off", "init", "run"}, dist : 0 .. DistOffset - 1,
                                     begin : Nat, cursor : Nat]
  OBVIOUS
<1>7. \A s \in Server : /\ proc[s].dist \in 0 .. DistOffset - 1
                        /\ proc[s].begin \in Nat /\ proc[s].cursor \in Nat
  BY <1>6
<1>8. \A d \in 1 .. DistOffset - 1 : db[d] \in Nat
  OBVIOUS
<1>9. counter \in Nat /\ Section \in Nat /\ DistOffset \in Nat
  BY Zenon
<1> HIDE DEF IdTypeOK
<1> QED BY <1>1, <1>3, <1>4, <1>5, <1>7, <1>8, <1>9

\* The invariant of the identifiers holds at first.
LEMMA InitId == IdInit => IdInv
<1> SUFFICES ASSUME IdInit PROVE IdInv
  OBVIOUS
<1> USE IdAssumption DEF IdInit
<1>1. IdTypeOK
  BY DEF IdTypeOK, Off
<1>2. DOMAIN issued = {}
  OBVIOUS
<1>3. \A s \in Server : proc[s] = Off /\ net[s] = <<>>
  OBVIOUS
<1> QED BY <1>1, <1>2, <1>3 DEF IdInv, Off, Numbers, Sections, IssuedBefore, IssuedOnce

\* Apply keeps IdInv.
LEMMA ApplyId ==
  ASSUME IdInv, NEW s \in Server, NEW arrives \in BOOLEAN, Apply(s, arrives)
  PROVE  IdInv'
<1>t. IdTypeOK
  BY Zenon DEF IdInv
<1>f. counter \in Nat /\ counter < counter + 1
  BY <1>t, TypeFacts
<1>1. CASE ~ (arrives /\ counter < DistOffset)
  <2>1. counter' = counter + 1 /\ file' = counter + 1 /\ UNCHANGED <<proc, net, db, issued>>
    BY <1>1, Zenon DEF Apply
  <2>2. IdTypeOK'
    BY <2>1, <1>t DEF IdTypeOK
  <2>3. \A t \in Server : Saved(t)' = Saved(t)
    BY <2>1, Zenon DEF Saved
  <2>4. \A t \in Server : proc'[t].dist < counter'
    BY <2>1, <1>t, <1>f, TypeFacts DEF IdInv, Numbers
  <2>5. \A i \in DOMAIN issued' : issued'[i].dist < counter'
    BY <2>1, <1>t, <1>f, TypeFacts DEF IdInv, IssuedBefore
  <2>6. Numbers'
    BY <2>1, <2>4 DEF IdInv, Numbers
  <2>7. Sections'
    BY <2>1, <2>3, Zenon DEF IdInv, Sections
  <2>8. IssuedBefore'
    BY <2>1, <2>3, <2>5, Zenon DEF IdInv, IssuedBefore, Passed
  <2>9. IssuedOnce'
    BY <2>1 DEF IdInv, IssuedOnce
  <2> QED BY <2>2, <2>6, <2>7, <2>8, <2>9, Zenon DEF IdInv
<1>2. CASE arrives /\ counter < DistOffset
  <2>1. /\ counter' = counter + 1 /\ file' = counter + 1 /\ UNCHANGED <<db, issued>>
        /\ proc' = [proc EXCEPT ![s] = Started(counter)]
        /\ net' = [net EXCEPT ![s] = <<>>]
    BY <1>2, Zenon DEF Apply
  <2>2. IdTypeOK'
    <3>1. Started(counter)
            \in [st : {"off", "init", "run"}, dist : 0 .. DistOffset - 1, begin : Nat, cursor : Nat]
      BY <1>2, <1>f, IdAssumption DEF Started
    <3>2. <<>> \in Seq(Nat \ {0})
      OBVIOUS
    <3> QED BY <2>1, <3>1, <3>2, <1>t, <1>f DEF IdTypeOK
  <2>3. \A t \in Server : t # s => proc'[t] = proc[t] /\ net'[t] = net[t]
    BY <2>1, <1>t, Zenon DEF IdTypeOK
  <2>4. proc'[s].dist = counter /\ proc'[s].st = "init" /\ net'[s] = <<>>
    BY <2>1, <1>t, Zenon DEF IdTypeOK, Started
  <2>5. \A t \in Server : t # s => Saved(t)' = Saved(t)
    BY <2>1, <2>3 DEF Saved
  <2>6. Numbers'
    <3>1. \A t \in Server : proc'[t].dist < counter'
      BY <2>1, <2>3, <2>4, <1>t, <1>f, TypeFacts DEF IdInv, Numbers
    <3>2. \A t \in Server : t # s => proc'[t].dist # counter
      BY <2>3, <1>t, <1>f, TypeFacts DEF IdInv, Numbers
    <3>3. counter # 0
      BY <1>t DEF IdTypeOK
    <3> QED BY <2>1, <2>3, <2>4, <3>1, <3>2, <3>3 DEF IdInv, Numbers
  <2>7. Sections'
    BY <2>3, <2>4, <2>5 DEF IdInv, Sections
  <2>8. IssuedBefore'
    <3> SUFFICES ASSUME NEW i \in DOMAIN issued'
                 PROVE  /\ issued'[i].uid = issued'[i].cursor * DistOffset + issued'[i].dist
                        /\ issued'[i].dist < counter'
                        /\ \A t \in Server : proc'[t].dist = issued'[i].dist => Passed(issued[i], t)'
      BY DEF IssuedBefore
    <3>1. issued'[i].dist < counter /\ issued'[i].dist < counter' /\ issued'[i].dist # counter
      BY <2>1, <1>t, <1>f, TypeFacts DEF IdInv, IssuedBefore
    <3>2. ASSUME NEW t \in Server, proc'[t].dist = issued'[i].dist PROVE Passed(issued[i], t)'
      <4>1. t # s
        BY <2>4, <3>1, <3>2, Zenon
      <4>2. Passed(issued[i], t)
        BY <2>1, <2>3, <3>2, <4>1 DEF IdInv, IssuedBefore
      <4> QED BY <2>1, <2>3, <2>5, <4>1, <4>2, Zenon DEF Passed
    <3> QED BY <2>1, <3>1, <3>2 DEF IdInv, IssuedBefore
  <2>9. IssuedOnce'
    BY <2>1, Zenon DEF IdInv, IssuedOnce
  <2> QED BY <2>2, <2>6, <2>7, <2>8, <2>9 DEF IdInv
<1> QED BY <1>1, <1>2

\* Numbers does not look at what a step of one process changes.
LEMMA NumbersKept ==
  ASSUME IdInv, NEW s \in Server, UNCHANGED <<counter, file>>,
         \A t \in Server : proc'[t].dist = proc[t].dist,
         \A t \in Server : t # s => proc'[t] = proc[t] /\ net'[t] = net[t],
         proc[s].dist # 0
  PROVE  Numbers'
BY DEF IdInv, Numbers

\* A step of process s that issues nothing keeps the other processes' part.
LEMMA OthersKept ==
  ASSUME IdInv, NEW s \in Server, UNCHANGED <<counter, issued>>,
         \A t \in Server : t # s => proc'[t] = proc[t] /\ net'[t] = net[t],
         \A t \in Server : t # s /\ proc[t].dist # 0 => Saved(t)' = Saved(t),
         proc'[s].dist = proc[s].dist,
         \A i \in DOMAIN issued : proc[s].dist = issued[i].dist => Passed(issued[i], s)'
  PROVE  IssuedBefore' /\ IssuedOnce'
<1>t. IdTypeOK
  BY Zenon DEF IdInv
<1>1. \A i \in DOMAIN issued : issued[i].dist # 0
  BY <1>t, TypeFacts
<1>2. ASSUME NEW i \in DOMAIN issued, NEW t \in Server, proc'[t].dist = issued[i].dist
      PROVE  Passed(issued[i], t)'
  <2>1. CASE t = s
    BY <1>2, <2>1, Zenon
  <2>2. CASE t # s
    <3>1. Passed(issued[i], t) /\ proc'[t] = proc[t] /\ Saved(t)' = Saved(t)
      BY <1>1, <1>2, <2>2 DEF IdInv, IssuedBefore
    <3> QED BY <3>1, Zenon DEF Passed
  <2> QED BY <2>1, <2>2
<1>3. \A i \in DOMAIN issued : /\ issued[i].uid = issued[i].cursor * DistOffset + issued[i].dist
                               /\ issued[i].dist < counter
  BY Zenon DEF IdInv, IssuedBefore
<1>4. IssuedBefore'
  BY <1>2, <1>3, Zenon DEF IssuedBefore
<1> QED BY <1>4, Zenon DEF IdInv, IssuedOnce

\* StartAgain keeps IdInv.
LEMMA StartAgainId ==
  ASSUME IdInv, NEW s \in Server, StartAgain(s)
  PROVE  IdInv'
<1>t. IdTypeOK
  BY DEF IdInv
<1>1. /\ s \in Keeper /\ proc[s].st = "off" /\ proc[s].dist # 0 /\ net[s] = <<>>
      /\ proc' = [proc EXCEPT ![s].st = "init"]
      /\ UNCHANGED <<counter, file, net, db, issued>>
  BY DEF StartAgain
<1>2. \A t \in Server : t # s => proc'[t] = proc[t]
  BY <1>1, <1>t DEF IdTypeOK
<1>3. proc'[s] = [proc[s] EXCEPT !.st = "init"]
  BY <1>1, <1>t DEF IdTypeOK
<1>4. proc'[s].st = "init" /\ proc'[s].dist = proc[s].dist
  BY <1>3, <1>t DEF IdTypeOK
<1>5. IdTypeOK'
  BY <1>1, <1>t, Zenon DEF IdTypeOK
<1>6. \A t \in Server : Saved(t)' = Saved(t)
  BY <1>1, <1>2, <1>4 DEF Saved
<1>7. Numbers'
  BY <1>1, <1>2, <1>4, NumbersKept
<1>8. Sections'
  BY <1>1, <1>2, <1>4, <1>6 DEF IdInv, Sections
<1>9. \A i \in DOMAIN issued : proc[s].dist = issued[i].dist => Passed(issued[i], s)'
  BY <1>1, <1>4, <1>6 DEF IdInv, IssuedBefore, Passed
<1>10. IssuedBefore' /\ IssuedOnce'
  BY <1>1, <1>2, <1>4, <1>6, <1>9, OthersKept
<1> QED BY <1>5, <1>7, <1>8, <1>10 DEF IdInv

\* BuilderInit keeps IdInv.
LEMMA BuilderInitId ==
  ASSUME IdInv, NEW s \in Server, BuilderInit(s)
  PROVE  IdInv'
<1> DEFINE begin == IF db[proc[s].dist] = 0 THEN 1 ELSE db[proc[s].dist] + Section
<1>t. IdTypeOK
  BY DEF IdInv
<1>1. /\ proc[s].st = "init"
      /\ proc' = [proc EXCEPT ![s].st = "run", ![s].begin = begin, ![s].cursor = begin]
      /\ net' = [net EXCEPT ![s] = Append(net[s], begin)]
      /\ UNCHANGED <<counter, file, db, issued>>
  BY Zenon DEF BuilderInit
<1>2. proc[s].dist # 0 /\ net[s] = <<>> /\ proc[s].dist \in 1 .. DistOffset - 1
  BY <1>1, <1>t, TypeFacts, Zenon DEF IdInv, Numbers, Sections
<1>3. begin \in Nat \ {0} /\ db[proc[s].dist] \in Nat
  BY <1>2, <1>t, TypeFacts, IdAssumption
<1> HIDE DEF begin
<1>4. \A t \in Server : t # s => proc'[t] = proc[t] /\ net'[t] = net[t]
  BY <1>1, <1>t DEF IdTypeOK
<1>5. /\ proc'[s].st = "run" /\ proc'[s].dist = proc[s].dist
      /\ proc'[s].begin = begin /\ proc'[s].cursor = begin
  BY <1>1, <1>t DEF IdTypeOK
<1>6. net'[s] = <<begin>>
  BY <1>1, <1>2, <1>t DEF IdTypeOK
<1>7. IdTypeOK'
  <2>1. net'[s] \in Seq(Nat \ {0})
    BY <1>3, <1>6
  <2>2. net' \in [Server -> Seq(Nat \ {0})]
    BY <1>1, <2>1, <1>t DEF IdTypeOK
  <2>3. proc' \in [Server -> [st : {"off", "init", "run"}, dist : 0 .. DistOffset - 1,
                              begin : Nat, cursor : Nat]]
    BY <1>1, <1>3, <1>t, Zenon DEF IdTypeOK
  <2> QED BY <1>1, <2>2, <2>3, <1>t, Zenon DEF IdTypeOK
<1>8. Saved(s)' = begin
  BY <1>6 DEF Saved
<1>9. \A t \in Server : t # s => Saved(t)' = Saved(t)
  <2>1. db' = db
    BY <1>1
  <2> QED BY <1>4, <2>1 DEF Saved
<1>10. Numbers'
  BY <1>1, <1>2, <1>4, <1>5, NumbersKept, Zenon
<1>11. Sections'
  <2>1. begin >= 1 /\ begin <= begin /\ begin < begin + Section
    BY <1>3, IdAssumption
  <2> QED BY <2>1, <1>4, <1>5, <1>8, <1>9 DEF IdInv, Sections
<1>12. \A i \in DOMAIN issued : proc[s].dist = issued[i].dist => Passed(issued[i], s)'
  <2> SUFFICES ASSUME NEW i \in DOMAIN issued, proc[s].dist = issued[i].dist
               PROVE  Passed(issued[i], s)'
    OBVIOUS
  <2>1. Saved(s) # 0 /\ issued[i].cursor < Saved(s) + Section
    BY <1>1, Zenon DEF IdInv, IssuedBefore, Passed
  <2>2. Saved(s) = db[proc[s].dist]
    BY <1>2 DEF Saved
  <2>3. issued[i].cursor < begin
    BY <2>1, <2>2 DEF begin
  <2> QED BY <1>1, <1>5, <2>3 DEF Passed
<1>13. IssuedBefore' /\ IssuedOnce'
  BY <1>1, <1>4, <1>5, <1>9, <1>12, OthersKept, Zenon
<1> QED BY <1>7, <1>10, <1>11, <1>13 DEF IdInv

\* Alloc keeps IdInv.
LEMMA AllocId ==
  ASSUME IdInv, NEW s \in Server, Alloc(s)
  PROVE  IdInv'
<1> DEFINE next == proc[s].cursor + 1
           full == next >= proc[s].begin + Section
           new == [uid |-> Uid(s), dist |-> proc[s].dist, cursor |-> proc[s].cursor]
<1>t. IdTypeOK
  BY DEF IdInv
<1>1. /\ proc[s].st = "run"
      /\ issued' = Append(issued, new)
      /\ proc' = [proc EXCEPT ![s].cursor = next, ![s].begin = IF full THEN next ELSE proc[s].begin]
      /\ net' = IF full THEN [net EXCEPT ![s] = Append(net[s], next)] ELSE net
      /\ UNCHANGED <<counter, file, db>>
  BY Zenon DEF Alloc
<1>2. /\ proc[s].dist \in 1 .. DistOffset - 1 /\ proc[s].cursor \in Nat /\ proc[s].begin \in Nat
      /\ next \in Nat \ {0} /\ proc[s].dist < counter /\ proc[s].dist # 0
      /\ proc[s].begin >= 1 /\ proc[s].begin <= proc[s].cursor /\ proc[s].cursor < proc[s].begin + Section
      /\ Saved(s) = proc[s].begin
  <2>1. proc[s].st = "run"
    BY <1>1, Zenon
  <2>2. proc[s].dist # 0 /\ proc[s].dist < counter
    BY <2>1, Zenon DEF IdInv, Numbers
  <2>3. /\ proc[s].begin >= 1 /\ proc[s].begin <= proc[s].cursor
        /\ proc[s].cursor < proc[s].begin + Section /\ Saved(s) = proc[s].begin
    BY <2>1, Zenon DEF IdInv, Sections
  <2>4. proc[s].dist \in 1 .. DistOffset - 1 /\ proc[s].cursor \in Nat /\ proc[s].begin \in Nat
    BY <2>2, <1>t, TypeFacts
  <2>5. next \in Nat \ {0}
    BY <2>4
  <2> QED BY <2>2, <2>3, <2>4, <2>5
<1>3. \A t \in Server : t # s => proc'[t] = proc[t] /\ net'[t] = net[t]
  BY <1>1, <1>t DEF IdTypeOK
<1>4. /\ proc'[s].st = "run" /\ proc'[s].dist = proc[s].dist /\ proc'[s].cursor = next
      /\ proc'[s].begin = IF full THEN next ELSE proc[s].begin
  BY <1>1, <1>t DEF IdTypeOK
<1>5. new \in [uid : Nat, dist : 1 .. DistOffset - 1, cursor : Nat]
  BY <1>2, IdAssumption DEF Uid
<1>6. IdTypeOK'
  <2>1. issued' \in Seq([uid : Nat, dist : 1 .. DistOffset - 1, cursor : Nat])
    <3>1. \A R : \A q \in Seq(R), e \in R : Append(q, e) \in Seq(R)
      OBVIOUS
    <3> QED BY <1>1, <1>5, <1>t, <3>1, TypeFacts, Zenon
  <2>2. Append(net[s], next) \in Seq(Nat \ {0})
    BY <1>2, <1>t DEF IdTypeOK
  <2>3. net' \in [Server -> Seq(Nat \ {0})]
    BY <1>1, <2>2, <1>t DEF IdTypeOK
  <2>4. proc' \in [Server -> [st : {"off", "init", "run"}, dist : 0 .. DistOffset - 1,
                              begin : Nat, cursor : Nat]]
    BY <1>1, <1>2, <1>t, Zenon DEF IdTypeOK
  <2> QED BY <1>1, <2>1, <2>3, <2>4, <1>t, Zenon DEF IdTypeOK
<1>7. Saved(s)' = proc'[s].begin
  <2>1. CASE full
    <3>1. net'[s] = Append(net[s], next) /\ net[s] \in Seq(Nat)
      BY <1>1, <2>1, <1>t, TypeFacts, Zenon DEF IdTypeOK
    <3>2. \A w \in Seq(Nat), e \in Nat : Append(w, e) # <<>> /\ Append(w, e)[Len(Append(w, e))] = e
      OBVIOUS
    <3>3. next \in Nat
      BY <1>2, Zenon
    <3> HIDE DEF next
    <3>4. net'[s] # <<>> /\ net'[s][Len(net'[s])] = next
      BY <3>1, <3>2, <3>3, Zenon
    <3> QED BY <1>4, <2>1, <3>4 DEF Saved
  <2>2. CASE ~ full
    BY <1>1, <1>2, <1>4, <2>2, Zenon DEF Saved
  <2> QED BY <2>1, <2>2
<1>8. \A t \in Server : t # s => Saved(t)' = Saved(t)
  <2>1. db' = db
    BY <1>1
  <2> QED BY <1>3, <2>1 DEF Saved
<1>9. Numbers'
  BY <1>1, <1>2, <1>3, <1>4, NumbersKept, Zenon
<1>10. Sections'
  <2>1. /\ proc'[s].begin >= 1 /\ proc'[s].begin <= proc'[s].cursor
        /\ proc'[s].cursor < proc'[s].begin + Section
    BY <1>2, <1>4, IdAssumption
  <2> QED BY <2>1, <1>3, <1>4, <1>7, <1>8, Zenon DEF IdInv, Sections
<1>11. /\ DOMAIN issued' = 1 .. Len(issued) + 1 /\ DOMAIN issued = 1 .. Len(issued)
       /\ Len(issued) \in Nat
       /\ issued'[Len(issued) + 1] = new
       /\ \A i \in DOMAIN issued : issued'[i] = issued[i]
  <2> DEFINE R == [uid : Nat, dist : 1 .. DistOffset - 1, cursor : Nat]
  <2>1. issued \in Seq(R) /\ new \in R
    BY <1>5, <1>t, TypeFacts, Zenon
  <2>2. /\ DOMAIN Append(issued, new) = 1 .. Len(issued) + 1 /\ DOMAIN issued = 1 .. Len(issued)
        /\ Len(issued) \in Nat /\ Append(issued, new)[Len(issued) + 1] = new
        /\ \A i \in 1 .. Len(issued) : Append(issued, new)[i] = issued[i]
    <3> HIDE DEF new, R
    <3> QED BY <2>1
  <2> HIDE DEF new
  <2> QED BY <1>1, <2>2, Zenon
<1>12. \A i \in DOMAIN issued' : i \in DOMAIN issued \/ i = Len(issued) + 1
  BY <1>11
<1>13. new.dist = proc[s].dist /\ new.cursor = proc[s].cursor /\ new.uid = Uid(s)
  OBVIOUS
<1> HIDE DEF new
<1>14. \A i \in DOMAIN issued : proc[s].dist = issued[i].dist => issued[i].cursor < proc[s].cursor
  BY <1>1, Zenon DEF IdInv, IssuedBefore, Passed
<1>15. ASSUME NEW i \in DOMAIN issued PROVE issued[i].cursor \in Nat /\ issued[i].dist # 0
  BY <1>t, TypeFacts
<1>16. IssuedBefore'
  <2>1. ASSUME NEW i \in DOMAIN issued
        PROVE  /\ issued'[i].uid = issued'[i].cursor * DistOffset + issued'[i].dist
               /\ issued'[i].dist < counter'
               /\ \A t \in Server : proc'[t].dist = issued'[i].dist => Passed(issued[i], t)'
    <3>1. /\ issued'[i].uid = issued'[i].cursor * DistOffset + issued'[i].dist
          /\ issued'[i].dist < counter'
      BY <1>1, <1>11, Zenon DEF IdInv, IssuedBefore
    <3>2. ASSUME NEW t \in Server, proc'[t].dist = issued'[i].dist PROVE Passed(issued[i], t)'
      <4>1. CASE t = s
        <5>1. issued'[i].cursor < proc'[s].cursor
          BY <1>2, <1>4, <1>11, <1>14, <1>15, <3>2, <4>1
        <5> QED BY <5>1, <4>1, <1>4, Zenon DEF Passed
      <4>2. CASE t # s
        <5>1. Passed(issued[i], t) /\ proc'[t] = proc[t] /\ Saved(t)' = Saved(t) /\ issued'[i] = issued[i]
          BY <1>3, <1>8, <1>11, <3>2, <4>2 DEF IdInv, IssuedBefore
        <5> QED BY <5>1, Zenon DEF Passed
      <4> QED BY <4>1, <4>2, Zenon
    <3> QED BY <3>1, <3>2, Zenon
  <2>2. ASSUME NEW i, i = Len(issued) + 1
        PROVE  /\ issued'[i].uid = issued'[i].cursor * DistOffset + issued'[i].dist
               /\ issued'[i].dist < counter'
               /\ \A t \in Server : proc'[t].dist = issued'[i].dist => Passed(issued[i], t)'
    <3>1. issued'[i] = new
      BY <1>11, <2>2, Zenon
    <3>2. ASSUME NEW t \in Server, proc'[t].dist = issued'[i].dist PROVE Passed(issued[i], t)'
      <4>1. t = s
        BY <1>2, <1>3, <1>13, <3>1, <3>2, Zenon DEF IdInv, Numbers
      <4>2. issued'[i].cursor < proc'[s].cursor
        BY <1>2, <1>4, <1>13, <3>1
      <4> QED BY <1>4, <4>1, <4>2, Zenon DEF Passed
    <3> QED BY <1>1, <1>2, <1>13, <3>1, <3>2, Zenon DEF Uid
  <2> QED BY <1>12, <2>1, <2>2 DEF IssuedBefore
<1>17. IssuedOnce'
  <2> SUFFICES ASSUME NEW i \in DOMAIN issued', NEW j \in DOMAIN issued',
                      issued'[i].dist = issued'[j].dist, issued'[i].cursor = issued'[j].cursor
               PROVE  i = j
    BY Zenon DEF IssuedOnce
  <2>1. CASE i \in DOMAIN issued /\ j \in DOMAIN issued
    BY <1>11, <2>1, Zenon DEF IdInv, IssuedOnce
  <2>2. CASE i \in DOMAIN issued /\ j = Len(issued) + 1
    BY <1>2, <1>11, <1>13, <1>14, <1>15, <2>2
  <2>3. CASE j \in DOMAIN issued /\ i = Len(issued) + 1
    BY <1>2, <1>11, <1>13, <1>14, <1>15, <2>3
  <2> QED BY <1>12, <2>1, <2>2, <2>3
<1> QED BY <1>6, <1>9, <1>10, <1>16, <1>17 DEF IdInv

\* WorldRestart keeps IdInv.
LEMMA WorldRestartId ==
  ASSUME IdInv, WorldRestart
  PROVE  IdInv'
<1>1. UNCHANGED id_vars
  BY DEF WorldRestart, IdInv, Numbers, id_vars
<1> QED BY <1>1
  DEF id_vars, IdInv, IdTypeOK, Numbers, Sections, IssuedBefore, IssuedOnce, Passed, Saved

\* DbUpdate keeps IdInv.
LEMMA DbUpdateId ==
  ASSUME IdInv, NEW s \in Server, DbUpdate(s)
  PROVE  IdInv'
<1>t. IdTypeOK
  BY DEF IdInv
<1>1. /\ net[s] # <<>>
      /\ db' = [db EXCEPT ![proc[s].dist] = Head(net[s])]
      /\ net' = [net EXCEPT ![s] = Tail(net[s])]
      /\ UNCHANGED <<counter, file, proc, issued>>
  BY DEF DbUpdate
<1>2. /\ proc[s].dist # 0 /\ proc[s].dist \in 1 .. DistOffset - 1
      /\ net[s] \in Seq(Nat \ {0})
  BY <1>1, <1>t, TypeFacts, Zenon DEF IdInv, Numbers, IdTypeOK
<1>3. \A w \in Seq(Nat \ {0}) : w # <<>> =>
         /\ Head(w) \in Nat \ {0} /\ Tail(w) \in Seq(Nat \ {0})
         /\ IF Tail(w) = <<>> THEN w[Len(w)] = Head(w) ELSE Tail(w)[Len(Tail(w))] = w[Len(w)]
  <2> SUFFICES ASSUME NEW w \in Seq(Nat \ {0}), w # <<>>
               PROVE  /\ Head(w) \in Nat \ {0} /\ Tail(w) \in Seq(Nat \ {0})
                      /\ Tail(w) = <<>> => w[Len(w)] = Head(w)
                      /\ Tail(w) # <<>> => Tail(w)[Len(Tail(w))] = w[Len(w)]
    OBVIOUS
  <2>1. Head(w) \in Nat \ {0} /\ Tail(w) \in Seq(Nat \ {0})
    OBVIOUS
  <2>2. Len(Tail(w)) = Len(w) - 1 /\ Len(w) \in Nat \ {0} /\ Head(w) = w[1]
    OBVIOUS
  <2>e. Tail(w) = <<>> <=> Len(Tail(w)) = 0
    <3>1. \A v \in Seq(Nat \ {0}) : v = <<>> <=> Len(v) = 0
      OBVIOUS
    <3> QED BY <2>1, <3>1, Zenon
  <2>3. CASE Len(w) = 1
    <3>1. Tail(w) = <<>> /\ w[Len(w)] = Head(w)
      BY <2>2, <2>3, <2>e
    <3> QED BY <2>1, <3>1, Zenon
  <2>4. CASE Len(w) # 1
    <3>1. Len(Tail(w)) \in 1 .. Len(w) - 1
      BY <2>2, <2>4
    <3>2. Tail(w)[Len(Tail(w))] = w[Len(Tail(w)) + 1]
      BY <3>1
    <3>3. Len(Tail(w)) + 1 = Len(w) /\ Len(Tail(w)) # 0
      BY <2>2, <3>1
    <3>4. Tail(w) # <<>> /\ Tail(w)[Len(Tail(w))] = w[Len(w)]
      BY <2>e, <3>2, <3>3, Zenon
    <3> QED BY <2>1, <3>4, Zenon
  <2> QED BY <2>3, <2>4
<1>4. IdTypeOK'
  BY <1>1, <1>2, <1>3, <1>t DEF IdTypeOK
<1>5. \A t \in Server : t # s => net'[t] = net[t]
  BY <1>1, <1>t DEF IdTypeOK
<1>6. Saved(s)' = Saved(s)
  <2>1. net'[s] = Tail(net[s]) /\ db'[proc[s].dist] = Head(net[s]) /\ proc' = proc
    BY <1>1, <1>2, <1>t, Zenon DEF IdTypeOK
  <2> QED BY <1>1, <1>2, <1>3, <2>1, Zenon DEF Saved
<1>7. \A t \in Server : t # s /\ proc[t].dist # 0 => Saved(t)' = Saved(t)
  <2> SUFFICES ASSUME NEW t \in Server, t # s, proc[t].dist # 0
               PROVE  Saved(t)' = Saved(t)
    BY Zenon
  <2>1. proc[t].dist # proc[s].dist /\ proc[t].dist \in 1 .. DistOffset - 1
    BY <1>2, <1>t, TypeFacts, Zenon DEF IdInv, Numbers
  <2>2. db'[proc[t].dist] = db[proc[t].dist] /\ proc' = proc
    BY <1>1, <2>1, <1>t, Zenon DEF IdTypeOK
  <2> QED BY <1>5, <2>2, Zenon DEF Saved
<1>8. Numbers'
  BY <1>1, <1>2, <1>5, NumbersKept, Zenon
<1>9. Sections'
  <2>1. ASSUME NEW t \in Server
        PROVE  /\ proc[t].st = "init" => net'[t] = <<>>
               /\ proc[t].st = "run" => Saved(t)' = proc[t].begin
    <3>1. proc[s].st # "init"
      BY <1>1, Zenon DEF IdInv, Sections
    <3>2. proc[t].st = "run" => proc[t].dist # 0
      BY Zenon DEF IdInv, Numbers
    <3> QED BY <1>5, <1>6, <1>7, <3>1, <3>2, Zenon DEF IdInv, Sections
  <2>2. proc' = proc
    BY <1>1, Zenon
  <2> QED BY <2>1, <2>2, Zenon DEF IdInv, Sections
<1>10. \A i \in DOMAIN issued : proc[s].dist = issued[i].dist => Passed(issued[i], s)'
  <2>1. proc' = proc /\ issued' = issued
    BY <1>1, Zenon
  <2> QED BY <1>6, <2>1, Zenon DEF IdInv, IssuedBefore, Passed
<1>11. IssuedBefore' /\ IssuedOnce'
  BY <1>1, <1>5, <1>7, <1>10, OthersKept
<1> QED BY <1>4, <1>8, <1>9, <1>11 DEF IdInv

\* A crash loses writes only of processes that will take a new number.
LEMMA CrashId ==
  ASSUME IdInv, NEW s \in Server, ProcessCrash(s)
  PROVE  IdInv'
<1>t. IdTypeOK
  BY DEF IdInv
<1>1. PICK n \in 0 .. Len(net[s]) :
        /\ s \notin Keeper \/ n = Len(net[s])
        /\ net' = [net EXCEPT ![s] = SubSeq(net[s], 1, n)]
  BY Zenon DEF ProcessCrash
<1>2. /\ proc[s].st # "off"
      /\ proc' = [proc EXCEPT ![s].st = "off"]
      /\ UNCHANGED <<counter, file, db, issued>>
  BY DEF ProcessCrash
<1>3. net[s] \in Seq(Nat \ {0})
  BY <1>t DEF IdTypeOK
<1>4. \A w \in Seq(Nat \ {0}) : \A k \in 0 .. Len(w) :
        SubSeq(w, 1, k) \in Seq(Nat \ {0}) /\ (k = Len(w) => SubSeq(w, 1, k) = w)
  OBVIOUS
<1>5. \A t \in Server : t # s => proc'[t] = proc[t] /\ net'[t] = net[t]
  BY <1>1, <1>2, <1>t DEF IdTypeOK
<1>6. proc'[s].st = "off" /\ proc'[s].dist = proc[s].dist /\ proc[s].dist # 0
  BY <1>2, <1>t DEF IdTypeOK, IdInv, Numbers
<1>7. IdTypeOK'
  <2>1. net' \in [Server -> Seq(Nat \ {0})]
    BY <1>1, <1>3, <1>4, <1>t DEF IdTypeOK
  <2>2. proc' \in [Server -> [st : {"off", "init", "run"}, dist : 0 .. DistOffset - 1,
                              begin : Nat, cursor : Nat]]
    BY <1>2, <1>t, Zenon DEF IdTypeOK
  <2> QED BY <1>2, <2>1, <2>2, <1>t, Zenon DEF IdTypeOK
<1>8. db' = db
  BY <1>2
<1>9. \A t \in Server : t # s => Saved(t)' = Saved(t)
  BY <1>5, <1>8 DEF Saved
<1>10. Numbers'
  BY <1>2, <1>5, <1>6, NumbersKept, Zenon
<1>11. Sections'
  BY <1>5, <1>6, <1>9, Zenon DEF IdInv, Sections
<1>12. \A i \in DOMAIN issued : proc[s].dist = issued[i].dist => Passed(issued[i], s)'
  <2>1. CASE s \notin Keeper
    BY <1>6, <2>1, Zenon DEF Passed
  <2>2. CASE s \in Keeper
    <3>1. net'[s] = net[s]
      BY <1>1, <1>3, <1>4, <2>2, <1>t, Zenon DEF IdTypeOK
    <3>2. Saved(s)' = Saved(s)
      BY <1>6, <1>8, <3>1, Zenon DEF Saved
    <3> SUFFICES ASSUME NEW i \in DOMAIN issued, proc[s].dist = issued[i].dist
                 PROVE  Passed(issued[i], s)'
      BY Zenon
    <3>3. Saved(s) # 0 /\ issued[i].cursor < Saved(s) + Section
      <4>1. Passed(issued[i], s)
        BY Zenon DEF IdInv, IssuedBefore
      <4>2. CASE proc[s].st = "run"
        <5>1. issued[i].cursor < proc[s].cursor
          BY <4>1, <4>2, Zenon DEF Passed
        <5>2. /\ proc[s].begin >= 1 /\ Saved(s) = proc[s].begin
              /\ proc[s].cursor < proc[s].begin + Section
          BY <4>2, Zenon DEF IdInv, Sections
        <5>3. /\ issued[i].cursor \in Nat /\ proc[s].cursor \in Nat /\ proc[s].begin \in Nat
              /\ Section \in Nat
          BY <1>t, TypeFacts, Zenon
        <5> QED BY <5>1, <5>2, <5>3
      <4>3. CASE proc[s].st # "run"
        BY <2>2, <4>1, <4>3 DEF Passed
      <4> QED BY <4>2, <4>3, Zenon
    <3>4. issued' = issued
      BY <1>2
    <3> QED BY <1>6, <3>2, <3>3, <3>4, Zenon DEF Passed
  <2> QED BY <2>1, <2>2, Zenon
<1>13. IssuedBefore' /\ IssuedOnce'
  BY <1>2, <1>5, <1>6, <1>9, <1>12, OthersKept, Zenon
<1> QED BY <1>7, <1>10, <1>11, <1>13 DEF IdInv

\* Every step keeps IdInv.
LEMMA NextId ==
  ASSUME IdInv, [IdNext]_id_vars
  PROVE  IdInv'
<1>1. CASE UNCHANGED id_vars
  BY <1>1 DEF id_vars, IdInv, IdTypeOK, Numbers, Sections, IssuedBefore, IssuedOnce, Passed, Saved
<1>2. ASSUME NEW s \in Server, NEW arrives \in BOOLEAN, Apply(s, arrives) PROVE IdInv'
  BY <1>2, ApplyId
<1>3. CASE WorldRestart
  BY <1>3, WorldRestartId
<1>4. ASSUME NEW s \in Server, StartAgain(s) PROVE IdInv'
  BY <1>4, StartAgainId
<1>5. ASSUME NEW s \in Server, BuilderInit(s) PROVE IdInv'
  BY <1>5, BuilderInitId
<1>6. ASSUME NEW s \in Server, Alloc(s) PROVE IdInv'
  BY <1>6, AllocId
<1>7. ASSUME NEW s \in Server, DbUpdate(s) PROVE IdInv'
  BY <1>7, DbUpdateId
<1>8. ASSUME NEW s \in Server, ProcessCrash(s) PROVE IdInv'
  BY <1>8, CrashId
<1> QED BY <1>1, <1>2, <1>3, <1>4, <1>5, <1>6, <1>7, <1>8, Zenon DEF IdNext

\* The inductive invariant of id_builder.lua and apply_id: every number is
\* below the saved counter, every cursor is in the section saved last, and
\* every identifier handed out lies behind its server's cursor.
THEOREM IdInvariance == IdSpec => []IdInv
<1>1. IdInit => IdInv
  BY InitId
<1>2. IdInv /\ [IdNext]_id_vars => IdInv'
  BY NextId
<1> QED BY <1>1, <1>2, PTL DEF IdSpec

\* No identifier of alloc_user_uid (nor of alloc_item_uid or alloc_scene_uid,
\* the same code) is handed out twice by any of the servers, whatever crashes,
\* as long as a process that starts again with unsent writes lost asks the
\* world server for a new number, which is what startup.lua does.
THEOREM IdsAreUnique == IdSpec => []UniqueIds
<1>1. ASSUME IdInv PROVE UniqueIds
  <2> SUFFICES ASSUME NEW i \in DOMAIN issued, NEW j \in DOMAIN issued,
                      issued[i].uid = issued[j].uid
               PROVE  i = j
    BY DEF UniqueIds
  <2>t. IdTypeOK
    BY <1>1 DEF IdInv
  <2>1. issued[i].cursor * DistOffset + issued[i].dist = issued[j].cursor * DistOffset + issued[j].dist
    BY <1>1 DEF IdInv, IssuedBefore
  <2>2. /\ issued[i].cursor \in Nat /\ issued[j].cursor \in Nat
        /\ issued[i].dist \in 1 .. DistOffset - 1 /\ issued[j].dist \in 1 .. DistOffset - 1
    BY <2>t, TypeFacts, Zenon
  <2>3. issued[i].dist \in 0 .. DistOffset - 1 /\ issued[j].dist \in 0 .. DistOffset - 1
    BY <2>2, IdAssumption
  <2>4. issued[i].cursor = issued[j].cursor /\ issued[i].dist = issued[j].dist
    BY <2>1, <2>2, <2>3, UidInjective
  <2> QED BY <1>1, <2>4 DEF IdInv, IssuedOnce
<1>2. IdSpec => []IdInv
  BY IdInvariance
<1> QED BY <1>1, <1>2, PTL
=============================================================================
