--------------------------- MODULE EvBufferProofs ---------------------------
(***************************************************************************)
(* Proofs about the byte streams of a session, for any bytes, separator    *)
(* and buffer sizes.                                                       *)
(***************************************************************************)
EXTENDS EvBuffer, SequenceTheorems, WellFoundedInduction, TLAPS

\* a non-empty set of numbers has a least element
LEMMA Least ==
  ASSUME NEW T, T \subseteq Nat, T # {}
  PROVE  \E x \in T : \A y \in T : x <= y
<1> DEFINE R == OpToRel(<, Nat)
<1>1. IsWellFoundedOn(R, Nat)
  BY NatLessThanWellFounded, Zenon
<1> HIDE DEF R
<1>2. PICK x \in T : \A y \in T : ~ (<<y, x>> \in R)
  BY <1>1, WFMin, Zenon
<1>3. \A y \in T : y < x => <<y, x>> \in R
  BY Zenon DEF R, OpToRel
<1>4. \A y \in T : ~ (y < x)
  BY <1>2, <1>3, Zenon
<1>5. \A y \in T : x <= y
  BY <1>4
<1> QED
  BY <1>5, Zenon

\* induction, the property given as the set of numbers that have it
LEMMA Induct ==
  ASSUME NEW S, 0 \in S, \A n \in Nat : n \in S => n + 1 \in S
  PROVE  Nat \subseteq S
<1> SUFFICES ASSUME Nat \ S # {}
             PROVE  FALSE
  BY Zenon
<1>1. PICK x \in Nat \ S : \A y \in Nat \ S : x <= y
  BY Least, Zenon
<1>2. x # 0 /\ x - 1 \in Nat
  OBVIOUS
<1>3. x - 1 \in S
  BY <1>1, <1>2
<1> QED
  BY <1>2, <1>3

\* R is the run of a loop up to turn m: x before it, and G[y, n] after turn n
\* where it was y before
Runs(R, m, x, X, G) ==
  /\ R \in [0 .. m -> X]
  /\ R[0] = x
  /\ \A n \in 1 .. m : R[n] = G[<<R[n - 1], n>>]

\* every loop has its run
LEMMA LoopRuns ==
  ASSUME NEW X, NEW x \in X, NEW N \in Nat, NEW G \in [X \X (1 .. N) -> X]
  PROVE  \E R : Runs(R, N, x, X, G)
<1> DEFINE S == {k \in Nat : k <= N => \E R : Runs(R, k, x, X, G)}
<1>1. 0 \in S
  <2>1. Runs([n \in 0 .. 0 |-> x], 0, x, X, G)
    BY DEF Runs
  <2> QED
    BY <2>1, Zenon
<1>2. ASSUME NEW m \in Nat, m \in S
      PROVE  m + 1 \in S
  <2> SUFFICES ASSUME m + 1 <= N
               PROVE  \E R : Runs(R, m + 1, x, X, G)
    OBVIOUS
  <2>1. PICK R : Runs(R, m, x, X, G)
    BY <1>2
  <2> DEFINE Q == [n \in 0 .. m + 1 |-> IF n <= m THEN R[n] ELSE G[<<R[m], m + 1>>]]
  <2>2. R \in [0 .. m -> X] /\ R[0] = x
    BY <2>1, Zenon DEF Runs
  <2>3. R[m] \in X /\ m + 1 \in 1 .. N
    BY <2>2
  <2>4. G[<<R[m], m + 1>>] \in X
    BY <2>3, Zenon
  <2>5. Q \in [0 .. m + 1 -> X] /\ Q[0] = x
    BY <2>2, <2>4
  <2>6. ASSUME NEW n \in 1 .. m + 1
        PROVE  Q[n] = G[<<Q[n - 1], n>>]
    <3>1. CASE n <= m
      BY <3>1, <2>1 DEF Runs
    <3>2. CASE n = m + 1
      BY <3>2
    <3> QED
      BY <3>1, <3>2
  <2>7. Runs(Q, m + 1, x, X, G)
    <3> HIDE DEF Q
    <3> QED
      BY <2>5, <2>6, Zenon DEF Runs
  <2> QED
    BY <2>7, Zenon
<1>3. N \in S
  <2> HIDE DEF S
  <2> QED
    BY <1>1, <1>2, Induct, Zenon
<1> QED
  BY <1>3

\* what a loop starts with and every turn keeps holds all along
LEMMA Stays ==
  ASSUME NEW X, NEW Q, NEW N \in Nat, Q[0] \in X,
         \A n \in 1 .. N : Q[n - 1] \in X => Q[n] \in X
  PROVE  \A n \in 0 .. N : Q[n] \in X
<1> DEFINE S == {n \in Nat : n <= N => Q[n] \in X}
<1>1. 0 \in S
  BY Zenon
<1>2. ASSUME NEW n \in Nat, n \in S
      PROVE  n + 1 \in S
  <2> SUFFICES ASSUME n + 1 <= N
               PROVE  Q[n + 1] \in X
    OBVIOUS
  <2>1. n + 1 \in 1 .. N /\ (n + 1) - 1 = n /\ Q[n] \in X
    BY <1>2
  <2> QED
    BY <2>1, Zenon
<1>3. Nat \subseteq S
  <2> HIDE DEF S
  <2> QED
    BY <1>1, <1>2, Induct, Zenon
<1> QED
  BY <1>3

-----------------------------------------------------------------------------
(* the bytes of a chain *)

\* Concatenation of bytes is associative.
LEMMA BytesAssociate == \A s, t, u \in Seq(Byte) : (s \o t) \o u = s \o (t \o u)
BY ConcatAssociative


\* The unread bytes of a node.
LEMMA UnreadType ==
  ASSUME NEW db \in Buffers
  PROVE  /\ Unread(db) \in Seq(Byte)
         /\ Len(Unread(db)) = Len(db.data) - db.rpos
         /\ \A i \in 1 .. Len(db.data) - db.rpos : Unread(db)[i] = db.data[db.rpos + i]
<1>1. db.data \in Seq(Byte) /\ db.rpos \in Nat /\ db.rpos <= Len(db.data)
  BY Zenon DEF Buffers
<1>3. PICK d \in Seq(Byte), r \in Nat : d = db.data /\ r = db.rpos /\ r <= Len(d)
  BY <1>1, Zenon
<1> DEFINE u == SubSeq(d, r + 1, Len(d))
<1>4. u \in Seq(Byte) /\ Len(u) = Len(d) - r /\ \A i \in 1 .. Len(d) - r : u[i] = d[r + i]
  <2>1. d \in Seq(Byte) /\ r \in Nat /\ r <= Len(d) /\ Len(d) \in Nat
    BY <1>3
  <2> QED
    BY <2>1
<1>5. Unread(db) = u
  BY <1>3, Zenon DEF Unread
<1> HIDE DEF u
<1> QED
  BY <1>3, <1>4, <1>5, Zenon

\* F collects the bytes of the chain q node by node
Collects(F, q) ==
  /\ F \in [0 .. Len(q) -> Seq(Byte)]
  /\ F[0] = <<>>
  /\ \A n \in 1 .. Len(q) : F[n] = F[n - 1] \o Unread(q[n])

\* Collecting the nodes of a longer chain begins in the same way.
LEMMA CollectsOnce ==
  ASSUME NEW q \in Seq(Buffers), NEW p \in Seq(Buffers), Len(q) <= Len(p),
         \A i \in 1 .. Len(q) : p[i] = q[i], NEW F, NEW H, Collects(F, q), Collects(H, p)
  PROVE  \A n \in 0 .. Len(q) : H[n] = F[n]
<1> DEFINE S == {n \in Nat : n <= Len(q) => H[n] = F[n]}
<1>1. 0 \in S
  BY Zenon DEF Collects
<1>2. ASSUME NEW n \in Nat, n \in S
      PROVE  n + 1 \in S
  <2> SUFFICES ASSUME n + 1 <= Len(q)
               PROVE  H[n + 1] = F[n + 1]
    OBVIOUS
  <2>1. n + 1 \in 1 .. Len(q) /\ n + 1 \in 1 .. Len(p) /\ (n + 1) - 1 = n
    OBVIOUS
  <2>2. H[n] = F[n]
    BY <1>2
  <2>3. H[n + 1] = H[n] \o Unread(p[n + 1])
    BY <2>1, Zenon DEF Collects
  <2>4. F[n + 1] = F[n] \o Unread(q[n + 1])
    BY <2>1, Zenon DEF Collects
  <2>5. p[n + 1] = q[n + 1]
    BY <2>1, Zenon
  <2> QED
    BY <2>2, <2>3, <2>4, <2>5, Zenon
<1>3. Nat \subseteq S
  <2> HIDE DEF S
  <2> QED
    BY <1>1, <1>2, Induct, Zenon
<1> QED
  BY <1>3

\* Flat is the run of its recursion over the nodes.
LEMMA FlatCollects ==
  ASSUME NEW q \in Seq(Buffers)
  PROVE  \E F : Collects(F, q) /\ Flat(q) = F[Len(q)]
<1> DEFINE N == Len(q)
           X == Seq(Byte)
           G == [p \in X \X (1 .. N) |-> p[1] \o Unread(q[p[2]])]
           Eqn(F) == F = [n \in 0 .. N |-> IF n = 0 THEN <<>> ELSE F[n - 1] \o Unread(q[n])]
           Q == CHOOSE F : Eqn(F)
<1>1. N \in Nat /\ \A n \in 1 .. N : q[n] \in Buffers
  OBVIOUS
<1>2. \A a \in X, n \in 1 .. N : a \o Unread(q[n]) \in X
  BY <1>1, UnreadType, ConcatProperties, Zenon
<1>3. <<>> \in X
  OBVIOUS
<1> HIDE DEF N, X
<1>4. G \in [X \X (1 .. N) -> X]
  BY <1>2, Zenon
<1>5. \A a \in X, n \in 1 .. N : G[<<a, n>>] = a \o Unread(q[n])
  BY Zenon
<1> HIDE DEF G
<1>6. PICK R : Runs(R, N, <<>>, X, G)
  BY <1>1, <1>3, <1>4, LoopRuns, Zenon
<1>7. R \in [0 .. N -> X] /\ R[0] = <<>>
  BY <1>6, Zenon DEF Runs
<1>8. \A n \in 1 .. N : R[n] = R[n - 1] \o Unread(q[n])
  <2> SUFFICES ASSUME NEW n \in 1 .. N
               PROVE  R[n] = R[n - 1] \o Unread(q[n])
    BY Zenon
  <2>1. R[n] = G[<<R[n - 1], n>>]
    BY <1>6, Zenon DEF Runs
  <2>2. R[n - 1] \in X
    BY <1>1, <1>7
  <2> QED
    BY <2>1, <2>2, <1>5, Zenon
<1>9. Eqn(R)
  BY <1>1, <1>7, <1>8
<1>10. Eqn(Q)
  <2> HIDE DEF Eqn
  <2> QED
    BY <1>9, Zenon
<1>11. Flat(q) = Q[N]
  BY Zenon DEF Flat, N
<1> HIDE DEF Q
<1>12. /\ Q[0] = <<>>
       /\ \A n \in 1 .. N : Q[n] = Q[n - 1] \o Unread(q[n])
  BY <1>1, <1>10
<1>13. Q \in [0 .. N -> X]
  <2>1. \A n \in 1 .. N : Q[n - 1] \in X => Q[n] \in X
    BY <1>2, <1>12, Zenon
  <2>2. \A n \in 0 .. N : Q[n] \in X
    BY <1>1, <1>3, <1>12, <2>1, Stays, Zenon
  <2>3. Q = [n \in 0 .. N |-> Q[n]]
    BY <1>10, Zenon
  <2> QED
    BY <2>2, <2>3, Zenon
<1> QED
  BY <1>11, <1>12, <1>13, Zenon DEF N, X, Collects

\* The bytes of a chain.
LEMMA FlatType ==
  ASSUME NEW q \in Seq(Buffers)
  PROVE  Flat(q) \in Seq(Byte) /\ Len(Flat(q)) \in Nat
<1>1. PICK F : Collects(F, q) /\ Flat(q) = F[Len(q)]
  BY FlatCollects, Zenon
<1>2. Len(q) \in 0 .. Len(q)
  OBVIOUS
<1> QED
  BY <1>1, <1>2 DEF Collects

\* An empty chain has no bytes.
LEMMA FlatEmpty == Flat(<<>>) = <<>>
<1>1. <<>> \in Seq(Buffers) /\ Len(<<>>) = 0
  OBVIOUS
<1>2. PICK F : Collects(F, <<>>) /\ Flat(<<>>) = F[Len(<<>>)]
  BY <1>1, FlatCollects, Zenon
<1> QED
  BY <1>1, <1>2, Zenon DEF Collects

\* The bytes of the first k nodes.
LEMMA FlatPrefix ==
  ASSUME NEW q \in Seq(Buffers), NEW F, Collects(F, q), NEW k \in 0 .. Len(q)
  PROVE  Flat(SubSeq(q, 1, k)) = F[k]
<1> DEFINE p == SubSeq(q, 1, k)
<1>1. p \in Seq(Buffers) /\ Len(p) = k /\ \A i \in 1 .. k : q[i] = p[i]
  OBVIOUS
<1> HIDE DEF p
<1>2. PICK H : Collects(H, p) /\ Flat(p) = H[Len(p)]
  BY <1>1, FlatCollects, Zenon
<1>3. Len(p) <= Len(q) /\ k \in 0 .. Len(p)
  BY <1>1
<1>4. \A n \in 0 .. Len(p) : F[n] = H[n]
  BY <1>1, <1>2, <1>3, CollectsOnce
<1>5. Flat(p) = F[k]
  BY <1>1, <1>2, <1>3, <1>4, Zenon
<1> QED
  BY <1>5, Zenon DEF p

\* The bytes of all nodes.
LEMMA FlatWhole ==
  ASSUME NEW q \in Seq(Buffers), NEW F, Collects(F, q)
  PROVE  Flat(q) = F[Len(q)]
<1>1. SubSeq(q, 1, Len(q)) = q /\ Len(q) \in 0 .. Len(q)
  OBVIOUS
<1> QED
  BY <1>1, FlatPrefix, Zenon

\* A node appended adds its bytes at the end.
LEMMA FlatAppend ==
  ASSUME NEW q \in Seq(Buffers), NEW db \in Buffers
  PROVE  Flat(Append(q, db)) = Flat(q) \o Unread(db)
<1> DEFINE p == Append(q, db)
           n == Len(q)
<1>1. p \in Seq(Buffers) /\ Len(p) = n + 1 /\ n \in Nat /\ p[n + 1] = db /\ SubSeq(p, 1, n) = q
  OBVIOUS
<1> HIDE DEF p, n
<1>2. PICK F : Collects(F, p) /\ Flat(p) = F[Len(p)]
  BY <1>1, FlatCollects, Zenon
<1>3. F[n + 1] = F[n] \o Unread(db)
  <2>1. n + 1 \in 1 .. Len(p) /\ (n + 1) - 1 = n
    BY <1>1
  <2> QED
    BY <1>1, <1>2, <2>1, Zenon DEF Collects
<1>4. F[n] = Flat(q)
  <2>1. n \in 0 .. Len(p)
    BY <1>1
  <2> QED
    BY <1>1, <1>2, <2>1, FlatPrefix, Zenon
<1> QED
  BY <1>1, <1>2, <1>3, <1>4, Zenon DEF p

-----------------------------------------------------------------------------
(* taking bytes from a chain *)

TakeState == [need : Nat, rest : Seq(Buffers), gone : Seq(Nat), bytes : Seq(Byte)]
TakeStart(n) == [need |-> n, rest |-> <<>>, gone |-> <<>>, bytes |-> <<>>]

\* the turns of the loop of ev_session_read over q
Takes(T, q, n) ==
  /\ T \in [0 .. Len(q) -> TakeState]
  /\ T[0] = TakeStart(n)
  /\ \A k \in 1 .. Len(q) : T[k] = ChainTake(T[k - 1], q[k])

\* a node after m of its bytes were read
LEMMA PartlyRead ==
  ASSUME NEW db \in Buffers, NEW m \in Nat, m < Len(Unread(db))
  PROVE  /\ [db EXCEPT !.rpos = @ + m] \in Buffers
         /\ Unread([db EXCEPT !.rpos = @ + m]) = SubSeq(Unread(db), m + 1, Len(Unread(db)))
         /\ SubSeq(Unread(db), 1, m) \in Seq(Byte)
         /\ Len(SubSeq(Unread(db), 1, m)) = m
         /\ SubSeq(Unread(db), 1, m) \o Unread([db EXCEPT !.rpos = @ + m]) = Unread(db)
<1> DEFINE e == [db EXCEPT !.rpos = @ + m]
           u == Unread(db)
<1>1. /\ db.node \in Nat /\ db.data \in Seq(Byte) /\ db.rpos \in Nat /\ db.rpos <= Len(db.data)
      /\ db = [node |-> db.node, data |-> db.data, rpos |-> db.rpos]
  BY Zenon DEF Buffers
<1>2. /\ u \in Seq(Byte) /\ Len(u) = Len(db.data) - db.rpos
      /\ \A i \in 1 .. Len(db.data) - db.rpos : u[i] = db.data[db.rpos + i]
  BY UnreadType, Zenon
<1>3. e = [node |-> db.node, data |-> db.data, rpos |-> db.rpos + m]
  BY <1>1
<1>4. e \in Buffers
  BY <1>1, <1>2, <1>3 DEF Buffers
<1>5. /\ Unread(e) \in Seq(Byte) /\ Len(Unread(e)) = Len(u) - m
      /\ \A i \in 1 .. Len(u) - m : Unread(e)[i] = u[m + i]
  <2>1. /\ Unread(e) \in Seq(Byte) /\ Len(Unread(e)) = Len(e.data) - e.rpos
        /\ \A i \in 1 .. Len(e.data) - e.rpos : Unread(e)[i] = e.data[e.rpos + i]
    BY <1>4, UnreadType, Zenon
  <2>2. e.data = db.data /\ e.rpos = db.rpos + m
    BY <1>3, Zenon
  <2> HIDE DEF e, u
  <2>3. Len(e.data) - e.rpos = Len(u) - m
    BY <1>1, <1>2, <2>2
  <2>4. ASSUME NEW i \in 1 .. Len(u) - m
        PROVE  e.data[e.rpos + i] = u[m + i]
    <3>1. m + i \in 1 .. Len(db.data) - db.rpos /\ db.rpos + (m + i) = e.rpos + i
      BY <1>1, <1>2, <2>2
    <3> QED
      BY <1>2, <2>2, <3>1, Zenon
  <2> QED
    BY <2>1, <2>3, <2>4, Zenon
<1> HIDE DEF e, u
<1>6. m < Len(u)
  BY Zenon DEF u
<1>7. /\ SubSeq(u, m + 1, Len(u)) \in Seq(Byte) /\ Len(SubSeq(u, m + 1, Len(u))) = Len(u) - m
      /\ \A i \in 1 .. Len(u) - m : SubSeq(u, m + 1, Len(u))[i] = u[m + i]
  BY <1>2, <1>6
<1>8. Unread(e) = SubSeq(u, m + 1, Len(u))
  BY <1>5, <1>7, SeqEqual, Zenon
<1>9. SubSeq(u, 1, m) \in Seq(Byte) /\ Len(SubSeq(u, 1, m)) = m
  BY <1>2, <1>6
<1>10. SubSeq(u, 1, m) \o SubSeq(u, m + 1, Len(u)) = u
  <2>1. 1 \in 1 .. Len(u) + 1 /\ m \in 1 - 1 .. Len(u) /\ Len(u) \in m .. Len(u)
    BY <1>2, <1>6
  <2>2. SubSeq(u, 1, m) \o SubSeq(u, m + 1, Len(u)) = SubSeq(u, 1, Len(u))
    BY <1>2, <2>1, ConcatAdjacentSubSeq, Zenon
  <2> QED
    BY <1>2, <2>2, SubSeqFull, Zenon
<1> QED
  BY <1>4, <1>8, <1>9, <1>10, Zenon DEF e, u

\* of the bytes f of the nodes met so far, n were asked for: those taken come
\* first, and a node is left only when nothing more is needed
TakeOK(a, f, n) ==
  /\ a \in TakeState
  /\ a.bytes \o Flat(a.rest) = f
  /\ Len(a.bytes) + a.need = n
  /\ a.need # 0 => a.rest = <<>>
  /\ NextUnread(a.rest)

\* One turn of the loop that takes bytes from the chain.
LEMMA TakeTurn ==
  ASSUME NEW n \in Nat, NEW f \in Seq(Byte), NEW a, TakeOK(a, f, n), NEW db \in Buffers,
         a.rest # <<>> => db.rpos = 0
  PROVE  TakeOK(ChainTake(a, db), f \o Unread(db), n)
<1> DEFINE u == Unread(db)
           e == [db EXCEPT !.rpos = @ + a.need]
           b == ChainTake(a, db)
<1>1. /\ a.need \in Nat /\ a.rest \in Seq(Buffers) /\ a.gone \in Seq(Nat) /\ a.bytes \in Seq(Byte)
      /\ a = [need |-> a.need, rest |-> a.rest, gone |-> a.gone, bytes |-> a.bytes]
  BY Zenon DEF TakeOK, TakeState
<1>2. u \in Seq(Byte) /\ Len(u) \in Nat /\ db.node \in Nat
  BY UnreadType DEF Buffers
<1>3. /\ a.bytes \o Flat(a.rest) = f /\ Len(a.bytes) + a.need = n
      /\ (a.need # 0 => a.rest = <<>>) /\ NextUnread(a.rest)
  BY Zenon DEF TakeOK
<1>4. Flat(a.rest) \in Seq(Byte)
  BY <1>1, FlatType, Zenon
<1> HIDE DEF u
<1>5. CASE a.need = 0
  <2>1. b = [need |-> a.need, rest |-> Append(a.rest, db), gone |-> a.gone, bytes |-> a.bytes]
    BY <1>1, <1>5, Zenon DEF ChainTake
  <2>2. Append(a.rest, db) \in Seq(Buffers)
    BY <1>1
  <2>3. a.bytes \o Flat(Append(a.rest, db)) = f \o u
    <3>1. Flat(Append(a.rest, db)) = Flat(a.rest) \o u
      BY <1>1, FlatAppend, Zenon DEF u
    <3>2. (a.bytes \o Flat(a.rest)) \o u = a.bytes \o (Flat(a.rest) \o u)
      BY <1>1, <1>2, <1>4, BytesAssociate, Zenon
    <3> QED
      BY <1>3, <3>1, <3>2, Zenon
  <2>4. NextUnread(Append(a.rest, db))
    <3>1. CASE a.rest = <<>>
      BY <3>1 DEF NextUnread
    <3>2. CASE a.rest # <<>>
      BY <1>1, <1>3, <3>2 DEF NextUnread
    <3> QED
      BY <3>1, <3>2, Zenon
  <2>5. b \in TakeState
    BY <1>1, <2>1, <2>2 DEF TakeState
  <2> HIDE DEF b
  <2>6. TakeOK(b, f \o u, n)
    BY <1>3, <1>5, <2>1, <2>3, <2>4, <2>5, Zenon DEF TakeOK
  <2> QED
    BY <2>6, Zenon DEF b, u
<1>6. CASE a.need # 0 /\ a.need < Len(u)
  <2>1. b = [need |-> 0, rest |-> Append(a.rest, e), gone |-> a.gone,
             bytes |-> a.bytes \o SubSeq(u, 1, a.need)]
    BY <1>1, <1>6, Zenon DEF ChainTake, u
  <2>2. /\ e \in Buffers
        /\ SubSeq(u, 1, a.need) \in Seq(Byte) /\ Len(SubSeq(u, 1, a.need)) = a.need
        /\ SubSeq(u, 1, a.need) \o Unread(e) = u
    BY <1>1, <1>6, PartlyRead, Zenon DEF u
  <2> HIDE DEF e
  <2>3. a.rest = <<>>
    BY <1>3, <1>6, Zenon
  <2>4. f = a.bytes
    BY <1>1, <1>3, <2>3, FlatEmpty, ConcatEmptySeq, Zenon
  <2>5. Append(a.rest, e) \in Seq(Buffers) /\ Len(Append(a.rest, e)) = 1
    BY <1>1, <2>2, <2>3
  <2>6. Flat(Append(a.rest, e)) = Unread(e) /\ Unread(e) \in Seq(Byte)
    <3>1. Unread(e) \in Seq(Byte)
      BY <2>2, UnreadType, Zenon
    <3>2. Flat(Append(a.rest, e)) = <<>> \o Unread(e)
      BY <1>1, <2>2, <2>3, FlatAppend, FlatEmpty, Zenon
    <3> QED
      BY <3>1, <3>2, ConcatEmptySeq, Zenon
  <2>7. (a.bytes \o SubSeq(u, 1, a.need)) \o Unread(e) = f \o u
    <3>1. (a.bytes \o SubSeq(u, 1, a.need)) \o Unread(e) = a.bytes \o (SubSeq(u, 1, a.need) \o Unread(e))
      BY <1>1, <2>2, <2>6, BytesAssociate, Zenon
    <3> QED
      BY <2>2, <2>4, <3>1, Zenon
  <2>8. /\ a.bytes \o SubSeq(u, 1, a.need) \in Seq(Byte)
        /\ Len(a.bytes \o SubSeq(u, 1, a.need)) = Len(a.bytes) + a.need
    BY <1>1, <2>2, ConcatProperties
  <2>9. b \in TakeState
    BY <1>1, <2>1, <2>5, <2>8 DEF TakeState
  <2>10. NextUnread(Append(a.rest, e))
    BY <2>5 DEF NextUnread
  <2>11. Len(b.bytes) + b.need = n /\ b.need = 0
    BY <1>1, <1>3, <2>1, <2>8
  <2> HIDE DEF b
  <2>12. TakeOK(b, f \o u, n)
    BY <2>1, <2>6, <2>7, <2>9, <2>10, <2>11, Zenon DEF TakeOK
  <2> QED
    BY <2>12, Zenon DEF b, u
<1>7. CASE a.need # 0 /\ ~ (a.need < Len(u))
  <2>1. b = [need |-> a.need - Len(u), rest |-> a.rest, gone |-> <<db.node>> \o a.gone,
             bytes |-> a.bytes \o u]
    BY <1>1, <1>7, Zenon DEF ChainTake, u
  <2>2. a.rest = <<>>
    BY <1>3, <1>7, Zenon
  <2>3. f = a.bytes
    BY <1>1, <1>3, <2>2, FlatEmpty, ConcatEmptySeq, Zenon
  <2>4. a.need - Len(u) \in Nat
    BY <1>1, <1>2, <1>7
  <2>5. a.bytes \o u \in Seq(Byte) /\ Len(a.bytes \o u) = Len(a.bytes) + Len(u)
    BY <1>1, <1>2, ConcatProperties, Zenon
  <2>6. <<db.node>> \o a.gone \in Seq(Nat)
    BY <1>1, <1>2
  <2>7. b \in TakeState
    BY <1>1, <2>1, <2>4, <2>5, <2>6 DEF TakeState
  <2>8. b.bytes \o Flat(b.rest) = f \o u
    <3>1. b.bytes = a.bytes \o u /\ b.rest = <<>>
      BY <2>1, <2>2
    <3>2. (a.bytes \o u) \o <<>> = a.bytes \o u
      BY <2>5, ConcatEmptySeq, Zenon
    <3> QED
      BY <2>3, <3>1, <3>2, FlatEmpty, Zenon
  <2>9. Len(b.bytes) + b.need = n
    BY <1>1, <1>2, <1>3, <2>1, <2>5
  <2>10. b.rest = <<>> /\ NextUnread(b.rest)
    BY <1>3, <2>1, <2>2
  <2> HIDE DEF b
  <2>11. TakeOK(b, f \o u, n)
    BY <2>7, <2>8, <2>9, <2>10, Zenon DEF TakeOK
  <2> QED
    BY <2>11, Zenon DEF b, u
<1> QED
  BY <1>5, <1>6, <1>7, Zenon

\* The type of what a turn leaves.
LEMMA ChainTakeType ==
  ASSUME NEW a \in TakeState, NEW db \in Buffers
  PROVE  ChainTake(a, db) \in TakeState
<1> DEFINE u == Unread(db)
<1>1. /\ a.need \in Nat /\ a.rest \in Seq(Buffers) /\ a.gone \in Seq(Nat) /\ a.bytes \in Seq(Byte)
  BY Zenon DEF TakeState
<1>2. u \in Seq(Byte) /\ Len(u) \in Nat /\ db.node \in Nat
  BY UnreadType DEF Buffers
<1>3. CASE a.need = 0
  <2>1. ChainTake(a, db) = [a EXCEPT !.rest = Append(@, db)]
    BY <1>3, Zenon DEF ChainTake
  <2>2. Append(a.rest, db) \in Seq(Buffers)
    BY <1>1
  <2> QED
    BY <2>1, <2>2, Zenon DEF TakeState
<1>4. CASE a.need # 0 /\ a.need < Len(u)
  <2>1. /\ [db EXCEPT !.rpos = @ + a.need] \in Buffers
        /\ SubSeq(u, 1, a.need) \in Seq(Byte)
    BY <1>1, <1>4, PartlyRead, Zenon
  <2>2. a.bytes \o SubSeq(u, 1, a.need) \in Seq(Byte)
    BY <1>1, <2>1, ConcatProperties, Zenon
  <2>3. ChainTake(a, db) =
          [a EXCEPT !.need = 0, !.rest = Append(@, [db EXCEPT !.rpos = @ + a.need]), !.bytes = @ \o SubSeq(u, 1, a.need)]
    BY <1>4, Zenon DEF ChainTake
  <2>4. Append(a.rest, [db EXCEPT !.rpos = @ + a.need]) \in Seq(Buffers)
    BY <1>1, <2>1
  <2>5. ChainTake(a, db) =
          [need |-> 0, rest |-> Append(a.rest, [db EXCEPT !.rpos = @ + a.need]), gone |-> a.gone,
           bytes |-> a.bytes \o SubSeq(u, 1, a.need)]
    BY <2>3, Zenon DEF TakeState
  <2> QED
    BY <1>1, <2>2, <2>4, <2>5 DEF TakeState
<1>5. CASE a.need # 0 /\ ~ (a.need < Len(u))
  <2>1. a.bytes \o u \in Seq(Byte) /\ <<db.node>> \o a.gone \in Seq(Nat) /\ a.need - Len(u) \in Nat
    BY <1>1, <1>2, <1>5, ConcatProperties
  <2>2. ChainTake(a, db) =
          [a EXCEPT !.need = @ - Len(u), !.gone = <<db.node>> \o @, !.bytes = @ \o u]
    BY <1>5, Zenon DEF ChainTake
  <2> HIDE DEF u
  <2> QED
    BY <1>1, <2>1, <2>2, Zenon DEF TakeState
<1> QED
  BY <1>3, <1>4, <1>5, Zenon

\* Take is the run of its loop over the nodes.
LEMMA TakeRuns ==
  ASSUME NEW q \in Seq(Buffers), NEW n \in Nat
  PROVE  \E T : Takes(T, q, n) /\ Take(q, n) = T[Len(q)]
<1> DEFINE N == Len(q)
           X == TakeState
           x == TakeStart(n)
           G == [p \in X \X (1 .. N) |-> ChainTake(p[1], q[p[2]])]
           Eqn(T) == T = [k \in 0 .. N |-> IF k = 0 THEN x ELSE ChainTake(T[k - 1], q[k])]
           Q == CHOOSE T : Eqn(T)
<1>1. N \in Nat /\ \A k \in 1 .. N : q[k] \in Buffers
  OBVIOUS
<1>2. \A a \in X, k \in 1 .. N : ChainTake(a, q[k]) \in X
  BY <1>1, ChainTakeType, Zenon
<1>3. x \in X
  BY DEF TakeStart, TakeState
<1> HIDE DEF N, X, x
<1>4. G \in [X \X (1 .. N) -> X]
  BY <1>2, Zenon
<1>5. \A a \in X, k \in 1 .. N : G[<<a, k>>] = ChainTake(a, q[k])
  BY Zenon
<1> HIDE DEF G
<1>6. PICK R : Runs(R, N, x, X, G)
  BY <1>1, <1>3, <1>4, LoopRuns, Zenon
<1>7. R \in [0 .. N -> X] /\ R[0] = x
  BY <1>6, Zenon DEF Runs
<1>8. \A k \in 1 .. N : R[k] = ChainTake(R[k - 1], q[k])
  <2> SUFFICES ASSUME NEW k \in 1 .. N
               PROVE  R[k] = ChainTake(R[k - 1], q[k])
    BY Zenon
  <2>1. R[k] = G[<<R[k - 1], k>>]
    BY <1>6, Zenon DEF Runs
  <2>2. R[k - 1] \in X
    BY <1>1, <1>7
  <2> QED
    BY <2>1, <2>2, <1>5, Zenon
<1>9. Eqn(R)
  BY <1>1, <1>7, <1>8
<1>10. Eqn(Q)
  <2> HIDE DEF Eqn
  <2> QED
    BY <1>9, Zenon
<1>11. Take(q, n) = Q[N]
  BY Zenon DEF Take, N, x, TakeStart
<1> HIDE DEF Q
<1>12. /\ Q[0] = x
       /\ \A k \in 1 .. N : Q[k] = ChainTake(Q[k - 1], q[k])
  BY <1>1, <1>10
<1>13. Q \in [0 .. N -> X]
  <2>1. \A k \in 1 .. N : Q[k - 1] \in X => Q[k] \in X
    BY <1>2, <1>12, Zenon
  <2>2. \A k \in 0 .. N : Q[k] \in X
    BY <1>1, <1>3, <1>12, <2>1, Stays, Zenon
  <2>3. Q = [k \in 0 .. N |-> Q[k]]
    BY <1>10, Zenon
  <2> QED
    BY <2>2, <2>3, Zenon
<1> QED
  BY <1>11, <1>12, <1>13, Zenon DEF N, X, x, Takes

\* ev_session_read and _ev_write_cb take the first n bytes of a chain that has
\* them, and leave the others in order
LEMMA TakeGives ==
  ASSUME NEW q \in Seq(Buffers), NextUnread(q), NEW n \in Nat, n <= Len(Flat(q))
  PROVE  /\ Take(q, n).bytes \in Seq(Byte) /\ Take(q, n).rest \in Seq(Buffers)
         /\ Take(q, n).gone \in Seq(Nat)
         /\ Take(q, n).bytes \o Flat(Take(q, n).rest) = Flat(q)
         /\ Len(Take(q, n).bytes) = n
         /\ NextUnread(Take(q, n).rest)
<1>1. PICK T : Takes(T, q, n) /\ Take(q, n) = T[Len(q)]
  BY TakeRuns, Zenon
<1>2. PICK F : Collects(F, q) /\ Flat(q) = F[Len(q)]
  BY FlatCollects, Zenon
<1> DEFINE N == Len(q)
           S == {k \in Nat : k <= N => /\ TakeOK(T[k], F[k], n)
                                       /\ k = 0 => T[k].rest = <<>>}
<1>3. N \in Nat /\ \A k \in 1 .. N : q[k] \in Buffers
  OBVIOUS
<1>4. 0 \in S
  <2>1. T[0] = TakeStart(n) /\ F[0] = <<>>
    BY <1>1, <1>2, Zenon DEF Takes, Collects
  <2>2. TakeStart(n) \in TakeState
    BY DEF TakeStart, TakeState
  <2>3. <<>> \o Flat(<<>>) = <<>>
    BY FlatEmpty
  <2>4. NextUnread(<<>>)
    BY DEF NextUnread
  <2>5. /\ TakeStart(n).bytes = <<>> /\ TakeStart(n).rest = <<>> /\ TakeStart(n).need = n
    BY Zenon DEF TakeStart
  <2>6. TakeOK(TakeStart(n), <<>>, n)
    BY <2>2, <2>3, <2>4, <2>5 DEF TakeOK
  <2> QED
    BY <2>1, <2>5, <2>6, Zenon
<1>5. ASSUME NEW k \in Nat, k \in S
      PROVE  k + 1 \in S
  <2> SUFFICES ASSUME k + 1 <= N
               PROVE  TakeOK(T[k + 1], F[k + 1], n)
    OBVIOUS
  <2>1. k + 1 \in 1 .. N /\ (k + 1) - 1 = k /\ k \in 0 .. N
    BY <1>3
  <2>2. TakeOK(T[k], F[k], n) /\ (k = 0 => T[k].rest = <<>>)
    BY <1>5, <2>1
  <2>3. T[k + 1] = ChainTake(T[k], q[k + 1])
    BY <1>1, <2>1, Zenon DEF Takes
  <2>4. F[k + 1] = F[k] \o Unread(q[k + 1]) /\ F[k] \in Seq(Byte)
    BY <1>2, <2>1, Zenon DEF Collects
  <2>5. T[k].rest # <<>> => q[k + 1].rpos = 0
    BY <2>1, <2>2 DEF NextUnread
  <2>6. TakeOK(ChainTake(T[k], q[k + 1]), F[k] \o Unread(q[k + 1]), n)
    BY <1>3, <2>1, <2>2, <2>4, <2>5, TakeTurn, Zenon
  <2> QED
    BY <2>3, <2>4, <2>6, Zenon
<1>6. TakeOK(Take(q, n), Flat(q), n)
  <2>1. Nat \subseteq S
    <3> HIDE DEF S
    <3> QED
      BY <1>4, <1>5, Induct, Zenon
  <2> QED
    BY <1>1, <1>2, <1>3, <2>1
<1> DEFINE t == Take(q, n)
<1> HIDE DEF t
<1>7. /\ t.need \in Nat /\ t.rest \in Seq(Buffers) /\ t.gone \in Seq(Nat) /\ t.bytes \in Seq(Byte)
      /\ t.bytes \o Flat(t.rest) = Flat(q) /\ Len(t.bytes) + t.need = n
      /\ (t.need # 0 => t.rest = <<>>) /\ NextUnread(t.rest)
  BY <1>6, Zenon DEF TakeOK, TakeState, t
<1>8. t.need = 0
  <2> SUFFICES ASSUME t.need # 0
               PROVE  FALSE
    BY Zenon
  <2>1. Flat(q) = t.bytes
    <3>1. t.rest = <<>> /\ Flat(t.rest) = <<>>
      BY <1>7, FlatEmpty, Zenon
    <3>2. t.bytes \o <<>> = t.bytes
      BY <1>7, ConcatEmptySeq, Zenon
    <3> QED
      BY <1>7, <3>1, <3>2, Zenon
  <2> QED
    BY <1>7, <2>1
<1>9. Len(t.bytes) = n
  BY <1>7, <1>8
<1> QED
  BY <1>7, <1>9, Zenon DEF t

-----------------------------------------------------------------------------
(* looking for the separator *)

\* the separator is in D after p bytes
At(D, p) == p + Len(Sep) <= Len(D) /\ \A j \in 1 .. Len(Sep) : D[p + j] = Sep[j]

MatchState == [from : Nat, sep : Seq(Byte), found : {"more", "yes", "no"}]

\* what check_eol knows of D at p after m bytes
MatchOK(a, D, p, m) ==
  /\ a \in MatchState
  /\ a.found = "yes" => At(D, p)
  /\ a.found = "no" => ~ At(D, p)
  /\ a.found = "more" =>
       /\ m < Len(Sep) /\ Len(a.sep) = Len(Sep) - m
       /\ \A j \in 1 .. Len(a.sep) : a.sep[j] = Sep[m + j]
       /\ \A j \in 1 .. m : D[p + j] = Sep[j]

\* Equal parts have equal bytes.
LEMMA SameBytes ==
  ASSUME NEW s \in Seq(Byte), NEW t \in Seq(Byte), NEW m \in Nat, NEW n \in Nat,
         m + n <= Len(s), n <= Len(t)
  PROVE  SubSeq(s, m + 1, m + n) = SubSeq(t, 1, n) <=> \A j \in 1 .. n : s[m + j] = t[j]
<1> DEFINE x == SubSeq(s, m + 1, m + n)
           y == SubSeq(t, 1, n)
<1>1. x \in Seq(Byte) /\ Len(x) = n /\ \A j \in 1 .. n : x[j] = s[m + j]
  OBVIOUS
<1>2. y \in Seq(Byte) /\ Len(y) = n /\ \A j \in 1 .. n : y[j] = t[j]
  OBVIOUS
<1> HIDE DEF x, y
<1>3. x = y => \A j \in 1 .. n : s[m + j] = t[j]
  BY <1>1, <1>2, Zenon
<1>4. ASSUME \A j \in 1 .. n : s[m + j] = t[j]
      PROVE  x = y
  <2>1. \A j \in 1 .. Len(x) : x[j] = y[j]
    BY <1>1, <1>2, <1>4, Zenon
  <2> QED
    BY <1>1, <1>2, <2>1, SeqEqual, Zenon
<1> QED
  BY <1>3, <1>4, Zenon DEF x, y

\* the bytes of node db from byte f on come in D after r bytes
StandsAt(db, D, f, r) ==
  /\ db \in Buffers /\ f \in Nat /\ f <= Len(db.data)
  /\ r \in Nat /\ r + (Len(db.data) - f) <= Len(D)
  /\ \A j \in 1 .. Len(db.data) - f : D[r + j] = db.data[f + j]

\* one turn of check_eol
LEMMA MatchTurn ==
  ASSUME NEW D \in Seq(Byte), NEW p \in Nat, NEW m \in Nat, NEW a, MatchOK(a, D, p, m),
         a.found = "more", NEW db, StandsAt(db, D, a.from, p + m), NEW sz, sz = Len(db.data) - a.from
  PROVE  /\ MatchOK(MatchNode(a, db), D, p, m + sz)
         /\ MatchNode(a, db).found = "more" => MatchNode(a, db).from = 0
<1> DEFINE b == MatchNode(a, db)
<1>1. a \in MatchState /\ db \in Buffers /\ db.data \in Seq(Byte) /\ Sep \in Seq(Byte)
  BY EvBufferAssumption, Zenon DEF MatchOK, StandsAt, Buffers
<1>2. a.from \in Nat /\ a.sep \in Seq(Byte) /\ a.found \in {"more", "yes", "no"}
  BY <1>1, Zenon DEF MatchState
<1>4. a.found = "more"
  BY Zenon
<1>5. QED
  <2>1. /\ m < Len(Sep) /\ Len(a.sep) = Len(Sep) - m
        /\ \A j \in 1 .. Len(a.sep) : a.sep[j] = Sep[m + j]
        /\ \A j \in 1 .. m : D[p + j] = Sep[j]
    BY <1>4, Zenon DEF MatchOK
  <2>2. /\ a.from <= Len(db.data) /\ sz = Len(db.data) - a.from
        /\ \A j \in 1 .. sz : D[p + m + j] = db.data[a.from + j]
        /\ p + m + sz <= Len(D) /\ sz \in Nat
    <3>1. /\ a.from <= Len(db.data) /\ p + m + (Len(db.data) - a.from) <= Len(D)
          /\ \A j \in 1 .. Len(db.data) - a.from : D[p + m + j] = db.data[a.from + j]
      BY Zenon DEF StandsAt
    <3>2. Len(db.data) \in Nat
      BY <1>1, LenProperties, Zenon
    <3>3. Len(db.data) - a.from \in Nat
      BY <1>2, <3>1, <3>2
    <3> QED
      BY <3>1, <3>3, Zenon
  <2>3. Len(Sep) \in Nat /\ Len(a.sep) \in Nat /\ Len(db.data) \in Nat
    BY <1>1, <1>2
  <2>4. CASE sz >= Len(a.sep)
    <3> DEFINE eq == SubSeq(db.data, a.from + 1, a.from + Len(a.sep)) = a.sep
    <3>1. b = [a EXCEPT !.found = IF eq THEN "yes" ELSE "no"]
      BY <1>4, <2>2, <2>4, Zenon DEF MatchNode
    <3>2. eq <=> \A j \in 1 .. Len(a.sep) : db.data[a.from + j] = a.sep[j]
      <4>1. a.from + Len(a.sep) <= Len(db.data)
        BY <1>2, <2>2, <2>3, <2>4
      <4>2. SubSeq(a.sep, 1, Len(a.sep)) = a.sep
        BY <1>2, SubSeqFull, Zenon
      <4>3. SubSeq(db.data, a.from + 1, a.from + Len(a.sep)) = SubSeq(a.sep, 1, Len(a.sep)) <=>
              \A j \in 1 .. Len(a.sep) : db.data[a.from + j] = a.sep[j]
        <5>1. PICK s \in Seq(Byte), t \in Seq(Byte), f \in Nat, n \in Nat :
                s = db.data /\ t = a.sep /\ f = a.from /\ n = Len(a.sep)
          BY <1>1, <1>2, <2>3, Zenon
        <5>2. f + n <= Len(s) /\ n <= Len(t)
          <6>1. n = Len(t) /\ f + n <= Len(s)
            BY <4>1, <5>1, Zenon
          <6> QED
            BY <6>1
        <5>3. SubSeq(s, f + 1, f + n) = SubSeq(t, 1, n) <=> \A j \in 1 .. n : s[f + j] = t[j]
          BY <5>2, SameBytes, Zenon
        <5> QED
          BY <5>1, <5>3, Zenon
      <4> QED
        BY <4>2, <4>3, Zenon
    <3> HIDE DEF eq
    <3>3. eq <=> At(D, p)
      <4>1. p + Len(Sep) <= Len(D)
        BY <1>1, <2>1, <2>2, <2>3, <2>4
      <4>2. ASSUME eq, NEW j \in 1 .. Len(Sep)
            PROVE  D[p + j] = Sep[j]
        <5>1. CASE j <= m
          BY <2>1, <2>3, <5>1
        <5>2. CASE j > m
          <6>1. j - m \in 1 .. Len(a.sep) /\ j - m \in 1 .. sz /\ m + (j - m) = j /\ p + m + (j - m) = p + j
            BY <2>1, <2>3, <2>4, <5>2
          <6>2. db.data[a.from + (j - m)] = a.sep[j - m]
            BY <3>2, <4>2, <6>1, Zenon
          <6>3. a.sep[j - m] = Sep[j]
            BY <2>1, <6>1, Zenon
          <6>4. D[p + j] = db.data[a.from + (j - m)]
            BY <2>2, <6>1, Zenon
          <6> QED
            BY <6>2, <6>3, <6>4, Zenon
        <5> QED
          BY <2>3, <5>1, <5>2
      <4>3. ASSUME At(D, p), NEW j \in 1 .. Len(a.sep)
            PROVE  db.data[a.from + j] = a.sep[j]
        <5>1. m + j \in 1 .. Len(Sep) /\ j \in 1 .. sz /\ p + m + j = p + (m + j)
          BY <2>1, <2>2, <2>3, <2>4
        <5>2. D[p + (m + j)] = Sep[m + j]
          BY <4>3, <5>1, Zenon DEF At
        <5> QED
          BY <2>1, <2>2, <5>1, <5>2, Zenon
      <4> QED
        BY <3>2, <4>1, <4>2, <4>3, Zenon DEF At
    <3>4. b \in MatchState /\ b.found = IF eq THEN "yes" ELSE "no"
      BY <1>1, <3>1, Zenon DEF MatchState
    <3> HIDE DEF b
    <3>5. MatchOK(b, D, p, m + sz) /\ b.found # "more"
      BY <3>3, <3>4, Zenon DEF MatchOK
    <3> QED
      BY <3>5, Zenon DEF b
  <2>5. CASE sz < Len(a.sep)
    <3> DEFINE ne == SubSeq(db.data, a.from + 1, Len(db.data)) # SubSeq(a.sep, 1, sz)
    <3>1. b = IF sz > 0 /\ ne THEN [a EXCEPT !.found = "no"]
              ELSE [a EXCEPT !.sep = SubSeq(@, sz + 1, Len(@)), !.from = 0]
      <4>1. ~ (Len(db.data) - a.from >= Len(a.sep)) /\ Len(db.data) - a.from = sz
        BY <2>2, <2>3, <2>5
      <4> HIDE DEF ne
      <4> QED
        BY <1>4, <4>1, Zenon DEF MatchNode, ne
    <3>2. ~ ne <=> \A j \in 1 .. sz : db.data[a.from + j] = a.sep[j]
      <4>1. a.from + sz = Len(db.data)
        BY <1>2, <2>2, <2>3
      <4>2. a.from + sz <= Len(db.data) /\ sz <= Len(a.sep)
        BY <2>3, <2>5, <4>1
      <4>3. SubSeq(db.data, a.from + 1, a.from + sz) = SubSeq(a.sep, 1, sz) <=>
              \A j \in 1 .. sz : db.data[a.from + j] = a.sep[j]
        <5>1. PICK s \in Seq(Byte), t \in Seq(Byte), f \in Nat :
                s = db.data /\ t = a.sep /\ f = a.from
          BY <1>1, <1>2, Zenon
        <5>2. f + sz <= Len(s) /\ sz <= Len(t)
          BY <4>2, <5>1, Zenon
        <5>3. SubSeq(s, f + 1, f + sz) = SubSeq(t, 1, sz) <=> \A j \in 1 .. sz : s[f + j] = t[j]
          BY <2>2, <5>2, SameBytes, Zenon
        <5> QED
          BY <5>1, <5>3, Zenon
      <4> QED
        BY <4>1, <4>3, Zenon
    <3> HIDE DEF ne
    <3>3. \A j \in 1 .. sz : j \in 1 .. Len(a.sep) /\ m + j \in 1 .. Len(Sep) /\ p + m + j = p + (m + j)
      BY <2>1, <2>3, <2>5
    <3>4. CASE sz > 0 /\ ne
      <4>1. PICK j \in 1 .. sz : db.data[a.from + j] # a.sep[j]
        BY <3>2, <3>4, Zenon
      <4>2. ~ At(D, p)
        BY <2>1, <2>2, <3>3, <4>1, Zenon DEF At
      <4>3. b \in MatchState /\ b.found = "no"
        BY <1>1, <3>1, <3>4, Zenon DEF MatchState
      <4> HIDE DEF b
      <4>4. MatchOK(b, D, p, m + sz) /\ b.found # "more"
        BY <4>2, <4>3, Zenon DEF MatchOK
      <4> QED
        BY <4>4, Zenon DEF b
    <3>5. CASE ~ (sz > 0 /\ ne)
      <4> DEFINE rest == SubSeq(a.sep, sz + 1, Len(a.sep))
      <4>1. \A j \in 1 .. sz : db.data[a.from + j] = a.sep[j]
        BY <3>2, <3>5
      <4>2. /\ rest \in Seq(Byte) /\ Len(rest) = Len(a.sep) - sz
            /\ \A j \in 1 .. Len(a.sep) - sz : rest[j] = a.sep[sz + j]
        <5>1. PICK s \in Seq(Byte) : s = a.sep
          BY <1>2, Zenon
        <5>2. sz \in Nat /\ sz < Len(s)
          BY <2>2, <2>5, <5>1, Zenon
        <5>3. /\ SubSeq(s, sz + 1, Len(s)) \in Seq(Byte)
              /\ Len(SubSeq(s, sz + 1, Len(s))) = Len(s) - sz
              /\ \A j \in 1 .. Len(s) - sz : SubSeq(s, sz + 1, Len(s))[j] = s[sz + j]
          BY <5>2
        <5> QED
          BY <5>1, <5>3, Zenon
      <4>3. b = [from |-> 0, sep |-> rest, found |-> "more"]
        BY <1>1, <1>4, <3>1, <3>5, Zenon DEF MatchState
      <4> HIDE DEF b, rest
      <4>4. b \in MatchState
        BY <4>2, <4>3, Zenon DEF MatchState
      <4>5. m + sz < Len(Sep) /\ Len(rest) = Len(Sep) - (m + sz)
        BY <2>1, <2>2, <2>3, <2>5, <4>2
      <4>6. ASSUME NEW j \in 1 .. Len(rest)
            PROVE  rest[j] = Sep[m + sz + j]
        <5>1. sz + j \in 1 .. Len(a.sep) /\ m + (sz + j) = m + sz + j /\ j \in 1 .. Len(a.sep) - sz
          BY <2>2, <2>3, <4>2
        <5> QED
          BY <2>1, <4>2, <5>1, Zenon
      <4>7. ASSUME NEW j \in 1 .. m + sz
            PROVE  D[p + j] = Sep[j]
        <5>1. CASE j <= m
          BY <2>1, <5>1
        <5>2. CASE j > m
          <6>1. j - m \in 1 .. sz /\ m + (j - m) = j /\ p + m + (j - m) = p + j
            BY <5>2
          <6>2. D[p + j] = db.data[a.from + (j - m)]
            BY <2>2, <6>1, Zenon
          <6>3. a.sep[j - m] = Sep[j]
            BY <2>1, <3>3, <6>1, Zenon
          <6> QED
            BY <4>1, <6>1, <6>2, <6>3, Zenon
        <5> QED
          BY <5>1, <5>2
      <4>8. MatchOK(b, D, p, m + sz) /\ b.from = 0
        BY <4>3, <4>4, <4>5, <4>6, <4>7, Zenon DEF MatchOK
      <4> QED
        BY <4>8, Zenon DEF b
    <3> QED
      BY <3>4, <3>5, Zenon
  <2> QED
    BY <2>3, <2>4, <2>5

\* the bytes of the first k nodes begin the bytes of the chain
LEMMA FlatBegins ==
  ASSUME NEW q \in Seq(Buffers), NEW F, Collects(F, q), NEW k \in 0 .. Len(q)
  PROVE  \A n \in k .. Len(q) : /\ Len(F[k]) <= Len(F[n])
                                /\ \A j \in 1 .. Len(F[k]) : F[n][j] = F[k][j]
<1> DEFINE Begins(n) == Len(F[k]) <= Len(F[n]) /\ \A j \in 1 .. Len(F[k]) : F[n][j] = F[k][j]
           S == {d \in Nat : k + d <= Len(q) => Begins(k + d)}
<1>1. \A n \in 0 .. Len(q) : F[n] \in Seq(Byte) /\ Len(F[n]) \in Nat
  BY DEF Collects
<1>2. 0 \in S
  BY <1>1
<1>3. ASSUME NEW d \in Nat, d \in S
      PROVE  d + 1 \in S
  <2> SUFFICES ASSUME k + (d + 1) <= Len(q)
               PROVE  Begins(k + (d + 1))
    OBVIOUS
  <2> DEFINE n == k + d
             u == Unread(q[n + 1])
  <2>1. n + 1 \in 1 .. Len(q) /\ (n + 1) - 1 = n /\ n \in 0 .. Len(q) /\ k + (d + 1) = n + 1
    OBVIOUS
  <2>2. Begins(n)
    BY <1>3, <2>1
  <2>3. F[n + 1] = F[n] \o u
    BY <2>1, Zenon DEF Collects
  <2>4. u \in Seq(Byte) /\ F[n] \in Seq(Byte)
    BY <1>1, <2>1, UnreadType
  <2> HIDE DEF n, u
  <2>5. Len(F[n + 1]) = Len(F[n]) + Len(u) /\ \A j \in 1 .. Len(F[n]) : F[n + 1][j] = F[n][j]
    BY <2>3, <2>4
  <2>6. Begins(n + 1)
    <3>1. Len(F[k]) \in Nat /\ Len(F[n]) \in Nat /\ Len(u) \in Nat
      BY <1>1, <2>1, <2>4
    <3>2. Len(F[k]) <= Len(F[n]) /\ \A j \in 1 .. Len(F[k]) : F[n][j] = F[k][j]
      BY <2>2, Zenon
    <3>3. Len(F[k]) <= Len(F[n + 1])
      BY <2>5, <3>1, <3>2
    <3>4. ASSUME NEW j \in 1 .. Len(F[k])
          PROVE  F[n + 1][j] = F[k][j]
      <4>1. j \in 1 .. Len(F[n])
        BY <3>1, <3>2
      <4> QED
        BY <2>5, <3>2, <4>1, Zenon
    <3> QED
      BY <3>3, <3>4, Zenon
  <2> QED
    BY <2>1, <2>6, Zenon
<1>4. Nat \subseteq S
  <2> HIDE DEF S
  <2> QED
    BY <1>2, <1>3, Induct, Zenon
<1>5. ASSUME NEW n \in k .. Len(q)
      PROVE  Begins(n)
  <2>1. n - k \in Nat /\ k + (n - k) = n
    OBVIOUS
  <2>2. n - k \in S
    BY <1>4, <2>1, Zenon
  <2> HIDE DEF Begins
  <2>3. k + (n - k) <= Len(q) => Begins(k + (n - k))
    BY <2>2, Zenon
  <2> QED
    BY <2>1, <2>3
<1> QED
  BY <1>5, Zenon

\* where the bytes of a node are in the chain
LEMMA NodeBytes ==
  ASSUME NEW q \in Seq(Buffers), NEW F, Collects(F, q), NEW k \in 1 .. Len(q)
  PROVE  /\ F[k - 1] \in Seq(Byte) /\ F[k] \in Seq(Byte) /\ Flat(q) \in Seq(Byte)
         /\ Len(F[k]) = Len(F[k - 1]) + (Len(q[k].data) - q[k].rpos)
         /\ Len(F[k]) <= Len(Flat(q))
         /\ \A j \in 1 .. Len(q[k].data) - q[k].rpos :
              Flat(q)[Len(F[k - 1]) + j] = q[k].data[q[k].rpos + j]
<1> DEFINE u == Unread(q[k])
           w == Len(q[k].data) - q[k].rpos
<1>1. q[k] \in Buffers
  OBVIOUS
<1>2. u \in Seq(Byte) /\ Len(u) = w /\ \A j \in 1 .. w : u[j] = q[k].data[q[k].rpos + j]
  BY <1>1, UnreadType, Zenon
<1>3. F[k] = F[k - 1] \o u /\ F[k - 1] \in Seq(Byte) /\ F[k] \in Seq(Byte) /\ F[Len(q)] \in Seq(Byte)
  <2>1. k - 1 \in 0 .. Len(q) /\ k \in 0 .. Len(q) /\ Len(q) \in 0 .. Len(q)
    OBVIOUS
  <2>2. F \in [0 .. Len(q) -> Seq(Byte)] /\ F[k] = F[k - 1] \o u
    BY Zenon DEF Collects
  <2> QED
    BY <2>1, <2>2, Zenon
<1>4. Flat(q) = F[Len(q)]
  BY FlatWhole, Zenon
<1>5. Len(F[k]) <= Len(Flat(q)) /\ \A j \in 1 .. Len(F[k]) : Flat(q)[j] = F[k][j]
  BY <1>4, FlatBegins
<1> HIDE DEF u, w
<1>6. /\ Len(F[k]) = Len(F[k - 1]) + w
      /\ \A j \in 1 .. w : F[k][Len(F[k - 1]) + j] = u[j]
  <2>1. PICK s \in Seq(Byte), t \in Seq(Byte) : s = F[k - 1] /\ t = F[k] /\ t = s \o u
    BY <1>3, Zenon
  <2>2. Len(t) = Len(s) + w /\ \A j \in 1 .. w : t[Len(s) + j] = u[j]
    <3>1. /\ Len(t) = Len(s) + Len(u)
          /\ \A i \in 1 .. Len(s) + Len(u) : t[i] = IF i <= Len(s) THEN s[i] ELSE u[i - Len(s)]
      <4>1. /\ Len(s \o u) = Len(s) + Len(u)
            /\ \A i \in 1 .. Len(s) + Len(u) : (s \o u)[i] = IF i <= Len(s) THEN s[i] ELSE u[i - Len(s)]
        BY <1>2, ConcatProperties, Zenon
      <4> QED
        BY <2>1, <4>1, Zenon
    <3>2. Len(s) \in Nat /\ Len(u) = w
      BY <1>2
    <3>3. ASSUME NEW j \in 1 .. w
          PROVE  t[Len(s) + j] = u[j]
      <4>1. /\ Len(s) + j \in 1 .. Len(s) + Len(u)
            /\ ~ (Len(s) + j <= Len(s)) /\ (Len(s) + j) - Len(s) = j
        BY <3>2
      <4> QED
        BY <3>1, <4>1, Zenon
    <3> QED
      BY <3>1, <3>2, <3>3, Zenon
  <2> QED
    BY <2>1, <2>2, Zenon
<1>7. ASSUME NEW j \in 1 .. w
      PROVE  Flat(q)[Len(F[k - 1]) + j] = q[k].data[q[k].rpos + j]
  <2>1. Len(F[k - 1]) \in Nat /\ Len(F[k]) \in Nat /\ w \in Nat
    BY <1>2, <1>3
  <2>2. Len(F[k - 1]) + j \in 1 .. Len(F[k])
    BY <1>6, <2>1
  <2>3. Flat(q)[Len(F[k - 1]) + j] = F[k][Len(F[k - 1]) + j]
    BY <1>5, <2>2, Zenon
  <2> QED
    BY <1>2, <1>6, <2>3, Zenon
<1> QED
  BY <1>3, <1>4, <1>5, <1>6, <1>7, Zenon DEF w

MatchStart(from) == [from |-> from, sep |-> Sep, found |-> "more"]

\* byte from of node i in the bytes of the chain, and where check_eol is after
\* it has looked at k nodes
Byte0(F, q, i, from) == Len(F[i - 1]) + (from - q[i].rpos)
Reached(F, q, i, from, k) == IF k = 0 THEN Byte0(F, q, i, from) ELSE Len(F[i + k - 1])

First(from, k) == IF k = 0 THEN from ELSE 0

\* R is a run of check_eol from byte from of node i, as far as its states have
\* their type
Matches(R, q, i, from) ==
  /\ R[0] = MatchStart(from)
  /\ \A k \in 1 .. Len(q) - i + 1 :
       R[k - 1] \in MatchState /\ MatchNode(R[k - 1], q[i + k - 1]) \in MatchState
         => R[k] = MatchNode(R[k - 1], q[i + k - 1])

\* where the node is that check_eol looks at after k others
LEMMA NextBytes ==
  ASSUME NEW q \in Seq(Buffers), NextUnread(q), NEW F, Collects(F, q),
         NEW i \in 1 .. Len(q), NEW from \in q[i].rpos .. Len(q[i].data) - 1,
         NEW k \in Nat, i + k \in 1 .. Len(q)
  PROVE  /\ StandsAt(q[i + k], Flat(q), First(from, k), Reached(F, q, i, from, k))
         /\ Reached(F, q, i, from, k + 1) =
              Reached(F, q, i, from, k) + (Len(q[i + k].data) - First(from, k))
<1> DEFINE db == q[i + k]
<1>f. PICK f : f = First(from, k)
  BY Zenon
<1>r. PICK r : r = Reached(F, q, i, from, k)
  BY Zenon
<1>1. db \in Buffers
  OBVIOUS
<1>2. Len(db.data) \in Nat /\ db.rpos \in Nat /\ db.rpos <= Len(db.data)
  BY <1>1 DEF Buffers
<1>3. PICK n \in Nat, w \in Nat : n = Len(db.data) /\ w = db.rpos
  BY <1>2, Zenon
<1>4. PICK t : t = i + k /\ t \in 1 .. Len(q)
  BY Zenon
<1>5. /\ F[t - 1] \in Seq(Byte) /\ F[t] \in Seq(Byte)
      /\ Len(F[t]) = Len(F[t - 1]) + (n - w) /\ Len(F[t]) <= Len(Flat(q))
      /\ \A j \in 1 .. n - w : Flat(q)[Len(F[t - 1]) + j] = db.data[w + j]
  BY <1>3, <1>4, NodeBytes, Zenon
<1>6. PICK x \in Nat, y \in Nat : x = Len(F[t - 1]) /\ y = Len(F[t])
  <2>1. Len(F[t - 1]) \in Nat /\ Len(F[t]) \in Nat
    BY <1>5, LenProperties, Zenon
  <2> QED
    BY <2>1, Zenon
<1>7. Reached(F, q, i, from, k + 1) = y
  <2>1. k + 1 # 0 /\ i + (k + 1) - 1 = t
    BY <1>4
  <2> QED
    BY <1>6, <2>1, Zenon DEF Reached
<1>8. Len(Flat(q)) \in Nat
  BY FlatType, Zenon
<1> HIDE DEF db
<1>9. y = x + (n - w) /\ y <= Len(Flat(q)) /\ \A j \in 1 .. n - w : Flat(q)[x + j] = db.data[w + j]
  BY <1>5, <1>6, Zenon
<1>10. w <= n
  BY <1>2, <1>3, Zenon
<1>11. CASE k = 0
  <2>1. t = i /\ f = from /\ db = q[i]
    BY <1>4, <1>11, <1>f DEF db, First
  <2>2. from \in w .. n - 1
    BY <1>3, <2>1, Zenon
  <2>3. r = x + (from - w)
    BY <1>3, <1>6, <1>11, <1>r, <2>1, Zenon DEF Reached, Byte0
  <2>4. r \in Nat /\ f \in Nat /\ f <= n /\ y = r + (n - f)
    BY <1>9, <1>10, <2>1, <2>2, <2>3
  <2>5. ASSUME NEW j \in 1 .. n - f
        PROVE  Flat(q)[r + j] = db.data[f + j]
    <3>1. (from - w) + j \in 1 .. n - w /\ x + ((from - w) + j) = r + j /\ w + ((from - w) + j) = f + j
      BY <2>1, <2>2, <2>3
    <3> QED
      BY <1>9, <3>1, Zenon
  <2>6. StandsAt(db, Flat(q), f, r) /\ Reached(F, q, i, from, k + 1) = r + (Len(db.data) - f)
    BY <1>1, <1>3, <1>7, <1>9, <2>4, <2>5, Zenon DEF StandsAt
  <2> QED
    BY <1>f, <1>r, <2>6, Zenon DEF db
<1>12. CASE k # 0
  <2>1. t \in 2 .. Len(q) /\ i + k - 1 = t - 1
    BY <1>4, <1>12
  <2>2. w = 0 /\ f = 0
    BY <1>3, <1>4, <1>12, <1>f, <2>1, Zenon DEF NextUnread, db, First
  <2>3. r = x
    BY <1>6, <1>12, <1>r, <2>1, Zenon DEF Reached
  <2>4. \A j \in 1 .. n - f : Flat(q)[r + j] = db.data[f + j]
    BY <1>9, <2>2, <2>3, Zenon
  <2>5. f \in Nat /\ f <= n /\ y = r + (n - f) /\ r \in Nat
    BY <1>9, <2>2, <2>3
  <2>6. StandsAt(db, Flat(q), f, r) /\ Reached(F, q, i, from, k + 1) = r + (Len(db.data) - f)
    BY <1>1, <1>3, <1>7, <1>9, <2>4, <2>5, Zenon DEF StandsAt
  <2> QED
    BY <1>f, <1>r, <2>6, Zenon DEF db
<1> QED
  BY <1>11, <1>12, Zenon

\* what check_eol knows after k nodes
KnownAfter(R, F, q, i, from, k) ==
  /\ Reached(F, q, i, from, k) - Byte0(F, q, i, from) \in Nat
  /\ MatchOK(R[k], Flat(q), Byte0(F, q, i, from), Reached(F, q, i, from, k) - Byte0(F, q, i, from))
  /\ R[k].found = "more" => R[k].from = First(from, k)

\* Node i + k of a chain of m, in the two ways the walk counts it.
LEMMA NodeIndex ==
  ASSUME NEW m \in Nat, NEW i \in 1 .. m, NEW k \in Nat, k + 1 <= m - i + 1
  PROVE  /\ i + k \in 1 .. m /\ k + 1 \in 1 .. m - i + 1 /\ (k + 1) - 1 = k
         /\ i + (k + 1) - 1 = i + k /\ k + 1 # 0 /\ i + 0 \in 1 .. m
OBVIOUS

\* One more node of check_eol.
LEMMA MatchStep ==
  ASSUME NEW q \in Seq(Buffers), NextUnread(q), NEW F, Collects(F, q),
         NEW i \in 1 .. Len(q), NEW from \in q[i].rpos .. Len(q[i].data) - 1,
         NEW R, Matches(R, q, i, from),
         NEW k \in Nat, k + 1 <= Len(q) - i + 1, KnownAfter(R, F, q, i, from, k)
  PROVE  KnownAfter(R, F, q, i, from, k + 1)
<1>1. /\ i + k \in 1 .. Len(q) /\ k + 1 \in 1 .. Len(q) - i + 1 /\ (k + 1) - 1 = k
      /\ i + (k + 1) - 1 = i + k /\ k + 1 # 0 /\ i + 0 \in 1 .. Len(q)
  <2>1. Len(q) \in Nat
    BY LenProperties, Zenon
  <2> QED
    BY <2>1, NodeIndex, Zenon
<1>2. PICK f : f = First(from, k)
  BY Zenon
<1>3. PICK r : r = Reached(F, q, i, from, k)
  BY Zenon
<1>4. PICK p : p = Byte0(F, q, i, from)
  BY Zenon
<1>5. PICK db : db = q[i + k]
  BY Zenon
<1>6. PICK D : D = Flat(q)
  BY Zenon
<1>7. D \in Seq(Byte) /\ Len(D) \in Nat
  BY <1>6, FlatType, Zenon
<1>8. p \in Nat
  <2>1. p = Reached(F, q, i, from, 0) /\ 0 \in Nat
    BY <1>4, Zenon DEF Reached
  <2>2. StandsAt(q[i + 0], Flat(q), First(from, 0), Reached(F, q, i, from, 0))
    BY <1>1, <2>1, NextBytes, Zenon
  <2> QED
    BY <2>1, <2>2, Zenon DEF StandsAt
<1>9. StandsAt(db, D, f, r) /\ Reached(F, q, i, from, k + 1) = r + (Len(db.data) - f)
  <2>1. /\ StandsAt(q[i + k], Flat(q), First(from, k), Reached(F, q, i, from, k))
        /\ Reached(F, q, i, from, k + 1) =
             Reached(F, q, i, from, k) + (Len(q[i + k].data) - First(from, k))
    BY <1>1, NextBytes, Zenon
  <2> QED
    BY <1>2, <1>3, <1>5, <1>6, <2>1, Zenon
<1>10. r \in Nat /\ Len(db.data) - f \in Nat /\ db \in Buffers
  <2>1. db \in Buffers /\ f \in Nat /\ f <= Len(db.data) /\ r \in Nat
    BY <1>9, Zenon DEF StandsAt
  <2>2. Len(db.data) \in Nat
    BY <2>1 DEF Buffers
  <2> QED
    BY <2>1, <2>2
<1>11. PICK a : a = R[k]
  BY Zenon
<1>12. r - p \in Nat /\ MatchOK(a, D, p, r - p) /\ (a.found = "more" => a.from = f)
  BY <1>2, <1>3, <1>4, <1>6, <1>11, Zenon DEF KnownAfter
<1>13. PICK m \in Nat, sz \in Nat : m = r - p /\ sz = Len(db.data) - f
  BY <1>10, <1>12, Zenon
<1>14. p + m = r
  BY <1>8, <1>10, <1>13
<1>15. MatchOK(a, D, p, m)
  BY <1>12, <1>13, Zenon
<1>16. /\ MatchOK(MatchNode(a, db), D, p, m + sz)
       /\ MatchNode(a, db).found = "more" => MatchNode(a, db).from = 0
  <2>1. CASE a.found = "more"
    <3>1. a.from = f
      BY <1>12, <2>1, Zenon
    <3>2. StandsAt(db, D, a.from, p + m) /\ sz = Len(db.data) - a.from
      BY <1>9, <1>13, <1>14, <3>1, Zenon
    <3> QED
      BY <1>7, <1>8, <1>15, <2>1, <3>2, MatchTurn
  <2>2. CASE a.found # "more"
    <3>1. MatchNode(a, db) = a
      BY <2>2, Zenon DEF MatchNode
    <3> QED
      BY <1>15, <2>2, <3>1, Zenon DEF MatchOK
  <2> QED
    BY <2>1, <2>2, Zenon
<1>17. a \in MatchState /\ MatchNode(a, db) \in MatchState
  BY <1>15, <1>16, Zenon DEF MatchOK
<1>18. R[k + 1] = MatchNode(a, db)
  BY <1>1, <1>5, <1>11, <1>17, Zenon DEF Matches
<1>19. Reached(F, q, i, from, k + 1) - p = m + sz /\ m + sz \in Nat
  <2>1. Reached(F, q, i, from, k + 1) = r + sz
    BY <1>9, <1>13, Zenon
  <2> QED
    BY <1>8, <1>14, <2>1
<1> QED
  BY <1>1, <1>4, <1>6, <1>16, <1>18, <1>19, Zenon DEF KnownAfter, First

\* check_eol compares the separator with the bytes of the chain
LEMMA MatchInv ==
  ASSUME NEW q \in Seq(Buffers), NextUnread(q), NEW F, Collects(F, q),
         NEW i \in 1 .. Len(q), NEW from \in q[i].rpos .. Len(q[i].data) - 1,
         NEW R, Matches(R, q, i, from)
  PROVE  \A k \in 0 .. Len(q) - i + 1 : KnownAfter(R, F, q, i, from, k)
<1> DEFINE N == Len(q) - i + 1
           S == {k \in Nat : k <= N => KnownAfter(R, F, q, i, from, k)}
<1>1. 0 \in S
  <2>1. q[i] \in Buffers /\ Sep \in Seq(Byte) /\ Len(Sep) > 0 /\ Len(Sep) \in Nat
    BY EvBufferAssumption
  <2>2. q[i].rpos \in Nat
    BY <2>1, Zenon DEF Buffers
  <2>3. from \in Nat
    BY <2>2
  <2>4. PICK a : a = MatchStart(from) /\ a = R[0]
    BY Zenon DEF Matches
  <2>5. a.found = "more" /\ a.sep = Sep /\ a.from = from
    BY <2>4 DEF MatchStart
  <2>6. a \in MatchState
    BY <2>1, <2>3, <2>4 DEF MatchStart, MatchState
  <2>7. ASSUME NEW D, NEW p
        PROVE  MatchOK(a, D, p, 0)
    BY <2>1, <2>5, <2>6 DEF MatchOK
  <2>8. Reached(F, q, i, from, 0) - Byte0(F, q, i, from) = 0
    <3>1. Reached(F, q, i, from, 0) = Byte0(F, q, i, from)
      BY Zenon DEF Reached
    <3>2. i + 0 \in 1 .. Len(q) /\ 0 \in Nat
      OBVIOUS
    <3>3. StandsAt(q[i + 0], Flat(q), First(from, 0), Reached(F, q, i, from, 0))
      BY <3>2, NextBytes, Zenon
    <3>4. Reached(F, q, i, from, 0) \in Nat
      BY <3>3, Zenon DEF StandsAt
    <3> QED
      BY <3>1, <3>4
  <2>9. KnownAfter(R, F, q, i, from, 0)
    BY <2>4, <2>5, <2>7, <2>8 DEF KnownAfter, First
  <2> QED
    BY <2>9, Zenon
<1>2. ASSUME NEW k \in Nat, k \in S
      PROVE  k + 1 \in S
  <2> SUFFICES ASSUME k + 1 <= N
               PROVE  KnownAfter(R, F, q, i, from, k + 1)
    OBVIOUS
  <2>1. k <= N /\ k + 1 <= Len(q) - i + 1
    OBVIOUS
  <2>2. KnownAfter(R, F, q, i, from, k)
    BY <1>2, <2>1, Zenon
  <2> QED
    BY <2>1, <2>2, MatchStep, Zenon
<1>3. Nat \subseteq S
  <2> HIDE DEF S
  <2> QED
    BY <1>1, <1>2, Induct, Zenon
<1> QED
  BY <1>3

\* check_eol is the run of its loop over the nodes.
LEMMA CheckEolRuns ==
  ASSUME TypeOK, NextUnread(input), NEW F, Collects(F, input),
         NEW i \in 1 .. Len(input), NEW from \in input[i].rpos .. Len(input[i].data) - 1
  PROVE  \E R : /\ Matches(R, input, i, from)
                /\ CheckEol(i, from) <=> R[Len(input) - i + 1].found = "yes"
<1> DEFINE N == Len(input) - i + 1
           X == MatchState
           x == MatchStart(from)
           Turn(a, k) == MatchNode(a, input[i + k - 1])
           G == [p \in X \X (1 .. N) |-> IF Turn(p[1], p[2]) \in X THEN Turn(p[1], p[2]) ELSE x]
           Eqn(M) == M = [k \in 0 .. N |-> IF k = 0 THEN x ELSE MatchNode(M[k - 1], input[i + k - 1])]
           Q == CHOOSE M : Eqn(M)
<1>1. N \in Nat /\ input \in Seq(Buffers) /\ input[i] \in Buffers
  BY DEF TypeOK
<1>2. x \in X
  <2>1. input[i].rpos \in Nat
    BY <1>1, Zenon DEF Buffers
  <2>2. from \in Nat
    BY <2>1
  <2> QED
    BY <2>2, EvBufferAssumption, Zenon DEF MatchStart, MatchState
<1> HIDE DEF X, x, N, Turn
<1>3. G \in [X \X (1 .. N) -> X]
  BY <1>2, Zenon
<1>4. \A a \in X, k \in 1 .. N : Turn(a, k) \in X => G[<<a, k>>] = Turn(a, k)
  BY Zenon
<1> HIDE DEF G
<1>5. PICK R : Runs(R, N, x, X, G)
  BY <1>1, <1>2, <1>3, LoopRuns, Zenon
<1>6. R \in [0 .. N -> X] /\ R[0] = x
  BY <1>5, Zenon DEF Runs
<1>7. ASSUME NEW k \in 1 .. N, R[k - 1] \in X, Turn(R[k - 1], k) \in X
      PROVE  R[k] = Turn(R[k - 1], k)
  <2>1. R[k] = G[<<R[k - 1], k>>]
    BY <1>5, Zenon DEF Runs
  <2> QED
    BY <1>4, <1>7, <2>1, Zenon
<1>8. Matches(R, input, i, from)
  BY <1>6, <1>7, Zenon DEF Matches, Turn, X, x, N
<1>9. \A k \in 0 .. N : R[k] \in MatchState
  <2>1. \A k \in 0 .. N : KnownAfter(R, F, input, i, from, k)
    BY <1>1, <1>8, MatchInv, Zenon DEF N
  <2> QED
    BY <2>1, Zenon DEF KnownAfter, MatchOK
<1>10. \A k \in 1 .. N : Turn(R[k - 1], k) \in MatchState
  <2> SUFFICES ASSUME NEW k \in 1 .. N
               PROVE  Turn(R[k - 1], k) \in MatchState
    BY Zenon
  <2>1. k - 1 \in Nat /\ (k - 1) + 1 = k /\ (k - 1) + 1 <= Len(input) - i + 1 /\ k - 1 \in 0 .. N
        /\ i + (k - 1) \in 1 .. Len(input) /\ i + k - 1 = i + (k - 1)
    BY <1>1 DEF N
  <2>2. KnownAfter(R, F, input, i, from, k - 1)
    BY <1>1, <1>8, <2>1, MatchInv, Zenon DEF N
  <2>3. PICK a, db : a = R[k - 1] /\ db = input[i + (k - 1)]
    BY Zenon
  <2>4. a \in MatchState /\ db \in Buffers
    BY <1>1, <1>9, <2>1, <2>3
  <2>5. a.found = "more" => a.from = First(from, k - 1)
    BY <2>2, <2>3, Zenon DEF KnownAfter
  <2>6. StandsAt(db, Flat(input), First(from, k - 1), Reached(F, input, i, from, k - 1))
    BY <1>1, <2>1, <2>3, NextBytes, Zenon
  <2>7. a.found = "more" => a.from <= Len(db.data)
    BY <2>5, <2>6, Zenon DEF StandsAt
  <2>8. MatchNode(a, db) \in MatchState
    <3>1. a.from \in Nat /\ a.sep \in Seq(Byte) /\ db.data \in Seq(Byte) /\ a.found \in {"more", "yes", "no"}
      BY <2>4, Zenon DEF MatchState, Buffers
    <3>2. CASE a.found # "more"
      BY <2>4, <3>2, Zenon DEF MatchNode
    <3>3. CASE a.found = "more"
      <4>1. PICK sz \in Nat : sz = Len(db.data) - a.from
        BY <2>7, <3>1, <3>3
      <4>2. SubSeq(a.sep, sz + 1, Len(a.sep)) \in Seq(Byte)
        BY <3>1
      <4>3. [a EXCEPT !.sep = SubSeq(@, sz + 1, Len(@)), !.from = 0] \in MatchState
        BY <2>4, <4>2, Zenon DEF MatchState
      <4>4. [a EXCEPT !.found = "no"] \in MatchState /\ [a EXCEPT !.found = "yes"] \in MatchState
        BY <2>4, Zenon DEF MatchState
      <4> QED
        BY <3>3, <4>1, <4>3, <4>4, Zenon DEF MatchNode
    <3> QED
      BY <3>2, <3>3, Zenon
  <2> QED
    BY <2>1, <2>3, <2>8, Zenon DEF Turn
<1>11. \A k \in 1 .. N : R[k] = MatchNode(R[k - 1], input[i + k - 1])
  <2> SUFFICES ASSUME NEW k \in 1 .. N
               PROVE  R[k] = MatchNode(R[k - 1], input[i + k - 1])
    BY Zenon
  <2>1. R[k - 1] \in X /\ Turn(R[k - 1], k) \in X
    BY <1>1, <1>6, <1>10 DEF X
  <2>2. R[k] = Turn(R[k - 1], k)
    BY <1>7, <2>1, Zenon
  <2> QED
    BY <2>2, Zenon DEF Turn
<1>12. Eqn(R)
  BY <1>1, <1>6, <1>11
<1>13. Eqn(Q)
  <2> HIDE DEF Eqn
  <2> QED
    BY <1>12, Zenon
<1>14. CheckEol(i, from) <=> Q[N].found = "yes"
  BY Zenon DEF CheckEol, N, x, MatchStart
<1> HIDE DEF Q
<1>15. Q[0] = x /\ \A k \in 1 .. N : Q[k] = MatchNode(Q[k - 1], input[i + k - 1])
  BY <1>1, <1>13
<1>16. Matches(Q, input, i, from)
  BY <1>15, Zenon DEF Matches, N, x
<1> QED
  BY <1>14, <1>16, Zenon DEF N

\* check_eol finds the separator where it is in the bytes of the input
LEMMA CheckEolIs ==
  ASSUME TypeOK, NextUnread(input), NEW F, Collects(F, input),
         NEW i \in 1 .. Len(input), NEW from \in input[i].rpos .. Len(input[i].data) - 1
  PROVE  CheckEol(i, from) <=> At(Flat(input), Byte0(F, input, i, from))
<1>1. PICK R : /\ Matches(R, input, i, from)
               /\ CheckEol(i, from) <=> R[Len(input) - i + 1].found = "yes"
  BY CheckEolRuns, Zenon
<1>2. PICK N : N = Len(input) - i + 1
  BY Zenon
<1>3. N \in Nat /\ N # 0 /\ N \in 0 .. Len(input) - i + 1 /\ i + N - 1 = Len(input) /\ input \in Seq(Buffers)
  BY <1>2 DEF TypeOK
<1>4. KnownAfter(R, F, input, i, from, N)
  BY <1>1, <1>3, MatchInv, Zenon
<1>5. Reached(F, input, i, from, N) = Len(Flat(input))
  <2>1. Flat(input) = F[Len(input)]
    BY <1>3, FlatWhole, Zenon
  <2> QED
    BY <1>3, <2>1, Zenon DEF Reached
<1>6. PICK a, D, p : a = R[N] /\ D = Flat(input) /\ p = Byte0(F, input, i, from)
  BY Zenon
<1>7. Len(D) - p \in Nat /\ MatchOK(a, D, p, Len(D) - p)
  BY <1>4, <1>5, <1>6, Zenon DEF KnownAfter
<1>8. a.found = "yes" <=> At(D, p)
  <2>1. a.found \in {"more", "yes", "no"}
    BY <1>7, Zenon DEF MatchOK, MatchState
  <2>2. CASE a.found = "more"
    <3>1. Len(D) - p < Len(Sep)
      BY <1>7, <2>2, Zenon DEF MatchOK
    <3>2. Len(D) \in Nat /\ Len(Sep) \in Nat /\ p \in Nat
      <4>1. 0 \in Nat /\ i + 0 \in 1 .. Len(input)
        BY <1>3
      <4>2. StandsAt(input[i + 0], Flat(input), First(from, 0), Reached(F, input, i, from, 0))
        BY <1>3, <4>1, NextBytes, Zenon
      <4>3. Reached(F, input, i, from, 0) = p
        BY <1>6, Zenon DEF Reached
      <4> QED
        BY <1>3, <1>6, <4>2, <4>3, FlatType, EvBufferAssumption DEF StandsAt
    <3> QED
      BY <2>2, <3>1, <3>2 DEF At
  <2>3. CASE a.found # "more"
    BY <1>7, <2>1, <2>3, Zenon DEF MatchOK
  <2> QED
    BY <2>2, <2>3, Zenon
<1> QED
  BY <1>1, <1>2, <1>6, <1>8, Zenon

\* where the separator is in the bytes of the input
Hits == {p \in Nat : At(Flat(input), p)}

\* search_eol tries the place of every separator.
LEMMA SearchFinds ==
  ASSUME TypeOK, NextUnread(input), NEW p \in Hits
  PROVE  \E i \in 1 .. Len(input) : \E f \in input[i].rpos .. Len(input[i].data) - 1 :
           CheckEol(i, f) /\ p = Len(Flat(SubSeq(input, 1, i - 1))) + f - input[i].rpos
<1>1. input \in Seq(Buffers) /\ Len(input) \in Nat /\ Len(Sep) \in Nat \ {0} /\ p \in Nat /\ At(Flat(input), p)
  BY EvBufferAssumption DEF TypeOK, Hits
<1>2. PICK F : Collects(F, input) /\ Flat(input) = F[Len(input)]
  BY <1>1, FlatCollects, Zenon
<1>3. \A n \in 0 .. Len(input) : F[n] \in Seq(Byte) /\ Len(F[n]) \in Nat
  BY <1>2 DEF Collects
<1>4. p < Len(F[Len(input)])
  <2>1. Len(F[Len(input)]) \in Nat
    BY <1>1, <1>3
  <2>2. p + Len(Sep) <= Len(F[Len(input)])
    BY <1>1, <1>2, Zenon DEF At
  <2> QED
    BY <1>1, <2>1, <2>2
<1> DEFINE S == {n \in 0 .. Len(input) : p < Len(F[n])}
<1>5. PICK i \in S : \A n \in S : i <= n
  <2>1. S \subseteq Nat /\ S # {}
    BY <1>1, <1>4
  <2> HIDE DEF S
  <2> QED
    BY <2>1, Least, Zenon
<1>6. i # 0
  <2>1. F[0] = <<>>
    BY <1>2, Zenon DEF Collects
  <2> QED
    BY <1>1, <2>1
<1>7. i \in 1 .. Len(input) /\ i - 1 \in 0 .. Len(input) /\ input[i] \in Buffers
  BY <1>1, <1>6
<1>8. Len(F[i - 1]) <= p
  <2>1. i - 1 \notin S
    BY <1>1, <1>5, <1>7
  <2> QED
    BY <1>1, <1>3, <1>7, <2>1
<1>9. PICK a \in Seq(Byte), u \in Seq(Byte) : a = F[i - 1] /\ u = Unread(input[i])
  BY <1>3, <1>7, UnreadType, Zenon
<1>10. F[i] = a \o u
  BY <1>2, <1>7, <1>9, Zenon DEF Collects
<1>11. p < Len(a) + Len(u) /\ Len(a) <= p
  <2>1. p < Len(F[i])
    BY <1>5, Zenon
  <2>2. Len(a \o u) = Len(a) + Len(u)
    BY ConcatProperties, Zenon
  <2> QED
    BY <1>8, <1>9, <1>10, <2>1, <2>2, Zenon
<1>12. Len(u) = Len(input[i].data) - input[i].rpos
  BY <1>7, <1>9, UnreadType, Zenon
<1>13. PICK r \in Nat, w \in Nat : r = input[i].rpos /\ w = Len(input[i].data) /\ r <= w
  BY <1>7 DEF Buffers
<1>14. PICK f \in Nat : f = p - Len(a) + r
  <2>1. Len(a) \in Nat /\ p - Len(a) \in Nat
    BY <1>1, <1>9, <1>11
  <2> QED
    BY <1>13, <2>1
<1>15. f \in r .. w - 1 /\ Len(a) + (f - r) = p /\ Len(a) + f - r = p
  <2>1. PICK la \in Nat, lu \in Nat : la = Len(a) /\ lu = Len(u)
    BY <1>9
  <2>2. /\ p \in Nat /\ r \in Nat /\ w \in Nat /\ f \in Nat /\ la \in Nat /\ lu \in Nat
        /\ lu = w - r /\ p < la + lu /\ la <= p /\ f = p - la + r
    BY <1>1, <1>11, <1>12, <1>13, <1>14, <2>1, Zenon
  <2>3. f \in r .. w - 1 /\ la + (f - r) = p /\ la + f - r = p
    BY <2>2
  <2> QED
    BY <2>1, <2>3, Zenon
<1>16. Byte0(F, input, i, f) = p
  BY <1>9, <1>13, <1>15, Zenon DEF Byte0
<1>17. CheckEol(i, f)
  BY <1>1, <1>2, <1>7, <1>13, <1>15, <1>16, CheckEolIs, Zenon
<1>18. Flat(SubSeq(input, 1, i - 1)) = a
  BY <1>1, <1>2, <1>7, <1>9, FlatPrefix, Zenon
<1>19. p = Len(Flat(SubSeq(input, 1, i - 1))) + f - input[i].rpos /\ f \in input[i].rpos .. Len(input[i].data) - 1
  BY <1>13, <1>15, <1>18, Zenon
<1> QED
  BY <1>7, <1>17, <1>19, Zenon

\* Where check_eol says yes there is a separator.
LEMMA FoundIsHit ==
  ASSUME TypeOK, NextUnread(input), NEW i \in 1 .. Len(input),
         NEW f \in input[i].rpos .. Len(input[i].data) - 1, CheckEol(i, f)
  PROVE  Len(Flat(SubSeq(input, 1, i - 1))) + f - input[i].rpos \in Hits
<1>1. input \in Seq(Buffers) /\ input[i] \in Buffers
  BY DEF TypeOK
<1>2. PICK F : Collects(F, input)
  BY <1>1, FlatCollects, Zenon
<1>3. At(Flat(input), Byte0(F, input, i, f))
  BY <1>1, <1>2, CheckEolIs, Zenon
<1>4. PICK a \in Seq(Byte) : a = F[i - 1]
  BY <1>2 DEF Collects
<1>5. Flat(SubSeq(input, 1, i - 1)) = a
  <2>1. i - 1 \in 0 .. Len(input)
    BY <1>1
  <2> QED
    BY <1>1, <1>2, <1>4, <2>1, FlatPrefix, Zenon
<1>6. PICK r \in Nat : r = input[i].rpos
  BY <1>1, Zenon DEF Buffers
<1>7. f \in Nat /\ r <= f
  BY <1>1, <1>6 DEF Buffers
<1>8. Byte0(F, input, i, f) = Len(a) + (f - r)
  BY <1>4, <1>6, Zenon DEF Byte0
<1>9. Len(a) + f - r = Len(a) + (f - r) /\ Len(a) + f - r \in Nat
  BY <1>4, <1>6, <1>7
<1> QED
  BY <1>3, <1>5, <1>6, <1>8, <1>9, Zenon DEF Hits

\* search_eol finds the first separator, or that there is none
LEMMA SearchEolIs ==
  ASSUME TypeOK, NextUnread(input)
  PROVE  SearchEol = IF Hits = {} THEN -1 ELSE Min(Hits) + Len(Sep)
<1> DEFINE from(i) == {f \in input[i].rpos .. Len(input[i].data) - 1 : CheckEol(i, f)}
           place(i, f) == Len(Flat(SubSeq(input, 1, i - 1))) + f - input[i].rpos
           hits == UNION {{place(i, f) : f \in from(i)} : i \in 1 .. Len(input)}
<1>1. SearchEol = IF hits = {} THEN -1 ELSE Min(hits) + Len(Sep)
  BY Zenon DEF SearchEol
<1>2. ASSUME NEW i \in 1 .. Len(input), NEW f \in from(i)
      PROVE  place(i, f) \in Hits
  BY FoundIsHit, Zenon
<1>3. ASSUME NEW p \in Hits
      PROVE  \E i \in 1 .. Len(input) : \E f \in from(i) : p = place(i, f)
  BY SearchFinds, Zenon
<1> HIDE DEF from, place
<1>4. hits \subseteq Hits
  BY <1>2
<1>5. Hits \subseteq hits
  BY <1>3
<1>6. hits = Hits
  BY <1>4, <1>5, Zenon
<1> QED
  BY <1>1, <1>6, Zenon

\* where the separator ends
Ends(D) == {n \in Len(Sep) .. Len(D) : SubSeq(D, n - Len(Sep) + 1, n) = Sep}

\* A separator begins at p when it ends after its length.
LEMMA EndsAreHits ==
  ASSUME NEW D \in Seq(Byte), NEW p \in Nat
  PROVE  At(D, p) <=> p + Len(Sep) \in Ends(D)
<1>1. Sep \in Seq(Byte) /\ Len(Sep) \in Nat /\ SubSeq(Sep, 1, Len(Sep)) = Sep
  BY EvBufferAssumption
<1>2. PICK k \in Nat : k = Len(Sep)
  BY <1>1, Zenon
<1>3. p + k - k + 1 = p + 1 /\ (p + k \in k .. Len(D) <=> p + k <= Len(D))
  BY <1>2
<1>4. CASE p + k <= Len(D)
  <2>1. PICK t \in Seq(Byte) : t = Sep /\ SubSeq(t, 1, k) = t /\ k <= Len(t)
    BY <1>1, <1>2
  <2>2. SubSeq(D, p + 1, p + k) = SubSeq(t, 1, k) <=> \A j \in 1 .. k : D[p + j] = t[j]
    BY <1>4, <2>1, SameBytes
  <2>3. At(D, p) <=> \A j \in 1 .. k : D[p + j] = t[j]
    BY <1>2, <1>4, <2>1, Zenon DEF At
  <2>4. p + k \in Ends(D) <=> SubSeq(D, p + k - k + 1, p + k) = t
    <3>1. \A n : n \in Ends(D) <=> n \in k .. Len(D) /\ SubSeq(D, n - k + 1, n) = t
      BY <1>2, <2>1, Zenon DEF Ends
    <3>2. p + k \in k .. Len(D)
      BY <1>3, <1>4, Zenon
    <3>3. PICK n : n = p + k
      BY Zenon
    <3>4. n \in Ends(D) <=> SubSeq(D, n - k + 1, n) = t
      BY <3>1, <3>2, <3>3, Zenon
    <3> QED
      BY <3>3, <3>4
  <2>5. p + k \in Ends(D) <=> SubSeq(D, p + 1, p + k) = t
    BY <1>3, <2>4, Zenon
  <2>6. At(D, p) <=> p + k \in Ends(D)
    BY <2>1, <2>2, <2>3, <2>5, Zenon
  <2> QED
    BY <1>2, <2>6, Zenon
<1>5. CASE ~ (p + k <= Len(D))
  BY <1>2, <1>3, <1>5, Zenon DEF At, Ends
<1> QED
  BY <1>4, <1>5, Zenon

\* _session_read_util returns the first line
LEMMA FirstEnd ==
  ASSUME TypeOK, NextUnread(input)
  PROVE  /\ SearchEol < 0 <=> Ends(Flat(input)) = {}
         /\ ~ (SearchEol < 0) => /\ SearchEol = Min(Ends(Flat(input)))
                                 /\ SearchEol \in Nat /\ SearchEol <= Len(Flat(input))
<1>1. PICK D \in Seq(Byte) : D = Flat(input)
  BY FlatType, Zenon DEF TypeOK
<1>2. PICK k \in Nat : k = Len(Sep)
  BY EvBufferAssumption
<1>3. SearchEol = IF Hits = {} THEN -1 ELSE Min(Hits) + k
  BY <1>2, SearchEolIs, Zenon
<1>4. Hits = {p \in Nat : p + k \in Ends(D)}
  BY <1>1, <1>2, EndsAreHits, Zenon DEF Hits
<1>5. \A n \in Ends(D) : n \in Nat /\ n - k \in Nat /\ n - k + k = n /\ n <= Len(D)
  BY <1>2 DEF Ends
<1>6. Hits = {} <=> Ends(D) = {}
  BY <1>4, <1>5, Zenon
<1>7. CASE Hits = {}
  BY <1>1, <1>3, <1>6, <1>7
<1>8. CASE Hits # {}
  <2>1. PICK p \in Hits : \A y \in Hits : p <= y
    BY <1>4, <1>8, Least, Zenon
  <2>2. p \in Nat /\ p + k \in Ends(D) /\ \A n \in Ends(D) : p + k <= n
    <3>1. \A n \in Ends(D) : n - k \in Hits
      BY <1>4, <1>5, Zenon
    <3>2. p \in Nat /\ p + k \in Ends(D)
      BY <1>4, <2>1, Zenon
    <3> SUFFICES ASSUME NEW n \in Ends(D)
                 PROVE  p + k <= n
      BY <3>2, Zenon
    <3>3. p <= n - k /\ n \in Nat
      BY <1>5, <2>1, <3>1, Zenon
    <3> QED
      BY <3>2, <3>3
  <2>3. Min(Hits) = p
    <3>1. Hits \subseteq Nat
      BY <1>4, Zenon
    <3>2. \A x \in Hits : (\A y \in Hits : x <= y) => x = p
      BY <2>1, <2>2, <3>1
    <3> QED
      BY <2>1, <3>2, Zenon DEF Min
  <2>4. Min(Ends(D)) = p + k
    <3>1. Ends(D) \subseteq Nat
      BY <1>5, Zenon
    <3>2. \A x \in Ends(D) : (\A y \in Ends(D) : x <= y) => x = p + k
      BY <2>2, <3>1
    <3> QED
      BY <2>2, <3>2, Zenon DEF Min
  <2>5. SearchEol = p + k /\ p + k <= Len(D)
    BY <1>3, <1>5, <1>8, <2>2, <2>3, Zenon
  <2> QED
    BY <1>1, <1>6, <1>8, <2>2, <2>4, <2>5
<1> QED
  BY <1>7, <1>8, Zenon

-----------------------------------------------------------------------------
(* the invariant *)

\* Bytes that are cut are put together again.
LEMMA SplitBytes ==
  ASSUME NEW s \in Seq(Byte), NEW n \in 0 .. Len(s)
  PROVE  /\ SubSeq(s, 1, n) \in Seq(Byte) /\ Len(SubSeq(s, 1, n)) = n
         /\ SubSeq(s, n + 1, Len(s)) \in Seq(Byte) /\ Len(SubSeq(s, n + 1, Len(s))) = Len(s) - n
         /\ SubSeq(s, 1, n) \o SubSeq(s, n + 1, Len(s)) = s
<1> DEFINE x == SubSeq(s, 1, n)
           y == SubSeq(s, n + 1, Len(s))
<1>1. x \in Seq(Byte) /\ Len(x) = n /\ \A j \in 1 .. n : x[j] = s[j]
  OBVIOUS
<1>2. y \in Seq(Byte) /\ Len(y) = Len(s) - n /\ \A j \in 1 .. Len(s) - n : y[j] = s[n + j]
  OBVIOUS
<1> HIDE DEF x, y
<1>3. x \o y \in Seq(Byte) /\ Len(x \o y) = Len(s)
  BY <1>1, <1>2
<1>4. \A j \in 1 .. Len(s) : (x \o y)[j] = s[j]
  BY <1>1, <1>2
<1>5. x \o y = s
  BY <1>3, <1>4, SeqEqual, Zenon
<1> QED
  BY <1>1, <1>2, <1>5, Zenon DEF x, y

\* The first of two sequences of bytes.
LEMMA BeginsWith ==
  ASSUME NEW s \in Seq(Byte), NEW t \in Seq(Byte)
  PROVE  SubSeq(s \o t, 1, Len(s)) = s
<1> DEFINE x == SubSeq(s \o t, 1, Len(s))
<1>1. x \in Seq(Byte) /\ Len(x) = Len(s) /\ \A j \in 1 .. Len(s) : x[j] = s[j]
  OBVIOUS
<1> HIDE DEF x
<1>2. x = s
  BY <1>1, SeqEqual, Zenon
<1> QED
  BY <1>2, Zenon DEF x

\* A byte appended to the second of two sequences.
LEMMA AppendAssociates == \A s, t \in Seq(Byte), b \in Byte : Append(s \o t, b) = s \o Append(t, b)
<1> SUFFICES ASSUME NEW s \in Seq(Byte), NEW t \in Seq(Byte), NEW b \in Byte
             PROVE  Append(s \o t, b) = s \o Append(t, b)
  BY Zenon
<1> DEFINE x == Append(s \o t, b)
           y == s \o Append(t, b)
<1>1. /\ x \in Seq(Byte) /\ y \in Seq(Byte) /\ Len(x) = Len(y)
      /\ \A j \in 1 .. Len(x) : x[j] = y[j]
  OBVIOUS
<1> HIDE DEF x, y
<1>2. x = y
  BY <1>1, SeqEqual, Zenon
<1> QED
  BY <1>2, Zenon DEF x, y

\* A new node.
LEMMA BufferType ==
  ASSUME TypeOK, NEW s \in Seq(Byte), NEW r \in 0 .. Len(s)
  PROVE  /\ Buffer(s, r) \in Buffers /\ Buffer(s, r).rpos = r
         /\ Unread(Buffer(s, r)) = SubSeq(s, r + 1, Len(s))
<1>1. NextNode \in Nat
  BY DEF TypeOK, NextNode
<1>2. Len(s) \in Nat /\ r \in Nat /\ r <= Len(s)
  OBVIOUS
<1>3. Buffer(s, r) \in [node : Nat, data : Seq(Byte), rpos : Nat]
  BY <1>1, <1>2, Zenon DEF Buffer
<1>4. Buffer(s, r).data = s /\ Buffer(s, r).rpos = r
  BY Zenon DEF Buffer
<1> QED
  BY <1>2, <1>3, <1>4, Zenon DEF Buffers, Unread

\* A node is taken from the freelist or is new.
LEMMA BufferNextType ==
  ASSUME TypeOK, BufferNext
  PROVE  freelist' \in Seq(Nat) /\ fresh' \in Nat
<1>1. freelist \in Seq(Nat) /\ fresh \in Nat
  BY Zenon DEF TypeOK
<1>2. CASE freelist # <<>>
  <2>1. freelist' = Tail(freelist) /\ fresh' = fresh
    BY <1>2, Zenon DEF BufferNext
  <2>2. Tail(freelist) \in Seq(Nat)
    BY <1>1, <1>2, HeadTailProperties, Zenon
  <2> QED
    BY <1>1, <2>1, <2>2, Zenon
<1>3. CASE freelist = <<>>
  BY <1>1, <1>3 DEF BufferNext
<1> QED
  BY <1>2, <1>3, Zenon

\* Only the first node of a chain is partly read, also after a node is added.
LEMMA AppendUnread ==
  ASSUME NEW q \in Seq(Buffers), NextUnread(q), NEW db \in Buffers, db.rpos = 0 \/ q = <<>>
  PROVE  Append(q, db) \in Seq(Buffers) /\ NextUnread(Append(q, db))
<1>1. /\ Append(q, db) \in Seq(Buffers) /\ Len(Append(q, db)) = Len(q) + 1 /\ Len(q) \in Nat
      /\ \A i \in 1 .. Len(q) : Append(q, db)[i] = q[i]
      /\ Append(q, db)[Len(q) + 1] = db
  OBVIOUS
<1>2. ASSUME NEW i \in 2 .. Len(Append(q, db))
      PROVE  Append(q, db)[i].rpos = 0
  <2>1. CASE i <= Len(q)
    BY <1>1, <2>1 DEF NextUnread
  <2>2. CASE i = Len(q) + 1
    BY <1>1, <2>2
  <2> QED
    BY <1>1, <2>1, <2>2
<1> QED
  BY <1>1, <1>2, Zenon DEF NextUnread

\* a line as _session_read_util returned it
LEMMA FirstLineIs ==
  FirstLine <=> line.result = IF Ends(line.before) = {} THEN <<>>
                                                      ELSE SubSeq(line.before, 1, Min(Ends(line.before)))
BY Zenon DEF FirstLine, Ends

\* The invariant holds at first.
LEMMA InitStream == Init => StreamInv
<1> SUFFICES ASSUME Init
             PROVE  StreamInv
  BY Zenon
<1>1. TypeOK
  BY EvBufferAssumption DEF Init, TypeOK
<1>2. NextUnread(input) /\ NextUnread(output)
  BY DEF Init, NextUnread
<1>3. <<>> \o <<>> = <<>> /\ Len(<<>>) = 0
  OBVIOUS
<1>4. InputIsStream /\ OutputIsStream
  BY <1>3, FlatEmpty, Zenon DEF Init, InputIsStream, OutputIsStream
<1>5. FirstLine
  <2>1. line.before = <<>> /\ line.result = <<>>
    BY Zenon DEF Init
  <2>2. Len(Sep) \in Nat /\ Len(Sep) # 0
    BY EvBufferAssumption
  <2>3. Ends(<<>>) = {}
    BY <1>3, <2>2 DEF Ends
  <2> QED
    BY <2>1, <2>3, FirstLineIs, Zenon
<1> QED
  BY <1>1, <1>2, <1>4, <1>5, Zenon DEF StreamInv

\* A byte the peer sends keeps StreamInv.
LEMMA PeerInv ==
  ASSUME StreamInv, NEW b \in Byte, PeerSend(b)
  PROVE  StreamInv'
<1> USE DEF StreamInv
<1>1. TypeOK /\ InputIsStream
  BY Zenon
<1>2. UNCHANGED <<alive, input, total, threshold, output, ototal, wio, freelist, fresh, taken, written, sent, line>>
  BY Zenon DEF PeerSend, in, out, nodes
<1>3. wire' = Append(wire, b) /\ received' = Append(received, b)
  BY Zenon DEF PeerSend
<1>4. TypeOK'
  BY <1>1, <1>2, <1>3 DEF TypeOK
<1>5. InputIsStream'
  <2>1. PICK s \in Seq(Byte), t \in Seq(Byte), w \in Seq(Byte) : s = taken /\ t = Flat(input) /\ w = wire
    BY <1>1, FlatType, Zenon DEF TypeOK
  <2>2. s \o t \in Seq(Byte)
    BY <2>1
  <2>3. Append((s \o t) \o w, b) = (s \o t) \o Append(w, b)
    BY <2>1, <2>2, AppendAssociates, Zenon
  <2>4. Flat(input)' = Flat(input)
    BY <1>2, Zenon DEF Flat
  <2> QED
    BY <1>1, <1>2, <1>3, <2>1, <2>3, <2>4, Zenon DEF InputIsStream
<1> QED
  BY <1>2, <1>4, <1>5, Zenon DEF NextUnread, OutputIsStream, FirstLine, Flat

\* what changes no chain, no stream and no line
LEMMA QuietInv ==
  ASSUME StreamInv, UNCHANGED <<alive, input, total, threshold, output, ototal, wio>>,
         UNCHANGED <<wire, received, taken, written, sent, line>>,
         freelist' \in Seq(Nat), fresh' \in Nat
  PROVE  StreamInv'
<1>1. TypeOK'
  BY Zenon DEF StreamInv, TypeOK
<1> QED
  BY <1>1, Zenon DEF StreamInv, NextUnread, InputIsStream, OutputIsStream, FirstLine, Flat

\* Fail keeps StreamInv.
LEMMA FailInv ==
  ASSUME StreamInv, Fail, UNCHANGED <<threshold, wire, received, taken, written, sent, line>>,
         freelist' \in Seq(Nat), fresh' \in Nat
  PROVE  StreamInv'
<1>1. TypeOK'
  BY DEF StreamInv, TypeOK, Fail
<1>2. NextUnread(input)' /\ NextUnread(output)'
  BY DEF Fail, NextUnread
<1>3. Flat(input)' = <<>> /\ Flat(output)' = <<>>
  <2>1. input' = <<>> /\ output' = <<>>
    BY Zenon DEF Fail
  <2>2. Flat(input)' = Flat(<<>>) /\ Flat(output)' = Flat(<<>>)
    BY <2>1 DEF Flat
  <2> QED
    BY <2>2, FlatEmpty, Zenon
<1>4. InputIsStream' /\ OutputIsStream'
  BY <1>3, Zenon DEF Fail, InputIsStream, OutputIsStream
<1>5. FirstLine'
  BY Zenon DEF StreamInv, FirstLine
<1> QED
  BY <1>1, <1>2, <1>4, <1>5, Zenon DEF StreamInv

\* The length of two sequences of bytes.
LEMMA BytesAdd ==
  ASSUME NEW s \in Seq(Byte), NEW f \in Seq(Byte)
  PROVE  Len(s \o f) = Len(s) + Len(f)
BY ConcatProperties, Zenon

\* ReadCb keeps StreamInv.
LEMMA ReadCbInv ==
  ASSUME StreamInv, NEW n \in 0 .. Len(wire), ReadCb(n)
  PROVE  StreamInv'
<1>1. TypeOK /\ InputIsStream /\ NextUnread(input) /\ alive
  BY Zenon DEF StreamInv, ReadCb
<1>2. PICK w1 \in Seq(Byte), w2 \in Seq(Byte) :
        /\ w1 = SubSeq(wire, 1, n) /\ w2 = SubSeq(wire, n + 1, Len(wire))
        /\ Len(w1) = n /\ w1 \o w2 = wire
  <2>1. wire \in Seq(Byte)
    BY <1>1, Zenon DEF TypeOK
  <2>2. /\ SubSeq(wire, 1, n) \in Seq(Byte) /\ Len(SubSeq(wire, 1, n)) = n
        /\ SubSeq(wire, n + 1, Len(wire)) \in Seq(Byte)
        /\ SubSeq(wire, 1, n) \o SubSeq(wire, n + 1, Len(wire)) = wire
    BY <2>1, SplitBytes, Zenon
  <2> QED
    BY <2>2, Zenon
<1>t. w1 \in Seq(Byte) /\ w2 \in Seq(Byte) /\ Len(w1) \in Nat
  <2>1. w1 \in Seq(Byte) /\ w2 \in Seq(Byte)
    BY <1>2, Zenon
  <2> QED
    BY <2>1
<1>3. /\ UNCHANGED <<alive, output, ototal, wio, received, taken, written, sent, line>>
      /\ wire' = w2 /\ total' = total + n /\ input' = Append(input, Buffer(w1, 0)) /\ BufferNext
  BY <1>2, Zenon DEF ReadCb, out
<1>4. PICK db \in Buffers : db = Buffer(w1, 0) /\ db.rpos = 0 /\ Unread(db) = SubSeq(w1, 1, Len(w1))
  <2>1. 0 \in 0 .. Len(w1) /\ 0 + 1 = 1
    BY <1>t
  <2>2. /\ Buffer(w1, 0) \in Buffers /\ Buffer(w1, 0).rpos = 0
        /\ Unread(Buffer(w1, 0)) = SubSeq(w1, 0 + 1, Len(w1))
    BY <1>1, <1>t, <2>1, BufferType
  <2> QED
    BY <2>1, <2>2, Zenon
<1>5. Unread(db) = w1
  <2>1. SubSeq(w1, 1, Len(w1)) = w1
    BY <1>t
  <2> QED
    BY <1>4, <2>1, Zenon
<1>6. input' = Append(input, db) /\ input' \in Seq(Buffers) /\ NextUnread(input)'
  <2>1. input' = Append(input, db)
    BY <1>3, <1>4, Zenon
  <2>2. Append(input, db) \in Seq(Buffers) /\ NextUnread(Append(input, db))
    BY <1>1, <1>4, AppendUnread, Zenon DEF TypeOK
  <2> QED
    BY <2>1, <2>2, Zenon DEF NextUnread
<1>7. PICK f \in Seq(Byte) : f = Flat(input)
  BY <1>1, FlatType, Zenon DEF TypeOK
<1>8. Flat(input)' = f \o w1
  <2>1. Flat(Append(input, db)) = f \o w1
    BY <1>1, <1>4, <1>5, <1>7, FlatAppend, Zenon DEF TypeOK
  <2> QED
    BY <1>6, <2>1, Zenon DEF Flat
<1>9. threshold' \in Nat
  <2>1. threshold \in Nat /\ MinBufferSize \in Nat /\ MaxBufferSize \in Nat /\ threshold \div 2 \in Nat
    BY <1>1, EvBufferAssumption DEF TypeOK
  <2> QED
    BY <2>1 DEF ReadCb
<1>10. TypeOK'
  <2>1. total' \in Nat
    BY <1>1, <1>3 DEF TypeOK
  <2>2. freelist' \in Seq(Nat) /\ fresh' \in Nat
    BY <1>1, <1>3, BufferNextType, Zenon
  <2> QED
    BY <1>1, <1>2, <1>3, <1>6, <1>9, <2>1, <2>2, Zenon DEF TypeOK
<1>11. InputIsStream'
  <2>1. PICK s \in Seq(Byte) : s = taken
    BY <1>1, Zenon DEF TypeOK
  <2>2. received = (s \o f) \o (w1 \o w2) /\ total = Len(f)
    BY <1>1, <1>2, <1>7, <2>1, Zenon DEF InputIsStream
  <2>3. s \in Seq(Byte) /\ f \in Seq(Byte)
    BY <1>7, <2>1, Zenon
  <2>4. Len(f \o w1) = Len(f) + Len(w1)
    BY <1>t, <2>3, BytesAdd, Zenon
  <2>5. (s \o f) \o (w1 \o w2) = (s \o (f \o w1)) \o w2
    <3>1. PICK g \in Seq(Byte) : g = s \o f
      BY <2>3, ConcatProperties, Zenon
    <3>2. (g \o w1) \o w2 = g \o (w1 \o w2)
      BY <1>t, <3>1, BytesAssociate, Zenon
    <3>3. (s \o f) \o w1 = s \o (f \o w1)
      BY <1>t, <2>3, BytesAssociate, Zenon
    <3> QED
      BY <3>1, <3>2, <3>3, Zenon
  <2>6. received = (s \o (f \o w1)) \o w2
    BY <2>2, <2>5, Zenon
  <2>7. total' = Len(f \o w1)
    BY <1>2, <1>3, <2>2, <2>4, Zenon
  <2> QED
    BY <1>3, <1>8, <2>1, <2>6, <2>7, Zenon DEF InputIsStream
<1> QED
  BY <1>3, <1>6, <1>10, <1>11, Zenon DEF StreamInv, NextUnread, OutputIsStream, FirstLine, Flat

\* ev_session_read keeps the stream
LEMMA SessionReads ==
  ASSUME StreamInv, alive, NEW n \in Nat, n <= total, SessionRead(n),
         UNCHANGED <<alive, threshold, output, ototal, wio, fresh, wire, received, written, sent>>
  PROVE  /\ TypeOK' /\ NextUnread(input)' /\ NextUnread(output)' /\ InputIsStream' /\ OutputIsStream'
         /\ Take(input, n).bytes = SubSeq(Flat(input), 1, n)
<1>1. TypeOK /\ InputIsStream /\ NextUnread(input) /\ input \in Seq(Buffers)
  BY Zenon DEF StreamInv, TypeOK
<1>2. PICK f \in Seq(Byte) : f = Flat(input) /\ total = Len(f)
  BY <1>1, FlatType, Zenon DEF InputIsStream
<1>3. PICK b \in Seq(Byte), q \in Seq(Buffers), g \in Seq(Nat) :
        /\ b = Take(input, n).bytes /\ q = Take(input, n).rest /\ g = Take(input, n).gone
        /\ b \o Flat(q) = f /\ Len(b) = n /\ NextUnread(q)
  BY <1>1, <1>2, TakeGives, Zenon
<1>4. input' = q /\ total' = total - n /\ freelist' = g \o freelist /\ taken' = taken \o b
  BY <1>3, Zenon DEF SessionRead
<1>5. PICK r \in Seq(Byte) : r = Flat(q)
  BY <1>3, FlatType, Zenon
<1>t. b \in Seq(Byte) /\ r \in Seq(Byte) /\ f \in Seq(Byte)
  BY <1>2, <1>3, <1>5, Zenon
<1>6. Len(f) = n + Len(r)
  <2>1. Len(b \o r) = Len(b) + Len(r)
    BY <1>t, BytesAdd, Zenon
  <2> QED
    BY <1>3, <1>5, <2>1, Zenon
<1>7. TypeOK'
  <2>1. g \o freelist \in Seq(Nat)
    BY <1>1, <1>3 DEF TypeOK
  <2>2. taken \o b \in Seq(Byte)
    BY <1>1, <1>3 DEF TypeOK
  <2>3. total' \in Nat
    BY <1>2, <1>4, <1>5, <1>6
  <2> QED
    BY <1>1, <1>3, <1>4, <2>1, <2>2, <2>3, Zenon DEF TypeOK
<1>8. NextUnread(input)' /\ NextUnread(output)'
  BY <1>3, <1>4, Zenon DEF NextUnread, StreamInv
<1>9. Flat(input)' = r
  BY <1>4, <1>5 DEF Flat
<1>10. InputIsStream'
  <2>1. PICK s \in Seq(Byte), w \in Seq(Byte) : s = taken /\ w = wire
    BY <1>1, Zenon DEF TypeOK
  <2>2. received = (s \o f) \o w
    BY <1>1, <1>2, <2>1, Zenon DEF InputIsStream
  <2>3. (s \o b) \o r = s \o (b \o r)
    BY <1>t, <2>1, BytesAssociate, Zenon
  <2>4. received = ((s \o b) \o r) \o w
    BY <1>3, <1>5, <2>2, <2>3, Zenon
  <2>5. total' = Len(r)
    <3>1. PICK m \in Nat : m = Len(r)
      BY <1>5
    <3>2. total = n + m /\ total' = total - n
      BY <1>2, <1>4, <1>6, <3>1, Zenon
    <3> QED
      BY <3>1, <3>2
  <2> QED
    BY <1>4, <1>9, <2>1, <2>4, <2>5, Zenon DEF InputIsStream
<1>11. OutputIsStream'
  BY Zenon DEF StreamInv, OutputIsStream, Flat
<1>12. b = SubSeq(f, 1, n)
  <2>1. SubSeq(b \o r, 1, Len(b)) = b
    BY <1>3, <1>5, BeginsWith, Zenon
  <2> QED
    BY <1>3, <1>5, <2>1, Zenon
<1> QED
  BY <1>2, <1>3, <1>7, <1>8, <1>10, <1>11, <1>12, Zenon

\* Read keeps StreamInv.
LEMMA ReadInv ==
  ASSUME StreamInv, NEW size \in Nat, Read(size)
  PROVE  StreamInv'
<1> DEFINE n == IF size = 0 THEN total ELSE size
<1>1. alive /\ total \in Nat /\ n \in Nat /\ n <= total
  BY DEF Read, StreamInv, TypeOK
<1>2. /\ SessionRead(n)
      /\ UNCHANGED <<alive, threshold, output, ototal, wio, fresh, wire, received, written, sent>>
      /\ UNCHANGED line
  BY Zenon DEF Read, out, peer
<1> HIDE DEF n
<1>3. TypeOK' /\ NextUnread(input)' /\ NextUnread(output)' /\ InputIsStream' /\ OutputIsStream'
  BY <1>1, <1>2, SessionReads, Zenon
<1>4. FirstLine'
  BY <1>2, Zenon DEF StreamInv, FirstLine
<1> QED
  BY <1>3, <1>4, Zenon DEF StreamInv

\* ReadUtil keeps StreamInv.
LEMMA ReadUtilInv ==
  ASSUME StreamInv, ReadUtil
  PROVE  StreamInv'
<1>1. TypeOK /\ NextUnread(input) /\ InputIsStream /\ alive
  BY Zenon DEF StreamInv, ReadUtil
<1>2. PICK D : D = Flat(input)
  BY Zenon
<1>3. UNCHANGED <<alive, threshold, output, ototal, wio, fresh, wire, received, written, sent>>
  BY Zenon DEF ReadUtil, out, peer
<1>4. CASE SearchEol < 0
  <2>1. line' = [before |-> D, result |-> <<>>] /\ UNCHANGED <<input, total, freelist, taken>>
    BY <1>2, <1>4, Zenon DEF ReadUtil
  <2>2. Ends(D) = {}
    BY <1>1, <1>2, <1>4, FirstEnd, Zenon
  <2>3. line'.before = D /\ line'.result = <<>>
    BY <2>1, Zenon
  <2>4. FirstLine'
    BY <2>2, <2>3, Zenon DEF FirstLine, Ends
  <2>5. TypeOK'
    BY <1>1, <1>3, <2>1, Zenon DEF TypeOK
  <2> QED
    BY <1>3, <2>1, <2>4, <2>5, Zenon DEF StreamInv, NextUnread, InputIsStream, OutputIsStream, Flat
<1>5. CASE ~ (SearchEol < 0)
  <2>1. PICK n : n = SearchEol
    BY Zenon
  <2>2. n \in Nat /\ n <= Len(D) /\ n = Min(Ends(D)) /\ Ends(D) # {}
    BY <1>1, <1>2, <1>5, <2>1, FirstEnd, Zenon
  <2>3. SessionRead(n) /\ line' = [before |-> D, result |-> Take(input, n).bytes]
    BY <1>2, <1>5, <2>1, Zenon DEF ReadUtil
  <2>4. n <= total
    BY <1>1, <1>2, <2>2, Zenon DEF InputIsStream
  <2>5. /\ TypeOK' /\ NextUnread(input)' /\ NextUnread(output)' /\ InputIsStream' /\ OutputIsStream'
        /\ Take(input, n).bytes = SubSeq(D, 1, n)
    BY <1>1, <1>2, <1>3, <2>2, <2>3, <2>4, SessionReads, Zenon
  <2>6. line'.before = D /\ line'.result = SubSeq(D, 1, n)
    BY <2>3, <2>5, Zenon
  <2>7. FirstLine'
    BY <2>2, <2>6, Zenon DEF FirstLine, Ends
  <2> QED
    BY <2>5, <2>7, Zenon DEF StreamInv
<1> QED
  BY <1>4, <1>5, Zenon

\* a write that the kernel did not take whole goes to the end of the output
LEMMA Enqueues ==
  ASSUME TypeOK, NextUnread(output), ototal = Len(Flat(output)),
         NEW s \in Seq(Byte), NEW r \in 0 .. Len(s), r = 0 \/ output = <<>>, Enqueue(s, r)
  PROVE  /\ output' \in Seq(Buffers) /\ NextUnread(output)' /\ output' # <<>>
         /\ freelist' \in Seq(Nat) /\ fresh' \in Nat /\ ototal' \in Nat
         /\ Flat(output)' = Flat(output) \o SubSeq(s, r + 1, Len(s))
         /\ ototal' = Len(Flat(output)')
<1>1. PICK db \in Buffers : /\ db = Buffer(s, r) /\ db.rpos = r /\ Unread(db) = SubSeq(s, r + 1, Len(s))
  BY BufferType, Zenon
<1>2. output' = Append(output, db) /\ ototal' = ototal + Len(s) - r /\ BufferNext
  BY <1>1, Zenon DEF Enqueue
<1>3. output \in Seq(Buffers) /\ db \in Buffers
  BY <1>1, Zenon DEF TypeOK
<1>4. Append(output, db) \in Seq(Buffers) /\ NextUnread(Append(output, db))
  BY <1>1, <1>3, AppendUnread, Zenon
<1>5. output' \in Seq(Buffers) /\ NextUnread(output)' /\ output' # <<>>
  <2>1. Append(output, db) # <<>>
    BY <1>3
  <2> QED
    BY <1>2, <1>4, <2>1, Zenon DEF NextUnread
<1>6. freelist' \in Seq(Nat) /\ fresh' \in Nat
  BY <1>2, BufferNextType, Zenon
<1>7. PICK f \in Seq(Byte) : f = Flat(output)
  BY <1>3, FlatType, Zenon
<1>8. PICK u \in Seq(Byte) : u = SubSeq(s, r + 1, Len(s)) /\ Len(u) = Len(s) - r
  <2>1. SubSeq(s, r + 1, Len(s)) \in Seq(Byte) /\ Len(SubSeq(s, r + 1, Len(s))) = Len(s) - r
    BY SplitBytes, Zenon
  <2> QED
    BY <2>1, Zenon
<1>9. Flat(output)' = f \o u
  <2>1. Flat(Append(output, db)) = Flat(output) \o Unread(db)
    BY <1>3, FlatAppend, Zenon
  <2>2. Flat(Append(output, db)) = f \o u
    BY <1>1, <1>7, <1>8, <2>1, Zenon
  <2> QED
    BY <1>2, <2>2, Zenon DEF Flat
<1>10. Len(f \o u) = Len(f) + Len(u)
  <2>1. f \in Seq(Byte) /\ u \in Seq(Byte)
    BY <1>7, <1>8, Zenon
  <2> QED
    BY <2>1, BytesAdd, Zenon
<1>11. ototal' = Len(f) + Len(u) /\ ototal' \in Nat
  <2>1. PICK k \in Nat, l \in Nat, m \in Nat : k = Len(f) /\ l = Len(u) /\ m = Len(s)
    <3>1. f \in Seq(Byte) /\ u \in Seq(Byte)
      BY <1>7, <1>8, Zenon
    <3>2. Len(f) \in Nat /\ Len(u) \in Nat /\ Len(s) \in Nat
      BY <3>1
    <3> QED
      BY <3>2, Zenon
  <2>2. l = m - r /\ ototal' = k + m - r /\ r \in Nat
    BY <1>2, <1>7, <1>8, <2>1
  <2>3. ototal' = k + l /\ ototal' \in Nat
    BY <2>1, <2>2
  <2> QED
    BY <2>1, <2>3, Zenon
<1> QED
  BY <1>5, <1>6, <1>7, <1>8, <1>9, <1>10, <1>11, Zenon

\* Write keeps StreamInv.
LEMMA WriteInv ==
  ASSUME StreamInv, NEW s \in Seq(Byte), NEW n \in 0 .. Len(s), Write(s, n)
  PROVE  StreamInv'
<1>1. TypeOK /\ NextUnread(output) /\ OutputIsStream /\ alive
  BY Zenon DEF StreamInv, Write
<1>2. /\ UNCHANGED <<alive, input, total, threshold, wire, received, taken, line>>
      /\ written' = written \o s
  BY Zenon DEF Write, in, peer
<1>3. PICK w \in Seq(Byte), g \in Seq(Byte), f \in Seq(Byte) :
        w = written /\ g = sent /\ f = Flat(output) /\ w = g \o f /\ ototal = Len(f)
  BY <1>1, FlatType, Zenon DEF TypeOK, OutputIsStream
<1>t. w \in Seq(Byte) /\ g \in Seq(Byte) /\ f \in Seq(Byte)
  BY <1>3, Zenon
<1>4. w \o s = g \o (f \o s) /\ w \o s \in Seq(Byte)
  <2>1. (g \o f) \o s = g \o (f \o s)
    BY <1>t, BytesAssociate, Zenon
  <2>2. w \o s \in Seq(Byte)
    BY <1>t, ConcatProperties, Zenon
  <2> QED
    BY <1>3, <2>1, <2>2, Zenon
<1>5. InputIsStream' /\ FirstLine' /\ NextUnread(input)'
  BY <1>2, Zenon DEF StreamInv, InputIsStream, FirstLine, NextUnread, Flat
<1>6. CASE wio
  <2>1. Enqueue(s, 0) /\ UNCHANGED <<wio, sent>>
    BY <1>6, Zenon DEF Write
  <2>2. 0 \in 0 .. Len(s) /\ SubSeq(s, 0 + 1, Len(s)) = s
    OBVIOUS
  <2>3. /\ output' \in Seq(Buffers) /\ NextUnread(output)'
        /\ freelist' \in Seq(Nat) /\ fresh' \in Nat /\ ototal' \in Nat
        /\ Flat(output)' = Flat(output) \o SubSeq(s, 0 + 1, Len(s))
        /\ ototal' = Len(Flat(output)')
    BY <1>1, <1>3, <2>1, <2>2, Enqueues, Zenon
  <2>4. Flat(output)' = f \o s
    BY <1>3, <2>2, <2>3, Zenon
  <2>5. TypeOK'
    BY <1>1, <1>2, <1>3, <1>4, <2>1, <2>3, Zenon DEF TypeOK
  <2>6. written' = sent' \o Flat(output)'
    BY <1>2, <1>3, <1>4, <2>1, <2>4, Zenon
  <2>7. OutputIsStream'
    BY <1>6, <2>1, <2>3, <2>6, Zenon DEF OutputIsStream
  <2> QED
    BY <1>5, <2>3, <2>5, <2>7, Zenon DEF StreamInv
<1>7. CASE ~ wio
  <2>1. output = <<>> /\ f = <<>> /\ ototal = 0
    <3>1. output = <<>>
      BY <1>1, <1>7, Zenon DEF OutputIsStream
    <3>2. f = <<>>
      BY <1>3, <3>1, FlatEmpty, Zenon
    <3> QED
      BY <1>3, <3>1, <3>2, Zenon
  <2>2. PICK x \in Seq(Byte), y \in Seq(Byte) :
          x = SubSeq(s, 1, n) /\ y = SubSeq(s, n + 1, Len(s)) /\ x \o y = s
    <3>1. /\ SubSeq(s, 1, n) \in Seq(Byte) /\ SubSeq(s, n + 1, Len(s)) \in Seq(Byte)
          /\ SubSeq(s, 1, n) \o SubSeq(s, n + 1, Len(s)) = s
      BY SplitBytes, Zenon
    <3> QED
      BY <3>1, Zenon
  <2>t. x \in Seq(Byte) /\ y \in Seq(Byte)
    BY <2>2, Zenon
  <2>3. sent' = g \o x /\ g \o x \in Seq(Byte)
    <3>1. g \o x \in Seq(Byte)
      BY <1>t, <2>t, ConcatProperties, Zenon
    <3>2. sent' = sent \o SubSeq(s, 1, n)
      BY <1>7, Zenon DEF Write
    <3> QED
      BY <1>3, <2>2, <3>1, <3>2, Zenon
  <2>4. w = g
    <3>1. g \o <<>> = g
      BY <1>t, ConcatEmptySeq, Zenon
    <3> QED
      BY <1>3, <2>1, <3>1, Zenon
  <2>5. CASE n = Len(s)
    <3>1. UNCHANGED <<output, ototal, wio, freelist, fresh>>
      BY <1>7, <2>5, Zenon DEF Write, out, nodes
    <3>2. x = s
      <4>1. SubSeq(s, 1, Len(s)) = s
        OBVIOUS
      <4> QED
        BY <2>2, <2>5, <4>1, Zenon
    <3>3. TypeOK'
      BY <1>1, <1>2, <1>3, <1>4, <2>3, <3>1, Zenon DEF TypeOK
    <3>4. Flat(output)' = Flat(output)
      BY <3>1, Zenon DEF Flat
    <3>5. written' = sent' \o Flat(output)'
      <4>1. sent' \o <<>> = sent'
        BY <2>3, ConcatEmptySeq, Zenon
      <4> QED
        BY <1>2, <1>3, <2>1, <2>3, <2>4, <3>2, <3>4, <4>1, Zenon
    <3>6. OutputIsStream'
      BY <1>1, <3>1, <3>4, <3>5, Zenon DEF OutputIsStream
    <3> QED
      BY <1>1, <1>5, <3>1, <3>3, <3>6, Zenon DEF StreamInv, NextUnread
  <2>6. CASE n # Len(s)
    <3>1. Enqueue(s, n) /\ wio' = TRUE
      BY <1>7, <2>6, Zenon DEF Write
    <3>2. /\ output' \in Seq(Buffers) /\ NextUnread(output)'
          /\ freelist' \in Seq(Nat) /\ fresh' \in Nat /\ ototal' \in Nat
          /\ Flat(output)' = Flat(output) \o SubSeq(s, n + 1, Len(s))
          /\ ototal' = Len(Flat(output)')
      BY <1>1, <1>3, <2>1, <3>1, Enqueues, Zenon
    <3>3. Flat(output)' = y
      <4>1. <<>> \o y = y
        BY <2>t, ConcatEmptySeq, Zenon
      <4> QED
        BY <1>3, <2>1, <2>2, <3>2, <4>1, Zenon
    <3>4. written' = sent' \o Flat(output)'
      <4>1. (g \o x) \o y = g \o (x \o y)
        BY <1>t, <2>t, BytesAssociate, Zenon
      <4> QED
        BY <1>2, <1>3, <2>2, <2>3, <2>4, <3>3, <4>1, Zenon
    <3>5. TypeOK'
      BY <1>1, <1>2, <1>3, <1>4, <2>3, <3>2, Zenon DEF TypeOK
    <3>6. OutputIsStream'
      BY <3>1, <3>2, <3>4, Zenon DEF OutputIsStream
    <3> QED
      BY <1>5, <3>2, <3>5, <3>6, Zenon DEF StreamInv
  <2> QED
    BY <2>5, <2>6, Zenon
<1> QED
  BY <1>6, <1>7, Zenon

\* WriteCb keeps StreamInv.
LEMMA WriteCbInv ==
  ASSUME StreamInv, NEW n \in 1 .. ototal, WriteCb(n)
  PROVE  StreamInv'
<1>1. TypeOK /\ OutputIsStream /\ NextUnread(output) /\ output \in Seq(Buffers) /\ n \in Nat /\ alive
  BY DEF StreamInv, TypeOK, WriteCb
<1>2. PICK f \in Seq(Byte) : f = Flat(output) /\ ototal = Len(f)
  BY <1>1, FlatType, Zenon DEF OutputIsStream
<1>3. PICK b \in Seq(Byte), q \in Seq(Buffers), g \in Seq(Nat) :
        /\ b = Take(output, n).bytes /\ q = Take(output, n).rest /\ g = Take(output, n).gone
        /\ b \o Flat(q) = f /\ Len(b) = n /\ NextUnread(q)
  <2>1. n <= Len(Flat(output))
    BY <1>1, <1>2
  <2> QED
    BY <1>1, <1>2, <2>1, TakeGives, Zenon
<1>4. /\ sent' = sent \o b /\ output' = q /\ ototal' = ototal - n /\ freelist' = g \o freelist
      /\ wio' = (q # <<>>)
      /\ UNCHANGED <<alive, input, total, threshold, fresh, wire, received, taken, written, line>>
  BY <1>3, Zenon DEF WriteCb, in, peer
<1>5. PICK r \in Seq(Byte) : r = Flat(q)
  BY <1>3, FlatType, Zenon
<1>t. b \in Seq(Byte) /\ r \in Seq(Byte) /\ f \in Seq(Byte)
  BY <1>2, <1>3, <1>5, Zenon
<1>6. Len(f) = n + Len(r)
  <2>1. Len(b \o r) = Len(b) + Len(r)
    BY <1>t, BytesAdd, Zenon
  <2> QED
    BY <1>3, <1>5, <2>1, Zenon
<1>7. ototal' = Len(r) /\ ototal' \in Nat
  <2>1. PICK m \in Nat : m = Len(r)
    BY <1>5
  <2>2. ototal = n + m /\ ototal' = ototal - n
    BY <1>2, <1>4, <1>6, <2>1, Zenon
  <2> QED
    BY <1>1, <2>1, <2>2
<1>8. TypeOK'
  <2>1. g \o freelist \in Seq(Nat)
    BY <1>1, <1>3 DEF TypeOK
  <2>2. sent \o b \in Seq(Byte)
    BY <1>1, <1>3 DEF TypeOK
  <2> QED
    BY <1>1, <1>3, <1>4, <1>7, <2>1, <2>2, Zenon DEF TypeOK
<1>9. NextUnread(output)' /\ NextUnread(input)'
  BY <1>3, <1>4, Zenon DEF NextUnread, StreamInv
<1>10. Flat(output)' = r
  BY <1>4, <1>5, Zenon DEF Flat
<1>11. OutputIsStream'
  <2>1. PICK s \in Seq(Byte) : s = sent
    BY <1>1, Zenon DEF TypeOK
  <2>2. written = s \o f
    BY <1>1, <1>2, <2>1, Zenon DEF OutputIsStream
  <2>3. (s \o b) \o r = s \o (b \o r)
    BY <1>t, <2>1, BytesAssociate, Zenon
  <2>4. written' = sent' \o Flat(output)'
    BY <1>3, <1>4, <1>5, <1>10, <2>1, <2>2, <2>3, Zenon
  <2>5. output' # <<>> => wio'
    BY <1>4, Zenon
  <2>6. ototal' = Len(Flat(output)')
    BY <1>7, <1>10, Zenon
  <2> QED
    BY <2>4, <2>5, <2>6, Zenon DEF OutputIsStream
<1>12. InputIsStream' /\ FirstLine'
  BY <1>4, Zenon DEF StreamInv, InputIsStream, FirstLine, Flat
<1> QED
  BY <1>8, <1>9, <1>11, <1>12, Zenon DEF StreamInv

\* The inductive invariant: every step of a session keeps its streams, its
\* totals, and the lines it returned.
THEOREM StreamInvariance == Spec => []StreamInv
<1>1. Init => StreamInv
  BY InitStream, Zenon
<1>2. StreamInv /\ [Next]_vars => StreamInv'
  <2> SUFFICES ASSUME StreamInv, [Next]_vars
               PROVE  StreamInv'
    BY Zenon
  <2>0. TypeOK /\ MaxBytes \in Nat /\ MaxWrite \in Nat /\ freelist \in Seq(Nat) /\ fresh \in Nat
        /\ wire \in Seq(Byte) /\ threshold \in Nat
    BY EvBufferAssumption, Zenon DEF StreamInv, TypeOK
  <2>1. CASE \E b \in Byte : PeerSend(b)
    BY <2>1, PeerInv, Zenon
  <2>2. CASE PeerClose
    BY <2>0, <2>2, QuietInv, Zenon DEF PeerClose, in, out, nodes
  <2>3. CASE \E n \in 0 .. (IF Len(wire) < threshold THEN Len(wire) ELSE threshold) : ReadCb(n)
    <3>1. PICK n \in 0 .. (IF Len(wire) < threshold THEN Len(wire) ELSE threshold) : ReadCb(n)
      BY <2>3, Zenon
    <3>2. n \in 0 .. Len(wire)
      BY <2>0, <3>1
    <3> QED
      BY <3>1, <3>2, ReadCbInv, Zenon
  <2>4. CASE ReadCbFails
    <3>1. freelist' \in Seq(Nat) /\ fresh' \in Nat
      BY <2>0, <2>4, BufferNextType, Zenon DEF ReadCbFails
    <3> QED
      BY <2>4, <3>1, FailInv, Zenon DEF ReadCbFails, peer
  <2>5. CASE \E size \in 0 .. MaxBytes : Read(size)
    <3>1. PICK size \in 0 .. MaxBytes : Read(size)
      BY <2>5, Zenon
    <3>2. size \in Nat
      BY <2>0
    <3> QED
      BY <3>1, <3>2, ReadInv, Zenon
  <2>6. CASE ReadUtil
    BY <2>6, ReadUtilInv, Zenon
  <2>7. CASE \E k \in 1 .. MaxWrite : \E bytes \in [1 .. k -> Byte], n \in 0 .. k : Write(bytes, n)
    <3>0. PICK k \in 1 .. MaxWrite : \E bytes \in [1 .. k -> Byte], n \in 0 .. k : Write(bytes, n)
      BY <2>7, Zenon
    <3>1. PICK s \in [1 .. k -> Byte], n \in 0 .. k : Write(s, n)
      BY <3>0, Zenon
    <3>2. k \in Nat
      BY <2>0
    <3>3. s \in Seq(Byte) /\ Len(s) = k
      BY <3>2
    <3> QED
      BY <3>1, <3>3, WriteInv, Zenon
  <2>8. CASE WriteFails
    <3>1. freelist' \in Seq(Nat) /\ fresh' \in Nat
      BY <2>0, <2>8, Zenon DEF WriteFails, nodes
    <3> QED
      BY <2>8, <3>1, FailInv, Zenon DEF WriteFails, peer
  <2>9. CASE Drain
    BY <2>9, WriteCbInv, Zenon DEF Drain
  <2>10. CASE WriteCbFails
    <3>1. freelist' \in Seq(Nat) /\ fresh' \in Nat
      BY <2>0, <2>10, Zenon DEF WriteCbFails, nodes
    <3> QED
      BY <2>10, <3>1, FailInv, Zenon DEF WriteCbFails, peer
  <2>11. CASE Clean
    <3>1. freelist' \in Seq(Nat) /\ fresh' \in Nat
      BY <2>0, <2>11 DEF Clean
    <3> QED
      BY <2>11, <3>1, QuietInv, Zenon DEF Clean, in, out, peer
  <2>12. CASE UNCHANGED vars
    BY <2>0, <2>12, QuietInv, Zenon DEF vars, in, out, nodes, peer
  <2> QED
    BY <2>1, <2>2, <2>3, <2>4, <2>5, <2>6, <2>7, <2>8, <2>9, <2>10, <2>11, <2>12, Zenon DEF Next
<1> QED
  BY <1>1, <1>2, PTL DEF Spec

\* What Lua has read, what waits in the input and what is under way is what the
\* peer sent, however _ev_read_cb and ev_session_read split it, for any bytes,
\* buffer sizes and length of the stream.
THEOREM InputStaysStream == Spec => []InputIsStream
<1>1. StreamInv => InputIsStream
  BY Zenon DEF StreamInv
<1> QED
  BY <1>1, StreamInvariance, PTL

\* What the kernel was given and what waits in the output is what was written,
\* by a direct write or by _ev_write_cb, and what waits is watched.
THEOREM OutputStaysStream == Spec => []OutputIsStream
<1>1. StreamInv => OutputIsStream
  BY Zenon DEF StreamInv
<1> QED
  BY <1>1, StreamInvariance, PTL

\* search_eol and check_eol find the first separator wherever the nodes of the
\* input break it, for any separator: read_util returns the first line.
THEOREM LinesAreFirst == Spec => []FirstLine
<1>1. StreamInv => FirstLine
  BY Zenon DEF StreamInv
<1> QED
  BY <1>1, StreamInvariance, PTL
=============================================================================
