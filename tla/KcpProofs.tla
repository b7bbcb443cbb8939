----------------------------- MODULE KcpProofs ------------------------------
(***************************************************************************)
(* For any windows, any messages and any network: whatever udp does to the *)
(* datagrams, each peer hears the messages of the other one whole, once    *)
(* and in order.                                                           *)
(*                                                                         *)
(* The invariant follows one direction at a time, from a sender n to its   *)
(* peer: what either block holds of stream[n], what the datagrams under    *)
(* way say of it, and how much of it the peer has read.                    *)
(*                                                                         *)
(* A block is seen against two streams: all that its owner was given to    *)
(* send, and all that the peer was.  A sequence number is a place in such  *)
(* a stream, and a segment, wherever it is, carries what the stream has at *)
(* its place.                                                              *)
(***************************************************************************)
EXTENDS Kcp, FiniteSetTheorems, TLAPS

-----------------------------------------------------------------------------
(* one control block: what the functions of ikcp.c do to it *)

Frag == [frg : Nat, data : Msg \X Nat]
Push == [sn : Nat, frg : Nat, data : Msg \X Nat]
SndSeg == [sn : Nat, frg : Nat, data : Msg \X Nat, xmit : BOOLEAN, fastack : Nat]
Stream == Seq(Nat \X Frag)
Datagrams == [to : Node, wnd : Nat, una : Nat, acks : SUBSET Nat, ask : BOOLEAN, push : Push \cup {NoSeg}]
Wholes == {Whole(m) : m \in Msg}

Block ==
  [snd_una : Nat, snd_nxt : Nat, rcv_nxt : Nat, snd_wnd : Nat, rcv_wnd : Nat, rmt_wnd : Nat,
   nocwnd : BOOLEAN, cwnd : Nat, ssthresh : Nat, probe_wait : BOOLEAN, tell : BOOLEAN,
   snd_queue : Seq(Frag), snd_buf : SUBSET SndSeg, rcv_buf : SUBSET Push, rcv_queue : Seq(Push),
   acklist : SUBSET Nat]

\* the segment s carries what st has at its place, which is below top
Carries(s, st, top) ==
  /\ s.sn < top
  /\ s.frg = st[s.sn + 1][2].frg
  /\ s.data = st[s.sn + 1][2].data

\* the sending half of a block whose stream is st
SndOK(k, st) ==
  /\ Len(st) = k.snd_nxt + Len(k.snd_queue)
  /\ \A i \in 1 .. Len(k.snd_queue) : k.snd_queue[i] = st[k.snd_nxt + i][2]
  /\ \A s \in k.snd_buf : s.sn >= k.snd_una /\ Carries(s, st, k.snd_nxt)
  /\ k.snd_una <= k.snd_nxt
  /\ k.snd_nxt - k.snd_una <= k.snd_wnd

\* the receiving half of a block; the peer has numbered the first top of st
RcvOK(k, st, top) ==
  /\ \A s \in k.rcv_buf : /\ s.sn >= k.rcv_nxt /\ s.sn < k.rcv_nxt + k.rcv_wnd
                          /\ Carries(s, st, top)
  /\ \A s, t \in k.rcv_buf : s.sn = t.sn => s = t
  /\ Len(k.rcv_queue) <= k.rcv_wnd
  /\ Len(k.rcv_queue) <= k.rcv_nxt
  /\ k.rcv_nxt <= top
  /\ \A i \in 1 .. Len(k.rcv_queue) :
       /\ k.rcv_queue[i].sn = k.rcv_nxt - Len(k.rcv_queue) + i - 1
       /\ Carries(k.rcv_queue[i], st, top)

Holds(k, sn) == sn < k.rcv_nxt \/ sn \in Sns(k.rcv_buf)

\* the segments handed to the application
Read(k) == k.rcv_nxt - Len(k.rcv_queue)

\* a datagram, sent by a peer that has numbered top segments of st and is now k
NetOK(d, k, st) ==
  /\ \A sn \in Nat : sn < d.una => Holds(k, sn)
  /\ \A sn \in d.acks : Holds(k, sn)
  /\ d.push # NoSeg => d.push \in Push /\ Carries(d.push, st, k.snd_nxt)

\* entry i of the stream st belongs to a message of q, all of which st holds
Part(st, q, i) ==
  LET j == st[i][1]
      m == st[i][2].data[1]
      a == st[i][2].data[2]
  IN /\ j \in 1 .. Len(q) /\ q[j] = Whole(m)
     /\ a \in 1 .. Frags[m]
     /\ i - a >= 0 /\ i - a + Frags[m] <= Len(st)
     /\ \A b \in 1 .. Frags[m] : st[i - a + b] = <<j, Segments(m)[b]>>

\* the messages of q, one after the other
StreamOK(st, q) ==
  /\ \A i \in 1 .. Len(st) : Part(st, q, i)
  /\ st = <<>> => q = <<>>
  /\ st # <<>> => /\ st[1][1] = 1 /\ st[1][2].data[2] = 1
                  /\ st[Len(st)][1] = Len(q) /\ st[Len(st)][2].frg = 0
  /\ \A i \in 1 .. Len(st) - 1 :
       st[i][2].frg = 0 => st[i + 1][1] = st[i][1] + 1 /\ st[i + 1][2].data[2] = 1

\* r segments of st are read, as the messages h
ReadOK(r, h, st) ==
  /\ r = 0 => h = <<>>
  /\ r # 0 => st[r][1] = Len(h) /\ st[r][2].frg = 0

-----------------------------------------------------------------------------
\* A set of naturals has a least element, which Min chooses.
LEMMA MinNat ==
  ASSUME NEW S \in SUBSET Nat, S # {}
  PROVE  Min(S) \in S /\ \A x \in S : Min(S) <= x
<1> DEFINE R == {ss \in Nat \X Nat : ss[1] < ss[2]}
<1>1. IsWellFoundedOn(R, Nat)
  BY NatLessThanWellFounded, Zenon DEF OpToRel
<1>2. \E x \in S : \A y \in S : x <= y
  <2>1. \E x \in S : \A y \in S : ~ (<<y, x>> \in R)
    <3>1. S \subseteq Nat
      BY Zenon
    <3> HIDE DEF R
    <3> QED BY <1>1, <3>1, WFMin, Zenon
  <2>2. PICK x \in S : \A y \in S : ~ (<<y, x>> \in R)
    BY <2>1, Zenon
  <2>3. ASSUME NEW y \in S PROVE ~ (y < x)
    <3>1. ~ (<<y, x>> \in R)
      BY <2>2, Zenon
    <3> QED BY <3>1, Zenon
  <2> QED BY <2>3
<1> QED BY <1>2, Zenon DEF Min

\* Of two numbers, Min and Max choose one.
LEMMA MinTwo ==
  ASSUME NEW a \in Int, NEW b \in Int
  PROVE  Min({a, b}) \in {a, b} /\ Min({a, b}) <= a /\ Min({a, b}) <= b
BY DEF Min

\* The same of Max.
LEMMA MaxTwo ==
  ASSUME NEW a \in Int, NEW b \in Int
  PROVE  Max({a, b}) \in {a, b} /\ Max({a, b}) >= a /\ Max({a, b}) >= b
BY DEF Max

\* Fewer than as many segments as they have numbers.
LEMMA CountSegments ==
  ASSUME NEW S \in SUBSET Push, NEW a \in Nat, NEW w \in Nat,
         \A s \in S : s.sn >= a /\ s.sn < a + w,
         \A s, t \in S : s.sn = t.sn => s = t
  PROVE  Cardinality(S) <= w
<1> DEFINE f == [s \in S |-> s.sn]
<1>1. f \in Injection(S, a .. a + w - 1)
  <2>1. f \in [S -> a .. a + w - 1]
    BY DEF Push
  <2>2. \A s, t \in S : f[s] = f[t] => s = t
    BY Zenon
  <2> QED BY <2>1, <2>2, Zenon DEF Injection, IsInjective
<1>2. IsFiniteSet(a .. a + w - 1) /\ Cardinality(a .. a + w - 1) = w
  BY FS_Interval
<1> QED BY <1>1, <1>2, FS_Injection
-----------------------------------------------------------------------------
\* what the other half of a block must keep
SameSnd(k, l) ==
  /\ l.snd_una = k.snd_una /\ l.snd_nxt = k.snd_nxt /\ l.snd_wnd = k.snd_wnd
  /\ l.snd_queue = k.snd_queue /\ l.snd_buf = k.snd_buf

SameRcv(k, l) ==
  /\ l.rcv_nxt = k.rcv_nxt /\ l.rcv_wnd = k.rcv_wnd
  /\ l.rcv_buf = k.rcv_buf /\ l.rcv_queue = k.rcv_queue

\* Segments are moved as long as the next number is there and the queue has room.
LEMMA AvailableOK ==
  ASSUME NEW k \in Block, Len(k.rcv_queue) <= k.rcv_wnd
  PROVE  /\ Available(k) \in Nat
         /\ Available(k) <= k.rcv_wnd - Len(k.rcv_queue)
         /\ \A i \in Nat : i < Available(k) => k.rcv_nxt + i \in Sns(k.rcv_buf)
<1> DEFINE room == k.rcv_wnd - Len(k.rcv_queue)
           S == {room} \cup {c \in 0 .. room : k.rcv_nxt + c \notin Sns(k.rcv_buf)}
<1>1. room \in Nat /\ k.rcv_nxt \in Nat
  BY DEF Block
<1>2. Available(k) = Min(S)
  BY Zenon DEF Available
<1>3. S \in SUBSET Nat /\ S # {} /\ room \in S
  BY <1>1
<1>4. Min(S) \in S /\ \A x \in S : Min(S) <= x
  <2> HIDE DEF S
  <2> QED BY <1>3, MinNat, Zenon
<1>5. Min(S) \in Nat /\ Min(S) <= room
  BY <1>3, <1>4, Zenon
<1>6. ASSUME NEW i \in Nat, i < Min(S) PROVE k.rcv_nxt + i \in Sns(k.rcv_buf)
  <2>1. i \notin S
    <3> HIDE DEF S
    <3> QED BY <1>4, <1>5, <1>6
  <2>2. i \in 0 .. room
    <3> HIDE DEF S
    <3> QED BY <1>1, <1>5, <1>6
  <2> QED BY <2>1, <2>2, Zenon
<1> HIDE DEF S
<1> QED BY <1>2, <1>5, <1>6, Zenon

\* Moving segments from rcv_buf to rcv_queue keeps the receiving half in order and
\* loses none.
LEMMA MoveOK ==
  ASSUME NEW k \in Block, NEW st \in Stream, NEW top \in Nat, RcvOK(k, st, top)
  PROVE  /\ Move(k) \in Block
         /\ RcvOK(Move(k), st, top)
         /\ \A sn \in Nat : Holds(k, sn) => Holds(Move(k), sn)
         /\ Read(Move(k)) = Read(k)
         /\ SameSnd(k, Move(k))
         /\ Move(k).rcv_wnd = k.rcv_wnd /\ Move(k).acklist = k.acklist
<1> DEFINE c == Available(k)
           moved == [i \in 1 .. c |-> Numbered(k.rcv_buf, k.rcv_nxt + i - 1)]
           l == Move(k)
<1>1. /\ c \in Nat /\ c <= k.rcv_wnd - Len(k.rcv_queue)
      /\ \A i \in Nat : i < c => k.rcv_nxt + i \in Sns(k.rcv_buf)
  BY AvailableOK, Zenon DEF RcvOK
<1>2. /\ l.rcv_queue = k.rcv_queue \o moved
      /\ l.rcv_nxt = k.rcv_nxt + c
      /\ l.rcv_buf = {s \in k.rcv_buf : s.sn >= k.rcv_nxt + c}
      /\ l.rcv_wnd = k.rcv_wnd /\ l.acklist = k.acklist
      /\ SameSnd(k, l)
  BY Zenon DEF Move, Block, SameSnd
<1>3. ASSUME NEW i \in 1 .. c
      PROVE  moved[i] \in k.rcv_buf /\ moved[i].sn = k.rcv_nxt + i - 1
  <2>1. k.rcv_nxt + (i - 1) \in Sns(k.rcv_buf) /\ k.rcv_nxt \in Nat
    BY <1>1 DEF Block
  <2>2. PICK s \in k.rcv_buf : s.sn = k.rcv_nxt + i - 1
    BY <2>1, Zenon DEF Sns
  <2> QED BY <2>2, Zenon DEF Numbered
<1>4. k.rcv_queue \in Seq(Push) /\ k.rcv_buf \subseteq Push /\ k.rcv_nxt \in Nat /\ k.rcv_wnd \in Nat
  BY Zenon DEF Block
<1>5. moved \in Seq(Push) /\ Len(moved) = c
  <2>1. \A i \in 1 .. c : moved[i] \in Push
    BY <1>3, <1>4, Zenon
  <2> HIDE DEF c
  <2>2. moved \in [1 .. c -> Push]
    BY <2>1, Zenon
  <2> QED BY <2>2, <1>1
<1>6. l \in Block
  <2>1. k.rcv_queue \o moved \in Seq(Push)
    <3> HIDE DEF moved
    <3> QED BY <1>4, <1>5
  <2>2. k.rcv_nxt + c \in Nat
    <3> HIDE DEF c
    <3> QED BY <1>1, <1>4
  <2>3. l = [k EXCEPT !.rcv_queue = k.rcv_queue \o moved, !.rcv_nxt = k.rcv_nxt + c,
                      !.rcv_buf = {s \in k.rcv_buf : s.sn >= k.rcv_nxt + c}]
    BY Zenon DEF Move
  <2> HIDE DEF l, moved, c
  <2> QED BY <2>1, <2>2, <2>3, Zenon DEF Block
<1>7. Len(l.rcv_queue) = Len(k.rcv_queue) + c
  <2>1. ASSUME NEW q \in Seq(Push), NEW r \in Seq(Push) PROVE Len(q \o r) = Len(q) + Len(r)
    OBVIOUS
  <2> HIDE DEF l, moved, c
  <2> QED BY <2>1, <1>2, <1>4, <1>5, Zenon
<1>8. Read(l) = Read(k)
  BY <1>1, <1>2, <1>4, <1>7 DEF Read
<1>9. RcvOK(l, st, top)
  <2>1. ASSUME NEW i \in 1 .. Len(l.rcv_queue)
        PROVE  /\ l.rcv_queue[i].sn = l.rcv_nxt - Len(l.rcv_queue) + i - 1
               /\ Carries(l.rcv_queue[i], st, top)
    <3>1. CASE i <= Len(k.rcv_queue)
      BY <3>1, <1>1, <1>2, <1>4, <1>5, <1>7 DEF RcvOK
    <3>2. CASE i > Len(k.rcv_queue)
      <4>1. l.rcv_queue[i] = moved[i - Len(k.rcv_queue)] /\ i - Len(k.rcv_queue) \in 1 .. c
        BY <3>2, <1>1, <1>2, <1>4, <1>5, <1>7
      <4>2. moved[i - Len(k.rcv_queue)] \in k.rcv_buf
            /\ moved[i - Len(k.rcv_queue)].sn = k.rcv_nxt + (i - Len(k.rcv_queue)) - 1
        BY <4>1, <1>3, Zenon
      <4>3. Carries(l.rcv_queue[i], st, top)
        BY <4>1, <4>2, Zenon DEF RcvOK
      <4>4. Len(k.rcv_queue) \in Nat
        BY <1>4
      <4> HIDE DEF moved, c, l
      <4> QED BY <4>1, <4>2, <4>3, <4>4, <1>1, <1>2, <1>4, <1>7
    <3> QED BY <3>1, <3>2, <1>4
  <2>2. l.rcv_nxt <= top
    <3>1. CASE c = 0
      BY <3>1, <1>2, <1>4 DEF RcvOK
    <3>2. CASE c # 0
      <4>1. c \in 1 .. c
        BY <3>2, <1>1
      <4>2. moved[c] \in k.rcv_buf /\ moved[c].sn = k.rcv_nxt + c - 1
        BY <4>1, <1>3, Zenon
      <4> HIDE DEF moved, c, l
      <4> QED BY <4>2, <1>1, <1>2, <1>4 DEF RcvOK, Carries
    <3> QED BY <3>1, <3>2, Zenon
  <2>3. /\ \A s \in l.rcv_buf : s.sn >= l.rcv_nxt /\ s.sn < l.rcv_nxt + l.rcv_wnd /\ Carries(s, st, top)
        /\ \A s, t \in l.rcv_buf : s.sn = t.sn => s = t
    <3> HIDE DEF l, c
    <3> QED BY <1>1, <1>2, <1>4 DEF RcvOK, Push
  <2>4. Len(l.rcv_queue) <= l.rcv_wnd /\ Len(l.rcv_queue) <= l.rcv_nxt
    <3> HIDE DEF l, c
    <3> QED BY <1>1, <1>2, <1>4, <1>7 DEF RcvOK
  <2> QED BY <2>1, <2>2, <2>3, <2>4, Zenon DEF RcvOK
<1>10. ASSUME NEW sn \in Nat, Holds(k, sn) PROVE Holds(l, sn)
  <2> HIDE DEF l, c
  <2> QED BY <1>1, <1>2, <1>4, <1>10 DEF Holds, Sns, Push
<1> QED BY <1>2, <1>6, <1>8, <1>9, <1>10, Zenon
-----------------------------------------------------------------------------
\* What freeing segments may do to a block k: l has left of its send buffer the
\* segments outside gone.
Freed(k, l, st, gone) ==
  /\ l \in Block /\ SndOK(l, st)
  /\ SameRcv(k, l) /\ l.acklist = k.acklist
  /\ l.snd_nxt = k.snd_nxt /\ l.snd_wnd = k.snd_wnd
  /\ \A sn \in Sns(k.snd_buf) : sn \in Sns(l.snd_buf) \/ sn \in gone

\* snd_una moves up to the oldest segment left.
LEMMA ShrinkOK ==
  ASSUME NEW k \in Block, NEW st \in Stream, SndOK(k, st), NEW buf \in SUBSET k.snd_buf, NEW gone,
         \A s \in k.snd_buf : s \in buf \/ s.sn \in gone
  PROVE  Freed(k, ikcp_shrink_buf([k EXCEPT !.snd_buf = buf]), st, gone)
<1> DEFINE a == [k EXCEPT !.snd_buf = buf]
           una == IF buf = {} THEN k.snd_nxt ELSE Min(Sns(buf))
           l == [a EXCEPT !.snd_una = una]
<1>1. ikcp_shrink_buf(a) = l
  BY Zenon DEF ikcp_shrink_buf, Block
<1>2. /\ k.snd_una \in Nat /\ k.snd_nxt \in Nat /\ k.snd_wnd \in Nat
      /\ buf \subseteq SndSeg /\ k.snd_queue \in Seq(Frag)
  BY Zenon DEF Block
<1>3. una \in Nat /\ una >= k.snd_una /\ una <= k.snd_nxt /\ \A s \in buf : s.sn >= una
  <2>1. CASE buf = {}
    BY <2>1, <1>2 DEF SndOK
  <2>2. CASE buf # {}
    <3>1. Sns(buf) \in SUBSET Nat /\ Sns(buf) # {}
      BY <2>2, <1>2 DEF Sns, SndSeg
    <3>2. Min(Sns(buf)) \in Sns(buf) /\ \A x \in Sns(buf) : Min(Sns(buf)) <= x
      BY <3>1, MinNat, Zenon
    <3>3. \A x \in Sns(buf) : x >= k.snd_una /\ x < k.snd_nxt /\ x \in Nat
      BY <3>1, <1>2, Zenon DEF Sns, SndOK, Carries
    <3>4. \A s \in buf : s.sn \in Sns(buf)
      BY Zenon DEF Sns
    <3> QED BY <2>2, <3>2, <3>3, <3>4, <1>2
  <2> QED BY <2>1, <2>2, Zenon
<1> HIDE DEF una
<1>4. l \in Block
  BY <1>2, <1>3, Zenon DEF Block
<1>5. /\ l.snd_una = una /\ l.snd_buf = buf /\ l.snd_nxt = k.snd_nxt /\ l.snd_wnd = k.snd_wnd
      /\ l.snd_queue = k.snd_queue /\ l.acklist = k.acklist /\ SameRcv(k, l)
  BY Zenon DEF Block, SameRcv
<1> HIDE DEF l, a
<1>6. SndOK(l, st)
  BY <1>2, <1>3, <1>5 DEF SndOK
<1>7. \A sn \in Sns(k.snd_buf) : sn \in Sns(l.snd_buf) \/ sn \in gone
  BY <1>5, Zenon DEF Sns
<1> QED BY <1>1, <1>4, <1>5, <1>6, <1>7, Zenon DEF Freed, a

\* ikcp_parse_una frees the segments below una.
LEMMA ParseUnaOK ==
  ASSUME NEW k \in Block, NEW st \in Stream, SndOK(k, st), NEW una \in Nat
  PROVE  Freed(k, ikcp_parse_una(k, una), st, {sn \in Nat : sn < una})
<1> DEFINE buf == {s \in k.snd_buf : s.sn >= una}
<1>1. ikcp_parse_una(k, una) = ikcp_shrink_buf([k EXCEPT !.snd_buf = buf])
  BY Zenon DEF ikcp_parse_una
<1>2. \A s \in k.snd_buf : s \in buf \/ s.sn \in {sn \in Nat : sn < una}
  BY DEF Block, SndSeg
<1>3. buf \in SUBSET k.snd_buf
  BY Zenon
<1> HIDE DEF buf
<1> QED BY <1>1, <1>2, <1>3, ShrinkOK, Zenon

\* ikcp_parse_ack frees the segments acknowledged.
LEMMA ParseAckOK ==
  ASSUME NEW k \in Block, NEW st \in Stream, SndOK(k, st), NEW acks \in SUBSET Nat
  PROVE  Freed(k, ikcp_parse_ack(k, acks), st, acks)
<1> DEFINE buf == {s \in k.snd_buf : s.sn \notin acks}
<1>1. ikcp_parse_ack(k, acks) = ikcp_shrink_buf([k EXCEPT !.snd_buf = buf])
  BY Zenon DEF ikcp_parse_ack
<1>2. \A s \in k.snd_buf : s \in buf \/ s.sn \in acks
  BY Zenon
<1>3. buf \in SUBSET k.snd_buf
  BY Zenon
<1> HIDE DEF buf
<1> QED BY <1>1, <1>2, <1>3, ShrinkOK, Zenon

\* Segments that are only marked keep their numbers and what they carry.
LEMMA MarkOK ==
  ASSUME NEW k \in Block, NEW st \in Stream, SndOK(k, st), NEW mark \in [SndSeg -> SndSeg],
         \A s \in SndSeg : mark[s].sn = s.sn /\ mark[s].frg = s.frg /\ mark[s].data = s.data
  PROVE  Freed(k, [k EXCEPT !.snd_buf = {mark[s] : s \in @}], st, {})
<1> DEFINE buf == {mark[s] : s \in k.snd_buf}
           l == [k EXCEPT !.snd_buf = buf]
<1>1. buf \subseteq SndSeg
  BY DEF Block
<1>2. l \in Block
  BY <1>1, Zenon DEF Block
<1>3. /\ l.snd_buf = buf /\ l.snd_una = k.snd_una /\ l.snd_nxt = k.snd_nxt /\ l.snd_wnd = k.snd_wnd
      /\ l.snd_queue = k.snd_queue /\ l.acklist = k.acklist /\ SameRcv(k, l)
  BY Zenon DEF Block, SameRcv
<1>4. SndOK(l, st)
  <2>1. ASSUME NEW s \in buf PROVE s.sn >= k.snd_una /\ Carries(s, st, k.snd_nxt)
    <3>1. PICK t \in k.snd_buf : s = mark[t]
      BY Zenon
    <3>2. t \in SndSeg /\ s.sn = t.sn /\ s.frg = t.frg /\ s.data = t.data
      BY <3>1, Zenon DEF Block
    <3> QED BY <3>2 DEF SndOK, Carries
  <2> HIDE DEF l, buf
  <2> QED BY <1>3, <2>1, Zenon DEF SndOK
<1>5. \A sn \in Sns(k.snd_buf) : sn \in Sns(l.snd_buf)
  BY <1>3 DEF Sns, Block
<1> QED BY <1>2, <1>3, <1>4, <1>5 DEF Freed

\* ikcp_parse_fastack frees none.
LEMMA ParseFastackOK ==
  ASSUME NEW k \in Block, NEW st \in Stream, SndOK(k, st), NEW sn
  PROVE  Freed(k, ikcp_parse_fastack(k, sn), st, {})
<1> DEFINE mark == [s \in SndSeg |-> IF s.sn < sn /\ s.fastack < Resend THEN [s EXCEPT !.fastack = @ + 1] ELSE s]
<1>1. CASE sn \notin k.snd_una .. k.snd_nxt - 1
  BY <1>1, Zenon DEF ikcp_parse_fastack, Freed, SameRcv
<1>2. CASE sn \in k.snd_una .. k.snd_nxt - 1
  <2>1. mark \in [SndSeg -> SndSeg]
    BY DEF SndSeg
  <2>2. \A s \in SndSeg : mark[s].sn = s.sn /\ mark[s].frg = s.frg /\ mark[s].data = s.data
    BY Zenon DEF SndSeg
  <2>3. k.snd_buf \subseteq SndSeg
    BY Zenon DEF Block
  <2>4. ikcp_parse_fastack(k, sn) = [k EXCEPT !.snd_buf = {mark[s] : s \in @}]
    BY <1>2, <2>3, Zenon DEF ikcp_parse_fastack
  <2> HIDE DEF mark
  <2> QED BY <2>1, <2>2, <2>4, MarkOK
<1> QED BY <1>1, <1>2, Zenon

-----------------------------------------------------------------------------
\* What a push may do to a block k.
Took(k, l, st, top) ==
  /\ l \in Block /\ RcvOK(l, st, top)
  /\ SameSnd(k, l) /\ l.rcv_wnd = k.rcv_wnd
  /\ Read(l) = Read(k)
  /\ \A sn \in Nat : Holds(k, sn) => Holds(l, sn)
  /\ \A sn \in l.acklist : Holds(l, sn)

\* A segment that is acknowledged is held.
LEMMA ParseDataOK ==
  ASSUME NEW k \in Block, NEW st \in Stream, NEW top \in Nat, RcvOK(k, st, top),
         \A sn \in k.acklist : Holds(k, sn),
         NEW seg \in Push, Carries(seg, st, top)
  PROVE  Took(k, ikcp_parse_data(k, seg), st, top)
<1> DEFINE acked == [k EXCEPT !.acklist = @ \cup {seg.sn}]
           buf == IF seg.sn \in Sns(k.rcv_buf) THEN k.rcv_buf ELSE k.rcv_buf \cup {seg}
           b == [acked EXCEPT !.rcv_buf = buf]
<1>0. k.rcv_nxt \in Nat /\ k.rcv_wnd \in Nat /\ seg.sn \in Nat /\ k.acklist \subseteq Nat /\ k.rcv_buf \subseteq Push
  BY Zenon DEF Block, Push
<1>1. CASE seg.sn >= k.rcv_nxt + k.rcv_wnd
  BY <1>1, Zenon DEF ikcp_parse_data, Took, SameSnd
<1>2. CASE seg.sn < k.rcv_nxt + k.rcv_wnd /\ seg.sn < k.rcv_nxt
  <2>1. ikcp_parse_data(k, seg) = acked
    BY <1>0, <1>2 DEF ikcp_parse_data
  <2>2. acked \in Block
    BY <1>0, Zenon DEF Block
  <2>3. /\ SameSnd(k, acked) /\ SameRcv(k, acked)
        /\ acked.acklist = k.acklist \cup {seg.sn}
    BY Zenon DEF Block, SameSnd, SameRcv
  <2> HIDE DEF acked
  <2>4. RcvOK(acked, st, top) /\ Read(acked) = Read(k)
    BY <2>3, Zenon DEF RcvOK, SameRcv, Read
  <2>5. \A sn : Holds(acked, sn) <=> Holds(k, sn)
    BY <2>3, Zenon DEF Holds, SameRcv
  <2>6. Holds(k, seg.sn)
    BY <1>2, Zenon DEF Holds
  <2> QED BY <2>1, <2>2, <2>3, <2>4, <2>5, <2>6 DEF Took, SameRcv
<1>3. CASE seg.sn < k.rcv_nxt + k.rcv_wnd /\ ~ (seg.sn < k.rcv_nxt)
  <2>1. ikcp_parse_data(k, seg) = Move(b)
    BY <1>0, <1>3 DEF ikcp_parse_data, Block
  <2>2. buf \subseteq Push
    BY <1>0, Zenon
  <2>3. b \in Block
    BY <1>0, <2>2, Zenon DEF Block
  <2>4. /\ SameSnd(k, b) /\ b.acklist = k.acklist \cup {seg.sn} /\ b.rcv_buf = buf
        /\ b.rcv_nxt = k.rcv_nxt /\ b.rcv_wnd = k.rcv_wnd /\ b.rcv_queue = k.rcv_queue
    BY Zenon DEF Block, SameSnd
  <2>5. /\ \A s \in buf : s.sn >= k.rcv_nxt /\ s.sn < k.rcv_nxt + k.rcv_wnd /\ Carries(s, st, top)
        /\ \A s, t \in buf : s.sn = t.sn => s = t
    BY <1>0, <1>3 DEF RcvOK, Sns
  <2>6. seg.sn \in Sns(buf) /\ Sns(k.rcv_buf) \subseteq Sns(buf)
    BY Zenon DEF Sns
  <2> HIDE DEF b, acked, buf
  <2>7. RcvOK(b, st, top) /\ Read(b) = Read(k)
    BY <2>4, <2>5, Zenon DEF RcvOK, Read
  <2>8. \A sn : Holds(k, sn) => Holds(b, sn)
    BY <2>4, <2>6, Zenon DEF Holds
  <2>9. \A sn \in b.acklist : Holds(b, sn) /\ sn \in Nat
    BY <1>0, <2>4, <2>6, <2>8, Zenon DEF Holds
  <2>10. /\ Move(b) \in Block /\ RcvOK(Move(b), st, top)
         /\ \A sn \in Nat : Holds(b, sn) => Holds(Move(b), sn)
         /\ Read(Move(b)) = Read(b) /\ SameSnd(b, Move(b))
         /\ Move(b).rcv_wnd = b.rcv_wnd /\ Move(b).acklist = b.acklist
    BY <2>3, <2>7, MoveOK, Zenon
  <2> HIDE DEF Took
  <2> QED BY <2>1, <2>4, <2>7, <2>8, <2>9, <2>10 DEF Took, SameSnd
<1> QED BY <1>0, <1>1, <1>2, <1>3

\* ikcp_input frees what the datagram acknowledges, and no more.
LEMMA InputOK ==
  ASSUME NEW k \in Block, NEW st \in Stream, SndOK(k, st),
         NEW pst \in Stream, NEW top \in Nat, RcvOK(k, pst, top),
         \A sn \in k.acklist : Holds(k, sn),
         NEW d \in Datagrams, d.push # NoSeg => Carries(d.push, pst, top),
         NEW more \in BOOLEAN, NEW l, l = ikcp_input(k, d, more)
  PROVE  /\ l \in Block /\ SndOK(l, st) /\ RcvOK(l, pst, top)
         /\ l.snd_nxt = k.snd_nxt /\ l.snd_wnd = k.snd_wnd /\ l.rcv_wnd = k.rcv_wnd
         /\ Read(l) = Read(k)
         /\ \A sn \in Nat : Holds(k, sn) => Holds(l, sn)
         /\ \A sn \in l.acklist : Holds(l, sn)
         /\ \A sn \in Sns(k.snd_buf) : sn \in Sns(l.snd_buf) \/ sn < d.una \/ sn \in d.acks
<1> DEFINE start == [k EXCEPT !.rmt_wnd = d.wnd, !.tell = @ \/ d.ask]
           una == ikcp_parse_una(start, d.una)
           ack == IF d.acks = {} THEN una ELSE ikcp_parse_fastack(ikcp_parse_ack(una, d.acks), Max(d.acks))
           push == IF d.push = NoSeg THEN ack ELSE ikcp_parse_data(ack, d.push)
<1>1. l = Grow(push, k.snd_una, more)
  BY Zenon DEF ikcp_input
<1>2. d.una \in Nat /\ d.wnd \in Nat /\ d.acks \subseteq Nat /\ d.ask \in BOOLEAN /\ (d.push # NoSeg => d.push \in Push)
  BY Zenon DEF Datagrams
<1>3. start \in Block /\ SameSnd(k, start) /\ SameRcv(k, start) /\ start.acklist = k.acklist
  BY <1>2, Zenon DEF Block, SameSnd, SameRcv
<1>4. SndOK(start, st) /\ start.snd_buf = k.snd_buf
  <2> HIDE DEF start
  <2> QED BY <1>3, Zenon DEF SndOK, SameSnd
<1>5. Freed(start, una, st, {sn \in Nat : sn < d.una})
  <2> HIDE DEF start
  <2> QED BY <1>2, <1>3, <1>4, ParseUnaOK, Zenon
<1>6. Freed(una, ack, st, d.acks)
  <2> HIDE DEF una
  <2>1. una \in Block /\ SndOK(una, st)
    BY <1>5, Zenon DEF Freed
  <2>2. CASE d.acks = {}
    BY <2>1, <2>2, Zenon DEF Freed, SameRcv
  <2>3. CASE d.acks # {}
    <3> DEFINE some == ikcp_parse_ack(una, d.acks)
    <3>1. Freed(una, some, st, d.acks)
      BY <1>2, <2>1, ParseAckOK, Zenon
    <3> HIDE DEF some
    <3>2. Freed(some, ack, st, {})
      BY <2>3, <3>1, ParseFastackOK DEF Freed, some
    <3> HIDE DEF ack
    <3> QED BY <3>1, <3>2, Zenon DEF Freed, SameRcv
  <2> QED BY <2>2, <2>3
<1> HIDE DEF start, una, ack
<1>7. /\ ack \in Block /\ SndOK(ack, st) /\ SameRcv(k, ack) /\ ack.acklist = k.acklist
      /\ ack.snd_nxt = k.snd_nxt /\ ack.snd_wnd = k.snd_wnd
      /\ \A sn \in Sns(k.snd_buf) : sn \in Sns(ack.snd_buf) \/ sn < d.una \/ sn \in d.acks
  BY <1>3, <1>4, <1>5, <1>6, Zenon DEF Freed, SameRcv, SameSnd
<1>8. /\ RcvOK(ack, pst, top) /\ Read(ack) = Read(k)
      /\ \A sn : Holds(ack, sn) <=> Holds(k, sn)
  BY <1>7, Zenon DEF SameRcv, RcvOK, Read, Holds
<1>9. Took(ack, push, pst, top)
  <2>1. CASE d.push = NoSeg
    BY <2>1, <1>7, <1>8, Zenon DEF Took, SameSnd
  <2>2. CASE d.push # NoSeg
    BY <2>2, <1>2, <1>7, <1>8, ParseDataOK, Zenon
  <2> QED BY <2>1, <2>2, Zenon
<1> HIDE DEF push
<1>10. /\ l \in Block /\ SameSnd(push, l) /\ SameRcv(push, l) /\ l.acklist = push.acklist
  <2>1. push \in Block
    BY <1>9 DEF Took
  <2>2. CASE l = push
    BY <2>1, <2>2 DEF SameSnd, SameRcv
  <2>3. CASE l = [push EXCEPT !.cwnd = @ + 1]
    <3>1. ASSUME NEW b \in Block, NEW c \in Nat
          PROVE  LET e == [b EXCEPT !.cwnd = c]
                 IN e \in Block /\ SameSnd(b, e) /\ SameRcv(b, e) /\ e.acklist = b.acklist
      BY Zenon DEF Block, SameSnd, SameRcv
    <3>2. push.cwnd \in Nat
      BY <2>1, Zenon DEF Block
    <3>3. push.cwnd + 1 \in Nat
      BY <3>2
    <3> QED BY <2>1, <2>3, <3>1, <3>3, Zenon
  <2> QED BY <1>1, <2>2, <2>3 DEF Grow
<1>11. SndOK(l, st) /\ l.snd_buf = ack.snd_buf /\ l.snd_nxt = ack.snd_nxt /\ l.snd_wnd = ack.snd_wnd
  BY <1>7, <1>9, <1>10 DEF Took, SndOK, SameSnd
<1>12. RcvOK(l, pst, top) /\ Read(l) = Read(push) /\ \A sn : Holds(l, sn) <=> Holds(push, sn)
  BY <1>9, <1>10 DEF Took, SameRcv, RcvOK, Read, Holds
<1> QED BY <1>7, <1>8, <1>9, <1>10, <1>11, <1>12, Zenon DEF Took, SameRcv
-----------------------------------------------------------------------------
\* What sending may do to a block k: all the numbers it gives are in flight.
Sent(k, l, st) ==
  /\ l \in Block /\ SndOK(l, st)
  /\ SameRcv(k, l) /\ l.snd_wnd = k.snd_wnd
  /\ l.snd_nxt >= k.snd_nxt
  /\ \A sn \in Nat : sn < l.snd_nxt =>
       sn \in Sns(l.snd_buf) \/ (sn < k.snd_nxt /\ sn \notin Sns(k.snd_buf))

\* The window is no larger than snd_wnd.
LEMMA WindowOK ==
  ASSUME NEW k \in Block
  PROVE  Window(k) \in Nat /\ Window(k) <= k.snd_wnd
<1> DEFINE wnd == Min({k.snd_wnd, k.rmt_wnd})
<1>1. k.snd_wnd \in Nat /\ k.rmt_wnd \in Nat /\ k.cwnd \in Nat
  BY Zenon DEF Block
<1>2. wnd \in Nat /\ wnd <= k.snd_wnd
  <2>1. k.snd_wnd \in Int /\ k.rmt_wnd \in Int
    BY <1>1
  <2>2. wnd \in {k.snd_wnd, k.rmt_wnd} /\ wnd <= k.snd_wnd
    BY <2>1, MinTwo, Zenon
  <2> QED BY <1>1, <2>2, Zenon
<1> HIDE DEF wnd
<1>3. Min({k.cwnd, wnd}) \in Nat /\ Min({k.cwnd, wnd}) <= k.snd_wnd
  <2>1. k.cwnd \in Int /\ wnd \in Int
    BY <1>1, <1>2
  <2>2. Min({k.cwnd, wnd}) \in {k.cwnd, wnd} /\ Min({k.cwnd, wnd}) <= wnd
    BY <2>1, MinTwo, Zenon
  <2> QED BY <1>1, <1>2, <2>2
<1> QED BY <1>2, <1>3, Zenon DEF Window, wnd

\* Segments get the numbers that follow, while the window has room.
LEMMA FillOK ==
  ASSUME NEW k \in Block, NEW st \in Stream, SndOK(k, st)
  PROVE  Sent(k, Fill(k), st) /\ Fill(k).acklist = k.acklist
<1> DEFINE room == k.snd_una + Window(k) - k.snd_nxt
           few == Min({Len(k.snd_queue), room})
           c == Max({0, few})
           fresh == {[sn |-> k.snd_nxt + i - 1, frg |-> k.snd_queue[i].frg, data |-> k.snd_queue[i].data,
                      xmit |-> FALSE, fastack |-> 0] : i \in 1 .. c}
           rest == SubSeq(k.snd_queue, c + 1, Len(k.snd_queue))
           l == [k EXCEPT !.snd_buf = k.snd_buf \cup fresh, !.snd_nxt = k.snd_nxt + c, !.snd_queue = rest]
<1>1. Fill(k) = l
  BY Zenon DEF Fill
<1>2. /\ k.snd_una \in Nat /\ k.snd_nxt \in Nat /\ k.snd_wnd \in Nat /\ k.snd_buf \subseteq SndSeg
      /\ k.snd_queue \in Seq(Frag) /\ Len(k.snd_queue) \in Nat
      /\ Window(k) \in Nat /\ Window(k) <= k.snd_wnd
  BY WindowOK DEF Block
<1>3. c \in Nat /\ c <= Len(k.snd_queue) /\ (c # 0 => k.snd_nxt + c - k.snd_una <= k.snd_wnd)
  <2>1. room \in Int
    BY <1>2
  <2>2. few \in Int /\ few <= Len(k.snd_queue) /\ few <= room
    <3>1. Len(k.snd_queue) \in Int
      BY <1>2
    <3>2. few \in {Len(k.snd_queue), room} /\ few <= Len(k.snd_queue) /\ few <= room
      <4> HIDE DEF room
      <4> QED BY <2>1, <3>1, MinTwo, Zenon
    <3> HIDE DEF few
    <3> QED BY <2>1, <3>1, <3>2, Zenon
  <2>3. c \in Int /\ c >= 0 /\ c \in {0, few}
    <3> HIDE DEF few
    <3>1. 0 \in Int
      OBVIOUS
    <3>2. c \in {0, few} /\ c >= 0
      BY <2>2, <3>1, MaxTwo, Zenon
    <3> HIDE DEF c
    <3> QED BY <2>2, <3>2
  <2> HIDE DEF c, few
  <2> QED BY <1>2, <2>2, <2>3
<1> HIDE DEF c
<1>4. \A i \in 1 .. c : k.snd_queue[i] \in Frag /\ k.snd_queue[i] = st[k.snd_nxt + i][2]
  BY <1>2, <1>3 DEF SndOK
<1>5. fresh \subseteq SndSeg
  <2>1. ASSUME NEW i \in 1 .. c
        PROVE  k.snd_nxt + i - 1 \in Nat /\ k.snd_queue[i].frg \in Nat /\ k.snd_queue[i].data \in Msg \X Nat
    <3>1. k.snd_nxt + i - 1 \in Nat
      BY <1>2, <1>3
    <3>2. k.snd_queue[i] \in Frag
      BY <1>4, Zenon
    <3> QED BY <3>1, <3>2, Zenon DEF Frag
  <2>2. ASSUME NEW i \in 1 .. c
        PROVE  [sn |-> k.snd_nxt + i - 1, frg |-> k.snd_queue[i].frg, data |-> k.snd_queue[i].data,
                xmit |-> FALSE, fastack |-> 0] \in SndSeg
    BY <2>1, Zenon DEF SndSeg
  <2> QED BY <2>2, Zenon
<1>6. ASSUME NEW s \in fresh
      PROVE  s.sn >= k.snd_nxt /\ Carries(s, st, k.snd_nxt + c)
  <2>1. PICK i \in 1 .. c : s = [sn |-> k.snd_nxt + i - 1, frg |-> k.snd_queue[i].frg,
                                 data |-> k.snd_queue[i].data, xmit |-> FALSE, fastack |-> 0]
    BY Zenon
  <2>2. s.sn = k.snd_nxt + i - 1 /\ s.frg = k.snd_queue[i].frg /\ s.data = k.snd_queue[i].data
    BY <2>1, Zenon
  <2>3. s.sn + 1 = k.snd_nxt + i /\ s.sn >= k.snd_nxt /\ s.sn < k.snd_nxt + c
    BY <2>2, <1>2, <1>3
  <2> QED BY <2>2, <2>3, <1>4, Zenon DEF Carries
<1>7. ASSUME NEW sn \in Nat, sn >= k.snd_nxt, sn < k.snd_nxt + c PROVE sn \in Sns(fresh)
  <2> DEFINE i == sn - k.snd_nxt + 1
             s == [sn |-> k.snd_nxt + i - 1, frg |-> k.snd_queue[i].frg,
                   data |-> k.snd_queue[i].data, xmit |-> FALSE, fastack |-> 0]
  <2>1. i \in 1 .. c /\ k.snd_nxt + i - 1 = sn
    BY <1>2, <1>3, <1>7
  <2>2. s \in fresh /\ s.sn = sn
    BY <2>1, Zenon
  <2> HIDE DEF s, fresh
  <2> QED BY <2>2 DEF Sns
<1>8. /\ rest \in Seq(Frag) /\ Len(rest) = Len(k.snd_queue) - c
      /\ \A i \in 1 .. Len(rest) : rest[i] = k.snd_queue[c + i]
  BY <1>2, <1>3
<1> HIDE DEF fresh, rest
<1>9. l \in Block
  <2>1. k.snd_buf \cup fresh \subseteq SndSeg /\ k.snd_nxt + c \in Nat
    BY <1>2, <1>3, <1>5
  <2> QED BY <1>8, <2>1, Zenon DEF Block
<1>10. /\ l.snd_buf = k.snd_buf \cup fresh /\ l.snd_nxt = k.snd_nxt + c /\ l.snd_queue = rest
       /\ l.snd_una = k.snd_una /\ l.snd_wnd = k.snd_wnd /\ l.acklist = k.acklist /\ SameRcv(k, l)
  BY Zenon DEF Block, SameRcv
<1> HIDE DEF l
<1>11. SndOK(l, st)
  <2>1. Len(st) = l.snd_nxt + Len(l.snd_queue)
    BY <1>2, <1>3, <1>8, <1>10 DEF SndOK
  <2>2. ASSUME NEW i \in 1 .. Len(l.snd_queue) PROVE l.snd_queue[i] = st[l.snd_nxt + i][2]
    <3>1. c + i \in 1 .. Len(k.snd_queue) /\ k.snd_nxt + (c + i) = l.snd_nxt + i
      BY <1>2, <1>3, <1>8, <1>10
    <3> QED BY <3>1, <1>8, <1>10, Zenon DEF SndOK
  <2>3. ASSUME NEW s \in l.snd_buf PROVE s.sn >= l.snd_una /\ Carries(s, st, l.snd_nxt)
    <3>1. CASE s \in k.snd_buf
      <4>1. s.sn >= k.snd_una /\ Carries(s, st, k.snd_nxt) /\ s.sn \in Nat
        BY <3>1, <1>2, Zenon DEF SndOK, SndSeg
      <4> QED BY <4>1, <1>2, <1>3, <1>10 DEF Carries
    <3>2. CASE s \in fresh
      BY <3>2, <1>2, <1>5, <1>6, <1>10 DEF SndOK, SndSeg
    <3> QED BY <3>1, <3>2, <1>10, Zenon
  <2>4. l.snd_una <= l.snd_nxt /\ l.snd_nxt - l.snd_una <= l.snd_wnd
    BY <1>2, <1>3, <1>10 DEF SndOK
  <2> QED BY <2>1, <2>2, <2>3, <2>4, Zenon DEF SndOK
<1>12. ASSUME NEW sn \in Nat, sn < l.snd_nxt
       PROVE  sn \in Sns(l.snd_buf) \/ (sn < k.snd_nxt /\ sn \notin Sns(k.snd_buf))
  <2>1. Sns(k.snd_buf) \subseteq Sns(l.snd_buf) /\ Sns(fresh) \subseteq Sns(l.snd_buf)
    BY <1>10, Zenon DEF Sns
  <2>2. CASE sn < k.snd_nxt
    BY <2>1, <2>2, Zenon
  <2>3. CASE sn >= k.snd_nxt
    <3>1. sn \in Sns(fresh)
      BY <2>3, <1>7, <1>10, <1>12, Zenon
    <3> QED BY <2>1, <3>1, Zenon
  <2> QED BY <2>2, <2>3, <1>2
<1>13. l.snd_nxt >= k.snd_nxt
  BY <1>2, <1>3, <1>10
<1> HIDE DEF Sns
<1> QED BY <1>1, <1>9, <1>10, <1>11, <1>12, <1>13, Zenon DEF Sent
\* ThreshMin keeps the halved window a number.
LEMMA HalvedOK ==
  ASSUME NEW w \in Nat
  PROVE  Max({ThreshMin, w \div 2}) \in Nat
<1>1. ThreshMin \in Int /\ w \div 2 \in Int /\ ThreshMin \in Nat /\ w \div 2 \in Nat
  BY KcpAssumption
<1>2. Max({ThreshMin, w \div 2}) \in {ThreshMin, w \div 2}
  BY <1>1, MaxTwo, Zenon
<1> QED BY <1>1, <1>2, Zenon

\* Losses change the congestion window and nothing else.
LEMMA CongestionOK ==
  ASSUME NEW k \in Block, NEW expired, NEW w \in Nat, k.snd_una <= k.snd_nxt
  PROVE  LET l == Congestion(k, expired, w)
         IN l \in Block /\ SameSnd(k, l) /\ SameRcv(k, l) /\ l.acklist = k.acklist
<1> DEFINE lost == \E s \in k.snd_buf : TimedOut(s, expired)
           change == \E s \in k.snd_buf : Overtaken(s, expired)
           inflight == k.snd_nxt - k.snd_una
           half == Max({ThreshMin, w \div 2})
           less == Max({ThreshMin, inflight \div 2})
           thresh == IF lost THEN half ELSE IF change THEN less ELSE k.ssthresh
           cwnd == IF lost THEN 1 ELSE IF change THEN less + Resend ELSE Max({1, k.cwnd})
<1>1. k.ssthresh \in Nat /\ k.cwnd \in Nat /\ inflight \in Nat /\ Resend \in Nat
  BY KcpAssumption DEF Block
<1>2. half \in Nat
  BY HalvedOK, Zenon
<1>3. less \in Nat
  <2> HIDE DEF inflight
  <2> QED BY <1>1, HalvedOK, Zenon
<1>4. Max({1, k.cwnd}) \in Nat
  <2>1. 1 \in Int /\ k.cwnd \in Int
    BY <1>1
  <2>2. Max({1, k.cwnd}) \in {1, k.cwnd}
    BY <2>1, MaxTwo, Zenon
  <2> QED BY <1>1, <2>2
<1>5. Congestion(k, expired, w) = IF k.nocwnd THEN k ELSE [k EXCEPT !.ssthresh = thresh, !.cwnd = cwnd]
  BY Zenon DEF Congestion
<1> HIDE DEF half, less, lost, change
<1>6. thresh \in Nat /\ cwnd \in Nat
  BY <1>1, <1>2, <1>3, <1>4
<1> HIDE DEF thresh, cwnd
<1>7. SameSnd(k, k) /\ SameRcv(k, k)
  BY Zenon DEF SameSnd, SameRcv
<1>8. CASE Congestion(k, expired, w) = k
  BY <1>7, <1>8
<1>9. CASE Congestion(k, expired, w) = [k EXCEPT !.ssthresh = thresh, !.cwnd = cwnd]
  <2> DEFINE e == [k EXCEPT !.ssthresh = thresh, !.cwnd = cwnd]
  <2>1. e \in Block /\ SameSnd(k, e) /\ SameRcv(k, e) /\ e.acklist = k.acklist
    BY <1>6, Zenon DEF Block, SameSnd, SameRcv
  <2>2. Congestion(k, expired, w) = e
    BY <1>9
  <2> HIDE DEF e
  <2> QED BY <2>1, <2>2
<1> QED BY <1>5, <1>8, <1>9, Zenon

\* ikcp_flush numbers segments and marks what it sends again.
LEMMA FlushOK ==
  ASSUME NEW k \in Block, NEW st \in Stream, SndOK(k, st), NEW expired
  PROVE  /\ Sent(k, Taken(k), st)
         /\ Sent(k, ikcp_flush(k, expired), st)
         /\ ikcp_flush(k, expired).snd_nxt = Taken(k).snd_nxt
         /\ ikcp_flush(k, expired).acklist = {}
<1> DEFINE a == [k EXCEPT !.acklist = {}, !.tell = FALSE, !.probe_wait = k.rmt_wnd = 0]
           t == Taken(k)
           c == Congestion(t, expired, Window(k))
           mark == [s \in SndSeg |-> [s EXCEPT !.xmit = TRUE,
                                               !.fastack = IF Overtaken(s, expired) THEN 0 ELSE @]]
           l == ikcp_flush(k, expired)
<1>1. a \in Block /\ SameSnd(k, a) /\ SameRcv(k, a) /\ a.acklist = {}
  BY Zenon DEF Block, SameSnd, SameRcv
<1>2. t = Fill(a)
  BY Zenon DEF Taken
<1> HIDE DEF a
<1>3. SndOK(a, st)
  BY <1>1, Zenon DEF SndOK, SameSnd
<1>4. Sent(a, t, st) /\ t.acklist = {}
  BY <1>1, <1>2, <1>3, FillOK, Zenon
<1> HIDE DEF t
<1>5. Sent(k, t, st)
  BY <1>1, <1>4, Zenon DEF Sent, SameSnd, SameRcv
<1>6. t \in Block /\ SndOK(t, st) /\ t.snd_una <= t.snd_nxt
  BY <1>4, Zenon DEF Sent, SndOK
<1>7. c \in Block /\ SameSnd(t, c) /\ SameRcv(t, c) /\ c.acklist = {}
  BY <1>4, <1>6, CongestionOK, WindowOK
<1> HIDE DEF c
<1>8. SndOK(c, st)
  BY <1>6, <1>7 DEF SndOK, SameSnd
<1>9. mark \in [SndSeg -> SndSeg]
  BY Zenon DEF SndSeg
<1>10. \A s \in SndSeg : mark[s].sn = s.sn /\ mark[s].frg = s.frg /\ mark[s].data = s.data
  BY Zenon DEF SndSeg
<1>11. l = [c EXCEPT !.snd_buf = {mark[s] : s \in @}]
  <2>1. c.snd_buf \subseteq SndSeg
    BY <1>7 DEF Block
  <2> QED BY <2>1, Zenon DEF ikcp_flush, Transmit, c, t
<1> HIDE DEF mark
<1>12. Freed(c, l, st, {})
  BY <1>7, <1>8, <1>9, <1>10, <1>11, MarkOK
<1> HIDE DEF l
<1>13. l.snd_nxt = t.snd_nxt /\ l.acklist = {} /\ Sns(t.snd_buf) \subseteq Sns(l.snd_buf)
  BY <1>7, <1>12, Zenon DEF Freed, SameSnd
<1>14. l \in Block /\ SndOK(l, st) /\ SameRcv(t, l) /\ l.snd_wnd = t.snd_wnd
  BY <1>7, <1>12, Zenon DEF Freed, SameSnd, SameRcv
<1>15. Sent(k, l, st)
  <2> HIDE DEF Sns
  <2> QED BY <1>5, <1>13, <1>14, Zenon DEF Sent, SameRcv
<1> QED BY <1>5, <1>13, <1>15 DEF l, t
-----------------------------------------------------------------------------
\* The queue begins with the next message of the peer, and ikcp_recv takes it off.
LEMMA FirstOK ==
  ASSUME NEW k \in Block, NEW st \in Stream, NEW top \in Nat, RcvOK(k, st, top), top <= Len(st),
         NEW q \in Seq(Wholes), StreamOK(st, q), NEW h \in Seq(Wholes), ReadOK(Read(k), h, st),
         ikcp_peeksize(k)
  PROVE  LET F == First(k.rcv_queue) IN
         /\ F \in Nat /\ F <= Len(k.rcv_queue)
         /\ Len(h) + 1 \in 1 .. Len(q)
         /\ Received(k) = q[Len(h) + 1]
         /\ ReadOK(Read(k) + F, Append(h, Received(k)), st)
<1> DEFINE Q == k.rcv_queue
           r == Read(k)
           m == st[r + 1][2].data[1]
           F == Frags[m]
<1>1. Q \in Seq(Push) /\ Q # <<>> /\ Len(Q) \in Nat \ {0} /\ k.rcv_nxt \in Nat
  BY DEF ikcp_peeksize, Block
<1>2. r \in Nat /\ r + Len(Q) = k.rcv_nxt /\ r + Len(Q) <= top /\ r + 1 <= Len(st)
  BY <1>1 DEF Read, RcvOK
<1>3. \A i \in 1 .. Len(Q) : Q[i].sn = r + i - 1 /\ Carries(Q[i], st, top)
  BY <1>1, Zenon DEF RcvOK, Read
<1> HIDE DEF r
<1>4. ASSUME NEW i \in 1 .. Len(Q)
      PROVE  Q[i].frg = st[r + i][2].frg /\ Q[i].data = st[r + i][2].data
  <2>1. Q[i].sn + 1 = r + i
    BY <1>1, <1>2, <1>3
  <2> QED BY <2>1, <1>3, Zenon DEF Carries
<1>5. st[r + 1][1] = Len(h) + 1 /\ st[r + 1][2].data[2] = 1
  <2>1. CASE r = 0
    BY <2>1, <1>2 DEF StreamOK, ReadOK, r, Stream
  <2>2. CASE r # 0
    <3>1. r \in 1 .. Len(st) - 1 /\ st[r][1] = Len(h) /\ st[r][2].frg = 0
      BY <2>2, <1>2 DEF ReadOK, r, Stream
    <3> QED BY <3>1, Zenon DEF StreamOK
  <2> QED BY <2>1, <2>2
<1>6. Part(st, q, r + 1)
  BY <1>2 DEF StreamOK, Stream
<1>7. /\ Len(h) + 1 \in 1 .. Len(q) /\ q[Len(h) + 1] = Whole(m)
      /\ 1 \in 1 .. F /\ r + F <= Len(st)
      /\ \A b \in 1 .. F : st[r + b] = <<Len(h) + 1, Segments(m)[b]>>
  <2>1. r + 1 - 1 = r
    BY <1>2
  <2> QED BY <1>2, <1>5, <1>6, <2>1 DEF Part
<1>8. m \in Msg /\ F \in Nat
  <2>1. st[r + 1] \in Nat \X Frag
    BY <1>2 DEF Stream
  <2>2. st[r + 1][2].data \in Msg \X Nat
    BY <2>1, Zenon DEF Frag
  <2> QED BY <2>2, KcpAssumption, Zenon
<1> HIDE DEF m, F
<1>9. ASSUME NEW b \in 1 .. F, b <= Len(Q)
      PROVE  Q[b].frg = F - b /\ Q[b].data = <<m, b>>
  <2>1. Segments(m)[b] = [frg |-> F - b, data |-> <<m, b>>]
    BY Zenon DEF Segments, F
  <2>2. st[r + b][2] = Segments(m)[b] /\ b \in 1 .. Len(Q)
    BY <1>1, <1>7, <1>8, <1>9
  <2>3. Q[b].frg = st[r + b][2].frg /\ Q[b].data = st[r + b][2].data
    BY <1>4, <2>2, Zenon
  <2> HIDE DEF Q
  <2> QED BY <2>1, <2>2, <2>3
<1>10. F <= Len(Q)
  <2>1. Q[1].frg = F - 1 /\ Head(Q) = Q[1]
    BY <1>1, <1>7, <1>9
  <2> QED BY <2>1, <1>1, <1>8 DEF ikcp_peeksize
<1>11. First(Q) = F
  <2> DEFINE S == {i \in 1 .. Len(Q) : Q[i].frg = 0} \cup {Len(Q)}
  <2>1. S \in SUBSET Nat /\ S # {}
    BY <1>1
  <2>2. F \in S
    <3>1. F \in 1 .. F /\ F \in 1 .. Len(Q)
      BY <1>1, <1>7, <1>8, <1>10
    <3> QED BY <3>1, <1>8, <1>9, <1>10
  <2>3. ASSUME NEW x \in S PROVE x >= F
    <3>1. SUFFICES ASSUME x < F PROVE FALSE
      BY <1>8, <2>1
    <3>2. x \in 1 .. Len(Q) /\ Q[x].frg = 0
      BY <1>1, <1>8, <1>10, <3>1
    <3>3. Q[x].frg = F - x
      BY <1>8, <1>9, <3>1, <3>2
    <3> QED BY <3>1, <3>2, <3>3, <1>8
  <2> HIDE DEF S
  <2>4. Min(S) \in S /\ \A x \in S : Min(S) <= x
    BY <2>1, MinNat
  <2>5. Min(S) \in Nat /\ Min(S) <= F /\ Min(S) >= F
    BY <2>1, <2>2, <2>3, <2>4, Zenon
  <2>6. Min(S) = F
    BY <2>5, <1>8
  <2> QED BY <2>6, Zenon DEF First, S
<1>12. Received(k) = q[Len(h) + 1]
  <2>1. Received(k) = [i \in 1 .. F |-> Q[i].data]
    BY <1>11, Zenon DEF Received
  <2>2. \A i \in 1 .. F : Q[i].data = <<m, i>>
    BY <1>1, <1>8, <1>9, <1>10
  <2>3. Whole(m) = [i \in 1 .. F |-> <<m, i>>]
    BY Zenon DEF Whole, F
  <2> HIDE DEF Q
  <2> QED BY <1>7, <2>1, <2>2, <2>3, Zenon
<1>13. ReadOK(r + F, Append(h, Received(k)), st)
  <2>1. F \in 1 .. F /\ r + F # 0
    BY <1>2, <1>7, <1>8
  <2>2. st[r + F][1] = Len(h) + 1 /\ st[r + F][2] = Segments(m)[F]
    BY <2>1, <1>7
  <2>3. Segments(m)[F].frg = 0
    BY <2>1, <1>8 DEF Segments, F
  <2>4. Len(Append(h, Received(k))) = Len(h) + 1
    OBVIOUS
  <2> QED BY <2>1, <2>2, <2>3, <2>4, Zenon DEF ReadOK
<1> QED BY <1>7, <1>8, <1>10, <1>11, <1>12, <1>13, Zenon DEF r
\* ikcp_recv takes the first message off the queue and fills the queue again.
LEMMA RecvOK ==
  ASSUME NEW k \in Block, NEW st \in Stream, NEW top \in Nat, RcvOK(k, st, top),
         First(k.rcv_queue) \in Nat, First(k.rcv_queue) <= Len(k.rcv_queue)
  PROVE  LET l == ikcp_recv(k) IN
         /\ l \in Block /\ RcvOK(l, st, top)
         /\ SameSnd(k, l) /\ l.rcv_wnd = k.rcv_wnd /\ l.acklist = k.acklist
         /\ Read(l) = Read(k) + First(k.rcv_queue)
         /\ \A sn \in Nat : Holds(k, sn) => Holds(l, sn)
<1> DEFINE Q == k.rcv_queue
           F == First(Q)
           rest == SubSeq(Q, F + 1, Len(Q))
           b == [k EXCEPT !.rcv_queue = rest]
           read == Move(b)
           recover == Len(Q) >= k.rcv_wnd /\ Len(read.rcv_queue) < k.rcv_wnd
           l == [read EXCEPT !.tell = @ \/ recover]
<1>1. ikcp_recv(k) = l
  BY Zenon DEF ikcp_recv
<1>2. Q \in Seq(Push) /\ Len(Q) \in Nat /\ k.rcv_nxt \in Nat /\ k.rcv_wnd \in Nat /\ F \in Nat /\ F <= Len(Q)
  BY DEF Block
<1> HIDE DEF F
<1>3. /\ rest \in Seq(Push) /\ Len(rest) = Len(Q) - F
      /\ \A i \in 1 .. Len(rest) : rest[i] = Q[F + i]
  BY <1>2
<1>4. b \in Block
  BY <1>3, Zenon DEF Block
<1>5. /\ SameSnd(k, b) /\ b.rcv_wnd = k.rcv_wnd /\ b.acklist = k.acklist
      /\ b.rcv_queue = rest /\ b.rcv_nxt = k.rcv_nxt /\ b.rcv_buf = k.rcv_buf
  BY Zenon DEF Block, SameSnd
<1> HIDE DEF rest, b
<1>6. RcvOK(b, st, top)
  <2>1. ASSUME NEW i \in 1 .. Len(rest)
        PROVE  rest[i].sn = b.rcv_nxt - Len(rest) + i - 1 /\ Carries(rest[i], st, top)
    <3>1. F + i \in 1 .. Len(Q) /\ rest[i] = Q[F + i]
      BY <1>2, <1>3
    <3>2. Q[F + i].sn = k.rcv_nxt - Len(Q) + (F + i) - 1 /\ Carries(Q[F + i], st, top)
      BY <3>1, Zenon DEF RcvOK
    <3> QED BY <3>1, <3>2, <1>2, <1>3, <1>5
  <2>2. Len(rest) <= b.rcv_wnd /\ Len(rest) <= b.rcv_nxt
    BY <1>2, <1>3, <1>5 DEF RcvOK
  <2> QED BY <2>1, <2>2, <1>5, Zenon DEF RcvOK
<1>7. Read(b) = Read(k) + F
  BY <1>2, <1>3, <1>5 DEF Read
<1>8. /\ read \in Block /\ RcvOK(read, st, top)
      /\ \A sn \in Nat : Holds(b, sn) => Holds(read, sn)
      /\ Read(read) = Read(b) /\ SameSnd(b, read)
      /\ read.rcv_wnd = b.rcv_wnd /\ read.acklist = b.acklist
  BY <1>4, <1>6, MoveOK
<1> HIDE DEF read, recover
<1>9. l \in Block /\ SameSnd(read, l) /\ SameRcv(read, l) /\ l.acklist = read.acklist
  <2>1. (read.tell \/ recover) \in BOOLEAN
    BY Zenon
  <2> QED BY <1>8, <2>1, Zenon DEF Block, SameSnd, SameRcv
<1> HIDE DEF l
<1>10. RcvOK(l, st, top) /\ Read(l) = Read(read) /\ \A sn : Holds(l, sn) <=> Holds(read, sn)
  BY <1>8, <1>9, Zenon DEF RcvOK, SameRcv, Read, Holds
<1>11. \A sn : Holds(k, sn) => Holds(b, sn)
  BY <1>5, Zenon DEF Holds
<1>12. SameSnd(k, l) /\ l.rcv_wnd = k.rcv_wnd /\ l.acklist = k.acklist
  BY <1>5, <1>8, <1>9, Zenon DEF SameSnd, SameRcv
<1> QED BY <1>1, <1>7, <1>8, <1>9, <1>10, <1>11, <1>12, Zenon DEF F
-----------------------------------------------------------------------------
\* st has only grown at its end, to tt
Grown(st, tt) == Len(st) <= Len(tt) /\ \A i \in 1 .. Len(st) : tt[i] = st[i]

\* What a segment carries stays in its place when the stream grows.
LEMMA CarriesStable ==
  ASSUME NEW st \in Stream, NEW tt \in Stream, Grown(st, tt),
         NEW top \in Nat, NEW high \in Nat, top <= Len(st), top <= high,
         NEW s, s.sn \in Nat, Carries(s, st, top)
  PROVE  Carries(s, tt, high)
<1>1. s.sn + 1 \in 1 .. Len(st) /\ s.sn < high
  BY DEF Carries, Stream
<1>2. tt[s.sn + 1] = st[s.sn + 1]
  BY <1>1 DEF Grown
<1> QED BY <1>1, <1>2, Zenon DEF Carries

\* The receiving half does not see the peer's stream grow.
LEMMA RcvStable ==
  ASSUME NEW k \in Block, NEW st \in Stream, NEW tt \in Stream, Grown(st, tt),
         NEW top \in Nat, NEW high \in Nat, top <= Len(st), top <= high,
         RcvOK(k, st, top)
  PROVE  RcvOK(k, tt, high)
<1>1. k.rcv_buf \subseteq Push /\ k.rcv_queue \in Seq(Push) /\ k.rcv_nxt \in Nat
  BY Zenon DEF Block
<1>2. ASSUME NEW s \in k.rcv_buf PROVE Carries(s, tt, high)
  BY <1>1, CarriesStable, Zenon DEF RcvOK, Push
<1>3. ASSUME NEW i \in 1 .. Len(k.rcv_queue) PROVE Carries(k.rcv_queue[i], tt, high)
  <2>1. k.rcv_queue[i] \in Push /\ Carries(k.rcv_queue[i], st, top)
    BY <1>1 DEF RcvOK
  <2>2. k.rcv_queue[i].sn \in Nat
    BY <2>1, Zenon DEF Push
  <2> QED BY <2>1, <2>2, CarriesStable
<1> QED BY <1>1, <1>2, <1>3 DEF RcvOK

\* What was read stays read.
LEMMA ReadStable ==
  ASSUME NEW st \in Stream, NEW tt \in Stream, Grown(st, tt),
         NEW r \in Nat, r <= Len(st), NEW h, ReadOK(r, h, st)
  PROVE  ReadOK(r, h, tt)
<1>1. r # 0 => r \in 1 .. Len(st)
  BY DEF Stream
<1> QED BY <1>1, Zenon DEF ReadOK, Grown

\* A datagram under way stays true of a peer that goes on sending and receiving.
LEMMA NetStable ==
  ASSUME NEW k \in Block, NEW l \in Block, NEW st \in Stream, NEW tt \in Stream, Grown(st, tt),
         k.snd_nxt <= Len(st), k.snd_nxt <= l.snd_nxt,
         \A sn \in Nat : Holds(k, sn) => Holds(l, sn),
         NEW d \in Datagrams, NetOK(d, k, st)
  PROVE  NetOK(d, l, tt)
<1>1. k.snd_nxt \in Nat /\ l.snd_nxt \in Nat
  BY Zenon DEF Block
<1>2. d.una \in Nat /\ d.acks \subseteq Nat
  BY Zenon DEF Datagrams
<1>3. (\A sn \in Nat : sn < d.una => Holds(l, sn)) /\ \A sn \in d.acks : Holds(l, sn)
  BY <1>1, <1>2, Zenon DEF NetOK
<1>4. ASSUME d.push # NoSeg PROVE d.push \in Push /\ Carries(d.push, tt, l.snd_nxt)
  <2>1. d.push \in Push /\ Carries(d.push, st, k.snd_nxt) /\ d.push.sn \in Nat
    BY <1>4, Zenon DEF NetOK, Push
  <2> QED BY <2>1, <1>1, CarriesStable, Zenon
<1> QED BY <1>3, <1>4, Zenon DEF NetOK
\* A sequence that is appended follows in its order.
LEMMA ConcatOK ==
  ASSUME NEW S, NEW s \in Seq(S), NEW F \in Nat, NEW f \in [1 .. F -> S]
  PROVE  /\ s \o f \in Seq(S) /\ Len(s \o f) = Len(s) + F
         /\ \A i \in 1 .. Len(s) : (s \o f)[i] = s[i]
         /\ \A i \in 1 .. F : (s \o f)[Len(s) + i] = f[i]
<1>1. f \in Seq(S) /\ Len(f) = F
  OBVIOUS
<1>2. Len(s) \in Nat
  OBVIOUS
<1>3. /\ s \o f \in Seq(S) /\ Len(s \o f) = Len(s) + Len(f)
      /\ \A i \in 1 .. Len(s) + Len(f) : (s \o f)[i] = IF i <= Len(s) THEN s[i] ELSE f[i - Len(s)]
  BY <1>1
<1>4. ASSUME NEW i \in 1 .. Len(s) PROVE (s \o f)[i] = s[i]
  BY <1>1, <1>2, <1>3
<1>5. ASSUME NEW i \in 1 .. F PROVE (s \o f)[Len(s) + i] = f[i]
  <2>1. Len(s) + i \in 1 .. Len(s) + Len(f) /\ ~ (Len(s) + i <= Len(s)) /\ Len(s) + i - Len(s) = i
    BY <1>1, <1>2
  <2> QED BY <2>1, <1>3
<1> QED BY <1>1, <1>3, <1>4, <1>5

\* ikcp_send appends the fragments of one message, the last one with frg 0.
LEMMA StreamAppend ==
  ASSUME NEW st \in Stream, NEW q \in Seq(Wholes), StreamOK(st, q), NEW m \in Msg, NEW tt \in Stream,
         Len(tt) = Len(st) + Frags[m],
         \A i \in 1 .. Len(st) : tt[i] = st[i],
         \A i \in 1 .. Frags[m] : tt[Len(st) + i] = <<Len(q) + 1, Segments(m)[i]>>
  PROVE  StreamOK(tt, Append(q, Whole(m)))
<1> DEFINE F == Frags[m]
           p == Append(q, Whole(m))
<1>1. F \in Nat \ {0}
  BY KcpAssumption, Zenon
<1>2. \A i \in 1 .. F : /\ Segments(m)[i].frg = F - i
                        /\ Segments(m)[i].data[1] = m /\ Segments(m)[i].data[2] = i
  BY <1>1 DEF Segments
<1>4. /\ Len(tt) = Len(st) + F
      /\ \A i \in 1 .. Len(st) : tt[i] = st[i]
  BY Zenon
<1>5. \A i \in 1 .. F : tt[Len(st) + i] = <<Len(q) + 1, Segments(m)[i]>>
  BY Zenon
<1> HIDE DEF F
<1>6. Len(st) \in Nat /\ Len(q) \in Nat
  BY DEF Stream
<1>8. /\ \A i \in 1 .. F : /\ tt[Len(st) + i][1] = Len(q) + 1
                           /\ tt[Len(st) + i][2] = Segments(m)[i]
  BY <1>5
<1>9. p \in Seq(Wholes) /\ Len(p) = Len(q) + 1 /\ p[Len(q) + 1] = Whole(m) /\ \A j \in 1 .. Len(q) : p[j] = q[j]
  BY DEF Wholes
<1> HIDE DEF p
<1>10. ASSUME NEW i \in 1 .. Len(tt) PROVE Part(tt, p, i)
  <2>1. CASE i <= Len(st)
    <3> DEFINE j == st[i][1]
               w == st[i][2].data[1]
               a == st[i][2].data[2]
    <3>0. i \in 1 .. Len(st)
      BY <2>1, <1>6
    <3>1. /\ j \in 1 .. Len(q) /\ q[j] = Whole(w) /\ a \in 1 .. Frags[w]
          /\ i - a >= 0 /\ i - a + Frags[w] <= Len(st)
          /\ \A b \in 1 .. Frags[w] : st[i - a + b] = <<j, Segments(w)[b]>>
      BY <3>0, Zenon DEF StreamOK, Part
    <3>2. tt[i] = st[i] /\ p[j] = q[j] /\ j \in 1 .. Len(p)
      BY <3>0, <3>1, <1>4, <1>6, <1>9
    <3>3. w \in Msg /\ Frags[w] \in Nat
      <4>1. st[i] \in Nat \X Frag
        BY <3>0 DEF Stream
      <4>2. st[i][2].data \in Msg \X Nat
        BY <4>1, Zenon DEF Frag
      <4> QED BY <4>2, KcpAssumption, Zenon
    <3> HIDE DEF j, w, a
    <3>4. ASSUME NEW b \in 1 .. Frags[w] PROVE tt[i - a + b] = <<j, Segments(w)[b]>>
      <4>1. i - a + b \in 1 .. Len(st)
        BY <3>0, <3>1, <3>3, <1>6
      <4> QED BY <4>1, <3>1, <1>4, Zenon
    <3>5. i - a + Frags[w] <= Len(tt)
      BY <3>0, <3>1, <3>3, <1>1, <1>4, <1>6
    <3> QED BY <3>1, <3>2, <3>4, <3>5, Zenon DEF Part, j, w, a
  <2>2. CASE i > Len(st)
    <3> DEFINE a == i - Len(st)
    <3>1. a \in 1 .. F /\ i = Len(st) + a /\ i - a = Len(st)
      BY <2>2, <1>1, <1>4, <1>6
    <3> HIDE DEF a
    <3>2. /\ tt[i][1] = Len(q) + 1 /\ tt[i][2].data[1] = m /\ tt[i][2].data[2] = a
      BY <3>1, <1>2, <1>8
    <3>3. \A b \in 1 .. F : tt[i - a + b] = <<Len(q) + 1, Segments(m)[b]>>
      BY <3>1, <1>4, <1>5, Zenon
    <3>4. Len(q) + 1 \in 1 .. Len(p) /\ i - a >= 0 /\ i - a + F <= Len(tt)
      BY <3>1, <1>1, <1>4, <1>6, <1>9
    <3> QED BY <3>1, <3>2, <3>3, <3>4, <1>9 DEF Part, F
  <2> QED BY <2>1, <2>2, <1>6
<1>11. tt # <<>> /\ tt[1][1] = 1 /\ tt[1][2].data[2] = 1
  <2>0. tt # <<>> /\ 1 \in 1 .. F
    BY <1>1, <1>4, <1>6
  <2>1. CASE st = <<>>
    <3>1. Len(st) = 0 /\ Len(q) = 0
      BY <2>1, Zenon DEF StreamOK
    <3>2. tt[0 + 1][1] = 0 + 1 /\ tt[0 + 1][2] = Segments(m)[1]
      BY <2>0, <3>1, <1>8, Zenon
    <3> QED BY <2>0, <3>2, <1>2
  <2>2. CASE st # <<>>
    <3>1. 1 \in 1 .. Len(st)
      BY <2>2 DEF Stream
    <3> QED BY <2>0, <2>2, <3>1, <1>4, Zenon DEF StreamOK
  <2> QED BY <2>1, <2>2, Zenon
<1>12. tt[Len(tt)][1] = Len(p) /\ tt[Len(tt)][2].frg = 0
  <2>1. F \in 1 .. F /\ F - F = 0
    BY <1>1
  <2> QED BY <2>1, <1>2, <1>4, <1>8, <1>9
<1>13. ASSUME NEW i \in 1 .. Len(tt) - 1, tt[i][2].frg = 0
       PROVE  tt[i + 1][1] = tt[i][1] + 1 /\ tt[i + 1][2].data[2] = 1
  <2>1. CASE i < Len(st)
    <3>1. i \in 1 .. Len(st) - 1 /\ i \in 1 .. Len(st) /\ i + 1 \in 1 .. Len(st)
      BY <2>1, <1>6
    <3>2. tt[i] = st[i] /\ tt[i + 1] = st[i + 1]
      BY <3>1, <1>4, Zenon
    <3> QED BY <3>1, <3>2, <1>13, Zenon DEF StreamOK
  <2>2. CASE i = Len(st)
    <3>1. st # <<>> /\ i \in 1 .. Len(st) /\ 1 \in 1 .. F
      BY <2>2, <1>1, <1>6
    <3>2. tt[i][1] = Len(q)
      BY <2>2, <3>1, <1>4, Zenon DEF StreamOK
    <3>3. tt[i + 1][1] = Len(q) + 1 /\ tt[i + 1][2].data[2] = 1
      BY <2>2, <3>1, <1>2, <1>8, Zenon
    <3> QED BY <3>2, <3>3, Zenon
  <2>3. CASE i > Len(st)
    <3> DEFINE a == i - Len(st)
    <3>1. a \in 1 .. F /\ i = Len(st) + a /\ a < F
      BY <2>3, <1>1, <1>4, <1>6
    <3> HIDE DEF a
    <3>2. tt[i][2].frg = F - a
      BY <3>1, <1>2, <1>8, Zenon
    <3> QED BY <3>1, <3>2, <1>1, <1>13
  <2> QED BY <2>1, <2>2, <2>3, <1>6
<1>14. StreamOK(tt, p)
  BY <1>10, <1>11, <1>12, <1>13 DEF StreamOK
<1> QED BY <1>14 DEF p

-----------------------------------------------------------------------------
(* the two peers and the network *)


TypeOK ==
  /\ kcp \in [Node -> Block]
  /\ net \subseteq Datagrams
  /\ said \in [Node -> Seq(Wholes)]
  /\ stream \in [Node -> Stream]
  /\ heard \in [Node -> Seq(Wholes)]

KInv ==
  /\ TypeOK
  /\ \A n \in Node : kcp[n].snd_wnd = SndWnd[n] /\ kcp[n].rcv_wnd = RcvWnd[n]
  /\ \A n \in Node : StreamOK(stream[n], said[n])
  /\ \A n \in Node : SndOK(kcp[n], stream[n])
  /\ \A n \in Node : RcvOK(kcp[n], stream[Peer(n)], kcp[Peer(n)].snd_nxt)
  /\ \A n \in Node : \A sn \in kcp[n].acklist : Holds(kcp[n], sn)
  /\ \A n \in Node : \A d \in net : d.to = Peer(n) => NetOK(d, kcp[n], stream[n])
  /\ \A n \in Node : ReadOK(Read(kcp[n]), heard[n], stream[Peer(n)])
  /\ AckedIsHeld
-----------------------------------------------------------------------------
\* The other peer.
LEMMA PeerOK ==
  ASSUME NEW n \in Node
  PROVE  Peer(n) \in Node /\ Peer(n) # n /\ Peer(Peer(n)) = n /\ \A o \in Node : o = n \/ o = Peer(n)
BY KcpAssumption DEF Node, Peer

\* A step of n keeps the invariant when its own block, its stream, what it reads
\* and the datagrams it adds are in order, and it frees only what its peer holds.
LEMMA StepOK ==
  ASSUME KInv, NEW n \in Node, NEW l \in Block, kcp' = [kcp EXCEPT ![n] = l],
         NEW st \in Stream, stream' = [stream EXCEPT ![n] = st], Grown(stream[n], st),
         NEW q \in Seq(Wholes), said' = [said EXCEPT ![n] = q],
         NEW h \in Seq(Wholes), heard' = [heard EXCEPT ![n] = h],
         l.snd_wnd = kcp[n].snd_wnd, l.rcv_wnd = kcp[n].rcv_wnd, l.snd_nxt >= kcp[n].snd_nxt,
         StreamOK(st, q), SndOK(l, st),
         RcvOK(l, stream[Peer(n)], kcp[Peer(n)].snd_nxt),
         \A sn \in l.acklist : Holds(l, sn),
         \A sn \in Nat : Holds(kcp[n], sn) => Holds(l, sn),
         ReadOK(Read(l), h, stream[Peer(n)]),
         net' \subseteq Datagrams,
         \A d \in net' : d \in net \/ (d.to = Peer(n) /\ NetOK(d, l, st)),
         \A sn \in Nat : sn < l.snd_nxt => sn \in Sns(l.snd_buf) \/ Holds(kcp[Peer(n)], sn)
  PROVE  KInv'
<1> DEFINE p == Peer(n)
           k == kcp[n]
           kp == kcp[p]
<1>1. p \in Node /\ p # n /\ Peer(p) = n /\ Peer(n) = p /\ \A o \in Node : o = n \/ o = p
  BY PeerOK, Zenon
<1> HIDE DEF p
<1>2. /\ kcp \in [Node -> Block] /\ stream \in [Node -> Stream]
      /\ said \in [Node -> Seq(Wholes)] /\ heard \in [Node -> Seq(Wholes)]
  BY Zenon DEF KInv, TypeOK
<1>3. /\ kcp'[n] = l /\ kcp'[p] = kp /\ stream'[n] = st /\ stream'[p] = stream[p]
      /\ said'[n] = q /\ said'[p] = said[p] /\ heard'[n] = h /\ heard'[p] = heard[p]
  BY <1>1, <1>2
<1>4. TypeOK'
  BY <1>2 DEF TypeOK
<1>5. k \in Block /\ kp \in Block /\ stream[n] \in Stream /\ stream[p] \in Stream
  BY <1>1, <1>2
<1>6. /\ k.snd_nxt \in Nat /\ l.snd_nxt \in Nat /\ k.snd_nxt <= Len(stream[n])
  <2>1. k.snd_nxt \in Nat /\ l.snd_nxt \in Nat /\ k.snd_queue \in Seq(Frag)
    BY <1>5, Zenon DEF Block
  <2>2. Len(stream[n]) = k.snd_nxt + Len(k.snd_queue)
    BY Zenon DEF KInv, SndOK
  <2> QED BY <2>1, <2>2
<1>7. \A o \in Node : kcp'[o].snd_wnd = SndWnd[o] /\ kcp'[o].rcv_wnd = RcvWnd[o]
  BY <1>1, <1>3 DEF KInv
<1>8. \A o \in Node : StreamOK(stream'[o], said'[o])
  BY <1>1, <1>3 DEF KInv
<1>9. \A o \in Node : SndOK(kcp'[o], stream'[o])
  BY <1>1, <1>3 DEF KInv
<1>10. \A o \in Node : RcvOK(kcp'[o], stream'[Peer(o)], kcp'[Peer(o)].snd_nxt)
  <2>1. RcvOK(kp, stream[n], k.snd_nxt)
    BY <1>1 DEF KInv
  <2> HIDE DEF k, kp
  <2>2. RcvOK(kp, st, l.snd_nxt)
    BY <2>1, <1>5, <1>6, RcvStable, Zenon DEF k
  <2> QED BY <2>2, <1>1, <1>3 DEF kp
<1>11. \A o \in Node : \A sn \in kcp'[o].acklist : Holds(kcp'[o], sn)
  BY <1>1, <1>3 DEF KInv
<1>12. ASSUME NEW o \in Node, NEW d \in net', d.to = Peer(o)
       PROVE  NetOK(d, kcp'[o], stream'[o])
  <2>0. d \in Datagrams
    BY <1>12, Zenon
  <2>1. CASE d \in net
    <3>1. NetOK(d, kcp[o], stream[o])
      BY <2>1, <1>12 DEF KInv
    <3>2. CASE o = n
      <4>1. NetOK(d, l, st)
        BY <2>0, <3>1, <3>2, <1>5, <1>6, NetStable, Zenon
      <4> QED BY <4>1, <3>2, <1>3
    <3>3. CASE o = p
      BY <3>1, <3>3, <1>3, Zenon
    <3> QED BY <3>2, <3>3, <1>1, Zenon
  <2>2. CASE d \notin net
    <3>1. d.to = p /\ NetOK(d, l, st)
      BY <2>2, <1>1
    <3>2. o = n
      BY <3>1, <1>1, <1>12, Zenon
    <3> QED BY <3>1, <3>2, <1>3, Zenon
  <2> QED BY <2>1, <2>2, Zenon
<1>13. \A o \in Node : ReadOK(Read(kcp'[o]), heard'[o], stream'[Peer(o)])
  <2>1. ReadOK(Read(kp), heard[p], stream[n]) /\ RcvOK(kp, stream[n], k.snd_nxt)
    BY <1>1, Zenon DEF KInv
  <2>2. Read(kp) \in Nat /\ Read(kp) <= Len(stream[n])
    <3>1. kp.rcv_nxt \in Nat /\ kp.rcv_queue \in Seq(Push)
      BY <1>5, Zenon DEF Block
    <3>2. Len(kp.rcv_queue) <= kp.rcv_nxt /\ kp.rcv_nxt <= k.snd_nxt
      BY <2>1, Zenon DEF RcvOK
    <3>3. Len(kp.rcv_queue) \in Nat /\ Len(stream[n]) \in Nat
      BY <3>1, <1>5 DEF Stream
    <3> HIDE DEF k, kp
    <3> QED BY <3>1, <3>2, <3>3, <1>6 DEF Read, k
  <2>3. ReadOK(Read(kp), heard[p], st)
    BY <2>1, <2>2, <1>5, ReadStable, Zenon
  <2> QED BY <2>3, <1>1, <1>3, Zenon
<1>14. AckedIsHeld'
  <2>1. ASSUME NEW sn \in Nat, sn < kp.snd_nxt
        PROVE  sn \in Sns(kp.snd_buf) \/ Holds(l, sn)
    <3>1. kp.snd_nxt \in Nat
      BY <1>5, Zenon DEF Block
    <3>2. sn \in 0 .. kp.snd_nxt - 1
      BY <2>1, <3>1
    <3>3. sn \in Sns(kp.snd_buf) \/ Holds(k, sn)
      BY <3>2, <1>1, Zenon DEF KInv, AckedIsHeld, InFlight, Holds
    <3> QED BY <3>3, Zenon
  <2>2. ASSUME NEW o \in Node, NEW sn \in Nat, sn < kcp'[o].snd_nxt
        PROVE  sn \in Sns(kcp'[o].snd_buf) \/ Holds(kcp'[Peer(o)], sn)
    BY <2>1, <2>2, <1>1, <1>3
  <2>3. \A o \in Node : kcp'[o].snd_nxt \in Nat
    BY <1>4, Zenon DEF TypeOK, Block
  <2>4. ASSUME NEW o \in Node, NEW sn \in 0 .. kcp'[o].snd_nxt - 1
        PROVE  sn \in Sns(kcp'[o].snd_buf) \/ Holds(kcp'[Peer(o)], sn)
    BY <2>2, <2>3
  <2> QED BY <2>4, Zenon DEF AckedIsHeld, InFlight, Holds
<1> QED BY <1>4, <1>7, <1>8, <1>9, <1>10, <1>11, <1>12, <1>13, <1>14, Zenon DEF KInv
\* What the invariant says of a peer n and its block.
LEMMA AtNode ==
  ASSUME KInv, NEW n \in Node
  PROVE  /\ kcp[n] \in Block /\ stream[n] \in Stream
         /\ said[n] \in Seq(Wholes) /\ heard[n] \in Seq(Wholes)
         /\ kcp[Peer(n)] \in Block /\ stream[Peer(n)] \in Stream /\ said[Peer(n)] \in Seq(Wholes)
         /\ kcp[Peer(n)].snd_nxt \in Nat /\ kcp[Peer(n)].snd_nxt <= Len(stream[Peer(n)])
         /\ StreamOK(stream[n], said[n]) /\ StreamOK(stream[Peer(n)], said[Peer(n)])
         /\ SndOK(kcp[n], stream[n])
         /\ RcvOK(kcp[n], stream[Peer(n)], kcp[Peer(n)].snd_nxt)
         /\ \A sn \in kcp[n].acklist : Holds(kcp[n], sn)
         /\ ReadOK(Read(kcp[n]), heard[n], stream[Peer(n)])
         /\ \A sn \in Nat : sn < kcp[n].snd_nxt => sn \in Sns(kcp[n].snd_buf) \/ Holds(kcp[Peer(n)], sn)
         /\ Grown(stream[n], stream[n])
<1>1. Peer(n) \in Node
  BY PeerOK, Zenon
<1>2. /\ kcp[n] \in Block /\ stream[n] \in Stream
      /\ said[n] \in Seq(Wholes) /\ heard[n] \in Seq(Wholes)
      /\ kcp[Peer(n)] \in Block /\ stream[Peer(n)] \in Stream /\ said[Peer(n)] \in Seq(Wholes)
  BY <1>1, Zenon DEF KInv, TypeOK
<1>3. kcp[Peer(n)].snd_nxt \in Nat /\ kcp[Peer(n)].snd_nxt <= Len(stream[Peer(n)])
  <2>1. kcp[Peer(n)].snd_nxt \in Nat /\ kcp[Peer(n)].snd_queue \in Seq(Frag)
    BY <1>2, Zenon DEF Block
  <2>2. Len(stream[Peer(n)]) = kcp[Peer(n)].snd_nxt + Len(kcp[Peer(n)].snd_queue)
    BY <1>1, Zenon DEF KInv, SndOK
  <2> QED BY <2>1, <2>2
<1>4. ASSUME NEW sn \in Nat, sn < kcp[n].snd_nxt
      PROVE  sn \in Sns(kcp[n].snd_buf) \/ Holds(kcp[Peer(n)], sn)
  <2>1. kcp[n].snd_nxt \in Nat
    BY <1>2, Zenon DEF Block
  <2>2. sn \in 0 .. kcp[n].snd_nxt - 1
    BY <1>4, <2>1
  <2> QED BY <2>2, Zenon DEF KInv, AckedIsHeld, InFlight, Holds
<1>5. Grown(stream[n], stream[n])
  BY <1>2 DEF Grown, Stream
<1> QED BY <1>1, <1>2, <1>3, <1>4, <1>5, Zenon DEF KInv

\* likcp_recv returns the next message of the peer.
LEMMA RecvStep ==
  ASSUME KInv, NEW n \in Node, Recv(n)
  PROVE  /\ KInv'
         /\ Len(heard[n]) + 1 \in 1 .. Len(said[Peer(n)])
         /\ heard'[n] = Append(heard[n], said[Peer(n)][Len(heard[n]) + 1])
<1> DEFINE k == kcp[n]
           l == ikcp_recv(k)
           st == stream[Peer(n)]
           top == kcp[Peer(n)].snd_nxt
           F == First(k.rcv_queue)
           h == Append(heard[n], Received(k))
<1>1. /\ k \in Block /\ stream[n] \in Stream /\ said[n] \in Seq(Wholes) /\ heard[n] \in Seq(Wholes)
      /\ st \in Stream /\ said[Peer(n)] \in Seq(Wholes) /\ top \in Nat /\ top <= Len(st)
      /\ StreamOK(st, said[Peer(n)]) /\ StreamOK(stream[n], said[n]) /\ SndOK(k, stream[n])
      /\ RcvOK(k, st, top) /\ ReadOK(Read(k), heard[n], st)
      /\ \A sn \in k.acklist : Holds(k, sn)
      /\ \A sn \in Nat : sn < k.snd_nxt => sn \in Sns(k.snd_buf) \/ Holds(kcp[Peer(n)], sn)
      /\ Grown(stream[n], stream[n])
  BY AtNode
<1>2. ikcp_peeksize(k) /\ heard' = [heard EXCEPT ![n] = h] /\ kcp' = [kcp EXCEPT ![n] = l]
      /\ net' = net /\ said' = said /\ stream' = stream
  BY Zenon DEF Recv
<1> HIDE DEF k, st, top
<1>3. /\ F \in Nat /\ F <= Len(k.rcv_queue)
      /\ Len(heard[n]) + 1 \in 1 .. Len(said[Peer(n)])
      /\ Received(k) = said[Peer(n)][Len(heard[n]) + 1]
      /\ ReadOK(Read(k) + F, h, st)
  BY <1>1, <1>2, FirstOK, Zenon
<1>4. /\ l \in Block /\ RcvOK(l, st, top)
      /\ SameSnd(k, l) /\ l.rcv_wnd = k.rcv_wnd /\ l.acklist = k.acklist
      /\ Read(l) = Read(k) + F
      /\ \A sn \in Nat : Holds(k, sn) => Holds(l, sn)
  BY <1>1, <1>3, RecvOK, Zenon
<1>5. Received(k) \in Wholes
  BY <1>1, <1>3
<1>6. h \in Seq(Wholes)
  BY <1>1, <1>5
<1>7. heard \in [Node -> Seq(Wholes)] /\ said \in [Node -> Seq(Wholes)]
      /\ stream \in [Node -> Stream] /\ net \subseteq Datagrams /\ k.acklist \subseteq Nat
  BY <1>1, Zenon DEF KInv, TypeOK, Block
<1> HIDE DEF l, h, F
<1>8. /\ SndOK(l, stream[n]) /\ l.snd_wnd = k.snd_wnd /\ l.snd_nxt >= k.snd_nxt
      /\ l.snd_nxt = k.snd_nxt /\ l.snd_buf = k.snd_buf
  <2>1. SameSnd(k, l) /\ SndOK(k, stream[n]) /\ k.snd_nxt \in Nat
    BY <1>1, <1>4 DEF Block
  <2>2. /\ l.snd_una = k.snd_una /\ l.snd_nxt = k.snd_nxt /\ l.snd_wnd = k.snd_wnd
        /\ l.snd_queue = k.snd_queue /\ l.snd_buf = k.snd_buf
    BY <2>1, Zenon DEF SameSnd
  <2>3. SndOK(l, stream[n])
    BY <2>1, <2>2, Zenon DEF SndOK
  <2>4. l.snd_nxt >= k.snd_nxt
    BY <2>1, <2>2
  <2> QED
    BY <2>2, <2>3, <2>4, Zenon
<1>9. stream' = [stream EXCEPT ![n] = stream[n]] /\ said' = [said EXCEPT ![n] = said[n]]
  BY <1>2, <1>7, Zenon
<1>10. \A sn \in l.acklist : Holds(l, sn)
  BY <1>1, <1>4, <1>7, Zenon
<1>11. ReadOK(Read(l), h, st)
  BY <1>3, <1>4, Zenon
<1>12. \A sn \in Nat : sn < l.snd_nxt => sn \in Sns(l.snd_buf) \/ Holds(kcp[Peer(n)], sn)
  BY <1>1, <1>8
<1>13. KInv'
  <2>1. net' \subseteq Datagrams /\ \A d \in net' : d \in net
    BY <1>2, <1>7, Zenon
  <2> QED BY <1>1, <1>2, <1>4, <1>6, <1>8, <1>9, <1>10, <1>11, <1>12, <2>1, StepOK, Zenon DEF k, st, top
<1>14. heard'[n] = h
  BY <1>2, <1>7
<1> QED BY <1>3, <1>13, <1>14, Zenon DEF h
\* likcp_send appends a message to what is to be sent.
LEMMA SendStep ==
  ASSUME KInv, NEW n \in Node, NEW m \in Msg, Send(n, m)
  PROVE  KInv'
<1> DEFINE k == kcp[n]
           l == ikcp_send(k, m)
           F == Frags[m]
           q == Append(said[n], Whole(m))
           part == [i \in 1 .. F |-> <<Len(said[n]) + 1, Segments(m)[i]>>]
           st == stream[n] \o part
<1>1. /\ k \in Block /\ stream[n] \in Stream /\ said[n] \in Seq(Wholes) /\ heard[n] \in Seq(Wholes)
      /\ StreamOK(stream[n], said[n]) /\ SndOK(k, stream[n])
      /\ RcvOK(k, stream[Peer(n)], kcp[Peer(n)].snd_nxt) /\ ReadOK(Read(k), heard[n], stream[Peer(n)])
      /\ \A sn \in k.acklist : Holds(k, sn)
      /\ \A sn \in Nat : sn < k.snd_nxt => sn \in Sns(k.snd_buf) \/ Holds(kcp[Peer(n)], sn)
  BY AtNode, Zenon
<1>2. heard \in [Node -> Seq(Wholes)] /\ said \in [Node -> Seq(Wholes)]
      /\ stream \in [Node -> Stream] /\ net \subseteq Datagrams
  BY Zenon DEF KInv, TypeOK
<1>3. F \in Nat \ {0} /\ Segments(m) \in [1 .. F -> Frag]
  <2>1. F \in Nat \ {0}
    BY KcpAssumption
  <2>2. \A i \in 1 .. F : [frg |-> F - i, data |-> <<m, i>>] \in Frag
    BY <2>1 DEF Frag
  <2> QED BY <2>1, <2>2 DEF Segments
<1>4. q \in Seq(Wholes) /\ Len(q) = Len(said[n]) + 1
  BY <1>1 DEF Wholes
<1>5. said' = [said EXCEPT ![n] = q] /\ said'[n] = q
  BY <1>2, Zenon DEF Send
<1>6. stream' = [stream EXCEPT ![n] = st] /\ kcp' = [kcp EXCEPT ![n] = l] /\ net' = net /\ heard' = heard
  <2>1. Len(said'[n]) = Len(said[n]) + 1
    BY <1>4, <1>5, Zenon
  <2>2. [i \in 1 .. F |-> <<Len(said'[n]), Segments(m)[i]>>] = part
    BY <2>1, Zenon
  <2>3. stream' = [stream EXCEPT ![n] = stream[n] \o [i \in 1 .. F |-> <<Len(said'[n]), Segments(m)[i]>>]]
    BY Zenon DEF Send
  <2> HIDE DEF part
  <2> QED BY <2>2, <2>3, Zenon DEF Send
<1> HIDE DEF F
<1>7. part \in [1 .. F -> Nat \X Frag]
  BY <1>1, <1>3
<1>8. \A i \in 1 .. F : part[i] = <<Len(said[n]) + 1, Segments(m)[i]>>
  BY Zenon
<1> HIDE DEF part
<1>9. /\ st \in Stream /\ Len(st) = Len(stream[n]) + F
      /\ \A i \in 1 .. Len(stream[n]) : st[i] = stream[n][i]
      /\ \A i \in 1 .. F : st[Len(stream[n]) + i] = part[i]
  <2>1. stream[n] \in Seq(Nat \X Frag) /\ F \in Nat
    BY <1>1, <1>3, Zenon DEF Stream
  <2> DEFINE s == stream[n]
             X == Nat \X Frag
  <2>2. s \in Seq(X) /\ F \in Nat /\ part \in [1 .. F -> X]
    BY <2>1, <1>7, Zenon
  <2> HIDE DEF s, X
  <2>3. /\ s \o part \in Seq(X) /\ Len(s \o part) = Len(s) + F
        /\ \A i \in 1 .. Len(s) : (s \o part)[i] = s[i]
        /\ \A i \in 1 .. F : (s \o part)[Len(s) + i] = part[i]
    BY <2>2, ConcatOK, SMTT(30)
  <2> QED BY <2>3, Zenon DEF Stream, s, X
<1> HIDE DEF st
<1>10. StreamOK(st, q)
  BY <1>1, <1>8, <1>9, StreamAppend, Zenon DEF F
<1>11. Grown(stream[n], st)
  <2>1. Len(stream[n]) \in Nat
    BY <1>1 DEF Stream
  <2> QED BY <2>1, <1>3, <1>9 DEF Grown
<1> DEFINE more == k.snd_queue \o Segments(m)
<1>12. /\ more \in Seq(Frag) /\ Len(more) = Len(k.snd_queue) + F
       /\ \A i \in 1 .. Len(k.snd_queue) : more[i] = k.snd_queue[i]
       /\ \A i \in 1 .. F : more[Len(k.snd_queue) + i] = Segments(m)[i]
  <2>1. k.snd_queue \in Seq(Frag)
    BY <1>1, Zenon DEF Block
  <2> HIDE DEF k
  <2> QED BY <1>3, <2>1, ConcatOK
<1>13. l = [k EXCEPT !.snd_queue = more]
  BY Zenon DEF ikcp_send
<1> HIDE DEF more, k
<1>14. l \in Block
  BY <1>1, <1>12, <1>13, Zenon DEF Block
<1>15. /\ l.snd_queue = more /\ l.snd_nxt = k.snd_nxt /\ l.snd_una = k.snd_una /\ l.snd_buf = k.snd_buf
       /\ l.snd_wnd = k.snd_wnd /\ l.acklist = k.acklist /\ SameRcv(k, l)
  BY <1>1, <1>13, Zenon DEF Block, SameRcv
<1> HIDE DEF l
<1>16. /\ k.snd_nxt \in Nat /\ k.snd_una \in Nat /\ Len(k.snd_queue) \in Nat
       /\ Len(stream[n]) = k.snd_nxt + Len(k.snd_queue) /\ k.snd_nxt <= Len(stream[n])
  <2>1. /\ k.snd_nxt \in Nat /\ k.snd_una \in Nat /\ Len(k.snd_queue) \in Nat
    BY <1>1 DEF Block
  <2> QED BY <1>1, <2>1 DEF SndOK
<1>17. SndOK(l, st)
  <2>1. Len(st) = l.snd_nxt + Len(l.snd_queue)
    <3>1. Len(l.snd_queue) = Len(k.snd_queue) + F /\ F \in Nat
      BY <1>3, <1>12, <1>15, Zenon
    <3>2. Len(st) = k.snd_nxt + Len(k.snd_queue) + F
      BY <1>9, <1>16, Zenon
    <3> QED BY <3>1, <3>2, <1>15, <1>16
  <2>2. ASSUME NEW i \in 1 .. Len(l.snd_queue) PROVE l.snd_queue[i] = st[l.snd_nxt + i][2]
    <3>1. CASE i <= Len(k.snd_queue)
      <4>1. i \in 1 .. Len(k.snd_queue) /\ k.snd_nxt + i \in 1 .. Len(stream[n])
        BY <3>1, <1>16
      <4>2. k.snd_queue[i] = stream[n][k.snd_nxt + i][2]
        BY <4>1, <1>1 DEF SndOK
      <4> QED BY <4>1, <4>2, <1>9, <1>12, <1>15, Zenon
    <3>2. CASE i > Len(k.snd_queue)
      <4> DEFINE a == i - Len(k.snd_queue)
      <4>1. a \in 1 .. F /\ i = Len(k.snd_queue) + a /\ k.snd_nxt + i = Len(stream[n]) + a
        BY <3>2, <1>3, <1>12, <1>15, <1>16
      <4> HIDE DEF a
      <4>2. more[i] = Segments(m)[a] /\ st[k.snd_nxt + i] = <<Len(said[n]) + 1, Segments(m)[a]>>
        BY <4>1, <1>8, <1>9, <1>12, Zenon
      <4> QED BY <4>2, <1>15
    <3> QED BY <3>1, <3>2, <1>16
  <2>3. ASSUME NEW s \in l.snd_buf PROVE s.sn >= l.snd_una /\ Carries(s, st, l.snd_nxt)
    <3>1. s.sn >= k.snd_una /\ Carries(s, stream[n], k.snd_nxt) /\ s.sn \in Nat
      BY <1>1, <1>15 DEF SndOK, Block, SndSeg
    <3>2. Carries(s, st, k.snd_nxt)
      BY <3>1, <1>1, <1>9, <1>11, <1>16, CarriesStable
    <3> QED BY <3>1, <3>2, <1>15, Zenon
  <2>4. l.snd_una <= l.snd_nxt /\ l.snd_nxt - l.snd_una <= l.snd_wnd
    BY <1>1, <1>15, Zenon DEF SndOK
  <2> QED BY <2>1, <2>2, <2>3, <2>4, Zenon DEF SndOK
<1>18. /\ RcvOK(l, stream[Peer(n)], kcp[Peer(n)].snd_nxt) /\ Read(l) = Read(k)
       /\ \A sn : Holds(k, sn) <=> Holds(l, sn)
  BY <1>1, <1>15, Zenon DEF RcvOK, SameRcv, Read, Holds
<1>19. heard' = [heard EXCEPT ![n] = heard[n]]
  BY <1>2, <1>6, Zenon
<1>20. /\ \A sn \in l.acklist : Holds(l, sn)
       /\ ReadOK(Read(l), heard[n], stream[Peer(n)])
       /\ \A sn \in Nat : sn < l.snd_nxt => sn \in Sns(l.snd_buf) \/ Holds(kcp[Peer(n)], sn)
       /\ l.snd_nxt >= k.snd_nxt /\ l.rcv_wnd = k.rcv_wnd
  BY <1>1, <1>15, <1>16, <1>18 DEF SameRcv
<1>21. net' \subseteq Datagrams /\ \A d \in net' : d \in net
  BY <1>2, <1>6, Zenon
<1> HIDE DEF q
<1> QED BY <1>1, <1>4, <1>5, <1>6, <1>9, <1>10, <1>11, <1>14, <1>15, <1>17, <1>18, <1>19, <1>20, <1>21, StepOK, Zenon DEF k
\* likcp_input frees what the peer says it holds, and keeps what it acknowledges.
LEMMA InputStep ==
  ASSUME KInv, NEW n \in Node, NEW d \in net, NEW again \in BOOLEAN, Input(n, d, again)
  PROVE  KInv'
<1> DEFINE p == Peer(n)
           k == kcp[n]
           kp == kcp[p]
<1>1. PICK more \in BOOLEAN : kcp' = [kcp EXCEPT ![n] = ikcp_input(k, d, more)]
  BY Zenon DEF Input
<1> DEFINE l == ikcp_input(k, d, more)
<1>2. /\ k \in Block /\ stream[n] \in Stream /\ said[n] \in Seq(Wholes) /\ heard[n] \in Seq(Wholes)
      /\ stream[p] \in Stream /\ kp.snd_nxt \in Nat
      /\ StreamOK(stream[n], said[n]) /\ SndOK(k, stream[n])
      /\ RcvOK(k, stream[p], kp.snd_nxt) /\ ReadOK(Read(k), heard[n], stream[p])
      /\ \A sn \in k.acklist : Holds(k, sn)
      /\ \A sn \in Nat : sn < k.snd_nxt => sn \in Sns(k.snd_buf) \/ Holds(kp, sn)
      /\ Grown(stream[n], stream[n])
  BY AtNode, Zenon
<1>3. heard \in [Node -> Seq(Wholes)] /\ said \in [Node -> Seq(Wholes)]
      /\ stream \in [Node -> Stream] /\ net \subseteq Datagrams
  BY Zenon DEF KInv, TypeOK
<1>4. NetOK(d, kp, stream[p]) /\ d \in Datagrams
  <2>1. p \in Node /\ d.to = Peer(p)
    BY PeerOK DEF Input
  <2> QED BY <2>1, <1>3 DEF KInv
<1> HIDE DEF k, kp, p
<1>5. d.push # NoSeg => Carries(d.push, stream[p], kp.snd_nxt)
  BY <1>4 DEF NetOK
<1>6. /\ l \in Block /\ SndOK(l, stream[n]) /\ RcvOK(l, stream[p], kp.snd_nxt)
      /\ l.snd_nxt = k.snd_nxt /\ l.snd_wnd = k.snd_wnd /\ l.rcv_wnd = k.rcv_wnd
      /\ Read(l) = Read(k)
      /\ \A sn \in Nat : Holds(k, sn) => Holds(l, sn)
      /\ \A sn \in l.acklist : Holds(l, sn)
      /\ \A sn \in Sns(k.snd_buf) : sn \in Sns(l.snd_buf) \/ sn < d.una \/ sn \in d.acks
  BY <1>2, <1>4, <1>5, InputOK, Zenon
<1> HIDE DEF l
<1>7. ASSUME NEW sn \in Nat, sn < l.snd_nxt
      PROVE  sn \in Sns(l.snd_buf) \/ Holds(kp, sn)
  <2>1. CASE sn \in Sns(k.snd_buf)
    BY <2>1, <1>4, <1>6 DEF NetOK
  <2>2. CASE Holds(kp, sn)
    BY <2>2, Zenon
  <2> QED BY <2>1, <2>2, <1>2, <1>6, <1>7, Zenon
<1>8. /\ stream' = [stream EXCEPT ![n] = stream[n]] /\ said' = [said EXCEPT ![n] = said[n]]
      /\ heard' = [heard EXCEPT ![n] = heard[n]]
  BY <1>3 DEF Input
<1>9. net' \subseteq Datagrams /\ \A e \in net' : e \in net
  BY <1>3, Zenon DEF Input
<1>10. l.snd_nxt >= k.snd_nxt /\ ReadOK(Read(l), heard[n], stream[p])
  BY <1>2, <1>6 DEF Block
<1>11. kcp' = [kcp EXCEPT ![n] = l]
  BY <1>1, Zenon DEF l
<1> QED BY <1>2, <1>6, <1>7, <1>8, <1>9, <1>10, <1>11, StepOK, Zenon DEF k, kp, p

\* What a flush sends is true of the block it leaves.
LEMMA OutputOK ==
  ASSUME KInv, NEW n \in Node, NEW expired, NEW due, NEW d \in Output(n, expired, due)
  PROVE  /\ d \in Datagrams /\ d.to = Peer(n)
         /\ NetOK(d, ikcp_flush(kcp[n], expired), stream[n])
<1> DEFINE k == kcp[n]
           t == Taken(k)
           l == ikcp_flush(k, expired)
           st == stream[n]
<1>1. /\ k \in Block /\ st \in Stream /\ SndOK(k, st) /\ Peer(n) \in Node
      /\ RcvOK(k, stream[Peer(n)], kcp[Peer(n)].snd_nxt)
      /\ \A sn \in k.acklist : Holds(k, sn)
  BY AtNode, PeerOK, Zenon
<1> HIDE DEF k, st
<1>2. Sent(k, t, st) /\ Sent(k, l, st) /\ l.snd_nxt = t.snd_nxt
  BY <1>1, FlushOK, Zenon
<1> HIDE DEF t, l
<1>3. k.rcv_wnd - Len(k.rcv_queue) \in Nat /\ k.rcv_nxt \in Nat /\ k.acklist \subseteq Nat
  <2>1. k.rcv_wnd \in Nat /\ Len(k.rcv_queue) \in Nat /\ k.rcv_nxt \in Nat /\ k.acklist \subseteq Nat
    BY <1>1 DEF Block
  <2>2. Len(k.rcv_queue) <= k.rcv_wnd
    BY <1>1, Zenon DEF RcvOK
  <2> QED BY <2>1, <2>2
<1>4. \A sn : Holds(k, sn) <=> Holds(l, sn)
  BY <1>2, Zenon DEF Sent, SameRcv, Holds
<1>5. \A sn \in Nat : sn < k.rcv_nxt => Holds(l, sn)
  BY <1>4, Zenon DEF Holds
<1>6. CASE d \in Answers(n, due)
  <2> DEFINE ask == AskSend(k, due)
  <2>0. ask \in BOOLEAN
    BY Zenon DEF AskSend
  <2>1. d = [to |-> Peer(n), wnd |-> k.rcv_wnd - Len(k.rcv_queue), una |-> k.rcv_nxt,
             acks |-> k.acklist, ask |-> ask, push |-> NoSeg]
    BY <1>6, Zenon DEF Answers, Datagram, k
  <2> HIDE DEF ask
  <2>2. d \in Datagrams /\ d.to = Peer(n) /\ d.una = k.rcv_nxt /\ d.acks = k.acklist /\ d.push = NoSeg
    BY <1>1, <1>3, <2>0, <2>1, Zenon DEF Datagrams
  <2>3. NetOK(d, l, st)
    BY <1>1, <1>4, <1>5, <2>2 DEF NetOK
  <2> QED BY <2>2, <2>3, Zenon DEF l, k, st
<1>7. CASE d \in Pushes(n, expired)
  <2>1. PICK s \in t.snd_buf :
          d = [to |-> Peer(n), wnd |-> k.rcv_wnd - Len(k.rcv_queue), una |-> k.rcv_nxt,
               acks |-> {}, ask |-> FALSE, push |-> [sn |-> s.sn, frg |-> s.frg, data |-> s.data]]
    BY <1>7, Zenon DEF Pushes, Datagram, k, t
  <2> DEFINE g == [sn |-> s.sn, frg |-> s.frg, data |-> s.data]
  <2>2. s \in SndSeg /\ Carries(s, st, l.snd_nxt)
    BY <1>2, Zenon DEF Sent, SndOK, Block
  <2>3. g \in Push /\ g.sn = s.sn /\ g.frg = s.frg /\ g.data = s.data
    BY <2>2, Zenon DEF SndSeg, Push
  <2>4. d = [to |-> Peer(n), wnd |-> k.rcv_wnd - Len(k.rcv_queue), una |-> k.rcv_nxt,
             acks |-> {}, ask |-> FALSE, push |-> g]
    BY <2>1, Zenon
  <2> HIDE DEF g
  <2>5. d \in Datagrams /\ d.to = Peer(n) /\ d.una = k.rcv_nxt /\ d.acks = {} /\ d.push = g
    BY <1>1, <1>3, <2>3, <2>4, Zenon DEF Datagrams
  <2>6. Carries(g, st, l.snd_nxt)
    BY <2>2, <2>3, Zenon DEF Carries
  <2>7. NetOK(d, l, st)
    BY <1>5, <2>3, <2>5, <2>6 DEF NetOK
  <2> QED BY <2>5, <2>7, Zenon DEF l, k, st
<1> QED BY <1>6, <1>7, Zenon DEF Output

\* likcp_update numbers segments and sends; it frees nothing.
LEMMA FlushStep ==
  ASSUME KInv, NEW n \in Node, NEW expired, NEW due, Flush(n, expired, due)
  PROVE  KInv'
<1> DEFINE k == kcp[n]
           l == ikcp_flush(k, expired)
           kp == kcp[Peer(n)]
           st == stream[n]
<1>1. PICK carried \in SUBSET (net \cup Output(n, expired, due)) : Update(n, expired, due, carried)
  BY DEF Flush
<1>2. /\ k \in Block /\ st \in Stream /\ said[n] \in Seq(Wholes) /\ heard[n] \in Seq(Wholes)
      /\ StreamOK(st, said[n]) /\ SndOK(k, st)
      /\ RcvOK(k, stream[Peer(n)], kp.snd_nxt) /\ ReadOK(Read(k), heard[n], stream[Peer(n)])
      /\ \A sn \in Nat : sn < k.snd_nxt => sn \in Sns(k.snd_buf) \/ Holds(kp, sn)
      /\ Grown(st, st)
  BY AtNode, Zenon
<1>3. heard \in [Node -> Seq(Wholes)] /\ said \in [Node -> Seq(Wholes)]
      /\ stream \in [Node -> Stream] /\ net \subseteq Datagrams
  BY Zenon DEF KInv, TypeOK
<1>4. \A d \in net' : d \in net \/ (d \in Datagrams /\ d.to = Peer(n) /\ NetOK(d, l, st))
  <2>1. ASSUME NEW d \in net', d \notin net PROVE d \in Output(n, expired, due)
    BY <1>1, <2>1 DEF Update
  <2> QED BY <2>1, OutputOK
<1>5. kcp' = [kcp EXCEPT ![n] = l]
  BY <1>1, Zenon DEF Update
<1> HIDE DEF k, kp, st
<1>6. Sent(k, l, st) /\ l.acklist = {}
  BY <1>2, FlushOK, Zenon
<1> HIDE DEF l
<1>7. /\ RcvOK(l, stream[Peer(n)], kp.snd_nxt) /\ Read(l) = Read(k)
      /\ \A sn : Holds(k, sn) <=> Holds(l, sn)
  BY <1>2, <1>6, Zenon DEF Sent, RcvOK, SameRcv, Read, Holds
<1>8. \A sn \in Nat : sn < l.snd_nxt => sn \in Sns(l.snd_buf) \/ Holds(kp, sn)
  BY <1>2, <1>6, Zenon DEF Sent
<1>9. /\ stream' = [stream EXCEPT ![n] = st] /\ said' = [said EXCEPT ![n] = said[n]]
      /\ heard' = [heard EXCEPT ![n] = heard[n]]
  BY <1>1, <1>3, Zenon DEF Update, st
<1>10. /\ l \in Block /\ SndOK(l, st) /\ l.snd_wnd = k.snd_wnd /\ l.rcv_wnd = k.rcv_wnd
       /\ l.snd_nxt >= k.snd_nxt
  BY <1>6 DEF Sent, SameRcv
<1>11. \A sn \in l.acklist : Holds(l, sn)
  BY <1>6
<1>12. net' \subseteq Datagrams
  BY <1>3, <1>4, Zenon
<1>13. ReadOK(Read(l), heard[n], stream[Peer(n)])
  BY <1>2, <1>7, Zenon
<1> QED BY <1>2, <1>4, <1>5, <1>7, <1>8, <1>9, <1>10, <1>11, <1>12, <1>13, StepOK, Zenon DEF k, kp, st
-----------------------------------------------------------------------------
\* Before anything is sent there is nothing to hold.
LEMMA KcpInit == Init => KInv
<1> SUFFICES ASSUME Init PROVE KInv
  BY Zenon
<1>1. ASSUME NEW n \in Node
      PROVE  /\ kcp[n] \in Block /\ kcp[n].snd_wnd = SndWnd[n] /\ kcp[n].rcv_wnd = RcvWnd[n]
             /\ kcp[n].snd_una = 0 /\ kcp[n].snd_nxt = 0 /\ kcp[n].rcv_nxt = 0
             /\ kcp[n].snd_queue = <<>> /\ kcp[n].rcv_queue = <<>>
             /\ kcp[n].snd_buf = {} /\ kcp[n].rcv_buf = {} /\ kcp[n].acklist = {}
             /\ kcp[n].snd_wnd \in Nat /\ kcp[n].rcv_wnd \in Nat
             /\ stream[n] = <<>> /\ said[n] = <<>> /\ heard[n] = <<>>
  <2>1. kcp[n] = ikcp_create(n) /\ SndWnd[n] \in Nat /\ RcvWnd[n] \in Nat /\ NoCwnd[n] \in BOOLEAN
        /\ WndRcv \in Nat /\ ThreshMin \in Nat
    BY KcpAssumption, Zenon DEF Init
  <2>2. ikcp_create(n) \in Block
    BY <2>1 DEF ikcp_create, Block
  <2>3. stream[n] = <<>> /\ said[n] = <<>> /\ heard[n] = <<>>
    BY Zenon DEF Init
  <2> QED BY <2>1, <2>2, <2>3 DEF ikcp_create
<1>2. TypeOK
  <2>1. <<>> \in Stream /\ <<>> \in Seq(Wholes)
    BY DEF Stream
  <2>2. kcp = [n \in Node |-> kcp[n]]
    BY Zenon DEF Init
  <2>3. kcp \in [Node -> Block]
    BY <1>1, <2>2, Zenon
  <2> QED BY <2>1, <2>3, Zenon DEF Init, TypeOK
<1>3. \A n \in Node : Peer(n) \in Node
  BY PeerOK, Zenon
<1>4. \A n \in Node : StreamOK(stream[n], said[n])
  <2>1. StreamOK(<<>>, <<>>)
    BY DEF StreamOK
  <2> QED BY <1>1, <2>1
<1>5. \A n \in Node : SndOK(kcp[n], stream[n])
  <2>1. ASSUME NEW n \in Node PROVE Len(stream[n]) = 0 /\ Len(kcp[n].snd_queue) = 0
    BY <1>1
  <2> QED BY <1>1, <2>1 DEF SndOK
<1>6. \A n \in Node : RcvOK(kcp[n], stream[Peer(n)], kcp[Peer(n)].snd_nxt)
  <2>1. ASSUME NEW n \in Node PROVE Len(kcp[n].rcv_queue) = 0
    BY <1>1
  <2> QED BY <1>1, <1>3, <2>1 DEF RcvOK
<1>7. \A n \in Node : \A sn \in kcp[n].acklist : Holds(kcp[n], sn)
  BY <1>1, Zenon
<1>8. \A n \in Node : ReadOK(Read(kcp[n]), heard[n], stream[Peer(n)])
  <2>1. ASSUME NEW n \in Node PROVE Read(kcp[n]) = 0
    <3>1. Len(kcp[n].rcv_queue) = 0
      BY <1>1
    <3> QED BY <1>1, <3>1 DEF Read
  <2> QED BY <1>1, <2>1, Zenon DEF ReadOK
<1>9. AckedIsHeld
  <2>1. ASSUME NEW n \in Node PROVE 0 .. kcp[n].snd_nxt - 1 = {}
    BY <1>1
  <2> QED BY <2>1, Zenon DEF AckedIsHeld
<1>10. net = {}
  BY Zenon DEF Init
<1> QED BY <1>1, <1>2, <1>4, <1>5, <1>6, <1>7, <1>8, <1>9, <1>10 DEF KInv

\* Every call of either peer, and every loss, keeps the invariant.
LEMMA KcpNext == KInv /\ [Next]_vars => KInv'
<1> SUFFICES ASSUME KInv, [Next]_vars PROVE KInv'
  OBVIOUS
<1>1. ASSUME NEW n \in Node, NEW m \in Msg, Send(n, m) PROVE KInv'
  BY <1>1, SendStep, Zenon
<1>2. ASSUME NEW n \in Node, Recv(n) PROVE KInv'
  BY <1>2, RecvStep, Zenon
<1>3. ASSUME NEW n \in Node, NEW expired, NEW due, Flush(n, expired, due) PROVE KInv'
  BY <1>3, FlushStep, Zenon
<1>4. ASSUME NEW n \in Node, NEW d \in net, NEW again \in BOOLEAN, Input(n, d, again) PROVE KInv'
  BY <1>4, InputStep
<1>5. CASE UNCHANGED vars
  BY <1>5, Zenon DEF vars, KInv, TypeOK, AckedIsHeld, InFlight
<1> QED BY <1>1, <1>2, <1>3, <1>4, <1>5, Zenon DEF Next

\* A peer's state, the datagrams under way and the messages read agree at every
\* moment, for any windows and any messages.
THEOREM KcpInvariant == Spec => []KInv
BY KcpInit, KcpNext, PTL DEF Spec

\* A segment that is freed is with the receiver: for any windows and any network,
\* no acknowledgement stands for a segment that ikcp_parse_data dropped.
THEOREM KcpAcknowledges == Spec => []AckedIsHeld
<1>1. KInv => AckedIsHeld
  BY Zenon DEF KInv
<1> QED BY <1>1, KcpInvariant, PTL

\* The buffers of a peer stay within its windows, whatever arrives.
THEOREM KcpBounded == Spec => []WindowKept
<1>1. KInv => WindowKept
  <2> SUFFICES ASSUME KInv, NEW n \in Node
               PROVE  /\ Len(kcp[n].rcv_queue) <= RcvWnd[n]
                      /\ Cardinality(kcp[n].rcv_buf) <= RcvWnd[n]
                      /\ kcp[n].snd_nxt - kcp[n].snd_una <= SndWnd[n]
    BY Zenon DEF WindowKept
  <2>1. /\ kcp[n].rcv_wnd = RcvWnd[n] /\ kcp[n].snd_wnd = SndWnd[n] /\ SndOK(kcp[n], stream[n])
        /\ RcvOK(kcp[n], stream[Peer(n)], kcp[Peer(n)].snd_nxt)
    BY Zenon DEF KInv
  <2>2. kcp[n].rcv_buf \in SUBSET Push /\ kcp[n].rcv_nxt \in Nat /\ kcp[n].rcv_wnd \in Nat
    BY AtNode, Zenon DEF Block
  <2>3. Cardinality(kcp[n].rcv_buf) <= kcp[n].rcv_wnd
    BY <2>1, <2>2, CountSegments, Zenon DEF RcvOK
  <2> QED BY <2>1, <2>3, Zenon DEF RcvOK, SndOK
<1> QED BY <1>1, KcpInvariant, PTL
\* A step sends a message of s, lets its peer read the next one, or neither.
LEMMA LinkStep ==
  ASSUME KInv, [Next]_vars, NEW s \in Node, NEW p \in Node, p = Peer(s)
  PROVE  \/ \E w \in Wholes : said'[s] = Append(said[s], w) /\ heard'[p] = heard[p]
         \/ /\ Len(heard[p]) < Len(said[s])
            /\ heard'[p] = Append(heard[p], said[s][Len(heard[p]) + 1])
            /\ said'[s] = said[s]
         \/ said'[s] = said[s] /\ heard'[p] = heard[p]
<1>1. /\ said \in [Node -> Seq(Wholes)] /\ heard \in [Node -> Seq(Wholes)]
  BY DEF KInv, TypeOK
<1>2. p # s /\ Peer(p) = s /\ \A o \in Node : o = s \/ o = p
  BY PeerOK, Zenon
<1>3. ASSUME NEW n \in Node, NEW m \in Msg, Send(n, m)
      PROVE  heard'[p] = heard[p] /\ (said'[s] = said[s] \/ \E w \in Wholes : said'[s] = Append(said[s], w))
  <2>1. said' = [said EXCEPT ![n] = Append(said[n], Whole(m))] /\ heard' = heard /\ Whole(m) \in Wholes
    BY <1>3 DEF Send, Wholes
  <2>2. CASE n = s
    BY <2>1, <2>2, <1>1
  <2>3. CASE n # s
    BY <2>1, <2>3, <1>1, Zenon
  <2> QED BY <2>2, <2>3, Zenon
<1>4. ASSUME NEW n \in Node, Recv(n)
      PROVE  /\ said'[s] = said[s]
             /\ \/ heard'[p] = heard[p]
                \/ /\ Len(heard[p]) < Len(said[s])
                   /\ heard'[p] = Append(heard[p], said[s][Len(heard[p]) + 1])
  <2>1. said' = said /\ heard' = [heard EXCEPT ![n] = Append(heard[n], Received(kcp[n]))]
    BY <1>4 DEF Recv
  <2>2. CASE n = p
    <3>1. /\ Len(heard[p]) + 1 \in 1 .. Len(said[s])
          /\ heard'[p] = Append(heard[p], said[s][Len(heard[p]) + 1])
      BY <2>2, <1>2, <1>4, RecvStep
    <3>2. Len(heard[p]) \in Nat /\ Len(said[s]) \in Nat
      BY <1>1
    <3>3. Len(heard[p]) < Len(said[s])
      BY <3>1, <3>2
    <3> QED BY <2>1, <3>1, <3>3
  <2>3. CASE n # p
    BY <2>1, <2>3, <1>1
  <2> QED BY <2>2, <2>3
<1>5. ASSUME NEW n \in Node, NEW expired, NEW due, Flush(n, expired, due)
      PROVE  said' = said /\ heard' = heard
  BY <1>5 DEF Flush, Update
<1>6. ASSUME NEW n \in Node, NEW d, NEW again, Input(n, d, again)
      PROVE  said' = said /\ heard' = heard
  BY <1>6 DEF Input
<1>7. CASE UNCHANGED vars
  BY <1>7 DEF vars
<1> QED BY <1>3, <1>4, <1>5, <1>6, <1>7, Zenon DEF Next

\* The message read last.
LEMMA LatestOK ==
  ASSUME NEW h \in Seq(Wholes), NEW w \in Wholes
  PROVE  Latest(Append(h, w)) = w /\ Latest(<<>>) = NoSeg
<1>1. /\ Append(h, w) # <<>> /\ Len(Append(h, w)) = Len(h) + 1 /\ Append(h, w)[Len(h) + 1] = w
  OBVIOUS
<1> QED BY <1>1 DEF Latest

\* Over a network that loses, repeats and reorders, each peer reads the messages
\* of the other one whole, once and in order: for any windows and any messages
\* the link is two queues.
THEOREM KcpIsFifo == Spec => LinkIsFifo
<1>1. Left \in Node /\ Right \in Node /\ Peer(Left) = Right /\ Peer(Right) = Left
  BY KcpAssumption DEF Node, Peer
<1>2. Init => Forth!Init /\ Back!Init
  BY <1>1 DEF Init, Forth!Init, Back!Init, Latest
<1>3. ASSUME KInv, [Next]_vars
      PROVE  [Forth!Next]_(Forth!vars) /\ [Back!Next]_(Back!vars)
  <2>1. said \in [Node -> Seq(Wholes)] /\ heard \in [Node -> Seq(Wholes)]
    BY <1>3, Zenon DEF KInv, TypeOK
  <2>2. ASSUME NEW s \in Node, NEW p \in Node,
               Len(heard[p]) < Len(said[s]),
               heard'[p] = Append(heard[p], said[s][Len(heard[p]) + 1])
        PROVE  Latest(heard'[p]) = said[s][Len(heard[p]) + 1]
    <3>1. said[s] \in Seq(Wholes) /\ heard[p] \in Seq(Wholes)
      BY <2>1, Zenon
    <3>2. said[s][Len(heard[p]) + 1] \in Wholes
      BY <2>2, <3>1
    <3> QED BY <2>2, <3>1, <3>2, LatestOK
  <2>3. [Forth!Next]_(Forth!vars)
    <3>1. CASE \E w \in Wholes : said'[Left] = Append(said[Left], w) /\ heard'[Right] = heard[Right]
      BY <3>1 DEF Forth!Next, Forth!Push, Wholes
    <3>2. CASE /\ Len(heard[Right]) < Len(said[Left])
               /\ heard'[Right] = Append(heard[Right], said[Left][Len(heard[Right]) + 1])
               /\ said'[Left] = said[Left]
      BY <1>1, <2>2, <3>2, Zenon DEF Forth!Next, Forth!Pop
    <3>3. CASE said'[Left] = said[Left] /\ heard'[Right] = heard[Right]
      BY <3>3, Zenon DEF Forth!vars
    <3> QED BY <1>1, <1>3, <3>1, <3>2, <3>3, LinkStep
  <2>4. [Back!Next]_(Back!vars)
    <3>1. CASE \E w \in Wholes : said'[Right] = Append(said[Right], w) /\ heard'[Left] = heard[Left]
      BY <3>1, Zenon DEF Back!Next, Back!Push, Wholes
    <3>2. CASE /\ Len(heard[Left]) < Len(said[Right])
               /\ heard'[Left] = Append(heard[Left], said[Right][Len(heard[Left]) + 1])
               /\ said'[Right] = said[Right]
      BY <1>1, <2>2, <3>2, Zenon DEF Back!Next, Back!Pop
    <3>3. CASE said'[Right] = said[Right] /\ heard'[Left] = heard[Left]
      BY <3>3, Zenon DEF Back!vars
    <3> QED BY <1>1, <1>3, <3>1, <3>2, <3>3, LinkStep
  <2> QED BY <2>3, <2>4, Zenon
<1> QED BY <1>2, <1>3, KcpInvariant, PTL DEF Spec, LinkIsFifo, Forth!Spec, Back!Spec
=============================================================================
