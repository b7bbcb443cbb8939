--------------------------- MODULE ChannelProofs ----------------------------
(***************************************************************************)
(* For any number of calls, requests of the peer and closes: a session is  *)
(* destroyed and disconnected once, a graceful close loses no output, and  *)
(* an answer finds its call.                                               *)
(***************************************************************************)
EXTENDS Channel, TLAPS

\* A later session number covers the earlier ones.
LEMMA Later ==
  ASSUME NEW s \in Nat \ {0}, NEW t \in {s, s + 1}, NEW d \in 0 .. s - 1
  PROVE  t \in Nat \ {0} /\ d \in 0 .. t - 1
OBVIOUS

(* sequences of messages *)

\* Nothing after a sequence.
LEMMA EmptyLast ==
  ASSUME NEW S, NEW a \in Seq(S)
  PROVE  a \o <<>> = a
OBVIOUS

\* Append to the second of two sequences.
LEMMA AppendConcat ==
  ASSUME NEW S, NEW a \in Seq(S), NEW b \in Seq(S), NEW m \in S
  PROVE  a \o Append(b, m) = Append(a \o b, m)
OBVIOUS

\* The places of two sequences one after the other.
LEMMA ConcatIs ==
  ASSUME NEW S, NEW a \in Seq(S), NEW b \in Seq(S)
  PROVE  /\ a \o b \in Seq(S) /\ Len(a) \in Nat /\ Len(b) \in Nat /\ Len(a \o b) = Len(a) + Len(b)
         /\ \A i \in 1 .. Len(a) + Len(b) : (a \o b)[i] = IF i <= Len(a) THEN a[i] ELSE b[i - Len(a)]
OBVIOUS

\* Sequences with equal elements are equal.
LEMMA SeqEqual ==
  ASSUME NEW S, NEW a \in Seq(S), NEW b \in Seq(S), Len(a) = Len(b), \A i \in 1 .. Len(a) : a[i] = b[i]
  PROVE  a = b
<1>1. a = [i \in 1 .. Len(a) |-> a[i]] /\ b = [i \in 1 .. Len(b) |-> b[i]]
  OBVIOUS
<1>2. [i \in 1 .. Len(a) |-> a[i]] = [i \in 1 .. Len(b) |-> b[i]]
  OBVIOUS
<1> QED BY <1>1, <1>2

\* Concatenation is associative.
LEMMA ConcatAssoc ==
  ASSUME NEW S, NEW a \in Seq(S), NEW b \in Seq(S), NEW c \in Seq(S)
  PROVE  (a \o b) \o c = a \o (b \o c)
<1> DEFINE ab == a \o b
           bc == b \o c
           l == ab \o c
           r == a \o bc
<1>1. ab \in Seq(S) /\ bc \in Seq(S) /\ Len(a) \in Nat /\ Len(b) \in Nat /\ Len(c) \in Nat
  OBVIOUS
<1>2. /\ Len(ab) = Len(a) + Len(b) /\ \A i \in 1 .. Len(a) + Len(b) : ab[i] = IF i <= Len(a) THEN a[i] ELSE b[i - Len(a)]
      /\ Len(bc) = Len(b) + Len(c) /\ \A i \in 1 .. Len(b) + Len(c) : bc[i] = IF i <= Len(b) THEN b[i] ELSE c[i - Len(b)]
  OBVIOUS
<1> HIDE DEF ab, bc
<1>3. l \in Seq(S) /\ r \in Seq(S)
  BY <1>1
<1>4. /\ Len(l) = Len(ab) + Len(c) /\ \A i \in 1 .. Len(ab) + Len(c) : l[i] = IF i <= Len(ab) THEN ab[i] ELSE c[i - Len(ab)]
      /\ Len(r) = Len(a) + Len(bc) /\ \A i \in 1 .. Len(a) + Len(bc) : r[i] = IF i <= Len(a) THEN a[i] ELSE bc[i - Len(a)]
  BY <1>1
<1> HIDE DEF l, r
<1>5. Len(l) = Len(r)
  BY <1>1, <1>2, <1>4
<1>6. ASSUME NEW i \in 1 .. Len(l) PROVE l[i] = r[i]
  <2>1. CASE i <= Len(a)
    BY <1>1, <1>2, <1>4, <2>1
  <2>2. CASE ~ (i <= Len(a)) /\ i <= Len(a) + Len(b)
    <3>1. i - Len(a) \in 1 .. Len(b) + Len(c) /\ i - Len(a) <= Len(b) /\ i \in 1 .. Len(a) + Len(b) /\ i <= Len(ab)
      BY <1>1, <1>2, <1>4, <2>2
    <3>2. l[i] = b[i - Len(a)]
      BY <1>1, <1>2, <1>4, <2>2, <3>1, Zenon
    <3>3. r[i] = bc[i - Len(a)]
      BY <1>1, <1>2, <1>4, <2>2, <3>1
    <3>4. bc[i - Len(a)] = b[i - Len(a)]
      BY <1>2, <3>1, Zenon
    <3> QED BY <3>2, <3>3, <3>4
  <2>3. CASE ~ (i <= Len(a) + Len(b))
    <3>1. /\ i - Len(a) \in 1 .. Len(b) + Len(c) /\ ~ (i - Len(a) <= Len(b)) /\ ~ (i <= Len(a)) /\ ~ (i <= Len(ab))
          /\ (i - Len(a)) - Len(b) = i - Len(ab) /\ i \in 1 .. Len(ab) + Len(c) /\ i \in 1 .. Len(a) + Len(bc)
      BY <1>1, <1>2, <1>4, <2>3
    <3>2. l[i] = c[i - Len(ab)]
      BY <1>4, <3>1, Zenon
    <3>3. r[i] = bc[i - Len(a)]
      BY <1>4, <3>1, Zenon
    <3>4. bc[i - Len(a)] = c[i - Len(ab)]
      BY <1>2, <3>1, Zenon
    <3> QED BY <3>2, <3>3, <3>4
  <2> QED BY <1>1, <2>1, <2>2, <2>3
<1>7. l = r
  BY <1>3, <1>5, <1>6, SeqEqual
<1> QED BY <1>7 DEF l, r, ab, bc

\* The two parts of a sequence that is cut.
LEMMA SubSeqIs ==
  ASSUME NEW S, NEW b \in Seq(S), NEW n \in 0 .. Len(b)
  PROVE  /\ SubSeq(b, 1, n) \in Seq(S) /\ Len(SubSeq(b, 1, n)) = n /\ \A i \in 1 .. n : SubSeq(b, 1, n)[i] = b[i]
         /\ SubSeq(b, n + 1, Len(b)) \in Seq(S) /\ Len(SubSeq(b, n + 1, Len(b))) = Len(b) - n
         /\ \A i \in 1 .. Len(b) - n : SubSeq(b, n + 1, Len(b))[i] = b[n + i]
         /\ Len(b) \in Nat /\ n \in Nat /\ n <= Len(b)
<1>0. Len(b) \in Nat /\ n \in Nat /\ n <= Len(b) /\ 1 \in Nat /\ n + 1 \in Nat
  OBVIOUS
<1>1. SubSeq(b, 1, n) \in Seq(S) /\ Len(SubSeq(b, 1, n)) = n
  BY <1>0
<1>2. \A i \in 1 .. n : SubSeq(b, 1, n)[i] = b[i]
  BY <1>0
<1>3. SubSeq(b, n + 1, Len(b)) \in Seq(S)
  BY <1>0
<1>4. Len(SubSeq(b, n + 1, Len(b))) = Len(b) - n
  BY <1>0
<1>5. \A i \in 1 .. Len(b) - n : SubSeq(b, n + 1, Len(b))[i] = b[n + i]
  BY <1>0
<1> QED BY <1>0, <1>1, <1>2, <1>3, <1>4, <1>5, Zenon

\* What is moved from the head of b to the end of a leaves a \o b as it is.
LEMMA MoveConcat ==
  ASSUME NEW S, NEW a \in Seq(S), NEW b \in Seq(S), NEW n \in 0 .. Len(b)
  PROVE  /\ SubSeq(b, 1, n) \in Seq(S) /\ SubSeq(b, n + 1, Len(b)) \in Seq(S)
         /\ (a \o SubSeq(b, 1, n)) \o SubSeq(b, n + 1, Len(b)) = a \o b
<1> DEFINE c == SubSeq(b, 1, n)
           d == SubSeq(b, n + 1, Len(b))
<1>1. /\ c \in Seq(S) /\ Len(c) = n /\ \A i \in 1 .. n : c[i] = b[i]
      /\ d \in Seq(S) /\ Len(d) = Len(b) - n /\ \A i \in 1 .. Len(b) - n : d[i] = b[n + i]
      /\ Len(b) \in Nat /\ n \in Nat /\ n <= Len(b)
  BY SubSeqIs
<1> HIDE DEF c, d
<1>2. c \o d \in Seq(S) /\ Len(c \o d) = Len(b)
  BY <1>1, ConcatIs
<1>3. ASSUME NEW i \in 1 .. Len(b) PROVE (c \o d)[i] = b[i]
  <2>1. CASE i <= n
    BY <1>1, <2>1
  <2>2. CASE ~ (i <= n)
    <3>1. (c \o d)[i] = d[i - n] /\ i - n \in 1 .. Len(b) - n /\ n + (i - n) = i
      BY <1>1, <2>2
    <3> QED BY <1>1, <3>1
  <2> QED BY <2>1, <2>2, Zenon
<1>4. c \o d = b
  BY <1>2, <1>3, SeqEqual, Zenon
<1>5. (a \o c) \o d = a \o (c \o d)
  BY <1>1, ConcatAssoc
<1> QED BY <1>1, <1>4, <1>5, Zenon DEF c, d

\* The head of the first of two sequences is taken.
LEMMA TailConcat ==
  ASSUME NEW S, NEW a \in Seq(S), NEW b \in Seq(S), a # <<>>
  PROVE  Tail(a) \o b = Tail(a \o b) /\ a \o b # <<>> /\ Head(a \o b) = Head(a)
OBVIOUS

\* What a buffer carries after a message is added.
LEMMA CarriedAppend ==
  ASSUME NEW q \in Seq(Msg), NEW m \in Msg, NEW t, Once(q, t), m.type = t => m.session \notin Carried(q, t)
  PROVE  /\ Once(Append(q, m), t)
         /\ Carried(Append(q, m), t) = IF m.type = t THEN Carried(q, t) \cup ({m.session} \ {0}) ELSE Carried(q, t)
<1>1. /\ Len(q) \in Nat /\ DOMAIN q = 1 .. Len(q) /\ DOMAIN Append(q, m) = 1 .. Len(q) + 1
      /\ Append(q, m)[Len(q) + 1] = m
      /\ \A i \in 1 .. Len(q) : Append(q, m)[i] = q[i]
  OBVIOUS
<1> DEFINE r == Append(q, m)
<1> HIDE DEF r
<1>2. \A i \in DOMAIN r : (i \in DOMAIN q /\ r[i] = q[i]) \/ (i = Len(q) + 1 /\ r[i] = m)
  BY <1>1 DEF r
<1>3. \A i \in DOMAIN q : i \in DOMAIN r /\ r[i] = q[i]
  BY <1>1 DEF r
<1>4. Len(q) + 1 \in DOMAIN r /\ r[Len(q) + 1] = m
  BY <1>1 DEF r
<1>5. Once(r, t)
  BY <1>2 DEF Once, Carried
<1>6. Carried(r, t) = IF m.type = t THEN Carried(q, t) \cup ({m.session} \ {0}) ELSE Carried(q, t)
  BY <1>2, <1>3, <1>4 DEF Carried
<1> QED BY <1>5, <1>6 DEF r

\* What a buffer carries after a message is taken.
LEMMA CarriedTail ==
  ASSUME NEW q \in Seq(Msg), NEW t, q # <<>>, Once(q, t)
  PROVE  /\ Once(Tail(q), t)
         /\ Carried(Tail(q), t) = IF Head(q).type = t THEN Carried(q, t) \ {Head(q).session} ELSE Carried(q, t)
         /\ Head(q) \in Msg /\ (Head(q).type = t => {Head(q).session} \ {0} \subseteq Carried(q, t))
<1>1. /\ Len(q) \in Nat \ {0} /\ DOMAIN q = 1 .. Len(q) /\ DOMAIN Tail(q) = 1 .. Len(q) - 1
      /\ Head(q) = q[1] /\ Head(q) \in Msg
      /\ \A i \in 1 .. Len(q) - 1 : Tail(q)[i] = q[i + 1]
  OBVIOUS
<1> DEFINE r == Tail(q)
           m == Head(q)
<1> HIDE DEF r, m
<1>2. \A i \in DOMAIN r : i \in Nat /\ i + 1 \in DOMAIN q /\ i + 1 # 1 /\ r[i] = q[i + 1]
  BY <1>1 DEF r
<1>3. \A i \in DOMAIN q : i # 1 => i \in Nat /\ i - 1 \in DOMAIN r /\ r[i - 1] = q[i]
  BY <1>1 DEF r
<1>4. 1 \in DOMAIN q /\ m = q[1] /\ m \in Msg
  BY <1>1 DEF m
<1>5. Once(r, t)
  <2>1. ASSUME NEW i \in DOMAIN r, NEW j \in DOMAIN r, r[i].type = t, r[j].type = t, r[i].session = r[j].session, r[i].session # 0
        PROVE  i = j
    <3>1. i + 1 = j + 1
      BY <1>2, <2>1 DEF Once
    <3> QED BY <1>2, <3>1
  <2> QED BY <2>1 DEF Once
<1>6. ASSUME m.type = t PROVE Carried(r, t) = Carried(q, t) \ {m.session}
  <2>1. \A i \in DOMAIN r : r[i].type = t => r[i].session # m.session \/ r[i].session = 0
    BY <1>2, <1>4, <1>6 DEF Once
  <2>2. ASSUME NEW i \in DOMAIN r, r[i].type = t, r[i].session # 0 PROVE r[i].session \in Carried(q, t) \ {m.session}
    BY <1>2, <2>1, <2>2 DEF Carried
  <2>3. ASSUME NEW i \in DOMAIN q, q[i].type = t, q[i].session # 0, q[i].session # m.session PROVE q[i].session \in Carried(r, t)
    BY <1>3, <1>4, <2>3 DEF Carried
  <2> QED BY <2>2, <2>3 DEF Carried
<1>7. ASSUME m.type # t PROVE Carried(r, t) = Carried(q, t)
  BY <1>2, <1>3, <1>4, <1>7 DEF Carried
<1>8. m.type = t => {m.session} \ {0} \subseteq Carried(q, t)
  BY <1>4 DEF Carried
<1> QED BY <1>4, <1>5, <1>6, <1>7, <1>8 DEF r, m

-----------------------------------------------------------------------------
(* the records of a session *)

\* The fields of lua_ev_session after the assignments of the code.
LEMMA LevIs ==
  ASSUME NEW l \in LevRec
  PROVE  /\ l.closed \in BOOLEAN /\ l.execute \in BOOLEAN /\ l.mark \in BOOLEAN /\ l.freed \in BOOLEAN
         /\ Freed(l) \in LevRec /\ Freed(l).freed
         /\ Freed(l).closed = l.closed /\ Freed(l).execute = l.execute /\ Freed(l).mark = l.mark
         /\ [l EXCEPT !.closed = TRUE] \in LevRec /\ [l EXCEPT !.closed = TRUE].closed
         /\ [l EXCEPT !.closed = TRUE].execute = l.execute
         /\ [l EXCEPT !.closed = TRUE].mark = l.mark /\ [l EXCEPT !.closed = TRUE].freed = l.freed
BY Zenon DEF LevRec, Freed

\* The fields of ev_session after it is released.
LEMMA EvIs ==
  ASSUME NEW e \in EvRec
  PROVE  /\ e.rio \in BOOLEAN /\ e.wio \in BOOLEAN /\ e.closing \in BOOLEAN
         /\ e.input \in Seq(Incoming) /\ e.output \in Seq(Msg)
         /\ Released(e) \in EvRec /\ ~ Released(e).rio /\ ~ Released(e).wio /\ Released(e).closing = e.closing
         /\ Released(e).input = <<>> /\ Released(e).output = <<>>
<1>1. <<>> \in Seq(Incoming) /\ <<>> \in Seq(Msg)
  OBVIOUS
<1>2. /\ e.rio \in BOOLEAN /\ e.wio \in BOOLEAN /\ e.closing \in BOOLEAN
      /\ e.input \in Seq(Incoming) /\ e.output \in Seq(Msg)
  BY DEF EvRec
<1>3. Released(e) \in EvRec
  BY <1>1, Zenon DEF EvRec, Released
<1> QED BY <1>2, <1>3 DEF EvRec, Released

\* The kinds of messages.
LEMMA MessagesOK ==
  /\ Big \in Incoming
  /\ \A s \in Nat : Req(s) \in Incoming /\ Req(s) \in Msg /\ Ret(s) \in Msg /\ (s # 0 => Ret(s) \in Incoming)
  /\ \A s \in Nat : Req(s).type = "req" /\ Req(s).session = s /\ Ret(s).type = "ret" /\ Ret(s).session = s
  /\ Big.type = "big"
  /\ Incoming \subseteq Msg
BY DEF Big, Req, Ret, Msg, Incoming

\* error_occur and the other places where the session is freed.
LEMMA ErrorIs ==
  ASSUME TypeOK, NEW ctx, ErrorOccur(ctx)
  PROVE  /\ lev' \in LevRec /\ lev'.closed /\ lev'.freed /\ lev'.execute = lev.execute /\ lev'.mark = lev.mark
         /\ ev' \in EvRec /\ ~ ev'.rio /\ ~ ev'.wio /\ ev'.closing = ev.closing
         /\ ev'.input = <<>> /\ ev'.output = <<>>
         /\ destroys' = destroys + 1 /\ disconnects' = disconnects + 1 /\ session_ctx' = {}
<1>1. lev \in LevRec /\ ev \in EvRec
  BY DEF TypeOK
<1>2. lev' = Freed([lev EXCEPT !.closed = TRUE]) /\ ev' = Released(ev)
  BY DEF ErrorOccur
<1>3. destroys' = destroys + 1 /\ disconnects' = disconnects + 1 /\ session_ctx' = {}
  BY DEF ErrorOccur, Disconnect
<1>4. [lev EXCEPT !.closed = TRUE] \in LevRec
  BY <1>1, LevIs
<1> DEFINE l == [lev EXCEPT !.closed = TRUE]
<1>5. l.closed /\ l.execute = lev.execute /\ l.mark = lev.mark
  BY <1>1, LevIs
<1> HIDE DEF l
<1>6. Freed(l) \in LevRec /\ Freed(l).freed /\ Freed(l).closed = l.closed /\ Freed(l).execute = l.execute /\ Freed(l).mark = l.mark
  BY <1>4, LevIs, Zenon DEF l
<1>7. lev' = Freed(l)
  BY <1>2 DEF l
<1>8. /\ ev' \in EvRec /\ ~ ev'.rio /\ ~ ev'.wio /\ ev'.closing = ev.closing
      /\ ev'.input = <<>> /\ ev'.output = <<>>
  BY <1>1, <1>2, EvIs
<1> QED BY <1>3, <1>5, <1>6, <1>7, <1>8, Zenon

\* The parts of the invariant that speak of the session once it is freed.
LEMMA FreedInv ==
  ASSUME ChannelInv, NEW ctx, ErrorOccur(ctx), IsOpen \/ IsClosing,
         ev.closing => peer = "closed" \/ lev.execute,
         pc' \in {"lua", "loop"}, back' \in {"loop", "read"}, calling' \in Nat, dispatching' \in 0 .. session' - 1,
         InRead' => lev.execute /\ closes = 0, calling' # 0 \/ dispatching' # 0 => pc' = "lua",
         session' \in {session, session + 1}, todo' \subseteq Nat, UNCHANGED <<env, stream, closes>>
  PROVE  ChannelInv'
<1>t. TypeOK
  BY DEF ChannelInv
<1>1. /\ lev' \in LevRec /\ lev'.closed /\ lev'.freed /\ lev'.execute = lev.execute /\ lev'.mark = lev.mark
      /\ ev' \in EvRec /\ ~ ev'.rio /\ ~ ev'.wio /\ ev'.closing = ev.closing
      /\ ev'.input = <<>> /\ ev'.output = <<>>
      /\ destroys' = destroys + 1 /\ disconnects' = disconnects + 1 /\ session_ctx' = {}
  BY <1>t, ErrorIs
<1>2. TypeOK'
  <2>1. session' \in Nat \ {0}
    BY <1>t DEF TypeOK
  <2>2. /\ todo' \subseteq Nat /\ wire_out' \in Seq(Msg) /\ wire_in' \in Seq(Incoming) /\ peer' \in {"up", "closed"}
        /\ served' \subseteq Nat \ {0} /\ asked' \in Nat /\ accepted' \in Seq(Msg) /\ sent' \in Seq(Msg)
        /\ disconnects' \in Nat /\ destroys' \in Nat /\ closes' \in Nat
    BY <1>t, <1>1 DEF TypeOK, env, stream
  <2>3. pc' \in {"loop", "read", "lua", "ub"} /\ session_ctx' \subseteq 1 .. session' - 1
    BY <1>1
  <2> QED BY <1>1, <2>1, <2>2, <2>3, Zenon DEF TypeOK
<1>3. disconnects = 0 /\ destroys = 0
  BY DEF IsOpen, IsClosing
<1>4. Stage'
  BY <1>1, <1>3 DEF Stage, IsFreed
<1>5. Thread'
  BY <1>1 DEF Thread, InRead
<1>6. Buffered'
  BY <1>1 DEF Buffered, env
<1>7. OnItsWay'
  BY <1>1 DEF OnItsWay
<1> QED BY <1>2, <1>4, <1>5, <1>6, <1>7 DEF ChannelInv

\* Nothing on its way moves.
LEMMA WayKept ==
  ASSUME OnItsWay, Outward' = Outward, Homeward' = Homeward, served' = served,
         session_ctx \ {dispatching} \subseteq session_ctx' \ {dispatching'},
         ~ lev'.freed /\ ~ lev'.mark => ~ lev.freed /\ ~ lev.mark
  PROVE  OnItsWay'
<1>1. CASE lev'.freed \/ lev'.mark
  BY <1>1 DEF OnItsWay
<1>2. CASE ~ lev'.freed /\ ~ lev'.mark
  <2>1. /\ Once(Outward, "req")' /\ Once(Homeward, "ret")'
        /\ Carried(Outward, "req")' = Carried(Outward, "req")
        /\ Carried(Homeward, "ret")' = Carried(Homeward, "ret")
    BY <1>2 DEF OnItsWay, Once, Carried
  <2> QED BY <1>2, <2>1 DEF OnItsWay
<1> QED BY <1>1, <1>2

\* A step that leaves the session and the messages alone.
LEMMA QuietInv ==
  ASSUME ChannelInv, UNCHANGED <<csess, disconnects, env, stream, count>>,
         pc' \in {"loop", "read", "lua", "ub"}, back' \in {"loop", "read"}, calling' \in Nat, dispatching' \in 0 .. session' - 1,
         session' \in Nat \ {0}, session_ctx' \subseteq 1 .. session' - 1, todo' \subseteq Nat,
         session_ctx \ {dispatching} \subseteq session_ctx' \ {dispatching'}, Thread'
  PROVE  ChannelInv'
<1>1. UNCHANGED <<lev, ev, wire_in, wire_out, served, asked, peer, accepted, sent, destroys, closes, disconnects>>
  BY DEF csess, env, stream, count
<1>2. TypeOK'
  BY <1>1, Zenon DEF ChannelInv, TypeOK
<1>3. Stage' /\ Buffered'
  BY <1>1 DEF ChannelInv, Stage, IsOpen, IsClosing, IsMarked, IsFreed, Buffered
<1>4. OnItsWay'
  BY <1>1, WayKept DEF ChannelInv, Outward, Homeward
<1> QED BY <1>2, <1>3, <1>4 DEF ChannelInv

-----------------------------------------------------------------------------
(* Lua code *)

\* ev_session_write: the message joins the end of what goes out.
LEMMA WriteIs ==
  ASSUME ChannelInv, NEW m \in Msg, Write(m)
  PROVE  /\ IsOpen
         /\ ev' \in EvRec /\ ev'.rio = ev.rio /\ ev'.closing = ev.closing /\ ev'.input = ev.input
         /\ wire_out' \in Seq(Msg) /\ accepted' \in Seq(Msg) /\ sent' \in Seq(Msg)
         /\ accepted' = sent' \o ev'.output /\ (~ ev'.wio => ev'.output = <<>>)
         /\ Outward' = Append(Outward, m)
<1>1. TypeOK /\ Stage /\ Buffered /\ lev \in LevRec /\ ev \in EvRec
  BY DEF ChannelInv, TypeOK
<1>2. IsOpen
  BY <1>1 DEF Write, Stage, IsOpen, IsClosing, IsMarked, IsFreed
<1>3. /\ accepted \in Seq(Msg) /\ sent \in Seq(Msg) /\ wire_out \in Seq(Msg) /\ ev.output \in Seq(Msg)
      /\ accepted = sent \o ev.output /\ (~ ev.wio => ev.output = <<>>)
  BY <1>1, <1>2, EvIs DEF TypeOK, Buffered, IsOpen
<1>4. accepted' = Append(accepted, m) /\ accepted' \in Seq(Msg)
  BY <1>3 DEF Write
<1>5. CASE ~ ev.wio /\ sent' = Append(sent, m) /\ wire_out' = Append(wire_out, m) /\ UNCHANGED ev
  <2>1. ev.output = <<>> /\ accepted = sent /\ Outward = wire_out
    BY <1>3, <1>5, EmptyLast, Zenon DEF Outward
  <2>2. sent' \in Seq(Msg) /\ wire_out' \in Seq(Msg)
    BY <1>3, <1>5
  <2>3. sent' \o ev'.output = sent' /\ Outward' = wire_out'
    BY <1>5, <2>1, <2>2, EmptyLast DEF Outward
  <2>4. accepted' = sent' \o ev'.output /\ Outward' = Append(Outward, m)
    BY <1>4, <1>5, <2>1, <2>3
  <2> QED BY <1>1, <1>2, <1>4, <1>5, <2>1, <2>2, <2>4
<1>6. CASE ev' = [ev EXCEPT !.output = Append(@, m), !.wio = TRUE] /\ UNCHANGED <<sent, wire_out>>
  <2>1. Append(ev.output, m) \in Seq(Msg)
    BY <1>3
  <2>2. /\ ev' \in EvRec /\ ev'.rio = ev.rio /\ ev'.closing = ev.closing /\ ev'.input = ev.input
        /\ ev'.output = Append(ev.output, m) /\ ev'.wio
    BY <1>1, <1>6, <2>1, Zenon DEF EvRec
  <2>3. sent \o Append(ev.output, m) = Append(sent \o ev.output, m)
    BY <1>3, AppendConcat
  <2>4. wire_out \o Append(ev.output, m) = Append(wire_out \o ev.output, m)
    BY <1>3, AppendConcat
  <2>5. accepted' = sent' \o ev'.output /\ Outward' = Append(Outward, m)
    BY <1>3, <1>4, <1>6, <2>2, <2>3, <2>4, Zenon DEF Outward
  <2> QED BY <1>2, <1>3, <1>4, <1>6, <2>2, <2>5, Zenon
<1> QED BY <1>5, <1>6, Zenon DEF Write

\* A step that writes m, a request of no older call, and leaves the thread alone.
LEMMA WriteInv ==
  ASSUME ChannelInv, NEW m \in Msg, Write(m), UNCHANGED <<lev, disconnects, destroys, closes, env, pc, back, dispatching>>,
         calling' \in Nat, calling' # 0 => pc = "lua", todo' \subseteq Nat,
         session' \in {session, session + 1}, session_ctx \subseteq session_ctx', session_ctx' \subseteq 1 .. session' - 1,
         m.type = "req" /\ m.session # 0 =>
           m.session \in session_ctx' \ (session_ctx \cup {dispatching})
  PROVE  ChannelInv'
<1>0. TypeOK /\ Stage /\ Thread /\ OnItsWay
  BY DEF ChannelInv
<1>1. /\ IsOpen
      /\ ev' \in EvRec /\ ev'.rio = ev.rio /\ ev'.closing = ev.closing /\ ev'.input = ev.input
      /\ wire_out' \in Seq(Msg) /\ accepted' \in Seq(Msg) /\ sent' \in Seq(Msg)
      /\ accepted' = sent' \o ev'.output /\ (~ ev'.wio => ev'.output = <<>>)
      /\ Outward' = Append(Outward, m)
  BY WriteIs
<1>2. UNCHANGED <<lev, wire_in, peer, served, asked>>
  BY DEF env
<1>3. TypeOK'
  <2>1. session' \in Nat \ {0} /\ dispatching' \in 0 .. session' - 1
    <3>1. session \in Nat \ {0} /\ dispatching \in 0 .. session - 1 /\ dispatching' = dispatching
      BY <1>0 DEF TypeOK
    <3> QED BY <3>1, Later, Zenon
  <2> QED BY <1>0, <1>1, <1>2, <2>1, Zenon DEF TypeOK
<1>4. Stage'
  BY <1>1, <1>2 DEF Stage, IsOpen
<1>5. Thread'
  BY <1>0, <1>2 DEF Thread, InRead
<1>6. Buffered'
  BY <1>1, <1>2 DEF Buffered, IsOpen
<1>7. OnItsWay'
  <2>1. Outward \in Seq(Msg) /\ Homeward' = Homeward
    BY <1>0, <1>1, <1>2, EvIs, ConcatIs, Zenon DEF TypeOK, Outward, Homeward
  <2>2. /\ Once(Outward, "req") /\ Once(Homeward, "ret")
        /\ Carried(Outward, "req") \cup served \cup Carried(Homeward, "ret") \subseteq session_ctx \ {dispatching}
        /\ Carried(Outward, "req") \cap served = {}
        /\ Carried(Outward, "req") \cap Carried(Homeward, "ret") = {}
        /\ served \cap Carried(Homeward, "ret") = {}
    BY <1>0, <1>1, Zenon DEF OnItsWay, IsOpen
  <2>3. m.type = "req" => m.session \notin Carried(Outward, "req")
    BY <2>2 DEF Carried
  <2>4. /\ Once(Append(Outward, m), "req")
        /\ Carried(Append(Outward, m), "req") =
             IF m.type = "req" THEN Carried(Outward, "req") \cup ({m.session} \ {0}) ELSE Carried(Outward, "req")
    BY <2>1, <2>2, <2>3, CarriedAppend
  <2>5. /\ Once(Outward, "req")' /\ Once(Homeward, "ret")'
        /\ Carried(Homeward, "ret")' = Carried(Homeward, "ret")
        /\ Carried(Outward, "req")' =
             IF m.type = "req" THEN Carried(Outward, "req") \cup ({m.session} \ {0}) ELSE Carried(Outward, "req")
    <3>1. Once(Outward, "req")' = Once(Append(Outward, m), "req")
      BY <1>1 DEF Once
    <3>2. Carried(Outward, "req")' = Carried(Append(Outward, m), "req")
      BY <1>1 DEF Carried
    <3>3. Once(Homeward, "ret")' = Once(Homeward, "ret") /\ Carried(Homeward, "ret")' = Carried(Homeward, "ret")
      BY <2>1 DEF Once, Carried
    <3> QED BY <2>2, <2>4, <3>1, <3>2, <3>3, Zenon
  <2> DEFINE O == Carried(Outward, "req")
             H == Carried(Homeward, "ret")
             O1 == Carried(Outward, "req")'
             H1 == Carried(Homeward, "ret")'
  <2>6. O1 \subseteq O \cup ({m.session} \ {0}) /\ O \subseteq O1 /\ (m.type # "req" => O1 = O) /\ H1 = H
    BY <2>5
  <2>7. /\ O \cup served \cup H \subseteq session_ctx \ {dispatching}
        /\ O \cap served = {} /\ O \cap H = {} /\ served \cap H = {}
    BY <2>2
  <2> HIDE DEF O, H, O1, H1
  <2>8. /\ O1 \cap served' = {} /\ O1 \cap H1 = {} /\ served' \cap H1 = {}
        /\ O1 \cup served' \cup H1 \subseteq session_ctx' \ {dispatching'}
    BY <1>2, <2>6, <2>7, Zenon
  <2> QED BY <2>5, <2>8 DEF OnItsWay, O1, H1
<1> QED BY <1>3, <1>4, <1>5, <1>6, <1>7 DEF ChannelInv

\* A direct write that fails: Lua code runs in an open session.
LEMMA WriteFailsInv ==
  ASSUME ChannelInv, NEW ctx, WriteFails(ctx), Lua, UNCHANGED <<pc, back, dispatching, env, closes>>,
         calling' \in Nat, todo' \subseteq Nat, session' \in {session, session + 1}
  PROVE  ChannelInv'
<1>1. TypeOK /\ Stage /\ Thread
  BY DEF ChannelInv
<1>2. IsOpen /\ ErrorOccur(ctx) /\ UNCHANGED stream
  BY <1>1 DEF WriteFails, Stage, IsOpen, IsClosing, IsMarked, IsFreed
<1>3. pc = "lua" /\ ~ ev.closing /\ closes = 0
  BY <1>2 DEF Lua, IsOpen
<1>4. InRead' => lev.execute /\ closes = 0
  BY <1>1, <1>3 DEF Thread, InRead
<1>5. back' \in {"loop", "read"} /\ dispatching' \in 0 .. session' - 1
  <2>1. session \in Nat \ {0} /\ dispatching \in 0 .. session - 1 /\ dispatching' = dispatching /\ back' \in {"loop", "read"}
    BY <1>1 DEF TypeOK
  <2> QED BY <2>1, Later, Zenon
<1> QED BY <1>2, <1>3, <1>4, <1>5, FreedInv

\* Call keeps ChannelInv.
LEMMA CallInv ==
  ASSUME ChannelInv, Call
  PROVE  ChannelInv'
<1>1. TypeOK /\ session \in Nat \ {0} /\ session' = session + 1 /\ calling' = session /\ Lua
      /\ UNCHANGED <<pc, back, dispatching, todo, env, closes>>
  BY DEF ChannelInv, TypeOK, Call, NextSession
<1>2. todo' \subseteq Nat /\ calling' \in Nat
  BY <1>1 DEF TypeOK
<1>3. CASE WriteFails(session_ctx \cup {session})
  BY <1>1, <1>2, <1>3, WriteFailsInv
<1>4. CASE /\ Write(Req(session)) /\ session_ctx' = session_ctx \cup {session}
           /\ UNCHANGED <<co_wait, call, disconnects, nowaiter, lev, destroys>>
  <2>1. Req(session) \in Msg /\ Req(session).session = session
    BY <1>1, MessagesOK
  <2>2. session_ctx \subseteq session_ctx' /\ session_ctx' \subseteq 1 .. session' - 1
    BY <1>1, <1>4 DEF TypeOK
  <2>3. session \in session_ctx' \ (session_ctx \cup {dispatching})
    BY <1>1, <1>4 DEF TypeOK
  <2>4. pc = "lua"
    BY <1>1 DEF Lua
  <2> QED BY <1>1, <1>2, <1>4, <2>1, <2>2, <2>3, <2>4, WriteInv
<1> QED BY <1>3, <1>4 DEF Call

\* Send keeps ChannelInv.
LEMMA SendInv ==
  ASSUME ChannelInv, Send
  PROVE  ChannelInv'
<1>1. TypeOK /\ Thread /\ session' = session + 1 /\ Lua
      /\ UNCHANGED <<pc, back, calling, dispatching, todo, env, closes>>
  BY DEF ChannelInv, Send, NextSession, control
<1>2. todo' \subseteq Nat /\ calling' \in Nat /\ session \in Nat \ {0} /\ session_ctx \subseteq 1 .. session - 1
  BY <1>1 DEF TypeOK
<1>3. CASE WriteFails(session_ctx)
  BY <1>1, <1>2, <1>3, WriteFailsInv
<1>4. CASE Write(Req(0)) /\ UNCHANGED <<rpc, lev, destroys>>
  <2>1. Req(0) \in Msg /\ Req(0).session = 0
    BY MessagesOK
  <2>2. session_ctx' = session_ctx /\ session_ctx' \subseteq 1 .. session' - 1 /\ disconnects' = disconnects
    BY <1>1, <1>2, <1>4 DEF rpc
  <2>3. calling' # 0 => pc = "lua"
    BY <1>1 DEF Lua
  <2> QED BY <1>1, <1>2, <1>4, <2>1, <2>2, <2>3, WriteInv
<1> QED BY <1>3, <1>4 DEF Send

\* Answer keeps ChannelInv.
LEMMA AnswerInv ==
  ASSUME ChannelInv, NEW r \in todo, Answer(r)
  PROVE  ChannelInv'
<1>1. /\ TypeOK /\ Thread /\ session' = session /\ Lua /\ todo' = todo \ {r}
      /\ UNCHANGED <<pc, back, calling, dispatching, env, closes>>
  BY DEF ChannelInv, Answer, control
<1>2. todo' \subseteq Nat /\ calling' \in Nat /\ r \in Nat /\ session \in Nat \ {0} /\ session_ctx \subseteq 1 .. session - 1
      /\ pc' \in {"loop", "read", "lua", "ub"} /\ back' \in {"loop", "read"} /\ dispatching' \in 0 .. session' - 1
  BY <1>1 DEF TypeOK
<1>3. CASE WriteFails(session_ctx)
  BY <1>1, <1>2, <1>3, WriteFailsInv
<1>4. CASE Write(Ret(r)) /\ UNCHANGED <<rpc, lev, destroys>>
  <2>1. Ret(r) \in Msg /\ Ret(r).type = "ret"
    BY <1>2, MessagesOK
  <2>2. session_ctx' = session_ctx /\ session_ctx' \subseteq 1 .. session' - 1 /\ disconnects' = disconnects
    BY <1>1, <1>2, <1>4 DEF rpc
  <2>3. calling' # 0 => pc = "lua"
    BY <1>1 DEF Lua
  <2> QED BY <1>1, <1>2, <1>4, <2>1, <2>2, <2>3, WriteInv
<1>5. CASE lev.closed /\ UNCHANGED <<rpc, csess, destroys, stream>>
  <2>1. UNCHANGED <<csess, disconnects, env, stream, count>> /\ session_ctx' = session_ctx
    BY <1>1, <1>5 DEF rpc, count
  <2>2. Thread'
    BY <1>1, <2>1 DEF Thread, InRead, csess, count
  <2> QED BY <1>1, <1>2, <2>1, <2>2, QuietInv
<1> QED BY <1>3, <1>4, <1>5 DEF Answer

\* Steps that leave session, buffers and calls alone keep ChannelInv.
LEMMA QuietLuaInv ==
  ASSUME ChannelInv, CallRaises \/ Wait \/ Return \/ OtherEvent \/ UNCHANGED vars
  PROVE  ChannelInv'
<1>1. /\ TypeOK /\ Thread /\ UNCHANGED <<csess, disconnects, env, stream, count>>
      /\ UNCHANGED todo
  BY DEF ChannelInv, CallRaises, Wait, Return, OtherEvent, vars, rpc
<1>2. CASE CallRaises
  <2>1. session' = session + 1 /\ session_ctx' = session_ctx \cup {session} /\ UNCHANGED <<pc, back, calling, dispatching>>
    BY <1>2 DEF CallRaises, NextSession, control
  <2>2. Thread'
    BY <1>1, <2>1 DEF Thread, InRead, csess, count
  <2>3. /\ session' \in Nat \ {0} /\ session_ctx' \subseteq 1 .. session' - 1 /\ dispatching' \in 0 .. session' - 1
        /\ todo' \subseteq Nat
        /\ pc' \in {"loop", "read", "lua", "ub"} /\ back' \in {"loop", "read"} /\ calling' \in Nat
    BY <1>1, <2>1 DEF TypeOK
  <2> QED BY <1>1, <2>1, <2>2, <2>3, QuietInv
<1>3. CASE Wait
  <2>1. calling' = 0 /\ UNCHANGED <<pc, back, dispatching, session, session_ctx>>
    BY <1>3 DEF Wait
  <2>2. Thread'
    BY <1>1, <2>1 DEF Thread, InRead, csess, count
  <2> QED BY <1>1, <2>1, <2>2, QuietInv DEF TypeOK
<1>4. CASE Return
  <2>1. /\ pc = "lua" /\ calling = 0 /\ session_ctx' = session_ctx \ {dispatching} /\ dispatching' = 0
        /\ UNCHANGED <<back, calling, session>>
        /\ pc' = IF back = "read" /\ lev.freed THEN "ub" ELSE back
    BY <1>4 DEF Return, Lua
  <2>2. Thread'
    BY <1>1, <2>1 DEF Thread, InRead, csess, count, TypeOK
  <2>3. 0 \notin session_ctx /\ pc' \in {"loop", "read", "lua", "ub"} /\ 0 \in 0 .. session - 1 /\ session_ctx' \subseteq 1 .. session' - 1
    BY <1>1, <2>1 DEF TypeOK
  <2>4. session_ctx \ {dispatching} \subseteq session_ctx' \ {dispatching'}
    BY <2>1, <2>3
  <2>5. todo' \subseteq Nat /\ back' \in {"loop", "read"} /\ calling' \in Nat /\ dispatching' \in 0 .. session' - 1 /\ session' \in Nat \ {0}
    BY <1>1, <2>1, <2>3 DEF TypeOK
  <2> QED BY <1>1, <2>2, <2>3, <2>4, <2>5, QuietInv, Zenon
<1>5. CASE OtherEvent
  <2>1. pc = "loop" /\ pc' = "lua" /\ back' = "loop" /\ UNCHANGED <<calling, dispatching, session, session_ctx>>
    BY <1>5 DEF OtherEvent, CallLua, rpc
  <2>2. Thread'
    BY <1>1, <2>1 DEF Thread, InRead, csess, count
  <2> QED BY <1>1, <2>1, <2>2, QuietInv DEF TypeOK
<1>6. CASE UNCHANGED vars
  <2>1. UNCHANGED <<pc, back, calling, dispatching, session, session_ctx>>
    BY <1>6 DEF vars, control, rpc
  <2>2. Thread'
    BY <1>1, <2>1 DEF Thread, InRead, csess, count
  <2> QED BY <1>1, <2>1, <2>2, QuietInv DEF TypeOK
<1> QED BY <1>2, <1>3, <1>4, <1>5, <1>6

\* channel:close: the session is closing until the output is drained.
LEMMA CloseInv ==
  ASSUME ChannelInv, Close
  PROVE  ChannelInv'
<1>0. TypeOK /\ Stage /\ Thread /\ Buffered /\ OnItsWay /\ lev \in LevRec /\ ev \in EvRec
  BY DEF ChannelInv, TypeOK
<1>1. /\ ~ lev.closed /\ lev' = [lev EXCEPT !.closed = TRUE] /\ closes' = closes + 1
      /\ ev' = [ev EXCEPT !.closing = TRUE, !.rio = FALSE, !.wio = TRUE] /\ pc = "lua"
      /\ UNCHANGED <<pc, back, calling, dispatching, session, session_ctx, disconnects, todo, destroys>>
      /\ UNCHANGED <<wire_in, peer, served, asked, wire_out, accepted, sent>>
  BY DEF Close, Lua, control, rpc, env, stream
<1>2. IsOpen
  BY <1>0, <1>1 DEF Stage, IsOpen, IsClosing, IsMarked, IsFreed
<1>3. /\ lev' \in LevRec /\ lev'.closed /\ lev'.execute = lev.execute /\ ~ lev'.mark /\ ~ lev'.freed
  BY <1>0, <1>1, <1>2, LevIs DEF IsOpen
<1>4. /\ ev' \in EvRec /\ ev'.closing /\ ~ ev'.rio /\ ev'.wio /\ ev'.input = ev.input /\ ev'.output = ev.output
  BY <1>0, <1>1, Zenon DEF EvRec
<1>5. TypeOK'
  BY <1>0, <1>1, <1>3, <1>4 DEF TypeOK
<1>6. Stage'
  BY <1>1, <1>2, <1>3, <1>4 DEF Stage, IsOpen, IsClosing
<1>7. Thread'
  BY <1>0, <1>1, <1>3 DEF Thread, InRead
<1>8. Buffered'
  BY <1>0, <1>1, <1>2, <1>3, <1>4 DEF Buffered, IsOpen
<1>9. OnItsWay'
  BY <1>0, <1>1, <1>2, <1>3, <1>4, WayKept DEF Outward, Homeward, IsOpen
<1> QED BY <1>5, <1>6, <1>7, <1>8, <1>9 DEF ChannelInv

\* channel:close_immediately: the session is freed, or marked below read_complete.
LEMMA CloseImmediatelyInv ==
  ASSUME ChannelInv, CloseImmediately
  PROVE  ChannelInv'
<1>0. TypeOK /\ Stage /\ Thread /\ Buffered /\ OnItsWay /\ lev \in LevRec /\ ev \in EvRec
  BY DEF ChannelInv, TypeOK
<1>1. /\ ~ lev.closed /\ closes' = closes + 1 /\ pc = "lua" /\ disconnects' = disconnects + 1 /\ session_ctx' = {}
      /\ UNCHANGED <<pc, back, calling, dispatching, session, todo>>
      /\ UNCHANGED <<wire_in, peer, served, asked, wire_out, accepted, sent>>
  BY DEF CloseImmediately, Disconnect, Lua, control, env, stream
<1>2. IsOpen
  BY <1>0, <1>1 DEF Stage, IsOpen, IsClosing, IsMarked, IsFreed
<1>3. CASE lev.execute
  <2>1. lev' = [lev EXCEPT !.closed = TRUE, !.mark = TRUE] /\ UNCHANGED <<ev, destroys>>
    BY <1>3 DEF CloseImmediately
  <2>2. lev' \in LevRec /\ lev'.closed /\ lev'.mark /\ lev'.execute /\ ~ lev'.freed
    BY <1>0, <1>2, <1>3, <2>1, Zenon DEF LevRec, IsOpen
  <2>3. TypeOK'
    BY <1>0, <1>1, <2>1, <2>2 DEF TypeOK
  <2>4. Stage'
    BY <1>1, <1>2, <2>1, <2>2 DEF Stage, IsOpen, IsMarked
  <2>5. Thread'
    BY <1>0, <1>1, <1>2, <1>3, <2>2 DEF Thread, InRead, IsOpen
  <2>6. Buffered'
    BY <1>0, <1>1, <1>2, <2>1, <2>2 DEF Buffered, IsOpen
  <2>7. OnItsWay'
    BY <2>2 DEF OnItsWay
  <2> QED BY <2>3, <2>4, <2>5, <2>6, <2>7 DEF ChannelInv
<1>4. CASE ~ lev.execute
  <2>1. lev' = Freed([lev EXCEPT !.closed = TRUE]) /\ ev' = Released(ev) /\ destroys' = destroys + 1
    BY <1>4 DEF CloseImmediately
  <2>2. ErrorOccur(session_ctx)
    BY <2>1 DEF ErrorOccur, CloseImmediately
  <2>3. /\ lev' \in LevRec /\ lev'.closed /\ lev'.freed /\ lev'.execute = lev.execute
        /\ ev' \in EvRec /\ ~ ev'.rio /\ ~ ev'.wio /\ ev'.closing = ev.closing
        /\ ev'.input = <<>> /\ ev'.output = <<>>
    BY <1>0, <2>2, ErrorIs
  <2>4. TypeOK'
    BY <1>0, <1>1, <2>1, <2>3 DEF TypeOK
  <2>5. Stage'
    BY <1>1, <1>2, <2>1, <2>3 DEF Stage, IsOpen, IsFreed
  <2>6. Thread'
    BY <1>0, <1>1, <1>4, <2>3 DEF Thread, InRead
  <2>7. Buffered'
    BY <1>2, <2>3 DEF Buffered, IsOpen
  <2>8. OnItsWay'
    BY <2>3 DEF OnItsWay
  <2> QED BY <2>4, <2>5, <2>6, <2>7, <2>8 DEF ChannelInv
<1> QED BY <1>3, <1>4

-----------------------------------------------------------------------------
(* the event loop *)

\* Outside read_complete a session that is not freed is not marked.
LEMMA LoopIs ==
  ASSUME ChannelInv, pc = "loop", ev.rio \/ ev.wio
  PROVE  /\ IsOpen \/ IsClosing
         /\ ~ lev.execute /\ ~ lev.freed /\ ~ lev.mark /\ calling = 0 /\ dispatching = 0
         /\ ev.rio => IsOpen
BY DEF ChannelInv, Stage, Thread, InRead, IsOpen, IsClosing, IsMarked, IsFreed, TypeOK

\* ReadEvent keeps ChannelInv.
LEMMA ReadEventInv ==
  ASSUME ChannelInv, ReadEvent
  PROVE  ChannelInv'
<1>0. TypeOK /\ Thread /\ Buffered /\ OnItsWay /\ lev \in LevRec /\ ev \in EvRec /\ wire_in \in Seq(Incoming)
  BY DEF ChannelInv, TypeOK
<1>1. pc = "loop" /\ ev.rio /\ lev' = [lev EXCEPT !.execute = TRUE] /\ pc' = "read"
      /\ UNCHANGED <<back, calling, dispatching, session, session_ctx, disconnects, todo, peer, served, asked>>
      /\ UNCHANGED <<wire_out, accepted, sent, destroys, closes>>
  BY DEF ReadEvent, rpc, stream, count
<1>2. IsOpen /\ ~ lev.execute /\ ~ lev.freed /\ ~ lev.mark /\ calling = 0 /\ dispatching = 0
  BY <1>1, LoopIs
<1>3. PICK k \in 1 .. Len(wire_in) : /\ ev' = [ev EXCEPT !.input = @ \o SubSeq(wire_in, 1, k)]
                                    /\ wire_in' = SubSeq(wire_in, k + 1, Len(wire_in))
  BY Zenon DEF ReadEvent
<1>4. k \in 0 .. Len(wire_in) /\ ev.input \in Seq(Incoming)
  BY <1>0, EvIs
<1>5. /\ SubSeq(wire_in, 1, k) \in Seq(Incoming) /\ wire_in' \in Seq(Incoming)
      /\ (ev.input \o SubSeq(wire_in, 1, k)) \o wire_in' = ev.input \o wire_in
  BY <1>0, <1>3, <1>4, MoveConcat, Zenon
<1>6. ev.input \o SubSeq(wire_in, 1, k) \in Seq(Incoming)
  BY <1>4, <1>5, ConcatIs
<1>7. /\ ev' \in EvRec /\ ev'.input = ev.input \o SubSeq(wire_in, 1, k) /\ ev'.output = ev.output
      /\ ev'.rio = ev.rio /\ ev'.wio = ev.wio /\ ev'.closing = ev.closing
  BY <1>0, <1>3, <1>6, Zenon DEF EvRec
<1>8. lev' \in LevRec /\ lev'.execute /\ lev'.closed = lev.closed /\ lev'.mark = lev.mark /\ lev'.freed = lev.freed
  BY <1>0, <1>1, Zenon DEF LevRec
<1>9. TypeOK'
  BY <1>0, <1>1, <1>5, <1>7, <1>8, Zenon DEF TypeOK
<1>10. Stage'
  BY <1>1, <1>2, <1>7, <1>8 DEF Stage, IsOpen
<1>11. Thread'
  BY <1>1, <1>2, <1>8 DEF Thread, InRead
<1>12. Buffered'
  BY <1>0, <1>1, <1>2, <1>7, <1>8 DEF Buffered
<1>13. OnItsWay'
  BY <1>0, <1>1, <1>2, <1>5, <1>7, <1>8, WayKept, Zenon DEF Outward, Homeward
<1> QED BY <1>9, <1>10, <1>11, <1>12, <1>13 DEF ChannelInv

\* The errors the loop meets: the end of the stream, an oversized message, a
\* broken connection.
LEMMA LoopErrorInv ==
  ASSUME ChannelInv, ReadFails \/ WriteEventFails \/ \E m : RejectOversized(m)
  PROVE  ChannelInv'
<1>0. TypeOK /\ Stage /\ Thread
  BY DEF ChannelInv
<1>1. /\ ErrorOccur(session_ctx) /\ pc' = "lua" /\ back' = "loop"
      /\ UNCHANGED <<calling, dispatching, session, todo, env, stream, closes>>
  BY DEF ReadFails, WriteEventFails, RejectOversized, CallLua
<1>2. (IsOpen \/ IsClosing) /\ (ev.closing => peer = "closed" \/ lev.execute)
  <2>1. CASE ReadFails \/ WriteEventFails
    BY <2>1, LoopIs DEF ReadFails, WriteEventFails
  <2>2. CASE \E m : RejectOversized(m)
    <3>1. pc = "read" /\ ~ lev.mark
      BY <2>2 DEF RejectOversized, NextMessage
    <3>2. lev.execute /\ ~ lev.freed
      BY <1>0, <3>1 DEF Thread, InRead
    <3> QED BY <1>0, <3>1, <3>2 DEF Stage, IsMarked, IsFreed
  <2> QED BY <2>1, <2>2, Zenon
<1>3. ~ InRead'
  BY <1>1 DEF InRead
<1>4. calling' \in Nat /\ dispatching' \in 0 .. session' - 1 /\ todo' \subseteq Nat
  BY <1>0, <1>1 DEF TypeOK
<1> QED BY <1>1, <1>2, <1>3, <1>4, FreedInv

\* read_complete takes a message off the input.
LEMMA ConsumeIs ==
  ASSUME ChannelInv, NEW m, NextMessage(m), Consume, wire_in' = wire_in
  PROVE  /\ IsOpen \/ IsClosing
         /\ lev.execute /\ ~ lev.freed /\ ~ lev.mark /\ calling = 0 /\ dispatching = 0
         /\ ev' \in EvRec /\ ev'.rio = ev.rio /\ ev'.wio = ev.wio /\ ev'.closing = ev.closing /\ ev'.output = ev.output
         /\ m \in Incoming /\ Homeward \in Seq(Incoming) /\ Homeward # <<>>
         /\ m = Head(Homeward) /\ Homeward' = Tail(Homeward)
<1>0. TypeOK /\ Stage /\ Thread /\ lev \in LevRec /\ ev \in EvRec /\ wire_in \in Seq(Incoming)
  BY DEF ChannelInv, TypeOK
<1>1. pc = "read" /\ ~ lev.mark /\ ev.input # <<>> /\ m = Head(ev.input)
  BY DEF NextMessage
<1>2. lev.execute /\ ~ lev.freed /\ calling = 0 /\ dispatching = 0
  BY <1>0, <1>1 DEF Thread, InRead
<1>3. IsOpen \/ IsClosing
  BY <1>0, <1>1, <1>2 DEF Stage, IsMarked, IsFreed
<1>4. ev.input \in Seq(Incoming) /\ Tail(ev.input) \in Seq(Incoming) /\ m \in Incoming
  BY <1>0, <1>1, EvIs
<1>5. /\ ev' \in EvRec /\ ev'.rio = ev.rio /\ ev'.wio = ev.wio /\ ev'.closing = ev.closing /\ ev'.output = ev.output
      /\ ev'.input = Tail(ev.input)
  BY <1>0, <1>4, Zenon DEF Consume, EvRec
<1>6. Homeward \in Seq(Incoming)
  BY <1>0, <1>4, ConcatIs DEF Homeward
<1>7. Tail(ev.input) \o wire_in = Tail(Homeward) /\ Homeward # <<>> /\ Head(Homeward) = Head(ev.input)
  BY <1>0, <1>1, <1>4, TailConcat, Zenon DEF Homeward
<1>8. Homeward' = Tail(Homeward)
  BY <1>5, <1>7, Zenon DEF Homeward
<1> QED BY <1>1, <1>2, <1>3, <1>4, <1>5, <1>6, <1>7, <1>8

\* channel:dispatch of a request or of an answer.
LEMMA DispatchInv ==
  ASSUME ChannelInv, NEW m, DispatchRequest(m) \/ DispatchAnswer(m)
  PROVE  ChannelInv'
<1>0. TypeOK /\ Stage /\ Thread /\ Buffered /\ OnItsWay
  BY DEF ChannelInv
<1>1. /\ NextMessage(m) /\ Consume /\ pc' = "lua" /\ back' = "read" /\ UNCHANGED <<lev, destroys>>
      /\ UNCHANGED <<calling, session, session_ctx, disconnects, closes>>
      /\ UNCHANGED <<wire_in, peer, served, asked, wire_out, accepted, sent>>
  BY DEF DispatchRequest, DispatchAnswer, Consume, CallLua, rpc, env, stream
<1>2. /\ IsOpen \/ IsClosing
      /\ lev.execute /\ ~ lev.freed /\ ~ lev.mark /\ calling = 0 /\ dispatching = 0
      /\ ev' \in EvRec /\ ev'.rio = ev.rio /\ ev'.wio = ev.wio /\ ev'.closing = ev.closing /\ ev'.output = ev.output
      /\ m \in Incoming /\ Homeward \in Seq(Incoming) /\ Homeward # <<>>
      /\ m = Head(Homeward) /\ Homeward' = Tail(Homeward)
  BY <1>1, ConsumeIs
<1>3. m \in Msg /\ m.session \in Nat /\ (m.type = "ret" => m.session # 0) /\ Homeward \in Seq(Msg)
  <2>1. m \in Msg /\ m.session \in Nat /\ (m.type = "ret" => m.session # 0)
    BY <1>2 DEF Incoming, Msg
  <2>2. Homeward \in Seq(Msg)
    BY <1>2, MessagesOK
  <2> QED BY <2>1, <2>2
<1>4. /\ todo' \subseteq Nat /\ dispatching' \in 0 .. session' - 1
      /\ m.type = "ret" => dispatching' = m.session
      /\ m.type # "ret" => dispatching' = 0
  <2>1. CASE DispatchRequest(m)
    BY <1>0, <1>1, <1>2, <1>3, <2>1, Zenon DEF DispatchRequest, TypeOK
  <2>2. CASE DispatchAnswer(m)
    BY <1>0, <1>1, <1>2, <1>3, <2>2 DEF DispatchAnswer, TypeOK
  <2> QED BY <2>1, <2>2, Zenon
<1>5. TypeOK'
  BY <1>0, <1>1, <1>2, <1>4, Zenon DEF TypeOK
<1>6. Stage'
  BY <1>1, <1>2, Zenon DEF Stage, IsOpen, IsClosing
<1>7. Thread'
  BY <1>1, <1>2 DEF Thread, InRead
<1>8. Buffered'
  BY <1>0, <1>1, <1>2, Zenon DEF Buffered
<1>9. OnItsWay'
  <2> DEFINE O == Carried(Outward, "req")
             H == Carried(Homeward, "ret")
             O1 == Carried(Outward, "req")'
             H1 == Carried(Homeward, "ret")'
  <2>1. /\ Once(Outward, "req") /\ Once(Homeward, "ret")
        /\ O \cup served \cup H \subseteq session_ctx \ {dispatching}
        /\ O \cap served = {} /\ O \cap H = {} /\ served \cap H = {}
    BY <1>0, <1>2, Zenon DEF OnItsWay
  <2>2. Outward' = Outward
    BY <1>1, <1>2, Zenon DEF Outward
  <2>3. Once(Outward, "req")' /\ O1 = O
    BY <2>1, <2>2, Zenon DEF Once, Carried
  <2>4. /\ Once(Tail(Homeward), "ret")
        /\ Carried(Tail(Homeward), "ret") = IF m.type = "ret" THEN H \ {m.session} ELSE H
        /\ m.type = "ret" => {m.session} \ {0} \subseteq H
    BY <1>2, <1>3, <2>1, CarriedTail, Zenon
  <2>5. Once(Homeward, "ret")' = Once(Tail(Homeward), "ret") /\ H1 = Carried(Tail(Homeward), "ret")
    BY <1>2 DEF Once, Carried
  <2>6. /\ m.type = "ret" => H1 = H \ {m.session} /\ m.session \in H
        /\ m.type # "ret" => H1 = H
    BY <1>3, <2>4, <2>5, Zenon
  <2> HIDE DEF O, H, O1, H1
  <2>7. session_ctx \subseteq 1 .. session - 1 /\ session_ctx' = session_ctx /\ served' = served /\ 0 \notin session_ctx
    BY <1>0, <1>1 DEF TypeOK
  <2>8. /\ O1 \cap served' = {} /\ O1 \cap H1 = {} /\ served' \cap H1 = {}
        /\ O1 \cup served' \cup H1 \subseteq session_ctx' \ {dispatching'}
    <3>1. CASE m.type = "ret"
      BY <1>4, <2>1, <2>3, <2>6, <2>7, <3>1, Zenon
    <3>2. CASE m.type # "ret"
      BY <1>4, <2>1, <2>3, <2>6, <2>7, <3>2
    <3> QED BY <3>1, <3>2, Zenon
  <2> QED BY <2>3, <2>4, <2>5, <2>8, Zenon DEF OnItsWay, O1, H1
<1> QED BY <1>5, <1>6, <1>7, <1>8, <1>9 DEF ChannelInv

\* ReadDone keeps ChannelInv.
LEMMA ReadDoneInv ==
  ASSUME ChannelInv, ReadDone
  PROVE  ChannelInv'
<1>0. TypeOK /\ Stage /\ Thread /\ Buffered /\ OnItsWay /\ lev \in LevRec /\ ev \in EvRec
  BY DEF ChannelInv, TypeOK
<1>1. /\ pc = "read" /\ pc' = "loop" /\ UNCHANGED <<back, calling, dispatching, session, session_ctx, disconnects, todo, closes>>
      /\ UNCHANGED <<wire_in, peer, served, asked, wire_out, accepted, sent>>
  BY DEF ReadDone, rpc, env, stream
<1>2. lev.execute /\ ~ lev.freed /\ calling = 0 /\ dispatching = 0
  BY <1>0, <1>1 DEF Thread, InRead
<1> DEFINE l == [lev EXCEPT !.execute = FALSE]
<1>3. l \in LevRec /\ ~ l.execute /\ l.closed = lev.closed /\ l.mark = lev.mark /\ l.freed = lev.freed
  BY <1>0, Zenon DEF LevRec
<1>4. CASE lev.mark
  <2>1. lev' = Freed(l) /\ ev' = Released(ev) /\ destroys' = destroys + 1
    BY <1>4 DEF ReadDone
  <2> HIDE DEF l
  <2>2. IsMarked
    BY <1>0, <1>2, <1>4 DEF Stage, IsOpen, IsClosing, IsFreed
  <2>3. lev' \in LevRec /\ lev'.freed /\ lev'.closed /\ ~ lev'.execute
    BY <1>3, <2>1, <2>2, LevIs, Zenon DEF IsMarked
  <2>4. /\ ev' \in EvRec /\ ~ ev'.rio /\ ~ ev'.wio /\ ~ ev'.closing /\ ev'.input = <<>> /\ ev'.output = <<>>
    BY <1>0, <2>1, <2>2, EvIs, Zenon DEF IsMarked
  <2>5. TypeOK'
    BY <1>0, <1>1, <2>1, <2>3, <2>4 DEF TypeOK
  <2>6. Stage'
    BY <1>1, <2>1, <2>2, <2>3, <2>4 DEF Stage, IsMarked, IsFreed
  <2>7. Thread' /\ Buffered' /\ OnItsWay'
    BY <1>1, <1>2, <2>3, <2>4 DEF Thread, InRead, Buffered, OnItsWay
  <2> QED BY <2>5, <2>6, <2>7 DEF ChannelInv
<1>5. CASE ~ lev.mark
  <2>1. lev' = l /\ UNCHANGED <<ev, destroys>>
    BY <1>5 DEF ReadDone
  <2> HIDE DEF l
  <2>2. IsOpen \/ IsClosing
    BY <1>0, <1>2, <1>5, Zenon DEF Stage, IsMarked, IsFreed
  <2>3. TypeOK'
    BY <1>0, <1>1, <1>3, <2>1, Zenon DEF TypeOK
  <2>4. Stage'
    BY <1>1, <1>3, <2>1, <2>2, Zenon DEF Stage, IsOpen, IsClosing
  <2>5. Thread'
    BY <1>1, <1>2, <1>3, <2>1, Zenon DEF Thread, InRead
  <2>6. Buffered'
    BY <1>0, <1>1, <1>2, <1>3, <2>1, Zenon DEF Buffered
  <2>7. OnItsWay'
    BY <1>0, <1>1, <1>3, <2>1, WayKept, Zenon DEF Outward, Homeward
  <2> QED BY <2>3, <2>4, <2>5, <2>6, <2>7 DEF ChannelInv
<1> QED BY <1>4, <1>5

\* _ev_write_cb gives the first n messages of the output to the kernel.
LEMMA FlushIs ==
  ASSUME ChannelInv, ~ lev.freed, NEW n \in 0 .. Len(ev.output), Flush(n)
  PROVE  LET rest == SubSeq(ev.output, n + 1, Len(ev.output))
         IN /\ rest \in Seq(Msg) /\ sent' \in Seq(Msg) /\ wire_out' \in Seq(Msg)
            /\ sent' \o rest = accepted /\ wire_out' \o rest = Outward /\ accepted' = accepted
<1>1. /\ ev.output \in Seq(Msg) /\ sent \in Seq(Msg) /\ wire_out \in Seq(Msg) /\ accepted = sent \o ev.output
  BY EvIs DEF ChannelInv, TypeOK, Buffered
<1> DEFINE c == SubSeq(ev.output, 1, n)
           d == SubSeq(ev.output, n + 1, Len(ev.output))
<1>2. c \in Seq(Msg) /\ d \in Seq(Msg) /\ (sent \o c) \o d = sent \o ev.output
  BY <1>1, MoveConcat, Zenon
<1>3. (wire_out \o c) \o d = wire_out \o ev.output
  BY <1>1, MoveConcat, Zenon
<1>4. sent' = sent \o c /\ wire_out' = wire_out \o c /\ accepted' = accepted
  BY DEF Flush
<1> HIDE DEF c, d
<1>5. sent' \in Seq(Msg) /\ wire_out' \in Seq(Msg)
  BY <1>1, <1>2, <1>4, ConcatIs
<1> QED BY <1>1, <1>2, <1>3, <1>4, <1>5, Zenon DEF d, Outward

\* WritePart keeps ChannelInv.
LEMMA WritePartInv ==
  ASSUME ChannelInv, WritePart
  PROVE  ChannelInv'
<1>0. TypeOK /\ Stage /\ Thread /\ Buffered /\ OnItsWay /\ lev \in LevRec /\ ev \in EvRec
  BY DEF ChannelInv, TypeOK
<1>1. /\ pc = "loop" /\ ev.wio /\ UNCHANGED <<lev, pc, back, calling, dispatching, session, session_ctx, disconnects, todo>>
      /\ UNCHANGED <<wire_in, peer, served, asked, destroys, closes>>
  BY DEF WritePart, control, rpc, env, count
<1>2. (IsOpen \/ IsClosing) /\ ~ lev.freed /\ ~ lev.mark
  BY <1>1, LoopIs
<1>3. PICK n \in 1 .. (Len(ev.output) - 1) : Flush(n) /\ ev' = [ev EXCEPT !.output = SubSeq(@, n + 1, Len(@))]
  BY Zenon DEF WritePart
<1> DEFINE rest == SubSeq(ev.output, n + 1, Len(ev.output))
<1>4. n \in 0 .. Len(ev.output)
  <2>1. Len(ev.output) \in Nat
    BY <1>0, EvIs
  <2> QED BY <2>1
<1>5. /\ rest \in Seq(Msg) /\ sent' \in Seq(Msg) /\ wire_out' \in Seq(Msg)
      /\ sent' \o rest = accepted /\ wire_out' \o rest = Outward /\ accepted' = accepted
  BY <1>2, <1>3, <1>4, FlushIs, Zenon
<1>6. ev' = [ev EXCEPT !.output = rest]
  BY <1>0, <1>3 DEF EvRec
<1> HIDE DEF rest
<1>7. /\ ev' \in EvRec /\ ev'.rio = ev.rio /\ ev'.wio = ev.wio /\ ev'.closing = ev.closing /\ ev'.input = ev.input
      /\ ev'.output = rest
  BY <1>0, <1>5, <1>6, Zenon DEF EvRec
<1>8. TypeOK'
  BY <1>0, <1>1, <1>5, <1>7, Zenon DEF TypeOK
<1>9. Stage'
  BY <1>1, <1>2, <1>7 DEF Stage, IsOpen, IsClosing
<1>10. Thread'
  BY <1>0, <1>1 DEF Thread, InRead
<1>11. Buffered'
  BY <1>1, <1>2, <1>5, <1>7, Zenon DEF Buffered
<1>12. OnItsWay'
  BY <1>0, <1>1, <1>5, <1>7, WayKept, Zenon DEF Outward, Homeward
<1> QED BY <1>8, <1>9, <1>10, <1>11, <1>12 DEF ChannelInv

\* The output is drained: nothing is left to lose when close_complete follows.
LEMMA WriteDrainedInv ==
  ASSUME ChannelInv, WriteDrained
  PROVE  ChannelInv'
<1>0. TypeOK /\ Stage /\ Thread /\ Buffered /\ OnItsWay /\ lev \in LevRec /\ ev \in EvRec
  BY DEF ChannelInv, TypeOK
<1>1. /\ pc = "loop" /\ ev.wio /\ Flush(Len(ev.output))
      /\ UNCHANGED <<calling, dispatching, session, todo, wire_in, peer, served, asked, closes>>
  BY DEF WriteDrained, env
<1>2. (IsOpen \/ IsClosing) /\ ~ lev.freed /\ ~ lev.mark /\ ~ lev.execute /\ calling = 0 /\ dispatching = 0
  BY <1>1, LoopIs
<1>3. /\ sent' \in Seq(Msg) /\ wire_out' \in Seq(Msg) /\ sent' = accepted /\ wire_out' = Outward /\ accepted' = accepted
  <2> DEFINE rest == SubSeq(ev.output, Len(ev.output) + 1, Len(ev.output))
  <2>1. ev.output \in Seq(Msg) /\ Len(ev.output) \in Nat /\ Len(ev.output) \in 0 .. Len(ev.output)
    BY <1>0, EvIs
  <2>2. /\ sent' \in Seq(Msg) /\ wire_out' \in Seq(Msg)
        /\ sent' \o rest = accepted /\ wire_out' \o rest = Outward /\ accepted' = accepted
    BY <1>1, <1>2, <2>1, FlushIs, Zenon
  <2>3. rest = <<>>
    <3>1. rest \in Seq(Msg) /\ Len(rest) = Len(ev.output) - Len(ev.output)
      BY <2>1, SubSeqIs
    <3> HIDE DEF rest
    <3>2. Len(rest) = 0
      BY <2>1, <3>1
    <3> QED BY <3>1, <3>2
  <2> HIDE DEF rest
  <2> QED BY <2>2, <2>3, EmptyLast
<1>4. CASE ev.closing
  <2>1. /\ lev' = Freed(lev) /\ ev' = Released(ev) /\ destroys' = destroys + 1 /\ disconnects' = disconnects + 1
        /\ session_ctx' = {} /\ pc' = "lua" /\ back' = "loop"
    BY <1>4 DEF WriteDrained, Disconnect, CallLua
  <2>2. IsClosing
    BY <1>2, <1>4 DEF IsOpen
  <2>3. lev' \in LevRec /\ lev'.freed /\ lev'.closed /\ ~ lev'.execute
    BY <1>0, <1>2, <2>1, <2>2, LevIs, Zenon DEF IsClosing
  <2>4. /\ ev' \in EvRec /\ ~ ev'.rio /\ ~ ev'.wio /\ ev'.input = <<>> /\ ev'.output = <<>>
    BY <1>0, <2>1, EvIs, Zenon
  <2>5. TypeOK'
    BY <1>0, <1>1, <1>3, <2>1, <2>3, <2>4 DEF TypeOK
  <2>6. Stage'
    BY <1>1, <2>1, <2>2, <2>3, <2>4 DEF Stage, IsClosing, IsFreed
  <2>7. Thread' /\ Buffered' /\ OnItsWay'
    BY <1>1, <1>2, <1>3, <2>1, <2>3, <2>4 DEF Thread, InRead, Buffered, OnItsWay
  <2> QED BY <2>5, <2>6, <2>7 DEF ChannelInv
<1>5. CASE ~ ev.closing
  <2>1. /\ ev' = [ev EXCEPT !.output = <<>>, !.wio = FALSE]
        /\ UNCHANGED <<lev, destroys, disconnects, session_ctx, pc, back>>
    BY <1>5 DEF WriteDrained, rpc
  <2>2. IsOpen
    BY <1>2, <1>5 DEF IsClosing
  <2>3. <<>> \in Seq(Msg)
    OBVIOUS
  <2>4. /\ ev' \in EvRec /\ ev'.rio = ev.rio /\ ev'.closing = ev.closing /\ ev'.input = ev.input /\ ev'.output = <<>>
    BY <1>0, <2>1, <2>3, Zenon DEF EvRec
  <2>5. TypeOK'
    BY <1>0, <1>1, <1>3, <2>1, <2>4, Zenon DEF TypeOK
  <2>6. Stage'
    BY <1>1, <2>1, <2>2, <2>4 DEF Stage, IsOpen
  <2>7. Thread'
    BY <1>0, <1>1, <2>1 DEF Thread, InRead
  <2>8. sent' \o ev'.output = accepted' /\ wire_out' \o ev'.output = Outward
    BY <1>3, <2>4, EmptyLast
  <2>9. Buffered'
    BY <1>2, <2>1, <2>4, <2>8, Zenon DEF Buffered
  <2>10. OnItsWay'
    BY <1>0, <1>1, <2>1, <2>4, <2>8, WayKept DEF Outward, Homeward
  <2> QED BY <2>5, <2>6, <2>7, <2>9, <2>10 DEF ChannelInv
<1> QED BY <1>4, <1>5

-----------------------------------------------------------------------------
(* the peer *)

\* What a step of the peer leaves alone.
LEMMA PeerInv ==
  ASSUME ChannelInv, UNCHANGED local, wire_out' \in Seq(Msg), wire_in' \in Seq(Incoming), peer' \in {peer, "closed"},
         served' \subseteq Nat \ {0}, asked' \in Nat, OnItsWay'
  PROVE  ChannelInv'
<1>0. TypeOK /\ Stage /\ Thread /\ Buffered
  BY DEF ChannelInv
<1>1. UNCHANGED <<lev, ev, pc, back, calling, dispatching, session, session_ctx, disconnects, todo, destroys, closes, accepted, sent>>
  BY DEF local, csess, control, rpc, count
<1>2. TypeOK'
  BY <1>0, <1>1 DEF TypeOK
<1>3. Stage' /\ Thread' /\ Buffered'
  BY <1>0, <1>1 DEF Stage, IsOpen, IsClosing, IsMarked, IsFreed, Thread, InRead, Buffered
<1> QED BY <1>2, <1>3 DEF ChannelInv

\* PeerTake keeps ChannelInv.
LEMMA PeerTakeInv ==
  ASSUME ChannelInv, PeerTake
  PROVE  ChannelInv'
<1>1. /\ wire_out # <<>> /\ wire_out' = Tail(wire_out)
      /\ served' = IF Head(wire_out).type = "req" THEN served \cup ({Head(wire_out).session} \ {0}) ELSE served
      /\ UNCHANGED <<local, wire_in, peer, asked>>
  BY DEF PeerTake
<1>2. /\ UNCHANGED <<lev, ev, session_ctx, dispatching>>
      /\ wire_out \in Seq(Msg) /\ ev.output \in Seq(Msg) /\ wire_in \in Seq(Incoming)
      /\ served \subseteq Nat \ {0} /\ asked \in Nat /\ OnItsWay
  BY <1>1, EvIs DEF ChannelInv, TypeOK, local, csess, rpc, control
<1>3. Outward' = Tail(Outward) /\ Outward # <<>> /\ Head(Outward) = Head(wire_out) /\ Outward \in Seq(Msg) /\ Homeward' = Homeward
  BY <1>1, <1>2, TailConcat, ConcatIs, Zenon DEF Outward, Homeward
<1> DEFINE m == Head(wire_out)
<1>4. m \in Msg /\ m.session \in Nat /\ Tail(wire_out) \in Seq(Msg)
  <2>1. m \in Msg /\ Tail(wire_out) \in Seq(Msg)
    BY <1>1, <1>2
  <2> QED BY <2>1 DEF Msg
<1> HIDE DEF m
<1>5. served' = IF m.type = "req" THEN served \cup ({m.session} \ {0}) ELSE served
  BY <1>1 DEF m
<1>6. OnItsWay'
  <2> SUFFICES ASSUME ~ lev'.freed, ~ lev'.mark
               PROVE  OnItsWay'
    BY Zenon DEF OnItsWay
  <2> DEFINE O == Outward
             H == Carried(Homeward, "ret")
             C == Carried(O, "req")
             D == Carried(Tail(O), "req")
  <2>1. /\ Once(O, "req") /\ Once(Homeward, "ret") /\ C \cap served = {} /\ C \cap H = {} /\ served \cap H = {}
        /\ C \cup served \cup H \subseteq session_ctx \ {dispatching}
    BY <1>2, Zenon DEF OnItsWay
  <2>2. Once(O, "req")' /\ Carried(O, "req")' = D /\ Once(Homeward, "ret")' /\ H' = H
    <3>1. Once(O, "req")' = Once(Tail(O), "req") /\ Carried(O, "req")' = D
      BY <1>3, Zenon DEF Once, Carried
    <3>2. Once(Homeward, "ret")' = Once(Homeward, "ret") /\ H' = H
      BY <1>3, Zenon DEF Once, Carried
    <3>3. Once(Tail(O), "req")
      BY <1>3, <2>1, CarriedTail, Zenon
    <3> QED BY <2>1, <3>1, <3>2, <3>3, Zenon
  <2>3. /\ D = IF m.type = "req" THEN C \ {m.session} ELSE C
        /\ m.type = "req" => {m.session} \ {0} \subseteq C
    BY <1>3, <2>1, CarriedTail DEF m
  <2> HIDE DEF C, D, H
  <2>4. /\ D \cap served' = {} /\ D \cap H = {} /\ served' \cap H = {}
        /\ D \cup served' \cup H \subseteq session_ctx \ {dispatching}
    BY <1>5, <2>1, <2>3
  <2> QED BY <1>2, <2>2, <2>4, Zenon DEF OnItsWay, C, H
<1> QED BY <1>1, <1>2, <1>4, <1>5, <1>6, PeerInv, Zenon

\* A message from the peer; an answer is to one of the calls it has taken.
LEMMA PeerSays ==
  ASSUME ChannelInv, NEW m \in Incoming, wire_in' = Append(wire_in, m), UNCHANGED <<local, wire_out, peer>>,
         served' = IF m.type = "ret" THEN served \ {m.session} ELSE served,
         m.type = "ret" => m.session \in served, asked' \in Nat
  PROVE  ChannelInv'
<1>1. /\ UNCHANGED <<lev, ev, session_ctx, dispatching>>
      /\ wire_out \in Seq(Msg) /\ ev.input \in Seq(Incoming) /\ wire_in \in Seq(Incoming)
      /\ served \subseteq Nat \ {0} /\ OnItsWay
  BY EvIs DEF ChannelInv, TypeOK, local, csess, rpc, control
<1>2. m \in Msg /\ (m.type = "ret" => m.session # 0)
  BY DEF Incoming
<1>3. Homeward' = Append(Homeward, m) /\ Homeward \in Seq(Incoming) /\ Outward' = Outward
  <2>1. wire_out' = wire_out /\ ev' = ev /\ wire_in' = Append(wire_in, m)
    BY <1>1
  <2>2. ev.input \o Append(wire_in, m) = Append(ev.input \o wire_in, m)
    <3> DEFINE input == ev.input
    <3>1. input \in Seq(Incoming) /\ wire_in \in Seq(Incoming)
      BY <1>1
    <3> HIDE DEF input
    <3>2. input \o Append(wire_in, m) = Append(input \o wire_in, m)
      BY <3>1, AppendConcat
    <3> QED BY <3>2 DEF input
  <2>3. ev.input \o wire_in \in Seq(Incoming)
    BY <1>1, ConcatIs
  <2> QED BY <2>1, <2>2, <2>3 DEF Homeward, Outward
<1>4. Homeward \in Seq(Msg)
  BY <1>3 DEF Incoming
<1>5. OnItsWay'
  <2> SUFFICES ASSUME ~ lev'.freed, ~ lev'.mark
               PROVE  OnItsWay'
    BY Zenon DEF OnItsWay
  <2> DEFINE H == Homeward
             C == Carried(Outward, "req")
             R == Carried(H, "ret")
             Q == Carried(Append(H, m), "ret")
  <2>1. /\ Once(Outward, "req") /\ Once(H, "ret") /\ C \cap served = {} /\ C \cap R = {} /\ served \cap R = {}
        /\ C \cup served \cup R \subseteq session_ctx \ {dispatching}
    BY <1>1, Zenon DEF OnItsWay
  <2>2. Once(Append(H, m), "ret") /\ Q = IF m.type = "ret" THEN R \cup ({m.session} \ {0}) ELSE R
    <3>1. m.type = "ret" => m.session \notin R
      BY <2>1, Zenon
    <3> QED BY <1>2, <1>4, <2>1, <3>1, CarriedAppend, Zenon
  <2>3. Once(Homeward, "ret")' /\ Carried(Homeward, "ret")' = Q /\ Once(Outward, "req")' /\ C' = C
    <3>1. Once(Homeward, "ret")' = Once(Append(H, m), "ret") /\ Carried(Homeward, "ret")' = Q
      BY <1>3, Zenon DEF Once, Carried
    <3>2. Once(Outward, "req")' = Once(Outward, "req") /\ C' = C
      BY <1>3, Zenon DEF Once, Carried
    <3> QED BY <2>1, <2>2, <3>1, <3>2, Zenon
  <2> HIDE DEF C, R, Q
  <2>4. /\ C \cap served' = {} /\ C \cap Q = {} /\ served' \cap Q = {}
        /\ C \cup served' \cup Q \subseteq session_ctx \ {dispatching}
    BY <2>1, <2>2
  <2> QED BY <1>1, <2>3, <2>4, Zenon DEF OnItsWay, C
<1>6. wire_in' \in Seq(Incoming) /\ served' \subseteq Nat \ {0} /\ wire_out' \in Seq(Msg)
  <2>1. Append(wire_in, m) \in Seq(Incoming)
    BY <1>1
  <2> QED BY <1>1, <2>1, Zenon
<1> QED BY <1>5, <1>6, PeerInv

\* PeerStep keeps ChannelInv.
LEMMA PeerStepInv ==
  ASSUME ChannelInv, PeerStep
  PROVE  ChannelInv'
<1>0. TypeOK /\ OnItsWay /\ served \subseteq Nat \ {0} /\ asked \in Nat /\ wire_out \in Seq(Msg) /\ wire_in \in Seq(Incoming)
  BY DEF ChannelInv, TypeOK
<1>1. CASE PeerTake
  BY <1>1, PeerTakeInv
<1>2. CASE PeerAsk
  <2>1. PICK m \in {Req(asked + 1), Big} : wire_in' = Append(wire_in, m)
    BY <1>2 DEF PeerAsk
  <2>2. m \in Incoming /\ m.type # "ret"
    BY <1>0 DEF Req, Big, Incoming, Msg
  <2> QED BY <1>0, <1>2, <2>1, <2>2, PeerSays DEF PeerAsk
<1>3. CASE PeerClose
  <2>1. UNCHANGED <<local, wire_out, wire_in, served, asked>> /\ peer' = "closed"
    BY <1>3 DEF PeerClose
  <2>2. OnItsWay'
    <3>1. UNCHANGED <<lev, ev, session_ctx, dispatching>>
      BY <2>1 DEF local, csess, rpc, control
    <3> QED BY <1>0, <2>1, <3>1, WayKept DEF Outward, Homeward
  <2> QED BY <1>0, <2>1, <2>2, PeerInv
<1>4. CASE \E s \in served : PeerAnswer(s)
  <2>1. PICK s \in served : PeerAnswer(s)
    BY <1>4
  <2>2. Ret(s) \in Incoming /\ Ret(s).type = "ret" /\ Ret(s).session = s
    BY <1>0 DEF Ret, Incoming, Msg
  <2> QED BY <1>0, <2>1, <2>2, PeerSays DEF PeerAnswer
<1> QED BY <1>1, <1>2, <1>3, <1>4, Zenon DEF PeerStep

-----------------------------------------------------------------------------
\* The invariant holds at first.
LEMMA ChannelInit ==
  ASSUME Init
  PROVE  ChannelInv
<1>1. <<>> \in Seq(Msg) /\ <<>> \in Seq(Incoming)
  OBVIOUS
<1>2. TypeOK
  BY <1>1 DEF Init, TypeOK, LevRec, EvRec
<1>3. Stage /\ Thread
  BY Zenon DEF Init, Stage, IsOpen, Thread, InRead
<1>4. Outward = <<>> /\ Homeward = <<>>
  BY DEF Init, Outward, Homeward
<1>5. Buffered
  BY DEF Init, Buffered
<1>6. Once(Outward, "req") /\ Once(Homeward, "ret") /\ Carried(Outward, "req") = {} /\ Carried(Homeward, "ret") = {}
  BY <1>4 DEF Once, Carried
<1>7. OnItsWay
  BY <1>6 DEF OnItsWay, Init
<1> QED BY <1>2, <1>3, <1>5, <1>7 DEF ChannelInv

\* Every step keeps the invariant.
LEMMA ChannelNext ==
  ASSUME ChannelInv, [Next]_vars
  PROVE  ChannelInv'
<1>1. CASE LuaStep
  BY <1>1, CallInv, SendInv, AnswerInv, QuietLuaInv, CloseInv, CloseImmediatelyInv DEF LuaStep
<1>2. CASE LoopStep
  <2>1. CASE ReadNext
    BY <2>1, DispatchInv, LoopErrorInv DEF ReadNext
  <2> QED BY <1>2, <2>1, QuietLuaInv, ReadEventInv, LoopErrorInv, ReadDoneInv, WritePartInv, WriteDrainedInv DEF LoopStep
<1>3. CASE PeerStep
  BY <1>3, PeerStepInv
<1>4. CASE UNCHANGED vars
  BY <1>4, QuietLuaInv
<1> QED BY <1>1, <1>2, <1>3, <1>4 DEF Next

\* The inductive invariant: the stage of the session, the place of the thread,
\* the accounting of the buffers, and the one place of each unanswered call.
THEOREM ChannelInvariance == Spec => []ChannelInv
<1>1. Init => ChannelInv
  BY ChannelInit
<1>2. ChannelInv /\ [Next]_vars => ChannelInv'
  BY ChannelNext
<1> QED BY <1>1, <1>2, PTL DEF Spec

\* session_destroy and channel:disconnect run once, in whatever order error,
\* close and close_immediately come and from whichever callback.
THEOREM DisconnectsOnce == Spec => []DisconnectOnce
<1>1. ChannelInv => DisconnectOnce
  BY DEF ChannelInv, Stage, IsOpen, IsClosing, IsMarked, IsFreed, DisconnectOnce
<1> QED BY <1>1, ChannelInvariance, PTL

\* What was written before channel:close is with the kernel, whole and in
\* order, when close_complete destroys the session.
THEOREM CloseKeepsOutput == Spec => []CloseFlushes
<1>1. ChannelInv => CloseFlushes
  BY DEF ChannelInv, Buffered, CloseFlushes
<1> QED BY <1>1, ChannelInvariance, PTL

\* read_complete does not go on with a session that a close in its data
\* callback has freed.
THEOREM ReadKeepsSession == Spec => []LoopKeepsSession
<1>1. ChannelInv => LoopKeepsSession
  <2> SUFFICES ASSUME ChannelInv, closes > 0 PROVE pc # "ub" /\ (pc = "read" => ~ lev.freed)
    BY DEF LoopKeepsSession
  <2>1. closes # 0
    BY DEF ChannelInv, TypeOK
  <2> QED BY <2>1 DEF ChannelInv, Thread
<1> QED BY <1>1, ChannelInvariance, PTL

\* channel:dispatch finds in session_ctx the call of every answer it reads,
\* however many calls are under way and in whatever order they are answered.
THEOREM AnswersHaveCalls == Spec => []AnswersExpected
<1>1. ChannelInv => AnswersExpected
  <2> SUFFICES ASSUME ChannelInv, NEW i \in DOMAIN ev.input, ~ lev.mark, ev.input[i].type = "ret"
               PROVE  ev.input[i].session \in session_ctx
    BY Zenon DEF AnswersExpected
  <2>1. /\ ev.input \in Seq(Incoming) /\ wire_in \in Seq(Incoming) /\ OnItsWay /\ Stage
    BY EvIs, Zenon DEF ChannelInv, TypeOK
  <2>2. ~ lev.freed
    <3>1. ev.input # <<>>
      BY <2>1
    <3> QED BY <2>1, <3>1 DEF Stage, IsOpen, IsClosing, IsMarked, IsFreed
  <2>3. i \in 1 .. Len(ev.input) /\ ev.input[i] \in Incoming
    BY <2>1
  <2>4. i \in DOMAIN Homeward /\ Homeward[i] = ev.input[i]
    BY <2>1, <2>3, ConcatIs DEF Homeward
  <2>5. ev.input[i].session # 0
    BY <2>3, Zenon DEF Incoming
  <2>6. ev.input[i].session \in Carried(Homeward, "ret")
    BY <2>4, <2>5 DEF Carried
  <2> QED BY <2>1, <2>2, <2>6, Zenon DEF OnItsWay
<1> QED BY <1>1, ChannelInvariance, PTL
=============================================================================
