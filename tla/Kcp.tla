-------------------------------- MODULE Kcp --------------------------------
(***************************************************************************)
(* luaclib/ikcp.c, the retransmission protocol behind ikcp.new: two peers  *)
(* that exchange datagrams over udp, which loses, duplicates and reorders  *)
(* them.  kcp[n] is the control block of a peer.  An operator takes such a *)
(* block and returns it changed, as the functions of the source do.        *)
(*                                                                         *)
(* Time is left open: a segment that was sent may have timed out, and a    *)
(* window probe may be due, at any flush; the estimate of the round trip,  *)
(* which only sets those times, is left out with it.  All segments of one  *)
(* flush carry the same una and wnd, so a datagram that holds several acts *)
(* as its acknowledgements and probes followed by its pushes one by one;   *)
(* here they are datagrams of their own.  Sequence numbers stay far below  *)
(* 2^31.  A fragment is the pair of its message and its place in it.       *)
(***************************************************************************)
EXTENDS Integers, Sequences, FiniteSets, FiniteSetsExt

CONSTANTS Left, Right,  \* the two peers
          Msg,        \* messages the application sends
          Frags,      \* Frags[m]: the fragments ikcp_send cuts m into
          SndWnd, RcvWnd,  \* SndWnd[n], RcvWnd[n]: what n gives ikcp_wndsize
          NoCwnd,     \* NoCwnd[n]: nocwnd of ikcp_nodelay
          Resend,     \* fastresend of ikcp_nodelay, 0 for none
          WndRcv,     \* IKCP_WND_RCV, the window a peer is taken to have at first
          ThreshMin,  \* IKCP_THRESH_MIN and IKCP_THRESH_INIT
          Script,     \* Script[n], bound: the sequences of messages n may send
          OneWay,     \* bound: only one peer sends
          NetMax,     \* bound: datagrams under way
          NoSeg       \* the datagram carries no IKCP_CMD_PUSH

Node == {Left, Right}
Peer(n) == IF n = Left THEN Right ELSE Left

ASSUME KcpAssumption ==
  /\ Left # Right
  /\ SndWnd \in [Node -> Nat \ {0}] /\ RcvWnd \in [Node -> Nat \ {0}]
  /\ NoCwnd \in [Node -> BOOLEAN]
  /\ Resend \in Nat /\ WndRcv \in Nat /\ ThreshMin \in Nat \ {0}
  /\ Frags \in [Msg -> Nat \ {0}]

VARIABLES kcp,      \* kcp[n]: the control block of n
          net,      \* datagrams under way
          said,     \* messages n has given to ikcp_send (history)
          stream,   \* their segments, each with the number of its message (history)
          heard     \* messages ikcp_recv has returned to n (history)

vars == <<kcp, net, said, stream, heard>>

\* likcp_new, then wndsize and nodelay
ikcp_create(n) ==
  [snd_una |-> 0, snd_nxt |-> 0, rcv_nxt |-> 0,
   snd_wnd |-> SndWnd[n], rcv_wnd |-> RcvWnd[n], rmt_wnd |-> WndRcv, nocwnd |-> NoCwnd[n],
   cwnd |-> 0, ssthresh |-> ThreshMin, probe_wait |-> FALSE, tell |-> FALSE,
   snd_queue |-> <<>>, snd_buf |-> {}, rcv_buf |-> {}, rcv_queue |-> <<>>, acklist |-> {}]

Init ==
  /\ kcp = [n \in Node |-> ikcp_create(n)]
  /\ net = {}
  /\ said = [n \in Node |-> <<>>]
  /\ stream = [n \in Node |-> <<>>]
  /\ heard = [n \in Node |-> <<>>]

-----------------------------------------------------------------------------
Whole(m) == [i \in 1 .. Frags[m] |-> <<m, i>>]

\* the fragments of m; frg counts the ones that follow
Segments(m) == [i \in 1 .. Frags[m] |-> [frg |-> Frags[m] - i, data |-> <<m, i>>]]

ikcp_send(k, m) == [k EXCEPT !.snd_queue = @ \o Segments(m)]

Sns(segs) == {s.sn : s \in segs}

\* Fault: the room in rcv_queue is not looked at.
AvailableAll(k) ==
  Min({c \in 0 .. Cardinality(k.rcv_buf) : k.rcv_nxt + c \notin Sns(k.rcv_buf)})

\* the segments that follow without a gap in rcv_buf, as far as rcv_queue
\* has room for them
Available(k) ==
  LET room == k.rcv_wnd - Len(k.rcv_queue)
  IN Min({room} \cup {c \in 0 .. room : k.rcv_nxt + c \notin Sns(k.rcv_buf)})

Numbered(segs, sn) == CHOOSE s \in segs : s.sn = sn

Move(k) ==
  LET c == Available(k)
      moved == [i \in 1 .. c |-> Numbered(k.rcv_buf, k.rcv_nxt + i - 1)]
  IN [k EXCEPT !.rcv_queue = @ \o moved,
               !.rcv_nxt = @ + c,
               !.rcv_buf = {s \in @ : s.sn >= k.rcv_nxt + c}]

\* Fault: a first fragment is taken for a message.
PeekAnything(k) == k.rcv_queue # <<>>

\* the first message is complete
ikcp_peeksize(k) ==
  /\ k.rcv_queue # <<>>
  /\ Len(k.rcv_queue) >= Head(k.rcv_queue).frg + 1

\* the fragments up to the last one of a message, frg = 0
First(q) == Min({i \in 1 .. Len(q) : q[i].frg = 0} \cup {Len(q)})

Received(k) == [i \in 1 .. First(k.rcv_queue) |-> k.rcv_queue[i].data]

\* they leave the queue; a window that was closed is announced
ikcp_recv(k) ==
  LET read == Move([k EXCEPT !.rcv_queue = SubSeq(@, First(@) + 1, Len(@))])
      recover == Len(k.rcv_queue) >= k.rcv_wnd /\ Len(read.rcv_queue) < k.rcv_wnd
  IN [read EXCEPT !.tell = @ \/ recover]

-----------------------------------------------------------------------------
ikcp_shrink_buf(k) ==
  [k EXCEPT !.snd_una = IF k.snd_buf = {} THEN k.snd_nxt ELSE Min(Sns(k.snd_buf))]

ikcp_parse_una(k, una) ==
  ikcp_shrink_buf([k EXCEPT !.snd_buf = {s \in @ : s.sn >= una}])

ikcp_parse_ack(k, acks) ==
  ikcp_shrink_buf([k EXCEPT !.snd_buf = {s \in @ : s.sn \notin acks}])

\* segments that the newest acknowledgement overtook; counted up to Resend
ikcp_parse_fastack(k, sn) ==
  IF sn \notin k.snd_una .. k.snd_nxt - 1
  THEN k
  ELSE [k EXCEPT !.snd_buf =
         {IF s.sn < sn /\ s.fastack < Resend THEN [s EXCEPT !.fastack = @ + 1] ELSE s : s \in @}]

\* Fault: the acknowledgement is queued before the window is looked at.
PushAcksAll(k, seg) ==
  LET acked == [k EXCEPT !.acklist = @ \cup {seg.sn}]
  IN IF seg.sn \in k.rcv_nxt .. k.rcv_nxt + k.rcv_wnd - 1
     THEN Move([acked EXCEPT !.rcv_buf = @ \cup {seg}])
     ELSE acked

\* IKCP_CMD_PUSH: a segment beyond the window is dropped, one from before it
\* only acknowledged again, another one kept in its place
ikcp_parse_data(k, seg) ==
  IF seg.sn >= k.rcv_nxt + k.rcv_wnd
  THEN k
  ELSE LET acked == [k EXCEPT !.acklist = @ \cup {seg.sn}]
       IN IF seg.sn < k.rcv_nxt
          THEN acked
          ELSE Move([acked EXCEPT !.rcv_buf = IF seg.sn \in Sns(@) THEN @ ELSE @ \cup {seg}])

\* the congestion window grows when snd_una moved; in congestion avoidance
\* only once incr has grown by enough, which "more" stands for.  With nocwnd
\* the window is not looked at and stays as it is here.
Grow(k, una, more) ==
  IF ~k.nocwnd /\ k.snd_una > una /\ k.cwnd < k.rmt_wnd /\ (k.cwnd < k.ssthresh \/ more)
  THEN [k EXCEPT !.cwnd = @ + 1]
  ELSE k

ikcp_input(k, d, more) ==
  LET una == ikcp_parse_una([k EXCEPT !.rmt_wnd = d.wnd, !.tell = @ \/ d.ask], d.una)
      ack == IF d.acks = {}
             THEN una
             ELSE ikcp_parse_fastack(ikcp_parse_ack(una, d.acks), Max(d.acks))
      push == IF d.push = NoSeg THEN ack ELSE ikcp_parse_data(ack, d.push)
  IN Grow(push, k.snd_una, more)

-----------------------------------------------------------------------------
\* Fault: a probe that was lost is not sent again.
ProbeOnce(k, due) == k.rmt_wnd = 0 /\ ~k.probe_wait

\* the remote window has been closed for probe_wait
AskSend(k, due) == k.rmt_wnd = 0 /\ k.probe_wait /\ due

Window(k) ==
  LET wnd == Min({k.snd_wnd, k.rmt_wnd})
  IN IF k.nocwnd THEN wnd ELSE Min({k.cwnd, wnd})

\* snd_queue to snd_buf while snd_nxt is inside the window
Fill(k) ==
  LET c == Max({0, Min({Len(k.snd_queue), k.snd_una + Window(k) - k.snd_nxt})})
      fresh == {[sn |-> k.snd_nxt + i - 1, frg |-> k.snd_queue[i].frg, data |-> k.snd_queue[i].data,
                 xmit |-> FALSE, fastack |-> 0] : i \in 1 .. c}
  IN [k EXCEPT !.snd_buf = @ \cup fresh,
               !.snd_nxt = @ + c,
               !.snd_queue = SubSeq(@, c + 1, Len(@))]

TimedOut(s, expired) == s.xmit /\ s.sn \in expired
Overtaken(s, expired) == s.xmit /\ s.sn \notin expired /\ Resend > 0 /\ s.fastack >= Resend
NeedSend(s, expired) == ~s.xmit \/ TimedOut(s, expired) \/ Overtaken(s, expired)

Transmit(k, expired) ==
  [k EXCEPT !.snd_buf =
    {[s EXCEPT !.xmit = TRUE, !.fastack = IF Overtaken(s, expired) THEN 0 ELSE @] : s \in @}]

\* ssthresh and cwnd after a flush that resent segments
Congestion(k, expired, wnd) ==
  LET lost == \E s \in k.snd_buf : TimedOut(s, expired)
      change == \E s \in k.snd_buf : Overtaken(s, expired)
      halved(w) == Max({ThreshMin, w \div 2})
      inflight == k.snd_nxt - k.snd_una
  IN IF k.nocwnd THEN k ELSE
     [k EXCEPT !.ssthresh = IF lost THEN halved(wnd) ELSE IF change THEN halved(inflight) ELSE @,
               !.cwnd = IF lost THEN 1
                        ELSE IF change THEN halved(inflight) + Resend
                        ELSE Max({1, @})]

\* what a flush starts from: the lists of acknowledgements and probes taken
Taken(k) == Fill([k EXCEPT !.acklist = {}, !.tell = FALSE, !.probe_wait = k.rmt_wnd = 0])

ikcp_flush(k, expired) ==
  Transmit(Congestion(Taken(k), expired, Window(k)), expired)

\* its output: acknowledgements and probes, then the segments pushed
Datagram(n, acks, ask, push) ==
  [to |-> Peer(n), wnd |-> kcp[n].rcv_wnd - Len(kcp[n].rcv_queue), una |-> kcp[n].rcv_nxt,
   acks |-> acks, ask |-> ask, push |-> push]

Answers(n, due) ==
  LET k == kcp[n]
      ask == AskSend(k, due)
  IN IF k.acklist = {} /\ ~ask /\ ~k.tell THEN {} ELSE {Datagram(n, k.acklist, ask, NoSeg)}

Pushes(n, expired) ==
  {Datagram(n, {}, FALSE, [sn |-> s.sn, frg |-> s.frg, data |-> s.data]) :
     s \in {t \in Taken(kcp[n]).snd_buf : NeedSend(t, expired)}}

Output(n, expired, due) == Answers(n, due) \cup Pushes(n, expired)

-----------------------------------------------------------------------------
\* likcp_send
Send(n, m) ==
  /\ \E q \in Script[n] : /\ Len(q) > Len(said[n])
                          /\ Append(said[n], Whole(m)) = [i \in 1 .. Len(said[n]) + 1 |-> Whole(q[i])]
  /\ OneWay => said[Peer(n)] = <<>>
  /\ said' = [said EXCEPT ![n] = Append(@, Whole(m))]
  /\ stream' = [stream EXCEPT ![n] = @ \o [i \in 1 .. Frags[m] |-> <<Len(said'[n]), Segments(m)[i]>>]]
  /\ kcp' = [kcp EXCEPT ![n] = ikcp_send(@, m)]
  /\ UNCHANGED <<net, heard>>

\* likcp_recv, with room for the message
Recv(n) ==
  /\ ikcp_peeksize(kcp[n])
  /\ heard' = [heard EXCEPT ![n] = Append(@, Received(kcp[n]))]
  /\ kcp' = [kcp EXCEPT ![n] = ikcp_recv(@)]
  /\ UNCHANGED <<net, said, stream>>

\* likcp_update when a flush is due: of what was under way and what is sent
\* now the network carries some
Update(n, expired, due, carried) ==
  /\ UNCHANGED <<said, stream, heard>>
  /\ Cardinality(carried) <= NetMax
  /\ net' = carried
  /\ kcp' = [kcp EXCEPT ![n] = ikcp_flush(@, expired)]

\* likcp_input; the datagram may arrive again
Input(n, d, again) ==
  /\ d.to = n
  /\ net' = IF again THEN net ELSE net \ {d}
  /\ \E more \in BOOLEAN : kcp' = [kcp EXCEPT ![n] = ikcp_input(@, d, more)]
  /\ UNCHANGED <<said, stream, heard>>

InFlight(n) == Sns(kcp[n].snd_buf)

Flush(n, expired, due) ==
  \E carried \in SUBSET (net \cup Output(n, expired, due)) : Update(n, expired, due, carried)

Next ==
  \E n \in Node :
    \/ \E m \in Msg : Send(n, m)
    \/ Recv(n)
    \/ \E expired \in SUBSET InFlight(n), due \in {FALSE, kcp[n].rmt_wnd = 0} : Flush(n, expired, due)
    \/ \E d \in net, again \in BOOLEAN : Input(n, d, again)

Spec == Init /\ [][Next]_vars

\* n sends everything that is due, and the network carries ds
Carry(n, ds) == ds # {} /\ Update(n, InFlight(n), TRUE, ds)

\* nothing is due, but the probe timer or the window starts
Idle(n) == Output(n, InFlight(n), TRUE) = {} /\ Update(n, InFlight(n), TRUE, net)

Deliver(n, ds) == \E d \in ds : Input(Peer(n), d, FALSE)

\* an answer or a probe of n; a push of its oldest segment
Answer(n, d) == d.to = Peer(n) /\ d.push = NoSeg
Oldest(n, d) == d.to = Peer(n) /\ d.push # NoSeg /\ d.push.sn = kcp[n].snd_una

\* Updates go on and the application reads; answers sent again and again, and
\* the oldest segment sent again and again, are not lost for ever.
FairSpec ==
  /\ Spec
  /\ \A n \in Node :
       /\ WF_vars(Recv(n))
       /\ WF_vars(Idle(n))
       /\ SF_vars(Carry(n, Answers(n, TRUE)))
       /\ SF_vars(Carry(n, {d \in Pushes(n, InFlight(n)) : Oldest(n, d)}))
       /\ SF_vars(Deliver(n, {d \in net : Answer(n, d)}))
       /\ SF_vars(Deliver(n, {d \in net : Oldest(n, d)}))

-----------------------------------------------------------------------------
\* Every segment the sender has freed is with the receiver: no acknowledgement
\* is sent for a segment that is dropped, and none is taken for another.
AckedIsHeld ==
  \A n \in Node : LET p == Peer(n) IN
    \A sn \in 0 .. kcp[n].snd_nxt - 1 :
      sn \in InFlight(n) \/ sn < kcp[p].rcv_nxt \/ sn \in Sns(kcp[p].rcv_buf)

\* A peer buffers no more than two windows, however much arrives, and sends no
\* more than one ahead.
WindowKept ==
  \A n \in Node :
    /\ Len(kcp[n].rcv_queue) <= RcvWnd[n]
    /\ Cardinality(kcp[n].rcv_buf) <= RcvWnd[n]
    /\ kcp[n].snd_nxt - kcp[n].snd_una <= SndWnd[n]

Latest(q) == IF q = <<>> THEN NoSeg ELSE q[Len(q)]

\* The messages of one peer, as the other one hears them.
Forth == INSTANCE Fifo WITH
  Msg <- {Whole(m) : m \in Msg}, NoMsg <- NoSeg,
  pushed <- said[Left], popped <- heard[Right], answer <- Latest(heard[Right])

Back == INSTANCE Fifo WITH
  Msg <- {Whole(m) : m \in Msg}, NoMsg <- NoSeg,
  pushed <- said[Right], popped <- heard[Left], answer <- Latest(heard[Left])

\* Whatever udp loses, repeats or reorders: messages arrive whole, once and in
\* the order in which they were sent.
LinkIsFifo == Forth!Spec /\ Back!Spec

\* Every message sent is received: lost segments, acknowledgements and
\* window announcements are made good by timeouts and probes.
EveryMessageArrives == \A n \in Node : []<>(heard[Peer(n)] = said[n])
=============================================================================
