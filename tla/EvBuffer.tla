------------------------------ MODULE EvBuffer ------------------------------
(***************************************************************************)
(* The buffered byte stream of luaclib/socket_event.c under one session:   *)
(* chains of data_buffer nodes for input and output, the node freelist of  *)
(* the loop, the direct and the buffered write, and the search for a       *)
(* separator across nodes (read_util, which http.lua uses for headers).    *)
(* A node is the record [node, data, rpos]; its wpos is Len(data).         *)
(***************************************************************************)
EXTENDS Integers, Sequences, FiniteSetsExt

CONSTANTS Byte,                 \* the bytes on the stream
          Sep,                  \* the separator of read_util
          MinBufferSize,        \* MIN_BUFFER_SIZE
          MaxBufferSize,        \* MAX_BUFFER_SIZE
          MaxBytes,             \* bound: bytes the peer sends and bytes written, together
          MaxWrite,             \* bound: bytes of one write
          MaxBuf                \* bound: nodes in the input chain

ASSUME EvBufferAssumption ==
  /\ Sep \in Seq(Byte) /\ Sep # <<>>
  /\ MinBufferSize \in Nat \ {0} /\ MaxBufferSize \in Nat /\ MinBufferSize <= MaxBufferSize
  /\ MaxBytes \in Nat /\ MaxWrite \in Nat /\ MaxBuf \in Nat

VARIABLES
  alive,              \* FALSE once the session has failed and is freed
  input, total,       \* ev_session->input and its total
  threshold,          \* the size of the next read
  output, ototal,     \* ev_session->output and its total
  wio,                \* the write watcher is active
  freelist, fresh,    \* loop_ctx->freelist; the next node malloc returns
  wire, hangup,       \* bytes on their way from the peer; the peer is gone
  received, taken,    \* all bytes the peer sent; all bytes Lua has read
  written, sent,      \* all bytes accepted by write; all bytes given to the kernel
  line                \* the last read_util: unread bytes before it and its result

in == <<input, total, threshold>>
out == <<output, ototal, wio>>
nodes == <<freelist, fresh>>
peer == <<wire, hangup, received>>
vars == <<alive, in, out, nodes, peer, taken, written, sent, line>>

Unread(db) == SubSeq(db.data, db.rpos + 1, Len(db.data))

\* The bytes of a chain in order.
Flat(q) ==
  LET F[n \in 0 .. Len(q)] == IF n = 0 THEN <<>> ELSE F[n - 1] \o Unread(q[n])
  IN F[Len(q)]

Init ==
  /\ alive = TRUE
  /\ input = <<>> /\ total = 0 /\ threshold = MinBufferSize
  /\ output = <<>> /\ ototal = 0 /\ wio = FALSE
  /\ freelist = <<>> /\ fresh = 1
  /\ wire = <<>> /\ hangup = FALSE
  /\ received = <<>> /\ taken = <<>> /\ written = <<>> /\ sent = <<>>
  /\ line = [before |-> <<>>, result |-> <<>>]

-----------------------------------------------------------------------------
(* nodes *)

\* buffer_next: the node it returns, and the freelist and malloc after it
NextNode == IF freelist # <<>> THEN Head(freelist) ELSE fresh
BufferNext ==
  IF freelist # <<>>
  THEN freelist' = Tail(freelist) /\ UNCHANGED fresh
  ELSE fresh' = fresh + 1 /\ UNCHANGED freelist

Buffer(bytes, rpos) == [node |-> NextNode, data |-> bytes, rpos |-> rpos]

\* Fault: a node that is only partly read is dropped.
ChainTakeDrops(acc, db) ==
  LET left == Len(Unread(db))
  IN IF acc.need = 0
     THEN [acc EXCEPT !.rest = Append(@, db)]
     ELSE IF acc.need < left
     THEN [acc EXCEPT !.need = 0, !.gone = <<db.node>> \o @, !.bytes = @ \o SubSeq(Unread(db), 1, acc.need)]
     ELSE [acc EXCEPT !.need = @ - left, !.gone = <<db.node>> \o @, !.bytes = @ \o Unread(db)]

\* one turn of the loop of ev_session_read, with db as the next node
ChainTake(acc, db) ==
  LET left == Len(Unread(db))
  IN IF acc.need = 0
     THEN [acc EXCEPT !.rest = Append(@, db)]
     ELSE IF acc.need < left
     THEN [acc EXCEPT !.need = 0, !.rest = Append(@, [db EXCEPT !.rpos = @ + acc.need]),
                      !.bytes = @ \o SubSeq(Unread(db), 1, acc.need)]
     ELSE [acc EXCEPT !.need = @ - left, !.gone = <<db.node>> \o @, !.bytes = @ \o Unread(db)]

\* n bytes leave a chain: the chain left, the bytes and the nodes reclaimed
Take(q, n) ==
  LET T[k \in 0 .. Len(q)] ==
        IF k = 0 THEN [need |-> n, rest |-> <<>>, gone |-> <<>>, bytes |-> <<>>]
                 ELSE ChainTake(T[k - 1], q[k])
  IN T[Len(q)]

\* Fault: the session fails without a callback, and keeps its chains.
FailKeepsOutput ==
  /\ alive' = FALSE
  /\ UNCHANGED <<input, total, output, ototal, wio>>

\* The session fails: event_cb frees it (ev_session_free releases both chains)
Fail ==
  /\ alive' = FALSE
  /\ input' = <<>> /\ total' = 0
  /\ output' = <<>> /\ ototal' = 0 /\ wio' = FALSE

-----------------------------------------------------------------------------
(* input *)

PeerSend(b) ==
  /\ ~ hangup
  /\ Len(received) + Len(written) < MaxBytes
  /\ received' = Append(received, b)
  /\ wire' = Append(wire, b)
  /\ UNCHANGED <<alive, in, out, nodes, hangup, taken, written, sent, line>>

PeerClose ==
  /\ ~ hangup
  /\ hangup' = TRUE
  /\ UNCHANGED <<alive, in, out, nodes, wire, received, taken, written, sent, line>>

\* _ev_read_cb gets n bytes; none on EAGAIN, which still adds a node
ReadCb(n) ==
  /\ alive
  /\ Len(input) < MaxBuf
  /\ n = 0 => wire = <<>> /\ ~ hangup
  /\ input' = Append(input, Buffer(SubSeq(wire, 1, n), 0))
  /\ total' = total + n
  /\ threshold' = CASE n = threshold -> IF 2 * threshold > MaxBufferSize THEN MaxBufferSize ELSE 2 * threshold
                    [] n \in 1 .. threshold - 1 -> IF threshold \div 2 < MinBufferSize THEN MinBufferSize
                                                                                      ELSE threshold \div 2
                    [] OTHER -> threshold
  /\ BufferNext
  /\ wire' = SubSeq(wire, n + 1, Len(wire))
  /\ UNCHANGED <<alive, out, hangup, received, taken, written, sent, line>>

\* _ev_read_cb meets the end of the stream or an error
ReadCbFails ==
  /\ alive
  /\ hangup /\ wire = <<>>
  /\ Fail
  /\ BufferNext
  /\ UNCHANGED <<threshold, peer, taken, written, sent, line>>

\* ev_session_read of n bytes, the nodes it empties go to the freelist
SessionRead(n) ==
  LET t == Take(input, n)
  IN /\ input' = t.rest
     /\ total' = total - n
     /\ freelist' = t.gone \o freelist
     /\ taken' = taken \o t.bytes

\* _session_read: nothing if fewer bytes are there, everything for size 0
Read(size) ==
  /\ alive
  /\ total # 0 /\ size <= total
  /\ SessionRead(IF size = 0 THEN total ELSE size)
  /\ UNCHANGED <<alive, threshold, out, fresh, peer, written, sent, line>>

\* Fault: the next node is compared with the whole separator again.
MatchNodeWhole(acc, db) ==
  LET sz == Len(db.data) - acc.from
  IN IF acc.found # "more" THEN acc
     ELSE IF sz >= Len(acc.sep)
     THEN [acc EXCEPT !.found = IF SubSeq(db.data, acc.from + 1, acc.from + Len(acc.sep)) = acc.sep THEN "yes" ELSE "no"]
     ELSE IF sz > 0 /\ SubSeq(db.data, acc.from + 1, Len(db.data)) # SubSeq(acc.sep, 1, sz)
     THEN [acc EXCEPT !.found = "no"]
     ELSE [acc EXCEPT !.from = 0]

\* one turn of the loop of check_eol
MatchNode(acc, db) ==
  LET sz == Len(db.data) - acc.from
  IN IF acc.found # "more" THEN acc
     ELSE IF sz >= Len(acc.sep)
     THEN [acc EXCEPT !.found = IF SubSeq(db.data, acc.from + 1, acc.from + Len(acc.sep)) = acc.sep THEN "yes" ELSE "no"]
     ELSE IF sz > 0 /\ SubSeq(db.data, acc.from + 1, Len(db.data)) # SubSeq(acc.sep, 1, sz)
     THEN [acc EXCEPT !.found = "no"]
     ELSE [acc EXCEPT !.sep = SubSeq(@, sz + 1, Len(@)), !.from = 0]

\* check_eol: the separator starts at byte from of node i
CheckEol(i, from) ==
  LET M[k \in 0 .. Len(input) - i + 1] ==
        IF k = 0 THEN [from |-> from, sep |-> Sep, found |-> "more"]
                 ELSE MatchNode(M[k - 1], input[i + k - 1])
  IN M[Len(input) - i + 1].found = "yes"

\* search_eol: the bytes up to the end of the first separator, or -1
SearchEol ==
  LET from(i) == {f \in input[i].rpos .. Len(input[i].data) - 1 : CheckEol(i, f)}
      hits == UNION {{Len(Flat(SubSeq(input, 1, i - 1))) + f - input[i].rpos : f \in from(i)} :
                       i \in 1 .. Len(input)}
  IN IF hits = {} THEN -1 ELSE Min(hits) + Len(Sep)

\* _session_read_util
ReadUtil ==
  /\ alive
  /\ IF SearchEol < 0
     THEN /\ line' = [before |-> Flat(input), result |-> <<>>]
          /\ UNCHANGED <<input, total, freelist, taken>>
     ELSE /\ SessionRead(SearchEol)
          /\ line' = [before |-> Flat(input), result |-> Take(input, SearchEol).bytes]
  /\ UNCHANGED <<alive, threshold, out, fresh, peer, written, sent>>

-----------------------------------------------------------------------------
(* output *)

\* a buffer for what the kernel did not take goes to the end of the output
Enqueue(bytes, rpos) ==
  /\ output' = Append(output, Buffer(bytes, rpos))
  /\ ototal' = ototal + Len(bytes) - rpos
  /\ BufferNext

\* Fault: every write tries the kernel first.
WriteAlwaysDirect(bytes, n) ==
  /\ alive
  /\ Len(received) + Len(written) + Len(bytes) <= MaxBytes
  /\ written' = written \o bytes
  /\ sent' = sent \o SubSeq(bytes, 1, n)
  /\ IF n = Len(bytes)
     THEN UNCHANGED <<out, nodes>>
     ELSE Enqueue(bytes, n) /\ wio' = TRUE
  /\ UNCHANGED <<alive, in, peer, taken, line>>

\* ev_session_write; the kernel takes n bytes of a direct write
Write(bytes, n) ==
  /\ alive
  /\ Len(received) + Len(written) + Len(bytes) <= MaxBytes
  /\ written' = written \o bytes
  /\ IF wio
     THEN n = 0 /\ Enqueue(bytes, 0) /\ UNCHANGED <<wio, sent>>
     ELSE /\ sent' = sent \o SubSeq(bytes, 1, n)
          /\ IF n = Len(bytes)
             THEN UNCHANGED <<out, nodes>>
             ELSE Enqueue(bytes, n) /\ wio' = TRUE
  /\ UNCHANGED <<alive, in, peer, taken, line>>

\* a direct write fails; event_cb frees the session
WriteFails ==
  /\ alive
  /\ ~ wio
  /\ hangup
  /\ Fail
  /\ UNCHANGED <<threshold, nodes, peer, taken, written, sent, line>>

\* _ev_write_cb: the kernel takes n bytes of the chain
WriteCb(n) ==
  LET t == Take(output, n)
  IN /\ alive
     /\ wio
     /\ sent' = sent \o t.bytes
     /\ output' = t.rest
     /\ ototal' = ototal - n
     /\ freelist' = t.gone \o freelist
     /\ wio' = (t.rest # <<>>)
     /\ UNCHANGED <<alive, in, fresh, peer, taken, written, line>>

WriteCbFails ==
  /\ alive
  /\ wio
  /\ hangup
  /\ Fail
  /\ UNCHANGED <<threshold, nodes, peer, taken, written, sent, line>>

\* loop_ctx_clean frees the nodes of the freelist
Clean ==
  /\ freelist # <<>>
  /\ freelist' = <<>>
  /\ UNCHANGED <<alive, in, out, fresh, peer, taken, written, sent, line>>

-----------------------------------------------------------------------------
Drain == \E n \in 1 .. ototal : WriteCb(n)

Next ==
  \/ \E b \in Byte : PeerSend(b)
  \/ PeerClose
  \/ \E n \in 0 .. (IF Len(wire) < threshold THEN Len(wire) ELSE threshold) : ReadCb(n)
  \/ ReadCbFails
  \/ \E size \in 0 .. MaxBytes : Read(size)
  \/ ReadUtil
  \/ \E k \in 1 .. MaxWrite : \E bytes \in [1 .. k -> Byte], n \in 0 .. k : Write(bytes, n)
  \/ WriteFails
  \/ Drain
  \/ WriteCbFails
  \/ Clean

Spec == Init /\ [][Next]_vars

\* libev calls a ready write watcher, and a peer that stays up makes room.
FairSpec == Spec /\ WF_vars(Drain)

-----------------------------------------------------------------------------
\* What Lua has read, what waits in the input chain and what is under way is
\* what the peer sent: _ev_read_cb and ev_session_read lose, repeat and
\* reorder nothing, however the bytes are split over nodes and reads; and the
\* total, by which ev_session_read finds its nodes, counts what waits.
InputIsStream ==
  /\ alive => received = taken \o Flat(input) \o wire
  /\ total = Len(Flat(input))

\* What the kernel was given and what waits in the output chain is what was
\* written, in order, whether a write went directly or through the chain; and
\* the watcher that will drain the chain is active while bytes wait.  The total
\* counts them: _ev_write_cb asserts that a drained chain has total 0.
OutputIsStream ==
  /\ alive => /\ written = sent \o Flat(output)
              /\ output # <<>> => wio
  /\ ototal = Len(Flat(output))

\* read_util returns the shortest prefix of the unread bytes that ends with
\* the separator, and nothing only if the separator is not there.
FirstLine ==
  LET ends == {n \in Len(Sep) .. Len(line.before) : SubSeq(line.before, n - Len(Sep) + 1, n) = Sep}
  IN line.result = IF ends = {} THEN <<>> ELSE SubSeq(line.before, 1, Min(ends))

\* Bytes that wait in the output are sent, or the session fails.
OutputDrains == ototal > 0 ~> ototal = 0

-----------------------------------------------------------------------------
(* The inductive invariant of the proofs *)

Buffers == {db \in [node : Nat, data : Seq(Byte), rpos : Nat] : db.rpos <= Len(db.data)}

TypeOK ==
  /\ input \in Seq(Buffers) /\ output \in Seq(Buffers)
  /\ total \in Nat /\ ototal \in Nat /\ threshold \in Nat
  /\ freelist \in Seq(Nat) /\ fresh \in Nat
  /\ wire \in Seq(Byte) /\ received \in Seq(Byte) /\ taken \in Seq(Byte)
  /\ written \in Seq(Byte) /\ sent \in Seq(Byte)

\* only the first node of a chain is partly read: check_eol goes on with byte 0
\* of a next node
NextUnread(q) == \A i \in 2 .. Len(q) : q[i].rpos = 0

StreamInv ==
  /\ TypeOK /\ NextUnread(input) /\ NextUnread(output)
  /\ InputIsStream /\ OutputIsStream /\ FirstLine
=============================================================================
