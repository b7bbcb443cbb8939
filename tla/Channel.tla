------------------------------ MODULE Channel ------------------------------
(***************************************************************************)
(* An RPC channel of lualib/channel.lua over its session: the userdata of  *)
(* luaclib/lua-ev.c (lev) and the buffered socket of socket_event.c (ev).  *)
(*                                                                         *)
(* One thread runs everything on this side.  pc says what it is doing:     *)
(* waiting in the event loop ("loop"), in the loop of read_complete        *)
(* ("read") or running Lua code that one of them called ("lua").  Lua code *)
(* calls back into C: a call, a close or an answer changes the session     *)
(* while read_complete still uses it.  "ub" is reached when C goes on with *)
(* a session that was freed.  The peer and the network run concurrently.   *)
(***************************************************************************)
EXTENDS Naturals, Sequences

CONSTANTS MaxCall,    \* bound: calls and sends made here
          MaxAsk,     \* bound: requests the peer makes
          MaxClose    \* bound: closes made here

ASSUME ChannelAssumption == MaxCall \in Nat /\ MaxAsk \in Nat /\ MaxClose \in Nat

Session == 1 .. MaxCall

VARIABLES
  lev,           \* struct lua_ev_session: closed, execute, mark; freed: destroyed
  ev,            \* struct ev_session: watchers rio and wio, closing, buffers
  pc, back,      \* what the thread does; where Lua code returns to
  calling,       \* the call about to yield, or 0
  dispatching,   \* the answered session that channel:dispatch clears at its end
  session,       \* the next session
  session_ctx,   \* calls that expect an answer
  co_wait,       \* sessions with a waiting coroutine
  call,          \* how each call stands
  todo,          \* requests of the peer whose handler has not answered
  wire_out, wire_in, peer, served, asked,    \* the network and the peer
  accepted, sent,                            \* messages written; given to the kernel
  disconnects, destroys, closes, nowaiter    \* what happened, for the properties

csess == <<lev, ev>>
rpc == <<session_ctx, co_wait, call, disconnects, nowaiter>>
env == <<wire_in, peer, served, asked>>
stream == <<wire_out, accepted, sent>>
count == <<destroys, closes>>
control == <<pc, back, calling, dispatching>>
vars == <<csess, control, session, rpc, todo, env, stream, count>>

Req(s) == [type |-> "req", session |-> s]
Ret(s) == [type |-> "ret", session |-> s]
Big == [type |-> "big", session |-> 0]
Init ==
  /\ lev = [closed |-> FALSE, execute |-> FALSE, mark |-> FALSE, freed |-> FALSE]
  /\ ev = [rio |-> TRUE, wio |-> FALSE, closing |-> FALSE, input |-> <<>>, output |-> <<>>]
  /\ pc = "loop" /\ back = "loop" /\ calling = 0 /\ dispatching = 0
  /\ session = 1
  /\ session_ctx = {} /\ co_wait = {}
  /\ call = [s \in Session |-> "none"]
  /\ todo = {}
  /\ wire_out = <<>> /\ wire_in = <<>> /\ peer = "up" /\ served = {} /\ asked = 0
  /\ accepted = <<>> /\ sent = <<>>
  /\ disconnects = 0 /\ destroys = 0 /\ closes = 0 /\ nowaiter = {}

-----------------------------------------------------------------------------
(* session_destroy, disconnect and error_occur *)

\* session_destroy: watchers off, buffers released, memory freed
Freed(l) == [l EXCEPT !.freed = TRUE]
Released(e) == [e EXCEPT !.rio = FALSE, !.wio = FALSE, !.input = <<>>, !.output = <<>>]

\* channel:disconnect with ctx as its calls: wake each with "buffer closed"
Disconnect(ctx) ==
  /\ co_wait' = co_wait \ ctx
  /\ call' = [s \in Session |-> IF s \in ctx \cap co_wait THEN "failed" ELSE call[s]]
  /\ nowaiter' = nowaiter \cup (ctx \ co_wait)
  /\ session_ctx' = {}
  /\ disconnects' = disconnects + 1

\* error_occur: the session goes first, then Lua hears of it
ErrorOccur(ctx) ==
  /\ lev' = Freed([lev EXCEPT !.closed = TRUE])
  /\ ev' = Released(ev)
  /\ destroys' = destroys + 1
  /\ Disconnect(ctx)

-----------------------------------------------------------------------------
(* ev_session_write *)

\* Fault: a message may go to the kernel before the buffered ones.
WriteBypass(m) ==
  /\ ~ lev.closed
  /\ accepted' = Append(accepted, m)
  /\ \/ /\ sent' = Append(sent, m)
        /\ wire_out' = Append(wire_out, m)
        /\ UNCHANGED ev
     \/ /\ ev' = [ev EXCEPT !.output = Append(@, m), !.wio = TRUE]
        /\ UNCHANGED <<sent, wire_out>>

\* The kernel takes the whole message, or it is buffered behind what waits.
Write(m) ==
  /\ ~ lev.closed
  /\ accepted' = Append(accepted, m)
  /\ \/ /\ ~ ev.wio
        /\ sent' = Append(sent, m)
        /\ wire_out' = Append(wire_out, m)
        /\ UNCHANGED ev
     \/ /\ ev' = [ev EXCEPT !.output = Append(@, m), !.wio = TRUE]
        /\ UNCHANGED <<sent, wire_out>>

\* The direct write reports an error, and event_cb runs before write returns.
WriteFails(ctx) ==
  /\ ~ lev.closed
  /\ ~ ev.wio
  /\ peer = "closed"
  /\ ErrorOccur(ctx)
  /\ UNCHANGED stream

-----------------------------------------------------------------------------
(* Lua code: channel:call, send, ret, close, close_immediately *)

Lua == pc = "lua" /\ calling = 0

NextSession ==
  /\ session <= MaxCall
  /\ session' = session + 1

\* channel:call up to the write
Call ==
  /\ Lua
  /\ NextSession
  /\ calling' = session
  /\ \/ /\ Write(Req(session))
        /\ session_ctx' = session_ctx \cup {session}
        /\ UNCHANGED <<co_wait, call, disconnects, nowaiter, lev, destroys>>
     \/ WriteFails(session_ctx \cup {session})
  /\ UNCHANGED <<pc, back, dispatching, todo, env, closes>>

\* buffer:write raises "session already closed": the entry stays
CallRaises ==
  /\ Lua
  /\ NextSession
  /\ lev.closed
  /\ session_ctx' = session_ctx \cup {session}
  /\ call' = [call EXCEPT ![session] = "raised"]
  /\ UNCHANGED <<csess, control, co_wait, disconnects, nowaiter, todo, env, stream, count>>

\* event.wait: the coroutine yields and co_monitor files it
Wait ==
  /\ calling # 0
  /\ co_wait' = co_wait \cup {calling}
  /\ call' = [call EXCEPT ![calling] = "waiting"]
  /\ calling' = 0
  /\ UNCHANGED <<csess, pc, back, dispatching, session, session_ctx, disconnects, nowaiter,
                 todo, env, stream, count>>

\* channel:send: the message carries session 0, also when there is a callback
\* (its entry is then never looked up); the session it takes bounds the sends
Send ==
  /\ Lua
  /\ NextSession
  /\ \/ /\ Write(Req(0))
        /\ UNCHANGED <<rpc, lev, destroys>>
     \/ WriteFails(session_ctx)
  /\ UNCHANGED <<control, todo, env, closes>>

\* channel:ret of the handler of request r; an error ends the coroutine
Answer(r) ==
  /\ Lua
  /\ r \in todo
  /\ todo' = todo \ {r}
  /\ \/ /\ Write(Ret(r))
        /\ UNCHANGED <<rpc, lev, destroys>>
     \/ WriteFails(session_ctx)
     \/ /\ lev.closed
        /\ UNCHANGED <<rpc, csess, destroys, stream>>
  /\ UNCHANGED <<control, session, env, closes>>

\* channel:close: close_complete runs once the output is drained
Close ==
  /\ Lua
  /\ closes < MaxClose
  /\ ~ lev.closed
  /\ lev' = [lev EXCEPT !.closed = TRUE]
  /\ ev' = [ev EXCEPT !.closing = TRUE, !.rio = FALSE, !.wio = TRUE]
  /\ closes' = closes + 1
  /\ UNCHANGED <<control, session, rpc, todo, env, stream, destroys>>

\* Fault: a session that is already closed is closed again.
CloseImmediatelyAgain ==
  /\ Lua
  /\ closes < MaxClose
  /\ closes' = closes + 1
  /\ lev' = [lev EXCEPT !.closed = TRUE, !.mark = TRUE]
  /\ Disconnect(session_ctx)
  /\ UNCHANGED <<ev, destroys, control, session, todo, env, stream>>

\* Fault: the session is destroyed although read_complete runs.
CloseImmediatelyNow ==
  /\ Lua
  /\ closes < MaxClose
  /\ ~ lev.closed
  /\ closes' = closes + 1
  /\ lev' = Freed([lev EXCEPT !.closed = TRUE])
  /\ ev' = Released(ev)
  /\ destroys' = destroys + 1
  /\ Disconnect(session_ctx)
  /\ UNCHANGED <<control, session, todo, env, stream>>

\* Fault: disconnect is not called.
CloseImmediatelyQuiet ==
  /\ Lua
  /\ closes < MaxClose
  /\ ~ lev.closed
  /\ closes' = closes + 1
  /\ lev' = Freed([lev EXCEPT !.closed = TRUE])
  /\ ev' = Released(ev)
  /\ destroys' = destroys + 1
  /\ UNCHANGED <<control, session, rpc, todo, env, stream>>

\* channel:close_immediately: read_complete destroys the session if it runs
CloseImmediately ==
  /\ Lua
  /\ closes < MaxClose
  /\ ~ lev.closed
  /\ closes' = closes + 1
  /\ IF lev.execute
     THEN /\ lev' = [lev EXCEPT !.closed = TRUE, !.mark = TRUE]
          /\ UNCHANGED <<ev, destroys>>
     ELSE /\ lev' = Freed([lev EXCEPT !.closed = TRUE])
          /\ ev' = Released(ev)
          /\ destroys' = destroys + 1
  /\ Disconnect(session_ctx)
  /\ UNCHANGED <<control, session, todo, env, stream>>

\* Lua returns to C; dispatch first drops the answered session
Return ==
  /\ Lua
  /\ session_ctx' = session_ctx \ {dispatching}
  /\ dispatching' = 0
  /\ pc' = IF back = "read" /\ lev.freed THEN "ub" ELSE back
  /\ UNCHANGED <<csess, back, calling, session, co_wait, call, disconnects, nowaiter,
                 todo, env, stream, count>>

-----------------------------------------------------------------------------
(* the event loop *)

\* C calls Lua, which returns to caller
CallLua(caller) ==
  /\ pc' = "lua"
  /\ back' = caller

\* a timer or another channel runs Lua code
OtherEvent ==
  /\ pc = "loop"
  /\ CallLua("loop")
  /\ UNCHANGED <<csess, calling, dispatching, session, rpc, todo, env, stream, count>>

\* _ev_read_cb gets some messages and calls read_complete
ReadEvent ==
  /\ pc = "loop"
  /\ ev.rio
  /\ \E k \in 1 .. Len(wire_in) :
       /\ ev' = [ev EXCEPT !.input = @ \o SubSeq(wire_in, 1, k)]
       /\ wire_in' = SubSeq(wire_in, k + 1, Len(wire_in))
  /\ lev' = [lev EXCEPT !.execute = TRUE]
  /\ pc' = "read"
  /\ UNCHANGED <<back, calling, dispatching, session, rpc, todo, peer, served, asked, stream, count>>

\* _ev_read_cb meets the end of the stream
ReadFails ==
  /\ pc = "loop"
  /\ ev.rio
  /\ wire_in = <<>>
  /\ peer = "closed"
  /\ ErrorOccur(session_ctx)
  /\ CallLua("loop")
  /\ UNCHANGED <<calling, dispatching, session, todo, env, stream, closes>>

\* read_complete takes the next message while the session is not marked
NextMessage(m) ==
  /\ pc = "read"
  /\ ~ lev.mark
  /\ ev.input # <<>>
  /\ m = Head(ev.input)

\* Fault: the message stays in the buffer.
ConsumeNothing ==
  UNCHANGED <<ev, lev, destroys>>

Consume ==
  /\ ev' = [ev EXCEPT !.input = Tail(@)]
  /\ UNCHANGED <<lev, destroys>>

\* channel:dispatch of a request forks call_method
DispatchRequest(m) ==
  /\ NextMessage(m)
  /\ m.type = "req"
  /\ Consume
  /\ todo' = todo \cup {m.session}
  /\ CallLua("read")
  /\ UNCHANGED <<calling, dispatching, session, rpc, env, stream, closes>>

\* channel:dispatch of an answer wakes the caller
DispatchAnswer(m) ==
  /\ NextMessage(m)
  /\ m.type = "ret"
  /\ m.session \in session_ctx
  /\ Consume
  /\ co_wait' = co_wait \ {m.session}
  /\ call' = [call EXCEPT ![m.session] = "answered"]
  /\ dispatching' = m.session
  /\ CallLua("read")
  /\ UNCHANGED <<calling, session, session_ctx, disconnects, nowaiter, todo, env, stream, closes>>

\* a message above MAX_PACKET_SIZE ends the session and read_complete
RejectOversized(m) ==
  /\ NextMessage(m)
  /\ m.type = "big"
  /\ ErrorOccur(session_ctx)
  /\ CallLua("loop")
  /\ UNCHANGED <<calling, dispatching, session, todo, env, stream, closes>>

ReadNext ==
  \E m \in {ev.input[i] : i \in DOMAIN ev.input} :
    DispatchRequest(m) \/ DispatchAnswer(m) \/ RejectOversized(m)

\* read_complete ends: no whole message is left, or the session is marked
ReadDone ==
  /\ pc = "read"
  /\ pc' = "loop"
  /\ IF lev.mark
     THEN /\ lev' = Freed([lev EXCEPT !.execute = FALSE])
          /\ ev' = Released(ev)
          /\ destroys' = destroys + 1
     ELSE /\ ev.input = <<>>
          /\ lev' = [lev EXCEPT !.execute = FALSE]
          /\ UNCHANGED <<ev, destroys>>
  /\ UNCHANGED <<back, calling, dispatching, session, rpc, todo, env, stream, closes>>

\* the kernel takes the first n messages of the output
Flush(n) ==
  /\ sent' = sent \o SubSeq(ev.output, 1, n)
  /\ wire_out' = wire_out \o SubSeq(ev.output, 1, n)
  /\ UNCHANGED accepted

\* _ev_write_cb writes a part of the output
WritePart ==
  /\ pc = "loop"
  /\ ev.wio
  /\ \E n \in 1 .. (Len(ev.output) - 1) :
       /\ Flush(n)
       /\ ev' = [ev EXCEPT !.output = SubSeq(@, n + 1, Len(@))]
  /\ UNCHANGED <<lev, control, session, rpc, todo, env, count>>

\* _ev_write_cb drains the output; close_complete follows if closing
WriteDrained ==
  /\ pc = "loop"
  /\ ev.wio
  /\ Flush(Len(ev.output))
  /\ IF ev.closing
     THEN /\ lev' = Freed(lev)
          /\ ev' = Released(ev)
          /\ destroys' = destroys + 1
          /\ Disconnect(session_ctx)
          /\ CallLua("loop")
     ELSE /\ ev' = [ev EXCEPT !.output = <<>>, !.wio = FALSE]
          /\ UNCHANGED <<lev, destroys, rpc, pc, back>>
  /\ UNCHANGED <<calling, dispatching, session, todo, env, closes>>

\* _ev_write_cb meets a broken connection
WriteEventFails ==
  /\ pc = "loop"
  /\ ev.wio
  /\ ev.output # <<>>
  /\ peer = "closed"
  /\ ErrorOccur(session_ctx)
  /\ CallLua("loop")
  /\ UNCHANGED <<calling, dispatching, session, todo, env, stream, closes>>

-----------------------------------------------------------------------------
(* the peer: takes requests in order, answers them in any order *)

local == <<csess, control, session, rpc, todo, count, accepted, sent>>

PeerTake ==
  /\ peer = "up"
  /\ wire_out # <<>>
  /\ wire_out' = Tail(wire_out)
  /\ served' = IF Head(wire_out).type = "req" THEN served \cup ({Head(wire_out).session} \ {0}) ELSE served
  /\ UNCHANGED <<local, wire_in, peer, asked>>

PeerAnswer(s) ==
  /\ peer = "up"
  /\ s \in served
  /\ served' = served \ {s}
  /\ wire_in' = Append(wire_in, Ret(s))
  /\ UNCHANGED <<local, wire_out, peer, asked>>

PeerAsk ==
  /\ peer = "up"
  /\ asked < MaxAsk
  /\ asked' = asked + 1
  /\ \E m \in {Req(asked + 1), Big} : wire_in' = Append(wire_in, m)
  /\ UNCHANGED <<local, wire_out, peer, served>>

PeerClose ==
  /\ peer = "up"
  /\ peer' = "closed"
  /\ UNCHANGED <<local, wire_out, wire_in, served, asked>>

-----------------------------------------------------------------------------
LuaStep ==
  \/ Call \/ CallRaises \/ Wait \/ Send
  \/ \E r \in todo : Answer(r)
  \/ Close \/ CloseImmediately \/ Return

LoopStep ==
  \/ OtherEvent
  \/ ReadEvent \/ ReadFails \/ ReadNext \/ ReadDone
  \/ WritePart \/ WriteDrained \/ WriteEventFails

PeerStep ==
  \/ PeerTake \/ PeerAsk \/ PeerClose
  \/ \E s \in served : PeerAnswer(s)

Next == LuaStep \/ LoopStep \/ PeerStep

Spec == Init /\ [][Next]_vars

\* libev calls the callback of every ready watcher once per iteration, Lua
\* code returns, and a peer that stays up reads and answers.
FairSpec ==
  /\ Spec
  /\ WF_vars(Wait) /\ WF_vars(Return) /\ WF_vars(ReadNext) /\ WF_vars(ReadDone)
  /\ SF_vars(ReadEvent) /\ SF_vars(ReadFails)
  /\ SF_vars(WriteDrained \/ WriteEventFails)
  /\ WF_vars(PeerTake) /\ \A s \in Session : WF_vars(PeerAnswer(s))

-----------------------------------------------------------------------------
\* The session is destroyed at most once, and channel:disconnect runs exactly
\* once for it, whichever of error, close and immediate close come first and
\* whether they come from the loop or from a data callback.
DisconnectOnce ==
  /\ disconnects <= 1 /\ destroys <= 1
  /\ lev.freed => disconnects = 1

\* channel.close: "make sure the buffervent data send out": a session that is
\* closed gracefully is destroyed after the kernel took all that was written
\* to it, in order, unless the peer was gone or sent an oversized message
\* (read_complete then returns with execute still set).
CloseFlushes ==
  /\ ~ lev.freed => accepted = sent \o ev.output
  /\ lev.freed /\ ev.closing /\ peer = "up" /\ ~ lev.execute => accepted = sent

\* read_complete never goes on with a session that Lua code has closed and
\* freed in its data callback: mark and execute see to that.  (A direct write
\* that fails there does free it; closes is 0 then.)
LoopKeepsSession == closes > 0 => pc # "ub" /\ (pc = "read" => ~ lev.freed)

\* channel:dispatch finds the call an answer belongs to: it would index nil
\* otherwise.
AnswersExpected ==
  \A i \in DOMAIN ev.input : ~ lev.mark /\ ev.input[i].type = "ret" => ev.input[i].session \in session_ctx

\* Every call of a coroutine that waits is answered or fails, whatever closes
\* or breaks, unless its own direct write failed.
EveryCallReturns ==
  \A s \in Session :
    call[s] = "waiting" /\ s \notin nowaiter ~> call[s] \in {"answered", "failed"}

-----------------------------------------------------------------------------
(* the inductive invariant *)

Msg == [type : {"req", "ret", "big"}, session : Nat]
Incoming == {m \in Msg : m.type = "ret" => m.session # 0}

LevRec == [closed : BOOLEAN, execute : BOOLEAN, mark : BOOLEAN, freed : BOOLEAN]
EvRec == [rio : BOOLEAN, wio : BOOLEAN, closing : BOOLEAN, input : Seq(Incoming), output : Seq(Msg)]

TypeOK ==
  /\ lev \in LevRec /\ ev \in EvRec
  /\ pc \in {"loop", "read", "lua", "ub"} /\ back \in {"loop", "read"}
  /\ calling \in Nat /\ dispatching \in 0 .. session - 1
  /\ session \in Nat \ {0} /\ session_ctx \subseteq 1 .. session - 1 /\ todo \subseteq Nat
  /\ wire_out \in Seq(Msg) /\ wire_in \in Seq(Incoming) /\ peer \in {"up", "closed"}
  /\ served \subseteq Nat \ {0} /\ asked \in Nat
  /\ accepted \in Seq(Msg) /\ sent \in Seq(Msg)
  /\ disconnects \in Nat /\ destroys \in Nat /\ closes \in Nat

\* The four stages of a session.
IsOpen ==
  /\ ~ lev.closed /\ ~ lev.mark /\ ~ lev.freed /\ ~ ev.closing
  /\ disconnects = 0 /\ destroys = 0 /\ closes = 0
IsClosing ==
  /\ lev.closed /\ ~ lev.mark /\ ~ lev.freed /\ ev.closing /\ ~ ev.rio /\ ev.wio
  /\ disconnects = 0 /\ destroys = 0
IsMarked ==
  /\ lev.closed /\ lev.mark /\ ~ lev.freed /\ ~ ev.closing /\ lev.execute
  /\ disconnects = 1 /\ destroys = 0
IsFreed ==
  /\ lev.closed /\ lev.freed /\ ~ ev.rio /\ ~ ev.wio /\ ev.input = <<>> /\ ev.output = <<>>
  /\ disconnects = 1 /\ destroys = 1
Stage == IsOpen \/ IsClosing \/ IsMarked \/ IsFreed

\* execute is set while read_complete is on the stack; only a write that fails
\* frees the session below it.
InRead == pc = "read" \/ (pc = "lua" /\ back = "read")
Thread ==
  /\ InRead => lev.execute
  /\ lev.execute /\ ~ lev.freed => InRead
  /\ lev.freed => pc # "read"
  /\ lev.freed /\ InRead => closes = 0
  /\ pc = "ub" => lev.freed /\ closes = 0
  /\ calling # 0 => pc = "lua"
  /\ dispatching # 0 => pc = "lua"

Buffered ==
  /\ ~ lev.freed => accepted = sent \o ev.output /\ (~ ev.wio => ev.output = <<>>)
  /\ lev.freed /\ ev.closing /\ peer = "up" /\ ~ lev.execute => accepted = sent

\* The sessions that the messages of type t in q carry; none is carried twice.
Carried(q, t) == {q[i].session : i \in {j \in DOMAIN q : q[j].type = t}} \ {0}
Once(q, t) ==
  \A i, j \in DOMAIN q :
    q[i].type = t /\ q[j].type = t /\ q[i].session = q[j].session /\ q[i].session # 0 => i = j

\* A call that is not answered yet is in one place on its way there and back.
Outward == wire_out \o ev.output
Homeward == ev.input \o wire_in
OnItsWay ==
  ~ lev.freed /\ ~ lev.mark =>
    /\ Once(Outward, "req") /\ Once(Homeward, "ret")
    /\ Carried(Outward, "req") \cap served = {}
    /\ Carried(Outward, "req") \cap Carried(Homeward, "ret") = {}
    /\ served \cap Carried(Homeward, "ret") = {}
    /\ Carried(Outward, "req") \cup served \cup Carried(Homeward, "ret") \subseteq session_ctx \ {dispatching}

ChannelInv == TypeOK /\ Stage /\ Thread /\ Buffered /\ OnItsWay
=============================================================================
