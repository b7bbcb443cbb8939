------------------------------ MODULE Account ------------------------------
(***************************************************************************)
(* An account on its way through the servers: module/login_server.lua lets *)
(* a client in, sends its user to an agent and remembers where it is;      *)
(* module/agent_server.lua takes the user over under a token, loads it,    *)
(* and when it leaves saves it and tells the login server, which then lets *)
(* the next client of the account in.  Each server is one thread that runs *)
(* a handler up to its next wait; channels between servers and connections *)
(* to the database are first in, first out.  Agents crash.                 *)
(*                                                                         *)
(* An account has one role, so its uid is the account; a token is the      *)
(* number of the session it was made for, and that number is also the cid  *)
(* of the connection on which the client uses it.  A user is one document  *)
(* with a version number.  The login user's own load changes nothing that  *)
(* is modelled after its wait.                                             *)
(***************************************************************************)
EXTENDS Naturals, Sequences

CONSTANTS Account, Agent,
          Conn,         \* client ids of the login server, each used once
          MaxEnter,     \* bound: times a user is sent to an agent
          MaxPlay,      \* bound: changes of a user's data
          MaxQueue,     \* bound: clients that wait for an account
          None          \* nil

ASSUME AccountAssumption ==
  /\ None \notin Account \cup Conn \cup {"anon"} /\ "anon" \notin Account
  /\ MaxEnter \in Nat /\ MaxPlay \in Nat /\ MaxQueue \in Nat

Sess == 1 .. MaxEnter

\* The elements of S, one for some of the sessions, as a loop with pairs meets them.
InAnyOrder(S) ==
  {s \in UNION {[1 .. n -> S] : n \in 0 .. MaxEnter} :
     /\ \A i, j \in DOMAIN s : s[i] = s[j] => i = j
     /\ \A e \in S : \E i \in DOMAIN s : s[i] = e}

VARIABLES
  conn,       \* login: the client of a cid: new, open, grace (closing), gone
  ctx,        \* _login_ctx: None, "anon" or the account of the cid
  luser,      \* the login_user bound to an account: its cid or None
  queue,      \* _account_queue
  entered,    \* _enter_agent_user: the session of the account, or 0
  count,      \* server_manager: count of an agent
  lstop,      \* login: no, saving, done
  life,       \* an agent: up, dead (its channel is still open), down
  toAgent, toLogin,  \* messages on their way
  sess,       \* the sessions made so far
  user,       \* the agent_user bound to a uid: its session or 0
  stop, at,   \* server_stop of an agent: no, loop, done; the session it waits for
  db, dbq,    \* the user documents, and operations on their way to them
  last,       \* history: the newest version of a user's data anywhere
  torn,       \* history: accounts that were on an agent that crashed
  mixed,      \* history: accounts with a login user whose client was one of another
              \* account, or gone: one that waits may log in meanwhile
  stuck,      \* history: accounts whose session ended unknown to the login server
  unentered   \* history: accounts that left an agent they were not known to be on

login == <<conn, ctx, luser, queue, entered, count, lstop>>
agent == <<user, stop, at>>
data == <<db, dbq, last>>
history == <<torn, mixed, stuck, unentered>>
vars == <<login, life, toAgent, toLogin, sess, agent, data, history>>

\* a session: its _user_token, its connection and _enter_user entry, where
\* its coroutine stands and who wants it to leave, and the agent_user's data
NewSess(x, a, c) ==
  [acct |-> x, agent |-> a, token |-> FALSE, late |-> FALSE, conn |-> c, entry |-> FALSE,
   fresh |-> FALSE, pc |-> "none", want |-> "none", val |-> 0, dirty |-> FALSE]

Init ==
  /\ conn = [c \in Conn |-> "new"] /\ ctx = [c \in Conn |-> None]
  /\ luser = [x \in Account |-> None] /\ queue = [x \in Account |-> <<>>]
  /\ entered = [x \in Account |-> 0] /\ count = [a \in Agent |-> 0] /\ lstop = "no"
  /\ life = [a \in Agent |-> "up"]
  /\ toAgent = [a \in Agent |-> <<>>] /\ toLogin = [a \in Agent |-> <<>>]
  /\ sess = <<>> /\ user = [a \in Agent |-> [x \in Account |-> 0]]
  /\ stop = [a \in Agent |-> "no"] /\ at = [a \in Agent |-> 0]
  /\ db = [x \in Account |-> 0] /\ dbq = [a \in Agent |-> <<>>] /\ last = [x \in Account |-> 0]
  /\ torn = {} /\ mixed = {} /\ stuck = {} /\ unentered = {}

Of(a) == {t \in DOMAIN sess : sess[t].agent = a}
EnteredAt(a) == {x \in Account : entered[x] # 0 /\ sess[entered[x]].agent = a}
Registered == {a \in Agent : life[a] # "down"}

\* what is written to a crashed agent is lost
SendAgent(a, m) ==
  toAgent' = IF life[a] = "up" THEN [toAgent EXCEPT ![a] = Append(@, m)] ELSE toAgent

-----------------------------------------------------------------------------
(* login server: clients *)

\* enter
Enter(c) ==
  /\ conn[c] = "new" /\ lstop = "no"
  /\ conn' = [conn EXCEPT ![c] = "open"]
  /\ ctx' = [ctx EXCEPT ![c] = "anon"]
  /\ UNCHANGED <<luser, queue, entered, count, lstop, life, toAgent, toLogin, sess, agent, data, history>>

\* leave: the user goes with its own client only
Leave(c) ==
  /\ ctx' = [ctx EXCEPT ![c] = None]
  /\ luser' = IF ctx[c] \in Account /\ luser[ctx[c]] = c
              THEN [luser EXCEPT ![ctx[c]] = None] ELSE luser

\* the client goes, or fails while it is closed
ClientGone(c) ==
  /\ conn[c] \in {"open", "grace"}
  /\ conn' = [conn EXCEPT ![c] = "gone"]
  /\ Leave(c)
  /\ UNCHANGED <<queue, entered, count, lstop, life, toAgent, toLogin, sess, agent, data, history>>

\* a graceful close ends without a callback
GraceDone(c) ==
  /\ conn[c] = "grace"
  /\ conn' = [conn EXCEPT ![c] = "gone"]
  /\ UNCHANGED <<ctx, luser, queue, entered, count, lstop, life, toAgent, toLogin, sess, agent, data, history>>

\* user_auth of an account that is on an agent: it is kicked and the client waits
AuthWaits(c, x) ==
  /\ conn[c] = "open" /\ ctx[c] = "anon"
  /\ entered[x] # 0
  /\ Len(queue[x]) < MaxQueue
  /\ SendAgent(sess[entered[x]].agent, [kind |-> "kick", of |-> x])
  /\ queue' = [queue EXCEPT ![x] = Append(@, c)]
  /\ UNCHANGED <<conn, ctx, luser, entered, count, lstop, life, toLogin, sess, agent, data, history>>

\* user_auth of an account that has a login user: there is no global
\* client_manager, so line 101 raises after the account is noted
AuthRaises(c, x) ==
  /\ conn[c] = "open" /\ ctx[c] = "anon"
  /\ entered[x] = 0 /\ luser[x] # None
  /\ ctx' = [ctx EXCEPT ![c] = x]
  /\ UNCHANGED <<conn, luser, queue, entered, count, lstop, life, toAgent, toLogin, sess, agent, data, history>>

\* user_auth otherwise
AuthLoads(c, x) ==
  /\ conn[c] = "open" /\ ctx[c] = "anon"
  /\ entered[x] = 0 /\ luser[x] = None
  /\ ctx' = [ctx EXCEPT ![c] = x]
  /\ luser' = [luser EXCEPT ![x] = c]
  /\ UNCHANGED <<conn, queue, entered, count, lstop, life, toAgent, toLogin, sess, agent, data, history>>

\* find_min_agent: pairs visits the agents in any order
IsMinAgent(a) == a \in Registered /\ \A b \in Registered : count[a] <= count[b]

\* user_enter_agent: the token goes to the agent and to the user's client,
\* which need not be c; if that client is gone the send raises
UserEnterAgent(c, a) ==
  /\ conn[c] = "open" /\ ctx[c] \in Account
  /\ luser[ctx[c]] # None
  /\ IsMinAgent(a)
  /\ Len(sess) < MaxEnter
  /\ LET x == ctx[c]
         u == luser[x]
         t == Len(sess) + 1
     IN /\ SendAgent(a, [kind |-> "register", of |-> t])
        /\ IF conn[u] # "gone"
           THEN /\ sess' = Append(sess, NewSess(x, a, "none"))
                /\ luser' = [luser EXCEPT ![x] = None]
                /\ conn' = [conn EXCEPT ![u] = "grace"]
                /\ entered' = [entered EXCEPT ![x] = t]
                /\ count' = [count EXCEPT ![a] = @ + 1]
           ELSE /\ sess' = Append(sess, NewSess(x, a, "closed"))
                /\ UNCHANGED <<luser, conn, entered, count>>
  /\ UNCHANGED <<ctx, queue, lstop, life, toLogin, agent, data, history>>

\* the clients that wait for x: all but the last are closed, up to one whose
\* close raises, and the last one becomes the login user if it is still there;
\* neither is asked whether it has an account of its own by now
ServeQueue(x) ==
  LET q == queue[x]
      n == Len(q)
      raises == {i \in 1 .. n - 1 : ctx[q[i]] # None /\ conn[q[i]] = "gone"}
      closed == {q[i] : i \in {j \in 1 .. n - 1 : /\ ctx[q[j]] # None
                                                 /\ \A k \in raises : j < k}}
      served == n > 0 /\ raises = {} /\ q[n] \notin closed /\ ctx[q[n]] # None
      taken == {c \in closed \cup (IF served THEN {q[n]} ELSE {}) : ctx[c] # "anon"}
  IN /\ conn' = [c \in Conn |-> IF c \in closed THEN "gone" ELSE conn[c]]
     /\ ctx' = [c \in Conn |-> IF c \in closed THEN None
                               ELSE IF served /\ c = q[n] THEN x ELSE ctx[c]]
     /\ luser' = IF served THEN [luser EXCEPT ![x] = q[n]] ELSE luser
     /\ mixed' = mixed \cup {y \in Account : luser[y] \in taken \/ (y = x /\ served /\ q[n] \in taken)}

\* user_leave_agent, on rpc_leave_agent, rpc_kick_agent or rpc_timeout_agent;
\* the count goes up here as well
UserLeaveAgent(a) ==
  /\ life[a] # "down" /\ toLogin[a] # <<>>
  /\ toLogin' = [toLogin EXCEPT ![a] = Tail(@)]
  /\ LET x == Head(toLogin[a])
         t == entered[x]
     IN /\ unentered' = IF t = 0 \/ (t # 0 /\ sess[t].agent # a) THEN unentered \cup {x} ELSE unentered
        /\ entered' = [entered EXCEPT ![x] = 0]
        /\ IF t = 0
           THEN UNCHANGED <<conn, ctx, luser, queue, count, mixed>>
           ELSE /\ count' = [count EXCEPT ![sess[t].agent] = @ + 1]
                /\ queue' = [queue EXCEPT ![x] = <<>>]
                /\ ServeQueue(x)
  /\ UNCHANGED <<lstop, life, toAgent, sess, agent, data, torn, stuck>>

\* Fault: the accounts of the agent stay entered.
AgentDownForgets(a) ==
  /\ life[a] = "dead" /\ toLogin[a] = <<>>
  /\ life' = [life EXCEPT ![a] = "down"]
  /\ UNCHANGED <<login, toAgent, toLogin, sess, agent, data, history>>

\* agent_server_down and agent_down, when the channel of an agent closes;
\* who waits for an account of the agent goes on waiting
AgentDown(a) ==
  /\ life[a] = "dead" /\ toLogin[a] = <<>>
  /\ life' = [life EXCEPT ![a] = "down"]
  /\ entered' = [x \in Account |-> IF x \in EnteredAt(a) THEN 0 ELSE entered[x]]
  /\ UNCHANGED <<conn, ctx, luser, queue, count, lstop, toAgent, toLogin, sess, agent, data, history>>

\* server_stop: no new clients, all login users leave, then it waits for the database
LoginStop ==
  /\ lstop = "no"
  /\ lstop' = "saving"
  /\ luser' = [x \in Account |-> None]
  /\ UNCHANGED <<conn, ctx, queue, entered, count, life, toAgent, toLogin, sess, agent, data, history>>

\* server_stop goes on and stops the agents
LoginStopped ==
  /\ lstop = "saving"
  /\ lstop' = "done"
  /\ toAgent' = [a \in Agent |-> IF life[a] = "up" THEN Append(toAgent[a], [kind |-> "stop", of |-> None])
                                 ELSE toAgent[a]]
  /\ UNCHANGED <<conn, ctx, luser, queue, entered, count, life, toLogin, sess, agent, data, history>>

-----------------------------------------------------------------------------
(* agent server: messages of the login server *)

Receive(a, kind) ==
  /\ life[a] = "up" /\ toAgent[a] # <<>> /\ Head(toAgent[a]).kind = kind
  /\ toAgent' = [toAgent EXCEPT ![a] = Tail(@)]

\* user_register
UserRegister(a) ==
  /\ Receive(a, "register")
  /\ sess' = [sess EXCEPT ![Head(toAgent[a]).of].token = TRUE]
  /\ UNCHANGED <<login, life, toLogin, agent, data, history>>

Tell(a, x) == toLogin' = [toLogin EXCEPT ![a] = Append(@, x)]

\* Fault: the token stays valid.
KickTokenStays(a, t) ==
  /\ Tell(a, sess[t].acct)
  /\ UNCHANGED sess

\* user_kick of a user that has not come yet
KickToken(a, t) ==
  /\ sess' = [sess EXCEPT ![t].token = FALSE]
  /\ Tell(a, sess[t].acct)

\* user_kick: a user that is there loses its entry and its connection, and
\* then line 142 raises, so that user_leave is never run for it
UserKick(a) ==
  /\ Receive(a, "kick")
  /\ LET x == Head(toAgent[a]).of
         t == user[a][x]
         waiting == {s \in Of(a) : sess[s].acct = x /\ sess[s].token}
     IN CASE t = 0 /\ waiting = {} -> UNCHANGED <<sess, toLogin, stuck>>
          [] t = 0 /\ waiting # {} -> (\E s \in waiting : KickToken(a, s)) /\ UNCHANGED stuck
          [] t # 0 /\ ~sess[t].entry -> UNCHANGED <<sess, toLogin, stuck>>
          [] t # 0 /\ sess[t].entry ->
               /\ sess' = [sess EXCEPT ![t].entry = FALSE, ![t].conn = "closed"]
               /\ stuck' = IF sess[t].want = "stop" THEN stuck ELSE stuck \cup {x}
               /\ UNCHANGED toLogin
  /\ UNCHANGED <<login, life, agent, data, torn, mixed, unentered>>

-----------------------------------------------------------------------------
(* agent server: tokens and clients *)

Connect(t) ==
  /\ sess[t].conn = "none"
  /\ life[sess[t].agent] = "up" /\ stop[sess[t].agent] = "no"
  /\ sess' = [sess EXCEPT ![t].conn = "open"]
  /\ UNCHANGED <<login, life, toAgent, toLogin, agent, data, history>>

AgentQuery(a, op) == dbq' = [dbq EXCEPT ![a] = @ \o op]

\* user_auth without a valid token; a token found too old is dropped and the
\* login server does not hear of it
AuthRefused(t) ==
  /\ sess[t].conn = "open" /\ sess[t].pc = "none"
  /\ ~sess[t].token \/ sess[t].late
  /\ sess' = [sess EXCEPT ![t].token = FALSE, ![t].conn = "closed"]
  /\ stuck' = IF sess[t].token THEN stuck \cup {sess[t].acct} ELSE stuck
  /\ UNCHANGED <<login, life, toAgent, toLogin, agent, data, torn, mixed, unentered>>

\* user_auth and user_enter up to the load of the user
UserAuth(t) ==
  /\ sess[t].conn = "open" /\ sess[t].pc = "none"
  /\ sess[t].token /\ ~sess[t].late
  /\ LET a == sess[t].agent IN
     /\ sess' = [sess EXCEPT ![t].token = FALSE, ![t].entry = TRUE, ![t].pc = "load",
                             ![t].fresh = stop[a] # "no"]
     /\ user' = [user EXCEPT ![a][sess[t].acct] = t]
     /\ AgentQuery(a, <<[kind |-> "find", of |-> t, val |-> 0]>>)
  /\ UNCHANGED <<login, life, toAgent, toLogin, stop, at, db, last, history>>

\* 100 minutes go by
TokenLate(t) ==
  /\ sess[t].token /\ ~sess[t].late
  /\ sess' = [sess EXCEPT ![t].late = TRUE]
  /\ UNCHANGED <<login, life, toAgent, toLogin, agent, data, history>>

\* Fault: the tokens stay.
AuthTimerKeeps(a) ==
  LET old == {t \in Of(a) : sess[t].token /\ sess[t].late} IN
  /\ old # {} /\ Len(toLogin[a]) < MaxEnter
  /\ \E s \in InAnyOrder({sess[t].acct : t \in old}) : toLogin' = [toLogin EXCEPT ![a] = @ \o s]
  /\ UNCHANGED <<login, life, toAgent, sess, agent, data, history>>

\* auth_timer: every old token goes, the login server hears of each
AuthTimer(a) ==
  LET old == {t \in Of(a) : sess[t].token /\ sess[t].late} IN
  /\ old # {}
  /\ sess' = [t \in DOMAIN sess |-> IF t \in old THEN [sess[t] EXCEPT !.token = FALSE] ELSE sess[t]]
  /\ \E s \in InAnyOrder({sess[t].acct : t \in old}) : toLogin' = [toLogin EXCEPT ![a] = @ \o s]
  /\ UNCHANGED <<login, life, toAgent, agent, data, history>>

\* leave, when the client goes: user_leave queues on the mutex of the entry
ClientLeave(t) ==
  /\ sess[t].conn = "open"
  /\ LET s == sess[t] IN
     sess' = [sess EXCEPT ![t].conn = "closed", ![t].entry = FALSE,
                          ![t].want = IF s.entry /\ user[s.agent][s.acct] # 0 THEN "leave" ELSE @]
  /\ UNCHANGED <<login, life, toAgent, toLogin, agent, data, history>>

-----------------------------------------------------------------------------
(* agent server: the coroutine of a user *)

\* user_enter after the load: enter_game; the send to a client that went raises
EnterGame(t) ==
  /\ sess[t].pc = "loaded"
  /\ IF sess[t].conn = "open"
     THEN /\ sess' = [sess EXCEPT ![t].pc = "fighter"]
          /\ AgentQuery(sess[t].agent, <<[kind |-> "find", of |-> t, val |-> 0]>>)
     ELSE /\ sess' = [sess EXCEPT ![t].pc = "on"]
          /\ UNCHANGED dbq
  /\ UNCHANGED <<login, life, toAgent, toLogin, agent, db, last, history>>

\* user_enter after the load of the fighter: the scene is asked for
EnterScene(t) ==
  /\ sess[t].pc = "fought"
  /\ sess' = [sess EXCEPT ![t].pc = "on"]
  /\ UNCHANGED <<login, life, toAgent, toLogin, agent, data, history>>

\* a request of the client changes the user (dispatch_client)
Play(t) ==
  /\ sess[t].conn = "open" /\ sess[t].pc \in {"fighter", "fought", "on"}
  /\ LET x == sess[t].acct IN
     /\ last[x] < MaxPlay
     /\ last' = [last EXCEPT ![x] = @ + 1]
     /\ sess' = [sess EXCEPT ![t].val = last[x] + 1, ![t].dirty = TRUE]
  /\ UNCHANGED <<login, life, toAgent, toLogin, agent, db, dbq, history>>

\* the saves of the dirty sessions of T, in any order
Updates(T) == InAnyOrder({[kind |-> "update", of |-> t, val |-> sess[t].val] : t \in {u \in T : sess[u].dirty}})

\* db_timer and flush: every dirty user is saved
SaveTimer(a) ==
  LET dirty == {t \in Of(a) : sess[t].dirty} IN
  /\ dirty # {}
  /\ \E s \in Updates(dirty) : AgentQuery(a, s)
  /\ sess' = [t \in DOMAIN sess |-> IF t \in dirty THEN [sess[t] EXCEPT !.dirty = FALSE] ELSE sess[t]]
  /\ UNCHANGED <<login, life, toAgent, toLogin, agent, db, last, history>>

\* Fault: the save is not waited for.
UserLeaveAhead(t) ==
  /\ sess[t].pc = "on" /\ sess[t].want # "none"
  /\ \E s \in Updates({t}) : AgentQuery(sess[t].agent, s)
  /\ sess' = [sess EXCEPT ![t].pc = "acked", ![t].dirty = FALSE]
  /\ UNCHANGED <<login, life, toAgent, toLogin, agent, db, last, history>>

\* user_leave, once it has the mutex: the user is saved without an answer,
\* then findAndModify on the same connection waits for one
UserLeave(t) ==
  /\ sess[t].pc = "on" /\ sess[t].want # "none"
  /\ \E s \in Updates({t}) :
       AgentQuery(sess[t].agent, Append(s, [kind |-> "modify", of |-> t, val |-> 0]))
  /\ sess' = [sess EXCEPT ![t].pc = "saving", ![t].dirty = FALSE]
  /\ UNCHANGED <<login, life, toAgent, toLogin, agent, db, last, history>>

\* user_leave after its wait, and what server_stop does after it
UserLeft(t) ==
  /\ sess[t].pc = "acked"
  /\ LET a == sess[t].agent
         stopped == sess[t].want = "stop"
     IN /\ user' = [user EXCEPT ![a][sess[t].acct] = 0]
        /\ Tell(a, sess[t].acct)
        /\ sess' = [sess EXCEPT ![t].pc = "left", ![t].entry = @ /\ ~stopped]
        /\ at' = IF stopped THEN [at EXCEPT ![a] = 0] ELSE at
  /\ UNCHANGED <<login, life, toAgent, stop, data, history>>

-----------------------------------------------------------------------------
(* agent server: stopping *)

StopBegin(a) ==
  /\ Receive(a, "stop")
  /\ stop' = [stop EXCEPT ![a] = "loop"]
  /\ UNCHANGED <<login, life, toLogin, sess, user, at, data, history>>

\* server_stop takes the next entry, closes its client and waits for user_leave
StopNext(t) ==
  LET a == sess[t].agent IN
  /\ stop[a] = "loop" /\ at[a] = 0 /\ sess[t].entry
  /\ at' = [at EXCEPT ![a] = t]
  /\ sess' = [sess EXCEPT ![t].conn = "closed", ![t].want = "stop"]
  /\ UNCHANGED <<login, life, toAgent, toLogin, user, stop, data, history>>

\* the end of the loop, which need not see entries made since it began
StopEnd(a) ==
  /\ stop[a] = "loop" /\ at[a] = 0
  /\ \A t \in Of(a) : sess[t].entry => sess[t].fresh
  /\ stop' = [stop EXCEPT ![a] = "done"]
  /\ UNCHANGED <<login, life, toAgent, toLogin, sess, user, at, data, history>>

-----------------------------------------------------------------------------
(* the database, and crashes *)

\* the coroutine of t gets an answer
Answered(s) ==
  CASE s.pc = "load" -> [s EXCEPT !.pc = "loaded", !.val = db[s.acct]]
    [] s.pc = "fighter" -> [s EXCEPT !.pc = "fought"]
    [] s.pc = "saving" -> [s EXCEPT !.pc = "acked"]
    [] OTHER -> s

DbStep(a) ==
  /\ dbq[a] # <<>>
  /\ dbq' = [dbq EXCEPT ![a] = Tail(@)]
  /\ LET op == Head(dbq[a]) IN
     IF op.kind = "update"
     THEN db' = [db EXCEPT ![sess[op.of].acct] = op.val] /\ UNCHANGED sess
     ELSE sess' = [sess EXCEPT ![op.of] = Answered(@)] /\ UNCHANGED db
  /\ UNCHANGED <<login, life, toAgent, toLogin, agent, last, history>>

\* an agent process dies: what it has sent last may be lost
Crash(a) ==
  /\ life[a] = "up"
  /\ life' = [life EXCEPT ![a] = "dead"]
  /\ toAgent' = [toAgent EXCEPT ![a] = <<>>]
  /\ \E n \in 0 .. Len(toLogin[a]) : toLogin' = [toLogin EXCEPT ![a] = SubSeq(@, 1, n)]
  /\ \E n \in 0 .. Len(dbq[a]) : dbq' = [dbq EXCEPT ![a] = SubSeq(@, 1, n)]
  /\ sess' = [t \in DOMAIN sess |->
                IF sess[t].agent = a
                THEN [NewSess(sess[t].acct, a, "closed") EXCEPT !.pc = "left"] ELSE sess[t]]
  /\ user' = [user EXCEPT ![a] = [x \in Account |-> 0]]
  /\ at' = [at EXCEPT ![a] = 0]
  /\ stop' = [stop EXCEPT ![a] = "done"]
  /\ torn' = torn \cup EnteredAt(a)
  /\ UNCHANGED <<login, db, last, mixed, stuck, unentered>>

-----------------------------------------------------------------------------
LoginStep ==
  \/ \E c \in Conn : Enter(c) \/ ClientGone(c) \/ GraceDone(c)
  \/ \E c \in Conn, x \in Account : AuthWaits(c, x) \/ AuthRaises(c, x) \/ AuthLoads(c, x)
  \/ \E c \in Conn, a \in Agent : UserEnterAgent(c, a)
  \/ \E a \in Agent : UserLeaveAgent(a) \/ AgentDown(a)
  \/ LoginStop
  \/ LoginStopped

AgentStep ==
  \/ \E a \in Agent : \/ UserRegister(a) \/ UserKick(a) \/ AuthTimer(a) \/ SaveTimer(a)
                      \/ StopBegin(a) \/ StopEnd(a)
  \/ \E t \in DOMAIN sess : \/ Connect(t) \/ AuthRefused(t) \/ UserAuth(t) \/ TokenLate(t)
                            \/ ClientLeave(t) \/ EnterGame(t) \/ EnterScene(t) \/ Play(t)
                            \/ UserLeave(t) \/ UserLeft(t) \/ StopNext(t)

Next == LoginStep \/ AgentStep \/ \E a \in Agent : DbStep(a) \/ Crash(a)

Spec == Init /\ [][Next]_vars

\* Handlers run, timers fire and the database answers; clients need not do anything.
FairSpec ==
  /\ Spec
  /\ \A a \in Agent : /\ WF_vars(UserLeaveAgent(a)) /\ WF_vars(AgentDown(a)) /\ WF_vars(DbStep(a))
                      /\ WF_vars(UserRegister(a) \/ UserKick(a) \/ StopBegin(a))
                      /\ WF_vars(AuthTimer(a))
  /\ \A t \in Sess : WF_vars(t \in DOMAIN sess /\ (EnterGame(t) \/ EnterScene(t) \/ UserLeave(t) \/ UserLeft(t)))
  /\ \A t \in Sess : WF_vars(t \in DOMAIN sess /\ TokenLate(t))

-----------------------------------------------------------------------------
\* A session an agent holds or is about to be told of.
Held(t) ==
  \/ sess[t].token
  \/ sess[t].pc \notin {"none", "left"}
  \/ \E i \in DOMAIN toAgent[sess[t].agent] :
       toAgent[sess[t].agent][i] = [kind |-> "register", of |-> t]

\* An account is in one place: while an agent holds a token or a user of it
\* the login server knows that session and has no user of its own for the
\* account (user_auth, user_enter_agent, user_leave_agent).  Here and below
\* accounts are excepted whose login user came from a queue in which its client
\* no longer just waited: user_leave_agent does not look.
OneSession ==
  \A t \in DOMAIN sess :
    Held(t) /\ sess[t].acct \notin mixed => entered[sess[t].acct] = t /\ luser[sess[t].acct] = None

\* The assertion in user_leave_agent: who leaves an agent was known to be on
\* it, however leaves, kicks, timeouts, stops and crashes cross.
LeaveFindsEntry == unentered \subseteq mixed

\* Nothing of a user is lost between two sessions: once the login server has
\* the account back, the newest version of its data is in the database, and
\* a user that is loaded has it.  (Accounts on an agent that crashed excepted.)
DataIsCurrent ==
  \A x \in Account \ (torn \cup mixed) :
    /\ entered[x] = 0 => db[x] = last[x]
    /\ \A t \in DOMAIN sess :
         sess[t].acct = x /\ sess[t].pc \notin {"none", "load", "left"} => sess[t].val = last[x]

\* The user of x plays.
Playing(x) ==
  entered[x] # 0 /\ sess[entered[x]].entry /\ sess[entered[x]].conn = "open"

\* An account comes back from its agent: its user plays, or the entry of the
\* login server goes in the end, be it by a leave, a kick, an expired token,
\* a stop or the end of the agent.  (Except where stuck: a kick of a user that
\* is there, line 142, and a token that user_auth finds too old, line 155.)
EntryEnds ==
  \A x \in Account : entered[x] # 0 ~> entered[x] = 0 \/ Playing(x) \/ x \in stuck

-----------------------------------------------------------------------------
(* the inductive invariant *)

Away == {"none", "left"}
SessRec ==
  [acct : Account, agent : Agent, token : BOOLEAN, late : BOOLEAN, conn : {"none", "open", "closed"}, entry : BOOLEAN,
   fresh : BOOLEAN, pc : Away \cup {"load", "loaded", "fighter", "fought", "on", "saving", "acked"},
   want : {"none", "leave", "stop"}, val : Nat, dirty : BOOLEAN]
Query == [kind : {"find", "update", "modify"}, of : Nat, val : Nat]
Notice == [kind : {"register"}, of : Nat] \cup [kind : {"kick"}, of : Account] \cup [kind : {"stop"}, of : {None}]

TypeOK ==
  /\ conn \in [Conn -> {"new", "open", "grace", "gone"}] /\ ctx \in [Conn -> Account \cup {"anon", None}]
  /\ luser \in [Account -> Conn \cup {None}] /\ queue \in [Account -> Seq(Conn)]
  /\ sess \in Seq(SessRec) /\ entered \in [Account -> 0 .. Len(sess)]
  /\ user \in [Agent -> [Account -> 0 .. Len(sess)]]
  /\ life \in [Agent -> {"up", "dead", "down"}]
  /\ toAgent \in [Agent -> Seq(Notice)] /\ toLogin \in [Agent -> Seq(Account)]
  /\ db \in [Account -> Nat] /\ dbq \in [Agent -> Seq(Query)] /\ last \in [Account -> Nat]
  /\ \A a \in Agent : \A i \in DOMAIN dbq[a] : dbq[a][i].of \in DOMAIN sess
  /\ torn \subseteq Account /\ mixed \subseteq Account /\ unentered \subseteq Account

\* A client with no account is there, and is nobody's; a login user has its own.
LoginInv ==
  /\ \A c \in Conn : (conn[c] = "new" => ctx[c] = None) /\ (ctx[c] = "anon" => conn[c] = "open")
  /\ \A x \in Account : luser[x] # None =>
       /\ ctx[luser[x]] # "anon" /\ conn[luser[x]] # "new"
       /\ x \notin mixed => /\ conn[luser[x]] = "open" /\ ctx[luser[x]] = x /\ entered[x] = 0
                            /\ \A y \in Account \ {x} : luser[y] # luser[x]

\* A register message comes before the token, and the token before the user.
RegisterInv ==
  \A a \in Agent : \A i \in DOMAIN toAgent[a] :
    toAgent[a][i].kind = "register" =>
      LET t == toAgent[a][i].of
      IN /\ t \in DOMAIN sess /\ sess[t].agent = a /\ sess[t].pc = "none" /\ ~ sess[t].token
         /\ \A j \in DOMAIN toAgent[a] : toAgent[a][j] = toAgent[a][i] => j = i

HoldInv ==
  /\ \A a \in Agent : toAgent[a] # <<>> => life[a] = "up"
  /\ \A t \in DOMAIN sess :
       /\ Held(t) => life[sess[t].agent] = "up"
       /\ Held(t) /\ sess[t].acct \notin mixed => entered[sess[t].acct] = t
       /\ sess[t].token => sess[t].pc = "none"
       /\ sess[t].dirty => sess[t].pc \in {"fighter", "fought", "on"}

\* The message that an account comes back: one, after its session has ended.
TellInv ==
  /\ \A a \in Agent : life[a] = "down" => toLogin[a] = <<>>
  /\ \A a \in Agent : \A i \in DOMAIN toLogin[a] :
       LET x == toLogin[a][i]
       IN x \notin mixed =>
            /\ entered[x] # 0 /\ sess[entered[x]].agent = a /\ ~ Held(entered[x])
            /\ \A j \in DOMAIN toLogin[a] : toLogin[a][j] = x => j = i

IsUpdate(op, t) == op.of = t /\ op.kind = "update"
IsQuestion(op, t) == op.of = t /\ op.kind # "update"

\* What is in the database once the updates of t that are under way have arrived.
Latest(t) ==
  LET x == sess[t].acct
      q == dbq[sess[t].agent]
  IN /\ (\A i \in DOMAIN q : ~ IsUpdate(q[i], t)) => db[x] = last[x]
     /\ \A i \in DOMAIN q :
          IsUpdate(q[i], t) /\ (\A j \in DOMAIN q : IsUpdate(q[j], t) => j <= i) => q[i].val = last[x]

\* The operations under way for x are those of its session, which goes on.
OwnQueries(x) ==
  \A a \in Agent : \A i \in DOMAIN dbq[a] :
    LET t == dbq[a][i].of
    IN sess[t].acct = x => t = entered[x] /\ sess[t].agent = a /\ sess[t].pc \notin Away \cup {"acked"}

\* Session t waits for one answer at most, and last of all for that of its end.
Asking(t) ==
  LET q == dbq[sess[t].agent]
  IN /\ \A i \in DOMAIN q : IsQuestion(q[i], t) => sess[t].pc \in {"load", "fighter", "saving"}
     /\ \A i, j \in DOMAIN q : IsQuestion(q[i], t) /\ IsQuestion(q[j], t) => i = j
     /\ sess[t].pc = "load" => \A i \in DOMAIN q : ~ IsUpdate(q[i], t)
     /\ sess[t].pc = "saving" => \A i, j \in DOMAIN q : IsUpdate(q[i], t) /\ IsQuestion(q[j], t) => i < j

\* The newest version of the data of x is known: to the database, the session
\* of x, or one on its way to the other.
Saved(x) ==
  /\ OwnQueries(x)
  /\ entered[x] = 0 => db[x] = last[x]
  /\ entered[x] # 0 =>
       LET t == entered[x]
       IN /\ sess[t].acct = x
          /\ sess[t].pc \notin Away \cup {"load"} => sess[t].val = last[x]
          /\ sess[t].dirty \/ Latest(t)
          /\ Asking(t)

SaveInv == \A x \in Account \ (torn \cup mixed) : Saved(x)

AccountInv == TypeOK /\ LoginInv /\ RegisterInv /\ HoldInv /\ TellInv /\ SaveInv /\ unentered \subseteq mixed
=============================================================================
