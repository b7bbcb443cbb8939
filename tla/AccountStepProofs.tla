------------------------- MODULE AccountStepProofs --------------------------
(***************************************************************************)
(* Accounts on their way through the servers: the steps of the clients and *)
(* of the login server keep AccountInv, and so do the steps of an agent    *)
(* server that ask the database for nothing.                               *)
(***************************************************************************)
EXTENDS Account, Integers, TLAPS

\* The places of an appended sequence.
LEMMA AppendIs ==
  ASSUME NEW S, NEW q \in Seq(S), NEW e \in S
  PROVE  /\ Append(q, e) \in Seq(S) /\ Len(q) \in Nat
         /\ DOMAIN Append(q, e) = 1 .. Len(q) + 1 /\ DOMAIN q = 1 .. Len(q)
         /\ Append(q, e)[Len(q) + 1] = e
         /\ \A i \in DOMAIN q : Append(q, e)[i] = q[i]
OBVIOUS

\* The places of a sequence whose head is taken.
LEMMA TailIs ==
  ASSUME NEW S, NEW q \in Seq(S), q # <<>>
  PROVE  /\ Tail(q) \in Seq(S) /\ Len(q) \in Nat \ {0} /\ Head(q) \in S /\ Head(q) = q[1] /\ 1 \in DOMAIN q
         /\ DOMAIN Tail(q) = 1 .. Len(q) - 1 /\ DOMAIN q = 1 .. Len(q)
         /\ \A i \in DOMAIN Tail(q) : i \in Nat /\ i + 1 \in DOMAIN q /\ i + 1 # 1 /\ Tail(q)[i] = q[i + 1]
         /\ \A i \in DOMAIN q : i # 1 => i - 1 \in DOMAIN Tail(q) /\ Tail(q)[i - 1] = q[i]
OBVIOUS

\* The places of two sequences one after the other.
LEMMA ConcatIs ==
  ASSUME NEW S, NEW q \in Seq(S), NEW r \in Seq(S)
  PROVE  /\ q \o r \in Seq(S) /\ Len(q) \in Nat /\ Len(r) \in Nat
         /\ DOMAIN (q \o r) = 1 .. Len(q) + Len(r) /\ DOMAIN q = 1 .. Len(q) /\ DOMAIN r = 1 .. Len(r)
         /\ \A i \in DOMAIN q : (q \o r)[i] = q[i]
         /\ \A i \in DOMAIN r : Len(q) + i \in DOMAIN (q \o r) /\ (q \o r)[Len(q) + i] = r[i]
         /\ \A i \in DOMAIN (q \o r) : i \notin DOMAIN q => i - Len(q) \in DOMAIN r /\ (q \o r)[i] = r[i - Len(q)]
OBVIOUS

\* The places of a prefix.
LEMMA PrefixIs ==
  ASSUME NEW S, NEW q \in Seq(S), NEW n \in 0 .. Len(q)
  PROVE  /\ SubSeq(q, 1, n) \in Seq(S) /\ DOMAIN SubSeq(q, 1, n) = 1 .. n /\ 1 .. n \subseteq DOMAIN q
         /\ \A i \in 1 .. n : SubSeq(q, 1, n)[i] = q[i]
OBVIOUS

\* A sequence of all elements of a set, each once.
LEMMA InAnyOrderIs ==
  ASSUME NEW S, NEW s \in InAnyOrder(S)
  PROVE  /\ s \in Seq(S)
         /\ \A i, j \in DOMAIN s : s[i] = s[j] => i = j
         /\ \A e \in S : \E i \in DOMAIN s : s[i] = e
<1>1. PICK n \in 0 .. MaxEnter : s \in [1 .. n -> S]
  BY Zenon DEF InAnyOrder
<1>2. n \in Nat
  BY AccountAssumption
<1>3. s \in Seq(S)
  BY <1>1, <1>2
<1> QED BY <1>3, Zenon DEF InAnyOrder

\* What the type invariant says of the sessions.
LEMMA SessIs ==
  ASSUME AccountInv
  PROVE  /\ Len(sess) \in Nat /\ DOMAIN sess = 1 .. Len(sess)
         /\ \A t \in DOMAIN sess : sess[t] \in SessRec /\ sess[t].acct \in Account /\ sess[t].agent \in Agent /\ sess[t].val \in Nat
         /\ \A x \in Account : entered[x] # 0 => entered[x] \in DOMAIN sess
<1>t. TypeOK
  BY Zenon DEF AccountInv
<1>1. Len(sess) \in Nat /\ DOMAIN sess = 1 .. Len(sess) /\ \A t \in DOMAIN sess : sess[t] \in SessRec
  BY <1>t DEF TypeOK
<1>2. \A t \in DOMAIN sess : sess[t].acct \in Account /\ sess[t].agent \in Agent /\ sess[t].val \in Nat
  BY <1>1, Zenon DEF SessRec
<1>3. \A x \in Account : entered[x] \in 0 .. Len(sess)
  BY <1>t, Zenon DEF TypeOK
<1> QED BY <1>1, <1>2, <1>3

-----------------------------------------------------------------------------
(* what steps of the login server alone leave as it is *)

Servers == <<entered, life, toAgent, toLogin, sess, user, db, dbq, last, torn, mixed, unentered>>

\* A step of clients alone leaves what the invariant says of servers and data.
LEMMA ServersKept ==
  ASSUME AccountInv, UNCHANGED Servers
  PROVE  RegisterInv' /\ HoldInv' /\ TellInv' /\ SaveInv' /\ unentered' \subseteq mixed'
<1>0. /\ UNCHANGED <<entered, life, toAgent, toLogin, sess, user, db, dbq, last, torn, mixed, unentered>>
      /\ RegisterInv /\ HoldInv /\ TellInv /\ SaveInv /\ unentered \subseteq mixed
  BY Zenon DEF Servers, AccountInv
<1>1. RegisterInv'
  BY <1>0 DEF RegisterInv
<1>2. \A t : Held(t)' = Held(t) /\ Saved(t)' = Saved(t)
  BY <1>0 DEF Held, Saved, Latest, Asking, OwnQueries
<1>3. HoldInv'
  BY <1>0, <1>2, Zenon DEF HoldInv
<1>4. TellInv'
  BY <1>0, <1>2, Zenon DEF TellInv
<1>5. SaveInv'
  BY <1>0, <1>2, Zenon DEF SaveInv
<1> QED BY <1>0, <1>1, <1>3, <1>4, <1>5, Zenon

\* The clients change, and nothing else.
LEMMA ClientsInv ==
  ASSUME AccountInv, UNCHANGED Servers, queue' \in [Account -> Seq(Conn)],
         conn' \in [Conn -> {"new", "open", "grace", "gone"}], ctx' \in [Conn -> Account \cup {"anon", None}],
         luser' \in [Account -> Conn \cup {None}], LoginInv'
  PROVE  AccountInv'
<1>1. TypeOK'
  BY Zenon DEF AccountInv, TypeOK, Servers
<1> QED BY <1>1, ServersKept, Zenon DEF AccountInv

\* Clients that come, leave or are closed keep AccountInv.
LEMMA ClientStepInv ==
  ASSUME AccountInv, NEW c \in Conn, Enter(c) \/ ClientGone(c) \/ GraceDone(c)
  PROVE  AccountInv'
<1>0. TypeOK /\ LoginInv
  BY Zenon DEF AccountInv
<1>1. UNCHANGED Servers /\ UNCHANGED <<queue, entered, mixed>>
  BY Zenon DEF Servers, Enter, ClientGone, GraceDone, agent, data, history
<1>2. queue' \in [Account -> Seq(Conn)]
  BY <1>0, <1>1, Zenon DEF TypeOK
<1>3. CASE Enter(c)
  <2>1. conn[c] = "new" /\ conn' = [conn EXCEPT ![c] = "open"] /\ ctx' = [ctx EXCEPT ![c] = "anon"] /\ luser' = luser
    BY <1>3, Zenon DEF Enter
  <2>2. /\ conn' \in [Conn -> {"new", "open", "grace", "gone"}] /\ ctx' \in [Conn -> Account \cup {"anon", None}]
        /\ luser' \in [Account -> Conn \cup {None}]
    BY <1>0, <2>1, Zenon DEF TypeOK
  <2>3. LoginInv'
    BY <1>0, <1>1, <2>1, <2>2, AccountAssumption DEF TypeOK, LoginInv
  <2> QED BY <1>1, <1>2, <2>2, <2>3, ClientsInv, Zenon
<1>4. CASE ClientGone(c)
  <2>1. /\ conn[c] \in {"open", "grace"} /\ conn' = [conn EXCEPT ![c] = "gone"] /\ ctx' = [ctx EXCEPT ![c] = None]
        /\ luser' = IF ctx[c] \in Account /\ luser[ctx[c]] = c THEN [luser EXCEPT ![ctx[c]] = None] ELSE luser
    BY <1>4, Zenon DEF ClientGone, Leave
  <2>2. /\ conn' \in [Conn -> {"new", "open", "grace", "gone"}] /\ ctx' \in [Conn -> Account \cup {"anon", None}]
        /\ luser' \in [Account -> Conn \cup {None}]
    BY <1>0, <2>1, Zenon DEF TypeOK
  <2>3. \A x \in Account : luser'[x] # None => luser'[x] = luser[x] /\ (luser[x] = c => ctx[c] # x)
    BY <1>0, <2>1, AccountAssumption, Zenon DEF TypeOK
  <2>4. LoginInv'
    BY <1>0, <1>1, <2>1, <2>2, <2>3, AccountAssumption DEF TypeOK, LoginInv
  <2> QED BY <1>1, <1>2, <2>2, <2>4, ClientsInv, Zenon
<1>5. CASE GraceDone(c)
  <2>1. conn[c] = "grace" /\ conn' = [conn EXCEPT ![c] = "gone"] /\ UNCHANGED <<ctx, luser>>
    BY <1>5, Zenon DEF GraceDone
  <2>2. /\ conn' \in [Conn -> {"new", "open", "grace", "gone"}] /\ ctx' \in [Conn -> Account \cup {"anon", None}]
        /\ luser' \in [Account -> Conn \cup {None}]
    BY <1>0, <2>1, Zenon DEF TypeOK
  <2>3. LoginInv'
    BY <1>0, <1>1, <2>1, <2>2, AccountAssumption DEF TypeOK, LoginInv
  <2> QED BY <1>1, <1>2, <2>2, <2>3, ClientsInv, Zenon
<1> QED BY <1>3, <1>4, <1>5, Zenon

\* user_auth without a wait keeps AccountInv.
LEMMA AuthInv ==
  ASSUME AccountInv, NEW c \in Conn, NEW x \in Account, AuthRaises(c, x) \/ AuthLoads(c, x)
  PROVE  AccountInv'
<1>0. TypeOK /\ LoginInv
  BY Zenon DEF AccountInv
<1>1. UNCHANGED Servers /\ UNCHANGED <<conn, queue, entered, mixed>>
  BY Zenon DEF Servers, AuthRaises, AuthLoads, agent, data, history
<1>2. /\ conn[c] = "open" /\ ctx[c] = "anon" /\ entered[x] = 0 /\ ctx' = [ctx EXCEPT ![c] = x]
      /\ (luser' = luser \/ (luser[x] = None /\ luser' = [luser EXCEPT ![x] = c]))
  BY Zenon DEF AuthRaises, AuthLoads
<1>3. /\ conn' \in [Conn -> {"new", "open", "grace", "gone"}] /\ ctx' \in [Conn -> Account \cup {"anon", None}]
      /\ luser' \in [Account -> Conn \cup {None}] /\ queue' \in [Account -> Seq(Conn)]
  BY <1>0, <1>1, <1>2, Zenon DEF TypeOK
<1>4. \A y \in Account : luser[y] # c
  BY <1>0, <1>2, AccountAssumption, Zenon DEF LoginInv
<1>5. LoginInv'
  <2>1. CASE luser' = luser
    BY <1>0, <1>1, <1>2, <1>3, <1>4, <2>1, AccountAssumption DEF TypeOK, LoginInv
  <2>2. CASE luser' = [luser EXCEPT ![x] = c]
    BY <1>0, <1>1, <1>2, <1>3, <1>4, <2>2, AccountAssumption DEF TypeOK, LoginInv
  <2> QED BY <1>2, <2>1, <2>2, Zenon
<1> QED BY <1>1, <1>3, <1>5, ClientsInv, Zenon

\* LoginStop keeps AccountInv.
LEMMA LoginStopInv ==
  ASSUME AccountInv, LoginStop
  PROVE  AccountInv'
<1>0. TypeOK /\ LoginInv
  BY Zenon DEF AccountInv
<1>1. UNCHANGED Servers /\ UNCHANGED <<conn, ctx, queue, entered, mixed>> /\ luser' = [x \in Account |-> None]
  BY Zenon DEF Servers, LoginStop, agent, data, history
<1>2. LoginInv'
  BY <1>0, <1>1, Zenon DEF LoginInv
<1>3. /\ conn' \in [Conn -> {"new", "open", "grace", "gone"}] /\ ctx' \in [Conn -> Account \cup {"anon", None}]
      /\ luser' \in [Account -> Conn \cup {None}] /\ queue' \in [Account -> Seq(Conn)]
  BY <1>0, <1>1, Zenon DEF TypeOK
<1> QED BY <1>1, <1>2, <1>3, ClientsInv, Zenon

\* A message without a token: nothing is held or registered that was not before.
LEMMA NoticeKept ==
  ASSUME AccountInv, NEW a \in Agent, NEW m \in Notice, m.kind # "register",
         toAgent'[a] = toAgent[a] \/ toAgent'[a] = Append(toAgent[a], m)
  PROVE  /\ toAgent'[a] \in Seq(Notice)
         /\ \A i \in DOMAIN toAgent[a] : i \in DOMAIN toAgent'[a] /\ toAgent'[a][i] = toAgent[a][i]
         /\ \A i \in DOMAIN toAgent'[a] : toAgent'[a][i].kind = "register" => i \in DOMAIN toAgent[a]
<1>t. TypeOK
  BY Zenon DEF AccountInv
<1>0. toAgent[a] \in Seq(Notice)
  BY <1>t, Zenon DEF TypeOK
<1>1. CASE toAgent'[a] = toAgent[a]
  BY <1>0, <1>1, Zenon
<1>2. CASE toAgent'[a] = Append(toAgent[a], m)
  BY <1>0, <1>2, AppendIs
<1> QED BY <1>1, <1>2, Zenon

\* A kick or a stop sent to agents keeps AccountInv.
LEMMA NoticeInv ==
  ASSUME AccountInv, UNCHANGED <<conn, ctx, luser, entered, life, toLogin, sess, user, db, dbq, last, torn, mixed, unentered>>,
         queue' \in [Account -> Seq(Conn)], NEW m \in Notice, m.kind # "register", DOMAIN toAgent' = Agent, toAgent' = [a \in Agent |-> toAgent'[a]],
         \A a \in Agent : toAgent'[a] = toAgent[a] \/ (life[a] = "up" /\ toAgent'[a] = Append(toAgent[a], m))
  PROVE  AccountInv'
<1>0. TypeOK /\ LoginInv /\ RegisterInv /\ HoldInv /\ TellInv /\ SaveInv /\ unentered \subseteq mixed
  BY Zenon DEF AccountInv
<1>1. \A a \in Agent :
         /\ toAgent'[a] \in Seq(Notice)
         /\ \A i \in DOMAIN toAgent[a] : i \in DOMAIN toAgent'[a] /\ toAgent'[a][i] = toAgent[a][i]
         /\ \A i \in DOMAIN toAgent'[a] : toAgent'[a][i].kind = "register" => i \in DOMAIN toAgent[a]
  BY <1>0, NoticeKept, Zenon
<1>2. TypeOK'
  <2>1. toAgent' \in [Agent -> Seq(Notice)]
    BY <1>1, Zenon
  <2> QED BY <1>0, <2>1, Zenon DEF TypeOK
<1>3. \A t \in DOMAIN sess : Held(t)' = Held(t)
  <2> TAKE t \in DOMAIN sess
  <2> DEFINE r == [kind |-> "register", of |-> t]
             a == sess[t].agent
  <2>1. a \in Agent
    BY <1>0, SessIs, Zenon
  <2>2. r.kind = "register"
    BY Zenon
  <2>3. (\E i \in DOMAIN toAgent'[a] : toAgent'[a][i] = r) <=> (\E i \in DOMAIN toAgent[a] : toAgent[a][i] = r)
    <3> HIDE DEF r, a
    <3> QED BY <1>1, <2>1, <2>2
  <2> QED BY <2>3, Zenon DEF Held
<1>4. LoginInv'
  BY <1>0 DEF LoginInv
<1>5. RegisterInv'
  BY <1>0, <1>1 DEF RegisterInv
<1>6. HoldInv'
  BY <1>0, <1>1, <1>3 DEF HoldInv
<1>7. TellInv'
  <2>1. \A a \in Agent : \A i \in DOMAIN toLogin[a] : toLogin[a][i] \in Account /\ entered[toLogin[a][i]] \in 0 .. Len(sess)
    BY <1>0 DEF TypeOK
  <2>2. DOMAIN sess = 1 .. Len(sess) /\ Len(sess) \in Nat
    BY <1>0 DEF TypeOK
  <2> QED BY <1>0, <1>3, <2>1, <2>2 DEF TellInv
<1>8. SaveInv'
  <2>1. \A x : Saved(x)' = Saved(x)
    BY DEF Saved, Latest, Asking, OwnQueries
  <2> QED BY <1>0, <2>1, Zenon DEF SaveInv
<1> QED BY <1>0, <1>2, <1>4, <1>5, <1>6, <1>7, <1>8, Zenon DEF AccountInv

\* AuthWaits keeps AccountInv.
LEMMA AuthWaitsInv ==
  ASSUME AccountInv, NEW c \in Conn, NEW x \in Account, AuthWaits(c, x)
  PROVE  AccountInv'
<1> DEFINE m == [kind |-> "kick", of |-> x]
           a == sess[entered[x]].agent
<1>0. TypeOK /\ m \in Notice /\ m.kind # "register"
  BY Zenon DEF AccountInv, Notice
<1>1. /\ UNCHANGED <<conn, ctx, luser, entered, life, toLogin, sess, user, db, dbq, last, torn, mixed, unentered>>
      /\ queue' = [queue EXCEPT ![x] = Append(@, c)]
      /\ toAgent' = IF life[a] = "up" THEN [toAgent EXCEPT ![a] = Append(@, m)] ELSE toAgent
  BY Zenon DEF AuthWaits, SendAgent, agent, data, history
<1> HIDE DEF m, a
<1>2. queue' \in [Account -> Seq(Conn)]
  BY <1>0, <1>1 DEF TypeOK
<1>3. /\ DOMAIN toAgent' = Agent /\ toAgent' = [b \in Agent |-> toAgent'[b]]
      /\ \A b \in Agent : toAgent'[b] = toAgent[b] \/ (life[b] = "up" /\ toAgent'[b] = Append(toAgent[b], m))
  BY <1>0, <1>1, Zenon DEF TypeOK
<1> QED BY <1>0, <1>1, <1>2, <1>3, NoticeInv, Zenon

\* LoginStopped keeps AccountInv.
LEMMA LoginStoppedInv ==
  ASSUME AccountInv, LoginStopped
  PROVE  AccountInv'
<1> DEFINE m == [kind |-> "stop", of |-> None]
<1>0. TypeOK /\ m \in Notice /\ m.kind # "register"
  BY Zenon DEF AccountInv, Notice
<1>1. /\ UNCHANGED <<conn, ctx, luser, queue, entered, life, toLogin, sess, user, db, dbq, last, torn, mixed, unentered>>
      /\ toAgent' = [a \in Agent |-> IF life[a] = "up" THEN Append(toAgent[a], m) ELSE toAgent[a]]
  BY Zenon DEF LoginStopped, agent, data, history
<1> HIDE DEF m
<1>2. queue' \in [Account -> Seq(Conn)]
  BY <1>0, <1>1, Zenon DEF TypeOK
<1>3. /\ DOMAIN toAgent' = Agent /\ toAgent' = [b \in Agent |-> toAgent'[b]]
      /\ \A b \in Agent : toAgent'[b] = toAgent[b] \/ (life[b] = "up" /\ toAgent'[b] = Append(toAgent[b], m))
  BY <1>0, <1>1, Zenon DEF TypeOK
<1> QED BY <1>0, <1>1, <1>2, <1>3, NoticeInv, Zenon

-----------------------------------------------------------------------------
(* what a step on other data leaves as it is *)

\* The session goes on as it was, and so do its queries.
LEMMA SavedKept ==
  ASSUME AccountInv, NEW x \in Account, Saved(x), UNCHANGED <<db, dbq, last>>, entered'[x] = entered[x],
         \A t \in DOMAIN sess : /\ sess'[t].acct = sess[t].acct /\ sess'[t].agent = sess[t].agent
                                /\ sess'[t].pc = sess[t].pc /\ sess'[t].val = sess[t].val /\ sess'[t].dirty = sess[t].dirty
  PROVE  Saved(x)'
<1>t. TypeOK
  BY Zenon DEF AccountInv
<1>1. \A a \in Agent : \A i \in DOMAIN dbq[a] : dbq[a][i].of \in DOMAIN sess
  BY <1>t, Zenon DEF TypeOK
<1>2. OwnQueries(x)'
  BY <1>1 DEF OwnQueries, Saved
<1>3. ASSUME NEW t, t = entered[x], t # 0
      PROVE  t \in DOMAIN sess /\ Latest(t)' = Latest(t) /\ Asking(t)' = Asking(t)
  <2>1. t \in DOMAIN sess
    BY <1>3, SessIs, Zenon
  <2> QED BY <2>1, Zenon DEF Latest, Asking
<1> QED BY <1>2, <1>3, Zenon DEF Saved

\* Once the session of x has ended nothing of it is on its way.
LEMMA SavedEnded ==
  ASSUME AccountInv, NEW x \in Account, Saved(x), entered[x] = 0 \/ sess[entered[x]].pc \in Away
  PROVE  /\ db[x] = last[x]
         /\ \A a \in Agent : \A i \in DOMAIN dbq[a] : sess[dbq[a][i].of].acct # x
<1>t. TypeOK /\ HoldInv
  BY Zenon DEF AccountInv
<1>1. \A a \in Agent : \A i \in DOMAIN dbq[a] : dbq[a][i].of \in DOMAIN sess
  BY <1>t, Zenon DEF TypeOK
<1>2. 0 \notin DOMAIN sess
  BY SessIs
<1>3. \A a \in Agent : \A i \in DOMAIN dbq[a] : sess[dbq[a][i].of].acct # x
  BY <1>1, <1>2 DEF OwnQueries, Saved
<1>4. CASE entered[x] = 0
  BY <1>3, <1>4, Zenon DEF Saved
<1>5. CASE entered[x] # 0
  <2> DEFINE t == entered[x]
  <2>1. t \in DOMAIN sess /\ sess[t].agent \in Agent
    BY <1>5, SessIs, Zenon
  <2>2. ~ sess[t].dirty
    BY <1>t, <1>5, <2>1, Zenon DEF HoldInv, Away
  <2>3. sess[t].acct = x /\ Latest(t)
    BY <1>5, <2>2, Zenon DEF Saved
  <2>4. \A i \in DOMAIN dbq[sess[t].agent] : ~ IsUpdate(dbq[sess[t].agent][i], t)
    BY <1>3, <2>1, <2>3, Zenon DEF IsUpdate
  <2> QED BY <1>3, <2>3, <2>4, Zenon DEF Latest
<1> QED BY <1>3, <1>4, <1>5, Zenon

\* The login server has the account back.
LEMMA SavedBack ==
  ASSUME AccountInv, NEW x \in Account, Saved(x), entered[x] = 0 \/ sess[entered[x]].pc \in Away,
         UNCHANGED <<db, dbq, last, sess>>, entered'[x] = 0
  PROVE  Saved(x)'
<1>t. TypeOK /\ HoldInv
  BY Zenon DEF AccountInv
<1> QED BY SavedEnded, Zenon DEF Saved, OwnQueries

\* A session that no agent holds has not begun or has ended.
LEMMA HeldIs ==
  ASSUME AccountInv, NEW t \in DOMAIN sess, ~ Held(t)
  PROVE  sess[t].pc \in Away
<1>t. TypeOK
  BY Zenon DEF AccountInv
<1> QED BY Zenon DEF Held, Away

\* AgentDown keeps AccountInv.
LEMMA AgentDownInv ==
  ASSUME AccountInv, NEW a \in Agent, AgentDown(a)
  PROVE  AccountInv'
<1>0. TypeOK /\ LoginInv /\ RegisterInv /\ HoldInv /\ TellInv /\ SaveInv /\ unentered \subseteq mixed
  BY Zenon DEF AccountInv
<1>1. /\ life[a] = "dead" /\ toLogin[a] = <<>> /\ life' = [life EXCEPT ![a] = "down"]
      /\ entered' = [x \in Account |-> IF x \in EnteredAt(a) THEN 0 ELSE entered[x]]
      /\ UNCHANGED <<conn, ctx, luser, queue, toAgent, toLogin, sess, user, db, dbq, last, torn, mixed, unentered>>
  BY Zenon DEF AgentDown, agent, data, history
<1>2. \A x \in Account : \/ entered'[x] = entered[x] /\ (entered[x] # 0 => sess[entered[x]].agent # a)
                         \/ entered'[x] = 0 /\ entered[x] # 0 /\ sess[entered[x]].agent = a
  BY <1>1, Zenon DEF EnteredAt
<1>3. TypeOK'
  <2>1. life' \in [Agent -> {"up", "dead", "down"}]
    BY <1>0, <1>1, Zenon DEF TypeOK
  <2>2. entered' \in [Account -> 0 .. Len(sess)]
    BY <1>0, <1>1, SessIs DEF TypeOK
  <2> QED BY <1>0, <1>1, <2>1, <2>2, Zenon DEF TypeOK
<1>4. LoginInv'
  BY <1>0, <1>1, <1>2, Zenon DEF LoginInv
<1>5. RegisterInv'
  BY <1>0, <1>1, Zenon DEF RegisterInv
<1>6. \A t : Held(t)' = Held(t)
  BY <1>1, Zenon DEF Held
<1>7. \A b \in Agent : life'[b] = IF b = a THEN "down" ELSE life[b]
  BY <1>0, <1>1, Zenon DEF TypeOK
<1>8. HoldInv'
  <2>1. \A t \in DOMAIN sess : sess[t].agent \in Agent /\ sess[t].acct \in Account
    BY <1>0, SessIs, Zenon
  <2> QED BY <1>0, <1>1, <1>2, <1>6, <1>7, <2>1 DEF HoldInv
<1>9. TellInv'
  <2>1. \A b \in Agent : \A i \in DOMAIN toLogin[b] : toLogin[b][i] \in Account /\ b # a
    BY <1>0, <1>1 DEF TypeOK
  <2> QED BY <1>0, <1>1, <1>2, <1>6, <1>7, <2>1 DEF TellInv
<1>10. SaveInv'
  <2> SUFFICES ASSUME NEW x \in Account, x \notin torn \cup mixed
               PROVE  Saved(x)'
    BY <1>1, Zenon DEF SaveInv
  <2>1. Saved(x)
    BY <1>0, Zenon DEF SaveInv
  <2>2. CASE entered'[x] = entered[x]
    BY <1>0, <1>1, <2>1, <2>2, SavedKept, Zenon
  <2>3. CASE entered'[x] = 0 /\ entered[x] # 0 /\ sess[entered[x]].agent = a
    <3>1. entered[x] \in DOMAIN sess
      BY <1>0, <2>3, SessIs, Zenon
    <3>2. ~ Held(entered[x])
      BY <1>0, <1>1, <2>3, <3>1, Zenon DEF HoldInv
    <3> QED BY <1>0, <1>1, <2>1, <2>3, <3>1, <3>2, HeldIs, SavedBack, Zenon
  <2> QED BY <1>2, <2>2, <2>3, Zenon
<1> QED BY <1>0, <1>1, <1>3, <1>4, <1>5, <1>8, <1>9, <1>10, Zenon DEF AccountInv

\* A client taken from a waiting queue keeps what is said of the login server.
LEMMA ServeQueueInv ==
  ASSUME AccountInv, NEW x \in Account, ServeQueue(x), entered' = [entered EXCEPT ![x] = 0]
  PROVE  /\ conn' \in [Conn -> {"new", "open", "grace", "gone"}] /\ ctx' \in [Conn -> Account \cup {"anon", None}]
         /\ luser' \in [Account -> Conn \cup {None}] /\ mixed \subseteq mixed' /\ mixed' \subseteq Account
         /\ LoginInv'
<1>t. TypeOK /\ LoginInv
  BY Zenon DEF AccountInv
<1> DEFINE q == queue[x]
           n == Len(q)
           raises == {i \in 1 .. n - 1 : ctx[q[i]] # None /\ conn[q[i]] = "gone"}
           closed == {q[i] : i \in {j \in 1 .. n - 1 : /\ ctx[q[j]] # None
                                                      /\ \A k \in raises : j < k}}
           served == n > 0 /\ raises = {} /\ q[n] \notin closed /\ ctx[q[n]] # None
           u == q[n]
           taken == {c \in closed \cup (IF served THEN {u} ELSE {}) : ctx[c] # "anon"}
<1>1. /\ conn' = [c \in Conn |-> IF c \in closed THEN "gone" ELSE conn[c]]
      /\ ctx' = [c \in Conn |-> IF c \in closed THEN None ELSE IF served /\ c = u THEN x ELSE ctx[c]]
      /\ luser' = IF served THEN [luser EXCEPT ![x] = u] ELSE luser
      /\ mixed' = mixed \cup {y \in Account : luser[y] \in taken \/ (y = x /\ served /\ u \in taken)}
  BY Zenon DEF ServeQueue
<1>2. served => u \in Conn /\ u \notin closed /\ ctx[u] # None
  <2>1. q \in Seq(Conn)
    BY <1>t, Zenon DEF TypeOK
  <2> HIDE DEF q, closed, raises
  <2> QED BY <2>1
<1>3. \A c : c \in taken <=> (c \in closed \/ (served /\ c = u)) /\ ctx[c] # "anon"
  BY Zenon
<1> HIDE DEF served, closed, taken, u, raises, n, q
<1>4. \A c \in Conn : /\ conn'[c] = IF c \in closed THEN "gone" ELSE conn[c]
                      /\ ctx'[c] = IF c \in closed THEN None ELSE IF served /\ c = u THEN x ELSE ctx[c]
  BY <1>1, Zenon
<1>5. \A y \in Account : /\ luser'[y] = IF served /\ y = x THEN u ELSE luser[y]
                         /\ entered'[y] = IF y = x THEN 0 ELSE entered[y]
  BY <1>t, <1>1, Zenon DEF TypeOK
<1>6. /\ conn' \in [Conn -> {"new", "open", "grace", "gone"}] /\ ctx' \in [Conn -> Account \cup {"anon", None}]
      /\ luser' \in [Account -> Conn \cup {None}] /\ mixed \subseteq mixed' /\ mixed' \subseteq Account
  BY <1>t, <1>1, <1>2, Zenon DEF TypeOK
<1>7. \A c \in Conn : (conn'[c] = "new" => ctx'[c] = None) /\ (ctx'[c] = "anon" => conn'[c] = "open")
  BY <1>t, <1>2, <1>4, AccountAssumption DEF LoginInv
<1>8. ASSUME NEW y \in Account, luser'[y] # None
      PROVE  /\ ctx'[luser'[y]] # "anon" /\ conn'[luser'[y]] # "new"
             /\ y \notin mixed' => /\ conn'[luser'[y]] = "open" /\ ctx'[luser'[y]] = y /\ entered'[y] = 0
                                   /\ \A z \in Account \ {y} : luser'[z] # luser'[y]
  <2>1. CASE served /\ y = x
    <3>1. luser'[y] = u /\ u \in Conn /\ u \notin closed /\ ctx[u] # None /\ ctx'[u] = x /\ conn'[u] = conn[u]
      BY <1>2, <1>4, <1>5, <2>1, Zenon
    <3>2. y \notin mixed' => ctx[u] = "anon"
      BY <1>1, <1>3, <2>1, <3>1, Zenon
    <3>3. \A z \in Account \ {y} : luser'[z] = luser[z]
      BY <1>5, <2>1, Zenon
    <3> QED BY <1>t, <1>5, <2>1, <3>1, <3>2, <3>3, AccountAssumption DEF LoginInv, TypeOK
  <2>2. CASE ~ (served /\ y = x)
    <3> DEFINE w == luser[y]
    <3>1. luser'[y] = w /\ w \in Conn /\ w # None
      BY <1>t, <1>5, <1>8, <2>2, Zenon DEF TypeOK
    <3>2. ctx[w] # "anon" /\ conn[w] # "new"
      BY <1>t, <3>1, Zenon DEF LoginInv
    <3>3. y \notin mixed' => w \notin taken
      BY <1>1, Zenon
    <3>4. ASSUME y \notin mixed'
          PROVE  conn[w] = "open" /\ ctx[w] = y /\ entered[y] = 0 /\ \A z \in Account \ {y} : luser[z] # w
      BY <1>t, <1>6, <3>1, <3>4, Zenon DEF LoginInv
    <3>5. y \notin mixed' => w \notin closed /\ ~ (served /\ w = u)
      BY <1>3, <3>2, <3>3, Zenon
    <3> HIDE DEF w
    <3> QED BY <1>4, <1>5, <2>2, <3>1, <3>2, <3>4, <3>5, AccountAssumption, Zenon
  <2> QED BY <2>1, <2>2, Zenon
<1> QED BY <1>t, <1>6, <1>7, <1>8, Zenon DEF LoginInv

\* UserLeaveAgent keeps AccountInv.
LEMMA UserLeaveAgentInv ==
  ASSUME AccountInv, NEW a \in Agent, UserLeaveAgent(a)
  PROVE  AccountInv'
<1>0. TypeOK /\ LoginInv /\ RegisterInv /\ HoldInv /\ TellInv /\ SaveInv /\ unentered \subseteq mixed
  BY Zenon DEF AccountInv
<1> DEFINE x == Head(toLogin[a])
           t == entered[x]
<1>1. /\ life[a] # "down" /\ toLogin[a] # <<>>
      /\ toLogin' = [toLogin EXCEPT ![a] = Tail(@)]
      /\ unentered' = IF t = 0 \/ (t # 0 /\ sess[t].agent # a) THEN unentered \cup {x} ELSE unentered
      /\ entered' = [entered EXCEPT ![x] = 0]
      /\ UNCHANGED <<life, toAgent, sess, user, db, dbq, last, torn>>
  BY Zenon DEF UserLeaveAgent, agent, data
<1>2. /\ toLogin[a] \in Seq(Account) /\ Tail(toLogin[a]) \in Seq(Account) /\ x \in Account /\ x = toLogin[a][1] /\ 1 \in DOMAIN toLogin[a]
      /\ \A i \in DOMAIN Tail(toLogin[a]) : i \in Nat /\ i + 1 \in DOMAIN toLogin[a] /\ i + 1 # 1 /\ Tail(toLogin[a])[i] = toLogin[a][i + 1]
  <2>1. toLogin[a] \in Seq(Account)
    BY <1>0, Zenon DEF TypeOK
  <2> QED BY <1>1, <2>1, TailIs, Zenon
<1>3. x \notin mixed => t # 0 /\ sess[t].agent = a /\ ~ Held(t) /\ \A j \in DOMAIN toLogin[a] : toLogin[a][j] = x => j = 1
  BY <1>0, <1>2 DEF TellInv
<1>4. (t = 0 /\ UNCHANGED <<conn, ctx, luser, queue, mixed>>) \/ (queue' = [queue EXCEPT ![x] = <<>>] /\ ServeQueue(x))
  BY Zenon DEF UserLeaveAgent
<1> HIDE DEF x
<1>5. \A y \in Account : entered'[y] = IF y = x THEN 0 ELSE entered[y]
  BY <1>0, <1>1, Zenon DEF TypeOK
<1>6. /\ conn' \in [Conn -> {"new", "open", "grace", "gone"}] /\ ctx' \in [Conn -> Account \cup {"anon", None}]
      /\ luser' \in [Account -> Conn \cup {None}] /\ mixed \subseteq mixed' /\ mixed' \subseteq Account
      /\ queue' \in [Account -> Seq(Conn)] /\ LoginInv'
  <2>1. CASE t = 0 /\ UNCHANGED <<conn, ctx, luser, queue, mixed>>
    <3>1. \A y \in Account : entered'[y] = entered[y]
      BY <1>5, <2>1, Zenon
    <3>2. LoginInv'
      BY <1>0, <2>1, <3>1, Zenon DEF LoginInv
    <3> QED BY <1>0, <2>1, <3>2, Zenon DEF TypeOK
  <2>2. CASE queue' = [queue EXCEPT ![x] = <<>>] /\ ServeQueue(x)
    <3>1. queue' \in [Account -> Seq(Conn)]
      <4>1. <<>> \in Seq(Conn)
        OBVIOUS
      <4> QED BY <1>0, <2>2, <4>1, Zenon DEF TypeOK
    <3> QED BY <1>0, <1>1, <1>2, <2>2, <3>1, ServeQueueInv, Zenon
  <2> QED BY <1>4, <2>1, <2>2, Zenon
<1>7. unentered' \subseteq mixed'
  BY <1>0, <1>1, <1>3, <1>6, Zenon
<1>8. \A b \in Agent : toLogin'[b] = IF b = a THEN Tail(toLogin[a]) ELSE toLogin[b]
  BY <1>0, <1>1, Zenon DEF TypeOK
<1>9. TypeOK'
  <2>1. toLogin' \in [Agent -> Seq(Account)]
    BY <1>0, <1>1, <1>2, Zenon DEF TypeOK
  <2>2. entered' \in [Account -> 0 .. Len(sess)]
    <3>1. entered \in [Account -> 0 .. Len(sess)] /\ 0 \in 0 .. Len(sess) /\ entered' = [entered EXCEPT ![x] = 0]
      BY <1>0, <1>1, SessIs, SMTT(30) DEF TypeOK
    <3> QED BY <3>1, Zenon
  <2>3. unentered' \subseteq Account
    BY <1>6, <1>7, Zenon
  <2> QED BY <1>0, <1>1, <1>6, <2>1, <2>2, <2>3, Zenon DEF TypeOK
<1>10. RegisterInv'
  BY <1>0, <1>1 DEF RegisterInv
<1>11. \A s : Held(s)' = Held(s)
  BY <1>1, Zenon DEF Held
<1>12. HoldInv'
  <2>1. \A s \in DOMAIN sess : sess[s].acct \in Account
    BY <1>0, SessIs, Zenon
  <2> QED BY <1>0, <1>1, <1>3, <1>5, <1>6, <1>11, <2>1 DEF HoldInv
<1>13. TellInv'
  <2>1. \A b \in Agent : life'[b] = "down" => toLogin'[b] = <<>>
    BY <1>0, <1>1, <1>8, Zenon DEF TellInv
  <2> DEFINE q == toLogin[a]
             r == Tail(q)
  <2>0. /\ q = toLogin[a] /\ toLogin'[a] = r /\ \A i \in DOMAIN q : q[i] \in Account
        /\ \A i \in DOMAIN r : i \in Nat /\ i + 1 \in DOMAIN q /\ i + 1 # 1 /\ r[i] = q[i + 1]
    BY <1>2, <1>8
  <2> HIDE DEF q, r
  <2>2. \A b \in Agent : \A i \in DOMAIN toLogin'[b] : toLogin'[b][i] \in Account /\ (toLogin'[b][i] \notin mixed => toLogin'[b][i] # x)
    <3> TAKE b \in Agent
    <3>1. CASE b = a
      BY <1>3, <2>0, <3>1, Zenon
    <3>2. CASE b # a
      <4>1. toLogin'[b] = toLogin[b] /\ \A i \in DOMAIN toLogin[b] : toLogin[b][i] \in Account
        BY <1>0, <1>8, <3>2 DEF TypeOK
      <4> QED BY <1>0, <1>3, <3>2, <4>1 DEF TellInv
    <3> QED BY <3>1, <3>2, Zenon
  <2>3. \A b \in Agent : \A i \in DOMAIN toLogin'[b] :
          toLogin'[b][i] \notin mixed =>
            /\ entered[toLogin'[b][i]] # 0 /\ sess[entered[toLogin'[b][i]]].agent = b /\ ~ Held(entered[toLogin'[b][i]])
            /\ \A j \in DOMAIN toLogin'[b] : toLogin'[b][j] = toLogin'[b][i] => j = i
    <3> TAKE b \in Agent
    <3>1. CASE b = a
      <4>1. \A k \in DOMAIN q : q[k] \notin mixed =>
              /\ entered[q[k]] # 0 /\ sess[entered[q[k]]].agent = a /\ ~ Held(entered[q[k]])
              /\ \A j \in DOMAIN q : q[j] = q[k] => j = k
        BY <1>0, <2>0, Zenon DEF TellInv
      <4>2. \A i, j \in DOMAIN r : i + 1 = j + 1 => i = j
        BY <2>0
      <4> QED BY <2>0, <3>1, <4>1, <4>2
    <3>2. CASE b # a
      BY <1>0, <1>8, <3>2, Zenon DEF TellInv
    <3> QED BY <3>1, <3>2, Zenon
  <2> QED BY <1>1, <1>5, <1>6, <1>11, <2>1, <2>2, <2>3, SMTT(30) DEF TellInv
<1>14. SaveInv'
  <2> SUFFICES ASSUME NEW y \in Account, y \notin torn \cup mixed
               PROVE  Saved(y)'
    BY <1>1, <1>6, Zenon DEF SaveInv
  <2>1. Saved(y)
    BY <1>0, Zenon DEF SaveInv
  <2>2. CASE y # x
    BY <1>0, <1>1, <1>5, <2>1, <2>2, SavedKept, Zenon
  <2>3. CASE y = x
    <3>1. t \in DOMAIN sess /\ ~ Held(t)
      BY <1>0, <1>2, <1>3, <2>3, SessIs, Zenon
    <3> QED BY <1>0, <1>1, <1>5, <2>1, <2>3, <3>1, HeldIs, SavedBack, Zenon
  <2> QED BY <2>2, <2>3, Zenon
<1> QED BY <1>6, <1>7, <1>9, <1>10, <1>12, <1>13, <1>14, Zenon DEF AccountInv

\* UserEnterAgent keeps AccountInv.
LEMMA UserEnterAgentInv ==
  ASSUME AccountInv, NEW c \in Conn, NEW a \in Agent, UserEnterAgent(c, a)
  PROVE  AccountInv'
<1>0. TypeOK /\ LoginInv /\ RegisterInv /\ HoldInv /\ TellInv /\ SaveInv /\ unentered \subseteq mixed
  BY Zenon DEF AccountInv
<1>a. PICK x, u, t : x = ctx[c] /\ u = luser[x] /\ t = Len(sess) + 1
  BY Zenon
<1> DEFINE m == [kind |-> "register", of |-> t]
<1>1. /\ x \in Account /\ u # None
      /\ toAgent' = IF life[a] = "up" THEN [toAgent EXCEPT ![a] = Append(@, m)] ELSE toAgent
      /\ \E s \in {"none", "closed"} : sess' = Append(sess, NewSess(x, a, s))
      /\ \/ /\ luser' = [luser EXCEPT ![x] = None] /\ conn' = [conn EXCEPT ![u] = "grace"]
            /\ entered' = [entered EXCEPT ![x] = t]
         \/ conn[u] = "gone" /\ UNCHANGED <<luser, conn, entered>>
      /\ UNCHANGED <<ctx, queue, life, toLogin, user, db, dbq, last, torn, mixed, unentered>>
  BY <1>a, Zenon DEF UserEnterAgent, SendAgent, agent, data, history
<1>2. /\ u \in Conn /\ ctx[u] # "anon" /\ conn[u] # "new"
      /\ x \notin mixed => conn[u] = "open" /\ entered[x] = 0 /\ \A y \in Account \ {x} : luser[y] # u
  BY <1>0, <1>1, <1>a DEF TypeOK, LoginInv
<1>3. PICK s \in {"none", "closed"} : sess' = Append(sess, NewSess(x, a, s))
  BY <1>1, Zenon
<1>4. NewSess(x, a, s) \in SessRec
  BY <1>1, Zenon DEF NewSess, SessRec, Away
<1>5. /\ NewSess(x, a, s).acct = x /\ NewSess(x, a, s).agent = a /\ NewSess(x, a, s).pc = "none"
      /\ ~ NewSess(x, a, s).token /\ ~ NewSess(x, a, s).dirty
  BY Zenon DEF NewSess
<1>6. /\ sess' \in Seq(SessRec) /\ Len(sess) \in Nat /\ Len(sess') = t /\ DOMAIN sess = 1 .. Len(sess) /\ DOMAIN sess' = 1 .. t
      /\ sess'[t] = NewSess(x, a, s) /\ \A r \in DOMAIN sess : sess'[r] = sess[r]
  <2>1. sess \in Seq(SessRec)
    BY <1>0, Zenon DEF TypeOK
  <2> QED BY <1>3, <1>4, <1>a, <2>1, AppendIs
<1>7. t \notin DOMAIN sess /\ t \in DOMAIN sess' /\ t # 0 /\ t \in Nat /\ \A r \in DOMAIN sess' : r \in DOMAIN sess \/ r = t
  BY <1>6, <1>a
<1>8. m \in Notice /\ m.kind = "register" /\ m.of = t
  BY <1>7, Zenon DEF Notice
<1>9. \A r : [kind |-> "register", of |-> r] = m <=> r = t
  <2> SUFFICES ASSUME NEW r, [kind |-> "register", of |-> r] = m PROVE r = t
    BY Zenon
  <2>1. [kind |-> "register", of |-> r].of = m.of
    BY Zenon
  <2> QED BY <2>1, Zenon
<1> HIDE DEF m
<1>b. /\ toLogin' = toLogin /\ mixed' = mixed /\ dbq' = dbq /\ db' = db /\ last' = last
      /\ \A r \in DOMAIN sess : sess'[r] = sess[r]
  BY <1>1, <1>6, Zenon
<1>c. /\ toLogin \in [Agent -> Seq(Account)] /\ \A b \in Agent : \A i \in DOMAIN toLogin[b] : toLogin[b][i] \in Account
      /\ \A b \in Agent : \A i \in DOMAIN dbq[b] : dbq[b][i].of \in DOMAIN sess
  BY <1>0 DEF TypeOK
<1>d. \A y \in Account : entered[y] # 0 => entered[y] \in DOMAIN sess
  BY <1>0, SessIs, Zenon
<1>10. \A y \in Account : entered'[y] = entered[y] \/ (y = x /\ entered'[y] = t)
  BY <1>0, <1>1, Zenon DEF TypeOK
<1>11. x \notin mixed => entered'[x] = t /\ luser' = [luser EXCEPT ![x] = None] /\ conn' = [conn EXCEPT ![u] = "grace"]
  BY <1>0, <1>1, <1>2, Zenon DEF TypeOK
<1>12. LoginInv'
  <2>1. CASE /\ luser' = [luser EXCEPT ![x] = None] /\ conn' = [conn EXCEPT ![u] = "grace"]
             /\ entered' = [entered EXCEPT ![x] = t]
    <3>1. \A d \in Conn : conn'[d] = IF d = u THEN "grace" ELSE conn[d]
      BY <1>0, <2>1, Zenon DEF TypeOK
    <3>2. \A y \in Account : luser'[y] = (IF y = x THEN None ELSE luser[y]) /\ (y # x => entered'[y] = entered[y])
      BY <1>0, <2>1, Zenon DEF TypeOK
    <3>3. \A y \in Account : luser[y] # None => luser[y] \in Conn
      BY <1>0, Zenon DEF TypeOK
    <3>4. \A d \in Conn : (conn'[d] = "new" => ctx'[d] = None) /\ (ctx'[d] = "anon" => conn'[d] = "open")
      BY <1>0, <1>1, <1>2, <3>1, Zenon DEF LoginInv
    <3>5. \A y \in Account : luser'[y] # None => ctx'[luser'[y]] # "anon" /\ conn'[luser'[y]] # "new"
      BY <1>0, <1>1, <3>1, <3>2, <3>3 DEF LoginInv
    <3>6. ASSUME NEW y \in Account, luser'[y] # None, y \notin mixed
          PROVE  /\ conn'[luser'[y]] = "open" /\ ctx'[luser'[y]] = y /\ entered'[y] = 0
                 /\ \A z \in Account \ {y} : luser'[z] # luser'[y]
      <4>1. y # x /\ luser'[y] = luser[y] /\ luser[y] \in Conn
        BY <3>2, <3>3, <3>6, Zenon
      <4>2. luser[y] # u
        BY <1>0, <1>1, <3>6, <4>1, <1>a, Zenon DEF LoginInv
      <4> QED BY <1>0, <1>1, <3>1, <3>2, <3>6, <4>1, <4>2 DEF LoginInv
    <3> QED BY <1>1, <3>4, <3>5, <3>6, Zenon DEF LoginInv
  <2>2. CASE UNCHANGED <<luser, conn, entered>>
    BY <1>0, <1>1, <2>2, Zenon DEF LoginInv
  <2> QED BY <1>1, <2>1, <2>2, Zenon
<1>13. /\ toAgent' \in [Agent -> Seq(Notice)]
       /\ \A b \in Agent : \A i \in DOMAIN toAgent[b] : i \in DOMAIN toAgent'[b] /\ toAgent'[b][i] = toAgent[b][i]
       /\ \A b \in Agent : \A i \in DOMAIN toAgent'[b] : \/ i \in DOMAIN toAgent[b] /\ toAgent'[b][i] = toAgent[b][i]
                                                         \/ b = a /\ life[a] = "up" /\ i = Len(toAgent[a]) + 1 /\ toAgent'[b][i] = m
  <2>1. CASE life[a] = "up"
    <3> DEFINE q == toAgent[a]
    <3>1. q \in Seq(Notice) /\ toAgent' = [toAgent EXCEPT ![a] = Append(q, m)]
      BY <1>0, <1>1, <2>1, Zenon DEF TypeOK
    <3>2. \A b \in Agent : toAgent'[b] = IF b = a THEN Append(q, m) ELSE toAgent[b]
      BY <1>0, <3>1, Zenon DEF TypeOK
    <3>3. /\ Append(q, m) \in Seq(Notice) /\ Len(q) \in Nat
          /\ DOMAIN Append(q, m) = 1 .. Len(q) + 1 /\ DOMAIN q = 1 .. Len(q)
          /\ Append(q, m)[Len(q) + 1] = m
          /\ \A i \in DOMAIN q : Append(q, m)[i] = q[i]
      BY <1>8, <3>1, AppendIs
    <3>4. q = toAgent[a]
      BY Zenon
    <3> HIDE DEF q
    <3>5. toAgent' \in [Agent -> Seq(Notice)]
      BY <1>0, <3>1, <3>3, Zenon DEF TypeOK
    <3>6. \A i \in DOMAIN Append(q, m) : i \in DOMAIN q \/ i = Len(q) + 1
      BY <3>3
    <3>7. \A i \in DOMAIN q : i \in DOMAIN Append(q, m)
      BY <3>3
    <3>8. ASSUME NEW b \in Agent
          PROVE  /\ \A i \in DOMAIN toAgent[b] : i \in DOMAIN toAgent'[b] /\ toAgent'[b][i] = toAgent[b][i]
                 /\ \A i \in DOMAIN toAgent'[b] : \/ i \in DOMAIN toAgent[b] /\ toAgent'[b][i] = toAgent[b][i]
                                                  \/ b = a /\ life[a] = "up" /\ i = Len(toAgent[a]) + 1 /\ toAgent'[b][i] = m
      <4>1. CASE b = a
        <5>1. toAgent'[b] = Append(q, m) /\ toAgent[b] = q
          BY <3>2, <3>4, <4>1, Zenon
        <5> QED BY <2>1, <3>3, <3>4, <3>6, <3>7, <4>1, <5>1, Zenon
      <4>2. CASE b # a
        <5>1. toAgent'[b] = toAgent[b]
          BY <3>2, <4>2, Zenon
        <5> QED BY <5>1, Zenon
      <4> QED BY <4>1, <4>2, Zenon
    <3> QED BY <3>5, <3>8, Zenon
  <2>2. CASE life[a] # "up"
    <3>1. toAgent' = toAgent /\ toAgent \in [Agent -> Seq(Notice)]
      BY <1>0, <1>1, <2>2, Zenon DEF TypeOK
    <3> QED BY <3>1, Zenon
  <2> QED BY <2>1, <2>2, Zenon
<1>14. TypeOK'
  <2>1. entered' \in [Account -> 0 .. Len(sess')]
    <3>1. entered \in [Account -> 0 .. Len(sess')] /\ t \in 0 .. Len(sess')
      <4>1. entered \in [Account -> 0 .. Len(sess)] /\ 0 .. Len(sess) \subseteq 0 .. Len(sess')
        BY <1>0, <1>6, <1>a DEF TypeOK
      <4> QED BY <1>6, <1>7, <4>1
    <3> QED BY <1>1, <3>1, Zenon
  <2>2. user' \in [Agent -> [Account -> 0 .. Len(sess')]]
    <3>1. 0 .. Len(sess) \subseteq 0 .. Len(sess')
      BY <1>6, <1>a
    <3>2. \A b \in Agent : user[b] \in [Account -> 0 .. Len(sess')]
      BY <1>0, <3>1, Zenon DEF TypeOK
    <3> QED BY <1>0, <1>1, <3>2, Zenon DEF TypeOK
  <2>3. conn' \in [Conn -> {"new", "open", "grace", "gone"}] /\ luser' \in [Account -> Conn \cup {None}]
    BY <1>0, <1>1, Zenon DEF TypeOK
  <2>4. \A b \in Agent : \A i \in DOMAIN dbq'[b] : dbq'[b][i].of \in DOMAIN sess'
    BY <1>0, <1>1, <1>6, <1>7, <1>a DEF TypeOK
  <2> QED BY <1>0, <1>1, <1>6, <1>13, <2>1, <2>2, <2>3, <2>4, Zenon DEF TypeOK
<1>15. \A r \in DOMAIN sess : Held(r)' = Held(r)
  <2> TAKE r \in DOMAIN sess
  <2> DEFINE w == [kind |-> "register", of |-> r]
             b == sess[r].agent
  <2>1. b \in Agent /\ sess'[r] = sess[r] /\ w # m
    BY <1>0, <1>6, <1>7, <1>9, SessIs, Zenon
  <2> HIDE DEF w, b
  <2>2. (\E i \in DOMAIN toAgent'[b] : toAgent'[b][i] = w) <=> (\E i \in DOMAIN toAgent[b] : toAgent[b][i] = w)
    BY <1>13, <2>1, Zenon
  <2> QED BY <2>1, <2>2, Zenon DEF Held, w, b
<1>16. Held(t)' => life[a] = "up"
  <2>1. Held(t)' => \E i \in DOMAIN toAgent'[a] : toAgent'[a][i] = [kind |-> "register", of |-> t]
    BY <1>5, <1>6, Zenon DEF Held
  <2>2. \A i \in DOMAIN toAgent[a] : toAgent[a][i] # m
    BY <1>0, <1>7, <1>8 DEF RegisterInv
  <2> QED BY <1>9, <1>13, <2>1, <2>2, ZenonT(40)
<1>17. RegisterInv'
  <2> SUFFICES ASSUME NEW b \in Agent, NEW i \in DOMAIN toAgent'[b], toAgent'[b][i].kind = "register"
               PROVE  LET r == toAgent'[b][i].of
                      IN /\ r \in DOMAIN sess' /\ sess'[r].agent = b /\ sess'[r].pc = "none" /\ ~ sess'[r].token
                         /\ \A j \in DOMAIN toAgent'[b] : toAgent'[b][j] = toAgent'[b][i] => j = i
    BY Zenon DEF RegisterInv
  <2>1. \A j \in DOMAIN toAgent[b] : toAgent[b][j] # m
    BY <1>0, <1>7, <1>8, SMTT(30) DEF RegisterInv
  <2>2. CASE i \in DOMAIN toAgent[b] /\ toAgent'[b][i] = toAgent[b][i]
    <3>1. DOMAIN sess \subseteq DOMAIN sess'
      BY <1>6, <1>7, <1>a, SMTT(30)
    <3> QED BY <1>0, <1>6, <1>13, <2>1, <2>2, <3>1, SMTT(30) DEF RegisterInv
  <2>3. CASE b = a /\ life[a] = "up" /\ i = Len(toAgent[a]) + 1 /\ toAgent'[b][i] = m
    BY <1>5, <1>6, <1>7, <1>8, <1>13, <2>1, <2>3, SMTT(30)
  <2> QED BY <1>13, <2>2, <2>3, Zenon
<1>18. HoldInv'
  <2>1. \A b \in Agent : toAgent'[b] # <<>> => life'[b] = "up"
    <3>1. \A b \in Agent : toAgent'[b] = toAgent[b] \/ (b = a /\ life[a] = "up")
      BY <1>0, <1>1, Zenon DEF TypeOK
    <3> QED BY <1>0, <1>1, <3>1, Zenon DEF HoldInv
  <2>2. ASSUME NEW r \in DOMAIN sess'
        PROVE  /\ Held(r)' => life'[sess'[r].agent] = "up"
               /\ Held(r)' /\ sess'[r].acct \notin mixed' => entered'[sess'[r].acct] = r
               /\ sess'[r].token => sess'[r].pc = "none"
               /\ sess'[r].dirty => sess'[r].pc \in {"fighter", "fought", "on"}
    <3>1. CASE r \in DOMAIN sess
      <4>1. sess'[r] = sess[r] /\ Held(r)' = Held(r) /\ sess[r].acct \in Account /\ r # 0
        BY <1>0, <1>6, <1>15, <3>1, SessIs, SMTT(30)
      <4> QED BY <1>0, <1>1, <1>2, <1>10, <3>1, <4>1, Zenon DEF HoldInv
    <3>2. CASE r = t
      BY <1>1, <1>5, <1>6, <1>11, <1>16, <3>2, Zenon
    <3> QED BY <1>7, <2>2, <3>1, <3>2, Zenon
  <2> QED BY <2>1, <2>2, Zenon DEF HoldInv
<1>19. TellInv'
  <2>1. \A b \in Agent : life'[b] = "down" => toLogin'[b] = <<>>
    BY <1>0, <1>1, ZenonT(40) DEF TellInv
  <2>2. ASSUME NEW b \in Agent, NEW i \in DOMAIN toLogin'[b], toLogin'[b][i] \notin mixed'
        PROVE  /\ entered'[toLogin'[b][i]] # 0 /\ sess'[entered'[toLogin'[b][i]]].agent = b
               /\ ~ Held(entered[toLogin[b][i]])'
               /\ \A j \in DOMAIN toLogin'[b] : toLogin'[b][j] = toLogin'[b][i] => j = i
    <3>1. PICK y \in Account : y = toLogin[b][i] /\ y \notin mixed
      BY <1>b, <1>c, <2>2, Zenon
    <3>2. PICK r : r = entered[y]
      BY Zenon
    <3>3. r # 0 /\ sess[r].agent = b /\ ~ Held(r) /\ \A j \in DOMAIN toLogin[b] : toLogin[b][j] = y => j = i
      BY <1>0, <1>b, <2>2, <3>1, <3>2, Zenon DEF TellInv
    <3>4. r \in DOMAIN sess /\ entered'[y] = r
      BY <1>2, <1>10, <1>d, <3>1, <3>2, <3>3, Zenon
    <3>5. ~ Held(r)' /\ sess'[r] = sess[r]
      BY <1>b, <1>15, <3>3, <3>4, Zenon
    <3> QED BY <1>b, <3>1, <3>3, <3>4, <3>5, ZenonT(40)
  <2> QED BY <2>1, <2>2, Zenon DEF TellInv
<1>20. SaveInv'
  <2> SUFFICES ASSUME NEW y \in Account, y \notin torn \cup mixed
               PROVE  Saved(y)'
    BY <1>1, Zenon DEF SaveInv
  <2>1. Saved(y)
    BY <1>0, Zenon DEF SaveInv
  <2>2. CASE y # x
    BY <1>0, <1>1, <1>6, <1>10, <2>1, <2>2, SavedKept, ZenonT(40)
  <2>3. CASE y = x
    <3>1. entered[x] = 0 /\ entered'[x] = t
      BY <1>2, <1>11, <2>3, Zenon
    <3>2. /\ db[x] = last[x]
          /\ \A b \in Agent : \A i \in DOMAIN dbq[b] : sess[dbq[b][i].of].acct # x
      BY <1>0, <1>1, <2>1, <2>3, <3>1, SavedEnded, ZenonT(40)
    <3>3. sess'[t].acct = x /\ sess'[t].agent = a /\ sess'[t].pc = "none" /\ ~ sess'[t].dirty
      BY <1>5, <1>6, Zenon
    <3>4. \A i \in DOMAIN dbq[a] : ~ IsUpdate(dbq[a][i], t) /\ ~ IsQuestion(dbq[a][i], t)
      BY <1>7, <1>c, Zenon DEF IsUpdate, IsQuestion
    <3>5. OwnQueries(x)'
      BY <1>b, <1>c, <3>2 DEF OwnQueries
    <3>6. Latest(t)'
      BY <1>b, <3>2, <3>3, <3>4, Zenon DEF Latest
    <3>7. Asking(t)'
      BY <1>b, <3>3, <3>4, Zenon DEF Asking
    <3>8. t # 0 /\ "none" \in Away
      BY <1>7, Zenon DEF Away
    <3> QED BY <1>b, <2>3, <3>1, <3>3, <3>5, <3>6, <3>7, <3>8, Zenon DEF Saved
  <2> QED BY <2>2, <2>3, Zenon
<1> QED BY <1>0, <1>1, <1>12, <1>14, <1>17, <1>18, <1>19, <1>20, Zenon DEF AccountInv

-----------------------------------------------------------------------------
(* agent server: a session holds on to no more than before *)

\* The login server's part of a step of an agent.
Login == <<conn, ctx, luser, queue, entered, life, mixed, unentered>>

SameSessions == DOMAIN sess' = DOMAIN sess /\ \A t \in DOMAIN sess : sess'[t].acct = sess[t].acct /\ sess'[t].agent = sess[t].agent
HoldsLess == \A t \in DOMAIN sess : Held(t)' => Held(t)

\* A step of an agent keeps the invariant if it keeps its four parts about agents.
LEMMA LoginKept ==
  ASSUME AccountInv, UNCHANGED Login, torn' \subseteq Account,
         sess' \in Seq(SessRec), DOMAIN sess' = DOMAIN sess, user' \in [Agent -> [Account -> 0 .. Len(sess)]],
         toAgent' \in [Agent -> Seq(Notice)], toLogin' \in [Agent -> Seq(Account)],
         db' \in [Account -> Nat], dbq' \in [Agent -> Seq(Query)], last' \in [Account -> Nat],
         \A a \in Agent : \A i \in DOMAIN dbq'[a] : dbq'[a][i].of \in DOMAIN sess,
         RegisterInv', HoldInv', TellInv', SaveInv'
  PROVE  AccountInv'
<1>0. TypeOK /\ LoginInv /\ unentered \subseteq mixed
  BY Zenon DEF AccountInv
<1>1. UNCHANGED <<conn, ctx, luser, queue, entered, life, mixed, unentered>>
  BY Zenon DEF Login
<1>2. Len(sess') = Len(sess)
  <2>1. sess \in Seq(SessRec)
    BY <1>0, Zenon DEF TypeOK
  <2>2. Len(sess) \in Nat /\ Len(sess') \in Nat /\ 1 .. Len(sess) = 1 .. Len(sess')
    BY <2>1, SMTT(30)
  <2> QED BY <2>2
<1>3. TypeOK'
  BY <1>0, <1>1, <1>2, ZenonT(40) DEF TypeOK
<1>4. LoginInv'
  BY <1>0, <1>1, Zenon DEF LoginInv
<1> QED BY <1>0, <1>1, <1>3, <1>4, Zenon DEF AccountInv

\* HoldInv allows a step after which agents hold less.
LEMMA HoldKept ==
  ASSUME AccountInv, UNCHANGED Login, SameSessions, HoldsLess,
         \A a \in Agent : toAgent'[a] # <<>> => toAgent[a] # <<>>,
         \A t \in DOMAIN sess : /\ sess'[t].token => sess'[t].pc = "none"
                                /\ sess'[t].dirty => sess'[t].pc \in {"fighter", "fought", "on"}
  PROVE  HoldInv'
BY Zenon DEF AccountInv, Login, SameSessions, HoldsLess, HoldInv

\* So does TellInv, if nothing is told.
LEMMA TellKept ==
  ASSUME AccountInv, UNCHANGED <<Login, toLogin>>, SameSessions, HoldsLess
  PROVE  TellInv'
<1>0. TypeOK /\ TellInv /\ UNCHANGED <<entered, life, mixed, toLogin>>
  BY Zenon DEF AccountInv, Login
<1>1. \A a \in Agent : life'[a] = "down" => toLogin'[a] = <<>>
  BY <1>0, Zenon DEF TellInv
<1>2. ASSUME NEW a \in Agent, NEW i \in DOMAIN toLogin'[a], toLogin'[a][i] \notin mixed'
      PROVE  /\ entered'[toLogin'[a][i]] # 0 /\ sess'[entered'[toLogin'[a][i]]].agent = a
             /\ ~ Held(entered[toLogin[a][i]])'
             /\ \A j \in DOMAIN toLogin'[a] : toLogin'[a][j] = toLogin'[a][i] => j = i
  <2>1. PICK x \in Account : x = toLogin[a][i] /\ x \notin mixed
    BY <1>0, <1>2 DEF TypeOK
  <2>2. PICK r : r = entered[x]
    BY Zenon
  <2>3. r # 0 /\ sess[r].agent = a /\ ~ Held(r) /\ \A j \in DOMAIN toLogin[a] : toLogin[a][j] = x => j = i
    BY <1>0, <1>2, <2>1, <2>2, Zenon DEF TellInv
  <2>4. r \in DOMAIN sess
    BY <1>0, <2>2, <2>3, SessIs, Zenon
  <2>5. ~ Held(r)' /\ sess'[r].agent = a
    BY <2>3, <2>4, Zenon DEF HoldsLess, SameSessions
  <2> QED BY <1>0, <2>1, <2>2, <2>3, <2>5, Zenon
<1> QED BY <1>1, <1>2 DEF TellInv

\* Agent a tells that the accounts of s come back, whose sessions it held until now.
\* Agent a tells the login server of the accounts s.
Tells(a, s) == toLogin' = [toLogin EXCEPT ![a] = @ \o s]

\* An agent may tell that accounts come back whose sessions it has just stopped to hold.
LEMMA TellMore ==
  ASSUME AccountInv, UNCHANGED Login, SameSessions, HoldsLess, NEW a \in Agent, life[a] # "down",
         NEW s \in Seq(Account), \A i, j \in DOMAIN s : s[i] = s[j] => i = j,
         Tells(a, s),
         \A x \in Account \ mixed : (\E i \in DOMAIN s : s[i] = x) =>
            \E t \in DOMAIN sess : entered[x] = t /\ sess[t].agent = a /\ Held(t) /\ ~ Held(t)'
  PROVE  TellInv' /\ toLogin' \in [Agent -> Seq(Account)]
<1>0. TypeOK /\ TellInv /\ UNCHANGED <<entered, life, mixed>>
  BY ZenonT(40) DEF AccountInv, Login
<1>a. PICK q : q = toLogin[a] /\ q \in Seq(Account)
  BY <1>0, Zenon DEF TypeOK
<1>b. PICK c, n : c = q \o s /\ n = Len(q)
  BY Zenon
<1>c. /\ c \in Seq(Account)
      /\ \A i \in DOMAIN c : \/ i \in DOMAIN q /\ c[i] = q[i]
                             \/ i \in Int /\ n \in Nat /\ i - n \in DOMAIN s /\ c[i] = s[i - n]
  <2>1. c \in Seq(Account) /\ n \in Nat /\ \A i \in DOMAIN c : i \in Int
    BY <1>a, <1>b
  <2> QED BY <1>a, <1>b, <2>1, ConcatIs
<1>d. toLogin' = [toLogin EXCEPT ![a] = c] /\ toLogin \in [Agent -> Seq(Account)]
  BY <1>0, <1>a, <1>b, Zenon DEF TypeOK, Tells
<1>1. toLogin' \in [Agent -> Seq(Account)] /\ \A b \in Agent : toLogin'[b] = IF b = a THEN c ELSE toLogin[b]
  BY <1>c, <1>d, Zenon
<1>2. \A b \in Agent : life'[b] = "down" => toLogin'[b] = <<>>
  BY <1>0, <1>1, Zenon DEF TellInv
<1>3. ASSUME NEW b \in Agent, NEW i \in DOMAIN toLogin[b], toLogin[b][i] \notin mixed
      PROVE  \E t \in DOMAIN sess : /\ entered[toLogin[b][i]] = t /\ sess[t].agent = b /\ ~ Held(t) /\ ~ Held(t)'
                                    /\ \A j \in DOMAIN toLogin[b] : toLogin[b][j] = toLogin[b][i] => j = i
  <2>1. toLogin[b][i] \in Account
    BY <1>0 DEF TypeOK
  <2>2. PICK r : r = entered[toLogin[b][i]]
    BY Zenon
  <2>3. r # 0 /\ sess[r].agent = b /\ ~ Held(r) /\ \A j \in DOMAIN toLogin[b] : toLogin[b][j] = toLogin[b][i] => j = i
    BY <1>0, <1>3, <2>2, Zenon DEF TellInv
  <2>4. r \in DOMAIN sess
    BY <1>0, <2>1, <2>2, <2>3, SessIs, Zenon
  <2> QED BY <2>2, <2>3, <2>4, Zenon DEF HoldsLess
<1>4. ASSUME NEW b \in Agent, NEW i \in DOMAIN toLogin'[b], toLogin'[b][i] \notin mixed'
      PROVE  /\ entered'[toLogin'[b][i]] # 0 /\ sess'[entered'[toLogin'[b][i]]].agent = b
             /\ ~ Held(entered[toLogin[b][i]])'
             /\ \A j \in DOMAIN toLogin'[b] : toLogin'[b][j] = toLogin'[b][i] => j = i
  <2>1. PICK x \in Account : x = toLogin'[b][i] /\ x \notin mixed
    BY <1>0, <1>1, <1>4
  <2>2. SUFFICES \E t \in DOMAIN sess : /\ entered[x] = t /\ sess[t].agent = b /\ ~ Held(t)'
                                        /\ \A j \in DOMAIN toLogin'[b] : toLogin'[b][j] = x => j = i
    <3>1. PICK t \in DOMAIN sess : /\ entered[x] = t /\ sess[t].agent = b /\ ~ Held(t)'
                                   /\ \A j \in DOMAIN toLogin'[b] : toLogin'[b][j] = x => j = i
      BY <2>2, Zenon
    <3>2. t # 0 /\ sess'[t].agent = b
      BY <1>0, <3>1, SessIs, SMTT(30) DEF SameSessions
    <3> QED BY <1>0, <2>1, <3>1, <3>2, Zenon
  <2>3. CASE b # a
    <3>1. toLogin'[b] = toLogin[b] /\ i \in DOMAIN toLogin[b] /\ toLogin[b][i] = x
      BY <1>1, <1>4, <2>1, <2>3, Zenon
    <3>2. \E t \in DOMAIN sess : /\ entered[x] = t /\ sess[t].agent = b /\ ~ Held(t) /\ ~ Held(t)'
                                 /\ \A j \in DOMAIN toLogin[b] : toLogin[b][j] = x => j = i
      BY <1>3, <2>1, <3>1
    <3> QED BY <3>1, <3>2, Zenon
  <2>4. CASE b = a /\ i \in DOMAIN q /\ c[i] = q[i]
    <3>0. q[i] = x /\ toLogin[b] = q /\ toLogin'[b] = c
      BY <1>1, <1>a, <2>1, <2>4, Zenon
    <3>1. PICK t \in DOMAIN sess : /\ entered[x] = t /\ sess[t].agent = b /\ ~ Held(t) /\ ~ Held(t)'
                                   /\ \A j \in DOMAIN q : q[j] = x => j = i
      BY <1>3, <2>1, <2>4, <3>0
    <3>2. \A j \in DOMAIN s : s[j] # x
      BY <2>1, <3>1, Zenon
    <3>3. \A j \in DOMAIN c : c[j] = x => j = i
      BY <1>c, <3>1, <3>2
    <3> QED BY <3>0, <3>1, <3>3, Zenon
  <2>5. CASE b = a /\ i \in Int /\ n \in Nat /\ i - n \in DOMAIN s /\ c[i] = s[i - n]
    <3>0. s[i - n] = x /\ toLogin[b] = q /\ toLogin'[b] = c
      BY <1>1, <1>a, <2>1, <2>5, Zenon
    <3>1. PICK t \in DOMAIN sess : entered[x] = t /\ sess[t].agent = b /\ Held(t) /\ ~ Held(t)'
      BY <2>1, <2>5, <3>0, Zenon
    <3>2. ASSUME NEW j \in DOMAIN q, q[j] = x
          PROVE  FALSE
      <4>1. \E u \in DOMAIN sess : entered[x] = u /\ ~ Held(u)
        BY <1>3, <2>1, <3>0, <3>2
      <4> QED BY <3>1, <4>1, Zenon
    <3>3. \A j \in DOMAIN s : s[j] = x => j = i - n
      BY <2>5, <3>0, Zenon
    <3>4. \A j \in DOMAIN c : c[j] = x => j = i
      BY <1>c, <2>5, <3>2, <3>3
    <3> QED BY <3>0, <3>1, <3>4, Zenon
  <2> QED BY <1>1, <1>4, <1>c, <2>3, <2>4, <2>5, Zenon
<1>5. TellInv'
  BY <1>2, <1>4, Zenon DEF TellInv
<1> QED BY <1>1, <1>5, Zenon

-----------------------------------------------------------------------------
(* agent server: messages and tokens *)

TakesMessage == toAgent' = toAgent \/ \E a \in Agent : toAgent[a] # <<>> /\ toAgent' = [toAgent EXCEPT ![a] = Tail(@)]

\* A message that is taken leaves the others as they were.
LEMMA MessagesLess ==
  ASSUME AccountInv, TakesMessage
  PROVE  /\ toAgent' \in [Agent -> Seq(Notice)]
         /\ \A b \in Agent : toAgent'[b] # <<>> => toAgent[b] # <<>>
         /\ \A b \in Agent : \A i \in DOMAIN toAgent'[b] : \E k \in DOMAIN toAgent[b] : toAgent[b][k] = toAgent'[b][i]
         /\ \A b \in Agent : \A i, j \in DOMAIN toAgent'[b] :
              toAgent'[b][i].kind = "register" /\ toAgent'[b][j] = toAgent'[b][i] => j = i
<1>t. TypeOK /\ RegisterInv
  BY Zenon DEF AccountInv
<1>1. CASE toAgent' = toAgent
  <2>1. toAgent' \in [Agent -> Seq(Notice)]
    BY <1>t, <1>1, Zenon DEF TypeOK
  <2> QED BY <1>t, <1>1, <2>1, Zenon DEF RegisterInv
<1>2. ASSUME NEW a \in Agent, toAgent[a] # <<>>, toAgent' = [toAgent EXCEPT ![a] = Tail(@)]
      PROVE  /\ toAgent' \in [Agent -> Seq(Notice)]
             /\ \A b \in Agent : toAgent'[b] # <<>> => toAgent[b] # <<>>
             /\ \A b \in Agent : \A i \in DOMAIN toAgent'[b] : \E k \in DOMAIN toAgent[b] : toAgent[b][k] = toAgent'[b][i]
             /\ \A b \in Agent : \A i, j \in DOMAIN toAgent'[b] :
                  toAgent'[b][i].kind = "register" /\ toAgent'[b][j] = toAgent'[b][i] => j = i
  <2>1. PICK q : q = toAgent[a] /\ q \in Seq(Notice) /\ q # <<>>
    BY <1>t, <1>2, Zenon DEF TypeOK
  <2>2. \A b \in Agent : toAgent'[b] = IF b = a THEN Tail(q) ELSE toAgent[b]
    BY <1>t, <1>2, <2>1, Zenon DEF TypeOK
  <2>3. PICK r : r = Tail(q)
    BY Zenon
  <2>4. r \in Seq(Notice) /\ \A i \in DOMAIN r : i \in Nat /\ i + 1 \in DOMAIN q /\ r[i] = q[i + 1]
    BY <2>1, <2>3, TailIs, Zenon
  <2>5. toAgent' \in [Agent -> Seq(Notice)]
    BY <1>t, <1>2, <2>1, <2>3, <2>4, Zenon DEF TypeOK
  <2>6. \A i, j \in DOMAIN r : r[i].kind = "register" /\ r[j] = r[i] => j = i
    <3>1. \A i, j \in DOMAIN q : q[i].kind = "register" /\ q[j] = q[i] => j = i
      BY <1>t, <2>1, Zenon DEF RegisterInv
    <3>2. \A i, j \in DOMAIN r : r[i].kind = "register" /\ r[j] = r[i] => j + 1 = i + 1
      BY <2>4, <3>1, Zenon
    <3> QED BY <2>4, <3>2
  <2>7. \A i \in DOMAIN r : \E k \in DOMAIN q : q[k] = r[i]
    BY <2>4, Zenon
  <2> QED BY <1>t, <1>2, <2>1, <2>2, <2>3, <2>5, <2>6, <2>7, SMTT(30) DEF RegisterInv
<1> QED BY <1>1, <1>2, Zenon DEF TakesMessage

\* Sessions that keep their place, and tokens that go if anything.
TokensLess ==
  /\ sess' \in Seq(SessRec) /\ SameSessions
  /\ \A t \in DOMAIN sess : /\ sess'[t].pc = sess[t].pc /\ sess'[t].val = sess[t].val /\ sess'[t].dirty = sess[t].dirty
                            /\ sess'[t].token => sess[t].token

\* A message that is taken registers nobody twice.
LEMMA RegisterKept ==
  ASSUME AccountInv, TakesMessage, SameSessions,
         \A t \in DOMAIN sess : sess[t].pc = "none" /\ ~ sess[t].token => sess'[t].pc = "none" /\ ~ sess'[t].token
  PROVE  RegisterInv'
<1>t. TypeOK /\ RegisterInv
  BY Zenon DEF AccountInv
<1> SUFFICES ASSUME NEW a \in Agent, NEW i \in DOMAIN toAgent'[a], toAgent'[a][i].kind = "register"
             PROVE  LET t == toAgent'[a][i].of
                    IN /\ t \in DOMAIN sess' /\ sess'[t].agent = a /\ sess'[t].pc = "none" /\ ~ sess'[t].token
                       /\ \A j \in DOMAIN toAgent'[a] : toAgent'[a][j] = toAgent'[a][i] => j = i
  BY <1>t, Zenon DEF RegisterInv
<1>1. PICK k \in DOMAIN toAgent[a] : toAgent[a][k] = toAgent'[a][i]
  BY MessagesLess, Zenon
<1>2. PICK t : t = toAgent'[a][i].of
  BY Zenon
<1>3. t \in DOMAIN sess /\ sess[t].agent = a /\ sess[t].pc = "none" /\ ~ sess[t].token
  BY <1>t, <1>1, <1>2 DEF RegisterInv
<1>4. \A j \in DOMAIN toAgent'[a] : toAgent'[a][j] = toAgent'[a][i] => j = i
  BY MessagesLess, Zenon
<1> QED BY <1>2, <1>3, <1>4, Zenon DEF SameSessions

\* Who held nothing holds nothing after a message is taken, unless it gets a token or a user.
LEMMA HeldLess ==
  ASSUME AccountInv, TakesMessage, SameSessions,
         \A t \in DOMAIN sess : (sess'[t].token \/ sess'[t].pc \notin Away) => (sess[t].token \/ sess[t].pc \notin Away)
  PROVE  HoldsLess
<1>t. TypeOK /\ RegisterInv
  BY Zenon DEF AccountInv
<1> SUFFICES ASSUME NEW t \in DOMAIN sess, Held(t)'
             PROVE  Held(t)
  BY Zenon DEF HoldsLess
<1>0. sess[t].agent \in Agent /\ sess'[t].agent = sess[t].agent
  BY SessIs, Zenon DEF SameSessions
<1>1. CASE sess'[t].token \/ sess'[t].pc \notin Away
  BY <1>1, Zenon DEF Held, Away
<1>2. CASE \E i \in DOMAIN toAgent'[sess'[t].agent] : toAgent'[sess'[t].agent][i] = [kind |-> "register", of |-> t]
  <2>1. PICK i \in DOMAIN toAgent'[sess[t].agent] : toAgent'[sess[t].agent][i] = [kind |-> "register", of |-> t]
    BY <1>0, <1>2, Zenon
  <2>2. PICK k \in DOMAIN toAgent[sess[t].agent] : toAgent[sess[t].agent][k] = toAgent'[sess[t].agent][i]
    BY <1>0, MessagesLess, Zenon
  <2> QED BY <2>1, <2>2, Zenon DEF Held
<1> QED BY <1>1, <1>2, Zenon DEF Held, Away

\* Tokens that go away make agents hold less.
LEMMA TokensHoldLess ==
  ASSUME AccountInv, TakesMessage, TokensLess
  PROVE  HoldsLess
BY HeldLess, Zenon DEF AccountInv, TokensLess

\* A step that takes a message and tokens keeps AccountInv if what is told is right.
LEMMA TokensInv ==
  ASSUME AccountInv, UNCHANGED <<Login, user, db, dbq, last, torn>>, TakesMessage, TokensLess,
         toLogin' \in [Agent -> Seq(Account)], TellInv'
  PROVE  AccountInv'
<1>0. TypeOK /\ RegisterInv /\ HoldInv /\ SaveInv /\ UNCHANGED <<entered, mixed>>
  BY Zenon DEF AccountInv, Login
<1>1. HoldsLess /\ SameSessions
  BY TokensHoldLess, Zenon DEF TokensLess
<1>2. RegisterInv'
  BY <1>0, RegisterKept, Zenon DEF TokensLess
<1>3. HoldInv'
  <2>1. \A t \in DOMAIN sess : /\ sess'[t].token => sess'[t].pc = "none"
                               /\ sess'[t].dirty => sess'[t].pc \in {"fighter", "fought", "on"}
    BY <1>0, Zenon DEF TokensLess, HoldInv
  <2>2. \A b \in Agent : toAgent'[b] # <<>> => toAgent[b] # <<>>
    BY <1>0, MessagesLess, Zenon
  <2> QED BY <1>1, <2>1, <2>2, HoldKept, Zenon
<1>4. SaveInv'
  <2> SUFFICES ASSUME NEW x \in Account, x \notin torn \cup mixed
               PROVE  Saved(x)'
    BY <1>0, Zenon DEF SaveInv
  <2>1. Saved(x)
    BY <1>0, Zenon DEF SaveInv
  <2> QED BY <1>0, <2>1, SavedKept, Zenon DEF TokensLess, SameSessions
<1>5. /\ torn' \subseteq Account /\ sess' \in Seq(SessRec) /\ DOMAIN sess' = DOMAIN sess
      /\ user' \in [Agent -> [Account -> 0 .. Len(sess)]] /\ db' \in [Account -> Nat] /\ dbq' \in [Agent -> Seq(Query)]
      /\ last' \in [Account -> Nat] /\ \A a \in Agent : \A i \in DOMAIN dbq'[a] : dbq'[a][i].of \in DOMAIN sess
  BY <1>0, <1>1, Zenon DEF TypeOK, TokensLess, SameSessions
<1>6. toAgent' \in [Agent -> Seq(Notice)]
  BY <1>0, MessagesLess, Zenon
<1> QED BY <1>2, <1>3, <1>4, <1>5, <1>6, LoginKept, Zenon

\* One session changes.
LEMMA SessSet ==
  ASSUME AccountInv, NEW t \in DOMAIN sess, NEW r \in SessRec, sess' = [sess EXCEPT ![t] = r]
  PROVE  /\ sess' \in Seq(SessRec) /\ DOMAIN sess' = DOMAIN sess /\ sess'[t] = r
         /\ \A s \in DOMAIN sess : s # t => sess'[s] = sess[s]
         /\ r.acct = sess[t].acct /\ r.agent = sess[t].agent => SameSessions
<1>t. TypeOK
  BY Zenon DEF AccountInv
<1>1. sess \in Seq(SessRec)
  BY <1>t, Zenon DEF TypeOK
<1>2. sess' \in Seq(SessRec) /\ DOMAIN sess' = DOMAIN sess /\ sess'[t] = r /\ \A s \in DOMAIN sess : s # t => sess'[s] = sess[s]
  BY <1>1
<1> QED BY <1>2, Zenon DEF SameSessions

\* One token that goes away.
LEMMA TokensLessSet ==
  ASSUME AccountInv, NEW t \in DOMAIN sess, NEW r \in SessRec, sess' = [sess EXCEPT ![t] = r],
         r.acct = sess[t].acct, r.agent = sess[t].agent, r.pc = sess[t].pc, r.val = sess[t].val, r.dirty = sess[t].dirty,
         r.token => sess[t].token
  PROVE  TokensLess
<1>t. TypeOK
  BY Zenon DEF AccountInv
<1> QED BY SessSet, Zenon DEF TokensLess

\* So does one that tells nothing.
LEMMA QuietInv ==
  ASSUME AccountInv, UNCHANGED <<Login, user, db, dbq, last, torn, toLogin>>, TakesMessage, TokensLess
  PROVE  AccountInv'
<1>1. TellInv'
  BY TokensHoldLess, TellKept, Zenon DEF TokensLess
<1>2. toLogin' \in [Agent -> Seq(Account)]
  BY Zenon DEF AccountInv, TypeOK
<1> QED BY <1>1, <1>2, TokensInv, Zenon

\* Steps of a client and of a stopping agent that tell and ask nothing keep AccountInv.
LEMMA QuietStepInv ==
  ASSUME AccountInv, NEW t \in DOMAIN sess, Connect(t) \/ TokenLate(t) \/ ClientLeave(t) \/ StopNext(t) \/ AuthRefused(t)
  PROVE  AccountInv'
<1>0. TypeOK /\ sess[t] \in SessRec
  BY SessIs, Zenon DEF AccountInv
<1>1. UNCHANGED <<Login, user, db, dbq, last, torn, toLogin>> /\ toAgent' = toAgent
  BY Zenon DEF Connect, TokenLate, ClientLeave, StopNext, AuthRefused, login, agent, data, history, Login
<1>2. CASE Connect(t)
  <2> DEFINE r == [sess[t] EXCEPT !.conn = "open"]
  <2>1. sess' = [sess EXCEPT ![t] = r]
    BY <1>2, Zenon DEF Connect
  <2>2. r \in SessRec
    BY <1>0, Zenon DEF SessRec
  <2>3. TokensLess
    BY <1>0, <2>1, <2>2, TokensLessSet, Zenon DEF SessRec
  <2> QED BY <1>1, <2>3, QuietInv, Zenon DEF TakesMessage
<1>3. CASE TokenLate(t)
  <2> DEFINE r == [sess[t] EXCEPT !.late = TRUE]
  <2>1. sess' = [sess EXCEPT ![t] = r]
    BY <1>3, Zenon DEF TokenLate
  <2>2. r \in SessRec
    BY <1>0, Zenon DEF SessRec
  <2>3. TokensLess
    BY <1>0, <2>1, <2>2, TokensLessSet, Zenon DEF SessRec
  <2> QED BY <1>1, <2>3, QuietInv, Zenon DEF TakesMessage
<1>4. CASE ClientLeave(t)
  <2> DEFINE w == IF sess[t].entry /\ user[sess[t].agent][sess[t].acct] # 0 THEN "leave" ELSE sess[t].want
             r == [sess[t] EXCEPT !.conn = "closed", !.entry = FALSE, !.want = w]
  <2>1. sess' = [sess EXCEPT ![t] = r]
    BY <1>4, Zenon DEF ClientLeave
  <2>2. r \in SessRec
    BY <1>0, Zenon DEF SessRec
  <2>4. /\ r.acct = sess[t].acct /\ r.agent = sess[t].agent /\ r.pc = sess[t].pc /\ r.val = sess[t].val
        /\ r.dirty = sess[t].dirty /\ r.token = sess[t].token
    BY <1>0, Zenon DEF SessRec
  <2> HIDE DEF r, w
  <2>3. TokensLess
    BY <1>0, <2>1, <2>2, <2>4, TokensLessSet, Zenon
  <2> QED BY <1>1, <2>3, QuietInv, Zenon DEF TakesMessage
<1>5. CASE StopNext(t)
  <2> DEFINE r == [sess[t] EXCEPT !.conn = "closed", !.want = "stop"]
  <2>1. sess' = [sess EXCEPT ![t] = r]
    BY <1>5, Zenon DEF StopNext
  <2>2. r \in SessRec
    BY <1>0, Zenon DEF SessRec
  <2>3. TokensLess
    BY <1>0, <2>1, <2>2, TokensLessSet, Zenon DEF SessRec
  <2> QED BY <1>1, <2>3, QuietInv, Zenon DEF TakesMessage
<1>6. CASE AuthRefused(t)
  <2> DEFINE r == [sess[t] EXCEPT !.token = FALSE, !.conn = "closed"]
  <2>1. sess' = [sess EXCEPT ![t] = r]
    BY <1>6, Zenon DEF AuthRefused
  <2>2. r \in SessRec
    BY <1>0, Zenon DEF SessRec
  <2>3. TokensLess
    BY <1>0, <2>1, <2>2, TokensLessSet, Zenon DEF SessRec
  <2> QED BY <1>1, <2>3, QuietInv, Zenon DEF TakesMessage
<1> QED BY <1>2, <1>3, <1>4, <1>5, <1>6, Zenon

\* The begin and the end of server_stop keep AccountInv.
LEMMA StopInv ==
  ASSUME AccountInv, NEW a \in Agent, StopBegin(a) \/ StopEnd(a)
  PROVE  AccountInv'
<1>1. UNCHANGED <<Login, user, db, dbq, last, torn, toLogin>> /\ TakesMessage /\ sess' = sess
  BY Zenon DEF StopBegin, StopEnd, Receive, login, data, history, Login, TakesMessage
<1>2. TokensLess
  BY <1>1, Zenon DEF TokensLess, SameSessions, AccountInv, TypeOK
<1> QED BY <1>1, <1>2, QuietInv, Zenon

\* A session that agent a holds under a token, and then no longer: the login
\* server can be told.
LEMMA TokenHeld ==
  ASSUME AccountInv, NEW t \in DOMAIN sess, sess[t].token
  PROVE  /\ Held(t) /\ sess[t].pc = "none" /\ life[sess[t].agent] = "up"
         /\ sess[t].acct \notin mixed => entered[sess[t].acct] = t
         /\ \A i \in DOMAIN toAgent[sess[t].agent] : toAgent[sess[t].agent][i] # [kind |-> "register", of |-> t]
<1>0. RegisterInv /\ HoldInv /\ sess[t].agent \in Agent
  BY SessIs, Zenon DEF AccountInv
<1>1. Held(t) /\ sess[t].pc = "none"
  BY <1>0, Zenon DEF Held, HoldInv
<1>2. \A i \in DOMAIN toAgent[sess[t].agent] : toAgent[sess[t].agent][i] # [kind |-> "register", of |-> t]
  BY <1>0 DEF RegisterInv
<1> QED BY <1>0, <1>1, <1>2, Zenon DEF HoldInv

\* A session whose token is gone is not held.
LEMMA TokenGone ==
  ASSUME AccountInv, TakesMessage, SameSessions, NEW t \in DOMAIN sess, sess[t].token, ~ sess'[t].token, sess'[t].pc = sess[t].pc
  PROVE  ~ Held(t)'
<1>0. TypeOK /\ RegisterInv /\ sess[t].agent \in Agent /\ sess'[t].agent = sess[t].agent
  BY SessIs, Zenon DEF AccountInv, SameSessions
<1>1. ASSUME NEW i \in DOMAIN toAgent'[sess[t].agent]
      PROVE  toAgent'[sess[t].agent][i] # [kind |-> "register", of |-> t]
  <2>1. PICK k \in DOMAIN toAgent[sess[t].agent] : toAgent[sess[t].agent][k] = toAgent'[sess[t].agent][i]
    BY <1>0, <1>1, MessagesLess, Zenon
  <2>2. toAgent[sess[t].agent][k] # [kind |-> "register", of |-> t]
    BY TokenHeld, Zenon
  <2> QED BY <2>1, <2>2, Zenon
<1> QED BY <1>0, <1>1, TokenHeld DEF Held

\* UserKick keeps AccountInv.
LEMMA UserKickInv ==
  ASSUME AccountInv, NEW a \in Agent, UserKick(a)
  PROVE  AccountInv'
<1>0. TypeOK /\ life[a] = "up"
  BY ZenonT(40) DEF AccountInv, UserKick, Receive
<1>1. UNCHANGED <<Login, user, db, dbq, last, torn>> /\ TakesMessage
  BY Zenon DEF UserKick, Receive, login, agent, data, Login, TakesMessage
<1>2. CASE UNCHANGED <<sess, toLogin>>
  <2>1. TokensLess
    BY <1>0, <1>2, Zenon DEF TokensLess, SameSessions, TypeOK
  <2> QED BY <1>1, <1>2, <2>1, QuietInv, Zenon
<1>3. ASSUME NEW t \in Of(a), sess[t].token, KickToken(a, t)
      PROVE  AccountInv'
  <2>0. t \in DOMAIN sess /\ sess[t].agent = a /\ sess[t] \in SessRec /\ sess[t].acct \in Account
    BY <1>0, <1>3, SessIs, Zenon DEF Of
  <2> DEFINE r == [sess[t] EXCEPT !.token = FALSE]
  <2>1. sess' = [sess EXCEPT ![t] = r] /\ toLogin' = [toLogin EXCEPT ![a] = Append(@, sess[t].acct)]
    BY <1>3, Zenon DEF KickToken, Tell
  <2>2. r \in SessRec
    BY <2>0, Zenon DEF SessRec
  <2>3. /\ r.acct = sess[t].acct /\ r.agent = sess[t].agent /\ r.pc = sess[t].pc /\ r.val = sess[t].val
        /\ r.dirty = sess[t].dirty /\ ~ r.token
    BY <2>0, Zenon DEF SessRec
  <2> HIDE DEF r
  <2>4. TokensLess /\ sess'[t] = r
    BY <1>0, <2>0, <2>1, <2>2, <2>3, TokensLessSet, SessSet, ZenonT(40)
  <2>5. PICK x \in Account : x = sess[t].acct
    BY <2>0, Zenon
  <2>6. /\ <<x>> \in Seq(Account) /\ \A i \in DOMAIN <<x>> : i = 1 /\ <<x>>[i] = x
        /\ Tells(a, <<x>>)
    <3>1. toLogin[a] \in Seq(Account)
      BY <1>0, Zenon DEF TypeOK
    <3>2. Append(toLogin[a], x) = toLogin[a] \o <<x>>
      BY <3>1
    <3> QED BY <2>1, <2>5, <3>2 DEF Tells
  <2>7. HoldsLess /\ SameSessions
    BY <1>1, <2>4, TokensHoldLess, Zenon DEF TokensLess
  <2>8. x \notin mixed => entered[x] = t /\ Held(t)
    BY <1>3, <2>0, <2>5, TokenHeld, Zenon
  <2>9. ~ Held(t)'
    BY <1>1, <1>3, <2>0, <2>3, <2>4, <2>7, TokenGone, Zenon
  <2>10. \A y \in Account \ mixed : (\E i \in DOMAIN <<x>> : <<x>>[i] = y) =>
            \E s \in DOMAIN sess : entered[y] = s /\ sess[s].agent = a /\ Held(s) /\ ~ Held(s)'
    BY <2>0, <2>6, <2>8, <2>9, Zenon
  <2>11. UNCHANGED Login /\ life[a] # "down" /\ \A i, j \in DOMAIN <<x>> : <<x>>[i] = <<x>>[j] => i = j
    BY <1>0, <1>1, <2>6, Zenon
  <2>12. PICK s \in Seq(Account) : s = <<x>>
    BY <2>6, Zenon
  <2>13. TellInv' /\ toLogin' \in [Agent -> Seq(Account)]
    BY <2>6, <2>7, <2>10, <2>11, <2>12, TellMore, Zenon
  <2> QED BY <1>1, <2>4, <2>13, TokensInv, Zenon
<1>4. ASSUME NEW t, t = user[a][Head(toAgent[a]).of], t # 0, sess[t].entry, toLogin' = toLogin,
             sess' = [sess EXCEPT ![t].entry = FALSE, ![t].conn = "closed"], toAgent[a] # <<>>, Head(toAgent[a]).kind = "kick"
      PROVE  AccountInv'
  <2>1. Head(toAgent[a]) \in Notice
    BY <1>0, <1>4, SMTT(30) DEF TypeOK
  <2>2. Head(toAgent[a]).of \in Account
    BY <1>4, <2>1, Zenon DEF Notice
  <2>3. t \in 0 .. Len(sess)
    BY <1>0, <1>4, <2>2, Zenon DEF TypeOK
  <2>4. t \in DOMAIN sess /\ sess[t] \in SessRec
    <3>1. t # 0
      BY <1>4, ZenonT(40)
    <3> QED BY <1>0, <2>3, <3>1, SessIs, SMTT(30)
  <2> DEFINE r == [sess[t] EXCEPT !.entry = FALSE, !.conn = "closed"]
  <2>5. sess' = [sess EXCEPT ![t] = r]
    BY <1>4, <2>4, Zenon
  <2>6. r \in SessRec
    BY <2>4, Zenon DEF SessRec
  <2>7. TokensLess
    BY <1>0, <2>4, <2>5, <2>6, TokensLessSet, Zenon DEF SessRec
  <2> QED BY <1>1, <1>4, <2>7, QuietInv, Zenon
<1> QED BY <1>2, <1>3, <1>4, ZenonT(40) DEF UserKick, Receive

\* AuthTimer keeps AccountInv.
LEMMA AuthTimerInv ==
  ASSUME AccountInv, NEW a \in Agent, AuthTimer(a)
  PROVE  AccountInv'
<1>0. TypeOK
  BY Zenon DEF AccountInv
<1> DEFINE old == {t \in Of(a) : sess[t].token /\ sess[t].late}
           X == {sess[t].acct : t \in old}
<1>1. /\ old # {} /\ UNCHANGED <<Login, user, db, dbq, last, torn>> /\ TakesMessage
      /\ sess' = [t \in DOMAIN sess |-> IF t \in old THEN [sess[t] EXCEPT !.token = FALSE] ELSE sess[t]]
      /\ \E s \in InAnyOrder(X) : Tells(a, s)
  BY Zenon DEF AuthTimer, Tells, login, agent, data, history, Login, TakesMessage
<1>2. PICK s \in InAnyOrder(X) : Tells(a, s)
  BY <1>1, Zenon
<1>3. \A t \in old : t \in DOMAIN sess /\ sess[t].agent = a /\ sess[t].token /\ sess[t].acct \in Account
  BY <1>0, SessIs, Zenon DEF Of
<1>5. s \in Seq(X) /\ \A i, j \in DOMAIN s : s[i] = s[j] => i = j
  <2> HIDE DEF X
  <2> QED BY InAnyOrderIs, Zenon
<1>6. \A x \in X : x \in Account /\ \E t \in old : x = sess[t].acct
  BY <1>3, Zenon
<1>7. \A t \in DOMAIN sess : sess'[t] = IF t \in old THEN [sess[t] EXCEPT !.token = FALSE] ELSE sess[t]
  BY <1>1, Zenon
<1> HIDE DEF old, X
<1>8. s \in Seq(Account) /\ \A i \in DOMAIN s : \E t \in old : s[i] = sess[t].acct
  BY <1>5, <1>6, SMTT(30)
<1>9. TokensLess
  <2>1. sess \in Seq(SessRec) /\ DOMAIN sess' = DOMAIN sess
    BY <1>0, <1>1, Zenon DEF TypeOK
  <2>2. \A t \in DOMAIN sess : sess[t] \in SessRec /\ sess'[t] \in SessRec
    <3>1. \A t \in DOMAIN sess : sess[t] \in SessRec
      BY <2>1
    <3>2. \A r \in SessRec : [r EXCEPT !.token = FALSE] \in SessRec
      BY Zenon DEF SessRec
    <3> QED BY <1>7, <3>1, <3>2, Zenon
  <2>3. sess' \in Seq(SessRec)
    BY <1>1, <2>1, <2>2
  <2>4. \A t \in DOMAIN sess : /\ sess'[t].acct = sess[t].acct /\ sess'[t].agent = sess[t].agent
                               /\ sess'[t].pc = sess[t].pc /\ sess'[t].val = sess[t].val /\ sess'[t].dirty = sess[t].dirty
                               /\ sess'[t].token => sess[t].token
    BY <1>7, <2>2, ZenonT(40) DEF SessRec
  <2> QED BY <2>1, <2>3, <2>4, Zenon DEF TokensLess, SameSessions
<1>10. HoldsLess /\ SameSessions
  BY <1>1, <1>9, TokensHoldLess, Zenon DEF TokensLess
<1>11. \A t \in old : /\ ~ Held(t)' /\ Held(t) /\ life[a] = "up" /\ (sess[t].acct \notin mixed => entered[sess[t].acct] = t)
                      /\ t \in DOMAIN sess /\ sess[t].agent = a
  <2> TAKE t \in old
  <2>1. t \in DOMAIN sess /\ sess[t].token /\ sess[t].agent = a /\ sess[t] \in SessRec
    BY <1>0, <1>3, SessIs, Zenon
  <2>2. ~ sess'[t].token /\ sess'[t].pc = sess[t].pc
    BY <1>7, <2>1, Zenon DEF SessRec
  <2>3. ~ Held(t)'
    BY <1>1, <1>10, <2>1, <2>2, TokenGone, Zenon
  <2> QED BY <2>1, <2>3, TokenHeld, Zenon
<1>12. \A x \in Account \ mixed : (\E i \in DOMAIN s : s[i] = x) =>
          \E t \in DOMAIN sess : entered[x] = t /\ sess[t].agent = a /\ Held(t) /\ ~ Held(t)'
  BY <1>8, <1>11
<1>13. life[a] # "down"
  BY <1>1, <1>11, Zenon
<1>14. TellInv' /\ toLogin' \in [Agent -> Seq(Account)]
  BY <1>1, <1>2, <1>5, <1>8, <1>10, <1>12, <1>13, TellMore, Zenon
<1> QED BY <1>1, <1>9, <1>14, TokensInv, Zenon

\* UserRegister keeps AccountInv.
LEMMA UserRegisterInv ==
  ASSUME AccountInv, NEW a \in Agent, UserRegister(a)
  PROVE  AccountInv'
<1>0. TypeOK /\ RegisterInv /\ HoldInv /\ SaveInv
  BY Zenon DEF AccountInv
<1>1. PICK q : q = toAgent[a] /\ q \in Seq(Notice) /\ q # <<>> /\ Head(q).kind = "register"
  BY <1>0, Zenon DEF UserRegister, Receive, TypeOK
<1>2. PICK t : t = Head(q).of
  BY Zenon
<1>3. /\ UNCHANGED <<Login, user, db, dbq, last, torn, toLogin>> /\ TakesMessage
      /\ toAgent' = [toAgent EXCEPT ![a] = Tail(q)] /\ sess' = [sess EXCEPT ![t].token = TRUE]
  BY <1>1, <1>2, Zenon DEF UserRegister, Receive, login, agent, data, history, Login, TakesMessage
<1>4. /\ Head(q) = q[1] /\ 1 \in DOMAIN q
      /\ \A i \in DOMAIN Tail(q) : i \in Nat /\ i + 1 \in DOMAIN q /\ i + 1 # 1 /\ Tail(q)[i] = q[i + 1]
  BY <1>1, TailIs, Zenon
<1>5. /\ t \in DOMAIN sess /\ sess[t].agent = a /\ sess[t].pc = "none" /\ ~ sess[t].token
      /\ \A j \in DOMAIN q : q[j] = q[1] => j = 1
  BY <1>0, <1>1, <1>2, <1>4 DEF RegisterInv
<1>6. sess[t] \in SessRec /\ Head(q) \in Notice
  BY <1>0, <1>1, <1>5, SessIs
<1>7. Head(q) = [kind |-> "register", of |-> t]
  BY <1>1, <1>2, <1>6, Zenon DEF Notice
<1> DEFINE r == [sess[t] EXCEPT !.token = TRUE]
<1>8. sess' = [sess EXCEPT ![t] = r]
  BY <1>3, <1>5, Zenon
<1>9. r \in SessRec
  BY <1>6, Zenon DEF SessRec
<1>10. r.acct = sess[t].acct /\ r.agent = a /\ r.pc = "none" /\ r.val = sess[t].val /\ r.dirty = sess[t].dirty
  BY <1>5, <1>6, Zenon DEF SessRec
<1> HIDE DEF r
<1>11. /\ sess' \in Seq(SessRec) /\ DOMAIN sess' = DOMAIN sess /\ sess'[t] = r /\ SameSessions
       /\ \A s \in DOMAIN sess : s # t => sess'[s] = sess[s]
  BY <1>0, <1>5, <1>8, <1>9, <1>10, SessSet, Zenon
<1>12. \A b \in Agent : \A i \in DOMAIN toAgent'[b] : toAgent'[b][i].kind = "register" => toAgent'[b][i].of # t
  <2>0. \A b \in Agent : toAgent'[b] = IF b = a THEN Tail(q) ELSE toAgent[b]
    BY <1>0, <1>3, Zenon DEF TypeOK
  <2>1. \A i \in DOMAIN Tail(q) : Tail(q)[i].kind = "register" => Tail(q)[i].of # t
    <3> SUFFICES ASSUME NEW i \in DOMAIN Tail(q), Tail(q)[i].kind = "register", Tail(q)[i].of = t
                 PROVE  FALSE
      BY Zenon
    <3>1. i + 1 \in DOMAIN q /\ i + 1 # 1 /\ Tail(q)[i] = q[i + 1]
      BY <1>4, Zenon
    <3>2. q[i + 1] \in Notice
      BY <1>1, <3>1
    <3>3. q[i + 1] = [kind |-> "register", of |-> t]
      BY <3>1, <3>2, Zenon DEF Notice
    <3> QED BY <1>4, <1>5, <1>7, <3>1, <3>3, Zenon
  <2>2. ASSUME NEW b \in Agent, b # a, NEW i \in DOMAIN toAgent[b], toAgent[b][i].kind = "register"
        PROVE  toAgent[b][i].of # t
    BY <1>0, <1>5, <2>2 DEF RegisterInv
  <2> QED BY <2>0, <2>1, <2>2, Zenon
<1>13. RegisterInv'
  <2> SUFFICES ASSUME NEW b \in Agent, NEW i \in DOMAIN toAgent'[b], toAgent'[b][i].kind = "register"
               PROVE  LET s == toAgent'[b][i].of
                      IN /\ s \in DOMAIN sess' /\ sess'[s].agent = b /\ sess'[s].pc = "none" /\ ~ sess'[s].token
                         /\ \A j \in DOMAIN toAgent'[b] : toAgent'[b][j] = toAgent'[b][i] => j = i
    BY Zenon DEF RegisterInv
  <2>1. PICK k \in DOMAIN toAgent[b] : toAgent[b][k] = toAgent'[b][i]
    BY <1>0, <1>3, MessagesLess, Zenon
  <2>2. PICK s : s = toAgent'[b][i].of
    BY Zenon
  <2>3. s \in DOMAIN sess /\ sess[s].agent = b /\ sess[s].pc = "none" /\ ~ sess[s].token /\ s # t
    BY <1>0, <1>12, <2>1, <2>2 DEF RegisterInv
  <2>4. \A j \in DOMAIN toAgent'[b] : toAgent'[b][j] = toAgent'[b][i] => j = i
    BY <1>0, <1>3, MessagesLess, Zenon
  <2> QED BY <1>11, <2>2, <2>3, <2>4, Zenon
<1>14. HoldsLess
  <2> SUFFICES ASSUME NEW s \in DOMAIN sess, Held(s)'
               PROVE  Held(s)
    BY Zenon DEF HoldsLess
  <2>1. CASE s = t
    BY <1>1, <1>4, <1>5, <1>7, <2>1, Zenon DEF Held
  <2>2. CASE s # t
    <3>1. sess'[s] = sess[s] /\ sess[s].agent \in Agent
      BY <1>0, <1>11, <2>2, SessIs, Zenon
    <3>2. CASE \E i \in DOMAIN toAgent'[sess[s].agent] : toAgent'[sess[s].agent][i] = [kind |-> "register", of |-> s]
      BY <1>0, <1>3, <3>1, <3>2, MessagesLess DEF Held
    <3> QED BY <3>1, <3>2, Zenon DEF Held
  <2> QED BY <2>1, <2>2, Zenon
<1>15. HoldInv'
  <2>1. \A s \in DOMAIN sess : /\ sess'[s].token => sess'[s].pc = "none"
                               /\ sess'[s].dirty => sess'[s].pc \in {"fighter", "fought", "on"}
    BY <1>0, <1>5, <1>10, <1>11, Zenon DEF HoldInv
  <2>2. \A b \in Agent : toAgent'[b] # <<>> => toAgent[b] # <<>>
    BY <1>0, <1>3, MessagesLess, Zenon
  <2> QED BY <1>3, <1>11, <1>14, <2>1, <2>2, HoldKept, Zenon
<1>16. TellInv'
  BY <1>3, <1>11, <1>14, TellKept, Zenon
<1>17. SaveInv'
  <2> SUFFICES ASSUME NEW x \in Account, x \notin torn \cup mixed
               PROVE  Saved(x)'
    BY <1>3, Zenon DEF SaveInv, Login
  <2>1. Saved(x) /\ entered'[x] = entered[x]
    BY <1>0, <1>3, Zenon DEF SaveInv, Login
  <2>2. \A s \in DOMAIN sess : /\ sess'[s].acct = sess[s].acct /\ sess'[s].agent = sess[s].agent
                               /\ sess'[s].pc = sess[s].pc /\ sess'[s].val = sess[s].val /\ sess'[s].dirty = sess[s].dirty
    BY <1>5, <1>10, <1>11, Zenon
  <2> QED BY <1>0, <1>3, <2>1, <2>2, SavedKept, Zenon
<1>18. /\ torn' \subseteq Account /\ user' \in [Agent -> [Account -> 0 .. Len(sess)]]
       /\ toLogin' \in [Agent -> Seq(Account)] /\ db' \in [Account -> Nat] /\ dbq' \in [Agent -> Seq(Query)]
       /\ last' \in [Account -> Nat] /\ \A b \in Agent : \A i \in DOMAIN dbq'[b] : dbq'[b][i].of \in DOMAIN sess
  BY <1>0, <1>3, Zenon DEF TypeOK
<1>19. toAgent' \in [Agent -> Seq(Notice)]
  BY <1>0, <1>3, MessagesLess, Zenon
<1> QED BY <1>3, <1>11, <1>13, <1>15, <1>16, <1>17, <1>18, <1>19, LoginKept, Zenon

-----------------------------------------------------------------------------
(* agent server: sessions that run, and the database *)

\* Sessions that are under way go on, and none starts without its token.
Runs ==
  /\ sess' \in Seq(SessRec) /\ SameSessions
  /\ \A t \in DOMAIN sess :
       /\ (sess'[t].token \/ sess'[t].pc \notin Away) => (sess[t].token \/ sess[t].pc \notin Away)
       /\ sess[t].pc = "none" /\ ~ sess[t].token => sess'[t].pc = "none" /\ ~ sess'[t].token
       /\ sess'[t].token => sess'[t].pc = "none"
       /\ sess'[t].dirty => sess'[t].pc \in {"fighter", "fought", "on"}

\* A session that goes on is held no more than before.
LEMMA RunsHoldLess ==
  ASSUME AccountInv, toAgent' = toAgent, Runs
  PROVE  HoldsLess
BY HeldLess, Zenon DEF AccountInv, Runs, TakesMessage

\* A session that goes on keeps AccountInv if what is told and asked is right.
LEMMA RunsInv ==
  ASSUME AccountInv, UNCHANGED <<Login, torn, toAgent>>, Runs,
         user' \in [Agent -> [Account -> 0 .. Len(sess)]], toLogin' \in [Agent -> Seq(Account)],
         db' \in [Account -> Nat], dbq' \in [Agent -> Seq(Query)], last' \in [Account -> Nat],
         \A a \in Agent : \A i \in DOMAIN dbq'[a] : dbq'[a][i].of \in DOMAIN sess,
         TellInv', SaveInv'
  PROVE  AccountInv'
<1>0. TypeOK /\ RegisterInv /\ TakesMessage
  BY Zenon DEF AccountInv, TakesMessage
<1>1. HoldsLess /\ SameSessions
  BY RunsHoldLess, Zenon DEF Runs
<1>2. RegisterInv'
  BY <1>0, RegisterKept, Zenon DEF Runs
<1>3. HoldInv'
  BY <1>1, HoldKept, Zenon DEF Runs
<1>4. torn' \subseteq Account /\ sess' \in Seq(SessRec) /\ DOMAIN sess' = DOMAIN sess /\ toAgent' \in [Agent -> Seq(Notice)]
  BY <1>0, Zenon DEF TypeOK, Runs, SameSessions
<1> QED BY <1>2, <1>3, <1>4, LoginKept, Zenon

\* One session runs.
LEMMA RunsSet ==
  ASSUME AccountInv, NEW t \in DOMAIN sess, NEW r \in SessRec, sess' = [sess EXCEPT ![t] = r],
         r.acct = sess[t].acct, r.agent = sess[t].agent, sess[t].token \/ sess[t].pc \notin Away, ~ r.token,
         r.dirty => r.pc \in {"fighter", "fought", "on"}
  PROVE  Runs
<1>0. TypeOK /\ HoldInv
  BY Zenon DEF AccountInv
<1>1. /\ sess' \in Seq(SessRec) /\ DOMAIN sess' = DOMAIN sess /\ sess'[t] = r
      /\ \A s \in DOMAIN sess : s # t => sess'[s] = sess[s]
      /\ SameSessions
  BY <1>0, SessSet, Zenon
<1> QED BY <1>0, <1>1, Zenon DEF Runs, HoldInv, Away

\* c is q, of length n, and then s.
Added(q, n, s, c) ==
  /\ \A i \in DOMAIN q : i \in Nat /\ i <= n /\ i \in DOMAIN c /\ c[i] = q[i]
  /\ \A i \in DOMAIN s : i \in Nat /\ i > 0 /\ n + i \in DOMAIN c /\ c[n + i] = s[i]
  /\ \A i \in DOMAIN c : i \in DOMAIN q \/ \E k \in DOMAIN s : i = n + k

\* Queries are added at the end.
LEMMA AddedIs ==
  ASSUME NEW S, NEW q \in Seq(S), NEW s \in Seq(S)
  PROVE  Len(q) \in Nat /\ Added(q, Len(q), s, q \o s)
<1>2. PICK c : c = q \o s
  BY Zenon
<1>3. /\ Len(q) \in Nat
      /\ \A i \in DOMAIN q : i \in Nat /\ i <= Len(q) /\ i \in DOMAIN c /\ c[i] = q[i]
      /\ \A i \in DOMAIN s : i \in Nat /\ i > 0 /\ Len(q) + i \in DOMAIN c /\ c[Len(q) + i] = s[i]
  BY <1>2, ConcatIs
<1>4. \A i \in DOMAIN c : i \in DOMAIN q \/ \E k \in DOMAIN s : i = Len(q) + k
  <2> TAKE i \in DOMAIN c
  <2>1. i \in Nat /\ (i \notin DOMAIN q => i - Len(q) \in DOMAIN s)
    BY <1>2, ConcatIs
  <2>2. i = Len(q) + (i - Len(q))
    BY <1>3, <2>1
  <2> QED BY <2>1, <2>2, Zenon
<1> QED BY <1>2, <1>3, <1>4, Zenon DEF Added

\* Queries are added behind those of agent a.
LEMMA QueriesAdded ==
  ASSUME AccountInv, NEW a \in Agent, NEW s \in Seq(Query), AgentQuery(a, s)
  PROVE  /\ dbq' \in [Agent -> Seq(Query)]
         /\ \A b \in Agent : b # a => dbq'[b] = dbq[b]
         /\ \E n \in Nat : Added(dbq[a], n, s, dbq'[a])
<1>t. TypeOK
  BY Zenon DEF AccountInv
<1>1. PICK q : q = dbq[a] /\ q \in Seq(Query)
  BY <1>t, Zenon DEF TypeOK
<1>2. PICK c : c = q \o s
  BY Zenon
<1>3. c \in Seq(Query) /\ Len(q) \in Nat /\ Added(q, Len(q), s, c)
  BY <1>1, <1>2, AddedIs
<1>5. dbq' = [dbq EXCEPT ![a] = c] /\ dbq \in [Agent -> Seq(Query)]
  BY <1>t, <1>1, <1>2, Zenon DEF TypeOK, AgentQuery
<1>6. dbq' \in [Agent -> Seq(Query)] /\ dbq'[a] = c /\ \A b \in Agent : b # a => dbq'[b] = dbq[b]
  BY <1>3, <1>5, Zenon
<1> QED BY <1>1, <1>3, <1>6, Zenon

\* The queries under way are of known sessions.
LEMMA QueriesOf ==
  ASSUME AccountInv, NEW a \in Agent, NEW s \in Seq(Query), AgentQuery(a, s),
         \A i \in DOMAIN s : s[i].of \in DOMAIN sess
  PROVE  \A b \in Agent : \A i \in DOMAIN dbq'[b] : dbq'[b][i].of \in DOMAIN sess
<1>t. TypeOK
  BY Zenon DEF AccountInv
<1>1. \A b \in Agent : \A i \in DOMAIN dbq[b] : dbq[b][i].of \in DOMAIN sess
  BY <1>t, Zenon DEF TypeOK
<1>2. PICK q, n, c : q = dbq[a] /\ c = dbq'[a] /\ Added(q, n, s, c) /\ \A b \in Agent : b # a => dbq'[b] = dbq[b]
  BY QueriesAdded, Zenon
<1>3. \A i \in DOMAIN c : c[i].of \in DOMAIN sess
  BY <1>1, <1>2, SMTT(30) DEF Added
<1> QED BY <1>1, <1>2, <1>3, Zenon

\* The queries of others do not matter.
LEMMA SavedOthers ==
  ASSUME AccountInv, NEW x \in Account, Saved(x), db'[x] = db[x], last'[x] = last[x], entered'[x] = entered[x], SameSessions,
         \A t \in DOMAIN sess : sess[t].acct = x => sess'[t] = sess[t],
         NEW a \in Agent, NEW s \in Seq(Query), AgentQuery(a, s),
         \A i \in DOMAIN s : s[i].of \in DOMAIN sess /\ sess[s[i].of].acct # x
  PROVE  Saved(x)'
<1>t. TypeOK
  BY Zenon DEF AccountInv
<1>0. \A b \in Agent : \A i \in DOMAIN dbq[b] : dbq[b][i].of \in DOMAIN sess
  BY <1>t, Zenon DEF TypeOK
<1>a. PICK p, n, d : p = dbq[a] /\ d = dbq'[a] /\ Added(p, n, s, d) /\ \A b \in Agent : b # a => dbq'[b] = dbq[b]
  BY QueriesAdded, Zenon
<1>b. /\ \A i \in DOMAIN p : i \in DOMAIN d /\ d[i] = p[i]
      /\ \A i \in DOMAIN d : sess[d[i].of].acct = x => i \in DOMAIN p
  BY <1>a DEF Added
<1>1. \A b \in Agent : \A i \in DOMAIN dbq[b] : i \in DOMAIN dbq'[b] /\ dbq'[b][i] = dbq[b][i]
  BY <1>a, <1>b, Zenon
<1>2. \A b \in Agent : \A i \in DOMAIN dbq'[b] : sess[dbq'[b][i].of].acct = x => i \in DOMAIN dbq[b]
  BY <1>a, <1>b, Zenon
<1>3. OwnQueries(x)'
  <2> SUFFICES ASSUME NEW b \in Agent, NEW i \in DOMAIN dbq'[b], sess'[dbq'[b][i].of].acct = x
               PROVE  LET t == dbq'[b][i].of
                      IN t = entered'[x] /\ sess'[t].agent = b /\ sess'[t].pc \notin Away \cup {"acked"}
    BY Zenon DEF OwnQueries
  <2>1. dbq'[b][i].of \in DOMAIN sess
    BY QueriesOf, Zenon
  <2>2. sess[dbq'[b][i].of].acct = x /\ sess'[dbq'[b][i].of] = sess[dbq'[b][i].of]
    BY <2>1, Zenon DEF SameSessions
  <2>3. i \in DOMAIN dbq[b] /\ dbq'[b][i] = dbq[b][i]
    BY <1>1, <1>2, <2>2, Zenon
  <2>4. PICK t : t = dbq[b][i].of
    BY Zenon
  <2>5. sess[t].acct = x /\ sess'[t] = sess[t]
    BY <2>2, <2>3, <2>4, Zenon
  <2>6. t = entered[x] /\ sess[t].agent = b /\ sess[t].pc \notin Away \cup {"acked"}
    BY <2>3, <2>4, <2>5, Zenon DEF Saved, OwnQueries
  <2> QED BY <2>3, <2>4, <2>5, <2>6, ZenonT(40)
<1>4. ASSUME entered[x] # 0
      PROVE  \E t \in DOMAIN sess : /\ t = entered[x] /\ sess[t].acct = x /\ sess'[t] = sess[t]
                                    /\ (Latest(t) => Latest(t)') /\ Asking(t)'
  <2>1. PICK t \in DOMAIN sess : t = entered[x] /\ sess[t].acct = x /\ sess'[t] = sess[t] /\ sess[t].agent \in Agent
    BY <1>4, SessIs, Zenon DEF Saved
  <2>2. PICK q, c : q = dbq[sess[t].agent] /\ c = dbq'[sess[t].agent]
    BY Zenon
  <2>3. /\ \A i \in DOMAIN q : i \in DOMAIN c /\ c[i] = q[i]
        /\ \A i \in DOMAIN c : c[i].of = t => i \in DOMAIN q
    BY <1>1, <1>2, <2>1, <2>2, Zenon
  <2>7. /\ \A i \in DOMAIN q : IsUpdate(c[i], t) = IsUpdate(q[i], t) /\ IsQuestion(c[i], t) = IsQuestion(q[i], t)
        /\ \A i \in DOMAIN c : IsUpdate(c[i], t) \/ IsQuestion(c[i], t) => i \in DOMAIN q
    BY <2>3, Zenon DEF IsUpdate, IsQuestion
  <2>8. sess'[t].agent = sess[t].agent /\ sess'[t].acct = x /\ sess'[t].pc = sess[t].pc
    BY <2>1, ZenonT(40)
  <2>4. Latest(t) => Latest(t)'
    <3> SUFFICES ASSUME Latest(t) PROVE Latest(t)'
      BY ZenonT(40)
    <3>1. /\ (\A i \in DOMAIN q : ~ IsUpdate(q[i], t)) => db[x] = last[x]
          /\ \A i \in DOMAIN q : IsUpdate(q[i], t) /\ (\A j \in DOMAIN q : IsUpdate(q[j], t) => j <= i) => q[i].val = last[x]
      BY <2>1, <2>2, ZenonT(40) DEF Latest
    <3>2. (\A i \in DOMAIN c : ~ IsUpdate(c[i], t)) => db[x] = last[x]
      BY <2>3, <2>7, <3>1, Zenon
    <3>3. \A i \in DOMAIN c : IsUpdate(c[i], t) /\ (\A j \in DOMAIN c : IsUpdate(c[j], t) => j <= i) => c[i].val = last[x]
      BY <2>3, <2>7, <3>1, Zenon
    <3> QED BY <2>2, <2>8, <3>2, <3>3, ZenonT(40) DEF Latest
  <2>5. Asking(t)
    BY <1>4, <2>1, ZenonT(40) DEF Saved
  <2>6. Asking(t)'
    BY <2>2, <2>3, <2>5, <2>7, <2>8 DEF Asking
  <2> QED BY <2>1, <2>4, <2>6, Zenon
<1>5. entered'[x] = 0 => db'[x] = last'[x]
  BY Zenon DEF Saved
<1> QED BY <1>3, <1>4, <1>5, Zenon DEF Saved

\* A session with no question under way asks.
LEMMA AskingNew ==
  ASSUME AccountInv, NEW t \in DOMAIN sess, NEW a \in Agent, NEW s \in Seq(Query), AgentQuery(a, s), sess'[t].agent = a,
         \A i \in DOMAIN dbq[a] : ~ IsQuestion(dbq[a][i], t),
         \A i \in DOMAIN s : IsQuestion(s[i], t) => sess'[t].pc \in {"load", "fighter", "saving"},
         \A i, j \in DOMAIN s : IsQuestion(s[i], t) /\ IsQuestion(s[j], t) => i = j,
         sess'[t].pc = "load" => /\ \A i \in DOMAIN dbq[a] : ~ IsUpdate(dbq[a][i], t)
                                 /\ \A i \in DOMAIN s : ~ IsUpdate(s[i], t),
         \A i, j \in DOMAIN s : IsUpdate(s[i], t) /\ IsQuestion(s[j], t) => i < j
  PROVE  Asking(t)'
<1>t. TypeOK
  BY Zenon DEF AccountInv
<1>1. PICK q, c, n : q = dbq[a] /\ c = dbq'[a] /\ n \in Nat /\ Added(q, n, s, c)
  BY QueriesAdded, ZenonT(40)
<1>3. /\ \A i \in DOMAIN q : i \in Nat /\ i <= n /\ i \in DOMAIN c /\ c[i] = q[i]
      /\ \A i \in DOMAIN s : i \in Nat /\ i > 0 /\ n + i \in DOMAIN c /\ c[n + i] = s[i]
      /\ \A i \in DOMAIN c : i \in DOMAIN q \/ \E k \in DOMAIN s : i = n + k
  BY <1>1, Zenon DEF Added
<1>4. \A i \in DOMAIN c : IsQuestion(c[i], t) => \E k \in DOMAIN s : i = n + k /\ IsQuestion(s[k], t)
  BY <1>1, <1>3, ZenonT(40)
<1>5. \A i \in DOMAIN c : IsUpdate(c[i], t) => \/ i \in DOMAIN q /\ IsUpdate(q[i], t)
                                               \/ \E k \in DOMAIN s : i = n + k /\ IsUpdate(s[k], t)
  BY <1>3, Zenon
<1>6. \A i \in DOMAIN c : IsQuestion(c[i], t) => sess'[t].pc \in {"load", "fighter", "saving"}
  BY <1>4, Zenon
<1>7. \A i, j \in DOMAIN c : IsQuestion(c[i], t) /\ IsQuestion(c[j], t) => i = j
  BY <1>4, Zenon
<1>8. sess'[t].pc = "load" => \A i \in DOMAIN c : ~ IsUpdate(c[i], t)
  BY <1>1, <1>5, ZenonT(40)
<1>9. ASSUME NEW i \in DOMAIN c, NEW j \in DOMAIN c, IsUpdate(c[i], t), IsQuestion(c[j], t)
      PROVE  i < j
  <2>1. PICK k \in DOMAIN s : j = n + k /\ IsQuestion(s[k], t)
    BY <1>4, <1>9, ZenonT(40)
  <2>2. CASE i \in DOMAIN q
    BY <1>1, <1>3, <2>1, <2>2
  <2>3. CASE \E l \in DOMAIN s : i = n + l /\ IsUpdate(s[l], t)
    BY <1>1, <1>3, <2>1, <2>3
  <2> QED BY <1>5, <1>9, <2>2, <2>3, Zenon
<1> QED BY <1>1, <1>6, <1>7, <1>8, <1>9, ZenonT(40) DEF Asking

\* The queries of the session of x are its own still, and the newest data is known.
LEMMA SavedOwn ==
  ASSUME AccountInv, NEW x \in Account, Saved(x), UNCHANGED <<db, last>>, SameSessions,
         NEW t \in DOMAIN sess, entered[x] = t, entered'[x] = t,
         \A u \in DOMAIN sess : sess[u].acct = x /\ u # t => sess'[u] = sess[u],
         NEW a \in Agent, sess[t].agent = a, NEW s \in Seq(Query), AgentQuery(a, s),
         \A i \in DOMAIN s : s[i].of \in DOMAIN sess /\ (sess[s[i].of].acct = x => s[i].of = t),
         sess'[t].pc \notin Away \cup {"acked"}, sess'[t].pc # "load" => sess'[t].val = last[x],
         sess'[t].dirty \/ (sess[t].dirty => \E i \in DOMAIN s : IsUpdate(s[i], t)),
         \A i \in DOMAIN s : IsUpdate(s[i], t) => s[i].val = last[x],
         Asking(t)'
  PROVE  Saved(x)'
<1>t. TypeOK
  BY Zenon DEF AccountInv
<1>0. t # 0 /\ sess[t].acct = x /\ sess'[t].acct = x /\ sess'[t].agent = a
  BY SessIs DEF Saved, SameSessions
<1>1. OwnQueries(x)'
  <2> SUFFICES ASSUME NEW b \in Agent, NEW i \in DOMAIN dbq'[b], sess'[dbq'[b][i].of].acct = x
               PROVE  LET u == dbq'[b][i].of
                      IN u = entered'[x] /\ sess'[u].agent = b /\ sess'[u].pc \notin Away \cup {"acked"}
    BY ZenonT(40) DEF OwnQueries
  <2>1. PICK u : u = dbq'[b][i].of
    BY Zenon
  <2>2. u \in DOMAIN sess /\ sess[u].acct = x
    BY <2>1, QueriesOf, ZenonT(40) DEF SameSessions
  <2>3. CASE i \in DOMAIN dbq[b] /\ dbq'[b][i] = dbq[b][i]
    <3>1. u = entered[x] /\ sess[u].agent = b
      BY <2>1, <2>2, <2>3 DEF Saved, OwnQueries
    <3> QED BY <1>0, <2>1, <3>1, ZenonT(40)
  <2>4. CASE b = a /\ \E k \in DOMAIN s : dbq'[b][i] = s[k]
    <3>1. u = t
      BY <2>1, <2>2, <2>4, ZenonT(40)
    <3> QED BY <1>0, <2>1, <2>4, <3>1, Zenon
  <2>5. PICK n : Added(dbq[a], n, s, dbq'[a]) /\ \A d \in Agent : d # a => dbq'[d] = dbq[d]
    BY QueriesAdded, ZenonT(40)
  <2>6. CASE b = a
    <3>1. \A k \in DOMAIN dbq'[a] : \/ k \in DOMAIN dbq[a] /\ dbq'[a][k] = dbq[a][k]
                                    \/ \E j \in DOMAIN s : dbq'[a][k] = s[j]
      BY <2>5 DEF Added
    <3> QED BY <2>3, <2>4, <2>6, <3>1, Zenon
  <2>7. CASE b # a
    BY <2>3, <2>5, <2>7, Zenon
  <2> QED BY <2>6, <2>7, Zenon
<1>2. sess'[t].dirty \/ Latest(t)'
  <2> SUFFICES ASSUME ~ sess'[t].dirty PROVE Latest(t)'
    BY Zenon
  <2>1. PICK q, c, n : q = dbq[a] /\ c = dbq'[a] /\ n \in Nat /\ Added(q, n, s, c)
    BY QueriesAdded, ZenonT(40)
  <2>3. /\ \A i \in DOMAIN q : i \in Nat /\ i <= n /\ i \in DOMAIN c /\ c[i] = q[i]
        /\ \A i \in DOMAIN s : i \in Nat /\ i > 0 /\ n + i \in DOMAIN c /\ c[n + i] = s[i]
        /\ \A i \in DOMAIN c : i \in DOMAIN q \/ \E k \in DOMAIN s : i = n + k
    BY <2>1, ZenonT(40) DEF Added
  <2>4. CASE \E k \in DOMAIN s : IsUpdate(s[k], t)
    <3>1. PICK k \in DOMAIN s : IsUpdate(s[k], t)
      BY <2>4, Zenon
    <3>2. n + k \in DOMAIN c /\ IsUpdate(c[n + k], t)
      BY <2>3, <3>1, Zenon
    <3>3. ASSUME NEW i \in DOMAIN c, IsUpdate(c[i], t), \A j \in DOMAIN c : IsUpdate(c[j], t) => j <= i
          PROVE  c[i].val = last[x]
      <4>1. n + k <= i
        BY <3>2, <3>3, Zenon
      <4>2. i \notin DOMAIN q
        BY <2>1, <2>3, <3>1, <4>1
      <4>3. PICK l \in DOMAIN s : i = n + l
        BY <2>3, <4>2, Zenon
      <4> QED BY <2>3, <3>3, <4>3, Zenon
    <3> QED BY <1>0, <2>1, <3>2, <3>3, ZenonT(40) DEF Latest
  <2>5. CASE \A k \in DOMAIN s : ~ IsUpdate(s[k], t)
    <3>1. Latest(t)
      BY <1>0, <2>5, ZenonT(40) DEF Saved
    <3>2. /\ (\A i \in DOMAIN q : ~ IsUpdate(q[i], t)) => db[x] = last[x]
          /\ \A i \in DOMAIN q : IsUpdate(q[i], t) /\ (\A j \in DOMAIN q : IsUpdate(q[j], t) => j <= i) => q[i].val = last[x]
      BY <1>0, <2>1, <3>1, ZenonT(40) DEF Latest
    <3>3. \A i \in DOMAIN c : IsUpdate(c[i], t) => i \in DOMAIN q
      BY <2>3, <2>5, Zenon
    <3>4. (\A i \in DOMAIN c : ~ IsUpdate(c[i], t)) => db[x] = last[x]
      BY <2>3, <3>2, Zenon
    <3>5. \A i \in DOMAIN c : IsUpdate(c[i], t) /\ (\A j \in DOMAIN c : IsUpdate(c[j], t) => j <= i) => c[i].val = last[x]
      BY <2>3, <3>2, <3>3, Zenon
    <3> QED BY <1>0, <2>1, <3>4, <3>5, ZenonT(40) DEF Latest
  <2> QED BY <2>4, <2>5, ZenonT(40)
<1> QED BY <1>0, <1>1, <1>2, ZenonT(40) DEF Saved
=============================================================================
