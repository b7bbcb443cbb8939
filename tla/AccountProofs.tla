--------------------------- MODULE AccountProofs ----------------------------
(***************************************************************************)
(* Accounts on their way through the servers, for any sets of accounts,    *)
(* agents and clients and any number of sessions: the steps that ask or    *)
(* answer a question of the database, a crash of an agent, and the         *)
(* theorems.                                                               *)
(***************************************************************************)
EXTENDS AccountStepProofs

\* A session goes on from where it waits for nothing, with more queries.
LEMMA AsksInv ==
  ASSUME AccountInv, UNCHANGED <<Login, torn, toAgent, toLogin, db, last>>, user' \in [Agent -> [Account -> 0 .. Len(sess)]],
         NEW t \in DOMAIN sess, NEW r \in SessRec, sess' = [sess EXCEPT ![t] = r],
         r.acct = sess[t].acct, r.agent = sess[t].agent, sess[t].token \/ sess[t].pc \notin Away, ~ r.token,
         r.dirty => r.pc \in {"fighter", "fought", "on"},
         NEW a \in Agent, sess[t].agent = a, NEW s \in Seq(Query), AgentQuery(a, s), \A i \in DOMAIN s : s[i].of = t,
         sess[t].pc \notin {"load", "fighter", "saving"}, r.pc \notin Away \cup {"acked"},
         r.pc # "load" => sess[t].pc \notin Away /\ r.val = sess[t].val,
         r.pc = "load" => sess[t].pc = "none" /\ \A i \in DOMAIN s : ~ IsUpdate(s[i], t),
         r.dirty \/ (sess[t].dirty => \E i \in DOMAIN s : IsUpdate(s[i], t)),
         \A i \in DOMAIN s : IsUpdate(s[i], t) => s[i].val = sess[t].val,
         \A i \in DOMAIN s : IsQuestion(s[i], t) => r.pc \in {"load", "fighter", "saving"},
         \A i, j \in DOMAIN s : IsQuestion(s[i], t) /\ IsQuestion(s[j], t) => i = j,
         \A i, j \in DOMAIN s : IsUpdate(s[i], t) /\ IsQuestion(s[j], t) => i < j
  PROVE  AccountInv'
<1>0. TypeOK /\ HoldInv /\ SaveInv /\ UNCHANGED <<entered, mixed>>
  BY SMTT(30) DEF AccountInv, Login
<1>1. Runs /\ SameSessions
  BY RunsSet, Zenon DEF Runs
<1>2. sess'[t] = r /\ \A u \in DOMAIN sess : u # t => sess'[u] = sess[u]
  BY <1>0, SessSet
<1>3. dbq' \in [Agent -> Seq(Query)]
  BY <1>0, QueriesAdded, Zenon
<1>4. \A b \in Agent : \A i \in DOMAIN dbq'[b] : dbq'[b][i].of \in DOMAIN sess
  BY <1>0, QueriesOf, Zenon
<1>5. TellInv'
  BY <1>1, RunsHoldLess, TellKept, Zenon
<1>6. SaveInv'
  <2> SUFFICES ASSUME NEW x \in Account, x \notin torn \cup mixed
               PROVE  Saved(x)'
    BY <1>0 DEF SaveInv
  <2>1. Saved(x)
    BY <1>0, SMTT(30) DEF SaveInv
  <2>2. CASE sess[t].acct # x
    <3>1. \A i \in DOMAIN s : s[i].of \in DOMAIN sess /\ sess[s[i].of].acct # x
      BY <2>2
    <3>2. \A u \in DOMAIN sess : sess[u].acct = x => sess'[u] = sess[u]
      BY <1>2, <2>2
    <3> QED BY <1>0, <1>1, <2>1, <3>1, <3>2, SavedOthers, Zenon
  <2>3. CASE sess[t].acct = x
    <3>1. entered[x] = t /\ entered'[x] = t /\ t # 0
      <4>1. Held(t)
        BY Zenon DEF Held, Away
      <4> QED BY <1>0, <2>3, <4>1, SessIs DEF HoldInv
    <3>2. sess[t].pc \notin Away \cup {"load"} => sess[t].val = last[x]
      BY <2>1, <3>1, Zenon DEF Saved
    <3>3. /\ \A i \in DOMAIN dbq[a] : ~ IsQuestion(dbq[a][i], t)
          /\ r.pc = "load" => \A i \in DOMAIN dbq[a] : ~ IsUpdate(dbq[a][i], t)
      <4>1. Asking(t)
        BY <2>1, <3>1, Zenon DEF Saved
      <4>2. r.pc = "load" => \A b \in Agent : \A i \in DOMAIN dbq[b] : sess[dbq[b][i].of].acct # x
        BY <1>0, <2>1, <3>1, SavedEnded, SMTT(30) DEF Away
      <4> QED BY <2>3, <4>1, <4>2, Zenon DEF Asking, IsUpdate
    <3>4. Asking(t)'
      BY <1>0, <1>2, <3>3, AskingNew, Zenon
    <3>5. sess[t].val = last[x] \/ \A i \in DOMAIN s : ~ IsUpdate(s[i], t)
      BY <3>2, Zenon
    <3>6. sess'[t].pc # "load" => sess'[t].val = last[x]
      BY <1>2, <3>2, Zenon
    <3>7. /\ \A i \in DOMAIN s : s[i].of \in DOMAIN sess /\ (sess[s[i].of].acct = x => s[i].of = t)
          /\ \A i \in DOMAIN s : IsUpdate(s[i], t) => s[i].val = last[x]
      BY <3>5, Zenon
    <3>8. /\ sess'[t].pc \notin Away \cup {"acked"}
          /\ sess'[t].dirty \/ (sess[t].dirty => \E i \in DOMAIN s : IsUpdate(s[i], t))
          /\ \A u \in DOMAIN sess : sess[u].acct = x /\ u # t => sess'[u] = sess[u]
      BY <1>2, Zenon
    <3> QED BY <1>0, <1>1, <2>1, <3>1, <3>4, <3>6, <3>7, <3>8, SavedOwn, Zenon
  <2> QED BY <2>2, <2>3, Zenon
<1>7. toLogin' \in [Agent -> Seq(Account)] /\ db' \in [Account -> Nat] /\ last' \in [Account -> Nat]
  BY <1>0, SMTT(30) DEF TypeOK
<1> QED BY <1>1, <1>3, <1>4, <1>5, <1>6, <1>7, RunsInv, Zenon

\* UserAuth keeps AccountInv.
LEMMA UserAuthInv ==
  ASSUME AccountInv, NEW t \in DOMAIN sess, UserAuth(t)
  PROVE  AccountInv'
<1>0. TypeOK /\ HoldInv /\ sess[t] \in SessRec
  BY SessIs DEF AccountInv
<1>1. PICK a \in Agent, f \in BOOLEAN : a = sess[t].agent /\ f = (stop[a] # "no")
  BY <1>0, Zenon DEF SessRec
<1> DEFINE r == [sess[t] EXCEPT !.token = FALSE, !.entry = TRUE, !.pc = "load", !.fresh = f]
           s == <<[kind |-> "find", of |-> t, val |-> 0]>>
<1>2. /\ UNCHANGED <<Login, torn, toAgent, toLogin, db, last>> /\ sess[t].token /\ sess[t].pc = "none"
      /\ sess' = [sess EXCEPT ![t] = r] /\ AgentQuery(a, s)
      /\ user' = [user EXCEPT ![a][sess[t].acct] = t]
  BY <1>1, Zenon DEF UserAuth, login, history, Login
<1>3. user' \in [Agent -> [Account -> 0 .. Len(sess)]]
  <2>1. t \in 0 .. Len(sess) /\ user \in [Agent -> [Account -> 0 .. Len(sess)]]
    BY <1>0, SessIs DEF TypeOK
  <2> QED BY <1>2, <2>1, Zenon
<1>4. r \in SessRec
  BY <1>0, <1>1, Zenon DEF SessRec
<1>5. /\ r.acct = sess[t].acct /\ r.agent = sess[t].agent /\ ~ r.token /\ r.pc = "load" /\ r.dirty = sess[t].dirty
  BY <1>0 DEF SessRec
<1>6. /\ s \in Seq(Query) /\ \A i \in DOMAIN s : i = 1 /\ s[i].of = t /\ ~ IsUpdate(s[i], t)
  <2>1. [kind |-> "find", of |-> t, val |-> 0] \in Query /\ ~ IsUpdate([kind |-> "find", of |-> t, val |-> 0], t)
    BY <1>0, SessIs DEF Query, IsUpdate
  <2> QED BY <2>1
<1>7. ~ sess[t].dirty
  BY <1>0, <1>2 DEF HoldInv
<1>8. s \in Seq(Query) /\ \A i \in DOMAIN s : s[i].of = t
  BY <1>6
<1>9. /\ \A i \in DOMAIN s : IsUpdate(s[i], t) => s[i].val = sess[t].val
      /\ \A i \in DOMAIN s : IsQuestion(s[i], t) => r.pc \in {"load", "fighter", "saving"}
  BY <1>5, <1>6
<1>10. /\ \A i, j \in DOMAIN s : IsQuestion(s[i], t) /\ IsQuestion(s[j], t) => i = j
       /\ \A i, j \in DOMAIN s : IsUpdate(s[i], t) /\ IsQuestion(s[j], t) => i < j
  BY <1>6
<1>11. /\ sess[t].pc \notin {"load", "fighter", "saving"} /\ r.pc \notin Away \cup {"acked"} /\ ~ r.dirty
       /\ r.pc = "load" => sess[t].pc = "none" /\ \A i \in DOMAIN s : ~ IsUpdate(s[i], t)
  BY <1>2, <1>5, <1>6, <1>7, SMTT(30) DEF Away
<1> HIDE DEF r, s
<1> QED BY <1>1, <1>2, <1>3, <1>4, <1>5, <1>7, <1>8, <1>9, <1>10, <1>11, AsksInv, Zenon

\* EnterGame keeps AccountInv.
LEMMA EnterGameInv ==
  ASSUME AccountInv, NEW t \in DOMAIN sess, EnterGame(t) \/ EnterScene(t)
  PROVE  AccountInv'
<1>0. TypeOK /\ HoldInv /\ sess[t] \in SessRec
  BY SessIs, Zenon DEF AccountInv
<1>1. PICK a \in Agent : a = sess[t].agent
  BY <1>0 DEF SessRec
<1> DEFINE fight == sess[t].pc = "loaded" /\ sess[t].conn = "open"
<1>2. PICK p \in {"fighter", "on"} : p = IF fight THEN "fighter" ELSE "on"
  OBVIOUS
<1>3. PICK s : s = IF fight THEN <<[kind |-> "find", of |-> t, val |-> 0]>> ELSE <<>>
  BY Zenon
<1> DEFINE r == [sess[t] EXCEPT !.pc = p]
<1>4. /\ UNCHANGED <<Login, torn, toAgent, toLogin, db, last, user>> /\ sess[t].pc \in {"loaded", "fought"}
      /\ sess' = [sess EXCEPT ![t] = r] /\ AgentQuery(a, s)
  <2>1. CASE EnterGame(t) /\ fight
    BY <1>1, <1>2, <1>3, <2>1 DEF EnterGame, AgentQuery, login, agent, history, Login
  <2>2. CASE ~ fight
    <3>1. dbq \in [Agent -> Seq(Query)] /\ dbq[a] \in Seq(Query)
      BY <1>0 DEF TypeOK
    <3>2. dbq[a] \o <<>> = dbq[a]
      BY <3>1
    <3>3. dbq = [dbq EXCEPT ![a] = @ \o s]
      BY <1>3, <2>2, <3>1, <3>2
    <3>4. dbq' = dbq /\ UNCHANGED <<Login, torn, toAgent, toLogin, db, last, user>>
      BY <2>2, Zenon DEF EnterGame, EnterScene, login, agent, data, history, Login
    <3>5. AgentQuery(a, s)
      BY <3>3, <3>4, Zenon DEF AgentQuery
    <3>6. sess[t].pc \in {"loaded", "fought"} /\ sess' = [sess EXCEPT ![t] = r]
      BY <1>2, <2>2 DEF EnterGame, EnterScene
    <3> QED BY <3>4, <3>5, <3>6
  <2>3. EnterScene(t) => ~ fight
    BY DEF EnterScene
  <2> QED BY <2>1, <2>2, <2>3
<1>5. user' \in [Agent -> [Account -> 0 .. Len(sess)]]
  BY <1>0, <1>4 DEF TypeOK
<1>6. r \in SessRec
  BY <1>0 DEF SessRec, Away
<1>7. /\ r.acct = sess[t].acct /\ r.agent = sess[t].agent /\ r.token = sess[t].token /\ r.pc = p /\ r.dirty = sess[t].dirty
      /\ r.val = sess[t].val
  BY <1>0, Zenon DEF SessRec
<1>8. s \in Seq(Query) /\ \A i \in DOMAIN s : i = 1 /\ s[i].of = t /\ ~ IsUpdate(s[i], t) /\ p = "fighter"
  <2>1. [kind |-> "find", of |-> t, val |-> 0] \in Query /\ ~ IsUpdate([kind |-> "find", of |-> t, val |-> 0], t)
    BY <1>0, SessIs DEF Query, IsUpdate
  <2> QED BY <1>2, <1>3, <2>1, SMTT(30)
<1>9. ~ sess[t].token
  BY <1>0, <1>4, Zenon DEF HoldInv
<1> HIDE DEF r
<1> QED BY <1>1, <1>4, <1>5, <1>6, <1>7, <1>8, <1>9, AsksInv, Zenon DEF Away

\* The saves of the dirty sessions of T.
LEMMA UpdatesAre ==
  ASSUME AccountInv, NEW T \in SUBSET DOMAIN sess, NEW s \in Updates(T)
  PROVE  /\ s \in Seq(Query)
         /\ \A i \in DOMAIN s : s[i].of \in T /\ sess[s[i].of].dirty /\ s[i].kind = "update" /\ s[i].val = sess[s[i].of].val
         /\ \A t \in T : sess[t].dirty => \E i \in DOMAIN s : IsUpdate(s[i], t)
<1>t. TypeOK
  BY Zenon DEF AccountInv
<1> DEFINE D == {u \in T : sess[u].dirty}
           U(t) == [kind |-> "update", of |-> t, val |-> sess[t].val]
           S == {U(t) : t \in D}
<1>1. s \in InAnyOrder(S)
  BY SMTT(30) DEF Updates
<1>3. \A e \in S : e \in Query /\ e.of \in T /\ sess[e.of].dirty /\ e.kind = "update" /\ e.val = sess[e.of].val
  BY SessIs DEF Query
<1>4. \A t \in T : sess[t].dirty => \E e \in S : IsUpdate(e, t)
  <2> SUFFICES ASSUME NEW t \in T, sess[t].dirty
               PROVE  \E e \in S : IsUpdate(e, t)
    OBVIOUS
  <2>1. U(t) \in S
    OBVIOUS
  <2>2. IsUpdate(U(t), t)
    BY DEF IsUpdate
  <2> HIDE DEF S, U
  <2> QED BY <2>1, <2>2, Zenon
<1> HIDE DEF S
<1>5. s \in Seq(S) /\ \A e \in S : \E i \in DOMAIN s : s[i] = e
  BY <1>1, InAnyOrderIs
<1>6. \A i \in DOMAIN s : s[i] \in S
  BY <1>5
<1>7. s \in Seq(Query)
  BY <1>3, <1>5, SMTT(30)
<1> QED BY <1>3, <1>4, <1>5, <1>6, <1>7, Zenon

\* UserLeave keeps AccountInv.
LEMMA UserLeaveInv ==
  ASSUME AccountInv, NEW t \in DOMAIN sess, UserLeave(t)
  PROVE  AccountInv'
<1>0. TypeOK /\ HoldInv /\ sess[t] \in SessRec
  BY SessIs DEF AccountInv
<1>1. PICK a \in Agent : a = sess[t].agent
  BY <1>0 DEF SessRec
<1>2. PICK m : m = [kind |-> "modify", of |-> t, val |-> 0]
  BY Zenon
<1> DEFINE r == [sess[t] EXCEPT !.pc = "saving", !.dirty = FALSE]
<1>3. PICK u \in Updates({t}) : AgentQuery(a, Append(u, m))
  BY <1>1, <1>2, Zenon DEF UserLeave
<1>4. UNCHANGED <<Login, torn, toAgent, toLogin, db, last, user>> /\ sess[t].pc = "on" /\ sess' = [sess EXCEPT ![t] = r]
  BY Zenon DEF UserLeave, login, agent, history, Login
<1>5. user' \in [Agent -> [Account -> 0 .. Len(sess)]]
  BY <1>0, <1>4 DEF TypeOK
<1>6. r \in SessRec
  BY <1>0, Zenon DEF SessRec, Away
<1>7. /\ r.acct = sess[t].acct /\ r.agent = sess[t].agent /\ r.token = sess[t].token /\ r.pc = "saving" /\ ~ r.dirty
      /\ r.val = sess[t].val
  BY <1>0, Zenon DEF SessRec
<1>8. m \in Query /\ m.of = t /\ ~ IsUpdate(m, t)
  BY <1>0, <1>2, SessIs DEF Query, IsUpdate
<1>9. /\ u \in Seq(Query) /\ \A i \in DOMAIN u : u[i].of = t /\ u[i].kind = "update" /\ u[i].val = sess[t].val
      /\ sess[t].dirty => \E i \in DOMAIN u : IsUpdate(u[i], t)
  BY <1>0, UpdatesAre
<1>10. PICK s : s = Append(u, m)
  BY Zenon
<1>11. /\ s \in Seq(Query) /\ Len(u) \in Nat /\ DOMAIN s = 1 .. Len(u) + 1 /\ DOMAIN u = 1 .. Len(u)
       /\ s[Len(u) + 1] = m /\ \A i \in DOMAIN u : s[i] = u[i]
  BY <1>8, <1>9, <1>10, AppendIs
<1>12. \A i \in DOMAIN s : (i \in DOMAIN u /\ i < Len(u) + 1) \/ i = Len(u) + 1
  BY <1>11, SMTT(30)
<1>13. \A i \in DOMAIN s : s[i].of = t /\ (IsUpdate(s[i], t) => s[i].val = sess[t].val)
  BY <1>8, <1>9, <1>11, <1>12, Zenon
<1>14. \A i \in DOMAIN s : (IsQuestion(s[i], t) => i = Len(u) + 1) /\ (IsUpdate(s[i], t) => i < Len(u) + 1)
  BY <1>8, <1>9, <1>11, <1>12, Zenon DEF IsQuestion
<1>15. sess[t].dirty => \E i \in DOMAIN s : IsUpdate(s[i], t)
  BY <1>9, <1>11
<1>16. /\ \A i, j \in DOMAIN s : IsQuestion(s[i], t) /\ IsQuestion(s[j], t) => i = j
       /\ \A i, j \in DOMAIN s : IsUpdate(s[i], t) /\ IsQuestion(s[j], t) => i < j
  BY <1>14
<1>17. ~ sess[t].token
  BY <1>0, <1>4, Zenon DEF HoldInv
<1>18. s \in Seq(Query) /\ AgentQuery(a, s)
  BY <1>3, <1>10, <1>11, SMTT(30)
<1> HIDE DEF r
<1> QED BY <1>1, <1>4, <1>5, <1>6, <1>7, <1>13, <1>15, <1>16, <1>17, <1>18, AsksInv, Zenon DEF Away

\* What a step leaves of an account keeps its data saved.
LEMMA SavedFrame ==
  ASSUME AccountInv, NEW x \in Account, Saved(x), db'[x] = db[x], last'[x] = last[x], entered'[x] = entered[x], SameSessions,
         \A t \in DOMAIN sess : sess[t].acct = x => sess'[t] = sess[t], dbq' = dbq
  PROVE  Saved(x)'
<1>t. TypeOK
  BY DEF AccountInv
<1>1. \A a \in Agent : \A i \in DOMAIN dbq[a] : dbq[a][i].of \in DOMAIN sess
  BY <1>t, ZenonT(40) DEF TypeOK
<1>2. OwnQueries(x)'
  BY <1>1, SMTT(30) DEF OwnQueries, Saved, SameSessions
<1>3. ASSUME NEW t, t = entered[x], t # 0
      PROVE  sess'[t] = sess[t] /\ sess[t].acct = x /\ (Latest(t) => Latest(t)') /\ (Asking(t) => Asking(t)')
  <2>1. t \in DOMAIN sess
    BY <1>3, SessIs, Zenon
  <2>2. sess[t].acct = x /\ sess'[t] = sess[t]
    BY <1>3, <2>1 DEF Saved
  <2> QED BY <2>2, ZenonT(40) DEF Latest, Asking
<1> QED BY <1>2, <1>3, ZenonT(40) DEF Saved

\* Play keeps AccountInv.
LEMMA PlayInv ==
  ASSUME AccountInv, NEW t \in DOMAIN sess, Play(t)
  PROVE  AccountInv'
<1>0. TypeOK /\ HoldInv /\ SaveInv /\ sess[t] \in SessRec
  BY SessIs DEF AccountInv
<1>a. PICK x \in Account : x = sess[t].acct
  BY <1>0, SMTT(30) DEF SessRec
<1>b. last[x] + 1 \in Nat
  BY <1>0, SMTT(30) DEF TypeOK
<1>1. PICK v \in Nat : x = sess[t].acct /\ v = last[x] + 1
  BY <1>a, <1>b, Zenon
<1> DEFINE r == [sess[t] EXCEPT !.val = v, !.dirty = TRUE]
<1>2. /\ UNCHANGED <<Login, torn, toAgent, toLogin, db, dbq, user>> /\ sess[t].pc \in {"fighter", "fought", "on"}
      /\ sess' = [sess EXCEPT ![t] = r] /\ last' = [last EXCEPT ![x] = v]
  BY <1>1, Zenon DEF Play, login, agent, history, Login
<1>3. r \in SessRec
  BY <1>0, <1>1, Zenon DEF SessRec
<1>4. /\ r.acct = x /\ r.agent = sess[t].agent /\ r.token = sess[t].token /\ r.pc = sess[t].pc /\ r.dirty /\ r.val = v
  BY <1>0, <1>1 DEF SessRec
<1>5. ~ sess[t].token /\ sess[t].pc \notin Away \cup {"load", "saving"}
  BY <1>0, <1>2, SMTT(30) DEF HoldInv, Away
<1> HIDE DEF r
<1>6. Runs /\ SameSessions
  BY <1>1, <1>2, <1>3, <1>4, <1>5, RunsSet, Zenon DEF Runs
<1>7. sess'[t] = r /\ \A u \in DOMAIN sess : u # t => sess'[u] = sess[u]
  BY <1>0, <1>2, <1>3, SessSet
<1>8. TellInv'
  BY <1>2, <1>6, RunsHoldLess, TellKept
<1>9. SaveInv'
  <2> SUFFICES ASSUME NEW y \in Account, y \notin torn \cup mixed
               PROVE  Saved(y)'
    BY <1>2 DEF SaveInv, Login
  <2>1. Saved(y) /\ entered'[y] = entered[y]
    BY <1>0, <1>2 DEF SaveInv, Login
  <2>2. CASE y # x
    <3>1. last'[y] = last[y] /\ \A u \in DOMAIN sess : sess[u].acct = y => sess'[u] = sess[u]
      BY <1>0, <1>1, <1>2, <1>7, <2>2, SMTT(30) DEF TypeOK
    <3> QED BY <1>0, <1>2, <1>6, <2>1, <3>1, SavedFrame, SMTT(30)
  <2>3. CASE y = x
    <3>1. entered[x] = t /\ t # 0
      <4>1. Held(t)
        BY <1>5, SMTT(30) DEF Held, Away
      <4> QED BY <1>0, <1>1, <2>3, <4>1, SessIs, SMTT(30) DEF HoldInv
    <3>2. OwnQueries(x) /\ Asking(t)
      BY <2>1, <2>3, <3>1, SMTT(30) DEF Saved
    <3>3. \A u \in DOMAIN sess : sess'[u].acct = sess[u].acct /\ sess'[u].agent = sess[u].agent /\ sess'[u].pc = sess[u].pc
      BY <1>1, <1>4, <1>7, Zenon
    <3>4. OwnQueries(x)'
      <4>1. \A b \in Agent : \A i \in DOMAIN dbq[b] : dbq[b][i].of \in DOMAIN sess
        BY <1>0, Zenon DEF TypeOK
      <4> QED BY <1>2, <2>1, <2>3, <3>2, <3>3, <4>1, SMTT(30) DEF OwnQueries
    <3>5. Asking(t)'
      BY <1>2, <3>2, <3>3, Zenon DEF Asking
    <3>6. last'[x] = v /\ entered'[x] = t /\ sess'[t].acct = x /\ sess'[t].val = v /\ sess'[t].dirty
      BY <1>0, <1>1, <1>2, <1>4, <1>7, <2>1, <2>3, <3>1, SMTT(30) DEF TypeOK
    <3> QED BY <2>3, <3>1, <3>4, <3>5, <3>6, SMTT(30) DEF Saved
  <2> QED BY <2>2, <2>3
<1>10. /\ user' \in [Agent -> [Account -> 0 .. Len(sess)]] /\ toLogin' \in [Agent -> Seq(Account)]
       /\ db' \in [Account -> Nat] /\ dbq' \in [Agent -> Seq(Query)] /\ last' \in [Account -> Nat]
       /\ \A a \in Agent : \A i \in DOMAIN dbq'[a] : dbq'[a][i].of \in DOMAIN sess
  BY <1>0, <1>2, SMTT(30) DEF TypeOK
<1> QED BY <1>2, <1>6, <1>8, <1>9, <1>10, RunsInv

\* Saves do not change what a session waits for.
LEMMA AskingSaves ==
  ASSUME AccountInv, NEW t \in DOMAIN sess, Asking(t), NEW a \in Agent, sess[t].agent = a, sess'[t].agent = a,
         NEW s \in Seq(Query), AgentQuery(a, s), \A i \in DOMAIN s : ~ IsQuestion(s[i], t),
         sess'[t].pc = sess[t].pc, sess[t].pc \notin {"load", "saving"}
  PROVE  Asking(t)'
<1>t. TypeOK
  BY DEF AccountInv
<1>1. PICK q, c, n : q = dbq[a] /\ c = dbq'[a] /\ n \in Nat /\ Added(q, n, s, c)
  BY QueriesAdded, ZenonT(40)
<1>2. \A i \in DOMAIN c : IsQuestion(c[i], t) => i \in DOMAIN q /\ IsQuestion(q[i], t)
  BY <1>1, SMTT(30) DEF Added
<1>3. /\ \A i \in DOMAIN q : IsQuestion(q[i], t) => sess[t].pc \in {"load", "fighter", "saving"}
      /\ \A i, j \in DOMAIN q : IsQuestion(q[i], t) /\ IsQuestion(q[j], t) => i = j
  BY <1>1, Zenon DEF Asking
<1>4. /\ \A i \in DOMAIN c : IsQuestion(c[i], t) => sess'[t].pc \in {"load", "fighter", "saving"}
      /\ \A i, j \in DOMAIN c : IsQuestion(c[i], t) /\ IsQuestion(c[j], t) => i = j
  BY <1>2, <1>3
<1> HIDE DEF IsQuestion, IsUpdate
<1> QED BY <1>1, <1>4, ZenonT(40) DEF Asking

\* SaveTimer keeps AccountInv.
LEMMA SaveTimerInv ==
  ASSUME AccountInv, NEW a \in Agent, SaveTimer(a)
  PROVE  AccountInv'
<1>0. TypeOK /\ HoldInv /\ SaveInv
  BY DEF AccountInv
<1> DEFINE D == {t \in Of(a) : sess[t].dirty}
<1>1. /\ UNCHANGED <<Login, torn, toAgent, toLogin, db, last, user>>
      /\ sess' = [t \in DOMAIN sess |-> IF t \in D THEN [sess[t] EXCEPT !.dirty = FALSE] ELSE sess[t]]
      /\ \E s \in Updates(D) : AgentQuery(a, s)
  BY Zenon DEF SaveTimer, login, agent, history, Login
<1>2. PICK s \in Updates(D) : AgentQuery(a, s)
  BY <1>1, Zenon
<1>3. D \in SUBSET DOMAIN sess /\ \A t \in D : t \in DOMAIN sess /\ sess[t].agent = a /\ sess[t].dirty
  BY DEF Of
<1>4. \A t \in DOMAIN sess : sess[t].agent = a /\ sess[t].dirty => t \in D
  BY DEF Of
<1>5. \A t \in DOMAIN sess : sess'[t] = IF t \in D THEN [sess[t] EXCEPT !.dirty = FALSE] ELSE sess[t]
  BY <1>1, SMTT(30)
<1> HIDE DEF D
<1>6. /\ s \in Seq(Query)
      /\ \A i \in DOMAIN s : s[i].of \in D /\ s[i].kind = "update" /\ s[i].val = sess[s[i].of].val
      /\ \A t \in D : \E i \in DOMAIN s : IsUpdate(s[i], t)
  BY <1>0, <1>3, UpdatesAre
<1>7. \A t \in DOMAIN sess : sess[t] \in SessRec
  BY <1>0, SessIs
<1>8. \A t \in DOMAIN sess : /\ sess'[t].acct = sess[t].acct /\ sess'[t].agent = sess[t].agent /\ sess'[t].pc = sess[t].pc
                             /\ sess'[t].val = sess[t].val /\ sess'[t].token = sess[t].token
                             /\ sess'[t].dirty => sess[t].dirty
  BY <1>5, <1>7, Zenon DEF SessRec
<1>9. Runs /\ SameSessions
  <2>1. sess \in Seq(SessRec) /\ DOMAIN sess' = DOMAIN sess
    BY <1>0, <1>1 DEF TypeOK
  <2>2. \A t \in DOMAIN sess : sess'[t] \in SessRec
    <3>1. \A r \in SessRec : [r EXCEPT !.dirty = FALSE] \in SessRec
      BY Zenon DEF SessRec
    <3> QED BY <1>5, <1>7, <3>1, Zenon
  <2>3. sess' \in Seq(SessRec)
    BY <1>1, <2>1, <2>2
  <2>4. \A t \in DOMAIN sess : (sess[t].token => sess[t].pc = "none") /\ (sess[t].dirty => sess[t].pc \in {"fighter", "fought", "on"})
    BY <1>0 DEF HoldInv
  <2>5. SameSessions
    BY <1>8, <2>1 DEF SameSessions
  <2> QED BY <1>8, <2>3, <2>4, <2>5 DEF Runs
<1>10. TellInv'
  BY <1>1, <1>9, RunsHoldLess, TellKept, SMTT(30)
<1>11. \A t \in D : /\ t \in DOMAIN sess /\ sess[t].pc \in {"fighter", "fought", "on"}
                    /\ sess[t].acct \notin mixed => entered[sess[t].acct] = t
  <2> TAKE t \in D
  <2>1. t \in DOMAIN sess /\ sess[t].pc \in {"fighter", "fought", "on"}
    BY <1>0, <1>3, SMTT(30) DEF HoldInv
  <2>2. Held(t)
    BY <2>1 DEF Held
  <2> QED BY <1>0, <2>1, <2>2 DEF HoldInv
<1>12. SaveInv'
  <2> SUFFICES ASSUME NEW x \in Account, x \notin torn \cup mixed
               PROVE  Saved(x)'
    BY <1>1 DEF SaveInv, Login
  <2>1. Saved(x) /\ entered'[x] = entered[x] /\ UNCHANGED <<db, last>> /\ x \notin mixed
    BY <1>0, <1>1, SMTT(30) DEF SaveInv, Login
  <2>2. CASE \A t \in D : sess[t].acct # x
    <3>1. \A t \in DOMAIN sess : sess[t].acct = x => sess'[t] = sess[t]
      BY <1>5, <2>2, ZenonT(40)
    <3>2. \A i \in DOMAIN s : s[i].of \in DOMAIN sess /\ sess[s[i].of].acct # x
      BY <1>3, <1>6, <2>2
    <3> QED BY <1>0, <1>2, <1>6, <1>9, <2>1, <3>1, <3>2, SavedOthers, Zenon
  <2>3. ASSUME NEW t \in D, sess[t].acct = x
        PROVE  Saved(x)'
    <3>1. t \in DOMAIN sess /\ entered[x] = t /\ sess[t].pc \in {"fighter", "fought", "on"} /\ sess[t].agent = a /\ t # 0
      BY <1>0, <1>3, <1>11, <2>1, <2>3, SessIs
    <3>2. \A u \in D : sess[u].acct = x => u = t
      BY <1>11, <2>1, <2>3, <3>1
    <3>3. \A u \in DOMAIN sess : sess[u].acct = x /\ u # t => sess'[u] = sess[u]
      BY <1>5, <3>2, Zenon
    <3>4. sess[t].val = last[x] /\ Asking(t)
      BY <2>1, <3>1, ZenonT(40) DEF Saved, Away
    <3>5. /\ \A i \in DOMAIN s : s[i].of \in DOMAIN sess /\ (sess[s[i].of].acct = x => s[i].of = t)
          /\ \A i \in DOMAIN s : ~ IsQuestion(s[i], t)
      BY <1>3, <1>6, <3>2, SMTT(30) DEF IsQuestion
    <3>6. \A i \in DOMAIN s : IsUpdate(s[i], t) => s[i].val = last[x]
      BY <1>6, <3>4, SMTT(30) DEF IsUpdate
    <3>7. Asking(t)'
      BY <1>0, <1>2, <1>6, <1>8, <3>1, <3>4, <3>5, AskingSaves, ZenonT(40)
    <3>8. /\ sess'[t].pc \notin Away \cup {"acked"} /\ sess'[t].val = last[x]
          /\ sess'[t].dirty \/ (sess[t].dirty => \E i \in DOMAIN s : IsUpdate(s[i], t))
          /\ entered'[x] = t
      BY <1>6, <1>8, <2>1, <3>1, <3>4, ZenonT(40) DEF Away
    <3> HIDE DEF IsUpdate, Asking
    <3> QED BY <1>0, <1>2, <1>6, <1>9, <2>1, <3>1, <3>3, <3>5, <3>6, <3>7, <3>8, SavedOwn, ZenonT(40)
  <2> QED BY <2>2, <2>3
<1>13. dbq' \in [Agent -> Seq(Query)] /\ \A b \in Agent : \A i \in DOMAIN dbq'[b] : dbq'[b][i].of \in DOMAIN sess
  BY <1>0, <1>2, <1>3, <1>6, QueriesAdded, QueriesOf, Zenon
<1>14. /\ user' \in [Agent -> [Account -> 0 .. Len(sess)]] /\ toLogin' \in [Agent -> Seq(Account)]
       /\ db' \in [Account -> Nat] /\ last' \in [Account -> Nat]
  BY <1>0, <1>1 DEF TypeOK
<1> QED BY <1>1, <1>9, <1>10, <1>12, <1>13, <1>14, RunsInv

\* UserLeft keeps AccountInv.
LEMMA UserLeftInv ==
  ASSUME AccountInv, NEW t \in DOMAIN sess, UserLeft(t)
  PROVE  AccountInv'
<1>0. TypeOK /\ RegisterInv /\ HoldInv /\ SaveInv /\ sess[t] \in SessRec
  BY SessIs DEF AccountInv
<1>1. PICK a \in Agent, x \in Account, e \in BOOLEAN :
        a = sess[t].agent /\ x = sess[t].acct /\ e = (sess[t].entry /\ sess[t].want # "stop")
  BY <1>0, Zenon DEF SessRec
<1> DEFINE r == [sess[t] EXCEPT !.pc = "left", !.entry = e]
<1>2. /\ UNCHANGED <<Login, torn, toAgent, db, dbq, last>> /\ sess[t].pc = "acked"
      /\ user' = [user EXCEPT ![a][x] = 0] /\ toLogin' = [toLogin EXCEPT ![a] = Append(@, x)]
      /\ sess' = [sess EXCEPT ![t] = r]
  BY <1>1, Zenon DEF UserLeft, Tell, login, data, history, Login
<1>3. r \in SessRec
  BY <1>0, <1>1, Zenon DEF SessRec, Away
<1>4. /\ r.acct = x /\ r.agent = a /\ r.token = sess[t].token /\ r.pc = "left" /\ r.dirty = sess[t].dirty
  BY <1>0, <1>1 DEF SessRec
<1>5. ~ sess[t].token /\ ~ sess[t].dirty /\ sess[t].pc \notin Away
  BY <1>0, <1>2 DEF HoldInv, Away
<1> HIDE DEF r
<1>6. Runs /\ SameSessions
  BY <1>1, <1>2, <1>3, <1>4, <1>5, RunsSet, Zenon DEF Runs
<1>7. sess'[t] = r /\ \A u \in DOMAIN sess : u # t => sess'[u] = sess[u]
  BY <1>0, <1>2, <1>3, SessSet, Zenon
<1>8. Held(t) /\ life[a] = "up" /\ (x \notin mixed => entered[x] = t)
  <2>1. Held(t)
    BY <1>2 DEF Held
  <2> QED BY <1>0, <1>1, <2>1 DEF HoldInv
<1>9. ~ Held(t)'
  <2>1. \A i \in DOMAIN toAgent[a] : toAgent[a][i] # [kind |-> "register", of |-> t]
    BY <1>0, <1>2 DEF RegisterInv
  <2>2. sess'[t].agent = a /\ ~ sess'[t].token /\ sess'[t].pc = "left"
    BY <1>4, <1>5, <1>7, SMTT(30)
  <2> QED BY <1>2, <2>1, <2>2, SMTT(30) DEF Held
<1>10. TellInv' /\ toLogin' \in [Agent -> Seq(Account)]
  <2>1. /\ <<x>> \in Seq(Account) /\ \A i \in DOMAIN <<x>> : i = 1 /\ <<x>>[i] = x
        /\ Tells(a, <<x>>)
    <3>1. toLogin[a] \in Seq(Account)
      BY <1>0 DEF TypeOK
    <3>2. Append(toLogin[a], x) = toLogin[a] \o <<x>>
      BY <3>1
    <3> QED BY <1>2, <3>2, SMTT(30) DEF Tells
  <2>2. HoldsLess
    BY <1>2, <1>6, RunsHoldLess, SMTT(30)
  <2>3. \A y \in Account \ mixed : (\E i \in DOMAIN <<x>> : <<x>>[i] = y) =>
            \E s \in DOMAIN sess : entered[y] = s /\ sess[s].agent = a /\ Held(s) /\ ~ Held(s)'
    BY <1>1, <1>8, <1>9, <2>1
  <2>4. UNCHANGED Login /\ life[a] # "down" /\ \A i, j \in DOMAIN <<x>> : <<x>>[i] = <<x>>[j] => i = j
    BY <1>2, <1>8, <2>1
  <2>5. PICK s \in Seq(Account) : s = <<x>>
    BY <2>1, Zenon
  <2> QED BY <1>6, <2>1, <2>2, <2>3, <2>4, <2>5, TellMore, Zenon
<1>11. SaveInv'
  <2> SUFFICES ASSUME NEW y \in Account, y \notin torn \cup mixed
               PROVE  Saved(y)'
    BY <1>2 DEF SaveInv, Login
  <2>1. Saved(y) /\ entered'[y] = entered[y] /\ UNCHANGED <<db, dbq, last>>
    BY <1>0, <1>2 DEF SaveInv, Login
  <2>2. CASE y # x
    <3>1. \A u \in DOMAIN sess : sess[u].acct = y => sess'[u] = sess[u]
      BY <1>1, <1>7, <2>2, SMTT(30)
    <3> QED BY <1>0, <1>6, <2>1, <3>1, SavedFrame
  <2>3. CASE y = x
    <3>1. entered[x] = t /\ t # 0
      BY <1>0, <1>8, <2>3, SessIs, SMTT(30)
    <3>2. \A b \in Agent : \A i \in DOMAIN dbq[b] : dbq[b][i].of \in DOMAIN sess
      BY <1>0, Zenon DEF TypeOK
    <3>3. \A b \in Agent : \A i \in DOMAIN dbq[b] : sess[dbq[b][i].of].acct # x
      BY <1>2, <2>1, <2>3, <3>1, <3>2, Zenon DEF Saved, OwnQueries
    <3>4. OwnQueries(x)'
      BY <1>6, <2>1, <3>2, <3>3 DEF OwnQueries, SameSessions
    <3>5. \A i \in DOMAIN dbq[a] : dbq[a][i].of # t
      BY <1>1, <3>3, Zenon
    <3>6. db[x] = last[x]
      BY <1>1, <1>5, <2>1, <2>3, <3>1, <3>5 DEF Saved, Latest, IsUpdate
    <3>7. sess'[t].agent = a /\ sess'[t].acct = x /\ sess'[t].pc = "left" /\ dbq' = dbq /\ db'[x] = last'[x]
      BY <1>4, <1>7, <2>1, <3>6, Zenon
    <3>8. Latest(t)' /\ Asking(t)'
      BY <3>5, <3>7, Zenon DEF Latest, Asking, IsUpdate, IsQuestion
    <3> QED BY <2>1, <2>3, <3>1, <3>4, <3>7, <3>8, ZenonT(40) DEF Saved, Away
  <2> QED BY <2>2, <2>3
<1>12. /\ user' \in [Agent -> [Account -> 0 .. Len(sess)]] /\ db' \in [Account -> Nat] /\ dbq' \in [Agent -> Seq(Query)]
       /\ last' \in [Account -> Nat] /\ \A b \in Agent : \A i \in DOMAIN dbq'[b] : dbq'[b][i].of \in DOMAIN sess
  <2>1. 0 \in 0 .. Len(sess) /\ user \in [Agent -> [Account -> 0 .. Len(sess)]]
    BY <1>0, SessIs DEF TypeOK
  <2>2. user' \in [Agent -> [Account -> 0 .. Len(sess)]]
    BY <1>2, <2>1
  <2> QED BY <1>0, <1>2, <2>2, Zenon DEF TypeOK
<1> QED BY <1>2, <1>6, <1>10, <1>11, <1>12, RunsInv, Zenon

\* c is q without its first element.
Dropped(q, c) ==
  /\ \A i \in DOMAIN c : i \in Nat /\ i > 0 /\ i + 1 \in DOMAIN q /\ c[i] = q[i + 1]
  /\ \A i \in DOMAIN q : i \in Nat /\ i > 0 /\ (i # 1 => i - 1 \in DOMAIN c /\ c[i - 1] = q[i])
  /\ 1 \in DOMAIN q

\* The first operation on its way from agent a arrives.
Drops(a) == Dropped(dbq[a], dbq'[a]) /\ \A b \in Agent : b # a => dbq'[b] = dbq[b]

\* The database takes the first query.
LEMMA QueriesDropped ==
  ASSUME AccountInv, NEW a \in Agent, dbq[a] # <<>>, dbq' = [dbq EXCEPT ![a] = Tail(@)]
  PROVE  /\ dbq' \in [Agent -> Seq(Query)]
         /\ Drops(a)
         /\ Head(dbq[a]) = dbq[a][1] /\ Head(dbq[a]) \in Query
<1>t. TypeOK
  BY DEF AccountInv
<1>1. PICK q : q = dbq[a] /\ q \in Seq(Query) /\ q # <<>>
  BY <1>t DEF TypeOK
<1>2. PICK c : c = Tail(q)
  BY Zenon
<1>3. c \in Seq(Query) /\ Head(q) = q[1] /\ Head(q) \in Query
  BY <1>1, <1>2, TailIs
<1>4. /\ Len(q) \in Nat \ {0} /\ 1 \in DOMAIN q /\ DOMAIN c = 1 .. Len(q) - 1 /\ DOMAIN q = 1 .. Len(q)
      /\ \A i \in DOMAIN c : i + 1 \in DOMAIN q /\ c[i] = q[i + 1]
      /\ \A i \in DOMAIN q : i # 1 => i - 1 \in DOMAIN c /\ c[i - 1] = q[i]
  BY <1>1, <1>2, TailIs, Zenon
<1>5. Dropped(q, c)
  BY <1>4 DEF Dropped
<1>6. dbq' = [dbq EXCEPT ![a] = c] /\ dbq \in [Agent -> Seq(Query)]
  BY <1>t, <1>1, <1>2 DEF TypeOK
<1>7. dbq' \in [Agent -> Seq(Query)] /\ dbq'[a] = c /\ \A b \in Agent : b # a => dbq'[b] = dbq[b]
  BY <1>3, <1>6
<1> QED BY <1>1, <1>3, <1>5, <1>7, Zenon DEF Drops

\* After the first operation the database is as Latest says.
LEMMA LatestDropped ==
  ASSUME NEW t, NEW a, NEW x, sess[t].agent = a, sess'[t].agent = a, sess[t].acct = x, sess'[t].acct = x,
         last'[x] = last[x], Latest(t), Dropped(dbq[a], dbq'[a]),
         IsUpdate(dbq[a][1], t) => db'[x] = dbq[a][1].val,
         ~ IsUpdate(dbq[a][1], t) => db'[x] = db[x]
  PROVE  Latest(t)'
<1>1. PICK q, c : q = dbq[a] /\ c = dbq'[a]
  OBVIOUS
<1>2. Dropped(q, c)
  BY <1>1, Zenon
<1>3. /\ (\A i \in DOMAIN q : ~ IsUpdate(q[i], t)) => db[x] = last[x]
      /\ \A i \in DOMAIN q : IsUpdate(q[i], t) /\ (\A j \in DOMAIN q : IsUpdate(q[j], t) => j <= i) => q[i].val = last[x]
  BY <1>1, Zenon DEF Latest
<1>4. (\A i \in DOMAIN c : ~ IsUpdate(c[i], t)) => db'[x] = last[x]
  <2> SUFFICES ASSUME \A i \in DOMAIN c : ~ IsUpdate(c[i], t)
               PROVE  db'[x] = last[x]
    OBVIOUS
  <2>1. \A i \in DOMAIN q : IsUpdate(q[i], t) => i = 1
    BY <1>2, Zenon DEF Dropped
  <2>2. CASE IsUpdate(q[1], t)
    <3>1. 1 \in DOMAIN q /\ \A j \in DOMAIN q : IsUpdate(q[j], t) => j <= 1
      BY <1>2, <2>1 DEF Dropped
    <3> QED BY <1>1, <1>3, <2>2, <3>1, Zenon
  <2>3. CASE ~ IsUpdate(q[1], t)
    BY <1>1, <1>3, <2>1, <2>3, Zenon
  <2> QED BY <2>2, <2>3
<1>5. \A i \in DOMAIN c : IsUpdate(c[i], t) /\ (\A j \in DOMAIN c : IsUpdate(c[j], t) => j <= i) => c[i].val = last[x]
  <2> SUFFICES ASSUME NEW i \in DOMAIN c, IsUpdate(c[i], t), \A j \in DOMAIN c : IsUpdate(c[j], t) => j <= i
               PROVE  c[i].val = last[x]
    OBVIOUS
  <2>1. i \in Nat /\ i > 0 /\ i + 1 \in DOMAIN q /\ c[i] = q[i + 1]
    BY <1>2, Zenon DEF Dropped
  <2>2. ASSUME NEW j \in DOMAIN q, IsUpdate(q[j], t)
        PROVE  j <= i + 1
    <3>1. j \in Nat /\ (j # 1 => j - 1 \in DOMAIN c /\ c[j - 1] = q[j])
      BY <1>2, Zenon DEF Dropped
    <3>2. j # 1 => j - 1 <= i
      BY <2>2, <3>1, Zenon
    <3> QED BY <2>1, <3>1, <3>2
  <2> QED BY <1>3, <2>1, <2>2, Zenon
<1> HIDE DEF IsUpdate
<1> QED BY <1>1, <1>4, <1>5 DEF Latest

\* A session goes on asking when another query is taken.
LEMMA AskingDropped ==
  ASSUME NEW t, NEW a, sess[t].agent = a, sess'[t].agent = a, sess'[t].pc = sess[t].pc, Asking(t), Dropped(dbq[a], dbq'[a])
  PROVE  Asking(t)'
<1>1. PICK q, c : q = dbq[a] /\ c = dbq'[a]
  BY Zenon
<1>2. \A i \in DOMAIN c : i \in Nat /\ i + 1 \in DOMAIN q /\ c[i] = q[i + 1]
  BY <1>1, Zenon DEF Dropped
<1>3. /\ \A i \in DOMAIN q : IsQuestion(q[i], t) => sess[t].pc \in {"load", "fighter", "saving"}
      /\ \A i, j \in DOMAIN q : IsQuestion(q[i], t) /\ IsQuestion(q[j], t) => i = j
      /\ sess[t].pc = "load" => \A i \in DOMAIN q : ~ IsUpdate(q[i], t)
      /\ sess[t].pc = "saving" => \A i, j \in DOMAIN q : IsUpdate(q[i], t) /\ IsQuestion(q[j], t) => i < j
  BY <1>1 DEF Asking
<1>4. \A i, j \in DOMAIN c : (i + 1 = j + 1 => i = j) /\ (i + 1 < j + 1 => i < j)
  BY <1>2
<1> HIDE DEF IsUpdate, IsQuestion
<1>5. \A i, j \in DOMAIN c : IsQuestion(c[i], t) /\ IsQuestion(c[j], t) => i = j
  BY <1>2, <1>3, <1>4, Zenon
<1>6. sess[t].pc = "saving" => \A i, j \in DOMAIN c : IsUpdate(c[i], t) /\ IsQuestion(c[j], t) => i < j
  BY <1>2, <1>3, <1>4, Zenon
<1>7. /\ \A i \in DOMAIN c : IsQuestion(c[i], t) => sess[t].pc \in {"load", "fighter", "saving"}
      /\ sess[t].pc = "load" => \A i \in DOMAIN c : ~ IsUpdate(c[i], t)
  BY <1>2, <1>3, Zenon
<1> QED BY <1>1, <1>5, <1>6, <1>7, Zenon DEF Asking

\* The operation of another account does not matter.
LEMMA SavedDropped ==
  ASSUME AccountInv, NEW x \in Account, Saved(x), db'[x] = db[x], last'[x] = last[x], entered'[x] = entered[x], SameSessions,
         \A t \in DOMAIN sess : sess[t].acct = x => sess'[t] = sess[t],
         NEW a \in Agent, Drops(a), sess[dbq[a][1].of].acct # x
  PROVE  Saved(x)'
<1>t. TypeOK
  BY Zenon DEF AccountInv
<1>0. \A b \in Agent : \A i \in DOMAIN dbq[b] : dbq[b][i].of \in DOMAIN sess
  BY <1>t DEF TypeOK
<1>1. Dropped(dbq[a], dbq'[a]) /\ \A b \in Agent : b # a => dbq'[b] = dbq[b]
  BY DEF Drops
<1>2. \A b \in Agent : \A i \in DOMAIN dbq'[b] : \E k \in DOMAIN dbq[b] : dbq'[b][i] = dbq[b][k]
  BY <1>1 DEF Dropped
<1>3. OwnQueries(x)'
  <2> SUFFICES ASSUME NEW b \in Agent, NEW i \in DOMAIN dbq'[b], sess'[dbq'[b][i].of].acct = x
               PROVE  LET u == dbq'[b][i].of
                      IN u = entered'[x] /\ sess'[u].agent = b /\ sess'[u].pc \notin Away \cup {"acked"}
    BY Zenon DEF OwnQueries
  <2>1. PICK k \in DOMAIN dbq[b] : dbq'[b][i] = dbq[b][k]
    BY <1>2, Zenon
  <2>2. PICK u \in DOMAIN sess : u = dbq[b][k].of
    BY <1>0, Zenon
  <2>3. sess[u].acct = x /\ sess'[u] = sess[u]
    BY <2>1, <2>2, Zenon DEF SameSessions
  <2>4. u = entered[x] /\ sess[u].agent = b /\ sess[u].pc \notin Away \cup {"acked"}
    BY <2>2, <2>3, Zenon DEF Saved, OwnQueries
  <2> QED BY <2>1, <2>2, <2>3, <2>4, Zenon
<1>4. ASSUME NEW t, t = entered[x], t # 0
      PROVE  sess'[t] = sess[t] /\ sess[t].acct = x /\ (Latest(t) => Latest(t)') /\ (Asking(t) => Asking(t)')
  <2>1. t \in DOMAIN sess
    BY <1>4, SessIs, Zenon
  <2>2. sess[t].acct = x /\ sess'[t] = sess[t] /\ sess[t].agent \in Agent
    BY <1>4, <2>1, SessIs DEF Saved
  <2>3. CASE sess[t].agent # a
    <3>1. dbq'[sess[t].agent] = dbq[sess[t].agent]
      BY <1>1, <2>2, <2>3, Zenon
    <3> QED BY <2>2, <3>1, Zenon DEF Latest, Asking
  <2>4. CASE sess[t].agent = a
    <3>1. ~ IsUpdate(dbq[a][1], t)
      BY <2>2, Zenon DEF IsUpdate
    <3>2. Latest(t) => Latest(t)'
      BY <1>1, <2>2, <2>4, <3>1, LatestDropped, Zenon
    <3>3. Asking(t) => Asking(t)'
      BY <1>1, <2>2, <2>4, AskingDropped, Zenon
    <3> QED BY <2>2, <3>2, <3>3, Zenon
  <2> QED BY <2>3, <2>4, Zenon
<1> QED BY <1>3, <1>4, Zenon DEF Saved

\* Session t has its answer: it waits for nothing more.
LEMMA AnsweredIs ==
  ASSUME AccountInv, NEW t \in DOMAIN sess, NEW r, r = Answered(sess[t])
  PROVE  /\ r \in SessRec /\ r.acct = sess[t].acct /\ r.agent = sess[t].agent /\ r.token = sess[t].token /\ r.dirty = sess[t].dirty
         /\ sess[t].pc = "load" => r.pc = "loaded" /\ r.val = db[sess[t].acct]
         /\ sess[t].pc = "fighter" => r.pc = "fought" /\ r.val = sess[t].val
         /\ sess[t].pc = "saving" => r.pc = "acked" /\ r.val = sess[t].val
         /\ sess[t].pc \notin {"load", "fighter", "saving"} => r = sess[t]
<1>t. TypeOK /\ HoldInv
  BY DEF AccountInv
<1>1. sess[t] \in SessRec /\ db[sess[t].acct] \in Nat
  BY <1>t, SessIs DEF TypeOK
<1>2. CASE sess[t].pc = "load"
  <2>1. r = [sess[t] EXCEPT !.pc = "loaded", !.val = db[sess[t].acct]]
    BY <1>2 DEF Answered
  <2> QED BY <1>1, <1>2, <2>1, Zenon DEF SessRec
<1>3. CASE sess[t].pc = "fighter"
  <2>1. r = [sess[t] EXCEPT !.pc = "fought"]
    BY <1>3 DEF Answered
  <2> QED BY <1>1, <1>3, <2>1 DEF SessRec
<1>4. CASE sess[t].pc = "saving"
  <2>1. r = [sess[t] EXCEPT !.pc = "acked"]
    BY <1>4 DEF Answered
  <2> QED BY <1>1, <1>4, <2>1 DEF SessRec
<1>5. CASE sess[t].pc \notin {"load", "fighter", "saving"}
  <2>1. r = sess[t]
    BY <1>5, Zenon DEF Answered
  <2> QED BY <1>1, <1>5, <2>1
<1> QED BY <1>2, <1>3, <1>4, <1>5

\* An update of x arrives.
LEMMA SavedUpdate ==
  ASSUME AccountInv, NEW x \in Account, Saved(x), UNCHANGED <<sess, last>>, entered'[x] = entered[x],
         NEW a \in Agent, Drops(a),
         dbq[a][1].kind = "update", sess[dbq[a][1].of].acct = x, db'[x] = dbq[a][1].val
  PROVE  Saved(x)'
<1>t. TypeOK
  BY Zenon DEF AccountInv
<1>0. \A b \in Agent : \A i \in DOMAIN dbq[b] : dbq[b][i].of \in DOMAIN sess
  BY <1>t, Zenon DEF TypeOK
<1>1. Dropped(dbq[a], dbq'[a]) /\ \A b \in Agent : b # a => dbq'[b] = dbq[b]
  BY Zenon DEF Drops
<1>2. \A b \in Agent : \A i \in DOMAIN dbq'[b] : \E k \in DOMAIN dbq[b] : dbq'[b][i] = dbq[b][k]
  BY <1>1 DEF Dropped
<1>3. OwnQueries(x)'
  BY <1>2 DEF OwnQueries, Saved
<1>4. PICK t \in DOMAIN sess : t = dbq[a][1].of
  BY <1>0, <1>1, Zenon DEF Dropped
<1>5. t = entered[x] /\ sess[t].agent = a /\ t # 0 /\ sess[t].acct = x
  BY <1>1, <1>4, SessIs DEF Saved, OwnQueries, Dropped
<1>6. Asking(t) /\ (sess[t].dirty \/ Latest(t)) /\ (sess[t].pc \notin Away \cup {"load"} => sess[t].val = last[x])
  BY <1>5, Zenon DEF Saved
<1>7. Asking(t)'
  BY <1>1, <1>5, <1>6, AskingDropped
<1>8. Latest(t) => Latest(t)'
  BY <1>1, <1>4, <1>5, LatestDropped, Zenon DEF IsUpdate
<1> QED BY <1>3, <1>5, <1>6, <1>7, <1>8, Zenon DEF Saved

\* The first operation of agent a is a question of session t, and is answered.
AnswerTo(a, t) ==
  /\ UNCHANGED <<db, last>> /\ Drops(a) /\ dbq[a][1].kind # "update" /\ t = dbq[a][1].of
  /\ SameSessions /\ sess'[t] = Answered(sess[t]) /\ \A u \in DOMAIN sess : u # t => sess'[u] = sess[u]

\* It is the session of its account, and waits for nothing more.
LEMMA AnswerIsLast ==
  ASSUME AccountInv, NEW x \in Account, Saved(x), NEW a \in Agent, NEW t \in DOMAIN sess, AnswerTo(a, t), sess[t].acct = x
  PROVE  /\ t = entered[x] /\ t # 0 /\ sess[t].agent = a /\ sess[t].pc \in {"load", "fighter", "saving"}
         /\ \A i \in DOMAIN dbq'[a] : ~ IsQuestion(dbq'[a][i], t)
         /\ sess[t].pc = "saving" => \A i \in DOMAIN dbq'[a] : dbq'[a][i].of # t
<1>1. PICK q, c : q = dbq[a] /\ c = dbq'[a] /\ Dropped(q, c) /\ q[1].kind # "update" /\ q[1].of = t
  BY Zenon DEF AnswerTo, Drops
<1>2. 1 \in DOMAIN q /\ \A i \in DOMAIN c : i \in Nat /\ i > 0 /\ i + 1 \in DOMAIN q /\ c[i] = q[i + 1]
  BY <1>1, Zenon DEF Dropped
<1>3. IsQuestion(q[1], t)
  BY <1>1 DEF IsQuestion
<1>4. t # 0
  BY SessIs
<1>5. t = entered[x] /\ sess[t].agent = a
  BY <1>1, <1>2, <1>4, Zenon DEF Saved, OwnQueries
<1>6. Asking(t)
  BY <1>4, <1>5, Zenon DEF Saved
<1>7. /\ sess[t].pc \in {"load", "fighter", "saving"}
      /\ \A i \in DOMAIN q : IsQuestion(q[i], t) => i = 1
      /\ sess[t].pc = "saving" => \A i \in DOMAIN q : IsUpdate(q[i], t) => i < 1
  <2> HIDE DEF IsQuestion, IsUpdate
  <2> QED BY <1>1, <1>2, <1>3, <1>5, <1>6, Zenon DEF Asking
<1>8. \A i \in DOMAIN c : ~ IsQuestion(c[i], t)
  <2> SUFFICES ASSUME NEW i \in DOMAIN c, IsQuestion(c[i], t) PROVE FALSE
    BY Zenon
  <2>1. i + 1 = 1
    BY <1>2, <1>7, Zenon
  <2> QED BY <1>2, <2>1
<1>9. ASSUME sess[t].pc = "saving", NEW i \in DOMAIN c, c[i].of = t
      PROVE  FALSE
  <2>1. IsUpdate(c[i], t)
    BY <1>8, <1>9 DEF IsQuestion, IsUpdate
  <2>2. i + 1 < 1
    BY <1>2, <1>7, <1>9, <2>1, Zenon
  <2> QED BY <1>2, <2>2
<1> QED BY <1>1, <1>4, <1>5, <1>7, <1>8, <1>9, Zenon

\* A session that is loaded has the newest version, the others keep theirs.
LEMMA AnswerIsCurrent ==
  ASSUME AccountInv, NEW x \in Account, Saved(x), NEW a \in Agent, NEW t \in DOMAIN sess, AnswerTo(a, t), sess[t].acct = x
  PROVE  /\ sess'[t].acct = x /\ sess'[t].agent = a /\ sess'[t].dirty = sess[t].dirty /\ sess'[t].val = last[x]
         /\ sess'[t].pc \in {"loaded", "fought", "acked"} /\ (sess'[t].pc = "acked" => sess[t].pc = "saving")
<1>1. t = entered[x] /\ t # 0 /\ sess[t].agent = a /\ sess[t].pc \in {"load", "fighter", "saving"}
  BY AnswerIsLast
<1>2. PICK r : r = Answered(sess[t]) /\ sess'[t] = r
  BY Zenon DEF AnswerTo
<1>3. /\ r.acct = x /\ r.agent = a /\ r.dirty = sess[t].dirty
      /\ sess[t].pc = "load" => r.pc = "loaded" /\ r.val = db[x]
      /\ sess[t].pc = "fighter" => r.pc = "fought" /\ r.val = sess[t].val
      /\ sess[t].pc = "saving" => r.pc = "acked" /\ r.val = sess[t].val
  BY <1>1, <1>2, AnsweredIs
<1>4. CASE sess[t].pc = "load"
  <2>1. \A i \in DOMAIN dbq[a] : ~ IsUpdate(dbq[a][i], t)
    BY <1>1, <1>4, Zenon DEF Saved, Asking
  <2>2. HoldInv
    BY Zenon DEF AccountInv
  <2>3. ~ sess[t].dirty
    BY <1>4, <2>2, Zenon DEF HoldInv
  <2>4. Latest(t)
    BY <1>1, <2>3, Zenon DEF Saved
  <2>5. db[x] = last[x]
    BY <1>1, <2>1, <2>4, Zenon DEF Latest
  <2> QED BY <1>2, <1>3, <1>4, <2>5, Zenon
<1>5. CASE sess[t].pc # "load"
  <2>1. sess[t].val = last[x]
    BY <1>1, <1>5, Zenon DEF Saved, Away
  <2> QED BY <1>1, <1>2, <1>3, <1>5, <2>1, Zenon
<1> QED BY <1>4, <1>5

\* An answer of the database keeps the data of its account saved.
LEMMA SavedAnswer ==
  ASSUME AccountInv, NEW x \in Account, Saved(x), entered'[x] = entered[x],
         NEW a \in Agent, NEW t \in DOMAIN sess, AnswerTo(a, t), sess[t].acct = x
  PROVE  Saved(x)'
<1>1. /\ t = entered[x] /\ t # 0 /\ sess[t].agent = a
      /\ \A i \in DOMAIN dbq'[a] : ~ IsQuestion(dbq'[a][i], t)
      /\ sess[t].pc = "saving" => \A i \in DOMAIN dbq'[a] : dbq'[a][i].of # t
  BY AnswerIsLast
<1>2. /\ sess'[t].acct = x /\ sess'[t].agent = a /\ sess'[t].dirty = sess[t].dirty /\ sess'[t].val = last[x]
      /\ sess'[t].pc \in {"loaded", "fought", "acked"} /\ (sess'[t].pc = "acked" => sess[t].pc = "saving")
  BY AnswerIsCurrent
<1>3. UNCHANGED <<db, last>> /\ Dropped(dbq[a], dbq'[a]) /\ ~ IsUpdate(dbq[a][1], t)
  BY DEF AnswerTo, Drops, IsUpdate
<1>4. OwnQueries(x)'
  <2> SUFFICES ASSUME NEW b \in Agent, NEW i \in DOMAIN dbq'[b], sess'[dbq'[b][i].of].acct = x
               PROVE  LET u == dbq'[b][i].of
                      IN u = entered'[x] /\ sess'[u].agent = b /\ sess'[u].pc \notin Away \cup {"acked"}
    BY Zenon DEF OwnQueries
  <2>1. PICK k \in DOMAIN dbq[b] : dbq'[b][i] = dbq[b][k]
    BY DEF AnswerTo, Drops, Dropped
  <2>2. PICK u \in DOMAIN sess : u = dbq[b][k].of
    <3>1. TypeOK
      BY Zenon DEF AccountInv
    <3> QED BY <3>1, Zenon DEF TypeOK
  <2>3. sess[u].acct = x
    BY <2>1, <2>2, Zenon DEF AnswerTo, SameSessions
  <2>4. u = entered[x] /\ sess[u].agent = b
    BY <2>2, <2>3 DEF Saved, OwnQueries
  <2>5. u = t /\ b = a /\ dbq'[a][i].of = t /\ i \in DOMAIN dbq'[a]
    BY <1>1, <2>1, <2>2, <2>4, Zenon
  <2>6. sess'[t].pc \notin Away \cup {"acked"}
    BY <1>1, <1>2, <2>5, Zenon DEF Away
  <2> QED BY <1>2, <2>1, <2>2, <2>4, <2>5, <2>6, Zenon
<1>5. Latest(t) => Latest(t)'
  BY <1>1, <1>2, <1>3, LatestDropped, Zenon
<1>6. Asking(t)'
  <2> HIDE DEF IsQuestion, IsUpdate
  <2> QED BY <1>1, <1>2, Zenon DEF Asking
<1>7. sess[t].dirty \/ Latest(t)
  BY <1>1 DEF Saved
<1> QED BY <1>1, <1>2, <1>3, <1>4, <1>5, <1>6, <1>7, Zenon DEF Saved

\* DbStep keeps AccountInv.
LEMMA DbStepInv ==
  ASSUME AccountInv, NEW a \in Agent, DbStep(a)
  PROVE  AccountInv'
<1>0. TypeOK /\ HoldInv /\ SaveInv
  BY DEF AccountInv
<1>1. /\ UNCHANGED <<Login, torn, toAgent, toLogin, last, user>> /\ dbq[a] # <<>> /\ dbq' = [dbq EXCEPT ![a] = Tail(@)]
  BY Zenon DEF DbStep, login, agent, history, Login
<1>2. PICK op : op = Head(dbq[a]) /\ op = dbq[a][1] /\ op \in Query /\ 1 \in DOMAIN dbq[a]
  BY <1>0, <1>1, QueriesDropped, Zenon DEF Dropped, Drops
<1>3. /\ dbq' \in [Agent -> Seq(Query)] /\ Drops(a)
  BY <1>0, <1>1, QueriesDropped, Zenon
<1>4. PICK t \in DOMAIN sess : t = op.of
  BY <1>0, <1>2, Zenon DEF TypeOK
<1>5. \A b \in Agent : \A i \in DOMAIN dbq'[b] : dbq'[b][i].of \in DOMAIN sess
  <2>1. \A b \in Agent : \A i \in DOMAIN dbq[b] : dbq[b][i].of \in DOMAIN sess
    BY <1>0, Zenon DEF TypeOK
  <2>2. \A b \in Agent : \A i \in DOMAIN dbq'[b] : \E k \in DOMAIN dbq[b] : dbq'[b][i] = dbq[b][k]
    BY <1>3 DEF Dropped, Drops
  <2> QED BY <2>1, <2>2
<1>6. \A s \in DOMAIN sess : (sess[s].token => sess[s].pc = "none") /\ (sess[s].dirty => sess[s].pc \in {"fighter", "fought", "on"})
  BY <1>0, Zenon DEF HoldInv
<1>7. ASSUME sess' = sess PROVE Runs
  BY <1>0, <1>6, <1>7, Zenon DEF Runs, SameSessions, TypeOK
<1>8. PICK x \in Account : x = sess[t].acct
  BY <1>0, SessIs, Zenon
<1>9. UNCHANGED toLogin /\ user' \in [Agent -> [Account -> 0 .. Len(sess)]] /\ toLogin' \in [Agent -> Seq(Account)] /\ last' \in [Account -> Nat]
  BY <1>0, <1>1, Zenon DEF TypeOK
<1>10. CASE op.kind = "update"
  <2>1. sess' = sess /\ db' = [db EXCEPT ![x] = op.val]
    BY <1>2, <1>4, <1>8, <1>10, Zenon DEF DbStep
  <2>2. Runs /\ SameSessions
    BY <1>7, <2>1, Zenon DEF Runs
  <2>3. TellInv'
    BY <1>1, <2>2, RunsHoldLess, TellKept, Zenon
  <2>4. db' \in [Account -> Nat] /\ db'[x] = op.val /\ \A y \in Account : y # x => db'[y] = db[y]
    BY <1>0, <1>2, <2>1, Zenon DEF TypeOK, Query
  <2>5. SaveInv'
    <3> SUFFICES ASSUME NEW y \in Account, y \notin torn \cup mixed
                 PROVE  Saved(y)'
      BY <1>1 DEF SaveInv, Login
    <3>1. Saved(y) /\ entered'[y] = entered[y] /\ last' = last
      BY <1>0, <1>1 DEF SaveInv, Login
    <3>2. CASE y # x
      BY <1>0, <1>2, <1>3, <1>4, <1>8, <2>1, <2>2, <2>4, <3>1, <3>2, SavedDropped, Zenon
    <3>3. CASE y = x
      BY <1>0, <1>2, <1>3, <1>4, <1>8, <1>10, <2>1, <2>4, <3>1, <3>3, SavedUpdate, ZenonT(40)
    <3> QED BY <3>2, <3>3
  <2> QED BY <1>1, <1>3, <1>5, <1>9, <2>2, <2>3, <2>4, <2>5, RunsInv, Zenon
<1>11. CASE op.kind # "update"
  <2>1. PICK r : r = Answered(sess[t]) /\ sess' = [sess EXCEPT ![t] = r] /\ db' = db
    BY <1>2, <1>4, <1>11 DEF DbStep
  <2>2. /\ r \in SessRec /\ r.acct = sess[t].acct /\ r.agent = sess[t].agent /\ r.token = sess[t].token /\ r.dirty = sess[t].dirty
        /\ sess[t].pc = "load" => r.pc = "loaded"
        /\ sess[t].pc = "fighter" => r.pc = "fought"
        /\ sess[t].pc = "saving" => r.pc = "acked"
        /\ sess[t].pc \notin {"load", "fighter", "saving"} => r = sess[t]
    BY <1>0, <2>1, AnsweredIs
  <2>3. sess'[t] = r /\ SameSessions /\ \A u \in DOMAIN sess : u # t => sess'[u] = sess[u]
    BY <1>0, <2>1, <2>2, SessSet, Zenon
  <2>4. Runs
    <3>1. CASE sess[t].pc \in {"load", "fighter", "saving"}
      <4>1. sess[t].pc \notin Away /\ ~ r.token /\ (r.dirty => r.pc \in {"fighter", "fought", "on"})
        BY <1>6, <2>2, <3>1 DEF Away
      <4> QED BY <2>1, <2>2, <4>1, RunsSet, Zenon
    <3>2. CASE sess[t].pc \notin {"load", "fighter", "saving"}
      <4>1. r = sess[t] /\ sess \in Seq(SessRec)
        BY <1>0, <2>2, <3>2 DEF TypeOK
      <4>2. sess' = sess
        BY <2>1, <4>1
      <4> QED BY <1>7, <4>2, Zenon
    <3> QED BY <3>1, <3>2
  <2>5. TellInv'
    BY <1>1, <2>3, <2>4, RunsHoldLess, TellKept
  <2>6. SaveInv'
    <3> SUFFICES ASSUME NEW y \in Account, y \notin torn \cup mixed
                 PROVE  Saved(y)'
      BY <1>1 DEF SaveInv, Login
    <3>1. Saved(y) /\ entered'[y] = entered[y] /\ last' = last /\ db' = db
      BY <1>0, <1>1, <2>1 DEF SaveInv, Login
    <3>2. CASE y # x
      <4>1. \A u \in DOMAIN sess : sess[u].acct = y => sess'[u] = sess[u]
        BY <1>8, <2>3, <3>2
      <4> QED BY <1>0, <1>2, <1>3, <1>4, <1>8, <2>3, <3>1, <3>2, <4>1, SavedDropped, Zenon
    <3>3. CASE y = x
      <4>1. AnswerTo(a, t)
        BY <1>2, <1>3, <1>4, <1>11, <2>1, <2>3, <3>1 DEF AnswerTo
      <4>2. sess[t].acct = y
        BY <1>8, <3>3, Zenon
      <4> QED BY <3>1, <4>1, <4>2, SavedAnswer, Zenon
    <3> QED BY <3>2, <3>3
  <2>7. db' \in [Account -> Nat]
    BY <1>0, <2>1, Zenon DEF TypeOK
  <2> QED BY <1>1, <1>3, <1>5, <1>9, <2>4, <2>5, <2>6, <2>7, RunsInv, Zenon
<1> QED BY <1>10, <1>11, Zenon

\* What the crash of agent a leaves: its sessions are over, what was sent to it
\* is gone, and of what it sent a prefix arrives.
AgentLost(a) ==
  /\ UNCHANGED <<conn, ctx, luser, queue, entered, db, last, mixed, unentered>> /\ torn' = torn \cup EnteredAt(a)
  /\ DOMAIN sess' = DOMAIN sess
  /\ \A t \in DOMAIN sess : sess[t].agent # a => sess'[t] = sess[t]
  /\ \A t \in DOMAIN sess : sess[t].agent = a => /\ sess'[t].acct = sess[t].acct /\ sess'[t].agent = a
                                                 /\ ~ sess'[t].token /\ sess'[t].pc = "left" /\ ~ sess'[t].dirty
  /\ life'[a] = "dead" /\ \A b \in Agent : b # a => life'[b] = life[b]
  /\ toAgent'[a] = <<>> /\ \A b \in Agent : b # a => toAgent'[b] = toAgent[b]
  /\ \A b \in Agent : b # a => toLogin'[b] = toLogin[b]
  /\ \A i \in DOMAIN toLogin'[a] : i \in DOMAIN toLogin[a] /\ toLogin'[a][i] = toLogin[a][i]
  /\ \A b \in Agent : b # a => dbq'[b] = dbq[b]
  /\ \A i \in DOMAIN dbq'[a] : i \in DOMAIN dbq[a] /\ dbq'[a][i] = dbq[a][i]

\* What a crash of an agent does.
LEMMA CrashIs ==
  ASSUME AccountInv, NEW a \in Agent, Crash(a)
  PROVE  AgentLost(a) /\ TypeOK'
<1>0. TypeOK
  BY DEF AccountInv
<1>1. /\ UNCHANGED <<conn, ctx, luser, queue, entered, db, last, mixed, unentered>>
      /\ life' = [life EXCEPT ![a] = "dead"] /\ toAgent' = [toAgent EXCEPT ![a] = <<>>]
      /\ user' = [user EXCEPT ![a] = [x \in Account |-> 0]] /\ torn' = torn \cup EnteredAt(a)
      /\ DOMAIN sess' = DOMAIN sess
  BY DEF Crash, login
<1>2. PICK n \in 0 .. Len(toLogin[a]) : toLogin' = [toLogin EXCEPT ![a] = SubSeq(@, 1, n)]
  BY Zenon DEF Crash
<1>3. PICK m \in 0 .. Len(dbq[a]) : dbq' = [dbq EXCEPT ![a] = SubSeq(@, 1, m)]
  BY Zenon DEF Crash
<1>4. /\ \A t \in DOMAIN sess : sess[t].agent # a => sess'[t] = sess[t]
      /\ \A t \in DOMAIN sess : sess[t].agent = a => sess'[t] = [NewSess(sess[t].acct, a, "closed") EXCEPT !.pc = "left"]
      /\ sess' = [t \in DOMAIN sess |-> sess'[t]]
  BY DEF Crash
<1>5. \A t \in DOMAIN sess : sess[t] \in SessRec /\ sess[t].acct \in Account
  BY SessIs
<1>6. \A t \in DOMAIN sess : sess[t].agent = a => /\ sess'[t] \in SessRec /\ sess'[t].acct = sess[t].acct /\ sess'[t].agent = a
                                                  /\ ~ sess'[t].token /\ sess'[t].pc = "left" /\ ~ sess'[t].dirty
  <2>1. ASSUME NEW x \in Account, NEW r, r = [NewSess(x, a, "closed") EXCEPT !.pc = "left"]
        PROVE  r \in SessRec /\ r.acct = x /\ r.agent = a /\ ~ r.token /\ r.pc = "left" /\ ~ r.dirty
    BY <2>1, Zenon DEF NewSess, SessRec, Away
  <2> QED BY <1>4, <1>5, <2>1
<1>8. sess' \in Seq(SessRec) /\ Len(sess') = Len(sess)
  <2>1. \A t \in DOMAIN sess : sess'[t] \in SessRec
    BY <1>4, <1>5, <1>6, Zenon
  <2>2. Len(sess) \in Nat /\ DOMAIN sess = 1 .. Len(sess)
    BY SessIs
  <2> QED BY <1>4, <2>1, <2>2
<1>9. /\ toLogin' \in [Agent -> Seq(Account)] /\ \A b \in Agent : b # a => toLogin'[b] = toLogin[b]
      /\ \A i \in DOMAIN toLogin'[a] : i \in DOMAIN toLogin[a] /\ toLogin'[a][i] = toLogin[a][i]
  <2>1. PICK q : q = toLogin[a] /\ q \in Seq(Account)
    BY <1>0 DEF TypeOK
  <2>2. PICK c : c = SubSeq(q, 1, n)
    BY Zenon
  <2>3. c \in Seq(Account) /\ \A i \in DOMAIN c : i \in DOMAIN q /\ c[i] = q[i]
    BY <2>1, <2>2, PrefixIs
  <2>4. toLogin' = [toLogin EXCEPT ![a] = c] /\ toLogin \in [Agent -> Seq(Account)]
    BY <1>0, <1>2, <2>1, <2>2, Zenon DEF TypeOK
  <2>5. toLogin' \in [Agent -> Seq(Account)] /\ toLogin'[a] = c /\ \A b \in Agent : b # a => toLogin'[b] = toLogin[b]
    BY <2>3, <2>4
  <2> QED BY <2>1, <2>3, <2>5, Zenon
<1>10. /\ dbq' \in [Agent -> Seq(Query)] /\ \A b \in Agent : b # a => dbq'[b] = dbq[b]
       /\ \A i \in DOMAIN dbq'[a] : i \in DOMAIN dbq[a] /\ dbq'[a][i] = dbq[a][i]
  <2>1. PICK q : q = dbq[a] /\ q \in Seq(Query)
    BY <1>0 DEF TypeOK
  <2>2. PICK c : c = SubSeq(q, 1, m)
    BY Zenon
  <2>3. c \in Seq(Query) /\ \A i \in DOMAIN c : i \in DOMAIN q /\ c[i] = q[i]
    BY <2>1, <2>2, PrefixIs
  <2>4. dbq' = [dbq EXCEPT ![a] = c] /\ dbq \in [Agent -> Seq(Query)]
    BY <1>0, <1>3, <2>1, <2>2, Zenon DEF TypeOK
  <2>5. dbq' \in [Agent -> Seq(Query)] /\ dbq'[a] = c /\ \A b \in Agent : b # a => dbq'[b] = dbq[b]
    BY <2>3, <2>4, Zenon
  <2> QED BY <2>1, <2>3, <2>5, Zenon
<1>11. /\ toAgent' \in [Agent -> Seq(Notice)] /\ toAgent'[a] = <<>> /\ \A b \in Agent : b # a => toAgent'[b] = toAgent[b]
  <2>1. toAgent \in [Agent -> Seq(Notice)] /\ <<>> \in Seq(Notice)
    BY <1>0 DEF TypeOK
  <2> QED BY <1>1, <2>1, Zenon
<1>12. /\ life' \in [Agent -> {"up", "dead", "down"}] /\ life'[a] = "dead" /\ \A b \in Agent : b # a => life'[b] = life[b]
  BY <1>0, <1>1 DEF TypeOK
<1>13. TypeOK'
  <2>1. user' \in [Agent -> [Account -> 0 .. Len(sess')]]
    <3>1. user \in [Agent -> [Account -> 0 .. Len(sess)]]
      BY <1>0, Zenon DEF TypeOK
    <3>2. 0 \in 0 .. Len(sess)
      BY SessIs
    <3>3. user' \in [Agent -> [Account -> 0 .. Len(sess)]]
      BY <1>1, <3>1, <3>2, Zenon
    <3> QED BY <1>8, <3>3, Zenon
  <2>2. \A b \in Agent : \A i \in DOMAIN dbq'[b] : dbq'[b][i].of \in DOMAIN sess'
    BY <1>0, <1>1, <1>10, Zenon DEF TypeOK
  <2>3. torn' \subseteq Account
    <3>1. EnteredAt(a) \subseteq Account
      BY DEF EnteredAt
    <3> QED BY <1>0, <1>1, <3>1, Zenon DEF TypeOK
  <2>4. /\ conn' \in [Conn -> {"new", "open", "grace", "gone"}] /\ ctx' \in [Conn -> Account \cup {"anon", None}]
        /\ luser' \in [Account -> Conn \cup {None}] /\ queue' \in [Account -> Seq(Conn)]
        /\ entered' \in [Account -> 0 .. Len(sess')] /\ db' \in [Account -> Nat] /\ last' \in [Account -> Nat]
        /\ mixed' \subseteq Account /\ unentered' \subseteq Account
    BY <1>0, <1>1, <1>8, Zenon DEF TypeOK
  <2> QED BY <1>8, <1>9, <1>10, <1>11, <1>12, <2>1, <2>2, <2>3, <2>4, Zenon DEF TypeOK
<1>14. AgentLost(a)
  BY <1>1, <1>4, <1>6, <1>9, <1>10, <1>11, <1>12, Zenon DEF AgentLost
<1> QED BY <1>13, <1>14

\* An agent that crashed holds nothing; the others hold what they held.
LEMMA CrashHolds ==
  ASSUME AccountInv, NEW a \in Agent, AgentLost(a), NEW t \in DOMAIN sess
  PROVE  /\ sess[t].agent = a => ~ Held(t)'
         /\ sess[t].agent # a => Held(t)' = Held(t)
<1>1. sess[t].agent \in Agent
  BY SessIs, Zenon
<1>2. CASE sess[t].agent = a
  <2>1. ~ sess'[t].token /\ sess'[t].pc = "left" /\ sess'[t].agent = a /\ toAgent'[a] = <<>>
    BY <1>2, Zenon DEF AgentLost
  <2> QED BY <1>2, <2>1 DEF Held
<1>3. CASE sess[t].agent # a
  <2>1. sess'[t] = sess[t] /\ toAgent'[sess[t].agent] = toAgent[sess[t].agent]
    BY <1>1, <1>3 DEF AgentLost
  <2> QED BY <1>3, <2>1, Zenon DEF Held
<1> QED BY <1>2, <1>3, Zenon

\* Crash keeps HoldInv.
LEMMA CrashHoldInv ==
  ASSUME AccountInv, NEW a \in Agent, AgentLost(a)
  PROVE  RegisterInv' /\ HoldInv'
<1>0. RegisterInv /\ HoldInv
  BY Zenon DEF AccountInv
<1>1. mixed' = mixed /\ entered' = entered /\ DOMAIN sess' = DOMAIN sess
  BY Zenon DEF AgentLost
<1>2. \A t \in DOMAIN sess : sess[t].agent # a => sess'[t] = sess[t]
  BY Zenon DEF AgentLost
<1>3. toAgent'[a] = <<>> /\ \A b \in Agent : b # a => toAgent'[b] = toAgent[b] /\ life'[b] = life[b]
  BY Zenon DEF AgentLost
<1>4. RegisterInv'
  <2> SUFFICES ASSUME NEW b \in Agent, NEW i \in DOMAIN toAgent'[b], toAgent'[b][i].kind = "register"
               PROVE  LET t == toAgent'[b][i].of
                      IN /\ t \in DOMAIN sess' /\ sess'[t].agent = b /\ sess'[t].pc = "none" /\ ~ sess'[t].token
                         /\ \A j \in DOMAIN toAgent'[b] : toAgent'[b][j] = toAgent'[b][i] => j = i
    BY Zenon DEF RegisterInv
  <2>1. b # a
    BY <1>3
  <2>2. toAgent'[b] = toAgent[b]
    BY <1>3, <2>1
  <2>3. PICK t : t = toAgent[b][i].of
    BY Zenon
  <2>4. /\ t \in DOMAIN sess /\ sess[t].agent = b /\ sess[t].pc = "none" /\ ~ sess[t].token
        /\ \A j \in DOMAIN toAgent[b] : toAgent[b][j] = toAgent[b][i] => j = i
    BY <1>0, <2>2, <2>3 DEF RegisterInv
  <2> QED BY <1>1, <1>2, <2>1, <2>2, <2>3, <2>4, Zenon
<1>5. HoldInv'
  <2>1. \A b \in Agent : toAgent'[b] # <<>> => life'[b] = "up"
    BY <1>0, <1>3, Zenon DEF HoldInv
  <2>2. ASSUME NEW t \in DOMAIN sess
        PROVE  /\ Held(t)' => life'[sess'[t].agent] = "up"
               /\ Held(t)' /\ sess'[t].acct \notin mixed' => entered'[sess'[t].acct] = t
               /\ sess'[t].token => sess'[t].pc = "none"
               /\ sess'[t].dirty => sess'[t].pc \in {"fighter", "fought", "on"}
    <3>1. CASE sess[t].agent = a
      <4>1. ~ Held(t)'
        BY <3>1, CrashHolds, Zenon
      <4>2. ~ sess'[t].token /\ ~ sess'[t].dirty
        BY <3>1 DEF AgentLost
      <4> QED BY <4>1, <4>2, Zenon
    <3>2. CASE sess[t].agent # a
      <4>1. sess[t].agent \in Agent
        BY SessIs
      <4>2. Held(t)' = Held(t)
        BY <3>2, CrashHolds, Zenon
      <4>3. sess'[t] = sess[t] /\ life'[sess[t].agent] = life[sess[t].agent]
        BY <1>2, <1>3, <3>2, <4>1, Zenon
      <4>4. /\ Held(t) => life[sess[t].agent] = "up"
            /\ Held(t) /\ sess[t].acct \notin mixed => entered[sess[t].acct] = t
            /\ sess[t].token => sess[t].pc = "none"
            /\ sess[t].dirty => sess[t].pc \in {"fighter", "fought", "on"}
        BY <1>0, Zenon DEF HoldInv
      <4> QED BY <1>1, <4>2, <4>3, <4>4, Zenon
    <3> QED BY <3>1, <3>2
  <2> QED BY <1>1, <2>1, <2>2, Zenon DEF HoldInv
<1> QED BY <1>4, <1>5

\* Crash keeps TellInv.
LEMMA CrashTellInv ==
  ASSUME AccountInv, NEW a \in Agent, AgentLost(a)
  PROVE  TellInv'
<1>0. TypeOK /\ TellInv
  BY Zenon DEF AccountInv
<1>1. mixed' = mixed /\ entered' = entered /\ life'[a] = "dead"
  BY Zenon DEF AgentLost
<1>2. \A b \in Agent : b # a => toLogin'[b] = toLogin[b] /\ life'[b] = life[b]
  BY Zenon DEF AgentLost
<1>3. \A i \in DOMAIN toLogin'[a] : i \in DOMAIN toLogin[a] /\ toLogin'[a][i] = toLogin[a][i]
  BY Zenon DEF AgentLost
<1>4. \A b \in Agent : life'[b] = "down" => toLogin'[b] = <<>>
  BY <1>0, <1>1, <1>2, Zenon DEF TellInv
<1>5. ASSUME NEW b \in Agent, NEW i \in DOMAIN toLogin'[b], toLogin'[b][i] \notin mixed'
      PROVE  /\ entered'[toLogin'[b][i]] # 0 /\ sess'[entered'[toLogin'[b][i]]].agent = b
             /\ ~ Held(entered[toLogin[b][i]])'
             /\ \A j \in DOMAIN toLogin'[b] : toLogin'[b][j] = toLogin'[b][i] => j = i
  <2>1. \A j \in DOMAIN toLogin'[b] : j \in DOMAIN toLogin[b] /\ toLogin'[b][j] = toLogin[b][j]
    BY <1>2, <1>3, Zenon
  <2>2. PICK x \in Account : x = toLogin[b][i] /\ x \notin mixed
    BY <1>0, <1>1, <1>5, <2>1 DEF TypeOK
  <2>3. PICK t : t = entered[x]
    BY Zenon
  <2>4. t # 0 /\ sess[t].agent = b /\ ~ Held(t) /\ \A j \in DOMAIN toLogin[b] : toLogin[b][j] = x => j = i
    BY <1>0, <2>1, <2>2, <2>3, Zenon DEF TellInv
  <2>5. t \in DOMAIN sess
    BY <2>2, <2>3, <2>4, SessIs, Zenon
  <2>6. sess'[t].agent = b /\ ~ Held(t)'
    <3>1. CASE b = a
      <4>1. sess'[t].agent = a
        BY <2>4, <2>5, <3>1, Zenon DEF AgentLost
      <4> QED BY <2>4, <2>5, <3>1, <4>1, CrashHolds, Zenon
    <3>2. CASE b # a
      <4>1. sess'[t] = sess[t]
        BY <2>4, <2>5, <3>2, Zenon DEF AgentLost
      <4> QED BY <2>4, <2>5, <3>2, <4>1, CrashHolds, Zenon
    <3> QED BY <3>1, <3>2, Zenon
  <2>7. toLogin'[b][i] = x /\ entered'[x] = t /\ entered[x] = t
    BY <1>1, <2>1, <2>2, <2>3, Zenon
  <2>8. \A j \in DOMAIN toLogin'[b] : toLogin'[b][j] = x => j = i
    BY <2>1, <2>4, Zenon
  <2>9. ~ Held(entered[toLogin[b][i]])'
    BY <2>6, <2>7, Zenon DEF Held
  <2> QED BY <2>4, <2>6, <2>7, <2>8, <2>9, Zenon
<1> QED BY <1>1, <1>4, <1>5, Zenon DEF TellInv

\* Crash keeps SaveInv.
LEMMA CrashSaveInv ==
  ASSUME AccountInv, NEW a \in Agent, AgentLost(a)
  PROVE  SaveInv'
<1>0. TypeOK /\ SaveInv
  BY Zenon DEF AccountInv
<1>1. mixed' = mixed /\ entered' = entered /\ db' = db /\ last' = last /\ torn' = torn \cup EnteredAt(a)
  BY Zenon DEF AgentLost
<1>2. \A t \in DOMAIN sess : /\ sess'[t].acct = sess[t].acct /\ sess'[t].agent = sess[t].agent
                             /\ sess[t].agent # a => sess'[t] = sess[t]
  BY Zenon DEF AgentLost
<1>3. \A b \in Agent : \A i \in DOMAIN dbq'[b] : i \in DOMAIN dbq[b] /\ dbq'[b][i] = dbq[b][i]
  BY Zenon DEF AgentLost
<1>4. \A b \in Agent : b # a => dbq'[b] = dbq[b]
  BY Zenon DEF AgentLost
<1>5. \A b \in Agent : \A i \in DOMAIN dbq[b] : dbq[b][i].of \in DOMAIN sess
  BY <1>0 DEF TypeOK
<1>6. \A t \in DOMAIN sess : t # 0 /\ sess[t].agent \in Agent
  BY SessIs
<1> SUFFICES ASSUME NEW x \in Account, x \notin torn' \cup mixed'
             PROVE  Saved(x)'
  BY DEF SaveInv
<1>7. Saved(x) /\ x \notin EnteredAt(a)
  BY <1>0, <1>1, Zenon DEF SaveInv
<1>8. entered[x] # 0 => entered[x] \in DOMAIN sess /\ sess[entered[x]].agent # a
  BY <1>7, SessIs, Zenon DEF EnteredAt
<1>9. OwnQueries(x)'
  <2> SUFFICES ASSUME NEW b \in Agent, NEW i \in DOMAIN dbq'[b], sess'[dbq'[b][i].of].acct = x
               PROVE  LET u == dbq'[b][i].of
                      IN u = entered'[x] /\ sess'[u].agent = b /\ sess'[u].pc \notin Away \cup {"acked"}
    BY Zenon DEF OwnQueries
  <2>1. i \in DOMAIN dbq[b] /\ dbq'[b][i] = dbq[b][i]
    BY <1>3, Zenon
  <2>2. PICK u \in DOMAIN sess : u = dbq[b][i].of
    BY <1>5, <2>1, Zenon
  <2>3. sess[u].acct = x /\ u # 0
    BY <1>2, <1>6, <2>1, <2>2, Zenon
  <2>4. u = entered[x] /\ sess[u].agent = b /\ sess[u].pc \notin Away \cup {"acked"}
    BY <1>7, <2>1, <2>2, <2>3, Zenon DEF Saved, OwnQueries
  <2>5. sess'[u] = sess[u] /\ entered'[x] = u
    BY <1>1, <1>2, <1>8, <2>3, <2>4, Zenon
  <2> QED BY <2>1, <2>2, <2>4, <2>5
<1>10. ASSUME NEW t, t = entered[x], t # 0
       PROVE  sess'[t] = sess[t] /\ (Latest(t) => Latest(t)') /\ (Asking(t) => Asking(t)')
  <2>1. sess'[t] = sess[t] /\ sess[t].agent \in Agent /\ sess[t].agent # a
    BY <1>2, <1>6, <1>8, <1>10
  <2>2. dbq'[sess[t].agent] = dbq[sess[t].agent]
    BY <1>4, <2>1
  <2> QED BY <1>1, <2>1, <2>2, Zenon DEF Latest, Asking
<1> QED BY <1>1, <1>7, <1>9, <1>10, Zenon DEF Saved

\* Crash keeps AccountInv.
LEMMA CrashInv ==
  ASSUME AccountInv, NEW a \in Agent, Crash(a)
  PROVE  AccountInv'
<1>1. AgentLost(a) /\ TypeOK'
  BY CrashIs, Zenon
<1>2. LoginInv'
  <2>1. LoginInv /\ UNCHANGED <<conn, ctx, luser, entered, mixed>>
    BY <1>1, Zenon DEF AccountInv, AgentLost
  <2> QED BY <2>1, Zenon DEF LoginInv
<1>3. unentered' \subseteq mixed'
  BY <1>1, Zenon DEF AccountInv, AgentLost
<1> QED BY <1>1, <1>2, <1>3, CrashHoldInv, CrashTellInv, CrashSaveInv DEF AccountInv

\* The invariant holds at first.
LEMMA InitInv ==
  ASSUME Init
  PROVE  AccountInv
<1>1. \A a \in Agent : toAgent[a] = <<>> /\ toLogin[a] = <<>> /\ dbq[a] = <<>> /\ life[a] = "up"
  BY Zenon DEF Init
<1>2. sess = <<>> /\ Len(sess) = 0 /\ DOMAIN sess = {} /\ 0 \in 0 .. Len(sess) /\ sess \in Seq(SessRec)
  BY DEF Init
<1>3. TypeOK
  <2>1. /\ conn \in [Conn -> {"new", "open", "grace", "gone"}] /\ ctx \in [Conn -> Account \cup {"anon", None}]
        /\ luser \in [Account -> Conn \cup {None}] /\ life \in [Agent -> {"up", "dead", "down"}]
        /\ db \in [Account -> Nat] /\ last \in [Account -> Nat] /\ torn \subseteq Account /\ mixed \subseteq Account
        /\ unentered \subseteq Account
    BY Zenon DEF Init
  <2>2. /\ queue \in [Account -> Seq(Conn)] /\ toAgent \in [Agent -> Seq(Notice)] /\ toLogin \in [Agent -> Seq(Account)]
        /\ dbq \in [Agent -> Seq(Query)]
    BY DEF Init
  <2>3. entered \in [Account -> 0 .. Len(sess)] /\ user \in [Agent -> [Account -> 0 .. Len(sess)]]
    BY <1>2 DEF Init
  <2> QED BY <1>1, <1>2, <2>1, <2>2, <2>3 DEF TypeOK
<1>4. LoginInv
  BY AccountAssumption DEF Init, LoginInv
<1>5. RegisterInv /\ HoldInv /\ TellInv
  <2>1. RegisterInv
    BY <1>1 DEF RegisterInv
  <2>2. HoldInv
    BY <1>1, <1>2, Zenon DEF HoldInv
  <2>3. TellInv
    BY <1>1 DEF TellInv
  <2> QED BY <2>1, <2>2, <2>3, Zenon
<1>6. SaveInv
  <2>1. \A x \in Account : entered[x] = 0 /\ db[x] = last[x]
    BY Zenon DEF Init
  <2>2. \A x \in Account : OwnQueries(x)
    BY <1>1 DEF OwnQueries
  <2> QED BY <2>1, <2>2, Zenon DEF SaveInv, Saved
<1> QED BY <1>3, <1>4, <1>5, <1>6 DEF AccountInv, Init

\* Every step keeps the invariant.
LEMMA NextInv ==
  ASSUME AccountInv, [Next]_vars
  PROVE  AccountInv'
<1>1. CASE LoginStep
  <2>1. CASE \E c \in Conn : Enter(c) \/ ClientGone(c) \/ GraceDone(c)
    BY <2>1, ClientStepInv, Zenon
  <2>2. CASE \E c \in Conn, x \in Account : AuthWaits(c, x) \/ AuthRaises(c, x) \/ AuthLoads(c, x)
    BY <2>2, AuthWaitsInv, AuthInv, Zenon
  <2>3. CASE \E c \in Conn, a \in Agent : UserEnterAgent(c, a)
    BY <2>3, UserEnterAgentInv
  <2>4. CASE \E a \in Agent : UserLeaveAgent(a) \/ AgentDown(a)
    BY <2>4, UserLeaveAgentInv, AgentDownInv, Zenon
  <2>5. CASE LoginStop
    BY <2>5, LoginStopInv
  <2>6. CASE LoginStopped
    BY <2>6, LoginStoppedInv, Zenon
  <2> QED BY <1>1, <2>1, <2>2, <2>3, <2>4, <2>5, <2>6, Zenon DEF LoginStep
<1>2. CASE AgentStep
  <2>1. ASSUME NEW a \in Agent, UserRegister(a) \/ UserKick(a) \/ AuthTimer(a) \/ SaveTimer(a) \/ StopBegin(a) \/ StopEnd(a)
        PROVE  AccountInv'
    BY <2>1, UserRegisterInv, UserKickInv, AuthTimerInv, SaveTimerInv, StopInv, Zenon
  <2>2. ASSUME NEW t \in DOMAIN sess,
               \/ Connect(t) \/ AuthRefused(t) \/ TokenLate(t) \/ ClientLeave(t) \/ StopNext(t)
               \/ UserAuth(t) \/ EnterGame(t) \/ EnterScene(t) \/ Play(t) \/ UserLeave(t) \/ UserLeft(t)
        PROVE  AccountInv'
    BY <2>2, QuietStepInv, UserAuthInv, EnterGameInv, PlayInv, UserLeaveInv, UserLeftInv, Zenon
  <2> QED BY <1>2, <2>1, <2>2, Zenon DEF AgentStep
<1>3. CASE \E a \in Agent : DbStep(a) \/ Crash(a)
  BY <1>3, DbStepInv, CrashInv
<1>4. CASE UNCHANGED vars
  <2>1. UNCHANGED <<Login, user, db, dbq, last, torn, toLogin>> /\ TakesMessage /\ sess' = sess
    BY <1>4, Zenon DEF vars, login, agent, data, history, Login, TakesMessage
  <2>2. TokensLess
    BY <2>1 DEF TokensLess, SameSessions, AccountInv, TypeOK
  <2> QED BY <2>1, <2>2, QuietInv, Zenon
<1> QED BY <1>1, <1>2, <1>3, <1>4, Zenon DEF Next

-----------------------------------------------------------------------------
\* The inductive invariant of login and agent servers: at every step a message
\* that registers comes before its token and that before its user, the agent
\* tells once and last that an account comes back, and what is under way to
\* the database belongs to the session that goes on and ends with the newest data.
THEOREM AccountInvariance == Spec => []AccountInv
<1>1. Init => AccountInv
  BY InitInv
<1>2. AccountInv /\ [Next]_vars => AccountInv'
  BY NextInv
<1> QED BY <1>1, <1>2, PTL DEF Spec

\* An account is in one place, for any number of accounts, agents, clients and
\* sessions: user_auth, user_enter_agent and user_leave_agent never give the
\* login server a user of an account that an agent holds a token or a user of.
THEOREM AccountsInOnePlace == Spec => []OneSession
<1>1. AccountInv => OneSession
  <2> SUFFICES ASSUME AccountInv, NEW t \in DOMAIN sess, Held(t), sess[t].acct \notin mixed
               PROVE  entered[sess[t].acct] = t /\ luser[sess[t].acct] = None
    BY DEF OneSession
  <2>1. TypeOK /\ LoginInv /\ HoldInv
    BY Zenon DEF AccountInv
  <2>2. PICK x \in Account : x = sess[t].acct
    BY <2>1, SessIs, Zenon
  <2>3. entered[x] = t /\ t # 0
    BY <2>1, <2>2, SessIs DEF HoldInv
  <2> QED BY <2>1, <2>2, <2>3, Zenon DEF LoginInv
<1> QED BY <1>1, AccountInvariance, PTL

\* The assertion of user_leave_agent, for every way in which leaves, kicks,
\* timeouts, stops and crashes of any number of agents cross.
THEOREM LeavesAreKnown == Spec => []LeaveFindsEntry
<1>1. AccountInv => LeaveFindsEntry
  BY Zenon DEF AccountInv, LeaveFindsEntry
<1> QED BY <1>1, AccountInvariance, PTL

\* Nothing of a user is lost between two sessions: when user_leave has told the
\* login server, the saves of db_timer and of user_leave have arrived, and the
\* next session loads the newest data.
THEOREM DataStaysCurrent == Spec => []DataIsCurrent
<1>1. AccountInv => DataIsCurrent
  <2> SUFFICES ASSUME AccountInv, NEW x \in Account, x \notin torn \cup mixed
               PROVE  /\ entered[x] = 0 => db[x] = last[x]
                      /\ \A t \in DOMAIN sess :
                           sess[t].acct = x /\ sess[t].pc \notin {"none", "load", "left"} => sess[t].val = last[x]
    BY Zenon DEF DataIsCurrent
  <2>1. TypeOK /\ HoldInv /\ Saved(x)
    BY Zenon DEF AccountInv, SaveInv
  <2>2. ASSUME NEW t \in DOMAIN sess, sess[t].acct = x, sess[t].pc \notin {"none", "load", "left"}
        PROVE  sess[t].val = last[x]
    <3>1. Held(t)
      BY <2>2, Zenon DEF Held
    <3>2. entered[x] = t /\ t # 0
      BY <2>1, <2>2, <3>1, SessIs DEF HoldInv
    <3> QED BY <2>1, <2>2, <3>2, Zenon DEF Saved, Away
  <2> QED BY <2>1, <2>2 DEF Saved
<1> QED BY <1>1, AccountInvariance, PTL
=============================================================================
