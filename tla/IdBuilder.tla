----------------------------- MODULE IdBuilder -----------------------------
(***************************************************************************)
(* Unique identifiers: script/module/id_builder.lua on every server, with  *)
(* the server number handed out and persisted by the world server          *)
(* (server_manager.apply_id) and the first cursor of the reserved section  *)
(* kept in mongodb.  The write to mongodb is not acknowledged: it waits in *)
(* the connection's buffer and may be lost with the process.               *)
(***************************************************************************)
EXTENDS Naturals, Sequences

CONSTANTS Server,       \* server processes
          DistOffset,   \* server numbers are below it (100 in the code)
          Section,      \* identifiers reserved at a time (100 in the code)
          Keeper,       \* those that start again under their number, all writes sent;
                        \* the others lose unsent writes and take a new number
          MaxIssue,     \* bound: identifiers issued
          MaxStart,     \* bound: numbers handed out
          MaxBegin      \* bound: where a process that starts again has begun

ASSUME IdAssumption ==
  /\ DistOffset \in Nat \ {0} /\ Section \in Nat \ {0}
  /\ Keeper \subseteq Server
  /\ MaxIssue \in Nat /\ MaxStart \in Nat /\ MaxBegin \in Nat

VARIABLES
  counter,   \* _server_counter of the world server
  file,      \* ./data/master/dist_id
  proc,      \* per process: its state, number and the upvalues of alloc_*_uid
  net,       \* per process: values of begin on their way to mongodb
  db,        \* common.id_builder: number -> begin, 0 if there is no document
  issued     \* the identifiers handed out, with the number and the cursor

id_vars == <<counter, file, proc, net, db, issued>>

Started(d) == [st |-> "init", dist |-> d, begin |-> 0, cursor |-> 0]

\* not started yet: it has no number
Off == [st |-> "off", dist |-> 0, begin |-> 0, cursor |-> 0]

IdInit ==
  /\ counter = 1 /\ file = 1
  /\ proc = [s \in Server |-> Off]
  /\ net = [s \in Server |-> <<>>]
  /\ db = [d \in 1 .. DistOffset - 1 |-> 0]
  /\ issued = <<>>

-----------------------------------------------------------------------------
\* fault: the counter is not saved
ApplyUnsaved(s, arrives) ==
  /\ proc[s].st = "off"
  /\ counter < MaxStart
  /\ counter' = counter + 1
  /\ IF arrives /\ counter < DistOffset
     THEN /\ proc' = [proc EXCEPT ![s] = Started(counter)]
          /\ net' = [net EXCEPT ![s] = <<>>]
     ELSE UNCHANGED <<proc, net>>
  /\ UNCHANGED <<file, db, issued>>

\* apply_id, called by a server that starts; the answer may be lost, and a
\* server whose number is too large exits.  What a process wrote under an
\* earlier number is no longer followed.
Apply(s, arrives) ==
  /\ proc[s].st = "off"
  /\ counter < MaxStart
  /\ counter' = counter + 1
  /\ file' = counter + 1
  /\ IF arrives /\ counter < DistOffset
     THEN /\ proc' = [proc EXCEPT ![s] = Started(counter)]
          /\ net' = [net EXCEPT ![s] = <<>>]
     ELSE UNCHANGED <<proc, net>>
  /\ UNCHANGED <<db, issued>>

\* the world server starts again and reads the counter
WorldRestart ==
  /\ counter' = file
  /\ UNCHANGED <<file, proc, net, db, issued>>

\* a process that keeps its number starts again, once mongodb has read what
\* its last connection sent
StartAgain(s) ==
  /\ s \in Keeper
  /\ proc[s].st = "off" /\ proc[s].dist # 0
  /\ net[s] = <<>>
  /\ proc[s].begin < MaxBegin
  /\ proc' = [proc EXCEPT ![s].st = "init"]
  /\ UNCHANGED <<counter, file, net, db, issued>>

\* fault: a restart begins again at the saved cursor
InitSection(s) ==
  LET begin == IF db[proc[s].dist] = 0 THEN 1 ELSE db[proc[s].dist]
  IN /\ proc[s].st = "init"
     /\ proc' = [proc EXCEPT ![s].st = "run", ![s].begin = begin, ![s].cursor = begin]
     /\ net' = [net EXCEPT ![s] = Append(@, begin)]
     /\ UNCHANGED <<counter, file, db, issued>>

\* id_builder:init
BuilderInit(s) ==
  LET begin == IF db[proc[s].dist] = 0 THEN 1 ELSE db[proc[s].dist] + Section
  IN /\ proc[s].st = "init"
     /\ proc' = [proc EXCEPT ![s].st = "run", ![s].begin = begin, ![s].cursor = begin]
     /\ net' = [net EXCEPT ![s] = Append(@, begin)]
     /\ UNCHANGED <<counter, file, db, issued>>

Uid(s) == proc[s].cursor * DistOffset + proc[s].dist

\* alloc_user_uid; at the end of the section the next one is reserved
Alloc(s) ==
  LET next == proc[s].cursor + 1
      full == next >= proc[s].begin + Section
  IN /\ proc[s].st = "run"
     /\ Len(issued) < MaxIssue
     /\ issued' = Append(issued, [uid |-> Uid(s), dist |-> proc[s].dist, cursor |-> proc[s].cursor])
     /\ proc' = [proc EXCEPT ![s].cursor = next, ![s].begin = IF full THEN next ELSE @]
     /\ net' = IF full THEN [net EXCEPT ![s] = Append(@, next)] ELSE net
     /\ UNCHANGED <<counter, file, db>>

\* mongodb applies the oldest write of a connection
DbUpdate(s) ==
  /\ net[s] # <<>>
  /\ db' = [db EXCEPT ![proc[s].dist] = Head(net[s])]
  /\ net' = [net EXCEPT ![s] = Tail(@)]
  /\ UNCHANGED <<counter, file, proc, issued>>

\* a process dies; of its writes those that left the process arrive
ProcessCrash(s) ==
  /\ proc[s].st # "off"
  /\ proc' = [proc EXCEPT ![s].st = "off"]
  /\ \E n \in 0 .. Len(net[s]) :
       /\ s \notin Keeper \/ n = Len(net[s])
       /\ net' = [net EXCEPT ![s] = SubSeq(@, 1, n)]
  /\ UNCHANGED <<counter, file, db, issued>>

IdNext ==
  \/ \E s \in Server, arrives \in BOOLEAN : Apply(s, arrives)
  \/ WorldRestart
  \/ \E s \in Server : StartAgain(s) \/ BuilderInit(s) \/ Alloc(s) \/ DbUpdate(s) \/ ProcessCrash(s)

IdSpec == IdInit /\ [][IdNext]_id_vars

-----------------------------------------------------------------------------
IdTypeOK ==
  /\ counter \in Nat \ {0} /\ file \in Nat \ {0}
  /\ proc \in [Server -> [st : {"off", "init", "run"}, dist : 0 .. DistOffset - 1,
                          begin : Nat, cursor : Nat]]
  /\ net \in [Server -> Seq(Nat \ {0})]
  /\ db \in [1 .. DistOffset - 1 -> Nat]
  /\ issued \in Seq([uid : Nat, dist : 1 .. DistOffset - 1, cursor : Nat])

\* No identifier is handed out twice: not by two servers, not by one server
\* before and after a crash, not over restarts of the world server.
UniqueIds ==
  \A i, j \in DOMAIN issued : issued[i].uid = issued[j].uid => i = j

-----------------------------------------------------------------------------
\* The last value of begin process s sent, or the one mongodb has
Saved(s) == IF net[s] = <<>> THEN db[proc[s].dist] ELSE net[s][Len(net[s])]

\* Numbers are below the counter, which is the saved one, and two processes
\* have different numbers.
Numbers ==
  /\ file = counter
  /\ \A s \in Server : proc[s].dist < counter
  /\ \A s, t \in Server : proc[s].dist = proc[t].dist /\ proc[s].dist # 0 => s = t
  /\ \A s \in Server : proc[s].st # "off" \/ net[s] # <<>> => proc[s].dist # 0

\* The cursor of a process lies in the section it saved last.
Sections ==
  \A s \in Server :
    /\ proc[s].st = "init" => net[s] = <<>>
    /\ proc[s].st = "run" =>
         /\ proc[s].begin >= 1 /\ Saved(s) = proc[s].begin
         /\ proc[s].begin <= proc[s].cursor /\ proc[s].cursor < proc[s].begin + Section

\* An identifier that process s, running under its number, has passed; if the
\* process comes back it will begin after the section it saved last.
Passed(r, s) ==
  IF proc[s].st = "run"
  THEN r.cursor < proc[s].cursor
  ELSE s \in Keeper \/ proc[s].st = "init" => Saved(s) # 0 /\ r.cursor < Saved(s) + Section

IssuedBefore ==
  \A i \in DOMAIN issued :
    /\ issued[i].uid = issued[i].cursor * DistOffset + issued[i].dist
    /\ issued[i].dist < counter
    /\ \A s \in Server : proc[s].dist = issued[i].dist => Passed(issued[i], s)

IssuedOnce ==
  \A i, j \in DOMAIN issued :
    issued[i].dist = issued[j].dist /\ issued[i].cursor = issued[j].cursor => i = j

\* The inductive invariant.
IdInv == IdTypeOK /\ Numbers /\ Sections /\ IssuedBefore /\ IssuedOnce
=============================================================================
