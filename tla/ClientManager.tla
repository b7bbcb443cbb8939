--------------------------- MODULE ClientManager ---------------------------
(***************************************************************************)
(* The clients of a login or agent server: luaclib/lua-client.c with the   *)
(* slots of object_container.c.  One thread runs everything: pc says where *)
(* it is, the event loop, the packet loop of read_complete or Lua code     *)
(* that a callback called, and back is where that Lua code returns to.     *)
(* Lua code sends to and closes clients by id, also the one being read,    *)
(* and a send that fails frees the client at once.  C code that then goes  *)
(* on with the freed client may work or bring the process down ("down").   *)
(* Peers come, send packets and leave at any time.                         *)
(***************************************************************************)
EXTENDS Naturals, Sequences, FiniteSets

CONSTANTS MaxClient,    \* slots of the container
          MaxOffset,    \* the power of ten above it: ids are index * MaxOffset + slot
          IntMod,       \* the values of an int, as which ids reach Lua (2^32)
          MaxFreq,      \* packets per second (MAX_FREQ)
          AliveTime,    \* seconds without a packet (ALIVE_TIME)
          MaxAccept,    \* bound: connections accepted
          MaxPacket,    \* bound: packets on their way to a client
          NoClient      \* an empty slot

ASSUME ClientAssumption ==
  /\ MaxClient \in Nat \ {0} /\ MaxOffset \in Nat /\ MaxClient <= MaxOffset
  /\ IntMod \in Nat \ {0} /\ MaxFreq \in Nat /\ AliveTime \in Nat
  /\ MaxAccept \in Nat /\ MaxPacket \in Nat

Slot == 0 .. MaxClient - 1

VARIABLES
  mgr, freelist,      \* the container: slot -> client, free slots
  index,              \* the next index
  listening,          \* there is a listener
  at, back, reading,  \* the thread; reading is the slot read_complete works on
  accepted,           \* ids given to accept_func
  reported, again,    \* ids given to close_func; given to it a second time
  silent,             \* ids Lua closed at once
  late,               \* ids given to data_func after one of these
  misnamed            \* ids with which Lua got another client

container == <<mgr, freelist>>
history == <<accepted, reported, again, silent, late, misnamed>>
manager_vars == <<container, index, listening, at, back, reading, history>>

\* struct ev_client as accept_client fills it; wire and gone are its peer
Client(id) ==
  [id |-> id, execute |-> FALSE, mark |-> FALSE, grace |-> FALSE, rio |-> TRUE, wio |-> FALSE,
   freq |-> 0, tick |-> 0, wire |-> <<>>, input |-> <<>>, gone |-> FALSE]

ClientRec ==
  [id : Nat, execute : BOOLEAN, mark : BOOLEAN, grace : BOOLEAN, rio : BOOLEAN, wio : BOOLEAN,
   freq : Nat, tick : Nat, wire : Seq({"good", "bad"}), input : Seq({"good", "bad"}), gone : BOOLEAN]

ASSUME NoClientAssumption == NoClient \notin ClientRec

Live == {s \in Slot : mgr[s] # NoClient}

\* the int Lua is given, and whether it is not negative: a negative one is
\* no id any more when get_client takes it as an unsigned 64-bit value
LuaId(id) == id % IntMod
Named(id) == 2 * LuaId(id) < IntMod

ManagerInit ==
  /\ mgr = [s \in Slot |-> NoClient]
  /\ freelist = [i \in 1 .. MaxClient |-> MaxClient - i]
  /\ index = 1
  /\ listening = TRUE
  /\ at = "loop" /\ back = "loop" /\ reading = 0
  /\ accepted = {} /\ reported = {} /\ again = {} /\ silent = {} /\ late = {} /\ misnamed = {}

-----------------------------------------------------------------------------
(* freeing a client *)

\* Fault: the slot is not returned.
CloseClientKeepsSlot(s) ==
  /\ mgr' = [mgr EXCEPT ![s] = NoClient]
  /\ UNCHANGED freelist

\* close_client: the slot is free for the next connection
CloseClient(s) ==
  /\ mgr' = [mgr EXCEPT ![s] = NoClient]
  /\ freelist' = <<s>> \o freelist

\* C calls Lua code, which returns to to
CallLua(to) == at' = "lua" /\ back' = to

\* Fault: Lua hears of it and the client stays.
ErrorHappenStays(s) ==
  /\ UNCHANGED container
  /\ reported' = reported \cup {mgr[s].id}
  /\ again' = again \cup ({mgr[s].id} \cap reported)

\* error_happen: the client is freed, then close_func hears of it
ErrorHappen(s) ==
  /\ CloseClient(s)
  /\ reported' = reported \cup {mgr[s].id}
  /\ again' = again \cup ({mgr[s].id} \cap reported)

\* the thread uses a client that is freed: it goes on, or the process dies
Afterwards(to) == at' \in {to, "down"}

-----------------------------------------------------------------------------
(* connections *)

\* accept_client
Accept ==
  /\ at = "loop"
  /\ listening
  /\ Cardinality(accepted) < MaxAccept
  /\ freelist # <<>>
  /\ LET s == Head(freelist)
         id == index * MaxOffset + s
     IN /\ mgr' = [mgr EXCEPT ![s] = Client(id)]
        /\ accepted' = accepted \cup {id}
  /\ freelist' = Tail(freelist)
  /\ index' = index + 1
  /\ CallLua("loop")
  /\ UNCHANGED <<listening, reading, reported, again, silent, late, misnamed>>

\* accept_client without a free slot closes the connection
Reject ==
  /\ at = "loop"
  /\ listening
  /\ freelist = <<>>
  /\ UNCHANGED manager_vars

PeerSend(s, packet) ==
  /\ s \in Live
  /\ ~ mgr[s].gone
  /\ Len(mgr[s].wire) + Len(mgr[s].input) < MaxPacket
  /\ mgr' = [mgr EXCEPT ![s].wire = Append(@, packet)]
  /\ UNCHANGED <<freelist, index, listening, at, back, reading, history>>

PeerClose(s) ==
  /\ s \in Live
  /\ ~ mgr[s].gone
  /\ mgr' = [mgr EXCEPT ![s].gone = TRUE]
  /\ UNCHANGED <<freelist, index, listening, at, back, reading, history>>

-----------------------------------------------------------------------------
(* read_complete *)

\* what has arrived is buffered and read_complete starts
ReadEvent(s) ==
  /\ at = "loop"
  /\ s \in Live /\ mgr[s].rio /\ mgr[s].wire # <<>>
  /\ mgr' = [mgr EXCEPT ![s].execute = TRUE, ![s].input = @ \o mgr[s].wire, ![s].wire = <<>>]
  /\ at' = "read" /\ reading' = s
  /\ UNCHANGED <<freelist, index, listening, back, history>>

\* _ev_read_cb meets the end of the stream
ReadFails(s) ==
  /\ at = "loop"
  /\ s \in Live /\ mgr[s].rio /\ mgr[s].wire = <<>> /\ mgr[s].gone
  /\ ErrorHappen(s)
  /\ CallLua("loop")
  /\ UNCHANGED <<index, listening, reading, accepted, silent, late, misnamed>>

\* Fault: the loop does not look at mark.
PacketUnmarked ==
  /\ at = "read"
  /\ reading \in Live
  /\ mgr[reading].input # <<>>

\* the loop has a whole packet and the client is not marked
Packet ==
  /\ at = "read"
  /\ reading \in Live
  /\ ~ mgr[reading].mark
  /\ mgr[reading].input # <<>>

\* freq counts up to the limit that is compared with
Count(freq) == IF freq > MaxFreq THEN freq ELSE freq + 1

\* a packet with the right checksum and order
GoodPacket ==
  LET id == mgr[reading].id
  IN /\ Packet
     /\ Head(mgr[reading].input) = "good"
     /\ mgr' = [mgr EXCEPT ![reading].input = Tail(@), ![reading].freq = Count(@), ![reading].tick = 1]
     /\ late' = IF id \in silent \cup reported THEN late \cup {id} ELSE late
     /\ CallLua("read")
     /\ UNCHANGED <<freelist, index, listening, reading, accepted, reported, again, silent, misnamed>>

\* a packet that is too long, out of order or damaged ends read_complete
BadPacket ==
  /\ Packet
  /\ Head(mgr[reading].input) = "bad"
  /\ ErrorHappen(reading)
  /\ CallLua("loop")
  /\ UNCHANGED <<index, listening, reading, accepted, silent, late, misnamed>>

\* the loop ends; a marked client is closed now
ReadDone ==
  /\ at = "read"
  /\ reading \in Live
  /\ mgr[reading].mark \/ mgr[reading].input = <<>>
  /\ at' = "loop"
  /\ IF mgr[reading].mark
     THEN CloseClient(reading)
     ELSE mgr' = [mgr EXCEPT ![reading].execute = FALSE] /\ UNCHANGED freelist
  /\ UNCHANGED <<index, listening, back, reading, history>>

\* a send in the data callback freed the client and the loop goes on with it
ReadFreed ==
  /\ at = "read"
  /\ reading \notin Live
  /\ Afterwards("loop")
  /\ UNCHANGED <<container, index, listening, back, reading, history>>

-----------------------------------------------------------------------------
(* the timer of a client, once a second *)

\* too many packets; afterwards the handler goes on with the freed client
TimeoutFreq(s) ==
  /\ at = "loop"
  /\ s \in Live /\ mgr[s].freq > MaxFreq
  /\ ErrorHappen(s)
  /\ CallLua("timeout")
  /\ UNCHANGED <<index, listening, reading, accepted, silent, late, misnamed>>

TimeoutFreed ==
  /\ at = "timeout"
  /\ Afterwards("loop")
  /\ UNCHANGED <<container, index, listening, back, reading, history>>

\* tick is 0 until the first packet, then 1 + the seconds since the last one
Timeout(s) ==
  /\ at = "loop"
  /\ s \in Live /\ mgr[s].freq <= MaxFreq
  /\ IF mgr[s].tick > AliveTime + 1
     THEN ErrorHappen(s) /\ CallLua("loop")
     ELSE /\ mgr' = [mgr EXCEPT ![s].freq = 0, ![s].tick = IF @ = 0 THEN 0 ELSE @ + 1]
          /\ UNCHANGED <<freelist, reported, again, at, back>>
  /\ UNCHANGED <<index, listening, reading, accepted, silent, late, misnamed>>

-----------------------------------------------------------------------------
(* the write watcher *)

\* the output is drained; close_complete follows a graceful close
WriteDrained(s) ==
  /\ at = "loop"
  /\ s \in Live /\ mgr[s].wio
  /\ IF mgr[s].grace
     THEN CloseClient(s)
     ELSE mgr' = [mgr EXCEPT ![s].wio = FALSE] /\ UNCHANGED freelist
  /\ UNCHANGED <<index, listening, at, back, reading, history>>

WriteFails(s) ==
  /\ at = "loop"
  /\ s \in Live /\ mgr[s].wio /\ mgr[s].gone
  /\ ErrorHappen(s)
  /\ CallLua("loop")
  /\ UNCHANGED <<index, listening, reading, accepted, silent, late, misnamed>>

-----------------------------------------------------------------------------
(* Lua code *)

\* Fault: the id of the client in the slot is not compared.
GetClientBySlot(id, s) ==
  /\ at = "lua"
  /\ s = LuaId(id) % MaxOffset
  /\ s \in Live
  /\ misnamed' = misnamed \cup ({id} \ {mgr[s].id})

\* get_client: Lua names a client by the int it was given
GetClient(id, s) ==
  /\ at = "lua"
  /\ s = LuaId(id) % MaxOffset
  /\ s \in Live
  /\ Named(id) /\ mgr[s].id = LuaId(id)
  /\ misnamed' = misnamed \cup ({id} \ {mgr[s].id})

\* client_manager_close without grace: read_complete closes a client it reads
CloseNow(id, s) ==
  /\ GetClient(id, s)
  /\ silent' = silent \cup {mgr[s].id}
  /\ IF mgr[s].execute
     THEN mgr' = [mgr EXCEPT ![s].mark = TRUE] /\ UNCHANGED freelist
     ELSE CloseClient(s)
  /\ UNCHANGED <<index, listening, at, back, reading, accepted, reported, again, late>>

\* Fault: the write watcher is not started.
CloseGraceIdle(id, s) ==
  /\ GetClient(id, s)
  /\ mgr' = [mgr EXCEPT ![s].grace = TRUE, ![s].rio = FALSE]
  /\ UNCHANGED <<freelist, index, listening, at, back, reading, accepted, reported, again, silent, late>>

\* client_manager_close with grace: close_complete runs once the output is out
CloseGrace(id, s) ==
  /\ GetClient(id, s)
  /\ mgr' = [mgr EXCEPT ![s].grace = TRUE, ![s].rio = FALSE, ![s].wio = TRUE]
  /\ UNCHANGED <<freelist, index, listening, at, back, reading, accepted, reported, again, silent, late>>

\* client_manager_send: written, buffered, or failing at once
Send(id, s) ==
  /\ GetClient(id, s)
  /\ \/ mgr' = [mgr EXCEPT ![s].wio = TRUE] /\ UNCHANGED <<freelist, reported, again>>
     \/ ~ mgr[s].wio /\ mgr[s].gone /\ ErrorHappen(s)
  /\ UNCHANGED <<index, listening, at, back, reading, accepted, silent, late>>

\* client_manager_stop and start
Listen ==
  /\ at = "lua"
  /\ listening' = ~ listening
  /\ UNCHANGED <<container, index, at, back, reading, history>>

Return ==
  /\ at = "lua"
  /\ at' = back
  /\ UNCHANGED <<container, index, listening, back, reading, history>>

\* a timer or another connection runs Lua code
OtherEvent ==
  /\ at = "loop"
  /\ CallLua("loop")
  /\ UNCHANGED <<container, index, listening, reading, history>>

\* client_manager_release at the end of the process
Release ==
  /\ at = "loop"
  /\ at' = "down"
  /\ listening' = FALSE
  /\ mgr' = [s \in Slot |-> NoClient]
  /\ freelist' = [i \in 1 .. MaxClient |-> MaxClient - i]
  /\ UNCHANGED <<index, back, reading, history>>

-----------------------------------------------------------------------------
LuaStep ==
  \/ \E id \in accepted, s \in Slot : CloseNow(id, s) \/ CloseGrace(id, s) \/ Send(id, s)
  \/ Listen

ManagerNext ==
  \/ Accept \/ Reject \/ OtherEvent \/ Release
  \/ \E s \in Slot : PeerSend(s, "good") \/ PeerSend(s, "bad") \/ PeerClose(s)
  \/ \E s \in Slot : ReadEvent(s) \/ ReadFails(s) \/ TimeoutFreq(s) \/ Timeout(s) \/ WriteDrained(s) \/ WriteFails(s)
  \/ GoodPacket \/ BadPacket \/ ReadDone \/ ReadFreed \/ TimeoutFreed
  \/ LuaStep \/ Return

ManagerSpec == ManagerInit /\ [][ManagerNext]_manager_vars

\* libev calls the callback of every ready watcher, and callbacks return.
ManagerFairSpec ==
  /\ ManagerSpec
  /\ WF_manager_vars(Return) /\ WF_manager_vars(GoodPacket \/ BadPacket \/ ReadDone \/ ReadFreed) /\ WF_manager_vars(TimeoutFreed)
  /\ \A s \in Slot : /\ SF_manager_vars(ReadEvent(s)) /\ SF_manager_vars(ReadFails(s))
                     /\ SF_manager_vars(WriteDrained(s) \/ WriteFails(s))

-----------------------------------------------------------------------------
ManagerTypeOK ==
  /\ mgr \in [Slot -> ClientRec \cup {NoClient}]
  /\ freelist \in Seq(Slot)
  /\ index \in Nat /\ listening \in BOOLEAN
  /\ at \in {"loop", "read", "lua", "timeout", "down"} /\ back \in {"loop", "read", "timeout"}
  /\ reading \in Slot
  /\ accepted \subseteq Nat /\ reported \subseteq accepted /\ silent \subseteq accepted

\* A slot is in the freelist of the container or holds a client, once: no
\* order of errors, closes, marks and timeouts frees a client twice or leaks
\* its slot, so MaxClient connections can always be served again.
SlotsOwned ==
  /\ {freelist[i] : i \in DOMAIN freelist} = Slot \ Live
  /\ \A i, j \in DOMAIN freelist : freelist[i] = freelist[j] => i = j

\* close_func is called at most once for a client, and then the client is gone.
ReportedOnce ==
  /\ again = {}
  /\ \A s \in Live : mgr[s].id \notin reported

\* No packet of a client reaches data_func after Lua closed it at once or was
\* told by close_func that it is gone, also when packets were already buffered.
NothingLate == late = {}

\* Ids are below the next index, and the live ones were accepted, are not
\* reported, differ, and are marked if Lua closed them.
LiveIds ==
  /\ \A id \in accepted : id < index * MaxOffset
  /\ \A s \in Live : /\ mgr[s].id \in accepted
                     /\ mgr[s].id \in silent => mgr[s].mark
  /\ \A s, t \in Live : mgr[s].id = mgr[t].id => s = t

\* The inductive invariant.
ClientInv == ManagerTypeOK /\ SlotsOwned /\ LiveIds /\ ReportedOnce /\ NothingLate

\* An id Lua still holds names its client or no client: never the one that has
\* taken over the slot.
NamesItsClient == misnamed = {}

\* A connection the peer has left or Lua has closed is freed in the end: none
\* of the paths through error_happen, mark and close_complete is missed.
ClosedIsFreed ==
  \A id \in 1 .. (MaxAccept + 1) * MaxOffset :
    (\E s \in Live : mgr[s].id = id /\ (mgr[s].gone \/ mgr[s].grace \/ mgr[s].mark))
      ~> at = "down" \/ ~ \E s \in Live : mgr[s].id = id
=============================================================================
