------------------------------ MODULE DataLog ------------------------------
(***************************************************************************)
(* The data server, script/handler/data_handler.lua: documents in a cache  *)
(* with a linked-list LRU, every update appended to one log file, and the  *)
(* log written to one file per document from time to time, at stop, when a *)
(* document that left the cache is loaded, and at start after a crash.     *)
(*                                                                         *)
(* Handlers do not yield, so one is one step, except that the process can  *)
(* die between the removal of the log and each of the saves that follow.   *)
(* A save writes a .bak file and renames it, so a single document is       *)
(* replaced atomically.                                                    *)
(***************************************************************************)
EXTENDS Naturals, Sequences

CONSTANTS Id,            \* documents of one collection
          Field, Val,    \* their fields and field values
          Nil,           \* nil
          CacheMax,      \* documents the cache holds (100 in the code)
          MaxLog         \* bound: records in the log

ASSUME DataAssumption ==
  /\ Nil \notin Id \cup [Field -> Val]
  /\ {"down", "idle", "start", "timer", "stop"} \cap Id = {}
  /\ CacheMax \in Nat \ {0} /\ MaxLog \in Nat

Data == [Field -> Val]

VARIABLES
  cache,      \* _cached_data: id -> data
  lru,        \* the LRU list of the cache
  in_log,     \* _data_in_log
  handle,     \* LOG_FILE: "nil", "open", or a "closed" file
  log,        \* the log file
  disk,       \* the document files
  pending,    \* need_dump_disk: documents still to be saved
  task,       \* what runs: "down", "idle", or what a dump is done for
  truth,      \* each document after the operations that were acknowledged
  torn        \* documents set, or not yet saved when the process died, since
              \* their last update: they depend on log_recover's SET and order

data_vars == <<cache, lru, in_log, handle, log, disk, pending, task, truth, torn>>

NoDocs == [i \in Id |-> Nil]

-----------------------------------------------------------------------------
(* lru:insert, on the pointers of its nodes *)

EmptyLru ==
  [head |-> Nil, tail |-> Nil, pre |-> NoDocs, nxt |-> NoDocs, known |-> {}, count |-> 0]

\* a new node goes to the head
PushFront(l, id) ==
  [head |-> id,
   tail |-> IF l.head = Nil THEN id ELSE l.tail,
   pre |-> [i \in Id |-> IF i = l.head THEN id ELSE IF i = id THEN Nil ELSE l.pre[i]],
   nxt |-> [l.nxt EXCEPT ![id] = l.head],
   known |-> l.known \cup {id},
   count |-> l.count + 1]

\* the tail is unloaded; its node stays in node_ctx, and a tail without a
\* predecessor raises an error after the unload
DropTail(l) ==
  LET last == IF l.tail = Nil THEN Nil ELSE l.pre[l.tail]
  IN [lru |-> IF last = Nil
              THEN [l EXCEPT !.tail = Nil]
              ELSE [l EXCEPT !.tail = last, !.nxt[last] = Nil, !.count = @ - 1],
      out |-> l.tail,
      ok |-> last # Nil]

\* a known node moves to the head; neither the old head's pre nor the tail
\* is updated
MoveFront(l, id) ==
  IF l.pre[id] = Nil
  THEN l
  ELSE LET p == l.pre[id]
           n == l.nxt[id]
       IN [l EXCEPT !.head = id,
                    !.nxt = [i \in Id |-> IF i = id THEN l.head ELSE IF i = p THEN n ELSE l.nxt[i]],
                    !.pre = [i \in Id |-> IF i = id THEN Nil ELSE IF i = n THEN p ELSE l.pre[i]]]

\* the list after an insert, the document it unloads, and whether it returns
Insert(l, id) ==
  IF id \in l.known
  THEN [lru |-> MoveFront(l, id), out |-> Nil, ok |-> TRUE]
  ELSE LET new == PushFront(l, id)
       IN IF new.count > CacheMax THEN DropTail(new) ELSE [lru |-> new, out |-> Nil, ok |-> TRUE]

\* update_cached
Cached(c, id, data, out) ==
  [i \in Id |-> IF i = out THEN Nil ELSE IF i = id THEN data ELSE c[i]]

-----------------------------------------------------------------------------
(* the log *)

UpdateRec(id, data) == [op |-> "update", id |-> id, data |-> data]
SetRec(id, f, v) == [op |-> "set", id |-> id, data |-> [x \in {f} |-> v]]

Merge(data, setter) == [f \in Field |-> IF f \in DOMAIN setter THEN setter[f] ELSE data[f]]

\* fault: the first record of a document wins
ReplayFirst(acc, r) ==
  IF acc.err = "none" /\ r.op = "update" /\ acc.info[r.id] = Nil
  THEN [acc EXCEPT !.info[r.id] = r.data]
  ELSE acc

\* log_recover for one record.  A SET takes the cached document or the one on
\* disk in place of what the log said before it, and only if the log said
\* something; the cached document is changed in place.  err is the assertion
\* that ends the recovery.
ReplayRec(acc, r) ==
  LET base == IF acc.cache[r.id] # Nil THEN acc.cache[r.id] ELSE disk[r.id]
      doc == Merge(base, r.data)
  IN IF acc.err # "none" THEN acc
     ELSE IF r.op = "update" THEN [acc EXCEPT !.info[r.id] = r.data]
     ELSE IF acc.info[r.id] = Nil THEN [acc EXCEPT !.err = "no document"]
     ELSE IF base = Nil THEN [acc EXCEPT !.err = "no file"]
     ELSE [acc EXCEPT !.info[r.id] = doc,
                      !.cache[r.id] = IF @ = Nil THEN Nil ELSE doc]

\* log_recover over the whole log: R[n] is what it has after n records
Replay(c) ==
  LET R[n \in 0 .. Len(log)] ==
        IF n = 0 THEN [info |-> NoDocs, cache |-> c, err |-> "none"]
                 ELSE ReplayRec(R[n - 1], log[n])
  IN R[Len(log)]

DataInit ==
  /\ cache = NoDocs /\ lru = EmptyLru /\ in_log = {} /\ handle = "nil"
  /\ log = <<>> /\ disk = NoDocs /\ pending = NoDocs
  /\ task = "idle"
  /\ truth = NoDocs /\ torn = {}

\* fault: the document is noted only when the log is opened
LogDataNotedOnce(r, doc) ==
  /\ in_log' = IF handle = "nil" THEN in_log \cup {r.id} ELSE in_log
  /\ handle # "closed"
  /\ handle' = "open"
  /\ log' = Append(log, r)
  /\ truth' = [truth EXCEPT ![r.id] = doc]
  /\ torn' = IF r.op = "set" THEN torn \cup {r.id} ELSE torn \ {r.id}

\* log_data: the document is noted as being in the log before the write
\* raises on a closed file; doc is the document if the record is written
LogData(r, doc) ==
  /\ in_log' = in_log \cup {r.id}
  /\ IF handle = "closed"
     THEN UNCHANGED <<handle, log, truth, torn>>
     ELSE /\ handle' = "open"
          /\ log' = Append(log, r)
          /\ truth' = [truth EXCEPT ![r.id] = doc]
          /\ torn' = IF r.op = "set" THEN torn \cup {r.id} ELSE torn \ {r.id}

-----------------------------------------------------------------------------
(* the handlers *)

Idle == task = "idle" /\ Len(log) < MaxLog

Update(id, data) ==
  /\ Idle
  /\ LET ins == Insert(lru, id)
     IN /\ lru' = ins.lru
        /\ cache' = Cached(cache, id, data, ins.out)
        /\ IF ins.ok
           THEN LogData(UpdateRec(id, data), data)
           ELSE UNCHANGED <<in_log, handle, log, truth, torn>>
  /\ UNCHANGED <<disk, pending, task>>

\* only a cached document can be set
Set(id, f, v) ==
  /\ Idle
  /\ cache[id] # Nil
  /\ cache' = [cache EXCEPT ![id] = Merge(@, SetRec(id, f, v).data)]
  /\ lru' = Insert(lru, id).lru
  /\ LogData(SetRec(id, f, v), cache'[id])
  /\ UNCHANGED <<disk, pending, task>>

\* log_recover reads the log and removes the file; the saves follow as steps
\* of Dump.  If it raises, the file stays and LOG_FILE is a closed file.
Recover(c, next) ==
  LET r == Replay(c)
  IN /\ cache' = r.cache
     /\ handle' = "closed"
     /\ IF r.err = "none"
        THEN /\ pending' = r.info
             /\ log' = <<>>
             /\ task' = next
        ELSE UNCHANGED <<pending, log, task>>

\* load of a document that is neither cached nor in the log
LoadFromDisk(id) ==
  IF disk[id] = Nil
  THEN UNCHANGED <<cache, lru>>
  ELSE LET ins == Insert(lru, id)
       IN /\ lru' = ins.lru
          /\ cache' = Cached(cache, id, disk[id], ins.out)

Load(id) ==
  /\ task = "idle"
  /\ cache[id] = Nil
  /\ IF id \in in_log
     THEN /\ handle = "open"
          /\ Recover(cache, id)
          /\ UNCHANGED <<lru, in_log, disk, truth, torn>>
     ELSE /\ LoadFromDisk(id)
          /\ UNCHANGED <<in_log, handle, log, disk, pending, task, truth, torn>>

\* the timer's log_flush, and stop
Flush(next) ==
  /\ task = "idle"
  /\ handle = "open"
  /\ Recover(cache, next)
  /\ UNCHANGED <<lru, in_log, disk, truth, torn>>

\* persistence:save of one document
Dump(id) ==
  /\ task \notin {"down", "idle"}
  /\ pending[id] # Nil
  /\ disk' = [disk EXCEPT ![id] = pending[id]]
  /\ pending' = [pending EXCEPT ![id] = Nil]
  /\ UNCHANGED <<cache, lru, in_log, handle, log, task, truth, torn>>

\* the end of log_recover, and what its caller goes on with
DumpDone ==
  /\ task \notin {"down", "idle"}
  /\ pending = NoDocs
  /\ in_log' = {}
  /\ handle' = IF task = "start" THEN "nil" ELSE IF task = "stop" THEN "closed" ELSE "open"
  /\ task' = "idle"
  /\ IF task \in Id THEN LoadFromDisk(task) ELSE UNCHANGED <<cache, lru>>
  /\ UNCHANGED <<log, disk, pending, truth, torn>>

Crash ==
  /\ task # "down"
  /\ task' = "down"
  /\ torn' = torn \cup {id \in Id : pending[id] # Nil}
  /\ cache' = NoDocs /\ lru' = EmptyLru /\ in_log' = {} /\ handle' = "nil" /\ pending' = NoDocs
  /\ UNCHANGED <<log, disk, truth>>

\* __init__: a log that cannot be replayed keeps the server down
Restart ==
  /\ task = "down"
  /\ Replay(cache).err = "none"
  /\ pending' = Replay(cache).info
  /\ log' = <<>>
  /\ task' = "start"
  /\ UNCHANGED <<cache, lru, in_log, handle, disk, truth, torn>>

DataNext ==
  \/ \E id \in Id : \E d \in Data : Update(id, d)
  \/ \E id \in Id, f \in Field, v \in Val : Set(id, f, v)
  \/ \E id \in Id : Load(id) \/ Dump(id)
  \/ Flush("timer") \/ Flush("stop")
  \/ DumpDone
  \/ Crash \/ Restart

DataSpec == DataInit /\ [][DataNext]_data_vars

-----------------------------------------------------------------------------
\* the i-th record of the log is the newest one of document id
Newest(id, i) == log[i].id = id /\ \A j \in DOMAIN log : j > i => log[j].id # id

\* Replaying the log over the document files gives every acknowledged update,
\* also after crashes, failed recoveries and updates that raised: of a document
\* that was not set nor caught in a dump by a crash since, nothing is lost.
LogHoldsUpdates ==
  task \in {"down", "idle"} =>
    \A id \in Id \ torn :
      /\ (\A i \in DOMAIN log : log[i].id # id) => truth[id] = disk[id]
      /\ \A i \in DOMAIN log : Newest(id, i) => truth[id] = log[i].data

\* load never reads an old file: a document that is not cached and not noted
\* as being in the log is up to date on disk (the same documents as above).
DiskIsCurrent ==
  task = "idle" =>
    \A id \in Id \ torn : cache[id] = Nil /\ id \notin in_log => disk[id] = truth[id]

\* 把所有从日志文件的数据，写到各自的文件中 (write all data of the log file to
\* the documents' own files): once the log is gone, the files hold every
\* acknowledged operation.
RecoverWritesAll ==
  task = "idle" /\ log = <<>> => disk = truth

-----------------------------------------------------------------------------
(* The inductive invariant of the proofs *)

Setter == UNION {[F -> Val] : F \in SUBSET Field}
Record == [op : {"update", "set"}, id : Id, data : Setter]
Docs == [Id -> Data \cup {Nil}]

DataTypeOK ==
  /\ cache \in Docs /\ disk \in Docs /\ pending \in Docs /\ truth \in Docs
  /\ in_log \subseteq Id /\ torn \subseteq Id
  /\ log \in Seq(Record)
  /\ \A i \in DOMAIN log : log[i].op = "update" => log[i].data \in Data
  /\ task \in {"down", "idle", "start", "timer", "stop"} \cup Id

\* a document that is not torn was not set after its newest update
UpdatedLast ==
  \A id \in Id \ torn : \A i \in DOMAIN log : Newest(id, i) => log[i].op = "update"

\* while log_recover saves, the log is gone and every document is either still
\* to be saved or current on disk
DumpHoldsUpdates ==
  IF task \in {"down", "idle"}
  THEN pending = NoDocs
  ELSE /\ log = <<>>
       /\ \A id \in Id \ torn : truth[id] = IF pending[id] # Nil THEN pending[id] ELSE disk[id]

\* _data_in_log has every document of the log
LogIsNoted == task = "idle" => \A i \in DOMAIN log : log[i].id \in in_log

DataInv ==
  /\ DataTypeOK /\ UpdatedLast /\ DumpHoldsUpdates /\ LogIsNoted /\ LogHoldsUpdates
=============================================================================
