--------------------------- MODULE CheckpointStore ---------------------------
(***************************************************************************)
(* SqliteCheckpointer of src/actants/agents/checkpoint.py over open_sqlite *)
(* of src/actants/storage/sqlite.py: processes that share one file, each   *)
(* with one checkpointer.  A call is a coroutine that may wait for the     *)
(* checkpointer's lock and then for a worker thread; the worker opens one  *)
(* connection to see to the schema and another for the statement.  A call  *)
(* can be cancelled at either wait, which stops the coroutine and not the  *)
(* worker, and a process can die at any moment.                            *)
(*                                                                         *)
(* SQLite is modelled by what the code relies on: a transaction is seen    *)
(* whole or not at all, a statement that begins a transaction by writing   *)
(* waits for the writer before it, though not for ever, and one that began *)
(* by reading fails if another writer is at work or has committed since.   *)
(***************************************************************************)
EXTENDS Naturals

CONSTANTS Ops,        \* the calls, numbered in the order they are made
          Threads,
          Stores,     \* processes
          MaxFaults   \* bound: calls cancelled and processes that die

ASSUME OpsAssumption == Ops \subseteq Nat \ {0}

VARIABLES
  file,     \* [version, table, rows]: what is committed
  writer,   \* the worker that holds the write lock of the file, or 0
  store,    \* [Stores -> the holder of its lock, and the flag of its schema]
  op,       \* [Ops -> the call and its worker]
  faults

vars == <<file, writer, store, op, faults>>

Kinds == {"put", "get", "delete"}
Ours == 1         \* SCHEMA_VERSION
Versions == {0, Ours, 2}

Unused == [ kind |-> "none", thread |-> "none", store |-> "none",
            pc |-> "idle",        \* the coroutine: queued, waiting, returned, failed, cancelled
            worker |-> "none",    \* schema, create, execute, commit, over, failed, dead
            late |-> FALSE,       \* history: the table was there when the call was made
            result |-> 0,         \* the record read or removed
            error |-> "none" ]
Closed == [holder |-> 0, initialized |-> FALSE]

(***************************************************************************)
(* A file is new, ours, or of another schema.  A version without a table   *)
(* is that of another component, and treated like none.                    *)
(***************************************************************************)
Init ==
  /\ file \in [version : Versions, table : BOOLEAN, rows : {[t \in Threads |-> 0]}]
  /\ file.table <=> file.version # 0
  /\ writer = 0
  /\ store = [s \in Stores |-> Closed]
  /\ op = [o \in Ops |-> Unused]
  /\ faults = 0

Writes(k) == k \in {"put", "delete"}
Goto(o, label) == op' = [op EXCEPT ![o].pc = label]
Works(o, label) == op' = [op EXCEPT ![o].worker = label]
Row(o) == file' = [file EXCEPT !.rows[op[o].thread] = IF op[o].kind = "put" THEN o ELSE 0]

(***************************************************************************)
(* put, get and delete up to the worker: those that write wait for the     *)
(* lock, in the order of their calls.                                      *)
(***************************************************************************)
\* Mutant: no call waits for the lock.
Call_Unlocked(o, s, k, t) ==
  /\ op[o] = Unused /\ \A p \in Ops : p < o => op[p] # Unused
  /\ op' = [op EXCEPT ![o] = [Unused EXCEPT !.kind = k, !.thread = t, !.store = s,
                                           !.late = file.table, !.pc = "waiting", !.worker = "schema"]]
  /\ UNCHANGED <<file, writer, store, faults>>

Call(o, s, k, t) ==
  LET made == [Unused EXCEPT !.kind = k, !.thread = t, !.store = s, !.late = file.table]
  IN /\ op[o] = Unused /\ \A p \in Ops : p < o => op[p] # Unused
     /\ IF Writes(k)
        THEN op' = [op EXCEPT ![o] = [made EXCEPT !.pc = "queued"]]
        ELSE op' = [op EXCEPT ![o] = [made EXCEPT !.pc = "waiting", !.worker = "schema"]]
     /\ UNCHANGED <<file, writer, store, faults>>

\* The lock wakes its waiters in the order they came.
Acquire(o) ==
  LET s == op[o].store
  IN /\ op[o].pc = "queued" /\ store[s].holder = 0
     /\ \A p \in Ops : op[p].store = s /\ op[p].pc = "queued" => o <= p
     /\ store' = [store EXCEPT ![s].holder = o]
     /\ op' = [op EXCEPT ![o].pc = "waiting", ![o].worker = "schema"]
     /\ UNCHANGED <<file, writer, faults>>

(***************************************************************************)
(* _ensure_schema: the flag, then a transaction that starts with a read.   *)
(* The first commit to a file without the table is the one that makes it,  *)
(* so what the reader saw is stale exactly when the table is there.        *)
(***************************************************************************)
Initialized(s) == store' = [store EXCEPT ![s].initialized = TRUE]

\* Mutant: an existing table is not looked for before the version is written.
EnsureSchema_Always(o) ==
  /\ op[o].worker = "schema"
  /\ IF store[op[o].store].initialized THEN Works(o, "execute")
     ELSE Works(o, "create")
  /\ UNCHANGED <<file, writer, store, faults>>

EnsureSchema(o) ==
  /\ op[o].worker = "schema"
  /\ IF store[op[o].store].initialized
     THEN Works(o, "execute") /\ UNCHANGED store
     ELSE IF file.table /\ file.version = Ours
     THEN Works(o, "execute") /\ Initialized(op[o].store)
     ELSE IF file.table
     THEN op' = [op EXCEPT ![o].worker = "failed", ![o].error = "mismatch"] /\ UNCHANGED store
     ELSE Works(o, "create") /\ UNCHANGED store
  /\ UNCHANGED <<file, writer, faults>>

CreateTable(o) ==
  /\ op[o].worker = "create"
  /\ IF writer = 0 /\ ~file.table
     THEN /\ file' = [file EXCEPT !.version = Ours, !.table = TRUE]
          /\ Initialized(op[o].store) /\ Works(o, "execute")
     ELSE /\ op' = [op EXCEPT ![o].worker = "failed", ![o].error = "locked"]
          /\ UNCHANGED <<file, store>>
  /\ UNCHANGED <<writer, faults>>

(***************************************************************************)
(* The statement of the call.  A write takes the file's write lock and     *)
(* commits when the block is left.                                         *)
(***************************************************************************)
Select(o) ==
  /\ op[o].worker = "execute" /\ ~Writes(op[o].kind)
  /\ op' = [op EXCEPT ![o].worker = "over", ![o].result = file.rows[op[o].thread]]
  /\ UNCHANGED <<file, writer, store, faults>>

Execute(o) ==
  /\ op[o].worker = "execute" /\ Writes(op[o].kind) /\ writer = 0
  /\ writer' = o /\ Works(o, "commit")
  /\ UNCHANGED <<file, store, faults>>

\* The writer before it stalls for longer than timeout, and the statement raises
\* "database is locked". No part of Work: that this happens is not counted on.
TimeOut(o) ==
  /\ op[o].worker = "execute" /\ Writes(op[o].kind) /\ writer # 0
  /\ op' = [op EXCEPT ![o].worker = "failed", ![o].error = "locked"]
  /\ UNCHANGED <<file, writer, store, faults>>

\* Mutant: the row is updated only if the thread has none.
CommitRow_Once(o) ==
  /\ op[o].worker = "commit"
  /\ IF op[o].kind = "put" /\ file.rows[op[o].thread] # 0 THEN UNCHANGED file
     ELSE Row(o)
  /\ writer' = 0
  /\ op' = [op EXCEPT ![o].worker = "over",
                      ![o].result = IF op[o].kind = "put" THEN 0 ELSE file.rows[op[o].thread]]
  /\ UNCHANGED <<store, faults>>

CommitRow(o) ==
  /\ op[o].worker = "commit"
  /\ Row(o)
  /\ writer' = 0
  /\ op' = [op EXCEPT ![o].worker = "over",
                      ![o].result = IF op[o].kind = "put" THEN 0 ELSE file.rows[op[o].thread]]
  /\ UNCHANGED <<store, faults>>

(***************************************************************************)
(* The way out: with the worker's outcome, or without it.                  *)
(***************************************************************************)
Release(o) == store' = [store EXCEPT ![op[o].store].holder = IF @ = o THEN 0 ELSE @]

\* Mutant: a call that failed keeps the lock.
Return_KeepsLock(o) ==
  /\ op[o].pc = "waiting" /\ op[o].worker \in {"over", "failed"}
  /\ Goto(o, IF op[o].worker = "over" THEN "returned" ELSE "failed")
  /\ IF op[o].worker = "over" THEN Release(o) ELSE UNCHANGED store
  /\ UNCHANGED <<file, writer, faults>>

Return(o) ==
  /\ op[o].pc = "waiting" /\ op[o].worker \in {"over", "failed"}
  /\ Goto(o, IF op[o].worker = "over" THEN "returned" ELSE "failed")
  /\ Release(o)
  /\ UNCHANGED <<file, writer, faults>>

\* A worker that is still in the executor's queue is taken out of it.
Cancel(o) ==
  /\ op[o].pc \in {"queued", "waiting"} /\ faults < MaxFaults
  /\ faults' = faults + 1
  /\ \/ Goto(o, "cancelled")
     \/ op[o].worker = "schema" /\ op' = [op EXCEPT ![o].pc = "cancelled", ![o].worker = "dead"]
  /\ Release(o)
  /\ UNCHANGED <<file, writer>>

Alive(o, s) == op[o].store = s /\ op[o].pc \in {"queued", "waiting", "cancelled"}

Crash(s) ==
  /\ faults < MaxFaults
  /\ faults' = faults + 1
  /\ op' = [o \in Ops |-> IF ~Alive(o, s) THEN op[o]
                          ELSE [op[o] EXCEPT !.pc = "cancelled",
                                             !.worker = IF @ = "over" THEN @ ELSE "dead"]]
  /\ store' = [store EXCEPT ![s] = Closed]
  /\ writer' = IF writer # 0 /\ op[writer].store = s THEN 0 ELSE writer
  /\ UNCHANGED file

Work(o) == EnsureSchema(o) \/ CreateTable(o) \/ Select(o) \/ Execute(o) \/ CommitRow(o)
Advance(o) == Acquire(o) \/ Work(o) \/ Return(o)

Next ==
  \/ \E o \in Ops : \/ \E s \in Stores, k \in Kinds, t \in Threads : Call(o, s, k, t)
                    \/ Advance(o) \/ TimeOut(o) \/ Cancel(o)
  \/ \E s \in Stores : Crash(s)

Spec == Init /\ [][Next]_vars
FairSpec == Spec /\ WF_vars(\E o \in Ops : Advance(o))
-----------------------------------------------------------------------------
(***************************************************************************)
(* The register a state stands for: a call is open until its row is read   *)
(* or committed, and lost if it was cancelled before.                      *)
(***************************************************************************)
Took(o) == op[o].worker = "over"
CallState(o) ==
  CASE op[o].pc = "idle" -> "idle"
    [] op[o].pc \in {"queued", "waiting"} -> IF Took(o) THEN "took" ELSE "open"
    [] op[o].pc \in {"returned", "failed"} -> "done"
    [] op[o].pc = "cancelled" -> IF Took(o) THEN "done" ELSE "lost"

AbstractCall(o) ==
  [state |-> CallState(o), kind |-> op[o].kind, thread |-> op[o].thread,
   result |-> op[o].result, failed |-> op[o].pc = "failed"]

Register == INSTANCE CheckpointRegister
              WITH value <- file.rows, call <- [o \in Ops |-> AbstractCall(o)]

(***************************************************************************)
(* The store is one register for each thread, whatever the processes, the  *)
(* cancellations and the crashes.                                          *)
(***************************************************************************)
IsRegister == Register!Spec

(***************************************************************************)
(* The calls of one process on one thread land in the order they were      *)
(* made, except those whose caller gave up: a record that lands over a     *)
(* newer one is one nobody waits for (checkpoint.py:229).                  *)
(***************************************************************************)
Same(o, p) == op[o].store = op[p].store /\ op[o].thread = op[p].thread
OlderNeverLandsOver ==
  [][\A o, p \in Ops :
       o < p /\ Same(o, p) /\ Writes(op[o].kind) /\ Writes(op[p].kind) /\ Took(p) /\ ~Took(o) /\ Took(o)'
         => op[o].pc = "cancelled"]_vars

(***************************************************************************)
(* "Safe to open from several processes" (checkpoint.py:163), as far as it *)
(* goes.  A call finds the file locked while it makes the table, if it was *)
(* made before there was one, or behind a writer that stalls; and that     *)
(* writer is never one of its own process (checkpoint.py:229), unless the  *)
(* caller of one of the two gave up.  On a file of another schema every    *)
(* call fails without a trace.                                             *)
(***************************************************************************)
GaveUp(o) == op[o].pc = "cancelled"
LockedOutByOthers ==
  [][\A o \in Ops :
       /\ op[o].error = "none" /\ op'[o].error = "locked" =>
            \/ op[o].worker = "create" /\ ~op[o].late
            \/ /\ op[o].worker = "execute" /\ writer \in Ops
               /\ op[writer].store = op[o].store => GaveUp(o) \/ GaveUp(writer)
       /\ op'[o].error = "mismatch" =>
            /\ file' = file
            /\ \A p \in Ops : op'[p].worker # "over" /\ op'[p].error # "locked"]_vars

(***************************************************************************)
(* Every call comes back, with an answer or an error, unless its process   *)
(* or its caller is gone.                                                  *)
(***************************************************************************)
Ended(o) == op[o].pc \notin {"queued", "waiting"}
EveryCallEnds == []<>(\A o \in Ops : Ended(o))
=============================================================================
