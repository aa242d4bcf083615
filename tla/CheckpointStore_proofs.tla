----------------------- MODULE CheckpointStore_proofs -----------------------
(***************************************************************************)
(* Proofs about CheckpointStore, for any calls, threads, processes and     *)
(* faults: who may find the file locked, in which order records land,      *)
(* that the store is a register for each thread, and that its two locks    *)
(* let every call come back.                                               *)
(***************************************************************************)
EXTENDS CheckpointStore, WellFoundedInduction, TLAPS

-----------------------------------------------------------------------------
(* The inductive invariant.                                                *)

CallRec == [kind : Kinds \cup {"none"}, thread : Threads \cup {"none"},
            store : Stores \cup {"none"},
            pc : {"idle", "queued", "waiting", "returned", "failed", "cancelled"},
            worker : {"none", "schema", "create", "execute", "commit", "over", "failed", "dead"},
            late : BOOLEAN, result : Ops \cup {0}, error : {"none", "mismatch", "locked"}]

TypeOK ==
  /\ file \in [version : Versions, table : BOOLEAN, rows : [Threads -> Ops \cup {0}]]
  /\ writer \in Ops \cup {0}
  /\ store \in [Stores -> [holder : Ops \cup {0}, initialized : BOOLEAN]]
  /\ op \in [Ops -> CallRec]

\* Where a coroutine and its worker can be, and who holds the lock.
CallOK(o) ==
  /\ op[o].pc = "idle" => op[o] = Unused
  /\ op[o].pc # "idle" => op[o].kind \in Kinds /\ op[o].thread \in Threads /\ op[o].store \in Stores
  /\ op[o].pc = "queued" => Writes(op[o].kind) /\ op[o].worker = "none"
  /\ op[o].pc = "waiting" => op[o].worker \notin {"none", "dead"}
  /\ op[o].pc = "returned" => op[o].worker = "over"
  /\ op[o].pc = "failed" => op[o].worker = "failed"
  /\ op[o].worker = "commit" => Writes(op[o].kind)
  /\ op[o].pc = "waiting" /\ Writes(op[o].kind) => store[op[o].store].holder = o

\* What is known of the file follows from what the workers saw of it.
FileOK ==
  /\ file.table <=> file.version # 0
  /\ \A s \in Stores : store[s].initialized => file.version = Ours
  /\ \A o \in Ops :
       /\ op[o].late => file.table
       /\ file.version \notin {0, Ours} /\ op[o].pc # "idle" => op[o].late
       /\ op[o].worker = "create" => ~op[o].late
       /\ op[o].worker \in {"execute", "commit", "over"} => file.version = Ours
       /\ op[o].error = "locked" => ~op[o].late \/ file.version = Ours
       /\ op[o].error = "mismatch" => op[o].late /\ file.version # Ours

\* Calls are made in their order, and one that writes does not start to work
\* before the writes of its process made before it are over or given up.
Gone(o) == op[o].pc \in {"returned", "failed", "cancelled"}
OrderOK ==
  \A o, p \in Ops : o < p =>
    /\ op[p].pc # "idle" => op[o].pc # "idle"
    /\ op[o].store = op[p].store /\ Writes(op[o].kind) /\ Writes(op[p].kind)
         /\ op[p].worker # "none" => Gone(o)

IInv == TypeOK /\ (\A o \in Ops : CallOK(o)) /\ FileOK /\ OrderOK

-----------------------------------------------------------------------------
(* A call that is under way takes a step.                                  *)

\* r is the call after the step.
Advanced(o, r) ==
  /\ op' = [op EXCEPT ![o] = r]
  /\ r \in CallRec
  /\ r.kind = op[o].kind /\ r.thread = op[o].thread /\ r.store = op[o].store
  /\ r.late = op[o].late
  /\ op[o].pc # "idle" /\ r.pc # "idle"

LEMMA AdvancedFacts ==
  ASSUME IInv, NEW o \in Ops, NEW r, Advanced(o, r)
  PROVE  /\ op' \in [Ops -> CallRec]
         /\ op'[o] = r
         /\ \A p \in Ops : p # o => op'[p] = op[p]
         /\ \A p \in Ops : /\ op'[p].kind = op[p].kind /\ op'[p].thread = op[p].thread
                           /\ op'[p].store = op[p].store /\ op'[p].late = op[p].late
                           /\ op'[p].pc = "idle" <=> op[p].pc = "idle"
<1>1. /\ op' \in [Ops -> CallRec] /\ op'[o] = r
      /\ \A p \in Ops : p # o => op'[p] = op[p]
  BY DEF IInv, TypeOK, Advanced
<1>. QED
  BY <1>1 DEF Advanced

LEMMA AdvancedOrder ==
  ASSUME IInv, NEW o \in Ops, NEW r, Advanced(o, r),
         Gone(o) => r.pc \in {"returned", "failed", "cancelled"},
         r.worker # "none" /\ Writes(r.kind) =>
           \/ op[o].worker # "none"
           \/ \A p \in Ops : p < o /\ op[p].store = op[o].store /\ Writes(op[p].kind) => Gone(p)
  PROVE  OrderOK'
<1>1. /\ op'[o] = r /\ \A p \in Ops : p # o => op'[p] = op[p]
      /\ \A p \in Ops : /\ op'[p].kind = op[p].kind /\ op'[p].store = op[p].store
                        /\ op'[p].pc = "idle" <=> op[p].pc = "idle"
  BY AdvancedFacts
<1>2. r.kind = op[o].kind /\ r.store = op[o].store
  BY DEF Advanced
<1>3. \A p \in Ops : Gone(p) => Gone(p)'
  BY <1>1 DEF Gone
<1> SUFFICES ASSUME NEW q \in Ops, NEW p \in Ops, q < p
             PROVE  /\ op'[p].pc # "idle" => op'[q].pc # "idle"
                    /\ op'[q].store = op'[p].store /\ Writes(op'[q].kind) /\ Writes(op'[p].kind)
                         /\ op'[p].worker # "none" => Gone(q)'
  BY DEF OrderOK
<1>4. op'[p].pc # "idle" => op'[q].pc # "idle"
  BY <1>1 DEF IInv, OrderOK
<1>5. ASSUME op'[q].store = op'[p].store, Writes(op'[q].kind), Writes(op'[p].kind),
             op'[p].worker # "none"
      PROVE  Gone(q)
  <2>1. op[q].store = op[p].store /\ Writes(op[q].kind) /\ Writes(op[p].kind)
    BY <1>1, <1>5
  <2>2. CASE op[p].worker # "none"
    BY <2>1, <2>2 DEF IInv, OrderOK
  <2>3. CASE op[p].worker = "none"
    <3>1. p = o
      BY <1>1, <1>5, <2>3
    <3>. QED
      BY <1>1, <1>2, <1>5, <2>1, <2>3, <3>1
  <2>. QED
    BY <2>2, <2>3
<1>. QED
  BY <1>3, <1>4, <1>5

\* The calls of the others are as they were if the locks they hold are.
LEMMA AdvancedCalls ==
  ASSUME IInv, NEW o \in Ops, NEW r, Advanced(o, r), CallOK(o)',
         \A p \in Ops : p # o /\ op[p].pc = "waiting" /\ Writes(op[p].kind)
                          /\ store[op[p].store].holder = p
                          => store'[op[p].store].holder = p
  PROVE  \A p \in Ops : CallOK(p)'
<1> SUFFICES ASSUME NEW p \in Ops, p # o
             PROVE  CallOK(p)'
  OBVIOUS
<1>1. op'[p] = op[p]
  BY AdvancedFacts
<1>. QED
  BY <1>1 DEF IInv, CallOK

\* The worker of a call takes a step that leaves the file and the locks alone.
LEMMA WorkerStep ==
  ASSUME IInv, NEW o \in Ops, NEW r, Advanced(o, r), r.pc = op[o].pc,
         op[o].pc \in {"waiting", "cancelled"},
         op[o].worker \notin {"none", "over", "failed", "dead"},
         r.worker \notin {"none", "dead"},
         r.worker = "commit" => Writes(r.kind),
         \A s \in Stores : store'[s].holder = store[s].holder
  PROVE  OrderOK' /\ \A p \in Ops : CallOK(p)'
<1>1. /\ op'[o] = r
      /\ r.kind = op[o].kind /\ r.thread = op[o].thread /\ r.store = op[o].store
  BY AdvancedFacts DEF Advanced
<1>2. CallOK(o)'
  BY <1>1 DEF IInv, CallOK
<1>3. \A p \in Ops : op[p].pc = "waiting" => op[p].store \in Stores
  BY DEF IInv, CallOK
<1>4. \A p \in Ops : CallOK(p)'
  BY <1>2, <1>3, AdvancedCalls
<1>5. OrderOK'
  BY AdvancedOrder DEF Gone
<1>. QED
  BY <1>4, <1>5

LEMMA Labelled ==
  ASSUME IInv, NEW o \in Ops, op[o].pc # "idle",
         NEW label \in {"schema", "create", "execute", "commit", "over", "failed", "dead"},
         Works(o, label)
  PROVE  \E r : /\ Advanced(o, r) /\ r.pc = op[o].pc /\ r.worker = label
                /\ r.error = op[o].error /\ r.result = op[o].result
<1> DEFINE r == [op[o] EXCEPT !.worker = label]
<1>1. op[o] \in CallRec /\ op' = [op EXCEPT ![o] = r]
  BY DEF IInv, TypeOK, Works
<1>2. /\ r \in CallRec /\ r.kind = op[o].kind /\ r.thread = op[o].thread /\ r.store = op[o].store
      /\ r.late = op[o].late /\ r.pc = op[o].pc /\ r.worker = label
      /\ r.error = op[o].error /\ r.result = op[o].result
  BY <1>1 DEF CallRec
<1> HIDE DEF r
<1>. QED
  BY <1>1, <1>2 DEF Advanced

\* What is said of the file holds on if the file stays and the call that moves
\* does nothing it may not.
LEMMA SameFile ==
  ASSUME IInv, NEW o \in Ops, NEW r, Advanced(o, r),
         file'.version = file.version, file'.table = file.table,
         \A s \in Stores : store'[s].initialized => store[s].initialized \/ file.version = Ours,
         r.worker = "create" => op[o].worker = "create" \/ ~file.table,
         r.worker \in {"execute", "commit", "over"} => file.version = Ours,
         r.error = "locked" => op[o].error = "locked" \/ ~r.late \/ file.version = Ours,
         r.error = "mismatch" => op[o].error = "mismatch" \/ file.version \notin {0, Ours}
  PROVE  FileOK'
<1>1. /\ op'[o] = r /\ \A p \in Ops : p # o => op'[p] = op[p]
      /\ \A p \in Ops : op'[p].late = op[p].late /\ (op'[p].pc = "idle" <=> op[p].pc = "idle")
  BY AdvancedFacts
<1>2. FileOK /\ op[o].pc # "idle"
  BY DEF IInv, Advanced
<1>3. ASSUME NEW p \in Ops
      PROVE  /\ op'[p].late => file'.table
             /\ file'.version \notin {0, Ours} /\ op'[p].pc # "idle" => op'[p].late
             /\ op'[p].worker = "create" => ~op'[p].late
             /\ op'[p].worker \in {"execute", "commit", "over"} => file'.version = Ours
             /\ op'[p].error = "locked" => ~op'[p].late \/ file'.version = Ours
             /\ op'[p].error = "mismatch" => op'[p].late /\ file'.version # Ours
  <2>1. CASE p # o
    BY <1>1, <1>2, <2>1 DEF FileOK
  <2>2. CASE p = o
    BY <1>1, <1>2, <2>2 DEF FileOK
  <2>. QED
    BY <2>1, <2>2
<1>4. \A s \in Stores : store'[s].initialized => file'.version = Ours
  BY <1>2 DEF FileOK
<1>. QED
  BY <1>2, <1>3, <1>4 DEF FileOK

-----------------------------------------------------------------------------
(* The steps.                                                              *)

LEMMA CallStep ==
  ASSUME IInv, NEW o \in Ops, NEW s \in Stores, NEW k \in Kinds, NEW t \in Threads, Call(o, s, k, t)
  PROVE  IInv'
<1> DEFINE r == op'[o]
<1>1. /\ op' = [op EXCEPT ![o] = r] /\ UNCHANGED <<file, writer, store, faults>>
      /\ r \in CallRec /\ r.kind = k /\ r.thread = t /\ r.store = s /\ r.late = file.table
      /\ r.error = "none" /\ r.pc # "idle"
      /\ IF Writes(k) THEN r.pc = "queued" /\ r.worker = "none"
         ELSE r.pc = "waiting" /\ r.worker = "schema"
  <2> DEFINE made == [Unused EXCEPT !.kind = k, !.thread = t, !.store = s, !.late = file.table]
             u == IF Writes(k) THEN [made EXCEPT !.pc = "queued"]
                  ELSE [made EXCEPT !.pc = "waiting", !.worker = "schema"]
  <2>1. op' = [op EXCEPT ![o] = u] /\ UNCHANGED <<file, writer, store, faults>>
    BY DEF Call
  <2>2. file.table \in BOOLEAN
    BY DEF IInv, TypeOK
  <2>3. /\ made \in CallRec /\ made.kind = k /\ made.thread = t /\ made.store = s
        /\ made.late = file.table /\ made.error = "none" /\ made.worker = "none"
    BY <2>2 DEF CallRec, Unused
  <2> HIDE DEF made
  <2>4. /\ u \in CallRec /\ u.kind = k /\ u.thread = t /\ u.store = s
        /\ u.late = file.table /\ u.error = "none" /\ u.pc # "idle"
        /\ IF Writes(k) THEN u.pc = "queued" /\ u.worker = "none"
           ELSE u.pc = "waiting" /\ u.worker = "schema"
    BY <2>3 DEF CallRec
  <2> HIDE DEF u
  <2>5. r = u
    BY <2>1 DEF IInv, TypeOK
  <2>. QED
    BY <2>1, <2>4, <2>5
<1>2. op[o] = Unused /\ \A p \in Ops : p < o => op[p] # Unused
  BY DEF Call
<1> HIDE DEF r
<1>3. op' \in [Ops -> CallRec] /\ op'[o] = r /\ \A p \in Ops : p # o => op'[p] = op[p]
  BY <1>1 DEF IInv, TypeOK
<1>4. TypeOK'
  BY <1>1, <1>3 DEF IInv, TypeOK
<1>5. ASSUME NEW p \in Ops
      PROVE  CallOK(p)'
  <2>1. CASE p = o
    BY <1>1, <1>3, <2>1 DEF CallOK
  <2>2. CASE p # o
    BY <1>1, <1>3, <2>2 DEF CallOK, IInv
  <2>. QED
    BY <2>1, <2>2
<1>6. FileOK'
  <2>1. ASSUME NEW p \in Ops
        PROVE  /\ op'[p].late => file'.table
               /\ file'.version \notin {0, Ours} /\ op'[p].pc # "idle" => op'[p].late
               /\ op'[p].worker = "create" => ~op'[p].late
               /\ op'[p].worker \in {"execute", "commit", "over"} => file'.version = Ours
               /\ op'[p].error = "locked" => ~op'[p].late \/ file'.version = Ours
               /\ op'[p].error = "mismatch" => op'[p].late /\ file'.version # Ours
    <3>1. CASE p # o
      BY <1>1, <1>3, <3>1 DEF FileOK, IInv
    <3>2. CASE p = o
      <4>1. r.worker \in {"none", "schema"}
        BY <1>1
      <4>2. file.version # 0 => file.table
        BY DEF IInv, FileOK
      <4>. QED
        BY <1>1, <1>3, <3>2, <4>1, <4>2
    <3>. QED
      BY <3>1, <3>2
  <2>. QED
    BY <1>1, <2>1 DEF FileOK, IInv
<1>7. OrderOK'
  <2> SUFFICES ASSUME NEW q \in Ops, NEW p \in Ops, q < p
               PROVE  /\ op'[p].pc # "idle" => op'[q].pc # "idle"
                      /\ op'[q].store = op'[p].store /\ Writes(op'[q].kind) /\ Writes(op'[p].kind)
                           /\ op'[p].worker # "none" => Gone(q)'
    BY DEF OrderOK
  <2>1. \A x \in Ops : x < o => op[x].pc # "idle"
    BY <1>2 DEF IInv, CallOK
  <2>2. CASE p = o
    <3>1. q # o
      BY <2>2, OpsAssumption
    <3>2. op'[q].pc # "idle"
      BY <1>3, <2>1, <2>2, <3>1
    <3>. QED
      BY <1>1, <1>3, <2>2, <3>2
  <2>3. CASE q = o
    <3>1. p # o
      BY <2>3, OpsAssumption
    <3>2. op[o].pc = "idle" /\ op[o].worker = "none"
      BY <1>2 DEF Unused
    <3>3. op[p].pc = "idle"
      BY <2>3, <3>2 DEF IInv, OrderOK
    <3>4. op'[p].pc = "idle" /\ op'[p].worker = "none"
      BY <1>3, <3>1, <3>3 DEF IInv, CallOK, Unused
    <3>. QED
      BY <3>4
  <2>4. CASE p # o /\ q # o
    BY <1>3, <2>4 DEF IInv, OrderOK, Gone
  <2>. QED
    BY <2>2, <2>3, <2>4
<1>. QED
  BY <1>4, <1>5, <1>6, <1>7 DEF IInv

LEMMA AcquireStep ==
  ASSUME IInv, NEW o \in Ops, Acquire(o)
  PROVE  IInv'
<1> DEFINE r == [op[o] EXCEPT !.pc = "waiting", !.worker = "schema"]
           s == op[o].store
<1>1. /\ op[o].pc = "queued" /\ store[s].holder = 0 /\ UNCHANGED <<file, writer>>
      /\ \A p \in Ops : op[p].store = s /\ op[p].pc = "queued" => o <= p
      /\ store' = [store EXCEPT ![s].holder = o]
  BY DEF Acquire
<1>2. /\ op' = [op EXCEPT ![o] = r] /\ r \in CallRec
      /\ r.kind = op[o].kind /\ r.thread = op[o].thread /\ r.store = op[o].store
      /\ r.late = op[o].late /\ r.pc = "waiting" /\ r.worker = "schema" /\ r.error = op[o].error
  <2>1. op[o] \in CallRec /\ op' = [op EXCEPT ![o] = r]
    BY DEF Acquire, IInv, TypeOK
  <2>. QED
    BY <2>1 DEF CallRec
<1>3. s \in Stores
  BY <1>1 DEF IInv, CallOK
<1> HIDE DEF r
<1>4. Advanced(o, r)
  BY <1>1, <1>2 DEF Advanced
<1>5. /\ store' \in [Stores -> [holder : Ops \cup {0}, initialized : BOOLEAN]]
      /\ store'[s].holder = o
      /\ \A z \in Stores : /\ store'[z].initialized = store[z].initialized
                           /\ z # s => store'[z] = store[z]
  BY <1>1, <1>3 DEF IInv, TypeOK
<1>6. CallOK(o)'
  BY <1>2, <1>3, <1>4, <1>5, AdvancedFacts DEF IInv, CallOK
<1>7. \A p \in Ops : CallOK(p)'
  <2>1. \A p \in Ops : op[p].pc = "waiting" => op[p].store \in Stores
    BY DEF IInv, CallOK
  <2>2. 0 \notin Ops
    BY OpsAssumption
  <2>3. ASSUME NEW p \in Ops, op[p].pc = "waiting", store[op[p].store].holder = p
        PROVE  store'[op[p].store].holder = p
    BY <1>1, <1>5, <2>1, <2>2, <2>3
  <2>. QED
    BY <1>4, <1>6, <2>3, AdvancedCalls
<1>8. FileOK'
  BY <1>1, <1>2, <1>4, <1>5, SameFile DEF IInv, FileOK
<1>9. OrderOK'
  <2>1. ASSUME NEW p \in Ops, p < o, op[p].store = s, Writes(op[p].kind)
        PROVE  Gone(p)
    <3>1. op[p].pc # "idle"
      BY <1>1, <2>1 DEF IInv, OrderOK
    <3>2. op[p].pc # "queued"
      BY <1>1, <2>1, OpsAssumption
    <3>3. op[p].pc # "waiting"
      BY <1>1, <2>1, OpsAssumption DEF IInv, CallOK
    <3>4. op[p] \in CallRec
      BY DEF IInv, TypeOK
    <3>. QED
      BY <3>1, <3>2, <3>3, <3>4 DEF Gone, CallRec
  <2>. QED
    BY <1>1, <1>2, <1>4, <2>1, AdvancedOrder DEF Gone
<1>10. TypeOK'
  BY <1>1, <1>4, <1>5, AdvancedFacts DEF IInv, TypeOK
<1>. QED
  BY <1>7, <1>8, <1>9, <1>10 DEF IInv

LEMMA EnsureSchemaStep ==
  ASSUME IInv, NEW o \in Ops, EnsureSchema(o)
  PROVE  IInv'
<1>1. /\ op[o].worker = "schema" /\ op[o].pc \in {"waiting", "cancelled"}
      /\ UNCHANGED <<file, writer>>
  BY DEF EnsureSchema, IInv, TypeOK, CallOK, CallRec, Unused
<1>2. op[o].store \in Stores
  BY <1>1 DEF IInv, CallOK
<1>3. PICK r : /\ Advanced(o, r) /\ r.pc = op[o].pc
               /\ r.worker \in {"execute", "create", "failed"}
               /\ r.worker = "execute" => store[op[o].store].initialized \/ file.version = Ours
               /\ r.worker = "create" => ~file.table
               /\ r.error = "locked" => op[o].error = "locked"
               /\ r.error = "mismatch" => op[o].error = "mismatch" \/ (file.table /\ file.version # Ours)
  <2>1. CASE \E label \in {"execute", "create"} :
               /\ Works(o, label)
               /\ label = "execute" => store[op[o].store].initialized \/ file.version = Ours
               /\ label = "create" => ~file.table
    BY <1>1, <2>1, Labelled
  <2>2. CASE /\ file.table /\ file.version # Ours
             /\ op' = [op EXCEPT ![o].worker = "failed", ![o].error = "mismatch"]
    <3> DEFINE r == [op[o] EXCEPT !.worker = "failed", !.error = "mismatch"]
    <3>0. PICK q : q = op[o]
      OBVIOUS
    <3>1. op \in [Ops -> CallRec] /\ q \in CallRec
      BY <3>0 DEF IInv, TypeOK
    <3>2. r = [q EXCEPT !.worker = "failed", !.error = "mismatch"]
      BY <3>0
    <3>3. /\ r \in CallRec
          /\ r.kind = q.kind /\ r.thread = q.thread /\ r.store = q.store
          /\ r.late = q.late /\ r.pc = q.pc /\ r.worker = "failed" /\ r.error = "mismatch"
      BY <3>1, <3>2 DEF CallRec
    <3>4. op' = [op EXCEPT ![o] = r]
      BY <2>2, <3>1
    <3> HIDE DEF r
    <3>. QED
      BY <1>1, <2>2, <3>0, <3>3, <3>4 DEF Advanced
  <2>. QED
    BY <2>1, <2>2 DEF EnsureSchema
<1>4. /\ store' \in [Stores -> [holder : Ops \cup {0}, initialized : BOOLEAN]]
      /\ \A z \in Stores : /\ store'[z].holder = store[z].holder
                           /\ store'[z].initialized => store[z].initialized \/ file.version = Ours
  <2>1. CASE UNCHANGED store
    BY <2>1 DEF IInv, TypeOK
  <2>2. CASE Initialized(op[o].store) /\ file.version = Ours
    BY <1>2, <2>2 DEF Initialized, IInv, TypeOK
  <2>. QED
    BY <2>1, <2>2 DEF EnsureSchema
<1>5. store[op[o].store].initialized => file.version = Ours
  BY <1>2 DEF IInv, FileOK
<1>6. FileOK'
  BY <1>1, <1>3, <1>4, <1>5, SameFile DEF IInv, FileOK
<1>7. OrderOK' /\ \A p \in Ops : CallOK(p)'
  BY <1>1, <1>3, <1>4, WorkerStep
<1>8. TypeOK'
  BY <1>1, <1>3, <1>4, AdvancedFacts DEF IInv, TypeOK
<1>. QED
  BY <1>6, <1>7, <1>8 DEF IInv

\* A worker fails and leaves the file and the locks alone.
LEMMA LockedStep ==
  ASSUME IInv, NEW o \in Ops, op[o].worker \in {"create", "execute"},
         ~op[o].late \/ file.version = Ours,
         op' = [op EXCEPT ![o].worker = "failed", ![o].error = "locked"],
         UNCHANGED <<file, store, writer>>
  PROVE  IInv'
<1> DEFINE r == [op[o] EXCEPT !.worker = "failed", !.error = "locked"]
<1>1. op[o] \in CallRec /\ op' = [op EXCEPT ![o] = r]
  BY DEF IInv, TypeOK
<1>2. /\ r \in CallRec
      /\ r.kind = op[o].kind /\ r.thread = op[o].thread /\ r.store = op[o].store
      /\ r.late = op[o].late /\ r.pc = op[o].pc /\ r.worker = "failed" /\ r.error = "locked"
  BY <1>1 DEF CallRec
<1>3. op[o].pc \in {"waiting", "cancelled"}
  BY DEF IInv, TypeOK, CallOK, CallRec, Unused
<1> HIDE DEF r
<1>4. Advanced(o, r)
  BY <1>1, <1>2, <1>3 DEF Advanced
<1>5. FileOK'
  BY <1>2, <1>4, SameFile DEF IInv, FileOK
<1>6. OrderOK' /\ \A p \in Ops : CallOK(p)'
  BY <1>2, <1>3, <1>4, WorkerStep
<1>7. TypeOK'
  BY <1>4, AdvancedFacts DEF IInv, TypeOK
<1>. QED
  BY <1>5, <1>6, <1>7 DEF IInv

LEMMA CreateTableStep ==
  ASSUME IInv, NEW o \in Ops, CreateTable(o)
  PROVE  IInv'
<1>1. /\ op[o].worker = "create" /\ op[o].pc \in {"waiting", "cancelled"}
      /\ UNCHANGED writer
  BY DEF CreateTable, IInv, TypeOK, CallOK, CallRec, Unused
<1>2. op[o].store \in Stores /\ ~op[o].late
  BY <1>1 DEF IInv, CallOK, FileOK
<1>3. CASE /\ ~file.table
           /\ file' = [file EXCEPT !.version = Ours, !.table = TRUE]
           /\ Initialized(op[o].store) /\ Works(o, "execute")
  <2>1. PICK r : Advanced(o, r) /\ r.pc = op[o].pc /\ r.worker = "execute" /\ r.error = op[o].error
    BY <1>1, <1>3, Labelled
  <2>2. /\ file' \in [version : Versions, table : BOOLEAN, rows : [Threads -> Ops \cup {0}]]
        /\ file'.table = TRUE /\ file'.version = Ours
    BY <1>3 DEF IInv, TypeOK, Versions
  <2>3. /\ store' \in [Stores -> [holder : Ops \cup {0}, initialized : BOOLEAN]]
        /\ \A z \in Stores : store'[z].holder = store[z].holder
    BY <1>2, <1>3 DEF Initialized, IInv, TypeOK
  <2>4. /\ op' \in [Ops -> CallRec] /\ op'[o] = r
        /\ \A p \in Ops : p # o => op'[p] = op[p]
        /\ \A p \in Ops : op'[p].late = op[p].late
    BY <2>1, AdvancedFacts
  <2>5. FileOK'
    <3>1. ASSUME NEW p \in Ops
          PROVE  /\ op'[p].worker = "create" => ~op'[p].late
                 /\ op'[p].error = "locked" => ~op'[p].late \/ file'.version = Ours
                 /\ op'[p].error # "mismatch"
      <4>1. op[p].error # "mismatch"
        BY <1>3 DEF IInv, FileOK
      <4>. QED
        BY <2>1, <2>2, <2>4, <4>1 DEF IInv, FileOK
    <3>. QED
      BY <2>2, <3>1 DEF FileOK, Ours
  <2>6. OrderOK' /\ \A p \in Ops : CallOK(p)'
    BY <1>1, <2>1, <2>3, WorkerStep
  <2>7. TypeOK'
    BY <1>1, <2>2, <2>3, <2>4 DEF IInv, TypeOK
  <2>. QED
    BY <2>5, <2>6, <2>7 DEF IInv
<1>4. CASE /\ op' = [op EXCEPT ![o].worker = "failed", ![o].error = "locked"]
           /\ UNCHANGED <<file, store>>
  BY <1>1, <1>2, <1>4, LockedStep
<1>. QED
  BY <1>3, <1>4 DEF CreateTable

\* The statement of a call: one worker moves, and rows and the write lock with it.
LEMMA StatementStep ==
  ASSUME IInv, NEW o \in Ops, NEW r, Advanced(o, r), r.pc = op[o].pc,
         op[o].worker \in {"execute", "commit"}, r.worker \in {"commit", "over"},
         r.worker = "commit" => Writes(r.kind), r.error = op[o].error,
         UNCHANGED store, writer' \in Ops \cup {0},
         file' \in [version : Versions, table : BOOLEAN, rows : [Threads -> Ops \cup {0}]],
         file'.version = file.version, file'.table = file.table
  PROVE  IInv'
<1>1. op[o].pc \in {"waiting", "cancelled"} /\ file.version = Ours
  BY DEF IInv, TypeOK, CallOK, CallRec, Unused, FileOK
<1>2. FileOK'
  BY <1>1, SameFile DEF IInv, FileOK
<1>3. OrderOK' /\ \A p \in Ops : CallOK(p)'
  BY <1>1, WorkerStep
<1>4. TypeOK'
  BY AdvancedFacts DEF IInv, TypeOK
<1>. QED
  BY <1>2, <1>3, <1>4 DEF IInv

LEMMA SelectStep ==
  ASSUME IInv, NEW o \in Ops, Select(o)
  PROVE  IInv'
<1>1. /\ op[o].worker = "execute" /\ UNCHANGED <<file, writer, store>>
      /\ op[o].pc # "idle" /\ op[o].thread \in Threads
  BY DEF Select, IInv, CallOK, Unused
<1> DEFINE r == [op[o] EXCEPT !.worker = "over", !.result = file.rows[op[o].thread]]
<1>2. /\ op[o] \in CallRec /\ op' = [op EXCEPT ![o] = r]
      /\ file.rows[op[o].thread] \in Ops \cup {0}
  BY <1>1 DEF Select, IInv, TypeOK
<1>3. /\ r \in CallRec
      /\ r.kind = op[o].kind /\ r.thread = op[o].thread /\ r.store = op[o].store
      /\ r.late = op[o].late /\ r.pc = op[o].pc /\ r.worker = "over" /\ r.error = op[o].error
  BY <1>2 DEF CallRec
<1> HIDE DEF r
<1>4. Advanced(o, r)
  BY <1>1, <1>2, <1>3 DEF Advanced
<1>5. /\ writer' \in Ops \cup {0}
      /\ file' \in [version : Versions, table : BOOLEAN, rows : [Threads -> Ops \cup {0}]]
  BY <1>1 DEF IInv, TypeOK
<1>. QED
  BY <1>1, <1>3, <1>4, <1>5, StatementStep

LEMMA ExecuteStep ==
  ASSUME IInv, NEW o \in Ops, Execute(o)
  PROVE  IInv'
<1>1. /\ op[o].worker = "execute" /\ UNCHANGED <<file, store>> /\ op[o].pc # "idle"
      /\ Writes(op[o].kind) /\ Works(o, "commit")
  BY DEF Execute, IInv, CallOK, Unused
<1>2. PICK r : Advanced(o, r) /\ r.pc = op[o].pc /\ r.worker = "commit" /\ r.error = op[o].error
  BY <1>1, Labelled
<1>3. Writes(r.kind)
  BY <1>1, <1>2 DEF Advanced
<1>4. /\ writer' \in Ops \cup {0}
      /\ file' \in [version : Versions, table : BOOLEAN, rows : [Threads -> Ops \cup {0}]]
  BY <1>1 DEF Execute, IInv, TypeOK
<1>. QED
  BY <1>1, <1>2, <1>3, <1>4, StatementStep

LEMMA TimeOutStep ==
  ASSUME IInv, NEW o \in Ops, TimeOut(o)
  PROVE  IInv'
<1>1. op[o].worker = "execute" /\ UNCHANGED <<file, store, writer>>
  BY DEF TimeOut
<1>2. file.version = Ours
  BY <1>1 DEF IInv, FileOK
<1>. QED
  BY <1>1, <1>2, LockedStep DEF TimeOut

LEMMA CommitRowStep ==
  ASSUME IInv, NEW o \in Ops, CommitRow(o)
  PROVE  IInv'
<1>1. /\ op[o].worker = "commit" /\ UNCHANGED store /\ writer' = 0
      /\ op[o].pc # "idle" /\ op[o].thread \in Threads /\ Row(o)
  BY DEF CommitRow, IInv, CallOK, Unused
<1> DEFINE result == IF op[o].kind = "put" THEN 0 ELSE file.rows[op[o].thread]
           r == [op[o] EXCEPT !.worker = "over", !.result = result]
<1>2. op[o] \in CallRec /\ op' = [op EXCEPT ![o] = r] /\ result \in Ops \cup {0}
  BY <1>1 DEF CommitRow, IInv, TypeOK
<1>3. /\ r \in CallRec
      /\ r.kind = op[o].kind /\ r.thread = op[o].thread /\ r.store = op[o].store
      /\ r.late = op[o].late /\ r.pc = op[o].pc /\ r.worker = "over" /\ r.error = op[o].error
  BY <1>2 DEF CallRec
<1> HIDE DEF r
<1>4. Advanced(o, r)
  BY <1>1, <1>2, <1>3 DEF Advanced
<1>5. /\ file' \in [version : Versions, table : BOOLEAN, rows : [Threads -> Ops \cup {0}]]
      /\ file'.version = file.version /\ file'.table = file.table
  BY <1>1 DEF Row, IInv, TypeOK
<1>. QED
  BY <1>1, <1>3, <1>4, <1>5, StatementStep

\* A call lets go of the lock, if it has it.
LEMMA ReleaseFacts ==
  ASSUME IInv, NEW o \in Ops, op[o].store \in Stores, Release(o)
  PROVE  /\ store' \in [Stores -> [holder : Ops \cup {0}, initialized : BOOLEAN]]
         /\ \A s \in Stores : /\ store'[s].initialized = store[s].initialized
                              /\ store[s].holder # o => store'[s].holder = store[s].holder
<1> DEFINE h == store[op[o].store].holder
           n == IF h = o THEN 0 ELSE h
<1>1. store' = [store EXCEPT ![op[o].store] = [store[op[o].store] EXCEPT !.holder = n]]
  BY DEF Release, IInv, TypeOK
<1>2. n \in Ops \cup {0} /\ (h # o => n = h)
  BY DEF IInv, TypeOK
<1> HIDE DEF n
<1>. QED
  BY <1>1, <1>2 DEF IInv, TypeOK

LEMMA ReturnStep ==
  ASSUME IInv, NEW o \in Ops, Return(o)
  PROVE  IInv'
<1> DEFINE label == IF op[o].worker = "over" THEN "returned" ELSE "failed"
           r == [op[o] EXCEPT !.pc = label]
<1>1. /\ op[o].pc = "waiting" /\ op[o].worker \in {"over", "failed"}
      /\ Release(o) /\ UNCHANGED <<file, writer>>
  BY DEF Return
<1>2. op[o].store \in Stores
  BY <1>1 DEF IInv, CallOK
<1>3. op[o] \in CallRec /\ op' = [op EXCEPT ![o] = r]
  BY DEF Return, Goto, IInv, TypeOK
<1>4. /\ r \in CallRec /\ r.pc = label /\ r.worker = op[o].worker
      /\ r.kind = op[o].kind /\ r.thread = op[o].thread /\ r.store = op[o].store
      /\ r.late = op[o].late /\ r.error = op[o].error
  BY <1>3 DEF CallRec
<1> HIDE DEF r
<1>5. Advanced(o, r)
  BY <1>1, <1>3, <1>4 DEF Advanced
<1>6. FileOK'
  BY <1>1, <1>2, <1>4, <1>5, SameFile, ReleaseFacts DEF IInv, FileOK
<1>7. CallOK(o)'
  BY <1>1, <1>4, <1>5, AdvancedFacts DEF IInv, CallOK
<1>8. \A p \in Ops : CallOK(p)'
  <2>1. ASSUME NEW p \in Ops, p # o, op[p].pc = "waiting", store[op[p].store].holder = p
        PROVE  store'[op[p].store].holder = p
    <3>1. op[p].store \in Stores
      BY <2>1 DEF IInv, CallOK
    <3>. QED
      BY <1>1, <1>2, <2>1, <3>1, ReleaseFacts
  <2>. QED
    BY <1>5, <1>7, <2>1, AdvancedCalls
<1>9. OrderOK'
  BY <1>1, <1>4, <1>5, AdvancedOrder
<1>10. TypeOK'
  BY <1>1, <1>2, <1>5, AdvancedFacts, ReleaseFacts DEF IInv, TypeOK
<1>. QED
  BY <1>6, <1>8, <1>9, <1>10 DEF IInv

LEMMA CancelStep ==
  ASSUME IInv, NEW o \in Ops, Cancel(o)
  PROVE  IInv'
<1>1. op[o].pc \in {"queued", "waiting"} /\ Release(o) /\ UNCHANGED <<file, writer>>
  BY DEF Cancel
<1>2. op[o].store \in Stores
  BY <1>1 DEF IInv, CallOK
<1>3. PICK r : /\ op' = [op EXCEPT ![o] = r]
               /\ \/ r = [op[o] EXCEPT !.pc = "cancelled"]
                  \/ /\ op[o].worker = "schema"
                     /\ r = [op[o] EXCEPT !.pc = "cancelled", !.worker = "dead"]
  <2>1. CASE Goto(o, "cancelled")
    BY <2>1 DEF Goto
  <2>2. CASE op[o].worker = "schema" /\ op' = [op EXCEPT ![o].pc = "cancelled", ![o].worker = "dead"]
    <3>1. op' = [op EXCEPT ![o] = [op[o] EXCEPT !.pc = "cancelled", !.worker = "dead"]]
      BY <2>2 DEF IInv, TypeOK
    <3>. QED
      BY <2>2, <3>1
  <2>. QED
    BY <2>1, <2>2 DEF Cancel
<1>4. op[o] \in CallRec
  BY DEF IInv, TypeOK
<1>5. /\ r \in CallRec /\ r.pc = "cancelled"
      /\ r.worker = op[o].worker \/ (r.worker = "dead" /\ op[o].worker = "schema")
      /\ r.kind = op[o].kind /\ r.thread = op[o].thread /\ r.store = op[o].store
      /\ r.late = op[o].late /\ r.error = op[o].error
  BY <1>3, <1>4 DEF CallRec
<1>6. Advanced(o, r)
  BY <1>1, <1>3, <1>5 DEF Advanced
<1>7. FileOK'
  BY <1>1, <1>2, <1>5, <1>6, SameFile, ReleaseFacts DEF IInv, FileOK
<1>8. CallOK(o)'
  BY <1>1, <1>5, <1>6, AdvancedFacts DEF IInv, CallOK
<1>9. \A p \in Ops : CallOK(p)'
  <2>1. ASSUME NEW p \in Ops, p # o, op[p].pc = "waiting", store[op[p].store].holder = p
        PROVE  store'[op[p].store].holder = p
    <3>1. op[p].store \in Stores
      BY <2>1 DEF IInv, CallOK
    <3>. QED
      BY <1>1, <1>2, <2>1, <3>1, ReleaseFacts
  <2>. QED
    BY <1>6, <1>8, <2>1, AdvancedCalls
<1>10. OrderOK'
  BY <1>1, <1>5, <1>6, AdvancedOrder
<1>11. TypeOK'
  BY <1>1, <1>2, <1>6, AdvancedFacts, ReleaseFacts DEF IInv, TypeOK
<1>. QED
  BY <1>7, <1>9, <1>10, <1>11 DEF IInv

LEMMA CrashStep ==
  ASSUME IInv, NEW s \in Stores, Crash(s)
  PROVE  IInv'
<1>1. /\ op' = [o \in Ops |-> IF ~Alive(o, s) THEN op[o]
                              ELSE [op[o] EXCEPT !.pc = "cancelled",
                                                 !.worker = IF @ = "over" THEN @ ELSE "dead"]]
      /\ store' = [store EXCEPT ![s] = Closed] /\ UNCHANGED file
      /\ writer' = IF writer # 0 /\ op[writer].store = s THEN 0 ELSE writer
  BY DEF Crash
<1>2. ASSUME NEW o \in Ops
      PROVE  /\ op'[o] \in CallRec
             /\ op'[o].kind = op[o].kind /\ op'[o].thread = op[o].thread
             /\ op'[o].store = op[o].store /\ op'[o].late = op[o].late
             /\ op'[o].error = op[o].error
             /\ IF ~Alive(o, s) THEN op'[o] = op[o]
                ELSE /\ op'[o].pc = "cancelled"
                     /\ op'[o].worker = IF op[o].worker = "over" THEN "over" ELSE "dead"
  <2>1. op[o] \in CallRec
    BY DEF IInv, TypeOK
  <2>. QED
    BY <1>1, <2>1 DEF CallRec
<1>3. TypeOK'
  <2>1. op' \in [Ops -> CallRec]
    BY <1>1, <1>2
  <2>. QED
    BY <1>1, <2>1 DEF IInv, TypeOK, Closed
<1>4. /\ ~store'[s].initialized
      /\ \A z \in Stores : z # s => store'[z] = store[z]
  BY <1>1 DEF IInv, TypeOK, Closed
<1>5. ASSUME NEW o \in Ops
      PROVE  CallOK(o)'
  <2>1. CallOK(o) /\ op[o] \in CallRec
    BY DEF IInv, TypeOK
  <2>2. CASE Alive(o, s)
    <3>1. op[o].pc # "idle" /\ op'[o].pc = "cancelled" /\ op'[o].worker \in {"over", "dead"}
      BY <1>2, <2>2 DEF Alive
    <3>. QED
      BY <1>2, <2>1, <3>1 DEF CallOK
  <2>3. CASE ~Alive(o, s)
    <3>1. op'[o] = op[o] /\ (op[o].pc = "waiting" => op[o].store # s)
      BY <1>2, <2>3 DEF Alive
    <3>. QED
      BY <1>4, <2>1, <3>1 DEF CallOK
  <2>. QED
    BY <2>2, <2>3
<1>6. FileOK'
  <2>1. ASSUME NEW o \in Ops
        PROVE  /\ op'[o].late => file'.table
               /\ file'.version \notin {0, Ours} /\ op'[o].pc # "idle" => op'[o].late
               /\ op'[o].worker = "create" => ~op'[o].late
               /\ op'[o].worker \in {"execute", "commit", "over"} => file'.version = Ours
               /\ op'[o].error = "locked" => ~op'[o].late \/ file'.version = Ours
               /\ op'[o].error = "mismatch" => op'[o].late /\ file'.version # Ours
    <3>1. /\ op[o].late => file.table
          /\ file.version \notin {0, Ours} /\ op[o].pc # "idle" => op[o].late
          /\ op[o].worker = "create" => ~op[o].late
          /\ op[o].worker \in {"execute", "commit", "over"} => file.version = Ours
          /\ op[o].error = "locked" => ~op[o].late \/ file.version = Ours
          /\ op[o].error = "mismatch" => op[o].late /\ file.version # Ours
      BY DEF IInv, FileOK
    <3>2. op'[o].late = op[o].late /\ op'[o].error = op[o].error /\ file' = file
      BY <1>1, <1>2
    <3>3. op'[o].pc # "idle" => op[o].pc # "idle"
      BY <1>2 DEF Alive
    <3>4. op'[o].worker = op[o].worker \/ op'[o].worker \in {"over", "dead"}
      BY <1>2
    <3>5. op'[o].worker = "over" => op[o].worker = "over"
      BY <1>2
    <3>. QED
      BY <3>1, <3>2, <3>3, <3>4, <3>5
  <2>2. \A z \in Stores : store'[z].initialized => file'.version = Ours
    BY <1>1, <1>4 DEF IInv, FileOK
  <2>. QED
    BY <1>1, <2>1, <2>2 DEF IInv, FileOK
<1>7. OrderOK'
  <2> SUFFICES ASSUME NEW q \in Ops, NEW p \in Ops, q < p
               PROVE  /\ op'[p].pc # "idle" => op'[q].pc # "idle"
                      /\ op'[q].store = op'[p].store /\ Writes(op'[q].kind) /\ Writes(op'[p].kind)
                           /\ op'[p].worker # "none" => Gone(q)'
    BY DEF OrderOK
  <2>1. op'[p].pc # "idle" => op'[q].pc # "idle"
    BY <1>2 DEF IInv, OrderOK, Alive
  <2>2. ASSUME op'[q].store = op'[p].store, Writes(op'[q].kind), Writes(op'[p].kind),
               op'[p].worker # "none"
        PROVE  Gone(q)'
    <3>1. op[q].store = op[p].store /\ Writes(op[q].kind) /\ Writes(op[p].kind)
      BY <1>2, <2>2
    <3>2. CASE Alive(q, s)
      BY <1>2, <3>2 DEF Gone
    <3>3. CASE ~Alive(q, s) /\ op[p].worker # "none"
      BY <1>2, <3>1, <3>3 DEF IInv, OrderOK, Gone
    <3>4. CASE ~Alive(q, s) /\ op[p].worker = "none"
      <4>1. Alive(p, s)
        BY <1>2, <2>2, <3>4
      <4>2. op[q].pc # "idle" /\ op[q].store = s
        BY <3>1, <4>1 DEF IInv, OrderOK, Alive
      <4>3. op[q].pc \in {"returned", "failed"}
        BY <3>4, <4>2 DEF IInv, TypeOK, CallRec, Alive
      <4>. QED
        BY <1>2, <3>4, <4>3 DEF Gone
    <3>. QED
      BY <3>2, <3>3, <3>4
  <2>. QED
    BY <2>1, <2>2
<1>. QED
  BY <1>3, <1>5, <1>6, <1>7 DEF IInv

LEMMA NextIInv == IInv /\ [Next]_vars => IInv'
<1> SUFFICES ASSUME IInv, [Next]_vars
             PROVE  IInv'
  OBVIOUS
<1>1. CASE UNCHANGED vars
  BY <1>1 DEF vars, IInv, TypeOK, CallOK, FileOK, OrderOK, Gone
<1>. QED
  BY <1>1, CallStep, AcquireStep, EnsureSchemaStep, CreateTableStep, SelectStep, ExecuteStep,
     TimeOutStep, CommitRowStep, ReturnStep, CancelStep, CrashStep DEF Next, Advance, Work

LEMMA Invariance == Spec => []IInv
<1>1. Init => IInv
  <2> SUFFICES ASSUME Init
               PROVE  IInv
    OBVIOUS
  <2>1. /\ Unused \in CallRec /\ Unused.pc = "idle" /\ Unused.worker = "none"
        /\ Unused.late = FALSE /\ Unused.error = "none"
    BY DEF Unused, CallRec
  <2>2. op \in [Ops -> CallRec] /\ \A o \in Ops : op[o] = Unused
    BY <2>1 DEF Init
  <2>3. TypeOK
    BY <2>2 DEF Init, TypeOK, Closed
  <2>4. \A o \in Ops : CallOK(o)
    BY <2>1, <2>2 DEF CallOK
  <2>5. FileOK
    BY <2>1, <2>2 DEF FileOK, Init, Closed
  <2>6. OrderOK
    BY <2>1, <2>2 DEF OrderOK
  <2>. QED
    BY <2>3, <2>4, <2>5, <2>6 DEF IInv
<1>. QED
  BY <1>1, NextIInv, PTL DEF Spec

-----------------------------------------------------------------------------
(* The theorems.                                                           *)

\* For any processes, calls and crashes, every state has its type (agents/checkpoint.py).
THEOREM TypeCorrect == Spec => []TypeOK
<1>1. IInv => TypeOK
  BY DEF IInv
<1>. QED
  BY <1>1, Invariance, PTL

\* One call moves, to pc with its worker at the label.
Moved(o, pc, label) ==
  /\ \A p \in Ops : p # o => op'[p] = op[p]
  /\ op'[o].kind = op[o].kind /\ op'[o].thread = op[o].thread /\ op'[o].store = op[o].store
  /\ op'[o].result = op[o].result
  /\ op'[o].pc = pc /\ op'[o].worker = label

LEMMA Moves ==
  ASSUME IInv, NEW o \in Ops
  PROVE  /\ Acquire(o) => Moved(o, "waiting", "schema")
         /\ EnsureSchema(o) \/ CreateTable(o) =>
              \E label \in {"execute", "create", "failed"} : Moved(o, op[o].pc, label)
         /\ Execute(o) => Moved(o, op[o].pc, "commit")
         /\ TimeOut(o) => Moved(o, op[o].pc, "failed")
         /\ Return(o) => Moved(o, IF op[o].worker = "over" THEN "returned" ELSE "failed", op[o].worker)
         /\ Cancel(o) => \/ Moved(o, "cancelled", op[o].worker)
                         \/ op[o].worker = "schema" /\ Moved(o, "cancelled", "dead")
<1>1. op \in [Ops -> CallRec] /\ op[o] \in CallRec
  BY DEF IInv, TypeOK
<1>2. ASSUME NEW label, Works(o, label)
      PROVE  Moved(o, op[o].pc, label)
  BY <1>1, <1>2 DEF Works, Moved, CallRec
<1>3. ASSUME NEW pc, Goto(o, pc)
      PROVE  Moved(o, pc, op[o].worker)
  BY <1>1, <1>3 DEF Goto, Moved, CallRec
<1>4. ASSUME NEW r, op' = [op EXCEPT ![o] = r]
      PROVE  op'[o] = r /\ \A p \in Ops : p # o => op'[p] = op[p]
  BY <1>1, <1>4
<1>5. ASSUME NEW error, op' = [op EXCEPT ![o].worker = "failed", ![o].error = error]
      PROVE  Moved(o, op[o].pc, "failed")
  <2>1. op' = [op EXCEPT ![o] = [op[o] EXCEPT !.worker = "failed", !.error = error]]
    BY <1>1, <1>5
  <2>. QED
    BY <1>1, <1>4, <2>1 DEF Moved, CallRec
<1>6. ASSUME NEW pc, NEW label, op' = [op EXCEPT ![o].pc = pc, ![o].worker = label]
      PROVE  Moved(o, pc, label)
  <2>1. op' = [op EXCEPT ![o] = [op[o] EXCEPT !.pc = pc, !.worker = label]]
    BY <1>1, <1>6
  <2>. QED
    BY <1>1, <1>4, <2>1 DEF Moved, CallRec
<1>7. Acquire(o) => Moved(o, "waiting", "schema")
  BY <1>6 DEF Acquire
<1>8. EnsureSchema(o) => \E label \in {"execute", "create", "failed"} : Moved(o, op[o].pc, label)
  BY <1>2, <1>5 DEF EnsureSchema
<1>9. CreateTable(o) => \E label \in {"execute", "create", "failed"} : Moved(o, op[o].pc, label)
  BY <1>2, <1>5 DEF CreateTable
<1>10. Cancel(o) => \/ Moved(o, "cancelled", op[o].worker)
                    \/ op[o].worker = "schema" /\ Moved(o, "cancelled", "dead")
  BY <1>3, <1>6 DEF Cancel
<1>. QED
  BY <1>2, <1>3, <1>5, <1>7, <1>8, <1>9, <1>10 DEF Execute, TimeOut, Return

\* A call takes effect when its statement does.
LEMMA TakingSteps ==
  ASSUME IInv, Next, NEW o \in Ops, ~Took(o), Took(o)'
  PROVE  Select(o) \/ CommitRow(o)
<1>1. op \in [Ops -> CallRec]
  BY DEF IInv, TypeOK
<1>2. ASSUME NEW p \in Ops, Select(p) \/ CommitRow(p)
      PROVE  p = o
  BY <1>1, <1>2 DEF Select, CommitRow, Took
<1>3. ASSUME NEW p \in Ops, NEW s \in Stores, NEW k \in Kinds, NEW t \in Threads, Call(p, s, k, t)
      PROVE  FALSE
  BY <1>1, <1>3 DEF Call, Took, Unused
<1>4. ASSUME NEW p \in Ops,
             \/ Acquire(p) \/ EnsureSchema(p) \/ CreateTable(p) \/ Execute(p) \/ TimeOut(p)
             \/ Return(p) \/ Cancel(p)
      PROVE  FALSE
  BY <1>4, Moves DEF Moved, Took
<1>5. ASSUME NEW s \in Stores, Crash(s)
      PROVE  FALSE
  <2>1. op'[o] = IF ~Alive(o, s) THEN op[o]
                 ELSE [op[o] EXCEPT !.pc = "cancelled",
                                    !.worker = IF @ = "over" THEN @ ELSE "dead"]
    BY <1>5 DEF Crash
  <2>2. op[o] \in CallRec /\ op[o].worker # "over"
    BY <1>1 DEF Took
  <2>. QED
    BY <2>1, <2>2 DEF Took, CallRec
<1>. QED
  BY <1>2, <1>3, <1>4, <1>5 DEF Next, Advance, Work

\* The writes of one process on one thread land in the order they were made,
\* but for those nobody waits for any more (agents/checkpoint.py).
THEOREM WritesLandInOrder == Spec => OlderNeverLandsOver
<1>1. IInv /\ [Next]_vars =>
        [\A o, p \in Ops :
           o < p /\ Same(o, p) /\ Writes(op[o].kind) /\ Writes(op[p].kind)
             /\ Took(p) /\ ~Took(o) /\ Took(o)' => op[o].pc = "cancelled"]_vars
  <2> SUFFICES ASSUME IInv, Next, NEW o \in Ops, NEW p \in Ops, o < p, Same(o, p),
                      Writes(op[o].kind), Writes(op[p].kind), Took(p), ~Took(o), Took(o)'
               PROVE  op[o].pc = "cancelled"
    OBVIOUS
  <2>1. op[o].worker \in {"execute", "commit"}
    BY TakingSteps DEF Select, CommitRow
  <2>2. Gone(o)
    BY DEF IInv, OrderOK, Same, Took
  <2>. QED
    BY <2>1, <2>2 DEF IInv, CallOK, Gone
<1>. QED
  BY <1>1, Invariance, PTL DEF Spec, OlderNeverLandsOver

-----------------------------------------------------------------------------
(* The register.                                                           *)

Abstract == [o \in Ops |-> AbstractCall(o)]

\* What is seen of one call.
LEMMA AbstractOne ==
  ASSUME NEW o \in Ops, \A p \in Ops : p # o => op'[p] = op[p]
  PROVE  Abstract' = [Abstract EXCEPT ![o] = AbstractCall(o)']
<1>1. \A p \in Ops : p # o => AbstractCall(p)' = AbstractCall(p)
  BY DEF AbstractCall, CallState, Took
<1>2. Abstract' = [p \in Ops |-> AbstractCall(p)']
  BY DEF Abstract
<1>3. [Abstract EXCEPT ![o] = AbstractCall(o)']
        = [p \in Ops |-> IF p = o THEN AbstractCall(o)' ELSE AbstractCall(p)]
  BY DEF Abstract
<1>. QED
  BY <1>1, <1>2, <1>3

\* A worker on its way is not seen.
LEMMA UnseenStep ==
  ASSUME IInv, NEW o \in Ops,
         Acquire(o) \/ EnsureSchema(o) \/ CreateTable(o) \/ Execute(o) \/ TimeOut(o)
  PROVE  UNCHANGED <<file.rows, Abstract>>
<1>1. op \in [Ops -> CallRec] /\ op[o] \in CallRec
  BY DEF IInv, TypeOK
<1>2. file.rows' = file.rows
  <2>1. CASE UNCHANGED file
    BY <2>1
  <2>2. CASE file' = [file EXCEPT !.version = Ours, !.table = TRUE]
    BY <2>2 DEF IInv, TypeOK
  <2>. QED
    BY <2>1, <2>2 DEF Acquire, EnsureSchema, CreateTable, Execute, TimeOut
<1>3. /\ \A p \in Ops : p # o => op'[p] = op[p]
      /\ op'[o].kind = op[o].kind /\ op'[o].thread = op[o].thread /\ op'[o].result = op[o].result
      /\ op'[o].worker # "over" /\ op[o].worker # "over"
      /\ op'[o].pc = op[o].pc \/ (op[o].pc = "queued" /\ op'[o].pc = "waiting")
  <2>1. op[o].worker # "over" /\ (Acquire(o) => op[o].pc = "queued")
    BY DEF Acquire, EnsureSchema, CreateTable, Execute, TimeOut, IInv, CallOK
  <2>2. \/ Moved(o, "waiting", "schema") /\ op[o].pc = "queued"
        \/ \E label \in {"execute", "create", "failed", "commit"} : Moved(o, op[o].pc, label)
    BY <2>1, Moves
  <2>. QED
    BY <2>1, <2>2 DEF Moved
<1>4. AbstractCall(o)' = AbstractCall(o)
  BY <1>1, <1>3 DEF AbstractCall, CallState, Took, CallRec
<1>5. Abstract' = [Abstract EXCEPT ![o] = AbstractCall(o)]
  BY <1>3, <1>4, AbstractOne
<1>6. Abstract' = Abstract
  BY <1>5 DEF Abstract
<1>. QED
  BY <1>2, <1>6

\* The calls of the register are records, equal if their fields are.
AbstractRec == [state : {"idle", "open", "took", "done", "lost"}, kind : Kinds \cup {"none"},
                thread : Threads \cup {"none"}, result : Ops \cup {0}, failed : BOOLEAN]

LEMMA SameRecord ==
  ASSUME NEW r \in AbstractRec, NEW u \in AbstractRec, r.state = u.state, r.kind = u.kind,
         r.thread = u.thread, r.result = u.result, r.failed = u.failed
  PROVE  r = u
BY DEF AbstractRec

LEMMA AbstractType ==
  ASSUME NEW o \in Ops
  PROVE  /\ IInv => AbstractCall(o) \in AbstractRec /\ Abstract[o] = AbstractCall(o)
         /\ IInv' => AbstractCall(o)' \in AbstractRec
<1>1. ASSUME IInv
      PROVE  AbstractCall(o) \in AbstractRec
  <2>1. op[o] \in CallRec
    BY <1>1 DEF IInv, TypeOK
  <2>2. CallState(o) \in {"idle", "open", "took", "done", "lost"}
    BY <2>1 DEF CallState, CallRec
  <2>. QED
    BY <2>1, <2>2 DEF AbstractCall, AbstractRec, CallRec
<1>2. ASSUME IInv'
      PROVE  AbstractCall(o)' \in AbstractRec
  <2>1. op'[o] \in CallRec
    BY <1>2 DEF IInv, TypeOK
  <2>2. CallState(o)' \in {"idle", "open", "took", "done", "lost"}
    BY <2>1 DEF CallState, CallRec
  <2>. QED
    BY <2>1, <2>2 DEF AbstractCall, AbstractRec, CallRec
<1>. QED
  BY <1>1, <1>2 DEF Abstract

LEMMA BeginStep ==
  ASSUME IInv, IInv', NEW o \in Ops, NEW s \in Stores, NEW k \in Kinds, NEW t \in Threads,
         Call(o, s, k, t)
  PROVE  Register!Begin(o, k, t)
<1> DEFINE made == [Unused EXCEPT !.kind = k, !.thread = t, !.store = s, !.late = file.table]
           u == [Register!Free EXCEPT !.state = "open", !.kind = k, !.thread = t]
<1>1. op[o] = Unused /\ UNCHANGED file
  BY DEF Call
<1>2. /\ \A p \in Ops : p # o => op'[p] = op[p]
      /\ op'[o] = IF Writes(k) THEN [made EXCEPT !.pc = "queued"]
                  ELSE [made EXCEPT !.pc = "waiting", !.worker = "schema"]
  BY DEF Call, IInv, TypeOK
<1>3. /\ op'[o].kind = k /\ op'[o].thread = t /\ op'[o].result = 0
      /\ op'[o].pc \in {"queued", "waiting"} /\ op'[o].worker # "over"
  BY <1>2 DEF Unused
<1>4. Register!Free \in AbstractRec
  BY DEF AbstractRec, Register!Free
<1>5. u \in AbstractRec
  BY <1>4 DEF AbstractRec
<1>6. AbstractCall(o)' = u
  <2>1. /\ u.state = "open" /\ u.kind = k /\ u.thread = t /\ u.result = 0 /\ u.failed = FALSE
    BY DEF Register!Free
  <2>2. /\ AbstractCall(o)'.state = "open" /\ AbstractCall(o)'.kind = k
        /\ AbstractCall(o)'.thread = t /\ AbstractCall(o)'.result = 0
        /\ AbstractCall(o)'.failed = FALSE
    BY <1>3 DEF AbstractCall, CallState, Took
  <2> HIDE DEF u
  <2>. QED
    BY <1>5, <2>1, <2>2, SameRecord, AbstractType
<1>7. Abstract[o] = Register!Free
  <2>1. op[o].pc = "idle" /\ op[o].kind = "none" /\ op[o].thread = "none" /\ op[o].result = 0
    BY <1>1 DEF Unused
  <2>2. /\ AbstractCall(o).state = "idle" /\ AbstractCall(o).kind = "none"
        /\ AbstractCall(o).thread = "none" /\ AbstractCall(o).result = 0
        /\ AbstractCall(o).failed = FALSE
    BY <2>1 DEF AbstractCall, CallState
  <2>3. /\ Register!Free.state = "idle" /\ Register!Free.kind = "none"
        /\ Register!Free.thread = "none" /\ Register!Free.result = 0
        /\ Register!Free.failed = FALSE
    BY DEF Register!Free
  <2>. QED
    BY <1>4, <2>2, <2>3, SameRecord, AbstractType
<1>8. Abstract' = [Abstract EXCEPT ![o] = u]
  BY <1>2, <1>6, AbstractOne
<1>. QED
  BY <1>1, <1>7, <1>8 DEF Register!Begin, Abstract

LEMMA TakeStep ==
  ASSUME IInv, IInv', NEW o \in Ops, Select(o) \/ CommitRow(o)
  PROVE  Register!Take(o)
<1> DEFINE r == op[o]
           read == file.rows[r.thread]
           result == IF r.kind = "put" THEN 0 ELSE read
           after == CASE r.kind = "put" -> o [] r.kind = "get" -> read [] OTHER -> 0
<1>1. /\ r \in CallRec /\ r.pc \in {"waiting", "cancelled"} /\ r.worker \in {"execute", "commit"}
      /\ r.kind \in Kinds /\ r.thread \in Threads /\ read \in Ops \cup {0}
  BY DEF IInv, TypeOK, CallOK, CallRec, Select, CommitRow, Unused
<1>2. file.rows' = [file.rows EXCEPT ![r.thread] = after]
  <2>1. file \in [version : Versions, table : BOOLEAN, rows : [Threads -> Ops \cup {0}]]
    BY DEF IInv, TypeOK
  <2>2. CASE Select(o)
    <3>1. r.kind = "get" /\ file' = file
      BY <1>1, <2>2 DEF Select, Writes, Kinds
    <3>. QED
      BY <1>1, <2>1, <3>1
  <2>3. CASE CommitRow(o)
    <3>1. r.kind \in {"put", "delete"} /\ Row(o)
      BY <2>3 DEF CommitRow, IInv, CallOK, Writes
    <3>. QED
      BY <1>1, <2>1, <3>1 DEF Row
  <2>. QED
    BY <2>2, <2>3
<1>3. /\ \A p \in Ops : p # o => op'[p] = op[p]
      /\ op'[o] = [r EXCEPT !.worker = "over", !.result = result]
  <2>1. op \in [Ops -> CallRec]
    BY DEF IInv, TypeOK
  <2>2. CASE Select(o)
    BY <1>1, <2>1, <2>2 DEF Select, Writes, Kinds
  <2>3. CASE CommitRow(o)
    BY <1>1, <2>1, <2>3 DEF CommitRow
  <2>. QED
    BY <2>2, <2>3
<1>4. /\ op'[o].kind = r.kind /\ op'[o].thread = r.thread /\ op'[o].pc = r.pc
      /\ op'[o].worker = "over" /\ op'[o].result = result
  BY <1>1, <1>3 DEF CallRec
<1> DEFINE c == Abstract[o]
           u == [c EXCEPT !.state = IF c.state = "open" THEN "took" ELSE "done", !.result = result]
<1>5. /\ c \in AbstractRec
      /\ c.state = IF r.pc = "waiting" THEN "open" ELSE "lost"
      /\ c.kind = r.kind /\ c.thread = r.thread /\ c.failed = FALSE
  <2>1. c = AbstractCall(o) /\ AbstractCall(o) \in AbstractRec
    BY AbstractType
  <2>2. op[o].worker # "over" /\ op[o].pc \in {"waiting", "cancelled"}
    BY <1>1
  <2>3. /\ AbstractCall(o).state = IF op[o].pc = "waiting" THEN "open" ELSE "lost"
        /\ AbstractCall(o).kind = op[o].kind /\ AbstractCall(o).thread = op[o].thread
        /\ AbstractCall(o).failed = FALSE
    BY <2>2 DEF AbstractCall, CallState, Took
  <2> HIDE DEF c
  <2>. QED
    BY <2>1, <2>3
<1>6. /\ AbstractCall(o)'.state = IF r.pc = "waiting" THEN "took" ELSE "done"
      /\ AbstractCall(o)'.kind = r.kind /\ AbstractCall(o)'.thread = r.thread
      /\ AbstractCall(o)'.result = result /\ AbstractCall(o)'.failed = FALSE
  BY <1>1, <1>4 DEF AbstractCall, CallState, Took
<1>7. /\ u \in AbstractRec /\ u.kind = c.kind /\ u.thread = c.thread /\ u.failed = c.failed
      /\ u.state = (IF c.state = "open" THEN "took" ELSE "done") /\ u.result = result
  <2> HIDE DEF c
  <2>1. result \in Ops \cup {0}
    BY <1>1
  <2> HIDE DEF result
  <2>. QED
    BY <1>5, <2>1 DEF AbstractRec
<1>8. AbstractCall(o)' = u
  <2> HIDE DEF u, c, result
  <2>. QED
    BY <1>1, <1>5, <1>6, <1>7, SameRecord, AbstractType
<1>9. Abstract' = [Abstract EXCEPT ![o].state = IF c.state = "open" THEN "took" ELSE "done",
                                   ![o].result = IF c.kind = "put" THEN 0 ELSE read]
  <2>1. Abstract' = [Abstract EXCEPT ![o] = u]
    BY <1>3, <1>8, AbstractOne
  <2>. QED
    BY <1>5, <2>1 DEF Abstract
<1>. QED
  BY <1>2, <1>5, <1>9 DEF Register!Take, Abstract

LEMMA LeaveStep ==
  ASSUME IInv, IInv', NEW o \in Ops, Return(o)
  PROVE  Register!Return(o) \/ Register!Fail(o)
<1>1. /\ op[o].pc = "waiting" /\ op[o].worker \in {"over", "failed"} /\ UNCHANGED file
  BY DEF Return
<1>2. Moved(o, IF op[o].worker = "over" THEN "returned" ELSE "failed", op[o].worker)
  BY Moves
<1> DEFINE c == Abstract[o]
<1>3. /\ c \in AbstractRec /\ c.failed = FALSE
      /\ c.state = IF op[o].worker = "over" THEN "took" ELSE "open"
      /\ AbstractCall(o)'.state = "done"
      /\ AbstractCall(o)'.failed = (op[o].worker # "over")
      /\ AbstractCall(o)'.kind = c.kind /\ AbstractCall(o)'.thread = c.thread
      /\ AbstractCall(o)'.result = c.result
  <2>1. c = AbstractCall(o) /\ AbstractCall(o) \in AbstractRec
    BY AbstractType
  <2>2. /\ op'[o].pc = (IF op[o].worker = "over" THEN "returned" ELSE "failed")
        /\ op'[o].kind = op[o].kind /\ op'[o].thread = op[o].thread
        /\ op'[o].result = op[o].result
    BY <1>2 DEF Moved
  <2>3. /\ AbstractCall(o).state = (IF op[o].worker = "over" THEN "took" ELSE "open")
        /\ AbstractCall(o).kind = op[o].kind /\ AbstractCall(o).thread = op[o].thread
        /\ AbstractCall(o).result = op[o].result /\ AbstractCall(o).failed = FALSE
    BY <1>1 DEF AbstractCall, CallState, Took
  <2>4. /\ AbstractCall(o)'.state = "done"
        /\ AbstractCall(o)'.kind = op[o].kind /\ AbstractCall(o)'.thread = op[o].thread
        /\ AbstractCall(o)'.result = op[o].result
    BY <2>2 DEF AbstractCall, CallState, Took
  <2>5. AbstractCall(o)'.failed = (op[o].worker # "over")
    <3>1. CASE op[o].worker = "over"
      BY <2>2, <3>1 DEF AbstractCall
    <3>2. CASE op[o].worker # "over"
      BY <2>2, <3>2 DEF AbstractCall
    <3>. QED
      BY <3>1, <3>2
  <2> HIDE DEF c
  <2>. QED
    BY <2>1, <2>3, <2>4, <2>5
<1>4. Abstract' = [Abstract EXCEPT ![o] = AbstractCall(o)']
  BY <1>2, AbstractOne DEF Moved
<1>5. CASE op[o].worker = "over"
  <2> DEFINE u == [c EXCEPT !.state = "done"]
  <2>1. /\ u \in AbstractRec /\ u.state = "done" /\ u.failed = FALSE
        /\ u.kind = c.kind /\ u.thread = c.thread /\ u.result = c.result
    <3> HIDE DEF c
    <3>. QED
      BY <1>3 DEF AbstractRec
  <2>2. AbstractCall(o)' = u
    <3> HIDE DEF u, c
    <3>. QED
      BY <1>3, <1>5, <2>1, SameRecord, AbstractType
  <2>. QED
    BY <1>1, <1>3, <1>4, <1>5, <2>2 DEF Register!Return, Abstract
<1>6. CASE op[o].worker # "over"
  <2> DEFINE u == [c EXCEPT !.state = "done", !.failed = TRUE]
  <2>1. /\ u \in AbstractRec /\ u.state = "done" /\ u.failed = TRUE
        /\ u.kind = c.kind /\ u.thread = c.thread /\ u.result = c.result
    <3> HIDE DEF c
    <3>. QED
      BY <1>3 DEF AbstractRec
  <2>2. AbstractCall(o)' = u
    <3> HIDE DEF u, c
    <3>. QED
      BY <1>3, <1>6, <2>1, SameRecord, AbstractType
  <2>3. Abstract' = [Abstract EXCEPT ![o].state = "done", ![o].failed = TRUE]
    BY <1>3, <1>4, <2>2 DEF Abstract
  <2>. QED
    BY <1>1, <1>3, <1>6, <2>3 DEF Register!Fail, Abstract
<1>. QED
  BY <1>5, <1>6

\* The calls S are given up, the others are what they were.
LEMMA AbandonStep ==
  ASSUME IInv, IInv', UNCHANGED file, NEW S \in SUBSET Ops,
         \A o \in S : /\ op[o].pc \in {"queued", "waiting"} /\ op'[o].pc = "cancelled"
                      /\ op'[o].kind = op[o].kind /\ op'[o].thread = op[o].thread
                      /\ op'[o].result = op[o].result
                      /\ op'[o].worker = "over" <=> op[o].worker = "over",
         \A o \in Ops \ S : AbstractCall(o)' = AbstractCall(o)
  PROVE  Register!Abandon(S)
<1>1. ASSUME NEW o \in S
      PROVE  /\ Abstract[o].state \in {"open", "took"}
             /\ AbstractCall(o)' = [Abstract[o] EXCEPT !.state = IF @ = "open" THEN "lost" ELSE "done"]
  <2> DEFINE c == Abstract[o]
             u == [c EXCEPT !.state = IF c.state = "open" THEN "lost" ELSE "done"]
  <2>1. c = AbstractCall(o) /\ AbstractCall(o) \in AbstractRec /\ AbstractCall(o)' \in AbstractRec
    BY AbstractType
  <2>2. /\ c.state = (IF op[o].worker = "over" THEN "took" ELSE "open") /\ c.failed = FALSE
        /\ c.kind = op[o].kind /\ c.thread = op[o].thread /\ c.result = op[o].result
        /\ AbstractCall(o)'.state = (IF op[o].worker = "over" THEN "done" ELSE "lost")
        /\ AbstractCall(o)'.failed = FALSE /\ AbstractCall(o)'.kind = op[o].kind
        /\ AbstractCall(o)'.thread = op[o].thread /\ AbstractCall(o)'.result = op[o].result
    <3>1. /\ op[o].pc \in {"queued", "waiting"} /\ op'[o].pc = "cancelled"
          /\ op'[o].kind = op[o].kind /\ op'[o].thread = op[o].thread
          /\ op'[o].result = op[o].result
          /\ op'[o].worker = "over" <=> op[o].worker = "over"
      OBVIOUS
    <3>2. /\ AbstractCall(o).state = (IF op[o].worker = "over" THEN "took" ELSE "open")
          /\ AbstractCall(o).kind = op[o].kind /\ AbstractCall(o).thread = op[o].thread
          /\ AbstractCall(o).result = op[o].result /\ AbstractCall(o).failed = FALSE
      BY <3>1 DEF AbstractCall, CallState, Took
    <3>3. /\ AbstractCall(o)'.state = (IF op[o].worker = "over" THEN "done" ELSE "lost")
          /\ AbstractCall(o)'.failed = FALSE /\ AbstractCall(o)'.kind = op[o].kind
          /\ AbstractCall(o)'.thread = op[o].thread /\ AbstractCall(o)'.result = op[o].result
      BY <3>1 DEF AbstractCall, CallState, Took
    <3> HIDE DEF c
    <3>. QED
      BY <2>1, <3>2, <3>3
  <2> HIDE DEF c
  <2>3. /\ u \in AbstractRec /\ u.state = (IF c.state = "open" THEN "lost" ELSE "done")
        /\ u.failed = c.failed /\ u.kind = c.kind /\ u.thread = c.thread /\ u.result = c.result
    BY <2>1 DEF AbstractRec
  <2> HIDE DEF u
  <2>4. /\ AbstractCall(o)'.state = u.state /\ AbstractCall(o)'.failed = u.failed
        /\ AbstractCall(o)'.kind = u.kind /\ AbstractCall(o)'.thread = u.thread
        /\ AbstractCall(o)'.result = u.result
    BY <2>2, <2>3
  <2>5. AbstractCall(o)' = u
    BY <2>1, <2>3, <2>4, SameRecord
  <2>. QED
    BY <2>2, <2>5 DEF c, u
<1>2. Abstract' = [o \in Ops |-> AbstractCall(o)']
  BY DEF Abstract
<1>3. ASSUME NEW o \in Ops \ S
      PROVE  AbstractCall(o)' = Abstract[o]
  BY DEF Abstract
<1>4. Abstract' = [o \in Ops |-> IF o \notin S THEN Abstract[o]
                     ELSE [Abstract[o] EXCEPT !.state = IF @ = "open" THEN "lost" ELSE "done"]]
  BY <1>1, <1>2, <1>3
<1>. QED
  BY <1>1, <1>4 DEF Register!Abandon, Abstract

LEMMA CancelIsAbandon ==
  ASSUME IInv, IInv', NEW o \in Ops, Cancel(o)
  PROVE  Register!Abandon({o})
<1>1. /\ op[o].pc \in {"queued", "waiting"} /\ UNCHANGED file
      /\ \A p \in Ops : p # o => op'[p] = op[p]
      /\ op'[o].pc = "cancelled" /\ op'[o].kind = op[o].kind /\ op'[o].thread = op[o].thread
      /\ op'[o].result = op[o].result
      /\ op'[o].worker = "over" <=> op[o].worker = "over"
  <2>1. op[o].pc \in {"queued", "waiting"} /\ UNCHANGED file
    BY DEF Cancel
  <2>. QED
    BY <2>1, Moves DEF Moved
<1>2. \A p \in Ops \ {o} : AbstractCall(p)' = AbstractCall(p)
  BY <1>1 DEF AbstractCall, CallState, Took
<1>. QED
  BY <1>1, <1>2, AbandonStep

LEMMA CrashIsAbandon ==
  ASSUME IInv, IInv', NEW s \in Stores, Crash(s)
  PROVE  \E S \in SUBSET Ops : Register!Abandon(S)
<1> DEFINE S == {o \in Ops : Alive(o, s) /\ op[o].pc # "cancelled"}
<1>1. ASSUME NEW o \in Ops
      PROVE  IF ~Alive(o, s) THEN op'[o] = op[o]
             ELSE /\ op'[o].pc = "cancelled"
                  /\ op'[o].kind = op[o].kind /\ op'[o].thread = op[o].thread
                  /\ op'[o].result = op[o].result
                  /\ op'[o].worker = "over" <=> op[o].worker = "over"
  <2>1. op[o] \in CallRec
    BY DEF IInv, TypeOK
  <2>2. op'[o] = IF ~Alive(o, s) THEN op[o]
                 ELSE [op[o] EXCEPT !.pc = "cancelled",
                                    !.worker = IF @ = "over" THEN @ ELSE "dead"]
    BY DEF Crash
  <2>. QED
    BY <2>1, <2>2 DEF CallRec
<1>2. \A o \in Ops \ S : AbstractCall(o)' = AbstractCall(o)
  BY <1>1 DEF AbstractCall, CallState, Took
<1>3. \A o \in S : op[o].pc \in {"queued", "waiting"} /\ op'[o].pc = "cancelled"
  BY <1>1 DEF Alive
<1>4. UNCHANGED file /\ S \in SUBSET Ops
  BY DEF Crash
<1>5. Register!Abandon(S)
  BY <1>1, <1>2, <1>3, <1>4, AbandonStep
<1>. QED
  BY <1>4, <1>5

\* The file is one register for each thread: a call takes effect whole, at one
\* moment between its start and its end, and a call that was given up at any
\* later moment or never (the protocol of agents/checkpoint.py).
THEOREM StoreIsRegister == Spec => IsRegister
<1>1. Init => Register!Init
  <2> SUFFICES ASSUME Init
               PROVE  Register!Init
    OBVIOUS
  <2>1. file.rows = [t \in Threads |-> 0]
    BY DEF Init
  <2>2. \A o \in Ops : AbstractCall(o) = Register!Free
    BY DEF Init, AbstractCall, CallState, Unused, Register!Free
  <2>. QED
    BY <2>1, <2>2 DEF Register!Init
<1>2. IInv /\ [Next]_vars => [Register!Next]_<<file.rows, Abstract>>
  <2> SUFFICES ASSUME IInv, IInv', [Next]_vars
               PROVE  [Register!Next]_<<file.rows, Abstract>>
    BY NextIInv
  <2>1. CASE UNCHANGED vars
    BY <2>1 DEF vars, Abstract, AbstractCall, CallState, Took
  <2>2. ASSUME NEW o \in Ops, NEW s \in Stores, NEW k \in Kinds, NEW t \in Threads, Call(o, s, k, t)
        PROVE  Register!Next
    BY <2>2, BeginStep DEF Register!Next, Kinds, Register!Kinds
  <2>3. ASSUME NEW o \in Ops, Select(o) \/ CommitRow(o)
        PROVE  Register!Next
    BY <2>3, TakeStep DEF Register!Next
  <2>4. ASSUME NEW o \in Ops, Return(o)
        PROVE  Register!Next
    BY <2>4, LeaveStep DEF Register!Next
  <2>5. ASSUME NEW o \in Ops, Cancel(o)
        PROVE  Register!Next
    BY <2>5, CancelIsAbandon DEF Register!Next
  <2>6. ASSUME NEW s \in Stores, Crash(s)
        PROVE  Register!Next
    BY <2>6, CrashIsAbandon DEF Register!Next
  <2>7. ASSUME NEW o \in Ops,
               Acquire(o) \/ EnsureSchema(o) \/ CreateTable(o) \/ Execute(o) \/ TimeOut(o)
        PROVE  UNCHANGED <<file.rows, Abstract>>
    BY <2>7, UnseenStep
  <2>. QED
    BY <2>1, <2>2, <2>3, <2>4, <2>5, <2>6, <2>7 DEF Next, Advance, Work
<1>. QED
  BY <1>1, <1>2, Invariance, PTL DEF Spec, IsRegister, Register!Spec, Abstract

-----------------------------------------------------------------------------
(* Every call comes back: some call has a step to take as long as one is   *)
(* under way, and no step adds to what is left of any.                     *)

\* How far a call is from its end: what is left of it at a label, its worker at
\* another. The worker of a call that was given up goes on by itself.
Stage(label, worker) ==
  CASE label = "idle" -> 7
    [] label = "queued" -> 6
    [] label \in {"waiting", "cancelled"} /\ worker = "schema" -> 5
    [] label \in {"waiting", "cancelled"} /\ worker = "create" -> 4
    [] label \in {"waiting", "cancelled"} /\ worker = "execute" -> 3
    [] label \in {"waiting", "cancelled"} /\ worker = "commit" -> 2
    [] label = "waiting" /\ worker \in {"over", "failed"} -> 1
    [] OTHER -> 0
Left(o) == Stage(op[o].pc, op[o].worker)

\* The guards of Advance, one for each of its steps.
CanAdvance(o) ==
  \/ /\ op[o].pc = "queued" /\ store[op[o].store].holder = 0
     /\ \A p \in Ops : op[p].store = op[o].store /\ op[p].pc = "queued" => o <= p
  \/ op[o].worker \in {"schema", "create", "commit"}
  \/ op[o].worker = "execute" /\ (Writes(op[o].kind) => writer = 0)
  \/ op[o].pc = "waiting" /\ op[o].worker \in {"over", "failed"}

\* A lock is held by a call that waits for its worker, and the file by a worker
\* that is about to commit.
LocksOK ==
  /\ \A s \in Stores : store[s].holder # 0 =>
       op[store[s].holder].pc = "waiting" /\ op[store[s].holder].store = s
  /\ writer # 0 => op[writer].worker = "commit"

\* As long as a call is under way, one of them has a step to take.
NobodyIsStuck == (\E o \in Ops : ~Ended(o)) => \E o \in Ops : CanAdvance(o)

\* Any non-empty set of natural numbers has a least element.
LEMMA LeastElement ==
  ASSUME NEW T \in SUBSET Nat, T # {}
  PROVE  \E x \in T : \A y \in T : x <= y
<1>1. PICK x \in T : \A y \in T : ~(<<y, x>> \in OpToRel(<, Nat))
  BY WFMin, NatLessThanWellFounded
<1>2. \A y \in T : ~(y < x)
  BY <1>1 DEF OpToRel
<1>. QED
  BY <1>2

\* A call that gives its lock up leaves the locks of the others alone.
LEMMA ReleasedLock ==
  ASSUME IInv, LocksOK, NEW o \in Ops, op[o].store \in Stores, Release(o)
  PROVE  \A s \in Stores : store'[s].holder # 0 =>
           store'[s].holder = store[s].holder /\ store'[s].holder # o
<1> SUFFICES ASSUME NEW s \in Stores, store'[s].holder # 0
             PROVE  store'[s].holder = store[s].holder /\ store'[s].holder # o
  OBVIOUS
<1>1. CASE s = op[o].store
  BY <1>1 DEF Release, IInv, TypeOK
<1>2. CASE s # op[o].store
  <2>1. store'[s] = store[s]
    BY <1>2 DEF Release, IInv, TypeOK
  <2>2. store[s].holder # o
    BY <1>2, <2>1 DEF LocksOK
  <2>. QED
    BY <2>1, <2>2
<1>. QED
  BY <1>1, <1>2

LEMMA NextLocks == IInv /\ LocksOK /\ [Next]_vars => LocksOK'
<1> SUFFICES ASSUME IInv, LocksOK, [Next]_vars
             PROVE  LocksOK'
  OBVIOUS
<1>0. /\ op \in [Ops -> CallRec] /\ writer \in Ops \cup {0} /\ 0 \notin Ops
      /\ store \in [Stores -> [holder : Ops \cup {0}, initialized : BOOLEAN]]
      /\ \A o \in Ops : op[o].pc # "idle" => op[o].store \in Stores
  BY OpsAssumption DEF IInv, TypeOK, CallOK
<1>a. /\ \A s \in Stores : store[s].holder # 0 =>
           store[s].holder \in Ops /\ op[store[s].holder].pc = "waiting" /\ op[store[s].holder].store = s
      /\ writer # 0 => writer \in Ops /\ op[writer].worker = "commit"
  BY <1>0 DEF LocksOK
\* The lock of a call that still waits, and the write lock of a worker that is
\* still about to commit, may stay where they are.
<1>b. ASSUME NEW o \in Ops,
             \A p \in Ops : p # o => op'[p] = op[p],
             op'[o].store = op[o].store,
             \A s \in Stores : store'[s].holder # 0 =>
               \/ store'[s].holder = store[s].holder /\ (store'[s].holder = o => op'[o].pc = "waiting")
               \/ store'[s].holder = o /\ op'[o].pc = "waiting" /\ op[o].store = s,
             writer' # 0 => \/ writer' = writer /\ (writer = o => op'[o].worker = "commit")
                            \/ writer' = o /\ op'[o].worker = "commit"
      PROVE  LocksOK'
  BY <1>0, <1>a, <1>b DEF LocksOK
<1>1. CASE UNCHANGED vars
  BY <1>1 DEF vars, LocksOK
<1>2. ASSUME NEW o \in Ops, NEW s \in Stores, NEW k \in Kinds, NEW t \in Threads, Call(o, s, k, t)
      PROVE  LocksOK'
  <2>1. op[o].pc = "idle" /\ op[o].worker = "none"
    BY <1>2 DEF Call, Unused
  <2>2. (\A p \in Ops : p # o => op'[p] = op[p]) /\ UNCHANGED <<store, writer>>
    BY <1>0, <1>2 DEF Call
  <2>3. \A z \in Stores : store[z].holder # o
    BY <1>0, <1>a, <2>1
  <2>4. writer # o
    BY <1>0, <1>a, <2>1
  <2>. QED
    BY <1>a, <2>2, <2>3, <2>4 DEF LocksOK
<1>3. ASSUME NEW o \in Ops, Acquire(o)
      PROVE  LocksOK'
  <2>0. op[o].pc = "queued" /\ UNCHANGED writer
    BY <1>3 DEF Acquire
  <2>1. /\ Moved(o, "waiting", "schema") /\ op[o].pc = "queued"
        /\ op[o].worker = "none" /\ UNCHANGED writer
    BY <1>3, <2>0, Moves DEF IInv, CallOK
  <2>2. op[o].store \in Stores
    BY <1>0, <2>1
  <2>3. \A s \in Stores : store'[s].holder = IF s = op[o].store THEN o ELSE store[s].holder
    BY <1>0, <1>3, <2>2 DEF Acquire
  <2>4. writer # o
    BY <1>0, <1>a, <2>1
  <2>5. \A s \in Stores : store[s].holder # o
    BY <1>0, <1>a, <2>1
  <2>6. \A s \in Stores : store'[s].holder # 0 =>
               \/ store'[s].holder = store[s].holder /\ (store'[s].holder = o => op'[o].pc = "waiting")
               \/ store'[s].holder = o /\ op'[o].pc = "waiting" /\ op[o].store = s
    BY <2>1, <2>3, <2>5 DEF Moved
  <2>. QED
    BY <1>b, <2>1, <2>4, <2>6 DEF Moved
<1>4. ASSUME NEW o \in Ops, EnsureSchema(o) \/ CreateTable(o)
      PROVE  LocksOK'
  <2>1. PICK label \in {"execute", "create", "failed"} : Moved(o, op[o].pc, label)
    BY <1>4, Moves
  <2>2. op[o].worker \in {"schema", "create"} /\ UNCHANGED writer
    BY <1>4 DEF EnsureSchema, CreateTable
  <2>4. \A s \in Stores : store'[s].holder = store[s].holder
    BY <1>0, <1>4 DEF EnsureSchema, CreateTable, Initialized
  <2>5. writer # o
    BY <1>0, <1>a, <2>2
  <2>6. \A s \in Stores : store[s].holder = o => op'[o].pc = "waiting"
    BY <1>0, <1>a, <2>1 DEF Moved
  <2>. QED
    BY <1>b, <2>1, <2>2, <2>4, <2>5, <2>6 DEF Moved
<1>5. ASSUME NEW o \in Ops, Select(o)
      PROVE  LocksOK'
  <2>1. /\ op[o].worker = "execute" /\ UNCHANGED <<store, writer>>
        /\ op' = [op EXCEPT ![o] = [op[o] EXCEPT !.worker = "over", !.result = file.rows[op[o].thread]]]
    BY <1>0, <1>5 DEF Select
  <2>2. /\ \A p \in Ops : p # o => op'[p] = op[p]
        /\ op'[o].store = op[o].store /\ op'[o].pc = op[o].pc
    BY <1>0, <2>1 DEF CallRec
  <2>3. writer # o
    BY <1>0, <1>a, <2>1
  <2>4. \A s \in Stores : store[s].holder = o => op'[o].pc = "waiting"
    BY <1>0, <1>a, <2>2
  <2>. QED
    BY <1>b, <2>1, <2>2, <2>3, <2>4
<1>6. ASSUME NEW o \in Ops, Execute(o)
      PROVE  LocksOK'
  <2>1. Moved(o, op[o].pc, "commit") /\ UNCHANGED store /\ writer' = o
    BY <1>6, Moves DEF Execute
  <2>3. \A s \in Stores : store[s].holder = o => op'[o].pc = "waiting"
    BY <1>0, <1>a, <2>1 DEF Moved
  <2>. QED
    BY <1>b, <2>1, <2>3 DEF Moved
<1>10. ASSUME NEW o \in Ops, TimeOut(o)
       PROVE  LocksOK'
  <2>1. /\ Moved(o, op[o].pc, "failed") /\ UNCHANGED <<store, writer>>
        /\ op[o].worker = "execute"
    BY <1>10, Moves DEF TimeOut
  <2>2. writer # o
    BY <1>0, <1>a, <2>1
  <2>3. \A s \in Stores : store[s].holder = o => op'[o].pc = "waiting"
    BY <1>0, <1>a, <2>1 DEF Moved
  <2>. QED
    BY <1>b, <2>1, <2>2, <2>3 DEF Moved
<1>7. ASSUME NEW o \in Ops, CommitRow(o)
      PROVE  LocksOK'
  <2>1. UNCHANGED store /\ writer' = 0
    BY <1>7 DEF CommitRow
  <2>3. /\ \A p \in Ops : p # o => op'[p] = op[p]
        /\ op'[o].store = op[o].store /\ op'[o].pc = op[o].pc
    <3>1. PICK row : op' = [op EXCEPT ![o] = [op[o] EXCEPT !.worker = "over", !.result = row]]
      BY <1>0, <1>7 DEF CommitRow
    <3>. QED
      BY <1>0, <3>1 DEF CallRec
  <2>4. \A s \in Stores : store[s].holder = o => op'[o].pc = "waiting"
    BY <1>0, <1>a, <2>3
  <2>. QED
    BY <1>b, <2>1, <2>3, <2>4
<1>8. ASSUME NEW o \in Ops, Return(o) \/ Cancel(o)
      PROVE  LocksOK'
  <2>1. /\ op[o].pc \in {"queued", "waiting"} /\ Release(o) /\ UNCHANGED writer
        /\ op[o].store \in Stores
    BY <1>0, <1>8 DEF Return, Cancel
  <2>2. \A s \in Stores : store'[s].holder # 0 =>
          store'[s].holder = store[s].holder /\ store'[s].holder # o
    BY <2>1, ReleasedLock
  <2>4. \E label, worker : Moved(o, label, worker) /\ (op[o].worker = "commit" => worker = "commit")
    BY <1>8, Moves
  <2>5. writer = o => op'[o].worker = "commit"
    BY <1>0, <1>a, <2>4 DEF Moved
  <2>. QED
    BY <1>b, <2>1, <2>2, <2>4, <2>5 DEF Moved
<1>9. ASSUME NEW s \in Stores, Crash(s)
      PROVE  LocksOK'
  <2>1. \A z \in Stores : store'[z] = IF z = s THEN Closed ELSE store[z]
    BY <1>0, <1>9 DEF Crash
  <2>2. \A o \in Ops : op[o].store # s => op'[o] = op[o]
    BY <1>9 DEF Crash, Alive
  <2>3. writer' # 0 => writer' = writer /\ op[writer].store # s
    BY <1>9 DEF Crash
  <2>4. \A z \in Stores : store'[z].holder # 0 =>
          op'[store'[z].holder].pc = "waiting" /\ op'[store'[z].holder].store = z
    BY <1>a, <2>1, <2>2 DEF Closed
  <2>5. writer' # 0 => op'[writer'].worker = "commit"
    BY <1>0, <1>a, <2>2, <2>3
  <2>. QED
    BY <2>4, <2>5 DEF LocksOK
<1>. QED
  BY <1>1, <1>2, <1>3, <1>4, <1>5, <1>6, <1>7, <1>8, <1>9, <1>10 DEF Next, Advance, Work

LEMMA LocksInvariance == Spec => []LocksOK
<1>1. Init => LocksOK
  BY DEF Init, LocksOK, Closed
<1>. QED
  BY <1>1, Invariance, NextLocks, PTL DEF Spec

\* What can make a call find the file locked.
LEMMA LockingSteps ==
  ASSUME IInv, [Next]_vars, NEW o \in Ops, op[o].error = "none", op'[o].error = "locked"
  PROVE  CreateTable(o) \/ TimeOut(o)
<1>1. op \in [Ops -> CallRec]
  BY DEF IInv, TypeOK
<1>2. ASSUME NEW p \in Ops, CreateTable(p) \/ TimeOut(p)
      PROVE  p = o
  BY <1>1, <1>2 DEF CreateTable, TimeOut, Works
<1>3. ASSUME NEW p \in Ops, Acquire(p) \/ EnsureSchema(p) \/ Execute(p) \/ Return(p) \/ Cancel(p)
      PROVE  FALSE
  BY <1>1, <1>3 DEF Acquire, EnsureSchema, Execute, Return, Cancel, Works, Goto, CallRec
<1>4. ASSUME NEW p \in Ops, Select(p) \/ CommitRow(p)
      PROVE  FALSE
  <2>1. PICK row : op' = [op EXCEPT ![p] = [op[p] EXCEPT !.worker = "over", !.result = row]]
    BY <1>1, <1>4 DEF Select, CommitRow
  <2>. QED
    BY <1>1, <2>1 DEF CallRec
<1>5. ASSUME NEW p \in Ops, NEW s \in Stores, NEW k \in Kinds, NEW t \in Threads, Call(p, s, k, t)
      PROVE  FALSE
  BY <1>1, <1>5 DEF Call, Unused
<1>6. ASSUME NEW s \in Stores, Crash(s)
      PROVE  FALSE
  <2>1. op'[o] = IF ~Alive(o, s) THEN op[o]
                 ELSE [op[o] EXCEPT !.pc = "cancelled",
                                    !.worker = IF @ = "over" THEN @ ELSE "dead"]
    BY <1>6 DEF Crash
  <2>. QED
    BY <1>1, <2>1 DEF CallRec
<1>7. CASE UNCHANGED vars
  BY <1>7 DEF vars
<1>. QED
  BY <1>2, <1>3, <1>4, <1>5, <1>6, <1>7 DEF Next, Advance, Work

\* Nothing is written where a call found another schema.
LEMMA ForeignFile ==
  ASSUME IInv, IInv', [Next]_vars, NEW o \in Ops, op'[o].error = "mismatch"
  PROVE  /\ file' = file
         /\ \A p \in Ops : op'[p].worker # "over" /\ op'[p].error # "locked"
<1>1. file'.version \notin {0, Ours}
  BY DEF IInv, FileOK
<1>2. CASE file' # file
  <2>1. PICK p \in Ops : CreateTable(p) \/ CommitRow(p)
    BY <1>2 DEF Next, Advance, Work, vars, Call, Acquire, EnsureSchema, Select, Execute,
       TimeOut, Return, Cancel, Crash
  <2>2. CASE CreateTable(p)
    BY <1>1, <1>2, <2>2 DEF CreateTable, IInv, TypeOK, Ours
  <2>3. CASE CommitRow(p)
    BY <1>1, <2>3 DEF CommitRow, Row, IInv, TypeOK, FileOK
  <2>. QED
    BY <2>1, <2>2, <2>3
<1>3. ASSUME NEW p \in Ops
      PROVE  op'[p].worker # "over" /\ op'[p].error # "locked"
  <2>1. CASE op'[p].pc = "idle"
    BY <2>1 DEF IInv, CallOK, Unused
  <2>2. CASE op'[p].pc # "idle"
    BY <1>1, <2>2 DEF IInv, FileOK
  <2>. QED
    BY <2>1, <2>2
<1>. QED
  BY <1>2, <1>3

\* A call finds the file locked only while it makes the table, having been made before
\* there was one, or behind a stalled writer of another process; of its own process
\* only if the caller of one of the two gave up (checkpoint.py:229, storage/sqlite.py:15).
\* On a file of another schema every call fails and nothing is written.
THEOREM LockedOut == Spec => LockedOutByOthers
<1>1. IInv /\ IInv' /\ LocksOK /\ [Next]_vars =>
        [\A o \in Ops :
           /\ op[o].error = "none" /\ op'[o].error = "locked" =>
                \/ op[o].worker = "create" /\ ~op[o].late
                \/ /\ op[o].worker = "execute" /\ writer \in Ops
                   /\ op[writer].store = op[o].store => GaveUp(o) \/ GaveUp(writer)
           /\ op'[o].error = "mismatch" =>
                /\ file' = file
                /\ \A p \in Ops : op'[p].worker # "over" /\ op'[p].error # "locked"]_vars
  <2> SUFFICES ASSUME IInv, IInv', LocksOK, [Next]_vars, NEW o \in Ops,
                      op[o].error = "none", op'[o].error = "locked"
               PROVE  \/ op[o].worker = "create" /\ ~op[o].late
                      \/ /\ op[o].worker = "execute" /\ writer \in Ops
                         /\ op[writer].store = op[o].store => GaveUp(o) \/ GaveUp(writer)
    BY ForeignFile
  <2>1. CASE CreateTable(o)
    BY <2>1 DEF CreateTable, IInv, FileOK
  <2>2. CASE TimeOut(o)
    <3>1. /\ op[o].worker = "execute" /\ Writes(op[o].kind)
          /\ writer \in Ops /\ op[writer].worker = "commit"
      BY <2>2 DEF TimeOut, IInv, TypeOK, LocksOK
    <3>2. \A p \in {o, writer} : p \in Ops /\ Writes(op[p].kind) /\ op[p].pc \in {"waiting", "cancelled"}
      BY <3>1 DEF IInv, TypeOK, CallOK, CallRec, Unused
    <3>3. \A p \in {o, writer} : ~GaveUp(p) => store[op[p].store].holder = p
      BY <3>2 DEF GaveUp, IInv, CallOK
    <3>. QED
      BY <3>1, <3>3
  <2>. QED
    BY <2>1, <2>2, LockingSteps
<1>. QED
  BY <1>1, Invariance, LocksInvariance, PTL DEF Spec, LockedOutByOthers

LEMMA StageFacts ==
  ASSUME NEW label \in {"idle", "queued", "waiting", "returned", "failed", "cancelled"},
         NEW worker \in {"none", "schema", "create", "execute", "commit", "over", "failed", "dead"}
  PROVE  /\ Stage(label, worker) \in 0..7
         /\ label = "idle" => Stage(label, worker) = 7
         /\ label # "idle" => Stage(label, worker) \in 0..6
         /\ label = "queued" => Stage(label, worker) = 6
         /\ label \in {"waiting", "cancelled"} =>
              /\ worker = "schema" => Stage(label, worker) = 5
              /\ worker = "create" => Stage(label, worker) = 4
              /\ worker = "execute" => Stage(label, worker) = 3
              /\ worker = "commit" => Stage(label, worker) = 2
              /\ worker \in {"over", "failed"} => Stage(label, worker) \in 0..1
         /\ label = "waiting" /\ worker \in {"over", "failed"} => Stage(label, worker) = 1
         /\ label \in {"returned", "failed"} => Stage(label, worker) = 0
         /\ label = "cancelled" /\ worker \notin {"schema", "create", "execute", "commit"} =>
              Stage(label, worker) = 0
BY DEF Stage

\* What a step makes of the call that takes it.
LEMMA AdvanceRunsDown ==
  ASSUME IInv, NEW o \in Ops, Advance(o) \/ TimeOut(o)
  PROVE  Left(o)' < Left(o) /\ \A p \in Ops : p # o => op'[p] = op[p]
<1>0. /\ op \in [Ops -> CallRec] /\ CallOK(o) /\ Left(o) = Stage(op[o].pc, op[o].worker)
      /\ op[o].pc \in {"idle", "queued", "waiting", "returned", "failed", "cancelled"}
      /\ op[o].worker \in {"none", "schema", "create", "execute", "commit", "over", "failed", "dead"}
  BY DEF IInv, TypeOK, CallRec, Left
<1>a. op[o].worker \in {"schema", "create", "execute", "commit"} => op[o].pc \in {"waiting", "cancelled"}
  BY <1>0 DEF CallOK, Unused
<1>b. ASSUME NEW label, NEW worker, Moved(o, label, worker)
      PROVE  /\ Left(o)' = Stage(label, worker)
             /\ \A p \in Ops : p # o => op'[p] = op[p]
  BY <1>b DEF Moved, Left
<1>1. CASE Acquire(o)
  <2>1. Moved(o, "waiting", "schema") /\ op[o].pc = "queued"
    BY <1>1, Moves DEF Acquire
  <2>. QED
    BY <1>0, <1>b, <2>1, StageFacts
<1>2. CASE EnsureSchema(o)
  <2>1. PICK label \in {"execute", "create", "failed"} : Moved(o, op[o].pc, label)
    BY <1>2, Moves
  <2>2. op[o].worker = "schema"
    BY <1>2 DEF EnsureSchema
  <2>3. Stage(op[o].pc, "schema") = 5 /\ Stage(op[o].pc, label) \in 0..4
    BY <1>0, <1>a, <2>2, StageFacts
  <2>. QED
    BY <1>0, <1>b, <2>1, <2>2, <2>3
<1>3. CASE CreateTable(o)
  <2>1. PICK label \in {"execute", "failed"} : Moved(o, op[o].pc, label)
    <3>1. PICK label \in {"execute", "create", "failed"} : Moved(o, op[o].pc, label)
      BY <1>3, Moves
    <3>2. op'[o].worker # "create"
      BY <1>0, <1>3 DEF CreateTable, Works, CallRec
    <3>. QED
      BY <3>1, <3>2 DEF Moved
  <2>2. op[o].worker = "create"
    BY <1>3 DEF CreateTable
  <2>3. Stage(op[o].pc, "create") = 4 /\ Stage(op[o].pc, label) \in 0..3
    BY <1>0, <1>a, <2>2, StageFacts
  <2>. QED
    BY <1>0, <1>b, <2>1, <2>2, <2>3
<1>4. CASE Execute(o)
  <2>1. Moved(o, op[o].pc, "commit") /\ op[o].worker = "execute"
    BY <1>4, Moves DEF Execute
  <2>2. Stage(op[o].pc, "execute") = 3 /\ Stage(op[o].pc, "commit") = 2
    BY <1>0, <1>a, <2>1, StageFacts
  <2>. QED
    BY <1>0, <1>b, <2>1, <2>2
<1>5. CASE Select(o) \/ CommitRow(o)
  <2>1. PICK row : op' = [op EXCEPT ![o] = [op[o] EXCEPT !.worker = "over", !.result = row]]
    BY <1>0, <1>5 DEF Select, CommitRow
  <2>2. /\ \A p \in Ops : p # o => op'[p] = op[p]
        /\ op'[o].pc = op[o].pc /\ op'[o].worker = "over"
    BY <1>0, <2>1 DEF CallRec
  <2>3. op[o].worker \in {"execute", "commit"}
    BY <1>5 DEF Select, CommitRow
  <2>4. Stage(op[o].pc, op[o].worker) \in 2..3 /\ Stage(op[o].pc, "over") \in 0..1
    BY <1>0, <1>a, <2>3, StageFacts
  <2>. QED
    BY <1>0, <2>2, <2>4 DEF Left
<1>6. CASE Return(o)
  <2>1. PICK label \in {"returned", "failed"} : Moved(o, label, op[o].worker)
    BY <1>6, Moves
  <2>2. op[o].pc = "waiting" /\ op[o].worker \in {"over", "failed"}
    BY <1>6 DEF Return
  <2>3. Stage(op[o].pc, op[o].worker) = 1 /\ Stage(label, op[o].worker) = 0
    BY <1>0, <2>2, StageFacts
  <2>. QED
    BY <1>0, <1>b, <2>1, <2>3
<1>7. CASE TimeOut(o)
  <2>1. Moved(o, op[o].pc, "failed") /\ op[o].worker = "execute"
    BY <1>7, Moves DEF TimeOut
  <2>2. Stage(op[o].pc, "execute") = 3 /\ Stage(op[o].pc, "failed") \in 0..1
    BY <1>0, <1>a, <2>1, StageFacts
  <2>. QED
    BY <1>0, <1>b, <2>1, <2>2
<1>. QED
  BY <1>1, <1>2, <1>3, <1>4, <1>5, <1>6, <1>7 DEF Advance, Work

\* Nor does any other step add to what is left of a call.
LEMMA NothingIsAdded ==
  ASSUME IInv, IInv', [Next]_vars, NEW o \in Ops
  PROVE  Left(o)' <= Left(o)
<1>0. /\ op \in [Ops -> CallRec] /\ op' \in [Ops -> CallRec]
      /\ Left(o) = Stage(op[o].pc, op[o].worker) /\ Left(o)' = Stage(op'[o].pc, op'[o].worker)
      /\ op[o].pc \in {"idle", "queued", "waiting", "returned", "failed", "cancelled"}
      /\ op[o].worker \in {"none", "schema", "create", "execute", "commit", "over", "failed", "dead"}
      /\ op'[o].pc \in {"idle", "queued", "waiting", "returned", "failed", "cancelled"}
      /\ op'[o].worker \in {"none", "schema", "create", "execute", "commit", "over", "failed", "dead"}
  BY DEF IInv, TypeOK, CallRec, Left
<1>1. Left(o) \in 0..7 /\ Left(o)' \in 0..7
  BY <1>0, StageFacts
<1>2. CASE op'[o] = op[o]
  BY <1>0, <1>1, <1>2
<1>3. CASE op[o].pc = "idle"
  BY <1>0, <1>1, <1>3, StageFacts
<1>4. ASSUME NEW p \in Ops, Advance(p) \/ TimeOut(p)
      PROVE  Left(o)' <= Left(o)
  <2>1. CASE p = o
    BY <1>1, <1>4, <2>1, AdvanceRunsDown
  <2>2. CASE p # o
    BY <1>2, <1>4, <2>2, AdvanceRunsDown
  <2>. QED
    BY <2>1, <2>2
<1>5. ASSUME NEW p \in Ops, NEW s \in Stores, NEW k \in Kinds, NEW t \in Threads, Call(p, s, k, t)
      PROVE  Left(o)' <= Left(o)
  <2>1. CASE p = o
    BY <1>3, <1>5, <2>1 DEF Call, Unused
  <2>2. CASE p # o
    BY <1>0, <1>2, <1>5, <2>2 DEF Call
  <2>. QED
    BY <2>1, <2>2
<1>6. ASSUME op[o].pc \in {"queued", "waiting", "cancelled"}, op'[o].pc = "cancelled",
             op'[o].worker \in {op[o].worker, "dead", "over"},
             op'[o].worker = "over" => op[o].worker = "over"
      PROVE  Left(o)' <= Left(o)
  <2>1. CASE op[o].pc = "queued"
    BY <1>0, <1>1, <1>6, <2>1, StageFacts
  <2>2. CASE op'[o].worker = op[o].worker /\ op[o].worker \in {"schema", "create", "execute", "commit"}
    BY <1>0, <1>6, <2>1, <2>2, StageFacts
  <2>3. CASE op'[o].worker \notin {"schema", "create", "execute", "commit"}
    BY <1>0, <1>1, <1>6, <2>3, StageFacts
  <2>. QED
    BY <1>0, <1>6, <2>1, <2>2, <2>3
<1>7. ASSUME NEW p \in Ops, Cancel(p)
      PROVE  Left(o)' <= Left(o)
  <2>1. PICK worker \in {op[p].worker, "dead"} : Moved(p, "cancelled", worker)
    BY <1>7, Moves
  <2>2. CASE p = o
    <3>1. op[o].pc \in {"queued", "waiting"} /\ op'[o].pc = "cancelled" /\ op'[o].worker = worker
      BY <1>7, <2>1, <2>2 DEF Cancel, Moved
    <3>. QED
      BY <1>6, <2>1, <2>2, <3>1
  <2>3. CASE p # o
    BY <1>2, <2>1, <2>3 DEF Moved
  <2>. QED
    BY <2>2, <2>3
<1>8. ASSUME NEW s \in Stores, Crash(s)
      PROVE  Left(o)' <= Left(o)
  <2>1. CASE ~Alive(o, s)
    BY <1>2, <1>8, <2>1 DEF Crash
  <2>2. CASE Alive(o, s)
    <3>1. op'[o].pc = "cancelled" /\ op'[o].worker = IF op[o].worker = "over" THEN "over" ELSE "dead"
      <4>1. op[o] \in CallRec
        BY <1>0
      <4>2. op'[o] = [op[o] EXCEPT !.pc = "cancelled", !.worker = IF @ = "over" THEN @ ELSE "dead"]
        BY <1>8, <2>2 DEF Crash
      <4>. QED
        BY <4>1, <4>2 DEF CallRec
    <3>2. op[o].pc \in {"queued", "waiting", "cancelled"}
      BY <2>2 DEF Alive
    <3>. QED
      BY <1>6, <3>1, <3>2
  <2>. QED
    BY <2>1, <2>2
<1>9. CASE UNCHANGED vars
  BY <1>2, <1>9 DEF vars
<1>. QED
  BY <1>4, <1>5, <1>7, <1>8, <1>9 DEF Next

\* Whoever waits for a lock waits for a call that waits for its worker, and a
\* worker that waits for the file waits for one that is about to commit.
LEMMA SomeoneCanAdvance ==
  ASSUME IInv, LocksOK, NEW o \in Ops, ~Ended(o)
  PROVE  \E p \in Ops : CanAdvance(p)
<1>0. /\ op[o].pc \in {"queued", "waiting"} /\ op[o].store \in Stores
      /\ \A p \in Ops : op[p].pc = "waiting" =>
           op[p].worker \in {"schema", "create", "execute", "commit", "over", "failed"}
  BY DEF Ended, IInv, TypeOK, CallOK, CallRec
<1>1. ASSUME NEW p \in Ops, op[p].pc = "waiting"
      PROVE  \E q \in Ops : CanAdvance(q)
  <2>1. op[p].worker \in {"schema", "create", "execute", "commit", "over", "failed"}
    BY <1>0, <1>1
  <2>2. CASE op[p].worker # "execute" \/ writer = 0
    BY <1>1, <2>1, <2>2 DEF CanAdvance
  <2>3. CASE writer # 0
    <3>1. writer \in Ops /\ op[writer].worker = "commit"
      BY <2>3 DEF IInv, TypeOK, LocksOK
    <3>. QED
      BY <3>1 DEF CanAdvance
  <2>. QED
    BY <2>2, <2>3
<1>2. CASE op[o].pc = "queued" /\ store[op[o].store].holder # 0
  <2>1. store[op[o].store].holder \in Ops /\ op[store[op[o].store].holder].pc = "waiting"
    BY <1>0, <1>2 DEF IInv, TypeOK, LocksOK
  <2>. QED
    BY <1>1, <2>1
<1>3. CASE op[o].pc = "queued" /\ store[op[o].store].holder = 0
  <2> DEFINE Queue == {p \in Ops : op[p].store = op[o].store /\ op[p].pc = "queued"}
  <2>1. Queue \in SUBSET Nat /\ Queue # {}
    BY <1>3, OpsAssumption
  <2>2. PICK first \in Queue : \A p \in Queue : first <= p
    BY <2>1, LeastElement
  <2>. QED
    BY <1>3, <2>2 DEF CanAdvance
<1>. QED
  BY <1>0, <1>1, <1>2, <1>3

\* Every call comes back in at most six steps of its own, its process and its
\* caller permitting: each of them leaves less to do, nothing the others do adds to
\* it, and there is always a call under way that can take one (agents/checkpoint.py).
THEOREM CallsRunDown ==
  Spec => /\ [](NobodyIsStuck /\ \A o \in Ops : Left(o) \in 0..7)
          /\ [][\A o \in Ops :
                  Left(o)' <= Left(o) /\ (Advance(o) \/ TimeOut(o) => Left(o)' < Left(o))]_vars
<1>2. IInv /\ LocksOK => NobodyIsStuck
  BY SomeoneCanAdvance DEF NobodyIsStuck
<1>3. ASSUME IInv, NEW o \in Ops
      PROVE  Left(o) \in 0..7
  <2>1. /\ op[o].pc \in {"idle", "queued", "waiting", "returned", "failed", "cancelled"}
        /\ op[o].worker \in {"none", "schema", "create", "execute", "commit", "over", "failed", "dead"}
    BY <1>3 DEF IInv, TypeOK, CallRec
  <2>. QED
    BY <2>1, StageFacts DEF Left
<1>4. IInv /\ LocksOK => NobodyIsStuck /\ \A o \in Ops : Left(o) \in 0..7
  BY <1>2, <1>3
<1>5. IInv /\ IInv' /\ [Next]_vars =>
        [\A o \in Ops :
           Left(o)' <= Left(o) /\ (Advance(o) \/ TimeOut(o) => Left(o)' < Left(o))]_vars
  BY AdvanceRunsDown, NothingIsAdded
<1>. QED
  BY <1>4, <1>5, Invariance, LocksInvariance, PTL DEF Spec

=============================================================================
