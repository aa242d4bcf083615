--------------------------- MODULE GraphRun_proofs --------------------------
(***************************************************************************)
(* Proofs about GraphRun, for any graph, guards, budget and bounds: type   *)
(* correctness, the gate, what a record is worth to whoever resumes it,    *)
(* the errors it keeps, that records and nodes implement GraphWalk, and    *)
(* that every call runs down; and about GraphBuilder, that what compiles   *)
(* is what GraphRun assumes of its constants.                              *)
(***************************************************************************)
EXTENDS GraphRun, FiniteSetTheorems, TLAPS

CONSTANT NoName     \* of GraphBuilder: no edge yet, no entry point yet

Builder == INSTANCE GraphBuilder

-----------------------------------------------------------------------------
(* Lemmas about walks and the state merged along them.                     *)

LEMMA AppendFacts ==
  ASSUME NEW S, NEW s \in Seq(S), NEW x \in S
  PROVE  /\ Append(s, x) \in Seq(S) /\ Append(s, x) # <<>>
         /\ Len(Append(s, x)) = Len(s) + 1
         /\ Last(Append(s, x)) = x
         /\ ToSet(Append(s, x)) = ToSet(s) \cup {x}
<1>1. /\ Append(s, x) \in Seq(S) /\ Append(s, x) # <<>>
      /\ Len(Append(s, x)) = Len(s) + 1 /\ Len(s) \in Nat
      /\ \A i \in 1..Len(s) : Append(s, x)[i] = s[i]
      /\ Append(s, x)[Len(s) + 1] = x
  OBVIOUS
<1>2. Last(Append(s, x)) = x
  BY <1>1 DEF Last
<1>3. ToSet(Append(s, x)) = ToSet(s) \cup {x}
  <2>1. DOMAIN s = 1..Len(s) /\ DOMAIN Append(s, x) = 1..(Len(s) + 1)
    BY <1>1
  <2>2. \A y \in ToSet(Append(s, x)) : y \in ToSet(s) \cup {x}
    BY <1>1, <2>1 DEF ToSet
  <2>3. \A y \in ToSet(s) : y \in ToSet(Append(s, x))
    BY <1>1, <2>1 DEF ToSet
  <2>4. x \in ToSet(Append(s, x))
    BY <1>1, <2>1 DEF ToSet
  <2>. QED
    BY <2>2, <2>3, <2>4
<1>. QED
  BY <1>1, <1>2, <1>3

LEMMA MergedEmpty ==
  ASSUME NEW ran, NEW no
  PROVE  Merged(ran, no, <<>>, <<>>)
<1> DEFINE at == [j \in {} |-> 0]
<1>1. DOMAIN <<>> = {}
  OBVIOUS
<1>2. at \in [DOMAIN <<>> -> DOMAIN <<>>]
  BY <1>1
<1>. QED
  BY <1>1, <1>2 DEF Merged

\* A rejected node is no loss.
LEMMA MergedRejected ==
  ASSUME NEW ran, NEW no, NEW c \in Seq(Nodes), NEW s \in Seq(Nodes), NEW n \in Guarded,
         n \in Nodes, Merged(ran, no, c, s)
  PROVE  Merged(ran, no, Append(c, n), s)
<1>1. PICK at \in [DOMAIN s -> DOMAIN c] :
        /\ \A i, j \in DOMAIN s : i < j => at[i] < at[j]
        /\ \A j \in DOMAIN s : s[j] = c[at[j]] /\ ran[<<no, at[j], c[at[j]]>>] > 0
        /\ \A i \in DOMAIN c : c[i] \notin Guarded => \E j \in DOMAIN s : at[j] = i
  BY DEF Merged
<1> DEFINE d == Append(c, n)
<1>2. /\ DOMAIN c = 1..Len(c) /\ DOMAIN d = 1..(Len(c) + 1) /\ Len(c) \in Nat
      /\ \A i \in DOMAIN c : i \in DOMAIN d /\ d[i] = c[i]
      /\ d[Len(c) + 1] = n
  OBVIOUS
<1> HIDE DEF d
<1>3. at \in [DOMAIN s -> DOMAIN d]
  BY <1>2
<1>4. \A j \in DOMAIN s : s[j] = d[at[j]] /\ ran[<<no, at[j], d[at[j]]>>] > 0
  BY <1>1, <1>2
<1>5. \A i \in DOMAIN d : d[i] \notin Guarded => \E j \in DOMAIN s : at[j] = i
  BY <1>1, <1>2
<1>. QED
  BY <1>1, <1>3, <1>4, <1>5 DEF Merged, d

\* A node that ran adds its update.
LEMMA MergedRan ==
  ASSUME NEW ran, NEW no, NEW c \in Seq(Nodes), NEW s \in Seq(Nodes), NEW n \in Nodes,
         ran[<<no, Len(c) + 1, n>>] > 0, Merged(ran, no, c, s)
  PROVE  Merged(ran, no, Append(c, n), Append(s, n))
<1>1. PICK at \in [DOMAIN s -> DOMAIN c] :
        /\ \A i, j \in DOMAIN s : i < j => at[i] < at[j]
        /\ \A j \in DOMAIN s : s[j] = c[at[j]] /\ ran[<<no, at[j], c[at[j]]>>] > 0
        /\ \A i \in DOMAIN c : c[i] \notin Guarded => \E j \in DOMAIN s : at[j] = i
  BY DEF Merged
<1> DEFINE d == Append(c, n)
           t == Append(s, n)
           new == [j \in DOMAIN t |-> IF j = Len(s) + 1 THEN Len(c) + 1 ELSE at[j]]
<1>2. /\ DOMAIN c = 1..Len(c) /\ DOMAIN d = 1..(Len(c) + 1) /\ Len(c) \in Nat
      /\ \A i \in DOMAIN c : i \in DOMAIN d /\ d[i] = c[i]
      /\ d[Len(c) + 1] = n
  OBVIOUS
<1>3. /\ DOMAIN s = 1..Len(s) /\ DOMAIN t = 1..(Len(s) + 1) /\ Len(s) \in Nat
      /\ \A i \in DOMAIN s : i \in DOMAIN t /\ t[i] = s[i]
      /\ t[Len(s) + 1] = n
  OBVIOUS
<1> HIDE DEF d, t
<1>4. /\ new \in [DOMAIN t -> DOMAIN d] /\ new[Len(s) + 1] = Len(c) + 1
      /\ \A j \in DOMAIN s : new[j] = at[j] /\ at[j] \in 1..Len(c)
      /\ \A j \in DOMAIN t : j \in DOMAIN s \/ j = Len(s) + 1
  BY <1>2, <1>3
<1> HIDE DEF new
<1>5. ASSUME NEW i \in DOMAIN t, NEW j \in DOMAIN t, i < j
      PROVE  new[i] < new[j]
  <2>1. i \in DOMAIN s
    BY <1>3, <1>5
  <2>2. CASE j \in DOMAIN s
    BY <1>1, <1>4, <1>5, <2>1, <2>2
  <2>3. CASE j = Len(s) + 1
    BY <1>2, <1>4, <2>1, <2>3
  <2>. QED
    BY <1>4, <2>2, <2>3
<1>6. ASSUME NEW j \in DOMAIN t
      PROVE  t[j] = d[new[j]] /\ ran[<<no, new[j], d[new[j]]>>] > 0
  <2>1. CASE j \in DOMAIN s
    BY <1>1, <1>2, <1>3, <1>4, <2>1
  <2>2. CASE j = Len(s) + 1
    BY <1>2, <1>3, <1>4, <2>2
  <2>. QED
    BY <1>4, <2>1, <2>2
<1>7. ASSUME NEW i \in DOMAIN d, d[i] \notin Guarded
      PROVE  \E j \in DOMAIN t : new[j] = i
  <2>1. CASE i \in DOMAIN c
    <3>1. PICK j \in DOMAIN s : at[j] = i
      BY <1>1, <1>2, <1>7, <2>1
    <3>. QED
      BY <1>3, <1>4, <3>1
  <2>2. CASE i = Len(c) + 1
    BY <1>3, <1>4, <2>2
  <2>. QED
    BY <1>2, <2>1, <2>2
<1>. QED
  BY <1>4, <1>5, <1>6, <1>7 DEF Merged, d, t

\* Another run of a node changes nothing.
LEMMA MergedOn ==
  ASSUME NEW ran \in [Visit -> Nat], NEW v \in Visit, NEW no, NEW c \in Seq(Nodes), NEW s,
         \A i \in DOMAIN c : <<no, i, c[i]>> \in Visit, Merged(ran, no, c, s)
  PROVE  Merged([ran EXCEPT ![v] = @ + 1], no, c, s)
<1>1. PICK at \in [DOMAIN s -> DOMAIN c] :
        /\ \A i, j \in DOMAIN s : i < j => at[i] < at[j]
        /\ \A j \in DOMAIN s : s[j] = c[at[j]] /\ ran[<<no, at[j], c[at[j]]>>] > 0
        /\ \A i \in DOMAIN c : c[i] \notin Guarded => \E j \in DOMAIN s : at[j] = i
  BY DEF Merged
<1> DEFINE new == [ran EXCEPT ![v] = @ + 1]
<1>2. \A w \in Visit : ran[w] > 0 => new[w] > 0
  OBVIOUS
<1> HIDE DEF new
<1>3. \A j \in DOMAIN s : s[j] = c[at[j]] /\ new[<<no, at[j], c[at[j]]>>] > 0
  BY <1>1, <1>2
<1>. QED
  BY <1>1, <1>3 DEF Merged, new

-----------------------------------------------------------------------------
(* The inductive invariant.                                                *)

\* n comes next on a walk.
Fits(n, completed) ==
  IF completed = <<>> THEN n = Entry ELSE n \in Edges[Last(completed)]

Running == pc \in {"loop", "node", "ran"}

\* The record: what a resume starts from.
StoreOK ==
  /\ store.run <= runs
  /\ IF store.status = "absent"
     THEN store.run = 0 /\ store.completed = <<>> /\ store.state = <<>> /\ store.prior = <<>>
     ELSE store.run > 0
  /\ store.status # "failed" => store.error = NoError
  /\ Len(store.state) = store.iterations
  /\ Len(store.completed) <= store.iterations + resumes
  /\ PointerFits
  /\ UpdatesKept

\* The run: how far it is ahead of its record.
RunOK ==
  pc # "idle" =>
    /\ run.no \in 1..runs /\ store.run <= run.no
    /\ Len(run.state) = run.iterations
    /\ Len(run.completed) <= run.iterations + resumes
    /\ run.skip => /\ pc = "loop" /\ run.next \in Guarded /\ ~run.approved
                   /\ Len(run.completed) + 1 <= run.iterations + resumes
    /\ run.approved => pc \in {"loop", "failing"}
    /\ Running => /\ Fits(run.next, run.completed)
                  /\ run.completed = IF run.no = store.run THEN store.completed ELSE <<>>
    /\ pc \in {"node", "ran"} => run.next \in Nodes /\ run.iterations < MaxIterations
    /\ pc = "park" => /\ run.next \in Nodes
                      /\ IF run.no = store.run
                         THEN /\ run.completed = Append(store.completed, run.next)
                              /\ Fits(run.next, store.completed)
                         ELSE run.completed = <<Entry>>
    /\ pc = "routing" => /\ run.no = store.run /\ run.completed = store.completed
                         /\ run.completed # <<>>
    /\ run.no = store.run => Errors(store) \subseteq ToSet(run.prior)
    /\ Merged(effects, run.no, run.completed, run.state)
    /\ pc = "ran" => effects[ThisVisit(run)] > 0

\* An approval that is not used up yet.
GateOK ==
  (pc = "loop" /\ run.approved) \/ pc = "node" =>
    (run.next \in Guarded => effects[ThisVisit(run)] < approvals[ThisVisit(run)])

IInv == TypeOK /\ StoreOK /\ RunOK /\ GateHolds /\ GateOK

LEMMA ConstantFacts ==
  /\ Entry \in Nodes /\ END \notin Nodes /\ ROUTING \notin Nodes /\ END # ROUTING
  /\ Guarded \subseteq Nodes
  /\ \A n \in Nodes : Edges[n] \subseteq Nodes \cup {END}
  /\ MaxIterations \in Nat /\ MaxIterations > 0
  /\ MaxRuns \in Nat /\ MaxResumes \in Nat
BY GraphAssumption, BoundsAssumption

\* What comes next on a walk is a node or the end.
LEMMA FitsFacts ==
  ASSUME NEW c \in Seq(Nodes), NEW n, Fits(n, c)
  PROVE  n \in Nodes \cup {END}
<1>1. c # <<>> => Last(c) \in Nodes
  BY DEF Last
<1>. QED
  BY <1>1, ConstantFacts DEF Fits

\* A write of the run's own record.
LEMMA PutStep ==
  ASSUME IInv, pc # "idle", UNCHANGED <<effects, runs, resumes>>,
         NEW status \in {"running", "interrupted", "completed"},
         NEW next \in Nodes \cup {END, ROUTING}, Put(status, next),
         IF next = ROUTING THEN run.completed # <<>> ELSE Fits(next, run.completed),
         status = "interrupted" => next \in Guarded,
         status = "completed" => next = END
  PROVE  /\ store' \in Checkpoint /\ StoreOK'
         /\ store'.run = run.no /\ store'.completed = run.completed
         /\ store'.prior = run.prior /\ Errors(store') \subseteq ToSet(run.prior)
<1>1. /\ run \in RunRecord /\ run.no \in 0..MaxRuns /\ run.completed \in Seq(Nodes)
      /\ run.iterations \in 0..MaxIterations /\ run.state \in Seq(Nodes) /\ run.prior \in Seq(Nat)
  BY DEF IInv, TypeOK, RunRecord
<1>2. /\ store'.status = status /\ store'.run = run.no /\ store'.next = next
      /\ store'.completed = run.completed /\ store'.iterations = run.iterations
      /\ store'.state = run.state /\ store'.error = NoError /\ store'.prior = run.prior
  BY DEF Put
<1>3. store' \in Checkpoint
  BY <1>1 DEF Put, Checkpoint, Status, NoError
<1>4. /\ run.no \in 1..runs /\ Len(run.state) = run.iterations
      /\ Len(run.completed) <= run.iterations + resumes
      /\ Merged(effects, run.no, run.completed, run.state)
  BY DEF IInv, RunOK
<1>5. PointerFits'
  BY <1>2 DEF PointerFits, Fits
<1>6. UpdatesKept'
  BY <1>2, <1>4 DEF UpdatesKept
<1>7. runs \in Nat
  BY DEF IInv, TypeOK
<1>8. StoreOK'
  BY <1>2, <1>4, <1>5, <1>6, <1>7 DEF StoreOK
<1>9. Errors(store') \subseteq ToSet(run.prior)
  BY <1>2 DEF Errors
<1>. QED
  BY <1>2, <1>3, <1>8, <1>9

\* A step that leaves the record alone.
LEMMA StoreStays ==
  ASSUME IInv, UNCHANGED <<store, effects>>, runs' \in Nat, resumes' \in Nat,
         runs <= runs', resumes <= resumes'
  PROVE  StoreOK'
<1>1. StoreOK /\ store \in Checkpoint /\ runs \in Nat /\ resumes \in Nat
  BY DEF IInv, TypeOK
<1>2. store.run \in Nat /\ store.iterations \in Nat /\ Len(store.completed) \in Nat
  BY <1>1 DEF Checkpoint
<1>. QED
  BY <1>1, <1>2 DEF StoreOK, PointerFits, UpdatesKept

\* The coroutine is gone: nothing is claimed of its locals.
LEMMA Gone ==
  ASSUME IInv, Leave, UNCHANGED <<history, runs, resumes>>, raised' \in Nat,
         store' \in Checkpoint, StoreOK'
  PROVE  IInv'
<1>1. NewRun(0) \in RunRecord
  BY ConstantFacts DEF NewRun, RunRecord
<1>2. TypeOK'
  BY <1>1 DEF IInv, TypeOK, Leave, NoError, history
<1>3. RunOK' /\ GateOK'
  BY DEF RunOK, GateOK, Leave
<1>4. GateHolds'
  BY DEF IInv, GateHolds, history
<1>. QED
  BY <1>2, <1>3, <1>4 DEF IInv

\* A visit that starts is one of those counted.
LEMMA VisitFacts ==
  ASSUME IInv, pc \in {"loop", "node", "ran"}, run.next \in Nodes, run.iterations < MaxIterations
  PROVE  ThisVisit(run) \in Visit
<1>1. /\ run.no \in 1..MaxRuns /\ run.completed \in Seq(Nodes) /\ run.iterations \in Nat
      /\ resumes \in 0..MaxResumes
  BY DEF IInv, TypeOK, RunOK, RunRecord
<1>2. Len(run.completed) + 1 \in 1..MaxVisits
  BY <1>1, ConstantFacts DEF IInv, RunOK, MaxVisits
<1>. QED
  BY <1>1, <1>2 DEF ThisVisit, Visit

-----------------------------------------------------------------------------
(* The steps.                                                              *)

LEMMA InitOK == Init => IInv
<1> SUFFICES ASSUME Init PROVE IInv
  OBVIOUS
<1>1. /\ NoCheckpoint \in Checkpoint /\ NewRun(0) \in RunRecord
  BY ConstantFacts DEF NewRun, RunRecord, NoCheckpoint, Checkpoint, Status, NoError
<1>2. TypeOK
  BY <1>1, ConstantFacts DEF Init, TypeOK, NoError
<1>3. /\ store.status = "absent" /\ store.run = 0 /\ store.completed = <<>> /\ store.state = <<>>
      /\ store.prior = <<>> /\ store.error = NoError /\ store.iterations = 0
  BY DEF Init, NoCheckpoint
<1>4. StoreOK
  BY <1>3, MergedEmpty DEF Init, StoreOK, PointerFits, UpdatesKept
<1>5. RunOK /\ GateOK /\ GateHolds
  BY DEF Init, RunOK, GateOK, GateHolds
<1>. QED
  BY <1>2, <1>4, <1>5 DEF IInv

LEMMA InvokeStep == ASSUME IInv, Invoke PROVE IInv'
<1> DEFINE no == runs + 1
<1>1. /\ pc' = "loop" /\ run' = NewRun(no) /\ runs' = no /\ runs \in 0..MaxRuns /\ runs < MaxRuns
      /\ UNCHANGED <<store, exc, history, resumes, raised>>
  BY DEF Invoke, IInv, TypeOK
<1>2. no \in 1..MaxRuns
  BY <1>1, ConstantFacts
<1>3. /\ run' \in RunRecord /\ run'.no = no /\ run'.next = Entry /\ run'.completed = <<>>
      /\ run'.iterations = 0 /\ run'.state = <<>> /\ run'.skip = FALSE /\ run'.approved = FALSE
  BY <1>1, <1>2, ConstantFacts DEF NewRun, RunRecord
<1>4. TypeOK'
  BY <1>1, <1>2, <1>3 DEF IInv, TypeOK, history
<1>5. StoreOK'
  BY <1>1, <1>4, StoreStays DEF TypeOK, history
<1>6. store.run < no
  BY <1>1 DEF IInv, StoreOK, TypeOK, Checkpoint
<1>7. RunOK'
  <2>1. Merged(effects, no, <<>>, <<>>)
    BY MergedEmpty
  <2>2. resumes \in Nat /\ store.run \in Nat
    BY DEF IInv, TypeOK, Checkpoint
  <2>. QED
    BY <1>1, <1>2, <1>3, <1>6, <2>1, <2>2 DEF RunOK, Running, Fits, history
<1>8. GateOK' /\ GateHolds'
  BY <1>1, <1>3 DEF GateOK, GateHolds, IInv, history
<1>. QED
  BY <1>4, <1>5, <1>7, <1>8 DEF IInv

LEMMA CompleteStep == ASSUME IInv, Complete PROVE IInv'
<1>1. pc = "loop" /\ run.next = END /\ UNCHANGED <<history, runs, resumes, raised>>
  BY DEF Complete
<1>2. Fits(END, run.completed)
  BY <1>1 DEF IInv, RunOK, Running
<1>3. store' \in Checkpoint /\ StoreOK'
  BY <1>1, <1>2, PutStep, ConstantFacts DEF Complete, history
<1>. QED
  BY <1>1, <1>3, Gone DEF Complete, IInv, TypeOK

LEMMA InterruptStep == ASSUME IInv, Interrupt PROVE IInv'
<1>1. pc = "loop" /\ run.next \in Guarded /\ UNCHANGED <<history, runs, resumes, raised>>
  BY DEF Interrupt, AtNode
<1>2. Fits(run.next, run.completed)
  BY <1>1 DEF IInv, RunOK, Running
<1>3. store' \in Checkpoint /\ StoreOK'
  BY <1>1, <1>2, PutStep, ConstantFacts DEF Interrupt, history
<1>. QED
  BY <1>1, <1>3, Gone DEF Interrupt, IInv, TypeOK

LEMMA CrashStep == ASSUME IInv, Crash PROVE IInv'
<1>1. StoreOK' /\ store' \in Checkpoint /\ raised' \in Nat
  BY StoreStays DEF Crash, IInv, TypeOK, history
<1>. QED
  BY <1>1, Gone DEF Crash

LEMMA CheckpointFailureStep == ASSUME IInv, CheckpointFailure PROVE IInv'
<1>1. /\ pc = "failing" /\ Leave /\ UNCHANGED <<history, runs, resumes, raised>>
      /\ store \in Checkpoint /\ exc \in Nat /\ run.prior \in Seq(Nat)
  BY DEF CheckpointFailure, IInv, TypeOK, RunRecord
<1>2. CASE store' = store
  <2>1. StoreOK' /\ store' \in Checkpoint /\ raised' \in Nat
    BY <1>1, <1>2, StoreStays DEF IInv, TypeOK, history
  <2>. QED
    BY <1>1, <2>1, Gone
<1>3. CASE store.status # "absent"
           /\ store' = [store EXCEPT !.status = "failed", !.error = exc, !.prior = run.prior]
  <2>1. /\ store' \in Checkpoint /\ store'.status = "failed" /\ store'.run = store.run
        /\ store'.next = store.next /\ store'.completed = store.completed
        /\ store'.iterations = store.iterations /\ store'.state = store.state
    BY <1>1, <1>3 DEF Checkpoint, Status
  <2>2. StoreOK /\ UNCHANGED <<effects, runs, resumes>>
    BY <1>1 DEF IInv, history
  <2>3. StoreOK'
    BY <1>3, <2>1, <2>2 DEF StoreOK, PointerFits, UpdatesKept
  <2>. QED
    BY <1>1, <2>1, <2>3, Gone DEF IInv, TypeOK
<1>. QED
  BY <1>1, <1>2, <1>3 DEF CheckpointFailure

LEMMA RunFacts ==
  ASSUME IInv, pc # "idle"
  PROVE  /\ run \in RunRecord /\ run.no \in 1..MaxRuns /\ run.completed \in Seq(Nodes)
         /\ run.iterations \in 0..MaxIterations /\ run.state \in Seq(Nodes) /\ run.prior \in Seq(Nat)
         /\ run.next \in Nodes \cup {END, ROUTING} /\ Len(run.completed) \in Nat
         /\ runs \in 0..MaxRuns /\ resumes \in 0..MaxResumes
         /\ store \in Checkpoint /\ store.run \in 0..MaxRuns /\ store.completed \in Seq(Nodes)
BY ConstantFacts DEF IInv, TypeOK, RunOK, RunRecord, Checkpoint

LEMMA SkipRejectedStep == ASSUME IInv, SkipRejected PROVE IInv'
<1> DEFINE r == [run EXCEPT !.skip = FALSE, !.completed = Append(@, run.next)]
           c == run.completed
<1>1. /\ pc = "loop" /\ run.next # END /\ run.skip /\ pc' = "park"
      /\ UNCHANGED <<store, exc, history, runs, resumes, raised>> /\ run' = r
  BY DEF SkipRejected
<1>2. RunOK /\ run.next \in Guarded /\ run.next \in Nodes /\ Fits(run.next, c)
  BY <1>1, ConstantFacts DEF IInv, RunOK, Running
<1>3. /\ r \in RunRecord /\ r.no = run.no /\ r.next = run.next /\ r.completed = Append(c, run.next)
      /\ r.iterations = run.iterations /\ r.state = run.state /\ r.prior = run.prior
      /\ r.skip = FALSE /\ r.approved = run.approved
  BY <1>1, <1>2, RunFacts, AppendFacts DEF RunRecord
<1> HIDE DEF r
<1>4. TypeOK'
  BY <1>1, <1>3 DEF IInv, TypeOK, history
<1>5. StoreOK'
  BY <1>1, <1>4, StoreStays DEF TypeOK, IInv, history
<1>6. Merged(effects, run.no, Append(c, run.next), run.state)
  BY <1>1, <1>2, RunFacts, MergedRejected DEF RunOK
<1>7. Len(Append(c, run.next)) = Len(c) + 1
  BY <1>1, <1>2, RunFacts, AppendFacts
<1>8. /\ Len(c) + 1 <= run.iterations + resumes
      /\ c = IF run.no = store.run THEN store.completed ELSE <<>>
      /\ c = <<>> => run.next = Entry
      /\ ~run.approved
  BY <1>1, <1>2 DEF RunOK, Running, Fits
<1>9. run.no # store.run => Append(c, run.next) = <<Entry>>
  BY <1>8
<1>10. RunOK'
  <2> HIDE DEF c
  <2>1. /\ run'.no \in 1..runs' /\ store'.run <= run'.no /\ Len(run'.state) = run'.iterations
        /\ Len(run'.completed) <= run'.iterations + resumes'
        /\ ~run'.skip /\ ~run'.approved
    BY <1>1, <1>2, <1>3, <1>7, <1>8 DEF RunOK
  <2>2. /\ run'.next \in Nodes
        /\ IF run'.no = store'.run
           THEN /\ run'.completed = Append(store'.completed, run'.next)
                /\ Fits(run'.next, store'.completed)
           ELSE run'.completed = <<Entry>>
    BY <1>1, <1>2, <1>3, <1>8, <1>9
  <2>3. run'.no = store'.run => Errors(store') \subseteq ToSet(run'.prior)
    BY <1>1, <1>2, <1>3 DEF RunOK
  <2>4. Merged(effects', run'.no, run'.completed, run'.state)
    BY <1>1, <1>3, <1>6 DEF history
  <2>. QED
    BY <1>1, <2>1, <2>2, <2>3, <2>4 DEF RunOK, Running
<1>11. GateOK' /\ GateHolds'
  BY <1>1 DEF GateOK, GateHolds, IInv, history
<1>. QED
  BY <1>4, <1>5, <1>10, <1>11 DEF IInv

\* An exception in the loop.
LEMMA ThrowStep ==
  ASSUME IInv, pc \in {"loop", "node", "ran", "park", "routing"}, ~run.skip,
         Throw, UNCHANGED <<store, run, history, runs, resumes>>
  PROVE  IInv'
<1>1. TypeOK'
  BY DEF IInv, TypeOK, Throw, history
<1>2. StoreOK'
  BY <1>1, StoreStays DEF TypeOK, IInv, history
<1>3. RunOK'
  BY DEF IInv, RunOK, Running, Throw, history
<1>4. GateOK' /\ GateHolds'
  BY DEF GateOK, GateHolds, IInv, Throw, history
<1>. QED
  BY <1>1, <1>2, <1>3, <1>4 DEF IInv

LEMMA ExceedIterationsStep == ASSUME IInv, ExceedIterations PROVE IInv'
BY ThrowStep DEF ExceedIterations, AtNode

LEMMA RaiseStep == ASSUME IInv, Raise PROVE IInv'
<1>1. pc \in {"loop", "node", "ran", "park", "routing"} /\ ~run.skip
  BY DEF Raise, AtNode, IInv, RunOK
<1>. QED
  BY <1>1, ThrowStep DEF Raise

LEMMA StartNodeStep == ASSUME IInv, StartNode PROVE IInv'
<1> DEFINE r == [run EXCEPT !.approved = FALSE]
<1>1. /\ pc = "loop" /\ run.next # END /\ ~run.skip /\ run.iterations < MaxIterations
      /\ run.next \notin Guarded \/ run.approved
      /\ run' = r /\ pc' = "node"
      /\ UNCHANGED <<store, exc, history, runs, resumes, raised>>
  BY DEF StartNode, AtNode
<1>2. RunOK /\ Fits(run.next, run.completed) /\ run.next \in Nodes
  BY <1>1, RunFacts, FitsFacts DEF IInv, RunOK, Running
<1>3. /\ r \in RunRecord /\ r.no = run.no /\ r.next = run.next /\ r.completed = run.completed
      /\ r.iterations = run.iterations /\ r.state = run.state /\ r.prior = run.prior
      /\ r.skip = FALSE /\ r.approved = FALSE
  BY <1>1, RunFacts DEF RunRecord
<1> HIDE DEF r
<1>4. TypeOK'
  BY <1>1, <1>3 DEF IInv, TypeOK, history
<1>5. StoreOK'
  BY <1>1, <1>4, StoreStays DEF TypeOK, IInv, history
<1>6. RunOK'
  BY <1>1, <1>2, <1>3 DEF RunOK, Running, history
<1>7. GateOK'
  <2>1. ThisVisit(run') = ThisVisit(run)
    BY <1>1, <1>3 DEF ThisVisit
  <2>. QED
    BY <1>1, <1>3, <2>1 DEF GateOK, IInv, history
<1>8. GateHolds'
  BY <1>1 DEF GateHolds, IInv, history
<1>. QED
  BY <1>4, <1>5, <1>6, <1>7, <1>8 DEF IInv

LEMMA RunNodeStep == ASSUME IInv, RunNode PROVE IInv'
<1> DEFINE v == ThisVisit(run)
           now == [effects EXCEPT ![v] = @ + 1]
<1>1. /\ pc = "node" /\ pc' = "ran" /\ effects' = now
      /\ UNCHANGED <<store, run, exc, approvals, runs, resumes, raised>>
  BY DEF RunNode
<1>2. v \in Visit /\ effects \in [Visit -> Nat] /\ approvals \in [Visit -> Nat] /\ run.next \in Nodes
  BY <1>1, VisitFacts DEF IInv, RunOK, TypeOK
<1>3. /\ now \in [Visit -> Nat] /\ now[v] = effects[v] + 1
      /\ \A w \in Visit : w # v => now[w] = effects[w]
  BY <1>2
<1>4. TypeOK'
  BY <1>1, <1>3 DEF IInv, TypeOK
<1>5. Merged(now, store.run, store.completed, store.state)
  <2>1. CASE store.status = "absent"
    BY <2>1, MergedEmpty DEF IInv, StoreOK
  <2>2. CASE store.status # "absent"
    <3>1. /\ store.run \in 1..MaxRuns /\ store.completed \in Seq(Nodes)
          /\ Len(store.completed) <= store.iterations + resumes
          /\ store.iterations \in 0..MaxIterations /\ resumes \in 0..MaxResumes
      BY <2>2, ConstantFacts DEF IInv, StoreOK, TypeOK, Checkpoint
    <3>2. ASSUME NEW i \in DOMAIN store.completed
          PROVE  <<store.run, i, store.completed[i]>> \in Visit
      <4>1. i \in 1..MaxVisits /\ store.completed[i] \in Nodes
        BY <3>1, ConstantFacts DEF MaxVisits
      <4>. QED
        BY <3>1, <4>1 DEF Visit
    <3>. QED
      BY <1>2, <3>1, <3>2, MergedOn DEF IInv, StoreOK, UpdatesKept
  <2>. QED
    BY <2>1, <2>2
<1>6. StoreOK'
  BY <1>1, <1>5 DEF IInv, StoreOK, PointerFits, UpdatesKept
<1>7. Merged(now, run.no, run.completed, run.state)
  <2>1. /\ run.no \in 1..MaxRuns /\ run.completed \in Seq(Nodes)
        /\ Len(run.completed) <= run.iterations + resumes
        /\ run.iterations \in 0..MaxIterations /\ resumes \in 0..MaxResumes
        /\ Merged(effects, run.no, run.completed, run.state)
    BY <1>1, RunFacts DEF IInv, RunOK
  <2>2. ASSUME NEW i \in DOMAIN run.completed
        PROVE  <<run.no, i, run.completed[i]>> \in Visit
    <3>1. i \in 1..MaxVisits /\ run.completed[i] \in Nodes
      BY <2>1, ConstantFacts DEF MaxVisits
    <3>. QED
      BY <2>1, <3>1 DEF Visit
  <2>. QED
    BY <1>2, <2>1, <2>2, MergedOn
<1>8. ThisVisit(run)' = v /\ effects'[v] > 0
  BY <1>1, <1>2, <1>3 DEF ThisVisit
<1>9. RunOK'
  <2> HIDE DEF now, v
  <2>. QED
    BY <1>1, <1>7, <1>8 DEF IInv, RunOK, Running
<1>10. GateOK'
  BY <1>1 DEF GateOK
<1>11. GateHolds'
  <2> SUFFICES ASSUME NEW w \in Visit, w[3] \in Guarded
               PROVE  now[w] <= approvals[w]
    BY <1>1 DEF GateHolds
  <2>1. CASE w # v
    BY <1>3, <2>1 DEF IInv, GateHolds
  <2>2. CASE w = v
    <3>1. run.next \in Guarded
      BY <2>2 DEF ThisVisit
    <3>2. effects[v] < approvals[v]
      BY <1>1, <3>1 DEF IInv, GateOK
    <3>. QED
      BY <1>2, <1>3, <2>2, <3>2
  <2>. QED
    BY <2>1, <2>2
<1>. QED
  BY <1>4, <1>6, <1>9, <1>10, <1>11 DEF IInv

LEMMA MergeUpdateStep == ASSUME IInv, MergeUpdate PROVE IInv'
<1> DEFINE c == run.completed
           n == run.next
           r == [run EXCEPT !.state = Append(@, n), !.iterations = @ + 1, !.completed = Append(@, n)]
<1>1. /\ pc = "ran" /\ pc' = "park" /\ run' = r
      /\ UNCHANGED <<store, exc, history, runs, resumes, raised>>
  BY DEF MergeUpdate
<1>2. RunOK /\ Fits(n, c) /\ n \in Nodes /\ run.iterations < MaxIterations
  BY <1>1 DEF IInv, RunOK, Running
<1>3. /\ r \in RunRecord /\ r.no = run.no /\ r.next = n /\ r.completed = Append(c, n)
      /\ r.iterations = run.iterations + 1 /\ r.state = Append(run.state, n) /\ r.prior = run.prior
      /\ r.skip = run.skip /\ r.approved = run.approved
  <2>1. /\ Append(c, n) \in Seq(Nodes) /\ Append(run.state, n) \in Seq(Nodes)
        /\ run.iterations + 1 \in 0..MaxIterations
    BY <1>1, <1>2, RunFacts, ConstantFacts
  <2>. QED
    BY <1>1, <2>1, RunFacts DEF RunRecord
<1> HIDE DEF r
<1>4. TypeOK'
  BY <1>1, <1>3 DEF IInv, TypeOK, history
<1>5. StoreOK'
  BY <1>1, <1>4, StoreStays DEF TypeOK, IInv, history
<1>6. Merged(effects, run.no, Append(c, n), Append(run.state, n))
  <2>1. effects[<<run.no, Len(c) + 1, n>>] > 0 /\ Merged(effects, run.no, c, run.state)
    BY <1>1, <1>2 DEF RunOK, ThisVisit
  <2>. QED
    BY <1>1, <1>2, <2>1, RunFacts, MergedRan
<1>7. Len(Append(c, n)) = Len(c) + 1 /\ Len(Append(run.state, n)) = Len(run.state) + 1
  BY <1>1, <1>2, RunFacts, AppendFacts
<1>8. /\ Len(c) <= run.iterations + resumes /\ Len(run.state) = run.iterations
      /\ c = IF run.no = store.run THEN store.completed ELSE <<>>
      /\ c = <<>> => n = Entry
      /\ ~run.approved /\ ~run.skip
  BY <1>1, <1>2 DEF RunOK, Running, Fits
<1>9. run.no # store.run => Append(c, n) = <<Entry>>
  BY <1>8
<1>10. RunOK'
  <2> HIDE DEF c, n
  <2>1. /\ run'.no \in 1..runs' /\ store'.run <= run'.no /\ Len(run'.state) = run'.iterations
        /\ ~run'.skip /\ ~run'.approved
    BY <1>1, <1>2, <1>3, <1>7, <1>8 DEF RunOK
  <2>2. Len(run'.completed) <= run'.iterations + resumes'
    <3>1. Len(c) \in Nat /\ run.iterations \in Nat /\ resumes \in Nat
      BY <1>1, RunFacts DEF c
    <3>. QED
      BY <1>1, <1>3, <1>7, <1>8, <3>1
  <2>3. /\ run'.next \in Nodes
        /\ IF run'.no = store'.run
           THEN /\ run'.completed = Append(store'.completed, run'.next)
                /\ Fits(run'.next, store'.completed)
           ELSE run'.completed = <<Entry>>
    BY <1>1, <1>2, <1>3, <1>8, <1>9
  <2>4. run'.no = store'.run => Errors(store') \subseteq ToSet(run'.prior)
    BY <1>1, <1>2, <1>3 DEF RunOK
  <2>5. Merged(effects', run'.no, run'.completed, run'.state)
    BY <1>1, <1>3, <1>6 DEF history
  <2>. QED
    BY <1>1, <2>1, <2>2, <2>3, <2>4, <2>5 DEF RunOK, Running
<1>11. GateOK' /\ GateHolds'
  BY <1>1 DEF GateOK, GateHolds, IInv, history
<1>. QED
  BY <1>4, <1>5, <1>10, <1>11 DEF IInv

LEMMA ParkStep == ASSUME IInv, Park PROVE IInv'
<1> DEFINE r == [run EXCEPT !.next = ROUTING]
<1>1. /\ pc = "park" /\ pc' = "routing" /\ run' = r /\ Put("running", ROUTING)
      /\ UNCHANGED <<exc, history, runs, resumes, raised>>
  BY DEF Park
<1>2. RunOK /\ run.completed # <<>>
  <2>1. /\ run.next \in Nodes
        /\ run.completed = Append(store.completed, run.next) \/ run.completed = <<Entry>>
    BY <1>1 DEF IInv, RunOK
  <2>2. store.completed \in Seq(Nodes)
    BY <1>1, RunFacts
  <2>3. Append(store.completed, run.next) # <<>>
    BY <2>1, <2>2, AppendFacts
  <2>4. <<Entry>> # <<>>
    OBVIOUS
  <2>. QED
    BY <2>1, <2>3, <2>4 DEF IInv
<1>3. /\ r \in RunRecord /\ r.no = run.no /\ r.completed = run.completed
      /\ r.iterations = run.iterations /\ r.state = run.state /\ r.prior = run.prior
      /\ r.skip = run.skip /\ r.approved = run.approved
  BY <1>1, RunFacts DEF RunRecord
<1> HIDE DEF r
<1>4. /\ store' \in Checkpoint /\ StoreOK' /\ store'.run = run.no
      /\ store'.completed = run.completed /\ Errors(store') \subseteq ToSet(run.prior)
  BY <1>1, <1>2, PutStep DEF history
<1>5. TypeOK'
  BY <1>1, <1>3, <1>4 DEF IInv, TypeOK, history
<1>6. RunOK'
  BY <1>1, <1>2, <1>3, <1>4, RunFacts DEF RunOK, Running, history
<1>7. GateOK' /\ GateHolds'
  BY <1>1 DEF GateOK, GateHolds, IInv, history
<1>. QED
  BY <1>4, <1>5, <1>6, <1>7 DEF IInv

LEMMA RouteStep == ASSUME IInv, Route PROVE IInv'
<1>1. PICK n \in Edges[Last(run.completed)] : Put("running", n) /\ run' = [run EXCEPT !.next = n]
  BY DEF Route
<1>2. /\ pc = "routing" /\ pc' = "loop" /\ UNCHANGED <<exc, history, runs, resumes, raised>>
  BY DEF Route
<1> DEFINE r == [run EXCEPT !.next = n]
<1>3. RunOK /\ run.completed # <<>> /\ Fits(n, run.completed) /\ ~run.skip /\ ~run.approved
  BY <1>1, <1>2 DEF IInv, RunOK, Fits
<1>4. n \in Nodes \cup {END}
  BY <1>2, <1>3, RunFacts, FitsFacts
<1>5. /\ r \in RunRecord /\ r.no = run.no /\ r.next = n /\ r.completed = run.completed
      /\ r.iterations = run.iterations /\ r.state = run.state /\ r.prior = run.prior
      /\ r.skip = run.skip /\ r.approved = run.approved
  BY <1>2, <1>4, RunFacts DEF RunRecord
<1> HIDE DEF r
<1>6. /\ store' \in Checkpoint /\ StoreOK' /\ store'.run = run.no
      /\ store'.completed = run.completed /\ Errors(store') \subseteq ToSet(run.prior)
  BY <1>1, <1>2, <1>3, <1>4, PutStep, ConstantFacts DEF history
<1>7. run' = r
  BY <1>1 DEF r
<1>8. TypeOK'
  BY <1>2, <1>5, <1>6, <1>7 DEF IInv, TypeOK, history
<1>9. RunOK'
  BY <1>2, <1>3, <1>5, <1>6, <1>7, RunFacts DEF RunOK, Running, history
<1>10. GateOK' /\ GateHolds'
  BY <1>2, <1>3, <1>5, <1>7 DEF GateOK, GateHolds, IInv, history
<1>. QED
  BY <1>6, <1>8, <1>9, <1>10 DEF IInv

\* What a resume makes of a record.
LEMMA LoadFacts ==
  ASSUME IInv, store.status # "absent", resumes < MaxResumes, UNCHANGED <<store, effects, runs>>,
         NEW next \in Nodes \cup {END}, NEW skip \in BOOLEAN, NEW approved \in BOOLEAN,
         ~(skip /\ approved), skip => next \in Guarded, Fits(next, store.completed),
         Load(next, skip, approved), pc' = "loop"
  PROVE  /\ resumes' \in 0..MaxResumes /\ run' \in RunRecord /\ RunOK' /\ StoreOK'
         /\ run'.no = store.run /\ run'.next = next /\ run'.completed = store.completed
         /\ run'.approved = approved
<1> DEFINE prior == IF store.status = "failed" /\ store.error # NoError
                    THEN Append(store.prior, store.error) ELSE store.prior
<1>1. /\ store.run \in 0..MaxRuns /\ store.completed \in Seq(Nodes)
      /\ store.iterations \in 0..MaxIterations /\ store.state \in Seq(Nodes)
      /\ store.prior \in Seq(Nat) /\ store.error \in Nat /\ resumes \in 0..MaxResumes
      /\ runs \in 0..MaxRuns
  BY DEF IInv, TypeOK, Checkpoint
<1>2. /\ prior \in Seq(Nat) /\ Errors(store) \subseteq ToSet(prior)
  <2>1. CASE store.status = "failed" /\ store.error # NoError
    <3>1. prior = Append(store.prior, store.error)
      BY <2>1
    <3>2. prior \in Seq(Nat) /\ ToSet(prior) = ToSet(store.prior) \cup {store.error}
      BY <1>1, <3>1, AppendFacts
    <3>. QED
      BY <3>2 DEF Errors
  <2>2. CASE ~(store.status = "failed" /\ store.error # NoError)
    BY <1>1, <2>2 DEF Errors, IInv, StoreOK
  <2>. QED
    BY <2>1, <2>2
<1>3. /\ run'.no = store.run /\ run'.next = next /\ run'.completed = store.completed
      /\ run'.iterations = store.iterations /\ run'.state = store.state /\ run'.prior = prior
      /\ run'.skip = skip /\ run'.approved = approved /\ resumes' = resumes + 1
  BY DEF Load
<1>4. run' \in RunRecord
  <2> HIDE DEF prior
  <2>1. run' = [no |-> store.run, next |-> next, completed |-> store.completed,
                iterations |-> store.iterations, state |-> store.state,
                prior |-> prior, skip |-> skip, approved |-> approved]
    BY DEF Load, prior
  <2>. QED
    BY <1>1, <1>2, <2>1 DEF RunRecord
<1>5. resumes' \in 0..MaxResumes /\ resumes <= resumes' /\ runs' \in Nat /\ runs <= runs'
  BY <1>1, <1>3, ConstantFacts
<1>6. StoreOK'
  BY <1>5, StoreStays
<1>7. RunOK'
  <2> HIDE DEF prior
  <2>1. /\ store.run \in 1..runs /\ Len(store.state) = store.iterations
        /\ Len(store.completed) <= store.iterations + resumes
        /\ Merged(effects, store.run, store.completed, store.state)
    BY <1>1 DEF IInv, StoreOK, UpdatesKept
  <2>2. Len(store.completed) + 1 <= store.iterations + resumes'
    BY <1>1, <1>3, <2>1
  <2>3. Len(store.completed) <= store.iterations + resumes'
    <3>1. Len(store.completed) \in Nat /\ store.iterations \in Nat /\ resumes' \in Nat
      BY <1>1, <1>3
    <3>. QED
      BY <2>2, <3>1
  <2>4. Errors(store') \subseteq ToSet(run'.prior)
    BY <1>2, <1>3
  <2>. QED
    BY <1>1, <1>3, <2>1, <2>2, <2>3, <2>4 DEF RunOK, Running
<1>. QED
  BY <1>3, <1>4, <1>5, <1>6, <1>7

LEMMA ResumeInterruptedStep == ASSUME IInv, ResumeInterrupted PROVE IInv'
<1> DEFINE v == <<store.run, Len(store.completed) + 1, store.next>>
           now == [approvals EXCEPT ![v] = @ + 1]
<1>1. /\ pc = "idle" /\ resumes < MaxResumes /\ store.status = "interrupted" /\ pc' = "loop"
      /\ UNCHANGED <<store, exc, effects, runs, raised>>
  BY DEF ResumeInterrupted, Resumable
<1>2. /\ store.next \in Guarded /\ store.next \in Nodes /\ Fits(store.next, store.completed)
      /\ effects \in [Visit -> Nat] /\ approvals \in [Visit -> Nat]
  BY <1>1, ConstantFacts DEF IInv, StoreOK, PointerFits, Fits, TypeOK
<1>3. CASE Load(store.next, FALSE, TRUE) /\ approvals' = now
  <2>1. /\ resumes' \in 0..MaxResumes /\ run' \in RunRecord /\ RunOK' /\ StoreOK'
        /\ run'.no = store.run /\ run'.next = store.next /\ run'.completed = store.completed
    BY <1>1, <1>2, <1>3, LoadFacts
  <2>2. v \in Visit
    <3>1. /\ store.run \in 1..MaxRuns /\ store.completed \in Seq(Nodes)
          /\ store.iterations \in 0..MaxIterations /\ resumes \in 0..MaxResumes
          /\ Len(store.completed) <= store.iterations + resumes
      BY <1>1, ConstantFacts DEF IInv, TypeOK, StoreOK, Checkpoint
    <3>2. Len(store.completed) + 1 \in 1..MaxVisits
      BY <1>1, <3>1, ConstantFacts DEF MaxVisits
    <3>. QED
      BY <1>2, <3>1, <3>2 DEF Visit
  <2>3. /\ now \in [Visit -> Nat] /\ now[v] = approvals[v] + 1
        /\ \A w \in Visit : w # v => now[w] = approvals[w]
    BY <1>2, <2>2
  <2>4. TypeOK'
    BY <1>1, <1>3, <2>1, <2>3 DEF IInv, TypeOK
  <2>5. \A w \in Visit : effects[w] \in Nat /\ approvals[w] \in Nat /\ approvals[w] <= now[w]
    <3>1. ASSUME NEW w \in Visit
          PROVE  effects[w] \in Nat /\ approvals[w] \in Nat
      BY <1>2
    <3> HIDE DEF now, v
    <3>. QED
      BY <2>3, <3>1
  <2>6. GateHolds'
    <3> HIDE DEF now
    <3>1. \A w \in Visit : w[3] \in Guarded => effects[w] <= approvals[w]
      BY DEF IInv, GateHolds
    <3>2. now \in [Visit -> Nat]
      BY <2>3
    <3>3. \A w \in Visit : w[3] \in Guarded => effects[w] <= now[w]
      BY <2>5, <3>1, <3>2
    <3>. QED
      BY <1>1, <1>3, <3>3 DEF GateHolds
  <2>7. GateOK'
    <3>1. ThisVisit(run)' = v
      BY <2>1 DEF ThisVisit
    <3>2. v[3] = store.next
      OBVIOUS
    <3>3. effects[v] < now[v]
      <4> HIDE DEF now, v
      <4>. QED
        BY <1>2, <2>2, <2>3, <2>5, <3>2 DEF IInv, GateHolds
    <3>. QED
      BY <1>1, <1>3, <3>1, <3>3 DEF GateOK
  <2>. QED
    BY <2>1, <2>4, <2>6, <2>7 DEF IInv
<1>4. CASE Load(store.next, TRUE, FALSE) /\ UNCHANGED approvals
  <2>1. /\ resumes' \in 0..MaxResumes /\ run' \in RunRecord /\ RunOK' /\ StoreOK' /\ run'.approved = FALSE
    BY <1>1, <1>2, <1>4, LoadFacts
  <2>2. TypeOK'
    BY <1>1, <1>4, <2>1 DEF IInv, TypeOK
  <2>3. GateOK' /\ GateHolds'
    BY <1>1, <1>4, <2>1 DEF GateOK, GateHolds, IInv
  <2>. QED
    BY <2>1, <2>2, <2>3 DEF IInv
<1>. QED
  BY <1>3, <1>4 DEF ResumeInterrupted

LEMMA ResumeSettledStep == ASSUME IInv, ResumeSettled PROVE IInv'
<1>1. /\ pc = "idle" /\ resumes < MaxResumes /\ store.status \in {"running", "failed"} /\ pc' = "loop"
      /\ UNCHANGED <<store, exc, history, runs, raised>>
  BY DEF ResumeSettled, Resumable
<1>2. PICK n \in Successors(store) : Load(n, FALSE, FALSE)
  BY DEF ResumeSettled
<1>3. Fits(n, store.completed) /\ store.completed \in Seq(Nodes)
  BY <1>1, <1>2 DEF IInv, StoreOK, PointerFits, Fits, Successors, TypeOK, Checkpoint
<1>4. n \in Nodes \cup {END}
  BY <1>3, FitsFacts
<1>5. /\ resumes' \in 0..MaxResumes /\ run' \in RunRecord /\ RunOK' /\ StoreOK' /\ run'.approved = FALSE
  BY <1>1, <1>2, <1>3, <1>4, LoadFacts DEF history
<1>6. TypeOK'
  BY <1>1, <1>5 DEF IInv, TypeOK, history
<1>7. GateOK' /\ GateHolds'
  BY <1>1, <1>5 DEF GateOK, GateHolds, IInv, history
<1>. QED
  BY <1>5, <1>6, <1>7 DEF IInv

LEMMA StutterStep == ASSUME IInv, UNCHANGED vars PROVE IInv'
BY DEF IInv, TypeOK, StoreOK, RunOK, GateOK, GateHolds, PointerFits, UpdatesKept, Running, vars

LEMMA StepOK == IInv /\ [Next]_vars => IInv'
<1> SUFFICES ASSUME IInv, [Next]_vars PROVE IInv'
  OBVIOUS
<1>1. CASE Advance
  BY <1>1, CompleteStep, SkipRejectedStep, ExceedIterationsStep, InterruptStep, StartNodeStep,
     RunNodeStep, MergeUpdateStep, ParkStep, RouteStep, CheckpointFailureStep DEF Advance
<1>2. CASE Resume
  BY <1>2, ResumeInterruptedStep, ResumeSettledStep, StutterStep DEF Resume, ResumeRefused
<1>. QED
  BY <1>1, <1>2, InvokeStep, RaiseStep, CrashStep, StutterStep DEF Next

LEMMA Invariance == Spec => []IInv
BY InitOK, StepOK, PTL DEF Spec

-----------------------------------------------------------------------------
(* What follows for every state.                                           *)

\* No run, however often it is resumed, counts more nodes than max_iterations,
\* and every variable keeps its type.
THEOREM TypeCorrect == Spec => []TypeOK
<1>1. IInv => TypeOK
  BY DEF IInv
<1>. QED
  BY <1>1, Invariance, PTL

\* A guarded node runs at most once for each approval of that very visit,
\* whatever loops, crashes and acknowledged failures lie in between.
THEOREM GatesHold == Spec => []GateHolds
<1>1. IInv => GateHolds
  BY DEF IInv
<1>. QED
  BY <1>1, Invariance, PTL

\* Every record is one a resume can go on from: its pointer is where its walk
\* leads, a router is asked about what is in it, each update is in its state
\* once, and the budget is that of the run.
THEOREM RecordsFit == Spec => []RecordFits
<1>1. IInv => RecordFits
  <2> SUFFICES ASSUME IInv PROVE RecordFits
    OBVIOUS
  <2>1. TypeOK /\ PointerFits /\ UpdatesKept
    BY DEF IInv, StoreOK
  <2>2. RoutedIsRecorded
    BY DEF IInv, RunOK, RoutedIsRecorded
  <2>3. BudgetHolds
    <3>1. store.iterations \in 0..MaxIterations
      BY <2>1 DEF TypeOK, Checkpoint
    <3>. QED
      BY <3>1, ConstantFacts DEF IInv, StoreOK, BudgetHolds
  <2>. QED
    BY <2>1, <2>2, <2>3 DEF RecordFits
<1>. QED
  BY <1>1, Invariance, PTL

-----------------------------------------------------------------------------
(* What no step does to a record.                                          *)

LEMMA PutErrors ==
  ASSUME IInv, pc # "idle", run.no <= store.run, NEW status, NEW next, Put(status, next)
  PROVE  Errors(store) \subseteq Errors(store')
<1>1. run.no = store.run
  BY RunFacts DEF IInv, RunOK
<1>2. Errors(store) \subseteq ToSet(run.prior)
  BY <1>1 DEF IInv, RunOK
<1>3. store'.prior = run.prior /\ store'.error = NoError
  BY DEF Put
<1>4. NoError \notin Errors(store)
  BY DEF Errors
<1>. QED
  BY <1>2, <1>3, <1>4 DEF Errors

\* A failure that was written stays in error or prior_errors across every
\* resume, success and further failure of its run.
THEOREM FailuresAreKept == Spec => ErrorsKept
<1>1. ASSUME IInv, [Next]_vars, run.no <= store.run
      PROVE  Errors(store) \subseteq Errors(store')
  <2>1. CASE UNCHANGED store
    BY <2>1
  <2>2. CASE Complete \/ Interrupt
    BY <1>1, <2>2, PutErrors DEF Complete, Interrupt, AtNode
  <2>3. CASE Park
    BY <1>1, <2>3, PutErrors DEF Park
  <2>4. CASE Route
    BY <1>1, <2>4, PutErrors DEF Route
  <2>5. CASE CheckpointFailure
    <3>1. pc = "failing" /\ run.no = store.run
      BY <1>1, <2>5, RunFacts DEF CheckpointFailure, IInv, RunOK
    <3>2. Errors(store) \subseteq ToSet(run.prior) /\ store \in Checkpoint
      BY <1>1, <3>1 DEF IInv, RunOK, TypeOK
    <3>3. CASE store' = [store EXCEPT !.status = "failed", !.error = exc, !.prior = run.prior]
      <4>1. store'.prior = run.prior
        BY <3>2, <3>3 DEF Checkpoint
      <4>2. NoError \notin Errors(store)
        BY DEF Errors
      <4>. QED
        BY <3>2, <4>1, <4>2 DEF Errors
    <3>. QED
      BY <2>1, <2>5, <3>3 DEF CheckpointFailure
  <2>. QED
    BY <1>1, <2>1, <2>2, <2>3, <2>4, <2>5
    DEF Next, Advance, Resume, Invoke, SkipRejected, ExceedIterations, StartNode, RunNode,
        MergeUpdate, ResumeInterrupted, ResumeSettled, ResumeRefused, Raise, Crash, vars
<1>2. IInv /\ [Next]_vars => [run.no <= store.run => Errors(store) \subseteq Errors(store')]_vars
  BY <1>1
<1>. QED
  BY <1>2, Invariance, PTL DEF Spec, ErrorsKept

-----------------------------------------------------------------------------
(* Records and nodes implement the walk.                                   *)

LEMMA PutWalks ==
  ASSUME IInv, pc # "idle", NEW status, NEW next, Put(status, next), UNCHANGED effects,
         Running \/ pc \in {"park", "routing"}
  PROVE  Walk!Next \/ UNCHANGED <<store.run, store.completed, effects>>
<1>1. store'.run = run.no /\ store'.completed = run.completed
  BY DEF Put
<1>2. RunOK /\ run.no \in 1..MaxRuns /\ store.run <= run.no /\ store.run \in 0..MaxRuns
  BY RunFacts DEF IInv, RunOK
<1>3. CASE run.no # store.run
  <2>1. run.completed \in {<<>>, <<Entry>>} /\ pc # "routing"
    BY <1>2, <1>3 DEF RunOK
  <2>2. run.no > store.run
    BY <1>2, <1>3
  <2>. QED
    BY <1>1, <1>2, <2>1, <2>2 DEF Walk!Next, Walk!StartOver
<1>4. CASE run.no = store.run /\ pc = "park"
  <2>1. run.completed = Append(store.completed, run.next) /\ Fits(run.next, store.completed)
    BY <1>2, <1>4 DEF RunOK
  <2>2. run.next \in Walk!NextNodes(store.completed)
    BY <2>1 DEF Fits, Walk!NextNodes, Last, Walk!Last
  <2>. QED
    BY <1>1, <1>4, <2>1, <2>2 DEF Walk!Next, Walk!Visit
<1>5. CASE run.no = store.run /\ pc # "park"
  BY <1>1, <1>2, <1>5 DEF RunOK
<1>. QED
  BY <1>3, <1>4, <1>5

LEMMA RunNodeWalks ==
  ASSUME IInv, RunNode
  PROVE  Walk!Perform
<1> DEFINE v == ThisVisit(run)
<1>1. /\ pc = "node" /\ effects' = [effects EXCEPT ![v] = @ + 1] /\ UNCHANGED store
  BY DEF RunNode
<1>2. /\ RunOK /\ Fits(run.next, run.completed) /\ run.next \in Nodes /\ v \in Visit
      /\ run.completed = IF run.no = store.run THEN store.completed ELSE <<>>
      /\ store.run <= run.no
  BY <1>1, VisitFacts DEF IInv, RunOK, Running
<1>3. v[1] = run.no /\ v[2] = Len(run.completed) + 1 /\ v[3] = run.next
  BY DEF ThisVisit
<1>4. \/ v[1] = store.run /\ v[2] = Len(store.completed) + 1 /\ v[3] \in Walk!NextNodes(store.completed)
      \/ v[1] > store.run /\ v[2] = 1 /\ v[3] = Entry
  <2> HIDE DEF v
  <2>1. CASE run.no = store.run
    BY <1>2, <1>3, <2>1 DEF Fits, Walk!NextNodes, Last, Walk!Last
  <2>2. CASE run.no # store.run
    <3>1. run.completed = <<>> /\ run.next = Entry /\ Len(<<>>) = 0
      BY <1>2, <2>2 DEF Fits
    <3>2. run.no > store.run
      BY <1>1, <1>2, <2>2, RunFacts
    <3>. QED
      BY <1>3, <3>1, <3>2
  <2>. QED
    BY <2>1, <2>2
<1>. QED
  BY <1>1, <1>2, <1>4 DEF Walk!Perform

\* The record of a durable run is a walk through the graph that only grows, one
\* node at a time, or gives way to a later run's, and nothing runs but the node
\* the walk has come to: a node once recorded never runs again.
THEOREM WalkIsKept == Spec => WalkKept
<1>1. Init => Walk!Init
  BY DEF Init, Walk!Init, NoCheckpoint
<1>2. ASSUME IInv, [Next]_vars
      PROVE  [Walk!Next]_<<store.run, store.completed, effects>>
  <2>1. CASE UNCHANGED <<store, effects>>
    BY <2>1
  <2>2. CASE Complete \/ Interrupt
    BY <1>2, <2>2, PutWalks DEF Complete, Interrupt, AtNode, Running, history
  <2>3. CASE Park
    BY <1>2, <2>3, PutWalks DEF Park, history
  <2>4. CASE Route
    BY <1>2, <2>4, PutWalks DEF Route, history
  <2>5. CASE CheckpointFailure
    <3>1. store \in Checkpoint /\ UNCHANGED effects
      BY <1>2, <2>5 DEF IInv, TypeOK, CheckpointFailure, history
    <3>2. store'.run = store.run /\ store'.completed = store.completed
      BY <2>5, <3>1 DEF CheckpointFailure, Checkpoint
    <3>. QED
      BY <3>1, <3>2
  <2>6. CASE RunNode
    BY <1>2, <2>6, RunNodeWalks DEF Walk!Next
  <2>. QED
    BY <1>2, <2>1, <2>2, <2>3, <2>4, <2>5, <2>6
    DEF Next, Advance, Resume, Invoke, SkipRejected, ExceedIterations, StartNode,
        MergeUpdate, ResumeInterrupted, ResumeSettled, ResumeRefused, Raise, Crash, vars, history
<1>. QED
  BY <1>1, <1>2, Invariance, PTL DEF Spec, WalkKept, Walk!Spec, Walk!walk

-----------------------------------------------------------------------------
(* A call of invoke or resume comes to its end: it always has a next step, *)
(* and every step of it, a failure included, leaves less to do.            *)

Stage == [p \in {"idle", "failing", "ran", "node", "loop", "routing", "park"} |->
            CASE p = "idle" -> 0 [] p = "failing" -> 1 [] p = "ran" -> 2 [] p = "node" -> 3
              [] p = "loop" -> 4 [] p = "routing" -> 5 [] p = "park" -> 6]
Left == 10 * (MaxIterations - run.iterations) + (IF run.skip THEN 4 ELSE 0) + Stage[pc]
Bound == 10 * MaxIterations + 10

\* The guards of Advance, one for each of its steps.
CanAdvance ==
  \/ pc = "loop" /\ run.next = END
  \/ pc = "loop" /\ run.next # END /\ run.skip
  \/ AtNode /\ run.iterations >= MaxIterations
  \/ AtNode /\ run.iterations < MaxIterations /\ run.next \in Guarded /\ ~run.approved
  \/ AtNode /\ run.iterations < MaxIterations /\ (run.next \notin Guarded \/ run.approved)
  \/ pc \in {"node", "ran", "park", "failing"}
  \/ pc = "routing" /\ \E n \in Edges[Last(run.completed)] : TRUE

LEMMA StageFacts ==
  /\ Stage["idle"] = 0 /\ Stage["failing"] = 1 /\ Stage["ran"] = 2 /\ Stage["node"] = 3
  /\ Stage["loop"] = 4 /\ Stage["routing"] = 5 /\ Stage["park"] = 6
BY DEF Stage

LEMMA LeftFacts ==
  ASSUME TypeOK
  PROVE  /\ MaxIterations - run.iterations \in 0..MaxIterations
         /\ Stage[pc] \in 0..6 /\ Left \in 0..Bound
<1>1. run.iterations \in 0..MaxIterations /\ MaxIterations \in Nat /\ run.skip \in BOOLEAN
  BY ConstantFacts DEF TypeOK, RunRecord
<1>2. Stage[pc] \in 0..6
  BY StageFacts DEF TypeOK
<1>. QED
  BY <1>1, <1>2 DEF Left, Bound

\* Whoever waits for a run that is under way waits for one that can go on, and
\* each of its steps, a failure included, leaves less to do, whatever the routers
\* answer: a call has at most 10 * max_iterations + 10 of them.
THEOREM CallsRunDown ==
  Spec => /\ [](Left \in 0..Bound /\ (pc # "idle" => CanAdvance))
          /\ [][pc # "idle" => pc' = "idle" \/ Left' < Left]_vars
<1>1. ASSUME IInv
      PROVE  Left \in 0..Bound
  BY <1>1, LeftFacts DEF IInv
<1>2. ASSUME IInv, pc # "idle"
      PROVE  CanAdvance
  <2>1. CASE pc = "routing"
    <3>1. run.completed \in Seq(Nodes) /\ run.completed # <<>>
      BY <1>2, <2>1 DEF IInv, TypeOK, RunRecord, RunOK
    <3>2. Last(run.completed) \in Nodes
      BY <3>1 DEF Last
    <3>3. Edges[Last(run.completed)] # {}
      BY <3>2, GraphAssumption
    <3>. QED
      BY <2>1, <3>3 DEF CanAdvance
  <2>2. CASE pc = "loop"
    <3>1. run.iterations \in Nat /\ MaxIterations \in Nat /\ run.skip \in BOOLEAN /\ run.approved \in BOOLEAN
      BY <1>2, ConstantFacts DEF IInv, TypeOK, RunRecord
    <3>2. run.iterations >= MaxIterations \/ run.iterations < MaxIterations
      BY <3>1
    <3>. QED
      BY <2>2, <3>1, <3>2 DEF CanAdvance, AtNode
  <2>. QED
    BY <1>2, <2>1, <2>2 DEF IInv, TypeOK, CanAdvance
<1>3. ASSUME IInv, Next, pc # "idle", pc' # "idle"
      PROVE  Left' < Left
  <2>1. /\ run \in RunRecord /\ run.iterations \in Nat /\ MaxIterations \in Nat
        /\ run.skip \in BOOLEAN
    BY <1>3, ConstantFacts DEF IInv, TypeOK, RunRecord
  <2>2. CASE SkipRejected
    <3>1. run'.iterations = run.iterations /\ run'.skip = FALSE
      BY <2>1, <2>2 DEF SkipRejected, RunRecord
    <3>. QED
      BY <2>1, <2>2, <3>1, StageFacts DEF SkipRejected, Left
  <2>3. CASE ExceedIterations
    BY <2>1, <2>3, StageFacts DEF ExceedIterations, AtNode, Throw, Left
  <2>4. CASE StartNode
    <3>1. run'.iterations = run.iterations /\ run'.skip = run.skip
      BY <2>1, <2>4 DEF StartNode, RunRecord
    <3>. QED
      BY <2>1, <2>4, <3>1, StageFacts DEF StartNode, AtNode, Left
  <2>5. CASE RunNode
    BY <2>1, <2>5, StageFacts DEF RunNode, Left
  <2>6. CASE MergeUpdate
    <3>1. run'.iterations = run.iterations + 1 /\ run'.skip = run.skip
      BY <2>1, <2>6 DEF MergeUpdate, RunRecord
    <3>. QED
      BY <2>1, <2>6, <3>1, StageFacts DEF MergeUpdate, Left
  <2>7. CASE Park
    <3>1. run'.iterations = run.iterations /\ run'.skip = run.skip
      BY <2>1, <2>7 DEF Park, RunRecord
    <3>. QED
      BY <2>1, <2>7, <3>1, StageFacts DEF Park, Left
  <2>8. CASE Route
    <3>1. run'.iterations = run.iterations /\ run'.skip = run.skip
      BY <2>1, <2>8 DEF Route, RunRecord
    <3>. QED
      BY <2>1, <2>8, <3>1, StageFacts DEF Route, Left
  <2>9. CASE Raise
    <3>1. pc \in {"node", "ran", "park", "routing", "loop"} /\ pc' = "failing" /\ UNCHANGED run
      BY <2>9 DEF Raise, AtNode, Throw
    <3>. QED
      BY <2>1, <3>1, StageFacts DEF Left
  <2>. QED
    BY <1>3, <2>2, <2>3, <2>4, <2>5, <2>6, <2>7, <2>8, <2>9
    DEF Next, Advance, Resume, Invoke, Complete, Interrupt, CheckpointFailure, Crash, Leave,
        ResumeInterrupted, ResumeSettled, ResumeRefused, Resumable
<1>4. IInv /\ [Next]_vars => [pc # "idle" => pc' = "idle" \/ Left' < Left]_vars
  BY <1>3
<1>. QED
  BY <1>1, <1>2, <1>4, Invariance, PTL DEF Spec

-----------------------------------------------------------------------------
(* compile(): the graphs the building calls lead to, and what it accepts.  *)

\* Induction over a set of numbers.
LEMMA NatSet ==
  ASSUME NEW T \in SUBSET Nat, 0 \in T, \A k \in T : k + 1 \in T
  PROVE  T = Nat
<1> SUFFICES ASSUME Nat \ T # {} PROVE FALSE
  OBVIOUS
<1>1. PICK x \in Nat \ T : \A y \in Nat \ T : ~(<<y, x>> \in OpToRel(<, Nat))
  BY WFMin, NatLessThanWellFounded
<1>2. x # 0 /\ x - 1 \in Nat /\ x - 1 < x
  OBVIOUS
<1>3. \A y \in Nat \ T : ~(y < x)
  BY <1>1 DEF OpToRel
<1>4. x - 1 \in T
  BY <1>2, <1>3
<1>. QED
  BY <1>2, <1>4

\* A function over the numbers exists with any first value and any step.
LEMMA Iterate ==
  ASSUME NEW B, NEW first \in B, NEW step \in [B -> B]
  PROVE  \E f \in [Nat -> B] : f[0] = first /\ \A k \in Nat : f[k + 1] = step[f[k]]
<1> DEFINE Up(h, n) == h[0] = first /\ \A k \in 0..(n - 1) : h[k + 1] = step[h[k]]
           Have == {n \in Nat : \E h \in [0..n -> B] : Up(h, n)}
<1>1. 0 \in Have
  <2>1. [k \in 0..0 |-> first] \in [0..0 -> B] /\ Up([k \in 0..0 |-> first], 0)
    OBVIOUS
  <2>. QED
    BY <2>1
<1>2. ASSUME NEW n \in Have
      PROVE  n + 1 \in Have
  <2>1. PICK h \in [0..n -> B] : Up(h, n)
    OBVIOUS
  <2> DEFINE g == [k \in 0..(n + 1) |-> IF k = n + 1 THEN step[h[n]] ELSE h[k]]
  <2>2. n \in Nat /\ g \in [0..(n + 1) -> B] /\ \A k \in 0..n : g[k] = h[k]
    OBVIOUS
  <2>3. g[n + 1] = step[g[n]]
    BY <2>2
  <2> HIDE DEF g
  <2>4. \A k \in 0..n : g[k + 1] = step[g[k]]
    <3> TAKE k \in 0..n
    <3>1. CASE k = n
      BY <2>3, <3>1
    <3>2. CASE k # n
      BY <2>1, <2>2, <3>2
    <3>. QED
      BY <3>1, <3>2
  <2>5. Up(g, n + 1)
    BY <2>1, <2>2, <2>4
  <2>. QED
    BY <2>2, <2>5
<1>3. Have = Nat
  <2> HIDE DEF Have
  <2>1. Have \in SUBSET Nat
    BY DEF Have
  <2>. QED
    BY <1>1, <1>2, <2>1, NatSet
<1> DEFINE pick == [n \in Nat |-> CHOOSE h \in [0..n -> B] : Up(h, n)]
<1>4. \A n \in Nat : pick[n] \in [0..n -> B] /\ Up(pick[n], n)
  <2> TAKE n \in Nat
  <2>1. \E h \in [0..n -> B] : Up(h, n)
    BY <1>3
  <2>. QED
    BY <2>1
<1> HIDE DEF pick, Have
\* Two of them agree where both are defined.
<1>5. ASSUME NEW n \in Nat
      PROVE  \A k \in 0..n : pick[n][k] = pick[n + 1][k]
  <2> DEFINE Agree == {k \in Nat : k \in 0..n => pick[n][k] = pick[n + 1][k]}
  <2>1. Up(pick[n], n) /\ Up(pick[n + 1], n + 1)
    BY <1>4
  <2>2. 0 \in Agree
    BY <2>1
  <2>3. \A k \in Agree : k + 1 \in Agree
    BY <2>1
  <2>4. Agree = Nat
    <3> HIDE DEF Agree
    <3>1. Agree \in SUBSET Nat
      BY DEF Agree
    <3>. QED
      BY <2>2, <2>3, <3>1, NatSet
  <2>. QED
    BY <2>4
<1> DEFINE f == [n \in Nat |-> pick[n][n]]
<1>6. f \in [Nat -> B]
  BY <1>4
<1>7. f[0] = first
  BY <1>4
<1>8. \A k \in Nat : f[k + 1] = step[f[k]]
  <2> TAKE k \in Nat
  <2>1. pick[k + 1][k + 1] = step[pick[k + 1][k]]
    BY <1>4
  <2>. QED
    BY <1>5, <2>1
<1>. QED
  BY <1>6, <1>7, <1>8

Graph(g) ==
  /\ g = [nodes |-> g.nodes, entry |-> g.entry, edge |-> g.edge, routes |-> g.routes]
  /\ IsFiniteSet(g.nodes) /\ END \notin g.nodes /\ ROUTING \notin g.nodes
  /\ g.edge = [n \in g.nodes |-> g.edge[n]]
  /\ g.routes = [n \in g.nodes |-> g.routes[n]]

\* Every call that builds a graph leaves one.
LEMMA GraphsAreBuilt ==
  /\ Graph(Builder!Empty)
  /\ \A g : Graph(g) =>
       /\ \A n : Builder!AddsNode(g, n) => Graph(Builder!AddNode(g, n))
       /\ \A n : Graph(Builder!SetEntryPoint(g, n))
       /\ \A n, m : Builder!Unrouted(g, n) => Graph(Builder!AddEdge(g, n, m))
       /\ \A n, ts : Builder!AddsConditionalEdges(g, n, ts) =>
                       Graph(Builder!AddConditionalEdges(g, n, ts))
<1>1. Graph(Builder!Empty)
  BY FS_EmptySet DEF Graph, Builder!Empty
<1>2. ASSUME NEW g, Graph(g), NEW n, Builder!AddsNode(g, n)
      PROVE  Graph(Builder!AddNode(g, n))
  <2>1. IsFiniteSet(g.nodes \cup {n})
    BY <1>2, FS_AddElement DEF Graph
  <2> DEFINE h == Builder!AddNode(g, n)
  <2>2. h = [nodes |-> g.nodes \cup {n}, entry |-> g.entry,
             edge |-> Builder!Extend(g.edge, n, NoName), routes |-> Builder!Extend(g.routes, n, {})]
    <3> DEFINE e == Builder!Extend(g.edge, n, NoName)
               o == Builder!Extend(g.routes, n, {})
    <3>1. h = [g EXCEPT !.nodes = @ \cup {n}, !.edge = e, !.routes = o]
      BY Zenon DEF Builder!AddNode
    <3>2. g = [nodes |-> g.nodes, entry |-> g.entry, edge |-> g.edge, routes |-> g.routes]
      BY <1>2 DEF Graph
    <3> HIDE DEF e, o, h
    <3>3. h = [nodes |-> g.nodes \cup {n}, entry |-> g.entry, edge |-> e, routes |-> o]
      BY <3>1, <3>2
    <3>. QED
      BY <3>3 DEF e, o, h
  <2>3. DOMAIN g.edge = g.nodes /\ DOMAIN g.routes = g.nodes
    BY <1>2 DEF Graph
  <2> HIDE DEF h
  <2>4. h.edge = [m \in h.nodes |-> h.edge[m]]
    BY <2>2, <2>3 DEF Builder!Extend
  <2>5. h.routes = [m \in h.nodes |-> h.routes[m]]
    BY <2>2, <2>3 DEF Builder!Extend
  <2>6. END \notin h.nodes /\ ROUTING \notin h.nodes
    BY <1>2, <2>2 DEF Graph, Builder!AddsNode
  <2>7. Graph(h)
    BY <2>1, <2>2, <2>4, <2>5, <2>6 DEF Graph
  <2>. QED
    BY <2>7 DEF h
<1>3. ASSUME NEW g, Graph(g), NEW n
      PROVE  Graph(Builder!SetEntryPoint(g, n))
  BY <1>3 DEF Graph, Builder!SetEntryPoint
<1>4. ASSUME NEW g, Graph(g), NEW n, NEW m, Builder!Unrouted(g, n)
      PROVE  Graph(Builder!AddEdge(g, n, m))
  BY <1>4 DEF Graph, Builder!AddEdge, Builder!Unrouted
<1>5. ASSUME NEW g, Graph(g), NEW n, NEW ts, Builder!AddsConditionalEdges(g, n, ts)
      PROVE  Graph(Builder!AddConditionalEdges(g, n, ts))
  BY <1>5 DEF Graph, Builder!AddConditionalEdges, Builder!AddsConditionalEdges, Builder!Unrouted
<1>. QED
  BY <1>1, <1>2, <1>3, <1>4, <1>5

\* A path: from its first node to its last, each one a target of the one before.
Path(g, p, n, m) ==
  /\ p \in Seq(g.nodes) /\ p # <<>> /\ p[1] = n /\ p[Len(p)] = m
  /\ \A i \in 1..(Len(p) - 1) : p[i + 1] \in Builder!TargetsOf(g, p[i])

\* Each node leads somewhere, to nodes the graph has or to END, and from the
\* entry point there is a way to every node.
Runnable(g) ==
  /\ g.entry \in g.nodes
  /\ \A n \in g.nodes : /\ Builder!TargetsOf(g, n) # {}
                        /\ Builder!TargetsOf(g, n) \subseteq g.nodes \cup {END}
                        /\ \E p : Path(g, p, g.entry, n)

\* What the search of compile() comes to.
LEMMA ReachedFacts ==
  ASSUME NEW g, Graph(g), g.entry \in g.nodes, Builder!TargetsExist(g)
  PROVE  /\ Builder!Reached(g) \subseteq g.nodes
         /\ \A n \in Builder!Reached(g) : \E p : Path(g, p, g.entry, n)
         /\ g.entry \in Builder!Reached(g)
         /\ \A n \in Builder!Reached(g) :
              Builder!TargetsOf(g, n) \ {END} \subseteq Builder!Reached(g)
<1> DEFINE More(s) == s \cup UNION {Builder!TargetsOf(g, n) \ {END} : n \in s}
           step == [s \in SUBSET g.nodes |-> More(s)]
           w == CHOOSE w : w = [k \in Nat |-> IF k = 0 THEN {g.entry} ELSE
                    w[k - 1] \cup UNION {Builder!TargetsOf(g, n) \ {END} : n \in w[k - 1]}]
<1>1. \A S : Builder!Cardinality(S) = Cardinality(S)
  BY DEF Builder!Cardinality, Cardinality
<1>2. Builder!Reached(g) = w[Builder!Cardinality(g.nodes)]
  BY Zenon DEF Builder!Reached
<1>3. \A s \in SUBSET g.nodes : More(s) \in SUBSET g.nodes
  BY DEF Builder!TargetsExist
<1>4. PICK f \in [Nat -> SUBSET g.nodes] :
        f[0] = {g.entry} /\ \A k \in Nat : f[k + 1] = step[f[k]]
  <2>1. step \in [SUBSET g.nodes -> SUBSET g.nodes]
    BY <1>3
  <2>2. {g.entry} \in SUBSET g.nodes
    OBVIOUS
  <2> HIDE DEF step
  <2>3. PICK B : B = SUBSET g.nodes
    OBVIOUS
  <2>4. PICK first : first = {g.entry}
    OBVIOUS
  <2>5. first \in B /\ step \in [B -> B]
    BY <2>1, <2>2, <2>3, <2>4
  <2>6. \E f \in [Nat -> B] : f[0] = first /\ \A k \in Nat : f[k + 1] = step[f[k]]
    BY <2>5, Iterate
  <2>. QED
    BY <2>3, <2>4, <2>6
<1>5. w = [k \in Nat |-> IF k = 0 THEN {g.entry} ELSE More(w[k - 1])]
  <2>1. f = [k \in Nat |-> IF k = 0 THEN {g.entry} ELSE More(f[k - 1])]
    <3>1. ASSUME NEW k \in Nat
          PROVE  f[k] = IF k = 0 THEN {g.entry} ELSE More(f[k - 1])
      <4>1. CASE k = 0
        BY <1>4, <4>1
      <4>2. CASE k # 0
        <5>1. k - 1 \in Nat /\ (k - 1) + 1 = k
          BY <4>2
        <5>2. f[k] = step[f[k - 1]]
          BY <1>4, <5>1
        <5>3. f[k - 1] \in SUBSET g.nodes
          BY <1>4, <5>1
        <5>. QED
          BY <4>2, <5>2, <5>3
      <4>. QED
        BY <4>1, <4>2
    <3> HIDE DEF More
    <3>. QED
      BY <1>4, <3>1
  <2>. QED
    BY <2>1
<1> HIDE DEF w
<1>6. w[0] = {g.entry} /\ \A k \in Nat : w[k + 1] = More(w[k])
  <2> HIDE DEF More
  <2>1. w[0] = {g.entry}
    BY <1>5
  <2>2. ASSUME NEW k \in Nat
        PROVE  w[k + 1] = More(w[k])
    <3>1. k + 1 \in Nat /\ k + 1 # 0 /\ (k + 1) - 1 = k
      OBVIOUS
    <3>2. w[k + 1] = More(w[(k + 1) - 1])
      BY <1>5, <3>1
    <3>. QED
      BY <3>1, <3>2
  <2>. QED
    BY <2>1, <2>2
\* Each stage is a set of nodes with a path to each of them ...
<1> DEFINE Ways == {k \in Nat : /\ w[k] \subseteq g.nodes
                                /\ \A n \in w[k] : \E p : Path(g, p, g.entry, n)}
<1>7. 0 \in Ways
  <2> DEFINE p == <<g.entry>>
  <2>1. p \in Seq(g.nodes) /\ p # <<>> /\ Len(p) = 1 /\ p[1] = g.entry
    <3>1. PICK e : e = g.entry
      OBVIOUS
    <3>2. p = <<e>> /\ e \in g.nodes
      BY <3>1
    <3> HIDE DEF p
    <3>. QED
      BY <3>1, <3>2
  <2> HIDE DEF p
  <2>2. Path(g, p, g.entry, g.entry)
    BY <2>1 DEF Path
  <2>. QED
    BY <1>6, <2>2
<1>8. ASSUME NEW k \in Ways
      PROVE  k + 1 \in Ways
  <2>1. w[k + 1] = More(w[k]) /\ w[k] \subseteq g.nodes
    BY <1>6
  <2>2. w[k + 1] \subseteq g.nodes
    BY <1>3, <2>1
  <2>3. ASSUME NEW n \in w[k], NEW m \in Builder!TargetsOf(g, n) \ {END}
        PROVE  \E p : Path(g, p, g.entry, m)
    <3>1. n \in g.nodes /\ m \in g.nodes
      BY <2>1, <2>3 DEF Builder!TargetsExist
    <3>2. PICK p : Path(g, p, g.entry, n)
      BY <2>3
    <3> DEFINE q == Append(p, m)
    <3>3. p \in Seq(g.nodes) /\ p # <<>> /\ p[1] = g.entry /\ p[Len(p)] = n /\ Len(p) \in Nat /\ Len(p) > 0
      BY <3>2 DEF Path
    <3>4. /\ q \in Seq(g.nodes) /\ q # <<>> /\ Len(q) = Len(p) + 1 /\ q[Len(p) + 1] = m
          /\ \A i \in 1..Len(p) : q[i] = p[i]
      BY <3>1, <3>3
    <3> HIDE DEF q
    <3>5. ASSUME NEW i \in 1..(Len(q) - 1)
          PROVE  q[i + 1] \in Builder!TargetsOf(g, q[i])
      <4>1. CASE i = Len(p)
        BY <2>3, <3>3, <3>4, <4>1
      <4>2. CASE i # Len(p)
        <5>1. i \in 1..(Len(p) - 1) /\ i \in 1..Len(p) /\ i + 1 \in 1..Len(p)
          BY <3>3, <3>4, <4>2
        <5>2. p[i + 1] \in Builder!TargetsOf(g, p[i])
          BY <3>2, <5>1 DEF Path
        <5>. QED
          BY <3>4, <5>1, <5>2
      <4>. QED
        BY <4>1, <4>2
    <3>6. q[1] = g.entry /\ q[Len(q)] = m
      BY <3>3, <3>4
    <3>7. Path(g, q, g.entry, m)
      BY <3>4, <3>5, <3>6 DEF Path
    <3>. QED
      BY <3>7
  <2>. QED
    BY <2>1, <2>2, <2>3
<1>9. \A k \in Nat : w[k] \subseteq g.nodes /\ \A n \in w[k] : \E p : Path(g, p, g.entry, n)
  <2>1. Ways \in SUBSET Nat
    OBVIOUS
  <2> HIDE DEF Ways
  <2>2. Ways = Nat
    BY <1>7, <1>8, <2>1, NatSet
  <2>. QED
    BY <2>2 DEF Ways
\* ... and each either adds a node or is the last to change.
<1> DEFINE Done(k) == w[k + 1] = w[k]
           Grown == {k \in Nat : Done(k) \/ Cardinality(w[k]) > k}
<1>10. \A k \in Nat : /\ IsFiniteSet(w[k]) /\ Cardinality(w[k]) \in Nat
                       /\ Cardinality(w[k]) <= Cardinality(g.nodes)
                       /\ Cardinality(g.nodes) \in Nat
  BY <1>9, FS_Subset, FS_CardinalityType DEF Graph
<1>11. 0 \in Grown
  <2>1. Cardinality(w[0]) = 1
    BY <1>6, FS_Singleton
  <2>. QED
    BY <2>1
<1>12. ASSUME NEW k \in Grown
       PROVE  k + 1 \in Grown
  <2>1. k \in Nat /\ k + 1 \in Nat
    OBVIOUS
  <2>2. CASE Done(k)
    <3>1. w[k + 1] = More(w[k]) /\ w[(k + 1) + 1] = More(w[k + 1]) /\ w[k + 1] = w[k]
      BY <1>6, <2>1, <2>2
    <3>. QED
      BY <2>1, <3>1
  <2>3. CASE ~Done(k)
    <3>1. Cardinality(w[k]) > k
      BY <2>3
    <3>2. w[k] \subseteq w[k + 1] /\ w[k + 1] # w[k]
      BY <1>6, <2>1, <2>3
    <3>3. Cardinality(w[k + 1]) >= Cardinality(w[k]) /\ Cardinality(w[k + 1]) # Cardinality(w[k])
      BY <1>10, <2>1, <3>2, FS_Subset
    <3>. QED
      BY <1>10, <2>1, <3>1, <3>3
  <2>. QED
    BY <2>2, <2>3
<1>13. Grown = Nat
  <2>1. Grown \in SUBSET Nat
    OBVIOUS
  <2> HIDE DEF Grown
  <2>. QED
    BY <1>11, <1>12, <2>1, NatSet
<1> DEFINE last == Cardinality(g.nodes)
<1>14. last \in Nat /\ Builder!Reached(g) = w[last]
  BY <1>1, <1>2, <1>10
<1>15. w[last] = More(w[last])
  <2>1. last \in Grown
    BY <1>13, <1>14
  <2>2. Cardinality(w[last]) <= last /\ Cardinality(w[last]) \in Nat
    BY <1>10, <1>14
  <2>3. Done(last)
    BY <1>14, <2>1, <2>2
  <2>. QED
    BY <1>6, <1>14, <2>3
<1>16. g.entry \in w[last]
  <2> DEFINE Holds == {k \in Nat : g.entry \in w[k]}
  <2>1. 0 \in Holds /\ \A k \in Holds : k + 1 \in Holds
    BY <1>6
  <2>2. Holds \in SUBSET Nat
    OBVIOUS
  <2> HIDE DEF Holds
  <2>3. Holds = Nat
    BY <2>1, <2>2, NatSet
  <2>. QED
    BY <1>14, <2>3 DEF Holds
<1> HIDE DEF last
<1>17. \A n \in w[last] : Builder!TargetsOf(g, n) \ {END} \subseteq w[last]
  BY <1>15
<1>. QED
  BY <1>9, <1>14, <1>16, <1>17

\* A closed set of nodes holds every node of a path that starts in it.
LEMMA PathStaysIn ==
  ASSUME NEW g, Graph(g), NEW s, NEW p, NEW n \in s, NEW m, Path(g, p, n, m),
         \A x \in s : Builder!TargetsOf(g, x) \ {END} \subseteq s
  PROVE  m \in s
<1> DEFINE In == {k \in Nat : k + 1 \in 1..Len(p) => p[k + 1] \in s}
<1>1. p \in Seq(g.nodes) /\ Len(p) \in Nat /\ Len(p) > 0 /\ p[1] = n /\ p[Len(p)] = m
  BY DEF Path
<1>2. 0 \in In
  BY <1>1
<1>3. ASSUME NEW k \in In
      PROVE  k + 1 \in In
  <2> SUFFICES ASSUME (k + 1) + 1 \in 1..Len(p)
               PROVE  p[(k + 1) + 1] \in s
    OBVIOUS
  <2>1. k + 1 \in 1..(Len(p) - 1) /\ k + 1 \in 1..Len(p)
    BY <1>1
  <2>2. p[k + 1] \in s /\ p[(k + 1) + 1] \in Builder!TargetsOf(g, p[k + 1])
    BY <2>1 DEF Path
  <2>3. p[(k + 1) + 1] \in g.nodes
    BY <1>1
  <2>. QED
    BY <2>2, <2>3 DEF Graph
<1>4. In = Nat
  <2>1. In \in SUBSET Nat
    OBVIOUS
  <2> HIDE DEF In
  <2>. QED
    BY <1>2, <1>3, <2>1, NatSet
<1>5. p[(Len(p) - 1) + 1] \in s
  <2>1. Len(p) - 1 \in Nat /\ (Len(p) - 1) + 1 \in 1..Len(p)
    BY <1>1
  <2> HIDE DEF In
  <2>2. Len(p) - 1 \in In
    BY <1>4, <2>1
  <2>. QED
    BY <2>1, <2>2 DEF In
<1>. QED
  BY <1>1, <1>5

\* compile() accepts exactly the graphs that can run, with guards the graph has
\* and a budget; what it accepts is what GraphRun assumes of its constants.
THEOREM CompileIsExact ==
  ASSUME NEW g, Graph(g), NEW guarded, NEW budget \in Int
  PROVE  /\ Builder!Compiles(g, guarded, budget) <=>
              Runnable(g) /\ guarded \subseteq g.nodes /\ budget \in Nat \ {0}
         /\ Builder!Compiles(g, guarded, budget) =>
              /\ END \notin g.nodes /\ ROUTING \notin g.nodes
              /\ g.entry \in g.nodes
              /\ Builder!EdgesOf(g) \in [g.nodes -> (SUBSET (g.nodes \cup {END})) \ {{}}]
              /\ guarded \subseteq g.nodes
              /\ budget \in Nat \ {0}
<1>1. ASSUME Builder!Compiles(g, guarded, budget)
      PROVE  Runnable(g) /\ guarded \subseteq g.nodes /\ budget \in Nat \ {0}
  <2>1. /\ g.entry \in g.nodes /\ budget >= 1 /\ Builder!TargetsExist(g)
        /\ g.nodes \subseteq Builder!Reached(g) /\ guarded \subseteq g.nodes
    BY <1>1 DEF Builder!Compiles
  <2>2. \A n \in g.nodes : \E p : Path(g, p, g.entry, n)
    BY <2>1, ReachedFacts
  <2>. QED
    BY <2>1, <2>2 DEF Runnable, Builder!TargetsExist
<1>2. ASSUME Runnable(g), guarded \subseteq g.nodes, budget \in Nat \ {0}
      PROVE  Builder!Compiles(g, guarded, budget)
  <2>1. g.entry \in g.nodes /\ Builder!TargetsExist(g)
    BY <1>2 DEF Runnable, Builder!TargetsExist
  <2>2. ASSUME NEW n \in g.nodes
        PROVE  n \in Builder!Reached(g)
    <3>1. PICK p : Path(g, p, g.entry, n)
      BY <1>2 DEF Runnable
    <3>2. /\ g.entry \in Builder!Reached(g)
          /\ \A x \in Builder!Reached(g) :
               Builder!TargetsOf(g, x) \ {END} \subseteq Builder!Reached(g)
      BY <2>1, ReachedFacts
    <3>. QED
      BY <3>1, <3>2, PathStaysIn
  <2>. QED
    BY <1>2, <2>1, <2>2 DEF Builder!Compiles
<1>3. Builder!Compiles(g, guarded, budget) =>
        Builder!EdgesOf(g) \in [g.nodes -> (SUBSET (g.nodes \cup {END})) \ {{}}]
  BY DEF Builder!Compiles, Builder!TargetsExist, Builder!EdgesOf
<1>. QED
  BY <1>1, <1>2, <1>3 DEF Graph, Builder!Compiles
=============================================================================
