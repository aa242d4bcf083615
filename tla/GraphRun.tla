------------------------------ MODULE GraphRun ------------------------------
(***************************************************************************)
(* One durable thread of a CompiledGraph: invoke/stream(thread_id=...) and *)
(* resume/resume_stream of src/src/actants/graph/state_graph.py.           *)
(*                                                                         *)
(* The process may die between any two steps and keep nothing but the      *)
(* checkpoint; nodes, routers and the store may raise, a node also after   *)
(* its side effect; whoever resumes answers a pause or acknowledges a      *)
(* failure.                                                                *)
(*                                                                         *)
(* Simplifications:                                                        *)
(*  - the user's state is the sequence of the nodes whose update it has    *)
(*    merged;                                                              *)
(*  - a router answers any key of its mapping, whatever the state; an      *)
(*    unmapped key is a router that raises;                                *)
(*  - a consumer that abandons stream() has the effect of a crash at one   *)
(*    of its yields;                                                       *)
(*  - a put that raises wrote nothing, the thread is resumed on the graph  *)
(*    it was started with, and calls on one thread follow each other.      *)
(***************************************************************************)
EXTENDS Integers, Sequences, SequencesExt

CONSTANTS
  Nodes,
  END,
  ROUTING,        \* _ROUTING_PENDING: done, its successor not yet known
  Entry,          \* the entry point
  Edges,          \* the targets of each node's edge or mapping
  Guarded,        \* interrupt_before
  MaxIterations,  \* max_iterations
  MaxRuns,        \* bound: calls of invoke or stream on this thread_id
  MaxResumes,     \* bound: calls of resume that get past its checks
  MaxFailures     \* bound: exceptions after which nodes and the store behave

\* What add_node and compile() establish.
ASSUME GraphAssumption ==
  /\ END \notin Nodes /\ ROUTING \notin Nodes /\ END # ROUTING
  /\ Entry \in Nodes
  /\ Edges \in [Nodes -> (SUBSET (Nodes \cup {END})) \ {{}}]
  /\ Guarded \subseteq Nodes
  /\ MaxIterations \in Nat \ {0}

ASSUME BoundsAssumption ==
  /\ MaxRuns \in Nat \ {0}
  /\ MaxResumes \in Nat
  /\ MaxFailures \in Nat

VARIABLES
  \* the checkpoint store: all that outlives the process
  store,      \* the thread's checkpoint
  \* the process
  pc,         \* where _drive stands
  run,        \* its _Run, with the skip_pending and approved of _drive
  exc,        \* the exception being handled
  \* history, of the world and of the callers
  effects,    \* how often each visit ran its node
  approvals,  \* how often a human approved each visit
  \* counters of the bounds
  runs, resumes, raised

history == <<effects, approvals>>
vars == <<store, pc, run, exc, effects, approvals, runs, resumes, raised>>

-----------------------------------------------------------------------------
(* Data.                                                                   *)

Status  == {"absent", "running", "interrupted", "completed", "failed"}
NoError == 0          \* errors are numbered as they occur

Checkpoint == [status : Status, run : 0..MaxRuns, next : Nodes \cup {END, ROUTING},
               completed : Seq(Nodes), iterations : 0..MaxIterations, state : Seq(Nodes),
               error : Nat, prior : Seq(Nat)]

NoCheckpoint == [status |-> "absent", run |-> 0, next |-> Entry,
                 completed |-> <<>>, iterations |-> 0, state |-> <<>>,
                 error |-> NoError, prior |-> <<>>]

RunRecord == [no : 0..MaxRuns, next : Nodes \cup {END, ROUTING},
              completed : Seq(Nodes), iterations : 0..MaxIterations, state : Seq(Nodes),
              prior : Seq(Nat), skip : BOOLEAN, approved : BOOLEAN]

\* A run of invoke or stream from its beginning.
NewRun(no) == [no |-> no, next |-> Entry, completed |-> <<>>, iterations |-> 0,
               state |-> <<>>, prior |-> <<>>, skip |-> FALSE,
               approved |-> FALSE]

\* Every rejection is a resume, every other visit an iteration.
MaxVisits == MaxIterations + MaxResumes
Visit == (1..MaxRuns) \X (1..MaxVisits) \X Nodes

ThisVisit(r) == <<r.no, Len(r.completed) + 1, r.next>>

Init ==
  /\ store = NoCheckpoint
  /\ pc = "idle"
  /\ run = NewRun(0)
  /\ exc = NoError
  /\ effects = [v \in Visit |-> 0] /\ approvals = [v \in Visit |-> 0]
  /\ runs = 0 /\ resumes = 0 /\ raised = 0

-----------------------------------------------------------------------------
(* What the steps have in common.                                          *)

\* _checkpoint: replace the thread's record by the run's own.
Put(status, next) ==
  store' = [status |-> status, run |-> run.no, next |-> next,
            completed |-> run.completed, iterations |-> run.iterations,
            state |-> run.state, error |-> NoError, prior |-> run.prior]

\* The coroutine returns or raises to its caller; its locals are gone.
Leave ==
  /\ pc' = "idle"
  /\ run' = NewRun(0)
  /\ exc' = NoError

Throw ==
  /\ raised' = raised + 1
  /\ exc' = raised + 1
  /\ pc' = "failing"

-----------------------------------------------------------------------------
(* invoke and the node loop, _drive.                                       *)

Invoke ==
  /\ pc = "idle" /\ runs < MaxRuns
  /\ runs' = runs + 1
  /\ run' = NewRun(runs + 1)
  /\ pc' = "loop"
  /\ UNCHANGED <<store, exc, history, resumes, raised>>

\* The loop's test: END was reached.
Complete ==
  /\ pc = "loop" /\ run.next = END
  /\ Put("completed", END)
  /\ Leave
  /\ UNCHANGED <<history, runs, resumes, raised>>

\* Mutant: the rejected node is taken for one that ran.
SkipRejected_Counts ==
  /\ pc = "loop" /\ run.next # END /\ run.skip
  /\ run' = [run EXCEPT !.skip = FALSE, !.completed = Append(@, run.next),
                        !.state = Append(@, run.next)]
  /\ pc' = "park"
  /\ UNCHANGED <<store, exc, history, runs, resumes, raised>>

\* A rejected node is passed over as though it had run and changed nothing.
SkipRejected ==
  /\ pc = "loop" /\ run.next # END /\ run.skip
  /\ run' = [run EXCEPT !.skip = FALSE, !.completed = Append(@, run.next)]
  /\ pc' = "park"
  /\ UNCHANGED <<store, exc, history, runs, resumes, raised>>

AtNode == pc = "loop" /\ run.next # END /\ ~run.skip

\* Mutant: the budget's end is missed by one.
ExceedIterations_OffByOne ==
  /\ AtNode /\ run.iterations > MaxIterations
  /\ Throw
  /\ UNCHANGED <<store, run, history, runs, resumes>>

ExceedIterations ==
  /\ AtNode /\ run.iterations >= MaxIterations
  /\ Throw
  /\ UNCHANGED <<store, run, history, runs, resumes>>

\* Mutant: the pause is persisted with the pointer of the write before.
Interrupt_Parked ==
  /\ AtNode /\ run.iterations < MaxIterations
  /\ run.next \in Guarded /\ ~run.approved
  /\ Put("interrupted", ROUTING)
  /\ Leave
  /\ UNCHANGED <<history, runs, resumes, raised>>

\* The next node is guarded: persist the pause in front of it.
Interrupt ==
  /\ AtNode /\ run.iterations < MaxIterations
  /\ run.next \in Guarded /\ ~run.approved
  /\ Put("interrupted", run.next)
  /\ Leave
  /\ UNCHANGED <<history, runs, resumes, raised>>

\* Mutant: the approval outlives the node it was given for.
StartNode_KeepsApproval ==
  /\ AtNode /\ run.iterations < MaxIterations
  /\ run.next \notin Guarded \/ run.approved
  /\ pc' = "node"
  /\ UNCHANGED <<store, run, exc, history, runs, resumes, raised>>

\* Mutant: one node too many.
StartNode_OffByOne ==
  /\ AtNode /\ run.iterations <= MaxIterations
  /\ run.next \notin Guarded \/ run.approved
  /\ run' = [run EXCEPT !.approved = FALSE]
  /\ pc' = "node"
  /\ UNCHANGED <<store, exc, history, runs, resumes, raised>>

\* The approval is used up, GraphNodeStarted is yielded.
StartNode ==
  /\ AtNode /\ run.iterations < MaxIterations
  /\ run.next \notin Guarded \/ run.approved
  /\ run' = [run EXCEPT !.approved = FALSE]
  /\ pc' = "node"
  /\ UNCHANGED <<store, exc, history, runs, resumes, raised>>

\* The node's function: its side effect on the world.
RunNode ==
  /\ pc = "node"
  /\ effects' = [effects EXCEPT ![ThisVisit(run)] = @ + 1]
  /\ pc' = "ran"
  /\ UNCHANGED <<store, run, exc, approvals, runs, resumes, raised>>

\* It returns: its update is merged, the visit is over.
MergeUpdate ==
  /\ pc = "ran"
  /\ run' = [run EXCEPT !.state = Append(@, run.next), !.iterations = @ + 1,
                        !.completed = Append(@, run.next)]
  /\ pc' = "park"
  /\ UNCHANGED <<store, exc, history, runs, resumes, raised>>

\* Mutant: one write after routing instead of two.
Park_Late ==
  /\ pc = "park"
  /\ pc' = "routing"
  /\ UNCHANGED <<store, run, exc, history, runs, resumes, raised>>

\* _route_after, first write: the node is done, its successor not yet known.
Park ==
  /\ pc = "park"
  /\ Put("running", ROUTING)
  /\ run' = [run EXCEPT !.next = ROUTING]
  /\ pc' = "routing"
  /\ UNCHANGED <<exc, history, runs, resumes, raised>>

\* _route_after, second write: the edge, or the router's answer.
Route ==
  /\ pc = "routing"
  /\ \E n \in Edges[Last(run.completed)] :
       /\ Put("running", n)
       /\ run' = [run EXCEPT !.next = n]
  /\ pc' = "loop"
  /\ UNCHANGED <<exc, history, runs, resumes, raised>>

-----------------------------------------------------------------------------
(* resume.                                                                 *)

\* Mutant: a parked thread starts again.
Successors_Entry(c) == IF c.next = ROUTING THEN {Entry} ELSE {c.next}

\* _resolve_routing: a parked checkpoint's router is asked again.
Successors(c) == IF c.next = ROUTING THEN Edges[Last(c.completed)] ELSE {c.next}

\* Mutant: the failure being resumed past is not kept.
Load_DropsError(next, skip, approved) ==
  /\ resumes' = resumes + 1
  /\ run' = [no |-> store.run, next |-> next, completed |-> store.completed,
             iterations |-> store.iterations, state |-> store.state,
             prior |-> store.prior, skip |-> skip, approved |-> approved]

\* Mutant: the budget of max_iterations starts again with every resume.
Load_FreshBudget(next, skip, approved) ==
  /\ resumes' = resumes + 1
  /\ run' = [no |-> store.run, next |-> next, completed |-> store.completed,
             iterations |-> 0, state |-> store.state, prior |-> store.prior,
             skip |-> skip, approved |-> approved]

\* The run rebuilt from the checkpoint; the failure being resumed past moves
\* into prior_errors.
Load(next, skip, approved) ==
  /\ resumes' = resumes + 1
  /\ run' = [no |-> store.run, next |-> next, completed |-> store.completed,
             iterations |-> store.iterations, state |-> store.state,
             prior |-> IF store.status = "failed" /\ store.error # NoError
                       THEN Append(store.prior, store.error) ELSE store.prior,
             skip |-> skip, approved |-> approved]

Resumable(statuses) ==
  /\ pc = "idle" /\ resumes < MaxResumes
  /\ store.status \in statuses

\* A human answers the pause.
ResumeInterrupted ==
  /\ Resumable({"interrupted"})
  /\ \/ /\ Load(store.next, FALSE, TRUE)
        /\ approvals' = [approvals EXCEPT
             ![<<store.run, Len(store.completed) + 1, store.next>>] = @ + 1]
     \/ /\ Load(store.next, TRUE, FALSE)
        /\ UNCHANGED approvals
  /\ pc' = "loop"
  /\ UNCHANGED <<store, exc, effects, runs, raised>>

\* A running thread, or a failed one whose failure the caller acknowledges.
ResumeSettled ==
  /\ Resumable({"running", "failed"})
  /\ \E n \in Successors(store) : Load(n, FALSE, FALSE)
  /\ pc' = "loop"
  /\ UNCHANGED <<store, exc, history, runs, raised>>

\* The resumes that change nothing: an unknown thread, a pause without an
\* answer, a failure without its acknowledgement or a parked router that raises
\* again raise; a completed thread returns its stored state.
ResumeRefused ==
  /\ pc = "idle"
  /\ \/ store.status \in {"absent", "interrupted", "failed", "completed"}
     \/ store.next = ROUTING
  /\ UNCHANGED vars

-----------------------------------------------------------------------------
(* Failures and crashes.                                                   *)

\* Within _drive's try: a node, a router or the store raises.
Raise ==
  /\ \/ pc \in {"node", "ran", "park", "routing"}
     \/ AtNode /\ run.iterations < MaxIterations
        /\ run.next \in Guarded /\ ~run.approved
  /\ raised < MaxFailures
  /\ Throw
  /\ UNCHANGED <<store, run, history, runs, resumes>>

\* _checkpoint_failure: flip the stored record, whatever it holds, unless there
\* is none or the store fails again; then re-raise.
CheckpointFailure ==
  /\ pc = "failing"
  /\ \/ /\ store.status # "absent"
        /\ store' = [store EXCEPT !.status = "failed", !.error = exc,
                                  !.prior = run.prior]
     \/ UNCHANGED store
  /\ Leave
  /\ UNCHANGED <<history, runs, resumes, raised>>

\* The process dies, its task is cancelled, the consumer abandons the stream, or
\* the last put, outside the try, raises: no handler runs.
Crash ==
  /\ pc # "idle"
  /\ Leave
  /\ UNCHANGED <<store, history, runs, resumes, raised>>

-----------------------------------------------------------------------------
\* What _drive does by itself once it is called.
Advance ==
  \/ Complete \/ SkipRejected \/ ExceedIterations \/ Interrupt \/ StartNode
  \/ RunNode \/ MergeUpdate \/ Park \/ Route \/ CheckpointFailure

Resume == ResumeInterrupted \/ ResumeSettled \/ ResumeRefused

Next == Invoke \/ Advance \/ Resume \/ Raise \/ Crash

Spec == Init /\ [][Next]_vars

\* Nodes, routers and the store answer or raise, so the coroutine goes on.
FairSpec == Spec /\ WF_vars(Advance)

-----------------------------------------------------------------------------
(* Properties.                                                             *)

\* Every variable has its type; in particular no run, however often it is
\* resumed, counts more than max_iterations.
TypeOK ==
  /\ store \in Checkpoint
  /\ pc \in {"idle", "loop", "node", "ran", "park", "routing", "failing"}
  /\ run \in RunRecord
  /\ exc \in Nat
  /\ effects \in [Visit -> Nat]
  /\ approvals \in [Visit -> Nat]
  /\ runs \in 0..MaxRuns /\ resumes \in 0..MaxResumes /\ raised \in Nat

\* A guarded node runs at most once per approval of that very visit: a loop that
\* comes around to it, a crash and an acknowledged failure all pause again.
GateHolds ==
  \A v \in Visit : v[3] \in Guarded => effects[v] <= approvals[v]

\* A state holds, in order, the update of every node of its walk exactly once,
\* save for rejected ones, and no update of a node that never ran: "at" is where
\* in the walk each update comes from.
Merged(ran, no, completed, state) ==
  \E at \in [DOMAIN state -> DOMAIN completed] :
    /\ \A i, j \in DOMAIN state : i < j => at[i] < at[j]
    /\ \A j \in DOMAIN state :
         state[j] = completed[at[j]] /\ ran[<<no, at[j], completed[at[j]]>>] > 0
    /\ \A i \in DOMAIN completed :
         completed[i] \notin Guarded => \E j \in DOMAIN state : at[j] = i
UpdatesKept == Merged(effects, store.run, store.completed, store.state)

\* Where the record says to go on is where its walk leads: the entry point, a
\* successor of the last recorded node, or the choice of one; a paused thread
\* stands before a guarded node and a completed one at END.
PointerFits ==
  store.status # "absent" =>
    /\ IF store.next = ROUTING THEN store.completed # <<>>
       ELSE IF store.completed = <<>> THEN store.next = Entry
       ELSE store.next \in Edges[Last(store.completed)]
    /\ store.status = "interrupted" => store.next \in Guarded
    /\ store.status = "completed" => store.next = END

\* max_iterations bounds the nodes one run records, however many processes its
\* resumes spread over.
BudgetHolds == Len(store.state) <= MaxIterations

\* The router is only asked about a node whose completion is durable, so that a
\* router that raises does not make the node run twice.
RoutedIsRecorded ==
  pc = "routing" => store.run = run.no /\ store.completed = run.completed

\* A record is one a resume can go on from: its pointer is where its walk leads,
\* what a router was asked about is in it, every update is in its state once, and
\* its budget is the run's.
RecordFits == TypeOK /\ PointerFits /\ RoutedIsRecorded /\ BudgetHolds /\ UpdatesKept

\* The checkpoint and the nodes implement the walk of GraphWalk: the record is a
\* path from the entry point that only grows, recorded nodes never run again,
\* and nothing runs but the node the path has come to.
Walk == INSTANCE GraphWalk WITH
  Runs <- 1..MaxRuns, Visits <- Visit, run <- store.run,
  trail <- store.completed
WalkKept == Walk!Spec

\* Each failure once written stays on record, in error or in prior_errors,
\* across every resume, success or further failure of its run.  A new run drops
\* the failures of the one before, whose record a failure in front of its first
\* checkpoint still flips.
Errors(c) == (ToSet(c.prior) \cup {c.error}) \ {NoError}
ErrorsKept ==
  [][run.no <= store.run => Errors(store) \subseteq Errors(store')]_vars

\* Every call of invoke or resume returns, raises or pauses: max_iterations
\* holds whatever the routers answer.
EveryRunReturns == pc # "idle" ~> pc = "idle"
=============================================================================
