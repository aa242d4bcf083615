---------------------------- MODULE AgentDurable ----------------------------
(***************************************************************************)
(* One durable thread of an Agent: Agent.run(thread_id=...) and            *)
(* Agent.resume(thread_id, ...) of src/src/actants/agents/agent.py, over   *)
(* the record a Checkpointer keeps (agents/checkpoint.py).                 *)
(*                                                                         *)
(* The process may die between any two steps and lose everything but the   *)
(* checkpoint; whoever resumes answers an interrupt, resolves an in-flight *)
(* call or acknowledges a failure as they like; the model asks for any     *)
(* tool calls; hooks, the LLM and the store may raise.                     *)
(*                                                                         *)
(* Simplifications:                                                        *)
(*  - the messages of a turn are a function of the prompt and the steps,   *)
(*    so the checkpoint keeps the steps and the number of the run whose    *)
(*    prompt they answer;                                                  *)
(*  - a call is its tool's name: arguments and result values are left out, *)
(*    a recorded result keeps only where it came from (Outcome);           *)
(*  - steps and calls count from 1, the code's step.index is one less;     *)
(*  - a put that raises wrote nothing, and calls on one thread follow each *)
(*    other (concurrent callers are the subject of ResumeLocks).           *)
(***************************************************************************)
EXTENDS Integers, Sequences, SequencesExt

CONSTANTS
  Tools,        \* the tools a model may name
  Idempotent,   \* those registered with idempotent=True
  Gated,        \* those in Agent.interrupt_before
  Registries,   \* the ToolRegistry contents an Agent may be built with
  Limits,       \* the max_steps a caller may ask for
  MaxSteps,     \* bound: the largest of them
  MaxCalls,     \* bound: tool calls in one completion
  MaxRuns,      \* bound: calls of Agent.run on this thread_id
  MaxResumes,   \* bound: calls of Agent.resume that get past its checks
  MaxFailures   \* bound: exceptions after which hooks, LLM and store behave

ASSUME ToolsAssumption ==
  /\ Idempotent \subseteq Tools
  /\ Gated \subseteq Tools
  /\ Registries \subseteq SUBSET Tools

ASSUME BoundsAssumption ==
  /\ MaxSteps \in Nat \ {0}
  /\ Limits \subseteq 1..MaxSteps
  /\ MaxCalls \in Nat \ {0}
  /\ MaxRuns \in Nat \ {0}
  /\ MaxResumes \in Nat
  /\ MaxFailures \in Nat

VARIABLES
  \* the checkpoint store: all that outlives the process
  store,      \* the thread's checkpoint
  \* the process
  pc,         \* where Agent.run or Agent.resume stands
  state,      \* its _RunState: steps, prior_errors, the limit, its prompt; and the
              \* tools of the Agent it was called on
  exc,        \* the exception being handled
  \* history, of the world and of the callers
  effects,    \* how often each call reached its tool
  approvals,  \* how often a human approved each call
  retries,    \* how often a caller vouched that a call did not run
  \* counters of the bounds
  runs, resumes, raised

history == <<effects, approvals, retries>>
vars == <<store, pc, state, exc, effects, approvals, retries, runs, resumes,
          raised>>

-----------------------------------------------------------------------------
(* Data.                                                                   *)

Status  == {"absent", "running", "interrupted", "completed", "failed"}
Outcome == {"ran", "unknown_tool", "rejected", "skipped"}
Step    == {s \in [calls : Seq(Tools), results : Seq(Outcome)] :
              Len(s.results) <= Len(s.calls)}

NoError == [kind |-> "none", no |-> 0]
Error   == [kind : {"none", "raised", "max_steps", "unresolved"}, no : Nat]

Checkpoint == [status : Status, run : 0..MaxRuns, steps : Seq(Step),
               pending : Nat, error : Error, prior : Seq(Error), limit : Nat]

NoCheckpoint == [status |-> "absent", run |-> 0, steps |-> <<>>,
                 pending |-> 0, error |-> NoError, prior |-> <<>>, limit |-> 0]

RunState == [turn : 0..MaxRuns, steps : Seq(Step), prior : Seq(Error),
             limit : Nat, tools : SUBSET Tools]
NoRun    == [turn |-> 0, steps |-> <<>>, prior |-> <<>>, limit |-> 0,
             tools |-> {}]

\* A call of the thread's history: the run, the step and the position in it.
Call == (1..MaxRuns) \X (1..MaxSteps) \X (1..MaxCalls)
NoCalls == [c \in Call |-> 0]

\* What is left to do of a history of steps: only its last step may be
\* unfinished, and its calls are settled in order.
Done(steps)     == Len(Last(steps).results)
Finished(steps) == steps = <<>> \/ Done(steps) >= Len(Last(steps).calls)
NextTool(steps) == Last(steps).calls[Done(steps) + 1]
NextCall(run, steps) == <<run, Len(steps), Done(steps) + 1>>

\* Mutant: the payload joins the step twice.
WithResult_Twice(steps, o) ==
  [steps EXCEPT ![Len(steps)].results = @ \o <<o, o>>]

WithResult(steps, o) ==
  [steps EXCEPT ![Len(steps)].results = Append(@, o)]

\* Mutant: being registered is taken for being idempotent.
SafeToRepeat_IfKnown(tool, tools) == tool \in tools

SafeToRepeat(tool, tools) == tool \in tools \cap Idempotent

Init ==
  /\ store = NoCheckpoint
  /\ pc = "idle"
  /\ state = NoRun
  /\ exc = NoError
  /\ effects = NoCalls /\ approvals = NoCalls /\ retries = NoCalls
  /\ runs = 0 /\ resumes = 0 /\ raised = 0

-----------------------------------------------------------------------------
(* What the steps have in common.                                          *)

\* Agent._checkpoint: replace the thread's record by the run's own.
Put(status, steps, pending) ==
  store' = [status |-> status, run |-> state.turn, steps |-> steps,
            pending |-> pending, error |-> NoError, prior |-> state.prior,
            limit |-> state.limit]

\* The coroutine returns or raises to its caller; its locals are gone.
Leave ==
  /\ pc' = "idle"
  /\ state' = NoRun
  /\ exc' = NoError

\* Where the dispatch loop goes after a result: its next call, or the next step.
NextPc(steps) == IF Finished(steps) THEN "think" ELSE "dispatch"

Throw(kind) ==
  /\ raised' = raised + 1
  /\ exc' = [kind |-> kind, no |-> raised + 1]
  /\ pc' = "failing"

\* tools.call of the next call: only a registered tool has an effect, an
\* unknown name is reported to the model as a failed result.
Invoke ==
  LET c == NextCall(state.turn, state.steps)
  IN effects' = IF NextTool(state.steps) \in state.tools
                THEN [effects EXCEPT ![c] = @ + 1] ELSE effects

-----------------------------------------------------------------------------
(* Agent.run and the step loop.                                            *)

Run ==
  /\ pc = "idle" /\ runs < MaxRuns
  /\ runs' = runs + 1
  /\ \E lim \in Limits, tools \in Registries :
       state' = [turn |-> runs + 1, steps |-> <<>>, prior |-> <<>>,
                 limit |-> lim, tools |-> tools]
  /\ pc' = "think"
  /\ UNCHANGED <<store, exc, history, resumes, raised>>

\* Mutant: the completion replaces the steps before it.
Complete_Forgetful ==
  /\ pc = "think" /\ Len(state.steps) < state.limit
  /\ \E calls \in SeqOf(Tools, MaxCalls) :
       state' = [state EXCEPT !.steps = <<[calls |-> calls, results |-> <<>>]>>]
  /\ pc' = "answered"
  /\ UNCHANGED <<store, exc, history, runs, resumes, raised>>

\* The model answers: the step joins state.steps, nothing is durable yet.
Complete ==
  /\ pc = "think" /\ Len(state.steps) < state.limit
  /\ \E calls \in SeqOf(Tools, MaxCalls) :
       state' = [state EXCEPT !.steps =
                   Append(@, [calls |-> calls, results |-> <<>>])]
  /\ pc' = "answered"
  /\ UNCHANGED <<store, exc, history, runs, resumes, raised>>

\* Mutant: the loop's end is missed by one.
ExceedMaxSteps_OffByOne ==
  /\ pc = "think" /\ Len(state.steps) > state.limit
  /\ Throw("max_steps")
  /\ UNCHANGED <<store, state, history, runs, resumes>>

\* The loop ran out of steps.
ExceedMaxSteps ==
  /\ pc = "think" /\ Len(state.steps) >= state.limit
  /\ Throw("max_steps")
  /\ UNCHANGED <<store, state, history, runs, resumes>>

\* No tool calls: the final answer.
Answer ==
  /\ pc = "answered" /\ Last(state.steps).calls = <<>>
  /\ Put("completed", state.steps, 0)
  /\ Leave
  /\ UNCHANGED <<history, runs, resumes, raised>>

\* Mutant: the calls are dispatched before their completion is durable.
CheckpointCompletion_Late ==
  /\ pc = "answered" /\ Last(state.steps).calls # <<>>
  /\ pc' = "dispatch"
  /\ UNCHANGED <<store, state, exc, history, runs, resumes, raised>>

\* Tool calls: make the completion durable before any of them is dispatched.
CheckpointCompletion ==
  /\ pc = "answered" /\ Last(state.steps).calls # <<>>
  /\ Put("running", state.steps, 0)
  /\ pc' = "dispatch"
  /\ UNCHANGED <<state, exc, history, runs, resumes, raised>>

\* Mutant: the pending call is the last settled one.
Interrupt_OffByOne ==
  /\ pc = "dispatch" /\ NextTool(state.steps) \in Gated
  /\ Put("interrupted", state.steps, Done(state.steps))
  /\ Leave
  /\ UNCHANGED <<history, runs, resumes, raised>>

\* The next call needs a human: persist the pause in front of it.
Interrupt ==
  /\ pc = "dispatch" /\ NextTool(state.steps) \in Gated
  /\ Put("interrupted", state.steps, Done(state.steps) + 1)
  /\ Leave
  /\ UNCHANGED <<history, runs, resumes, raised>>

\* Mutant: the gate is not consulted.
DispatchCall_Ungated ==
  /\ pc = "dispatch"
  /\ Invoke
  /\ pc' = "called"
  /\ UNCHANGED <<store, state, exc, approvals, retries, runs, resumes, raised>>

DispatchCall ==
  /\ pc = "dispatch" /\ NextTool(state.steps) \notin Gated
  /\ Invoke
  /\ pc' = "called"
  /\ UNCHANGED <<store, state, exc, approvals, retries, runs, resumes, raised>>

\* _resolve_interrupt with approve=True: the pending call, past its gate.
DispatchApproved ==
  /\ pc = "approved"
  /\ Invoke
  /\ pc' = "called"
  /\ UNCHANGED <<store, state, exc, approvals, retries, runs, resumes, raised>>

\* The next call's result joins the step and becomes durable.
Record(o) ==
  LET steps == WithResult(state.steps, o)
  IN /\ state' = [state EXCEPT !.steps = steps]
     /\ Put("running", steps, 0)
     /\ pc' = NextPc(steps)
     /\ UNCHANGED <<exc, history, runs, resumes, raised>>

\* Mutant: an unknown tool's failure is recorded as a result of the tool.
RecordResult_NoUnknown == pc = "called" /\ Record("ran")

\* Mutant: results are only made durable once the step is finished.
RecordResult_Batched ==
  LET steps == WithResult(state.steps, "ran")
  IN /\ pc = "called"
     /\ state' = [state EXCEPT !.steps = steps]
     /\ IF Finished(steps) THEN Put("running", steps, 0) ELSE UNCHANGED store
     /\ pc' = NextPc(steps)
     /\ UNCHANGED <<exc, history, runs, resumes, raised>>

RecordResult ==
  /\ pc = "called"
  /\ Record(IF NextTool(state.steps) \in state.tools THEN "ran" ELSE "unknown_tool")

RejectCall == pc = "rejecting" /\ Record("rejected")

SkipCall == pc = "skipping" /\ Record("skipped")

-----------------------------------------------------------------------------
(* Agent.resume.                                                           *)

\* Mutant: the failure being resumed past is not kept.
Load_DropsError(lim, tools) ==
  /\ resumes' = resumes + 1
  /\ state' = [turn |-> store.run, steps |-> store.steps, limit |-> lim,
               tools |-> tools, prior |-> store.prior]

\* The run state rebuilt from the checkpoint, on an Agent with these tools; the
\* failure being resumed past moves into prior_errors.
Load(lim, tools) ==
  /\ resumes' = resumes + 1
  /\ state' = [turn |-> store.run, steps |-> store.steps, limit |-> lim,
               tools |-> tools,
               prior |-> IF store.status = "failed" /\ store.error # NoError
                         THEN Append(store.prior, store.error)
                         ELSE store.prior]

Resumable(statuses) ==
  /\ pc = "idle" /\ resumes < MaxResumes
  /\ store.status \in statuses

\* A human answers the pause.
ResumeInterrupted ==
  /\ Resumable({"interrupted"})
  /\ \E lim \in Limits \cup {store.limit}, tools \in Registries : Load(lim, tools)
  /\ \/ /\ pc' = "approved"
        /\ approvals' = [approvals EXCEPT
             ![<<store.run, Len(store.steps), store.pending>>] = @ + 1]
     \/ /\ pc' = "rejecting"
        /\ UNCHANGED approvals
  /\ UNCHANGED <<store, exc, effects, retries, runs, raised>>

\* Mutant: a completed thread is continued like a running one.
ResumeSettled_Completed ==
  /\ Resumable({"running", "failed", "completed"}) /\ Finished(store.steps)
  /\ \E lim \in Limits \cup {store.limit}, tools \in Registries : Load(lim, tools)
  /\ pc' = "think"
  /\ UNCHANGED <<store, exc, history, runs, raised>>

\* A running thread, or a failed one whose failure the caller acknowledges.
\* Its last step may hold a call that was in flight: repeated if that is safe,
\* else retried, skipped or refused as the caller says.
ResumeSettled ==
  /\ Resumable({"running", "failed"}) /\ Finished(store.steps)
  /\ \E lim \in Limits \cup {store.limit}, tools \in Registries : Load(lim, tools)
  /\ pc' = "think"
  /\ UNCHANGED <<store, exc, history, runs, raised>>

ResumeInFlight ==
  /\ Resumable({"running", "failed"}) /\ ~Finished(store.steps)
  /\ \E lim \in Limits \cup {store.limit}, tools \in Registries : Load(lim, tools)
  /\ \/ /\ SafeToRepeat(NextTool(store.steps), state'.tools)
        /\ pc' = "dispatch"
        /\ UNCHANGED <<exc, raised, retries>>
     \/ /\ ~SafeToRepeat(NextTool(store.steps), state'.tools)         \* resolve="retry"
        /\ pc' = "dispatch"
        /\ retries' = [retries EXCEPT ![NextCall(store.run, store.steps)] = @ + 1]
        /\ UNCHANGED <<exc, raised>>
     \/ /\ ~SafeToRepeat(NextTool(store.steps), state'.tools)         \* resolve="skip"
        /\ pc' = "skipping"
        /\ UNCHANGED <<exc, raised, retries>>
     \/ /\ ~SafeToRepeat(NextTool(store.steps), state'.tools)         \* resolve="abort"
        /\ Throw("unresolved")
        /\ UNCHANGED retries
  /\ UNCHANGED <<store, effects, approvals, runs>>

\* The resumes that change nothing: an unknown thread, a pause without an
\* answer, a failure without its acknowledgement raise; a completed thread
\* returns its stored result.
ResumeRefused ==
  /\ pc = "idle"
  /\ store.status \in {"absent", "interrupted", "failed", "completed"}
  /\ UNCHANGED vars

-----------------------------------------------------------------------------
(* Failures and crashes.                                                   *)

Fallible == {"think", "answered", "dispatch", "approved", "called",
             "rejecting", "skipping"}

\* A hook, the LLM or the store raises (or tools is None).
Raise ==
  /\ pc \in Fallible /\ raised < MaxFailures
  /\ Throw("raised")
  /\ UNCHANGED <<store, state, history, runs, resumes>>

\* Agent._checkpoint_failure: flip the stored record, whatever it holds, unless
\* there is none or the store fails again; then re-raise.
CheckpointFailure ==
  /\ pc = "failing"
  /\ \/ /\ store.status # "absent"
        /\ store' = [store EXCEPT !.status = "failed", !.error = exc,
                                  !.prior = state.prior]
     \/ UNCHANGED store
  /\ Leave
  /\ UNCHANGED <<history, runs, resumes, raised>>

\* The process dies, or its task is cancelled, which no handler catches: only
\* the checkpoint remains.
Crash ==
  /\ pc # "idle"
  /\ Leave
  /\ UNCHANGED <<store, history, runs, resumes, raised>>

-----------------------------------------------------------------------------
\* What the coroutine does by itself once it is called.
Advance ==
  \/ Complete \/ ExceedMaxSteps \/ Answer \/ CheckpointCompletion
  \/ Interrupt \/ DispatchCall \/ DispatchApproved \/ RecordResult
  \/ RejectCall \/ SkipCall \/ CheckpointFailure

Resume == ResumeInterrupted \/ ResumeSettled \/ ResumeInFlight \/ ResumeRefused

Next == Run \/ Advance \/ Resume \/ Raise \/ Crash

Spec == Init /\ [][Next]_vars

\* The LLM, the tools and the store answer or raise, so the coroutine goes on.
FairSpec == Spec /\ WF_vars(Advance)

-----------------------------------------------------------------------------
(* Properties.                                                             *)

\* Every variable has its type; in particular no step outgrows its calls.
TypeOK ==
  /\ store \in Checkpoint
  /\ pc \in Fallible \cup {"idle", "failing"}
  /\ state \in RunState
  /\ exc \in Error
  /\ effects \in [Call -> Nat]
  /\ approvals \in [Call -> Nat]
  /\ retries \in [Call -> Nat]
  /\ runs \in 0..MaxRuns /\ resumes \in Nat /\ raised \in Nat

\* The calls the checkpoint knows of, and those whose result it holds.
Asked == {c \in Call : /\ c[1] = store.run
                       /\ c[2] \in DOMAIN store.steps
                       /\ c[3] \in DOMAIN store.steps[c[2]].calls}
Settled == {c \in Asked : c[3] \in DOMAIN store.steps[c[2]].results}
ToolOf(c) == store.steps[c[2]].calls[c[3]]
ResultOf(c) == store.steps[c[2]].results[c[3]]

\* A call that is not safe to repeat reaches its tool once, and once more for
\* each caller who vouched with resolve="retry" that it had not run: neither a
\* crash nor a failure nor an acknowledged failure replays it by itself.
NoAutoReplay ==
  \A c \in Asked : ToolOf(c) \notin Idempotent \cup Gated
                     => effects[c] <= 1 + retries[c]

\* A gated call reaches its tool at most once per approval, whatever crashes,
\* failures and resolutions lie between the approval and the dispatch.
GateHolds ==
  \A c \in Asked : ToolOf(c) \in Gated => effects[c] <= approvals[c]

\* "Exactly one call per thread is ever ambiguous. Everything before it is
\* settled": a call that may have run without a recorded result is the first
\* unrecorded one of the last step, and no call the checkpoint does not know of
\* ever ran.
OneAmbiguousCall ==
  \A c \in Call : c[1] >= store.run /\ c \notin Settled /\ effects[c] > 0
                    => c \in Asked /\ c = NextCall(store.run, store.steps)

\* A result the model is shown as a tool's came from a dispatch of that call.
ResultsAreReal ==
  \A c \in Settled : ResultOf(c) = "ran" => effects[c] > 0

\* The record accounts for every call: at most one is in doubt, and none is on
\* record that never was.
CallsAccountedFor == TypeOK /\ OneAmbiguousCall /\ ResultsAreReal

\* The pending call of a paused thread is the one _resolve_interrupt's append
\* will answer, and it is gated.
PendingIsNext ==
  store.status = "interrupted" =>
    /\ ~Finished(store.steps)
    /\ store.pending = Done(store.steps) + 1
    /\ NextTool(store.steps) \in Gated

\* The checkpoint and the tools implement the ledger of CallLedger: no call runs
\* before the completion that asks for it is durable, and none runs again once
\* its result is.
Ledger == INSTANCE CallLedger WITH asked <- Asked, settled <- Settled
LedgerKept == Ledger!Spec

\* Each failure once written stays on record, in error or in prior_errors,
\* across every resume, success or further failure of the record's own run. (A
\* later run of the thread that fails before its first checkpoint marks the
\* record it did not write failed, with its own, empty, prior_errors.)
Errors(c) == (ToSet(c.prior) \cup {c.error}) \ {NoError}
ErrorsKept ==
  [][state.turn <= store.run => Errors(store) \subseteq Errors(store')]_vars

\* The durable history of a run only grows: no recorded step or result is lost,
\* reordered or rewritten by a crash, a failure or a resume.
Extends(s, t) ==
  /\ Len(s) <= Len(t)
  /\ \A i \in DOMAIN s : /\ t[i].calls = s[i].calls
                         /\ IsPrefix(s[i].results, t[i].results)
ProgressKept ==
  [][store'.run = store.run => Extends(store.steps, store'.steps)]_vars

\* A completed thread stays as it is, so that resuming it returns its stored
\* result, until a later run of the thread takes its record over: no resume
\* continues, fails or rewrites a completed thread.
CompletedIsFinal ==
  [][store.status = "completed" /\ state.turn <= store.run => store' = store]_vars

\* Every call of run or resume returns, raises or pauses: the step limit holds
\* whatever the model asks for.
EveryCallReturns == pc # "idle" ~> pc = "idle"
=============================================================================
