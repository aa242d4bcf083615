------------------------- MODULE AgentDurable_proofs ------------------------
(***************************************************************************)
(* Proofs about AgentDurable, for any tools, registries and bounds: type   *)
(* correctness, the safety of tool calls, what no step does to a record,   *)
(* that record and tools implement CallLedger, and that every call runs    *)
(* down.                                                                   *)
(***************************************************************************)
EXTENDS AgentDurable, TLAPS

-----------------------------------------------------------------------------
(* Lemmas about histories of steps.                                        *)

\* The last step of a history that is not finished is there, and has a next call.
LEMMA UnfinishedFacts ==
  ASSUME NEW s \in Seq(Step), ~Finished(s)
  PROVE  /\ s # <<>>
         /\ Len(s) \in Nat \ {0}
         /\ Len(s) \in DOMAIN s
         /\ Last(s) \in Step
         /\ Done(s) \in Nat
         /\ Done(s) + 1 \in 1..Len(Last(s).calls)
         /\ NextTool(s) \in Tools
<1>1. s # <<>> /\ Len(s) \in Nat \ {0} /\ Last(s) \in Step
  BY DEF Finished, Last
<1>2. Len(s) \in DOMAIN s
  BY <1>1
<1>3. Last(s).calls \in Seq(Tools) /\ Last(s).results \in Seq(Outcome)
  BY <1>1 DEF Step
<1>4. Done(s) \in Nat /\ Len(Last(s).calls) \in Nat
  BY <1>3 DEF Done
<1>5. Done(s) + 1 \in 1..Len(Last(s).calls)
  BY <1>1, <1>4 DEF Finished
<1>6. NextTool(s) \in Tools
  BY <1>3, <1>5 DEF NextTool
<1>. QED
  BY <1>1, <1>2, <1>4, <1>5, <1>6

\* Recording a result adds it to the last step and touches nothing else.
LEMMA WithResultFacts ==
  ASSUME NEW s \in Seq(Step), ~Finished(s), NEW o \in Outcome
  PROVE  /\ WithResult(s, o) \in Seq(Step)
         /\ WithResult(s, o) # <<>>
         /\ Len(WithResult(s, o)) = Len(s)
         /\ \A i \in 1..Len(s) : WithResult(s, o)[i].calls = s[i].calls
         /\ \A i \in 1..(Len(s)-1) : WithResult(s, o)[i].results = s[i].results
         /\ WithResult(s, o)[Len(s)].results = Append(s[Len(s)].results, o)
         /\ Done(WithResult(s, o)) = Done(s) + 1
<1> DEFINE t == WithResult(s, o)
<1>1. /\ Len(s) \in Nat \ {0}
      /\ s[Len(s)] \in Step
      /\ Len(s[Len(s)].results) + 1 <= Len(s[Len(s)].calls)
  BY UnfinishedFacts DEF Last, Done
<1> DEFINE u == [s[Len(s)] EXCEPT !.results = Append(s[Len(s)].results, o)]
<1>2. t = [s EXCEPT ![Len(s)] = u]
  BY DEF WithResult
<1>3. /\ s[Len(s)].results \in Seq(Outcome)
      /\ s[Len(s)].calls \in Seq(Tools)
      /\ s[Len(s)] \in [calls : Seq(Tools), results : Seq(Outcome)]
  BY <1>1 DEF Step
<1>4. /\ u.results = Append(s[Len(s)].results, o)
      /\ u.calls = s[Len(s)].calls
      /\ u \in [calls : Seq(Tools), results : Seq(Outcome)]
  <2>1. \A r \in [calls : Seq(Tools), results : Seq(Outcome)], p \in Seq(Outcome) :
          /\ [r EXCEPT !.results = p].results = p
          /\ [r EXCEPT !.results = p].calls = r.calls
          /\ [r EXCEPT !.results = p] \in [calls : Seq(Tools), results : Seq(Outcome)]
    OBVIOUS
  <2>2. Append(s[Len(s)].results, o) \in Seq(Outcome)
    BY <1>3
  <2>. QED
    BY <1>3, <2>1, <2>2
<1> HIDE DEF u
<1>5. /\ Len(u.results) = Len(s[Len(s)].results) + 1
      /\ u \in Step
  BY <1>1, <1>3, <1>4 DEF Step
<1>6. t \in Seq(Step) /\ Len(t) = Len(s) /\ t[Len(s)] = u
  <2>. HIDE DEF t
  <2>. QED
    BY <1>1, <1>2, <1>5
<1>7. \A i \in 1..(Len(s)-1) : t[i] = s[i]
  BY <1>1, <1>2
<1> HIDE DEF t
<1>8. Done(t) = Done(s) + 1
  BY <1>1, <1>5, <1>6 DEF Done, Last
<1>9. t # <<>>
  BY <1>1, <1>6
<1>. QED
  BY <1>1, <1>4, <1>6, <1>7, <1>8, <1>9 DEF t

\* A completion adds a step without results.
LEMMA AppendStepFacts ==
  ASSUME NEW s \in Seq(Step), NEW calls \in Seq(Tools)
  PROVE  LET t == Append(s, [calls |-> calls, results |-> <<>>])
         IN  /\ t \in Seq(Step)
             /\ Len(t) = Len(s) + 1
             /\ t # <<>>
             /\ \A i \in 1..Len(s) : t[i] = s[i]
             /\ t[Len(t)].results = <<>>
             /\ Done(t) = 0
<1> DEFINE u == [calls |-> calls, results |-> <<>>]
<1>1. u \in Step /\ u.results = <<>>
  BY DEF Step
<1> HIDE DEF u
<1> DEFINE t == Append(s, u)
<1>2. /\ t \in Seq(Step) /\ Len(t) = Len(s) + 1 /\ t # <<>>
      /\ \A i \in 1..Len(s) : t[i] = s[i]
      /\ t[Len(t)] = u
  BY <1>1
<1> HIDE DEF t
<1>3. Done(t) = 0
  BY <1>1, <1>2 DEF Done, Last
<1>. QED
  BY <1>1, <1>2, <1>3 DEF t, u

-----------------------------------------------------------------------------
(* The inductive invariant: what the volatile state of a call in progress   *)
(* owes to the checkpoint.                                                  *)

\* Around a tool call the run state is the checkpoint, which has a call to settle.
Working == {"dispatch", "approved", "called", "rejecting", "skipping"}
InSync ==
  pc \in Working =>
    /\ state.turn = store.run
    /\ state.steps = store.steps
    /\ ~Finished(state.steps)

\* Between steps it is the checkpoint too, or a run that wrote none yet.
Thinking ==
  pc = "think" =>
    /\ Finished(state.steps)
    /\ \/ state.turn = store.run /\ state.steps = store.steps
       \/ state.turn > store.run /\ state.steps = <<>>

\* With an answer in hand it is one step, without results, ahead.
HasAnswer ==
  pc = "answered" =>
    /\ state.steps # <<>>
    /\ Done(state.steps) = 0
    /\ \/ /\ state.turn = store.run
          /\ Finished(store.steps)
          /\ Len(state.steps) = Len(store.steps) + 1
          /\ \A i \in 1..Len(store.steps) : state.steps[i] = store.steps[i]
       \/ /\ state.turn > store.run
          /\ Len(state.steps) = 1

RunsCounted == store.run <= runs /\ state.turn <= runs

\* A call about to be dispatched is licensed: it is safe to repeat, was never
\* tried, or was vouched for or approved once more than it ran.
Licensed ==
  pc \in Working => \A c \in Call : c = NextCall(state.turn, state.steps) =>
    /\ pc = "dispatch" /\ NextTool(state.steps) \notin Idempotent \cup Gated
         => effects[c] <= retries[c]
    /\ pc = "approved" => effects[c] + 1 <= approvals[c]
    /\ pc = "called" /\ NextTool(state.steps) \in state.tools => effects[c] > 0

ApprovedIsGated == pc = "approved" => NextTool(state.steps) \in Gated

Local == InSync /\ Thinking /\ HasAnswer /\ RunsCounted /\ Licensed /\ ApprovedIsGated
World == PendingIsNext /\ NoAutoReplay /\ GateHolds /\ OneAmbiguousCall /\ ResultsAreReal
IInv  == TypeOK /\ Local /\ World

-----------------------------------------------------------------------------
\* Counting a call.
LEMMA Counted ==
  ASSUME NEW f \in [Call -> Nat], NEW k
  PROVE  /\ [f EXCEPT ![k] = @ + 1] \in [Call -> Nat]
         /\ \A c \in Call : [f EXCEPT ![k] = @ + 1][c] = IF c = k THEN f[c] + 1 ELSE f[c]
<1> DEFINE S == Call
<1>1. f \in [S -> Nat]
  OBVIOUS
<1> HIDE DEF S
<1>2. /\ [f EXCEPT ![k] = @ + 1] \in [S -> Nat]
      /\ \A c \in S : [f EXCEPT ![k] = @ + 1][c] = IF c = k THEN f[c] + 1 ELSE f[c]
  <2>1. CASE k \in S
    BY <1>1, <2>1
  <2>2. CASE k \notin S
    <3>1. [f EXCEPT ![k] = @ + 1] = f
      BY <1>1, <2>2
    <3>. QED
      BY <1>1, <2>2, <3>1
  <2>. QED
    BY <2>1, <2>2
<1>. QED
  BY <1>2 DEF S

-----------------------------------------------------------------------------
(* Type correctness of a step.                                             *)

\* Every action leaves every variable in its type.
LEMMA TypeStep == IInv /\ [Next]_vars => TypeOK'
<1> SUFFICES ASSUME IInv, [Next]_vars
             PROVE  TypeOK'
  OBVIOUS
<1>0. TypeOK /\ InSync
  BY DEF IInv, Local
<1> USE BoundsAssumption, ToolsAssumption
<1>a. /\ store \in Checkpoint /\ store.steps \in Seq(Step) /\ store.prior \in Seq(Error)
      /\ store.error \in Error /\ store.run \in 0..MaxRuns /\ store.limit \in Nat
  BY <1>0 DEF TypeOK, Checkpoint
<1>b. /\ state \in RunState /\ state.steps \in Seq(Step) /\ state.prior \in Seq(Error)
      /\ state.turn \in 0..MaxRuns /\ state.limit \in Nat /\ state.tools \in SUBSET Tools
  BY <1>0 DEF TypeOK, RunState
<1>c. NoRun \in RunState /\ NoError \in Error
  BY DEF NoRun, RunState, NoError, Error
<1>d. ASSUME NEW k \in {"raised", "max_steps", "unresolved"}, Throw(k)
      PROVE  raised' \in Nat /\ exc' \in Error /\ pc' = "failing"
  BY <1>0, <1>d DEF Throw, TypeOK, Error
<1>e. ASSUME NEW st \in Status, NEW ss \in Seq(Step), NEW p \in Nat, Put(st, ss, p)
      PROVE  store' \in Checkpoint
  BY <1>b, <1>c, <1>e DEF Put, Checkpoint
<1>f. ASSUME Invoke PROVE effects' \in [Call -> Nat]
  <2>1. \/ effects' = [effects EXCEPT ![NextCall(state.turn, state.steps)] = @ + 1]
        \/ effects' = effects
    BY <1>f DEF Invoke
  <2>. QED
    BY <1>0, <2>1, Counted DEF TypeOK
<1>g. ASSUME NEW lim \in Limits \cup {store.limit}, NEW tools \in Registries,
             Load(lim, tools)
      PROVE  state' \in RunState /\ resumes' \in Nat
  <2>1. (IF store.status = "failed" /\ store.error # NoError
         THEN Append(store.prior, store.error) ELSE store.prior) \in Seq(Error)
    BY <1>a
  <2>2. lim \in Nat /\ tools \in SUBSET Tools
    BY <1>a
  <2>3. resumes' \in Nat
    BY <1>0, <1>g DEF Load, TypeOK
  <2>. QED
    BY <1>a, <1>g, <2>1, <2>2, <2>3 DEF Load, RunState
<1>h. ASSUME NEW ss \in Seq(Step)
      PROVE  [state EXCEPT !.steps = ss] \in RunState
  BY <1>b DEF RunState
<1>i. Leave => pc' = "idle" /\ state' \in RunState /\ exc' \in Error
  BY <1>c DEF Leave
<1>1. CASE Run
  <2>1. state' \in RunState
    BY <1>0, <1>1 DEF Run, RunState, TypeOK
  <2>. QED
    BY <1>0, <1>1, <2>1 DEF Run, TypeOK, history, Fallible
<1>2. CASE Complete
  <2>1. PICK calls \in SeqOf(Tools, MaxCalls) :
          state' = [state EXCEPT !.steps = Append(@, [calls |-> calls, results |-> <<>>])]
    BY <1>2 DEF Complete
  <2>2. calls \in Seq(Tools)
    BY DEF SeqOf
  <2>3. state' \in RunState
    BY <1>b, <1>h, <2>1, <2>2, AppendStepFacts
  <2>. QED
    BY <1>0, <1>2, <2>3 DEF Complete, TypeOK, history, Fallible
<1>3. CASE ExceedMaxSteps
  BY <1>0, <1>3, <1>d DEF ExceedMaxSteps, TypeOK, history, Fallible
<1>4. CASE Answer
  BY <1>0, <1>4, <1>b, <1>e, <1>i DEF Answer, TypeOK, history, Fallible, Status
<1>5. CASE CheckpointCompletion
  BY <1>0, <1>5, <1>b, <1>e DEF CheckpointCompletion, TypeOK, history, Fallible, Status
<1>6. CASE Interrupt
  <2>1. Done(state.steps) + 1 \in Nat
    BY <1>0, <1>6, <1>b, UnfinishedFacts DEF Interrupt, InSync, Working
  <2>. QED
    BY <1>0, <1>6, <1>b, <1>e, <1>i, <2>1 DEF Interrupt, TypeOK, history, Fallible, Status
<1>7. CASE DispatchCall
  BY <1>0, <1>7, <1>f DEF DispatchCall, TypeOK, Fallible
<1>8. CASE DispatchApproved
  BY <1>0, <1>8, <1>f DEF DispatchApproved, TypeOK, Fallible
<1>9. ASSUME NEW o \in Outcome, pc \in {"called", "rejecting", "skipping"}, Record(o)
      PROVE  TypeOK'
  <2>1. WithResult(state.steps, o) \in Seq(Step)
    BY <1>0, <1>9, <1>b, WithResultFacts DEF InSync, Working
  <2>2. state' \in RunState /\ store' \in Checkpoint
    BY <1>9, <1>e, <1>h, <2>1 DEF Record, Status
  <2>3. pc' \in {"think", "dispatch"}
    BY <1>9 DEF Record, NextPc
  <2>. QED
    BY <1>0, <1>9, <2>2, <2>3 DEF Record, TypeOK, history, Fallible
<1>10. CASE RecordResult
  BY <1>9, <1>10 DEF RecordResult, Outcome
<1>11. CASE RejectCall
  BY <1>9, <1>11 DEF RejectCall, Outcome
<1>12. CASE SkipCall
  BY <1>9, <1>12 DEF SkipCall, Outcome
<1>13. CASE CheckpointFailure
  <2>1. store' \in Checkpoint
    BY <1>0, <1>13, <1>a, <1>b DEF CheckpointFailure, Checkpoint, Status, TypeOK
  <2>. QED
    BY <1>0, <1>13, <1>i, <2>1 DEF CheckpointFailure, TypeOK, history, Fallible
<1>14. CASE ResumeInterrupted
  <2>1. approvals' \in [Call -> Nat]
    <3> DEFINE k == <<store.run, Len(store.steps), store.pending>>
    <3>1. approvals' = [approvals EXCEPT ![k] = @ + 1] \/ approvals' = approvals
      BY <1>14 DEF ResumeInterrupted
    <3> HIDE DEF k
    <3>. QED
      BY <1>0, <3>1, Counted DEF TypeOK
  <2>. QED
    BY <1>0, <1>14, <1>g, <2>1 DEF ResumeInterrupted, TypeOK, Fallible
<1>15. CASE ResumeSettled
  BY <1>0, <1>15, <1>g DEF ResumeSettled, TypeOK, history, Fallible
<1>16. CASE ResumeInFlight
  <2>1. retries' \in [Call -> Nat]
    <3>1. \/ retries' = [retries EXCEPT ![NextCall(store.run, store.steps)] = @ + 1]
          \/ retries' = retries
      BY <1>16 DEF ResumeInFlight
    <3>. QED
      BY <1>0, <3>1, Counted DEF TypeOK
  <2>2. raised' \in Nat /\ exc' \in Error /\ pc' \in {"dispatch", "skipping", "failing"}
    BY <1>0, <1>16, <1>d DEF ResumeInFlight, TypeOK
  <2>3. state' \in RunState /\ resumes' \in Nat
    BY <1>16, <1>g DEF ResumeInFlight
  <2>. QED
    BY <1>0, <1>16, <2>1, <2>2, <2>3 DEF ResumeInFlight, TypeOK, Fallible
<1>17. CASE ResumeRefused
  BY <1>0, <1>17 DEF ResumeRefused, TypeOK, vars
<1>18. CASE Raise
  BY <1>0, <1>18, <1>d DEF Raise, TypeOK, history
<1>19. CASE Crash
  BY <1>0, <1>19, <1>i DEF Crash, TypeOK, history
<1>20. CASE UNCHANGED vars
  BY <1>0, <1>20 DEF TypeOK, vars
<1>. QED
  BY <1>1, <1>2, <1>3, <1>4, <1>5, <1>6, <1>7, <1>8, <1>10, <1>11, <1>12, <1>13,
     <1>14, <1>15, <1>16, <1>17, <1>18, <1>19, <1>20 DEF Next, Advance, Resume

-----------------------------------------------------------------------------
(* The checkpoint and the world, action by action.                         *)

\* World looks at the steps of the checkpoint and at the history only.
LEMMA WorldFrame ==
  ASSUME World, store'.run = store.run, store'.steps = store.steps,
         UNCHANGED history, PendingIsNext'
  PROVE  World'
<1> USE DEF history
<1>1. Asked' = Asked /\ Settled' = Settled
  BY DEF Asked, Settled
<1>2. \A c : ToolOf(c)' = ToolOf(c) /\ ResultOf(c)' = ResultOf(c)
  BY DEF ToolOf, ResultOf
<1>3. NextCall(store.run, store.steps)' = NextCall(store.run, store.steps)
  BY DEF NextCall, Done
<1>4. NoAutoReplay' /\ GateHolds'
  BY <1>1, <1>2 DEF World, NoAutoReplay, GateHolds
<1>5. OneAmbiguousCall'
  BY <1>1, <1>3 DEF World, OneAmbiguousCall
<1>6. ResultsAreReal'
  BY <1>1, <1>2 DEF World, ResultsAreReal
<1>. QED
  BY <1>4, <1>5, <1>6 DEF World

\* Off the call's path only the counting of runs matters.
LEMMA LocalIdle ==
  ASSUME pc' \in {"idle", "failing"}, RunsCounted'
  PROVE  Local'
  BY DEF Local, InSync, Thinking, HasAnswer, Licensed, ApprovedIsGated, Working

\* The next call of the checkpoint, where there is one, is one it asked for.
LEMMA NextIsAsked ==
  ASSUME TypeOK, ~Finished(store.steps),
         NextCall(store.run, store.steps) \in Call
  PROVE  /\ NextCall(store.run, store.steps) \in Asked
         /\ NextCall(store.run, store.steps) \notin Settled
         /\ ToolOf(NextCall(store.run, store.steps)) = NextTool(store.steps)
<1> DEFINE s == store.steps
<1>1. s \in Seq(Step)
  BY DEF TypeOK, Checkpoint
<1>2. /\ Len(s) \in DOMAIN s
      /\ Done(s) \in Nat
      /\ Done(s) + 1 \in 1..Len(Last(s).calls)
      /\ Last(s) \in Step
  BY <1>1, UnfinishedFacts
<1>3. /\ s[Len(s)].calls \in Seq(Tools) /\ s[Len(s)].results \in Seq(Outcome)
      /\ Done(s) = Len(s[Len(s)].results)
  BY <1>2 DEF Last, Step, Done
<1>4. /\ Done(s) + 1 \in DOMAIN s[Len(s)].calls
      /\ Done(s) + 1 \notin DOMAIN s[Len(s)].results
  BY <1>2, <1>3 DEF Last
<1> DEFINE c == NextCall(store.run, s)
<1>5. c[1] = store.run /\ c[2] = Len(s) /\ c[3] = Done(s) + 1
  BY DEF NextCall
<1>6. ToolOf(c) = NextTool(s)
  BY <1>5 DEF ToolOf, NextTool, Last
<1>. QED
  BY <1>2, <1>4, <1>5, <1>6 DEF Asked, Settled

\* A dispatch may happen where the local state licenses it.
LEMMA InvokeStep ==
  ASSUME IInv, TypeOK', pc \in {"dispatch", "approved"}, Invoke, pc' = "called",
         pc = "dispatch" => NextTool(state.steps) \notin Gated,
         UNCHANGED <<store, state, approvals, retries, runs>>
  PROVE  IInv'
<1> DEFINE n == NextCall(store.run, store.steps)
           t == NextTool(store.steps)
<1>1. /\ TypeOK /\ ~Finished(store.steps)
      /\ state.turn = store.run /\ state.steps = store.steps
  BY DEF IInv, Local, InSync, Working
<1>2. \A c \in Call : effects'[c] = IF c = n /\ t \in state.tools
                                    THEN effects[c] + 1 ELSE effects[c]
  <2>1. effects' = IF t \in state.tools
                   THEN [effects EXCEPT ![n] = @ + 1] ELSE effects
    BY <1>1 DEF Invoke
  <2> HIDE DEF n, t
  <2>. QED
    BY <1>1, <2>1, Counted DEF TypeOK
<1>3. Asked' = Asked /\ Settled' = Settled
  BY DEF Asked, Settled
<1>4. \A c : ToolOf(c)' = ToolOf(c) /\ ResultOf(c)' = ResultOf(c)
  BY DEF ToolOf, ResultOf
<1>5. n \in Call => n \in Asked /\ n \notin Settled /\ ToolOf(n) = t
  BY <1>1, NextIsAsked
<1>6. \A c \in Call : c = n =>
        /\ pc = "dispatch" /\ t \notin Idempotent \cup Gated
             => effects[c] <= retries[c]
        /\ pc = "approved" => effects[c] + 1 <= approvals[c]
  BY <1>1 DEF IInv, Local, Licensed, Working
<1>7. pc = "approved" => t \in Gated
  BY <1>1 DEF IInv, Local, ApprovedIsGated
<1>7a. pc = "dispatch" => t \notin Gated
  BY <1>1
<1>8. effects \in [Call -> Nat] /\ approvals \in [Call -> Nat] /\ retries \in [Call -> Nat]
  BY <1>1 DEF TypeOK
<1>9. Asked \subseteq Call /\ Settled \subseteq Asked
  BY DEF Asked, Settled
<1> HIDE DEF n, t
<1>10. NoAutoReplay'
  <2> SUFFICES ASSUME NEW c \in Asked, ToolOf(c) \notin Idempotent \cup Gated
               PROVE  effects'[c] <= 1 + retries[c]
    BY <1>3, <1>4 DEF NoAutoReplay
  <2>1. CASE c = n
    BY <1>2, <1>5, <1>6, <1>7, <1>8, <1>9, <2>1
  <2>2. CASE c # n
    BY <1>2, <1>9, <2>2 DEF IInv, World, NoAutoReplay
  <2>. QED
    BY <2>1, <2>2
<1>11. GateHolds'
  <2> SUFFICES ASSUME NEW c \in Asked, ToolOf(c) \in Gated
               PROVE  effects'[c] <= approvals[c]
    BY <1>3, <1>4 DEF GateHolds
  <2>1. effects[c] <= approvals[c]
    BY DEF IInv, World, GateHolds
  <2>2. CASE c = n
    BY <1>2, <1>5, <1>6, <1>7a, <1>8, <1>9, <2>1, <2>2
  <2>3. CASE c # n
    BY <1>2, <1>9, <2>1, <2>3
  <2>. QED
    BY <2>2, <2>3
<1>12. OneAmbiguousCall'
  <2>1. NextCall(store.run, store.steps)' = n
    BY DEF NextCall, Done, n
  <2> SUFFICES ASSUME NEW c \in Call, c[1] >= store.run, c \notin Settled, effects'[c] > 0
               PROVE  c \in Asked /\ c = n
    BY <1>3, <2>1 DEF OneAmbiguousCall
  <2>2. CASE c = n
    BY <1>5, <2>2
  <2>3. CASE c # n
    BY <1>2, <2>3 DEF IInv, World, OneAmbiguousCall, n
  <2>. QED
    BY <2>2, <2>3
<1>13. ResultsAreReal'
  <2> SUFFICES ASSUME NEW c \in Settled, ResultOf(c) = "ran"
               PROVE  effects'[c] > 0
    BY <1>3, <1>4 DEF ResultsAreReal
  <2>1. effects[c] > 0
    BY DEF IInv, World, ResultsAreReal
  <2>. QED
    BY <1>2, <1>8, <1>9, <2>1
<1>14. PendingIsNext'
  BY DEF IInv, World, PendingIsNext, Finished, Done, NextTool
<1>15. Licensed'
  <2>1. NextCall(state.turn, state.steps)' = n /\ NextTool(state.steps)' = t
    BY <1>1 DEF NextCall, NextTool, Done, n, t
  <2>2. ASSUME NEW c \in Call, c = n, t \in state.tools
        PROVE  effects'[c] > 0
    BY <1>2, <1>8, <2>2
  <2>. QED
    BY <2>1, <2>2 DEF Licensed
<1>16. InSync' /\ Thinking' /\ HasAnswer' /\ RunsCounted' /\ ApprovedIsGated'
  BY <1>1 DEF InSync, Thinking, HasAnswer, RunsCounted, ApprovedIsGated, Finished, Done,
     IInv, Local
<1>. QED
  BY <1>10, <1>11, <1>12, <1>13, <1>14, <1>15, <1>16 DEF IInv, Local, World

\* Recording a result settles the next call and no other.
LEMMA RecordLedger ==
  ASSUME TypeOK, InSync, NEW o \in Outcome, Record(o),
         pc \in {"called", "rejecting", "skipping"}
  PROVE  LET n == NextCall(store.run, store.steps)
         IN  /\ Asked' = Asked
             /\ \A c \in Asked : ToolOf(c)' = ToolOf(c)
             /\ \A c \in Asked : c # n =>
                  /\ c \in Settled' <=> c \in Settled
                  /\ c \in Settled => ResultOf(c)' = ResultOf(c)
             /\ \A c \in Call : c = n => c \in Asked /\ c \in Settled' /\ ResultOf(c)' = o
<1> DEFINE n == NextCall(store.run, store.steps)
           s == store.steps
           t == WithResult(s, o)
<1>1. /\ TypeOK /\ ~Finished(s) /\ s \in Seq(Step)
      /\ state.turn = store.run /\ state.steps = s
  BY DEF InSync, Working, TypeOK, Checkpoint
<1>2. /\ store'.run = store.run /\ store'.steps = t /\ store'.status = "running"
      /\ UNCHANGED <<history, runs>>
      /\ state'.steps = t /\ state'.turn = store.run
      /\ pc' = IF Finished(t) THEN "think" ELSE "dispatch"
  BY <1>1 DEF Record, Put, NextPc, TypeOK, RunState
<1>3. /\ t \in Seq(Step) /\ t # <<>> /\ Len(t) = Len(s)
      /\ \A i \in 1..Len(s) : t[i].calls = s[i].calls
      /\ \A i \in 1..(Len(s)-1) : t[i].results = s[i].results
      /\ t[Len(s)].results = Append(s[Len(s)].results, o)
      /\ Done(t) = Done(s) + 1
  BY <1>1, WithResultFacts
<1>4. /\ Len(s) \in Nat \ {0} /\ DOMAIN s = 1..Len(s) /\ DOMAIN t = 1..Len(s)
      /\ Done(s) \in Nat
      /\ Done(s) = Len(s[Len(s)].results)
      /\ s[Len(s)].results \in Seq(Outcome)
  BY <1>1, <1>3, UnfinishedFacts DEF Done, Last, Step
<1> HIDE DEF t
<1>5. Asked' = Asked
  BY <1>2, <1>3, <1>4 DEF Asked
<1>6. \A c \in Asked : ToolOf(c)' = ToolOf(c)
  BY <1>2, <1>3, <1>4 DEF Asked, ToolOf
<1>7. n[1] = store.run /\ n[2] = Len(s) /\ n[3] = Done(s) + 1
  BY DEF NextCall
<1>8. /\ Len(Append(s[Len(s)].results, o)) = Done(s) + 1
      /\ \A j \in 1..Done(s) : Append(s[Len(s)].results, o)[j] = s[Len(s)].results[j]
      /\ Append(s[Len(s)].results, o)[Done(s) + 1] = o
      /\ DOMAIN Append(s[Len(s)].results, o) = 1..(Done(s) + 1)
      /\ DOMAIN s[Len(s)].results = 1..Done(s)
  <2>1. \A q \in Seq(Outcome) :
          /\ Len(Append(q, o)) = Len(q) + 1
          /\ \A j \in 1..Len(q) : Append(q, o)[j] = q[j]
          /\ Append(q, o)[Len(q) + 1] = o
          /\ DOMAIN Append(q, o) = 1..(Len(q) + 1)
          /\ DOMAIN q = 1..Len(q)
    OBVIOUS
  <2>. QED
    BY <1>4, <2>1
<1>9. ASSUME NEW c \in Asked, c # n
      PROVE  /\ c \in Settled' <=> c \in Settled
             /\ c \in Settled => ResultOf(c)' = ResultOf(c)
  <2>1. /\ c \in Call /\ c[1] = store.run /\ c[2] \in 1..Len(s)
        /\ c = <<c[1], c[2], c[3]>> /\ c[3] \in Nat
    BY <1>4 DEF Asked, Call
  <2>2. CASE c[2] # Len(s)
    <3>1. t[c[2]].results = s[c[2]].results
      BY <1>3, <1>4, <2>1, <2>2
    <3>. QED
      BY <1>2, <1>5, <2>1, <3>1 DEF Settled, ResultOf
  <2>3. CASE c[2] = Len(s)
    <3>1. c[3] # Done(s) + 1
      BY <1>9, <2>1, <2>3 DEF NextCall
    <3>2. store'.steps[c[2]].results = Append(s[Len(s)].results, o)
      BY <1>2, <1>3, <2>3
    <3>3. c[3] \in DOMAIN store'.steps[c[2]].results <=> c[3] \in DOMAIN s[c[2]].results
      BY <1>4, <1>8, <2>1, <2>3, <3>1, <3>2
    <3>4. c[3] \in DOMAIN s[c[2]].results => ResultOf(c)' = ResultOf(c)
      BY <1>8, <2>3, <3>2 DEF ResultOf
    <3>. QED
      BY <1>5, <3>3, <3>4 DEF Settled
  <2>. QED
    BY <2>2, <2>3
<1>10. ASSUME NEW c \in Call, c = n
       PROVE  c \in Asked /\ c \in Settled' /\ ResultOf(c)' = o
  <2>1. c \in Asked
    BY <1>1, <1>10, NextIsAsked
  <2>2. store'.steps[c[2]].results = Append(s[Len(s)].results, o)
    BY <1>2, <1>3, <1>7, <1>10
  <2>3. c[3] = Done(s) + 1
    BY <1>7, <1>10
  <2>4. c[3] \in DOMAIN store'.steps[c[2]].results
    BY <1>4, <1>8, <2>2, <2>3
  <2>5. ResultOf(c)' = o
    BY <1>8, <2>2, <2>3 DEF ResultOf
  <2>. QED
    BY <1>5, <2>1, <2>4, <2>5 DEF Settled
<1>. QED
  BY <1>5, <1>6, <1>9, <1>10

\* Recording a result keeps the invariant.
LEMMA RecordStep ==
  ASSUME IInv, TypeOK', NEW o \in Outcome, Record(o),
         pc \in {"called", "rejecting", "skipping"},
         o = "ran" => pc = "called" /\ NextTool(state.steps) \in state.tools
  PROVE  IInv'
<1> DEFINE n == NextCall(store.run, store.steps)
           s == store.steps
           t == WithResult(s, o)
<1>1. /\ TypeOK /\ ~Finished(s) /\ s \in Seq(Step)
      /\ state.turn = store.run /\ state.steps = s
  BY DEF IInv, Local, InSync, Working, TypeOK, Checkpoint
<1>2. /\ store'.run = store.run /\ store'.steps = t /\ store'.status = "running"
      /\ UNCHANGED <<history, runs>>
      /\ state'.steps = t /\ state'.turn = store.run
      /\ pc' = IF Finished(t) THEN "think" ELSE "dispatch"
  BY <1>1 DEF Record, Put, NextPc, TypeOK, RunState
<1>3. /\ t \in Seq(Step) /\ t # <<>> /\ Len(t) = Len(s)
      /\ \A i \in 1..Len(s) : t[i].calls = s[i].calls
      /\ \A i \in 1..(Len(s)-1) : t[i].results = s[i].results
      /\ t[Len(s)].results = Append(s[Len(s)].results, o)
      /\ Done(t) = Done(s) + 1
  BY <1>1, WithResultFacts
<1>4. /\ Len(s) \in Nat \ {0} /\ DOMAIN s = 1..Len(s) /\ DOMAIN t = 1..Len(s)
      /\ Done(s) \in Nat
      /\ Done(s) = Len(s[Len(s)].results)
      /\ s[Len(s)].results \in Seq(Outcome)
  BY <1>1, <1>3, UnfinishedFacts DEF Done, Last, Step
<1> HIDE DEF t
<1>5. /\ Asked' = Asked
      /\ \A c \in Asked : ToolOf(c)' = ToolOf(c)
      /\ \A c \in Asked : c # n =>
           /\ c \in Settled' <=> c \in Settled
           /\ c \in Settled => ResultOf(c)' = ResultOf(c)
      /\ \A c \in Call : c = n => c \in Asked /\ c \in Settled' /\ ResultOf(c)' = o
  BY RecordLedger DEF IInv, Local
<1>7. n[1] = store.run /\ n[2] = Len(s) /\ n[3] = Done(s) + 1
  BY DEF NextCall
<1>8. /\ Len(Append(s[Len(s)].results, o)) = Done(s) + 1
      /\ \A j \in 1..Done(s) : Append(s[Len(s)].results, o)[j] = s[Len(s)].results[j]
      /\ Append(s[Len(s)].results, o)[Done(s) + 1] = o
      /\ DOMAIN Append(s[Len(s)].results, o) = 1..(Done(s) + 1)
      /\ DOMAIN s[Len(s)].results = 1..Done(s)
  BY <1>4
<1>11. UNCHANGED <<effects, approvals, retries>>
  BY <1>2 DEF history
<1>12. Asked \subseteq Call /\ Settled \subseteq Asked /\ Settled' \subseteq Asked'
  BY DEF Asked, Settled
<1>13. NoAutoReplay' /\ GateHolds'
  BY <1>5, <1>11 DEF NoAutoReplay, GateHolds, IInv, World
<1>14. \A c \in Call : c[1] >= store.run /\ c \notin Settled /\ c # n /\ effects[c] \in Nat
                         => effects[c] = 0
  BY DEF IInv, World, OneAmbiguousCall
<1>15. effects \in [Call -> Nat] /\ retries \in [Call -> Nat]
  BY <1>1 DEF TypeOK
<1>16. OneAmbiguousCall'
  <2> SUFFICES ASSUME NEW c \in Call, c[1] >= store.run, c \notin Settled', effects[c] > 0
               PROVE  FALSE
    BY <1>2, <1>11 DEF OneAmbiguousCall
  <2>1. c # n
    BY <1>5
  <2>2. c \notin Settled
    BY <1>5, <1>12, <2>1
  <2>. QED
    BY <1>14, <1>15, <2>1, <2>2
<1>17. ResultsAreReal'
  <2> SUFFICES ASSUME NEW c \in Settled', ResultOf(c)' = "ran"
               PROVE  effects[c] > 0
    BY <1>11 DEF ResultsAreReal
  <2>1. CASE c = n
    <3>1. o = "ran"
      BY <1>5, <1>12, <2>1
    <3>2. pc = "called" /\ NextTool(state.steps) \in state.tools
      BY <3>1
    <3>. QED
      BY <1>1, <1>5, <1>12, <2>1, <3>2 DEF IInv, Local, Licensed, Working
  <2>2. CASE c # n
    BY <1>5, <1>12, <2>2 DEF IInv, World, ResultsAreReal
  <2>. QED
    BY <2>1, <2>2
<1>18. PendingIsNext'
  BY <1>2 DEF PendingIsNext
<1>19. Licensed'
  <2>1. NextCall(state.turn, state.steps)' = <<store.run, Len(s), Done(s) + 2>>
    BY <1>2, <1>3, <1>4 DEF NextCall, Done
  <2> SUFFICES ASSUME NEW c \in Call, c = <<store.run, Len(s), Done(s) + 2>>
               PROVE  effects[c] <= retries[c]
    BY <1>2, <1>11, <2>1 DEF Licensed
  <2>2. c # n
    BY <1>4 DEF NextCall
  <2>3. c \notin Settled
    <3>1. c[1] = store.run /\ c[2] = Len(s) /\ c[3] = Done(s) + 2
      OBVIOUS
    <3>. QED
      BY <1>4, <1>8, <3>1 DEF Settled
  <2>4. c[1] >= store.run
    BY <1>1 DEF TypeOK, Checkpoint
  <2>5. effects[c] \in Nat /\ retries[c] \in Nat
    BY <1>15
  <2>6. effects[c] = 0
    BY <1>14, <2>2, <2>3, <2>4, <2>5
  <2>. QED
    BY <2>5, <2>6
<1>20. InSync' /\ Thinking' /\ HasAnswer' /\ RunsCounted' /\ ApprovedIsGated'
  <2>1. pc' \in {"think", "dispatch"}
    BY <1>2
  <2>2. InSync' /\ Thinking'
    BY <1>2 DEF InSync, Thinking, Working
  <2>3. HasAnswer' /\ ApprovedIsGated'
    BY <2>1 DEF HasAnswer, ApprovedIsGated
  <2>4. RunsCounted'
    BY <1>1, <1>2 DEF RunsCounted, IInv, Local
  <2>. QED
    BY <2>2, <2>3, <2>4
<1>. QED
  BY <1>13, <1>16, <1>17, <1>18, <1>19, <1>20 DEF IInv, Local, World

\* A call is a triple of positive numbers.
LEMMA CallParts ==
  ASSUME NEW c \in Call
  PROVE  c[1] \in Nat \ {0} /\ c[2] \in Nat \ {0} /\ c[3] \in Nat \ {0}
BY BoundsAssumption DEF Call

\* Making a completion durable: no call of the run that the old record has not
\* settled has run, and the new record settles what the old one did of its calls.
LEMMA AnswerLedger ==
  ASSUME IInv, pc = "answered", NEW st \in {"running", "completed"},
         Put(st, state.steps, 0)
  PROVE  /\ \A c \in Call : c[1] >= state.turn /\ c \notin Settled => effects[c] = 0
         /\ \A c \in Settled' : /\ c \in Settled
                               /\ ToolOf(c)' = ToolOf(c) /\ ResultOf(c)' = ResultOf(c)
         /\ \A c \in Asked' : c \in Settled =>
                               /\ c \in Asked /\ c \in Settled'
                               /\ ToolOf(c)' = ToolOf(c)
<1> DEFINE s == state.steps
<1>1. /\ store'.run = state.turn /\ store'.steps = s
      /\ store'.status \in {"running", "completed"}
  BY DEF Put
<1>2. /\ TypeOK /\ s \in Seq(Step) /\ store.steps \in Seq(Step)
      /\ state.turn \in Nat /\ store.run \in Nat
      /\ effects \in [Call -> Nat] /\ approvals \in [Call -> Nat]
      /\ retries \in [Call -> Nat]
  <2>1. /\ TypeOK /\ store \in Checkpoint /\ state \in RunState
        /\ effects \in [Call -> Nat] /\ approvals \in [Call -> Nat]
        /\ retries \in [Call -> Nat]
    BY DEF IInv, TypeOK
  <2>2. s \in Seq(Step) /\ state.turn \in Nat
    BY <2>1, BoundsAssumption DEF RunState
  <2>3. store.steps \in Seq(Step) /\ store.run \in Nat
    BY <2>1, BoundsAssumption DEF Checkpoint
  <2>. QED
    BY <2>1, <2>2, <2>3
<1>3. /\ s # <<>> /\ Done(s) = 0
      /\ \/ /\ state.turn = store.run
            /\ Finished(store.steps)
            /\ Len(s) = Len(store.steps) + 1
            /\ \A i \in 1..Len(store.steps) : s[i] = store.steps[i]
         \/ /\ state.turn > store.run
            /\ Len(s) = 1
  BY DEF IInv, Local, HasAnswer
<1>4. /\ Len(s) \in Nat /\ Len(store.steps) \in Nat
      /\ DOMAIN s = 1..Len(s) /\ DOMAIN store.steps = 1..Len(store.steps)
      /\ Len(s) >= 1
      /\ DOMAIN s[Len(s)].results = {}
  BY <1>2, <1>3 DEF Done, Last, Step
<1> HIDE DEF s
<1>3a. state.turn >= store.run
  BY <1>2, <1>3
<1>3b. ASSUME state.turn = store.run
       PROVE  /\ Finished(store.steps)
              /\ Len(s) = Len(store.steps) + 1
              /\ \A i \in 1..Len(store.steps) : s[i] = store.steps[i]
  BY <1>2, <1>3, <1>3b
<1>3e. ASSUME state.turn = store.run, NEW k
       PROVE  /\ k \in 1..Len(s) /\ k # Len(s) => k \in 1..Len(store.steps)
              /\ k \in 1..Len(store.steps) => k \in 1..Len(s)
  <2>1. Len(s) = Len(store.steps) + 1
    BY <1>3b, <1>3e
  <2>. QED
    BY <1>4, <2>1
<1>3c. ASSUME state.turn # store.run
       PROVE  Len(s) = 1
  BY <1>3, <1>3c
<1>3d. ASSUME NEW c \in Asked
       PROVE  /\ c \in Call /\ c[1] = store.run /\ c[2] \in 1..Len(store.steps)
              /\ c[3] \in DOMAIN store.steps[c[2]].calls
  BY <1>4 DEF Asked
\* A call of this run that the checkpoint has not settled never ran.
<1>5. ASSUME NEW c \in Call, c[1] >= state.turn, c \notin Settled
      PROVE  effects[c] = 0
  <2>1. (c \in Asked /\ c = NextCall(store.run, store.steps)) \/ effects[c] = 0
    <3>1. c[1] >= store.run /\ effects[c] \in Nat
      BY <1>2, <1>3, <1>5, CallParts
    <3>. QED
      BY <1>5, <3>1 DEF IInv, World, OneAmbiguousCall
  <2>2. ASSUME c \in Asked, c = NextCall(store.run, store.steps)
        PROVE  FALSE
    <3>1. /\ c[1] = store.run /\ c[2] = Len(store.steps)
          /\ c[3] = Done(store.steps) + 1
      BY <2>2 DEF NextCall
    <3>2. Finished(store.steps) /\ c[2] \in 1..Len(store.steps)
      <4>1. c[2] \in 1..Len(store.steps)
        BY <1>3d, <2>2
      <4>2. state.turn = store.run
        BY <1>2, <1>3a, <1>5, <3>1
      <4>. QED
        BY <1>3b, <4>1, <4>2
    <3>3. Done(store.steps) >= Len(Last(store.steps).calls)
      BY <1>4, <3>2, <1>2 DEF Finished
    <3>4. /\ store.steps[Len(store.steps)] \in Step
          /\ Done(store.steps) \in Nat
          /\ DOMAIN store.steps[Len(store.steps)].calls
               = 1..Len(store.steps[Len(store.steps)].calls)
      <4>1. store.steps[Len(store.steps)] \in Step
        BY <1>2, <3>1, <3>2
      <4>. QED
        BY <4>1 DEF Done, Last, Step
    <3>5. c[3] \in DOMAIN store.steps[Len(store.steps)].calls
      BY <2>2, <3>1 DEF Asked
    <3>. QED
      BY <3>1, <3>3, <3>4, <3>5 DEF Last
  <2>. QED
    BY <2>1, <2>2
\* What the new record adds to the old one's calls is unsettled.
<1>6. ASSUME NEW c \in Settled'
      PROVE  /\ c \in Settled
             /\ ToolOf(c)' = ToolOf(c) /\ ResultOf(c)' = ResultOf(c)
  <2>1. /\ c \in Call /\ c[1] = state.turn /\ c[2] \in 1..Len(s)
        /\ c[3] \in DOMAIN s[c[2]].calls /\ c[3] \in DOMAIN s[c[2]].results
    BY <1>1, <1>4, <1>6 DEF Settled, Asked
  <2>2. c[2] # Len(s)
    BY <1>4, <2>1
  <2>3. state.turn = store.run
    BY <1>3c, <1>4, <2>1, <2>2
  <2>4. c[2] \in 1..Len(store.steps)
    BY <1>3e, <2>1, <2>2, <2>3
  <2>5. s[c[2]] = store.steps[c[2]]
    BY <1>3b, <2>3, <2>4
  <2>. QED
    BY <1>1, <1>4, <2>1, <2>3, <2>4, <2>5 DEF Settled, Asked, ToolOf, ResultOf
<1>7. ASSUME NEW c \in Asked', c \in Settled
      PROVE  c \in Asked /\ ToolOf(c)' = ToolOf(c) /\ c \in Settled'
  <2>1. /\ c[1] = state.turn /\ c[1] = store.run /\ c[2] \in 1..Len(store.steps)
        /\ c \in Asked
    BY <1>1, <1>4, <1>7 DEF Settled, Asked
  <2>2. s[c[2]] = store.steps[c[2]]
    BY <1>2, <1>3, <2>1
  <2>. QED
    BY <1>1, <1>7, <2>1, <2>2 DEF Settled, ToolOf
<1>. QED
  BY <1>5, <1>6, <1>7

\* Making a completion durable: its calls are on record and none has run.
LEMMA AnswerStep ==
  ASSUME IInv, TypeOK', pc = "answered", UNCHANGED history,
         NEW st \in {"running", "completed"}, Put(st, state.steps, 0)
  PROVE  /\ World'
         /\ \A c \in Call : c = NextCall(state.turn, state.steps) => effects[c] = 0
<1> DEFINE s == state.steps
<1>1. /\ store'.run = state.turn /\ store'.steps = s
      /\ store'.status \in {"running", "completed"}
      /\ UNCHANGED <<effects, approvals, retries>>
  BY DEF Put, history
<1>2. /\ TypeOK /\ s \in Seq(Step) /\ store.steps \in Seq(Step)
      /\ state.turn \in Nat /\ store.run \in Nat
      /\ effects \in [Call -> Nat] /\ approvals \in [Call -> Nat]
      /\ retries \in [Call -> Nat]
  <2>1. /\ TypeOK /\ store \in Checkpoint /\ state \in RunState
        /\ effects \in [Call -> Nat] /\ approvals \in [Call -> Nat]
        /\ retries \in [Call -> Nat]
    BY DEF IInv, TypeOK
  <2>2. s \in Seq(Step) /\ state.turn \in Nat
    BY <2>1, BoundsAssumption DEF RunState
  <2>3. store.steps \in Seq(Step) /\ store.run \in Nat
    BY <2>1, BoundsAssumption DEF Checkpoint
  <2>. QED
    BY <2>1, <2>2, <2>3
<1>3. /\ s # <<>> /\ Done(s) = 0
      /\ \/ /\ state.turn = store.run
            /\ Finished(store.steps)
            /\ Len(s) = Len(store.steps) + 1
            /\ \A i \in 1..Len(store.steps) : s[i] = store.steps[i]
         \/ /\ state.turn > store.run
            /\ Len(s) = 1
  BY DEF IInv, Local, HasAnswer
<1>4. /\ Len(s) \in Nat /\ Len(store.steps) \in Nat
      /\ DOMAIN s = 1..Len(s) /\ DOMAIN store.steps = 1..Len(store.steps)
      /\ Len(s) >= 1
      /\ DOMAIN s[Len(s)].results = {}
  BY <1>2, <1>3 DEF Done, Last, Step
<1> HIDE DEF s
<1>3a. state.turn >= store.run
  BY <1>2, <1>3
<1>3b. ASSUME state.turn = store.run
       PROVE  /\ Finished(store.steps)
              /\ Len(s) = Len(store.steps) + 1
              /\ \A i \in 1..Len(store.steps) : s[i] = store.steps[i]
  BY <1>2, <1>3, <1>3b
<1>3e. ASSUME state.turn = store.run, NEW k
       PROVE  /\ k \in 1..Len(s) /\ k # Len(s) => k \in 1..Len(store.steps)
              /\ k \in 1..Len(store.steps) => k \in 1..Len(s)
  <2>1. Len(s) = Len(store.steps) + 1
    BY <1>3b, <1>3e
  <2>. QED
    BY <1>4, <2>1
<1>3c. ASSUME state.turn # store.run
       PROVE  Len(s) = 1
  BY <1>3, <1>3c
<1>3d. ASSUME NEW c \in Asked
       PROVE  /\ c \in Call /\ c[1] = store.run /\ c[2] \in 1..Len(store.steps)
              /\ c[3] \in DOMAIN store.steps[c[2]].calls
  BY <1>4 DEF Asked
<1>5. /\ \A c \in Call : c[1] >= state.turn /\ c \notin Settled => effects[c] = 0
      /\ \A c \in Settled' : /\ c \in Settled
                            /\ ToolOf(c)' = ToolOf(c) /\ ResultOf(c)' = ResultOf(c)
      /\ \A c \in Asked' : c \in Settled =>
                            /\ c \in Asked /\ c \in Settled'
                            /\ ToolOf(c)' = ToolOf(c)
  BY AnswerLedger
<1>8. ASSUME NEW c \in Asked'
      PROVE  c \in Call /\ c[1] = state.turn
  BY <1>1, <1>8 DEF Asked
<1>9. NoAutoReplay'
  <2> SUFFICES ASSUME NEW c \in Asked', ToolOf(c)' \notin Idempotent \cup Gated
               PROVE  effects[c] <= 1 + retries[c]
    BY <1>1 DEF NoAutoReplay
  <2>1. CASE c \in Settled
    BY <1>5, <2>1 DEF IInv, World, NoAutoReplay
  <2>2. CASE c \notin Settled
    BY <1>2, <1>5, <1>8, <2>2
  <2>. QED
    BY <2>1, <2>2
<1>10. GateHolds'
  <2> SUFFICES ASSUME NEW c \in Asked', ToolOf(c)' \in Gated
               PROVE  effects[c] <= approvals[c]
    BY <1>1 DEF GateHolds
  <2>1. CASE c \in Settled
    BY <1>5, <2>1 DEF IInv, World, GateHolds
  <2>2. CASE c \notin Settled
    BY <1>2, <1>5, <1>8, <2>2
  <2>. QED
    BY <2>1, <2>2
<1>11. OneAmbiguousCall'
  <2> SUFFICES ASSUME NEW c \in Call, c[1] >= state.turn, c \notin Settled', effects[c] > 0
               PROVE  FALSE
    BY <1>1 DEF OneAmbiguousCall
  <2>1. c \in Settled
    BY <1>5
  <2>2. /\ c[1] = store.run /\ c[2] \in 1..Len(store.steps)
        /\ c[3] \in DOMAIN store.steps[c[2]].calls
        /\ c[3] \in DOMAIN store.steps[c[2]].results
    BY <1>4, <2>1 DEF Settled, Asked
  <2>3. state.turn = store.run
    BY <1>2, <1>3, <2>2
  <2>4. s[c[2]] = store.steps[c[2]] /\ c[2] \in 1..Len(s)
    BY <1>3b, <1>3e, <2>2, <2>3
  <2>5. c \in Settled'
    BY <1>1, <1>4, <2>2, <2>3, <2>4 DEF Settled, Asked
  <2>. QED
    BY <2>5
<1>12. ResultsAreReal'
  <2> SUFFICES ASSUME NEW c \in Settled', ResultOf(c)' = "ran"
               PROVE  effects[c] > 0
    BY <1>1 DEF ResultsAreReal
  <2>. QED
    BY <1>5 DEF IInv, World, ResultsAreReal
<1>13. PendingIsNext'
  BY <1>1 DEF PendingIsNext
<1>14. ASSUME NEW c \in Call, c = NextCall(state.turn, s)
       PROVE  effects[c] = 0
  <2>1. c[1] = state.turn /\ c[2] = Len(s)
    BY <1>14 DEF NextCall
  <2>2. c \notin Settled
    <3> SUFFICES ASSUME c \in Asked
                 PROVE  FALSE
      BY DEF Settled
    <3>1. c[1] = store.run /\ c[2] \in 1..Len(store.steps)
      BY <1>3d
    <3>2. Len(s) = Len(store.steps) + 1
      BY <1>3b, <2>1, <3>1
    <3>. QED
      BY <1>4, <2>1, <3>1, <3>2
  <2>. QED
    BY <1>2, <1>5, <2>1, <2>2
<1>. QED
  BY <1>9, <1>10, <1>11, <1>12, <1>13, <1>14 DEF World, s

-----------------------------------------------------------------------------
(* The invariant and what follows from it.                                 *)

LEMMA InitIInv == Init => IInv
<1> SUFFICES ASSUME Init
             PROVE  IInv
  OBVIOUS
<1> USE BoundsAssumption DEF Init
<1>1. NoError \in Error
  BY DEF NoError, Error
<1>2. TypeOK
  BY <1>1 DEF TypeOK, NoCheckpoint, Checkpoint, NoRun, RunState, NoCalls, Status, Fallible
<1>3. Local
  BY DEF Local, InSync, Thinking, HasAnswer, RunsCounted, Licensed, ApprovedIsGated,
         Working, NoRun, NoCheckpoint
<1>4. Asked = {} /\ Settled = {}
  BY DEF Asked, Settled, NoCheckpoint
<1>5. World
  BY <1>4 DEF World, PendingIsNext, NoAutoReplay, GateHolds, OneAmbiguousCall,
              ResultsAreReal, NoCheckpoint, NoCalls
<1>. QED
  BY <1>2, <1>3, <1>5 DEF IInv

LEMMA NextIInv == IInv /\ [Next]_vars => IInv'
<1> SUFFICES ASSUME IInv, [Next]_vars
             PROVE  IInv'
  OBVIOUS
<1>0. TypeOK /\ TypeOK' /\ Local /\ World
  BY TypeStep DEF IInv
<1>a. /\ InSync /\ Thinking /\ HasAnswer /\ RunsCounted
      /\ PendingIsNext /\ NoAutoReplay /\ GateHolds
  BY <1>0 DEF Local, World
<1>b. /\ store.steps \in Seq(Step) /\ store.run \in Nat /\ state.turn \in Nat
      /\ state.steps \in Seq(Step) /\ runs \in Nat
  BY <1>0, BoundsAssumption DEF TypeOK, Checkpoint, RunState
<1>c. ASSUME UNCHANGED <<store, effects, approvals, retries>>
      PROVE  World'
  BY <1>0, <1>c, WorldFrame DEF history, World, PendingIsNext, Finished, Done, NextTool
<1>d. ASSUME Leave, store'.run <= runs', runs' \in Nat
      PROVE  Local'
  BY <1>d, LocalIdle DEF Leave, RunsCounted, NoRun
<1>e. ASSUME NEW k \in {"raised", "max_steps", "unresolved"}, Throw(k), RunsCounted'
      PROVE  Local'
  BY <1>e, LocalIdle DEF Throw
<1>1. CASE Run
  <2>1. World'
    BY <1>1, <1>c DEF Run, history
  <2>2. /\ pc' = "think" /\ state'.steps = <<>> /\ state'.turn = runs + 1
        /\ store' = store /\ runs' = runs + 1
    BY <1>1 DEF Run
  <2>3. Local'
    BY <1>a, <1>b, <2>2 DEF Local, InSync, Thinking, HasAnswer, RunsCounted, Licensed,
       ApprovedIsGated, Working, Finished
  <2>. QED
    BY <1>0, <2>1, <2>3 DEF IInv
<1>2. CASE Complete
  <2>1. World'
    BY <1>2, <1>c DEF Complete, history
  <2>2. PICK calls \in SeqOf(Tools, MaxCalls) :
          state' = [state EXCEPT !.steps = Append(@, [calls |-> calls, results |-> <<>>])]
    BY <1>2 DEF Complete
  <2>3. calls \in Seq(Tools)
    BY DEF SeqOf
  <2>4. /\ state'.steps = Append(state.steps, [calls |-> calls, results |-> <<>>])
        /\ state'.turn = state.turn
    BY <1>0, <2>2 DEF TypeOK, RunState
  <2>5. /\ state'.steps # <<>> /\ Done(state'.steps) = 0
        /\ Len(state'.steps) = Len(state.steps) + 1
        /\ \A i \in 1..Len(state.steps) : state'.steps[i] = state.steps[i]
    BY <1>b, <2>3, <2>4, AppendStepFacts
  <2>6. /\ Finished(state.steps)
        /\ \/ state.turn = store.run /\ state.steps = store.steps
           \/ state.turn > store.run /\ state.steps = <<>>
    BY <1>2, <1>a DEF Complete, Thinking
  <2>7. pc' = "answered" /\ UNCHANGED <<store, runs>>
    BY <1>2 DEF Complete
  <2>8. HasAnswer'
    <3>1. CASE state.turn = store.run /\ state.steps = store.steps
      BY <2>4, <2>5, <2>6, <2>7, <3>1 DEF HasAnswer
    <3>2. CASE state.turn > store.run /\ state.steps = <<>>
      <4>1. Len(state'.steps) = 1
        BY <2>5, <3>2
      <4>. QED
        BY <2>4, <2>5, <2>7, <3>2, <4>1 DEF HasAnswer
    <3>. QED
      BY <2>6, <3>1, <3>2
  <2>9. Local'
    BY <1>a, <2>4, <2>7, <2>8 DEF Local, InSync, Thinking, RunsCounted, Licensed,
       ApprovedIsGated, Working
  <2>. QED
    BY <1>0, <2>1, <2>9 DEF IInv
<1>3. CASE ExceedMaxSteps
  <2>1. RunsCounted'
    BY <1>3, <1>a DEF ExceedMaxSteps, RunsCounted
  <2>. QED
    BY <1>0, <1>3, <1>c, <1>e, <2>1 DEF ExceedMaxSteps, history, IInv
<1>4. CASE Answer
  <2>1. UNCHANGED <<history, runs>> /\ Leave /\ Put("completed", state.steps, 0)
        /\ pc = "answered"
    BY <1>4 DEF Answer
  <2>2. store'.run <= runs'
    BY <1>a, <2>1 DEF Put, RunsCounted
  <2>. QED
    BY <1>0, <1>b, <1>d, <2>1, <2>2, AnswerStep DEF IInv
<1>5. CASE CheckpointCompletion
  <2>1. /\ UNCHANGED <<state, effects, approvals, retries, runs>> /\ pc = "answered"
        /\ Put("running", state.steps, 0) /\ pc' = "dispatch" /\ UNCHANGED history
        /\ Last(state.steps).calls # <<>>
    BY <1>5 DEF CheckpointCompletion, history
  <2>2. /\ World'
        /\ \A c \in Call : c = NextCall(state.turn, state.steps) => effects[c] = 0
    BY <2>1, <1>0, AnswerStep
  <2>3. store'.run = state.turn /\ store'.steps = state.steps
    BY <2>1 DEF Put
  <2>4. ~Finished(state.steps)
    <3>1. state.steps # <<>> /\ Done(state.steps) = 0
      BY <1>a, <2>1 DEF HasAnswer
    <3>2. Last(state.steps) \in Step
      BY <1>b, <3>1 DEF Last
    <3>3. Len(Last(state.steps).calls) > 0
      BY <2>1, <3>2 DEF Step
    <3>. QED
      BY <3>1, <3>3 DEF Finished
  <2>5. InSync'
    BY <2>1, <2>3, <2>4 DEF InSync, Finished, Done
  <2>6. Licensed'
    <3>1. NextCall(state.turn, state.steps)' = NextCall(state.turn, state.steps)
      BY <2>1 DEF NextCall, Done
    <3>2. \A c \in Call : retries[c] \in Nat
      BY <1>0 DEF TypeOK
    <3>. QED
      BY <2>1, <2>2, <3>1, <3>2 DEF Licensed
  <2>7. Thinking' /\ HasAnswer' /\ RunsCounted' /\ ApprovedIsGated'
    BY <1>a, <2>1, <2>3 DEF Thinking, HasAnswer, RunsCounted, ApprovedIsGated
  <2>. QED
    BY <1>0, <2>2, <2>5, <2>6, <2>7 DEF IInv, Local
<1>6. CASE Interrupt
  <2>1. /\ UNCHANGED <<history, runs>> /\ Leave /\ pc = "dispatch"
        /\ Put("interrupted", state.steps, Done(state.steps) + 1)
        /\ NextTool(state.steps) \in Gated
    BY <1>6 DEF Interrupt
  <2>2. state.turn = store.run /\ state.steps = store.steps /\ ~Finished(state.steps)
    BY <1>a, <2>1 DEF InSync, Working
  <2>3. /\ store'.run = store.run /\ store'.steps = store.steps
        /\ store'.pending = Done(store.steps) + 1
    BY <2>1, <2>2 DEF Put
  <2>4. PendingIsNext'
    BY <2>1, <2>2, <2>3 DEF PendingIsNext, Finished, Done, NextTool
  <2>5. World'
    BY <1>0, <2>1, <2>3, <2>4, WorldFrame
  <2>6. store'.run <= runs'
    BY <1>a, <2>1, <2>3 DEF RunsCounted
  <2>. QED
    BY <1>0, <1>b, <1>d, <2>1, <2>5, <2>6 DEF IInv
<1>7. CASE DispatchCall
  BY <1>0, <1>7, InvokeStep DEF DispatchCall
<1>8. CASE DispatchApproved
  BY <1>0, <1>8, InvokeStep DEF DispatchApproved
<1>9. CASE RecordResult
  BY <1>0, <1>9, RecordStep DEF RecordResult, Outcome
<1>10. CASE RejectCall
  BY <1>0, <1>10, RecordStep DEF RejectCall, Outcome
<1>11. CASE SkipCall
  BY <1>0, <1>11, RecordStep DEF SkipCall, Outcome
<1>12. CASE CheckpointFailure
  <2>1. /\ UNCHANGED <<history, runs>> /\ Leave
        /\ \/ store' = [store EXCEPT !.status = "failed", !.error = exc,
                                     !.prior = state.prior]
           \/ store' = store
    BY <1>12 DEF CheckpointFailure
  <2>2. /\ store'.run = store.run /\ store'.steps = store.steps
        /\ store'.pending = store.pending
        /\ store'.status = "failed" \/ store'.status = store.status
    BY <1>0, <2>1 DEF TypeOK, Checkpoint
  <2>3. PendingIsNext'
    BY <1>a, <2>2 DEF PendingIsNext, Finished, Done, NextTool
  <2>4. World'
    BY <1>0, <2>1, <2>2, <2>3, WorldFrame
  <2>5. store'.run <= runs'
    BY <1>a, <2>1, <2>2 DEF RunsCounted
  <2>. QED
    BY <1>0, <1>b, <1>d, <2>1, <2>4, <2>5 DEF IInv
<1>13. ASSUME NEW lim, NEW tools, Load(lim, tools), UNCHANGED <<store, runs>>
       PROVE  /\ state'.turn = store.run /\ state'.steps = store.steps
              /\ state'.tools = tools
              /\ RunsCounted'
  BY <1>a, <1>13 DEF Load, RunsCounted
<1>14. CASE ResumeInterrupted
  <2> DEFINE n == <<store.run, Len(store.steps), store.pending>>
  <2>1. /\ pc' \in {"approved", "rejecting"} /\ store.status = "interrupted"
        /\ UNCHANGED <<store, effects, retries, runs>>
        /\ \/ pc' = "approved" /\ approvals' = [approvals EXCEPT ![n] = @ + 1]
           \/ pc' = "rejecting" /\ approvals' = approvals
    BY <1>14 DEF ResumeInterrupted, Resumable
  <2>2. state'.turn = store.run /\ state'.steps = store.steps /\ RunsCounted'
    BY <1>13, <1>14, <2>1 DEF ResumeInterrupted
  <2>3. /\ ~Finished(store.steps) /\ NextTool(store.steps) \in Gated
        /\ n = NextCall(store.run, store.steps)
    BY <1>a, <2>1 DEF PendingIsNext, NextCall
  <2> HIDE DEF n
  <2>4. \A c \in Call : /\ approvals[c] \in Nat /\ effects[c] \in Nat
                        /\ approvals'[c] >= approvals[c]
                        /\ pc' = "approved" /\ c = n => approvals'[c] = approvals[c] + 1
    BY <1>0, <2>1, Counted DEF TypeOK
  <2>5. Asked' = Asked /\ Settled' = Settled /\ Asked \subseteq Call
    BY <2>1 DEF Asked, Settled
  <2>6. \A c : ToolOf(c)' = ToolOf(c) /\ ResultOf(c)' = ResultOf(c)
    BY <2>1 DEF ToolOf, ResultOf
  <2>7. GateHolds'
    <3> SUFFICES ASSUME NEW c \in Asked, ToolOf(c) \in Gated
                 PROVE  effects[c] <= approvals'[c]
      BY <2>1, <2>5, <2>6 DEF GateHolds
    <3>1. effects[c] <= approvals[c] /\ c \in Call
      BY <1>a, <2>5 DEF GateHolds
    <3>2. approvals'[c] \in Nat
      BY <1>0, <3>1 DEF TypeOK
    <3>. QED
      BY <2>4, <3>1, <3>2
  <2>8. NoAutoReplay' /\ ResultsAreReal'
    BY <1>0, <2>1, <2>5, <2>6 DEF World, NoAutoReplay, ResultsAreReal
  <2>9. OneAmbiguousCall' /\ PendingIsNext'
    BY <1>0, <2>1, <2>5 DEF World, OneAmbiguousCall, PendingIsNext, NextCall, Finished, Done,
       NextTool
  <2>10. InSync' /\ Thinking' /\ HasAnswer' /\ ApprovedIsGated'
    BY <2>1, <2>2, <2>3 DEF InSync, Thinking, HasAnswer, ApprovedIsGated, Finished, Done,
       NextTool
  <2>11. Licensed'
    <3>1. NextCall(state.turn, state.steps)' = n
      BY <2>2, <2>3 DEF NextCall, Done
    <3>2. ASSUME NEW c \in Call, c = n, pc' = "approved"
          PROVE  effects[c] + 1 <= approvals'[c]
      <4>1. c \in Asked /\ ToolOf(c) = NextTool(store.steps)
        BY <1>0, <2>3, <3>2, NextIsAsked
      <4>2. effects[c] <= approvals[c]
        BY <1>a, <2>3, <4>1 DEF GateHolds
      <4>. QED
        BY <2>4, <3>2, <4>2
    <3>. QED
      BY <2>1, <3>1, <3>2 DEF Licensed
  <2>. QED
    BY <1>0, <2>2, <2>7, <2>8, <2>9, <2>10, <2>11 DEF IInv, Local, World
<1>15. CASE ResumeSettled
  <2>1. /\ UNCHANGED <<store, effects, approvals, retries, runs>> /\ pc' = "think"
        /\ Finished(store.steps)
    BY <1>15 DEF ResumeSettled, history
  <2>2. state'.turn = store.run /\ state'.steps = store.steps /\ RunsCounted'
    BY <1>13, <1>15, <2>1 DEF ResumeSettled
  <2>3. Local'
    BY <2>1, <2>2 DEF Local, InSync, Thinking, HasAnswer, Licensed, ApprovedIsGated, Working,
       Finished, Done
  <2>. QED
    BY <1>0, <1>c, <2>1, <2>3 DEF IInv
<1>16. CASE ResumeInFlight
  <2> DEFINE n == NextCall(store.run, store.steps)
             t == NextTool(store.steps)
  <2>1. PICK tools \in Registries :
          \E lim \in Limits \cup {store.limit} : Load(lim, tools)
    BY <1>16 DEF ResumeInFlight
  <2>2. /\ ~Finished(store.steps)
        /\ UNCHANGED <<store, effects, approvals, runs>>
    BY <1>16 DEF ResumeInFlight
  <2>3. /\ state'.turn = store.run /\ state'.steps = store.steps /\ RunsCounted'
        /\ state'.tools = tools
    BY <1>13, <2>1, <2>2
  <2>4. \/ pc' = "dispatch" /\ t \in Idempotent /\ retries' = retries
        \/ pc' = "dispatch" /\ retries' = [retries EXCEPT ![n] = @ + 1]
        \/ pc' \in {"skipping", "failing"} /\ retries' = retries
    BY <1>16 DEF ResumeInFlight, SafeToRepeat, Throw
  <2>5. \A c \in Call : /\ retries[c] \in Nat /\ retries'[c] \in Nat
                        /\ retries'[c] >= retries[c]
                        /\ pc' = "dispatch" /\ t \notin Idempotent /\ c = n
                             => retries'[c] = retries[c] + 1
    <3> HIDE DEF n, t
    <3>. QED
      BY <1>0, <2>4, Counted DEF TypeOK
  <2>6. Asked' = Asked /\ Settled' = Settled /\ Asked \subseteq Call
    BY <2>2 DEF Asked, Settled
  <2>7. \A c : ToolOf(c)' = ToolOf(c) /\ ResultOf(c)' = ResultOf(c)
    BY <2>2 DEF ToolOf, ResultOf
  <2>8. NoAutoReplay'
    <3> SUFFICES ASSUME NEW c \in Asked, ToolOf(c) \notin Idempotent \cup Gated
                 PROVE  effects[c] <= 1 + retries'[c]
      BY <2>2, <2>6, <2>7 DEF NoAutoReplay
    <3>1. effects[c] <= 1 + retries[c] /\ effects[c] \in Nat
      BY <1>0, <1>a, <2>6 DEF NoAutoReplay, TypeOK
    <3>. QED
      BY <2>5, <2>6, <3>1
  <2>9. GateHolds' /\ ResultsAreReal'
    BY <1>0, <2>2, <2>6, <2>7 DEF World, GateHolds, ResultsAreReal
  <2>10. OneAmbiguousCall' /\ PendingIsNext'
    BY <1>0, <2>2, <2>6 DEF World, OneAmbiguousCall, PendingIsNext, NextCall, Finished, Done,
       NextTool
  <2>11. InSync' /\ Thinking' /\ HasAnswer' /\ ApprovedIsGated'
    BY <2>2, <2>3, <2>4 DEF InSync, Thinking, HasAnswer, ApprovedIsGated, Finished, Done
  <2>12. Licensed'
    <3>1. NextCall(state.turn, state.steps)' = n /\ NextTool(state.steps)' = t
      BY <2>3 DEF NextCall, NextTool, Done
    <3>2. ASSUME NEW c \in Call, c = n, pc' = "dispatch", t \notin Idempotent \cup Gated
          PROVE  effects[c] <= retries'[c]
      <4>1. c \in Asked /\ ToolOf(c) = t
        BY <1>0, <2>2, <3>2, NextIsAsked
      <4>2. effects[c] <= 1 + retries[c]
        BY <1>a, <3>2, <4>1 DEF NoAutoReplay
      <4>. QED
        BY <2>5, <3>2, <4>2
    <3> HIDE DEF n, t
    <3>. QED
      BY <2>2, <2>4, <3>1, <3>2 DEF Licensed
  <2>. QED
    BY <1>0, <2>3, <2>8, <2>9, <2>10, <2>11, <2>12 DEF IInv, Local, World
<1>17. CASE ResumeRefused \/ UNCHANGED vars
  <2>1. UNCHANGED vars
    BY <1>17 DEF ResumeRefused
  <2>2. Local'
    BY <1>0, <2>1 DEF vars, Local, InSync, Thinking, HasAnswer, RunsCounted, Licensed,
       ApprovedIsGated, Finished, Done, NextCall, NextTool
  <2>. QED
    BY <1>0, <1>c, <2>1, <2>2 DEF vars, IInv
<1>18. CASE Raise
  <2>1. RunsCounted'
    BY <1>18, <1>a DEF Raise, RunsCounted
  <2>. QED
    BY <1>0, <1>18, <1>c, <1>e, <2>1 DEF Raise, history, IInv
<1>19. CASE Crash
  <2>1. Leave /\ UNCHANGED <<store, effects, approvals, retries, runs>>
    BY <1>19 DEF Crash, history
  <2>2. store'.run <= runs'
    BY <1>a, <2>1 DEF RunsCounted
  <2>. QED
    BY <1>0, <1>b, <1>c, <1>d, <2>1, <2>2 DEF IInv
<1>. QED
  BY <1>1, <1>2, <1>3, <1>4, <1>5, <1>6, <1>7, <1>8, <1>9, <1>10, <1>11, <1>12, <1>14,
     <1>15, <1>16, <1>17, <1>18, <1>19 DEF Next, Advance, Resume

LEMMA Invariance == Spec => []IInv
  BY InitIInv, NextIInv, PTL DEF Spec

\* Whatever the tools, registries, limits and bounds, every variable keeps its type.
THEOREM TypeCorrect == Spec => []TypeOK
<1>1. IInv => TypeOK
  BY DEF IInv
<1>. QED
  BY <1>1, Invariance, PTL

\* No crash, failure, resume or acknowledged failure replays an unsafe call by
\* itself.
THEOREM NoCallIsReplayed == Spec => []NoAutoReplay
<1>1. IInv => NoAutoReplay
  BY DEF IInv, World
<1>. QED
  BY <1>1, Invariance, PTL

\* No gated call reaches its tool more often than a human approved it.
THEOREM GatesHold == Spec => []GateHolds
<1>1. IInv => GateHolds
  BY DEF IInv, World
<1>. QED
  BY <1>1, Invariance, PTL

\* At any time at most one call may have run without its result on record, and
\* it is the next one; what is on record as a result was one.
THEOREM CallsAreAccounted == Spec => []CallsAccountedFor
<1>1. IInv => CallsAccountedFor
  BY DEF IInv, World, CallsAccountedFor
<1>. QED
  BY <1>1, Invariance, PTL

\* A paused thread waits for exactly the call its resume will settle.
THEOREM PausesAreExact == Spec => []PendingIsNext
<1>1. IInv => PendingIsNext
  BY DEF IInv, World
<1>. QED
  BY <1>1, Invariance, PTL

-----------------------------------------------------------------------------
(* The history of the record.                                              *)

\* Only the last step of the record may lack results.
EarlierFinished ==
  \A i \in 1..(Len(store.steps) - 1) :
    Len(store.steps[i].results) = Len(store.steps[i].calls)

\* No call of run or resume is under way on a completed record of its own.
CompletedIsLeft ==
  store.status = "completed" /\ pc # "idle" => state.turn > store.run

\* A record has an error only while it is marked failed, and a call that works
\* on the record's run carries every failure the record holds.
ErrorIsFailure == store.error # NoError => store.status = "failed"
ErrorsCarried ==
  pc # "idle" /\ state.turn <= store.run => Errors(store) \subseteq ToSet(state.prior)

HInv == EarlierFinished /\ CompletedIsLeft /\ ErrorIsFailure /\ ErrorsCarried

\* What a step may do to the record.
WriteAnswer ==
  /\ pc = "answered" /\ UNCHANGED history
  /\ \/ Put("running", state.steps, 0) /\ UNCHANGED state /\ pc' = "dispatch"
     \/ Put("completed", state.steps, 0) /\ Leave
WritePause ==
  /\ pc = "dispatch" /\ Leave /\ UNCHANGED history
  /\ Put("interrupted", state.steps, Done(state.steps) + 1)
WriteResult ==
  /\ pc \in {"called", "rejecting", "skipping"}
  /\ \E o \in Outcome : Record(o)
WriteFailure ==
  /\ pc = "failing" /\ Leave /\ UNCHANGED history
  /\ store' = [store EXCEPT !.status = "failed", !.error = exc, !.prior = state.prior]

\* ... and what else it may do.
Begin ==
  /\ pc = "idle" /\ pc' # "idle" /\ UNCHANGED <<store, effects>>
  /\ state'.turn = runs + 1 \/ \E lim \in Limits \cup {store.limit}, tools \in Registries :
                                  Load(lim, tools) /\ store.status # "completed"
WorkOn ==
  /\ pc # "idle" /\ pc' # "idle" /\ UNCHANGED <<store, effects>>
  /\ state'.turn = state.turn /\ state'.prior = state.prior
Dispatch ==
  /\ pc \in {"dispatch", "approved"} /\ pc' = "called"
  /\ Invoke /\ UNCHANGED <<store, state>>
Stop == Leave /\ UNCHANGED <<store, effects>>

\* Every step is one of these.
LEMMA StepKinds ==
  ASSUME TypeOK, [Next]_vars
  PROVE  \/ WriteAnswer \/ WritePause \/ WriteResult \/ WriteFailure
         \/ Begin \/ WorkOn \/ Dispatch \/ Stop \/ UNCHANGED vars
<1>0. state \in RunState
  BY DEF TypeOK
<1>1. CASE Run
  BY <1>1 DEF Run, Begin, history
<1>2. CASE Complete
  <2>1. PICK calls : state' = [state EXCEPT !.steps = Append(@, [calls |-> calls, results |-> <<>>])]
    BY <1>2 DEF Complete
  <2>2. state'.turn = state.turn /\ state'.prior = state.prior
    BY <1>0, <2>1 DEF RunState
  <2>. QED
    BY <1>2, <2>2 DEF Complete, WorkOn, history
<1>3. CASE ExceedMaxSteps
  BY <1>3 DEF ExceedMaxSteps, WorkOn, Throw, history
<1>4. CASE Answer
  BY <1>4 DEF Answer, WriteAnswer
<1>5. CASE CheckpointCompletion
  BY <1>5 DEF CheckpointCompletion, WriteAnswer
<1>6. CASE Interrupt
  BY <1>6 DEF Interrupt, WritePause
<1>7. CASE DispatchCall \/ DispatchApproved
  BY <1>7 DEF DispatchCall, DispatchApproved, Dispatch
<1>8. CASE RecordResult \/ RejectCall \/ SkipCall
  BY <1>8 DEF RecordResult, RejectCall, SkipCall, WriteResult, Outcome
<1>9. CASE CheckpointFailure
  BY <1>9 DEF CheckpointFailure, WriteFailure, Stop, history
<1>10. CASE ResumeInterrupted
  <2>1. pc' \in {"approved", "rejecting"}
    BY <1>10 DEF ResumeInterrupted
  <2>. QED
    BY <1>10, <2>1 DEF ResumeInterrupted, Resumable, Begin
<1>11. CASE ResumeSettled
  BY <1>11 DEF ResumeSettled, Resumable, Begin, history
<1>12. CASE ResumeInFlight
  <2>1. pc' \in {"dispatch", "skipping", "failing"}
    BY <1>12 DEF ResumeInFlight, Throw
  <2>2. UNCHANGED <<store, effects>> /\ pc = "idle" /\ store.status # "completed"
    BY <1>12 DEF ResumeInFlight, Resumable
  <2>. QED
    BY <1>12, <2>1, <2>2 DEF ResumeInFlight, Begin
<1>13. CASE ResumeRefused
  BY <1>13 DEF ResumeRefused
<1>14. CASE Raise
  BY <1>14 DEF Raise, WorkOn, Throw, history, Fallible
<1>15. CASE Crash
  BY <1>15 DEF Crash, Stop, history
<1>. QED
  BY <1>1, <1>2, <1>3, <1>4, <1>5, <1>6, <1>7, <1>8, <1>9, <1>10, <1>11, <1>12, <1>13,
     <1>14, <1>15 DEF Next, Advance, Resume

\* Appending to a list adds one element to what it lists.
LEMMA ToSetAppend ==
  ASSUME NEW S, NEW s \in Seq(S), NEW e \in S
  PROVE  ToSet(Append(s, e)) = ToSet(s) \cup {e}
<1>1. /\ Len(s) \in Nat
      /\ DOMAIN s = 1..Len(s)
      /\ DOMAIN Append(s, e) = 1..(Len(s) + 1)
      /\ \A i \in 1..Len(s) : Append(s, e)[i] = s[i]
      /\ Append(s, e)[Len(s) + 1] = e
  OBVIOUS
<1>2. 1..(Len(s) + 1) = 1..Len(s) \cup {Len(s) + 1}
  BY <1>1
<1> HIDE DEF ToSet
<1>. QED
  BY <1>1, <1>2 DEF ToSet

LEMMA InitHInv == Init => HInv
BY DEF Init, HInv, EarlierFinished, CompletedIsLeft, ErrorIsFailure, ErrorsCarried, NoCheckpoint

LEMMA NextHInv == IInv /\ HInv /\ [Next]_vars => HInv'
<1> SUFFICES ASSUME IInv, HInv, [Next]_vars
             PROVE  HInv'
  OBVIOUS
<1>0. /\ TypeOK /\ InSync /\ HasAnswer /\ RunsCounted
      /\ EarlierFinished /\ CompletedIsLeft /\ ErrorIsFailure /\ ErrorsCarried
  BY DEF IInv, Local, HInv
<1>a. /\ store \in Checkpoint /\ store.steps \in Seq(Step) /\ store.prior \in Seq(Error)
      /\ store.run \in Nat /\ store.error \in Error
      /\ state \in RunState /\ state.steps \in Seq(Step) /\ state.prior \in Seq(Error)
      /\ state.turn \in Nat /\ runs \in Nat
  BY <1>0, BoundsAssumption DEF TypeOK, Checkpoint, RunState
<1>1. CASE WriteAnswer
  <2>0. pc = "answered"
    BY <1>1 DEF WriteAnswer
  <2>1. /\ store'.run = state.turn /\ store'.steps = state.steps /\ store'.error = NoError
        /\ store'.prior = state.prior
        /\ store'.status = "completed" => pc' = "idle"
        /\ pc' = "idle" \/ state' = state
    BY <1>1 DEF WriteAnswer, Put, Leave
  <2>2. EarlierFinished'
    <3> SUFFICES ASSUME NEW i \in 1..(Len(state.steps) - 1)
                 PROVE  Len(state.steps[i].results) = Len(state.steps[i].calls)
      BY <2>1 DEF EarlierFinished
    <3>1. /\ Finished(store.steps)
          /\ Len(state.steps) = Len(store.steps) + 1
          /\ \A j \in 1..Len(store.steps) : state.steps[j] = store.steps[j]
      <4>1. Len(state.steps) # 1 /\ Len(state.steps) \in Nat
        <5> DEFINE n == Len(state.steps)
        <5>1. n \in Nat /\ i \in 1..(n - 1)
          BY <1>a
        <5> HIDE DEF n
        <5>2. n # 1
          BY <5>1
        <5>. QED
          BY <5>1, <5>2 DEF n
      <4>. QED
        BY <1>0, <2>0, <4>1 DEF HasAnswer
    <3>2. Len(store.steps) \in Nat /\ i \in 1..Len(store.steps)
      BY <1>a, <3>1
    <3>3. CASE i # Len(store.steps)
      <4>1. i \in 1..(Len(store.steps) - 1)
        BY <3>2, <3>3
      <4>2. state.steps[i] = store.steps[i]
        BY <3>1, <3>2
      <4>. QED
        BY <1>0, <4>1, <4>2 DEF EarlierFinished
    <3>4. CASE i = Len(store.steps)
      <4>1. store.steps[i] \in Step /\ store.steps # <<>>
        BY <1>a, <3>2
      <4>2. Len(store.steps[i].results) >= Len(store.steps[i].calls)
        BY <3>1, <3>4, <4>1 DEF Finished, Done, Last
      <4>. QED
        BY <3>1, <3>2, <4>1, <4>2 DEF Step
    <3>. QED
      BY <3>3, <3>4
  <2>3. ErrorsCarried'
    BY <2>1 DEF ErrorsCarried, Errors
  <2>. QED
    BY <2>1, <2>2, <2>3 DEF HInv, CompletedIsLeft, ErrorIsFailure
<1>2. CASE WritePause
  <2>1. store'.steps = store.steps /\ store'.error = NoError /\ pc' = "idle"
    BY <1>0, <1>2 DEF WritePause, Put, Leave, InSync, Working
  <2>. QED
    BY <1>0, <2>1 DEF HInv, EarlierFinished, CompletedIsLeft, ErrorIsFailure, ErrorsCarried
<1>3. CASE WriteResult
  <2>1. PICK o \in Outcome : Record(o)
    BY <1>3 DEF WriteResult
  <2>2. state.steps = store.steps /\ ~Finished(store.steps)
    BY <1>0, <1>3 DEF WriteResult, InSync, Working
  <2>3. /\ store'.steps = WithResult(store.steps, o) /\ store'.error = NoError
        /\ store'.prior = state.prior /\ store'.status = "running"
        /\ state'.prior = state.prior
    BY <1>a, <2>1, <2>2 DEF Record, Put, RunState
  <2>4. EarlierFinished'
    <3> DEFINE t == WithResult(store.steps, o)
    <3>1. /\ Len(t) = Len(store.steps)
          /\ \A i \in 1..Len(store.steps) : t[i].calls = store.steps[i].calls
          /\ \A i \in 1..(Len(store.steps) - 1) : t[i].results = store.steps[i].results
      BY <1>a, <2>2, WithResultFacts
    <3> HIDE DEF t
    <3>2. Len(store.steps) \in Nat
      BY <1>a
    <3>3. \A i \in 1..(Len(store.steps) - 1) : i \in 1..Len(store.steps)
      BY <3>2
    <3>. QED
      BY <1>0, <2>3, <3>1, <3>3 DEF EarlierFinished, t
  <2>5. ErrorsCarried'
    BY <2>3 DEF ErrorsCarried, Errors
  <2>. QED
    BY <2>3, <2>4, <2>5 DEF HInv, CompletedIsLeft, ErrorIsFailure
<1>4. CASE WriteFailure
  <2>1. store'.steps = store.steps /\ store'.status = "failed" /\ pc' = "idle"
    BY <1>4, <1>a DEF WriteFailure, Leave, Checkpoint
  <2>. QED
    BY <1>0, <2>1 DEF HInv, EarlierFinished, CompletedIsLeft, ErrorIsFailure, ErrorsCarried
<1>5. CASE Begin
  <2>1. UNCHANGED store /\ pc' # "idle"
    BY <1>5 DEF Begin
  <2>2. CASE state'.turn = runs + 1
    BY <1>0, <1>a, <2>1, <2>2 DEF HInv, EarlierFinished, CompletedIsLeft, ErrorIsFailure,
       ErrorsCarried, RunsCounted
  <2>3. ASSUME NEW lim, NEW tools, Load(lim, tools), store.status # "completed"
        PROVE  HInv'
    <3>1. Errors(store) \subseteq ToSet(state'.prior)
      <4>1. ASSUME store.status = "failed", store.error # NoError
            PROVE  Errors(store) \subseteq ToSet(state'.prior)
        <5>1. state'.prior = Append(store.prior, store.error)
          BY <2>3, <4>1 DEF Load
        <5>. QED
          BY <1>a, <5>1, ToSetAppend DEF Errors
      <4>2. ASSUME store.error = NoError
            PROVE  Errors(store) \subseteq ToSet(state'.prior)
        BY <2>3, <4>2 DEF Load, Errors
      <4>. QED
        BY <1>0, <4>1, <4>2 DEF ErrorIsFailure
    <3>. QED
      BY <1>0, <2>1, <2>3, <3>1 DEF HInv, EarlierFinished, CompletedIsLeft, ErrorIsFailure,
         ErrorsCarried, Errors
  <2>. QED
    BY <1>5, <2>2, <2>3 DEF Begin
<1>6. CASE WorkOn
  BY <1>0, <1>6 DEF WorkOn, HInv, EarlierFinished, CompletedIsLeft, ErrorIsFailure,
     ErrorsCarried, Errors
<1>7. CASE Dispatch
  BY <1>0, <1>7 DEF Dispatch, HInv, EarlierFinished, CompletedIsLeft, ErrorIsFailure,
     ErrorsCarried, Errors
<1>8. CASE Stop
  BY <1>0, <1>8 DEF Stop, Leave, HInv, EarlierFinished, CompletedIsLeft, ErrorIsFailure,
     ErrorsCarried, Errors
<1>9. CASE UNCHANGED vars
  BY <1>0, <1>9 DEF vars, HInv, EarlierFinished, CompletedIsLeft, ErrorIsFailure,
     ErrorsCarried, Errors
<1>. QED
  BY <1>0, <1>1, <1>2, <1>3, <1>4, <1>5, <1>6, <1>7, <1>8, <1>9, StepKinds

LEMMA HistoryInvariance == Spec => [](IInv /\ HInv)
BY InitIInv, InitHInv, NextIInv, NextHInv, PTL DEF Spec

-----------------------------------------------------------------------------
(* What no step does to the record.                                        *)

LEMMA PrefixFacts ==
  ASSUME NEW S, NEW s \in Seq(S), NEW e \in S
  PROVE  IsPrefix(s, s) /\ IsPrefix(s, Append(s, e))
<1>1. Len(s) \in Nat /\ Len(Append(s, e)) = Len(s) + 1
  OBVIOUS
<1>2. SubSeq(s, 1, Len(s)) = SubSeq(Append(s, e), 1, Len(s))
  OBVIOUS
<1>. QED
  BY <1>1, <1>2 DEF IsPrefix

\* Recording a result extends a history, and so does a completion.
LEMMA ExtendsFacts ==
  ASSUME NEW s \in Seq(Step)
  PROVE  /\ Extends(s, s)
         /\ ~Finished(s) => \A o \in Outcome : Extends(s, WithResult(s, o))
         /\ \A t \in Seq(Step) :
              /\ Len(t) = Len(s) + 1
              /\ \A i \in 1..Len(s) : t[i] = s[i]
              => Extends(s, t)
<1>1. Len(s) \in Nat /\ DOMAIN s = 1..Len(s)
  OBVIOUS
<1>2. ASSUME NEW i \in DOMAIN s
      PROVE  /\ s[i].results \in Seq(Outcome)
             /\ IsPrefix(s[i].results, s[i].results)
             /\ \A o \in Outcome : IsPrefix(s[i].results, Append(s[i].results, o))
  <2>1. s[i] \in Step
    BY <1>1
  <2>2. s[i].results \in Seq(Outcome)
    BY <2>1 DEF Step
  <2>3. "skipped" \in Outcome
    BY DEF Outcome
  <2>. QED
    BY <2>2, <2>3, PrefixFacts
<1>3. ASSUME ~Finished(s), NEW o \in Outcome
      PROVE  Extends(s, WithResult(s, o))
  <2> DEFINE t == WithResult(s, o)
  <2>1. /\ Len(t) = Len(s)
        /\ \A i \in 1..Len(s) : t[i].calls = s[i].calls
        /\ \A i \in 1..(Len(s)-1) : t[i].results = s[i].results
        /\ t[Len(s)].results = Append(s[Len(s)].results, o)
    BY <1>3, WithResultFacts
  <2> HIDE DEF t
  <2>2. ASSUME NEW i \in DOMAIN s
        PROVE  t[i].calls = s[i].calls /\ IsPrefix(s[i].results, t[i].results)
    <3>1. CASE i = Len(s)
      BY <1>1, <1>2, <2>1, <3>1
    <3>2. CASE i # Len(s)
      <4>1. i \in 1..(Len(s) - 1)
        BY <1>1, <3>2
      <4>. QED
        BY <1>1, <1>2, <2>1, <4>1
    <3>. QED
      BY <3>1, <3>2
  <2>. QED
    BY <1>1, <2>1, <2>2 DEF Extends, t
<1>. QED
  BY <1>1, <1>2, <1>3 DEF Extends

\* The record of a run only ever grows.
LEMMA StepProgress ==
  ASSUME IInv, [Next]_vars, store'.run = store.run
  PROVE  Extends(store.steps, store'.steps)
<1>1. /\ TypeOK /\ InSync /\ HasAnswer
      /\ store \in Checkpoint /\ store.steps \in Seq(Step) /\ store.run \in Nat
      /\ state.steps \in Seq(Step) /\ state.turn \in Nat
  BY BoundsAssumption DEF IInv, Local, TypeOK, Checkpoint, RunState
<1>2. CASE store'.steps = store.steps
  BY <1>1, <1>2, ExtendsFacts
<1>3. CASE WriteAnswer
  <2>1. pc = "answered" /\ store'.run = state.turn /\ store'.steps = state.steps
    BY <1>3 DEF WriteAnswer, Put
  <2>2. /\ Len(state.steps) = Len(store.steps) + 1
        /\ \A i \in 1..Len(store.steps) : state.steps[i] = store.steps[i]
    BY <1>1, <2>1 DEF HasAnswer
  <2>. QED
    BY <1>1, <2>1, <2>2, ExtendsFacts
<1>4. CASE WriteResult
  <2>1. PICK o \in Outcome : Record(o)
    BY <1>4 DEF WriteResult
  <2>2. state.steps = store.steps /\ ~Finished(store.steps)
    BY <1>1, <1>4 DEF WriteResult, InSync, Working
  <2>3. store'.steps = WithResult(store.steps, o)
    BY <2>1, <2>2 DEF Record, Put
  <2>. QED
    BY <1>1, <2>2, <2>3, ExtendsFacts
<1>5. CASE WritePause
  BY <1>1, <1>2, <1>5 DEF WritePause, Put, InSync, Working
<1>6. CASE WriteFailure
  BY <1>1, <1>2, <1>6 DEF WriteFailure, Checkpoint
<1>. QED
  BY <1>1, <1>2, <1>3, <1>4, <1>5, <1>6, StepKinds
     DEF Begin, WorkOn, Dispatch, Stop, vars

\* No crash, failure or resume loses, reorders or rewrites a recorded step or
\* result of the run the record belongs to.
THEOREM ProgressIsKept == Spec => ProgressKept
<1>1. IInv /\ [Next]_vars
        => [store'.run = store.run => Extends(store.steps, store'.steps)]_vars
  BY StepProgress
<1>. QED
  BY <1>1, Invariance, PTL DEF Spec, ProgressKept

\* A completed record stays as it is until a later run takes the thread over.
THEOREM CompletionIsFinal == Spec => CompletedIsFinal
<1>1. IInv /\ HInv /\ [Next]_vars
        => [store.status = "completed" /\ state.turn <= store.run => store' = store]_vars
  <2> SUFFICES ASSUME IInv, HInv, [Next]_vars, store.status = "completed",
                      state.turn <= store.run
               PROVE  store' = store
    OBVIOUS
  <2>1. TypeOK /\ CompletedIsLeft /\ store.run \in Nat /\ state.turn \in Nat
    BY BoundsAssumption DEF IInv, HInv, TypeOK, Checkpoint, RunState
  <2>2. pc = "idle"
    BY <2>1 DEF CompletedIsLeft
  <2>. QED
    BY <2>1, <2>2, StepKinds DEF WriteAnswer, WritePause, WriteResult, WriteFailure, Begin,
       WorkOn, Dispatch, Stop, vars
<1>. QED
  BY <1>1, HistoryInvariance, PTL DEF Spec, CompletedIsFinal

\* No resume, success or further failure of a run loses a failure on its record.
THEOREM FailuresAreKept == Spec => ErrorsKept
<1>1. IInv /\ HInv /\ [Next]_vars
        => [state.turn <= store.run => Errors(store) \subseteq Errors(store')]_vars
  <2> SUFFICES ASSUME IInv, HInv, [Next]_vars, state.turn <= store.run
               PROVE  Errors(store) \subseteq Errors(store')
    OBVIOUS
  <2>1. TypeOK /\ ErrorsCarried /\ store \in Checkpoint
    BY DEF IInv, HInv, TypeOK
  <2>2. ASSUME pc # "idle", store'.prior = state.prior
        PROVE  Errors(store) \subseteq Errors(store')
    BY <2>1, <2>2 DEF ErrorsCarried, Errors
  <2>3. CASE WriteAnswer
    BY <2>2, <2>3 DEF WriteAnswer, Put
  <2>4. CASE WritePause
    BY <2>2, <2>4 DEF WritePause, Put
  <2>5. CASE WriteResult
    BY <2>2, <2>5 DEF WriteResult, Record, Put
  <2>6. CASE WriteFailure
    <3>1. store'.prior = state.prior
      BY <2>1, <2>6 DEF WriteFailure, Checkpoint
    <3>. QED
      BY <2>2, <2>6, <3>1 DEF WriteFailure
  <2>7. CASE UNCHANGED store
    BY <2>7 DEF Errors
  <2>. QED
    BY <2>1, <2>3, <2>4, <2>5, <2>6, <2>7, StepKinds DEF Begin, WorkOn, Dispatch, Stop, vars
<1>. QED
  BY <1>1, HistoryInvariance, PTL DEF Spec, ErrorsKept

-----------------------------------------------------------------------------
(* The record and the tools implement the ledger, step by step.            *)

\* A history in which nothing is left to do has settled whatever it asked for.
LEMMA FinishedIsSettled ==
  ASSUME TypeOK, EarlierFinished, Finished(store.steps)
  PROVE  Asked = Settled
<1> SUFFICES ASSUME NEW c \in Asked
             PROVE  c[3] \in DOMAIN store.steps[c[2]].results
  BY DEF Settled
<1>1. /\ store.steps \in Seq(Step) /\ Len(store.steps) \in Nat
      /\ c[2] \in 1..Len(store.steps) /\ c[3] \in DOMAIN store.steps[c[2]].calls
  BY DEF TypeOK, Checkpoint, Asked
<1>2. /\ store.steps[c[2]] \in Step /\ store.steps # <<>>
      /\ store.steps[c[2]].calls \in Seq(Tools) /\ store.steps[c[2]].results \in Seq(Outcome)
      /\ Len(store.steps[c[2]].results) <= Len(store.steps[c[2]].calls)
  BY <1>1 DEF Step
<1>3. Len(store.steps[c[2]].results) = Len(store.steps[c[2]].calls)
  <2>1. CASE c[2] = Len(store.steps)
    BY <1>1, <1>2, <2>1 DEF Finished, Done, Last
  <2>2. CASE c[2] # Len(store.steps)
    <3>1. c[2] \in 1..(Len(store.steps) - 1)
      BY <1>1, <2>2
    <3>. QED
      BY <3>1 DEF EarlierFinished
  <2>. QED
    BY <2>1, <2>2
<1>. QED
  BY <1>1, <1>2, <1>3

\* A completion made durable asks for calls, of the record's run or of a new one.
LEMMA AnswerAsks ==
  ASSUME IInv, HInv, WriteAnswer
  PROVE  Ledger!Ask \/ Ledger!StartOver
<1>1. /\ TypeOK /\ HasAnswer /\ EarlierFinished
      /\ store.steps \in Seq(Step) /\ state.steps \in Seq(Step)
      /\ store.run \in Nat /\ state.turn \in Nat
  BY BoundsAssumption DEF IInv, Local, HInv, TypeOK, Checkpoint, RunState
<1>2. PICK st \in {"running", "completed"} : Put(st, state.steps, 0)
  BY DEF WriteAnswer
<1>3. /\ pc = "answered" /\ UNCHANGED effects
      /\ store'.run = state.turn /\ store'.steps = state.steps
  BY <1>2 DEF WriteAnswer, history, Put
<1>4. /\ \A c \in Call : c[1] >= state.turn /\ c \notin Settled => effects[c] = 0
      /\ \A c \in Settled' : c \in Settled
      /\ \A c \in Asked' : c \in Settled => c \in Settled'
  BY <1>2, <1>3, AnswerLedger
<1>5. Settled \subseteq Asked
  BY DEF Settled
<1>6. \A c \in Asked' : c \in Call /\ c[1] = state.turn
  BY <1>3 DEF Asked
<1>7. \A c \in Asked : c[1] = store.run
  BY DEF Asked
<1>8. CASE state.turn = store.run
  <2>1. /\ Finished(store.steps)
        /\ Len(state.steps) = Len(store.steps) + 1
        /\ \A i \in 1..Len(store.steps) : state.steps[i] = store.steps[i]
    BY <1>1, <1>3, <1>8 DEF HasAnswer
  <2>2. DOMAIN store.steps \subseteq DOMAIN state.steps
        /\ \A i \in DOMAIN store.steps : state.steps[i] = store.steps[i]
    BY <1>1, <2>1
  <2>3. Asked \subseteq Asked'
    BY <1>3, <1>8, <2>2 DEF Asked
  <2>4. Asked = Settled
    BY <1>1, <2>1, FinishedIsSettled
  <2>5. Settled' = Settled
    BY <1>4, <1>5, <2>3
  <2>6. \A c \in Asked' \ Asked : c \in Call /\ effects[c] = 0
    BY <1>1, <1>4, <1>6, <2>4
  <2>. QED
    BY <1>3, <2>3, <2>4, <2>5, <2>6 DEF Ledger!Ask
<1>9. CASE state.turn # store.run
  <2>1. \A c \in Asked' : c \in Call \ Asked /\ effects[c] = 0
    BY <1>1, <1>4, <1>5, <1>6, <1>7, <1>9
  <2>2. Settled' = {}
    BY <1>4, <1>5, <2>1 DEF Settled
  <2>. QED
    BY <1>3, <2>1, <2>2 DEF Ledger!StartOver
<1>. QED
  BY <1>8, <1>9

\* A recorded result settles a call; one beyond the counted calls settles none.
LEMMA ResultSettles ==
  ASSUME IInv, WriteResult
  PROVE  Ledger!Settle \/ UNCHANGED Ledger!ledger
<1>1. TypeOK /\ InSync /\ ~Finished(store.steps)
  BY DEF IInv, Local, WriteResult, InSync, Working
<1>2. PICK o \in Outcome : Record(o)
  BY DEF WriteResult
<1> DEFINE n == NextCall(store.run, store.steps)
<1>3. /\ Asked' = Asked
      /\ \A c \in Asked : c # n => (c \in Settled' <=> c \in Settled)
      /\ \A c \in Call : c = n => c \in Asked /\ c \in Settled'
  BY <1>1, <1>2, RecordLedger DEF WriteResult
<1>4. /\ Settled \subseteq Asked /\ Settled' \subseteq Asked' /\ Asked \subseteq Call
      /\ UNCHANGED effects
  BY <1>2 DEF Settled, Asked, Record, history
<1>5. n \in Call => n \in Asked \ Settled
  BY <1>1, NextIsAsked
<1> HIDE DEF n
<1>6. CASE n \in Call
  <2>1. Settled' = Settled \cup {n}
    BY <1>3, <1>4, <1>6
  <2>. QED
    BY <1>3, <1>4, <1>5, <1>6, <2>1 DEF Ledger!Settle
<1>7. CASE n \notin Call
  <2>1. Settled' = Settled
    BY <1>3, <1>4, <1>7
  <2>. QED
    BY <1>3, <1>4, <2>1 DEF Ledger!ledger
<1>. QED
  BY <1>6, <1>7

\* A dispatch performs a call on record that is not settled.
LEMMA DispatchPerforms ==
  ASSUME IInv, Dispatch
  PROVE  Ledger!Perform \/ UNCHANGED Ledger!ledger
<1> DEFINE n == NextCall(store.run, store.steps)
<1>1. /\ TypeOK /\ ~Finished(store.steps)
      /\ state.turn = store.run /\ state.steps = store.steps
      /\ effects \in [Call -> Nat]
  BY DEF IInv, Local, Dispatch, InSync, Working, TypeOK
<1>2. Asked' = Asked /\ Settled' = Settled
  BY DEF Dispatch, Asked, Settled
<1>3. effects' = [effects EXCEPT ![n] = @ + 1] \/ effects' = effects
  BY <1>1 DEF Dispatch, Invoke
<1>4. n \in Call => n \in Asked \ Settled
  BY <1>1, NextIsAsked
<1>5. n \notin Call => [effects EXCEPT ![n] = @ + 1] = effects
  <2> HIDE DEF n
  <2>. QED
    BY <1>1
<1> HIDE DEF n
<1>. QED
  BY <1>2, <1>3, <1>4, <1>5 DEF Ledger!Perform, Ledger!ledger

LEMMA LedgerStep == IInv /\ HInv /\ [Next]_vars => [Ledger!Next]_(Ledger!ledger)
<1> SUFFICES ASSUME IInv, HInv, [Next]_vars
             PROVE  Ledger!Next \/ UNCHANGED Ledger!ledger
  OBVIOUS
<1>1. TypeOK /\ InSync /\ store \in Checkpoint
  BY DEF IInv, Local, TypeOK
<1>2. ASSUME store'.run = store.run, store'.steps = store.steps, UNCHANGED effects
      PROVE  UNCHANGED Ledger!ledger
  BY <1>2 DEF Ledger!ledger, Asked, Settled
<1>3. CASE WritePause
  BY <1>1, <1>2, <1>3 DEF WritePause, Put, InSync, Working, history
<1>4. CASE WriteFailure
  BY <1>1, <1>2, <1>4 DEF WriteFailure, Checkpoint, history
<1>5. CASE Begin \/ WorkOn \/ Stop \/ UNCHANGED vars
  BY <1>2, <1>5 DEF Begin, WorkOn, Stop, vars
<1>. QED
  BY <1>1, <1>3, <1>4, <1>5, AnswerAsks, ResultSettles, DispatchPerforms, StepKinds
     DEF Ledger!Next

\* The record and the tools implement CallLedger: a call reaches its tool only
\* between being durably asked for and being durably settled.
THEOREM LedgerIsKept == Spec => LedgerKept
<1>1. Init => Ledger!Init
  BY DEF Init, Ledger!Init, Asked, Settled, NoCheckpoint, NoCalls
<1>. QED
  BY <1>1, LedgerStep, HistoryInvariance, PTL DEF Spec, LedgerKept, Ledger!Spec

-----------------------------------------------------------------------------
(* A call of run or resume comes to its end: every step of it, a failure   *)
(* included, leaves less to do.                                            *)

\* Calls of the last step without a result, completions still allowed, and how
\* far the current one has come.
CallsLeft(steps) == IF steps = <<>> THEN 0 ELSE Len(Last(steps).calls) - Done(steps)
StepsLeft(st)    == IF Len(st.steps) < st.limit THEN st.limit - Len(st.steps) ELSE 0
Stage == [p \in Fallible \cup {"idle", "failing"} |->
            CASE p = "idle" -> 0 [] p = "failing" -> 1 [] p = "answered" -> 4
              [] p \in {"dispatch", "approved"} -> 3 [] OTHER -> 2]
Left == (2 * MaxCalls + 3) * StepsLeft(state) + 2 * CallsLeft(state.steps) + Stage[pc]

LEMMA StageFacts ==
  /\ Stage["idle"] = 0 /\ Stage["failing"] = 1 /\ Stage["answered"] = 4
  /\ Stage["dispatch"] = 3 /\ Stage["approved"] = 3
  /\ Stage["think"] = 2 /\ Stage["called"] = 2 /\ Stage["rejecting"] = 2 /\ Stage["skipping"] = 2
  /\ \A p \in Fallible : Stage[p] \in Nat /\ Stage[p] > 1
BY DEF Stage, Fallible

LEMMA LeftFacts ==
  ASSUME TypeOK
  PROVE  /\ CallsLeft(state.steps) \in Nat /\ StepsLeft(state) \in Nat
         /\ (2 * MaxCalls + 3) * StepsLeft(state) \in Nat
         /\ Stage[pc] \in Nat
         /\ Left \in Nat
<1>1. state.steps \in Seq(Step) /\ state.limit \in Nat
  BY DEF TypeOK, RunState
<1>2. CallsLeft(state.steps) \in Nat
  <2>1. CASE state.steps # <<>>
    <3>1. Last(state.steps) \in Step
      BY <1>1, <2>1 DEF Last
    <3>. QED
      BY <2>1, <3>1 DEF CallsLeft, Done, Step
  <2>. QED
    BY <2>1 DEF CallsLeft
<1>3. StepsLeft(state) \in Nat
  BY <1>1 DEF StepsLeft
<1>4. Stage[pc] \in Nat
  BY StageFacts DEF TypeOK
<1>5. MaxCalls \in Nat
  BY BoundsAssumption
<1>6. (2 * MaxCalls + 3) * StepsLeft(state) \in Nat
  BY <1>3, <1>5
<1>. QED
  BY <1>2, <1>3, <1>4, <1>6 DEF Left

\* A result is one call less.
LEMMA RecordRunsDown ==
  ASSUME IInv, pc \in {"called", "rejecting", "skipping"}, NEW o \in Outcome, Record(o)
  PROVE  Left' < Left
<1> DEFINE s == state.steps
           t == WithResult(s, o)
<1>1. s \in Seq(Step) /\ ~Finished(s) /\ state \in RunState
  BY DEF IInv, TypeOK, RunState, Local, InSync, Working
<1>2. /\ t # <<>> /\ Len(t) = Len(s) /\ Done(t) = Done(s) + 1
      /\ t[Len(s)].calls = s[Len(s)].calls
      /\ s # <<>> /\ Len(s) \in Nat \ {0} /\ Len(s[Len(s)].calls) \in Nat /\ Done(s) \in Nat
  <2>1. /\ t # <<>> /\ Len(t) = Len(s) /\ Done(t) = Done(s) + 1
        /\ \A i \in 1..Len(s) : t[i].calls = s[i].calls
    BY <1>1, WithResultFacts
  <2>2. s # <<>> /\ Len(s) \in Nat \ {0} /\ Last(s) \in Step /\ Done(s) \in Nat
    BY <1>1, UnfinishedFacts
  <2>3. Len(s[Len(s)].calls) \in Nat
    BY <2>2 DEF Step, Last
  <2>. QED
    BY <2>1, <2>2, <2>3
<1>3. state' = [state EXCEPT !.steps = t] /\ pc' = NextPc(t)
  BY DEF Record
<1>4. state'.steps = t /\ state'.limit = state.limit
  BY <1>1, <1>3 DEF RunState
<1> HIDE DEF t
<1>5. CallsLeft(state'.steps) = CallsLeft(s) - 1
  <2>1. CallsLeft(t) = Len(t[Len(t)].calls) - Done(t)
    BY <1>2 DEF CallsLeft, Last
  <2>2. CallsLeft(s) = Len(s[Len(s)].calls) - Done(s)
    BY <1>2 DEF CallsLeft, Last
  <2>3. CallsLeft(t) = Len(s[Len(s)].calls) - (Done(s) + 1)
    BY <1>2, <2>1
  <2>4. \A a, b \in Nat : a - (b + 1) = (a - b) - 1
    OBVIOUS
  <2>. QED
    BY <1>2, <1>4, <2>2, <2>3, <2>4
<1>6. StepsLeft(state') = StepsLeft(state)
  BY <1>2, <1>4 DEF StepsLeft
<1>7. pc' \in {"think", "dispatch"}
  BY <1>3 DEF NextPc
<1>8. Stage[pc] = 2 /\ Stage[pc'] <= 3 /\ Stage[pc'] \in Nat
  BY <1>7, StageFacts
<1>9. CallsLeft(s) \in Nat /\ (2 * MaxCalls + 3) * StepsLeft(state) \in Nat
  BY LeftFacts DEF IInv
<1>10. Left' = (2 * MaxCalls + 3) * StepsLeft(state) + 2 * (CallsLeft(s) - 1) + Stage[pc']
  BY <1>5, <1>6 DEF Left
<1>11. Left = (2 * MaxCalls + 3) * StepsLeft(state) + 2 * CallsLeft(s) + Stage[pc]
  BY DEF Left
<1>. QED
  BY <1>8, <1>9, <1>10, <1>11

\* A completion is one step less, whatever it asks for.
LEMMA CompleteRunsDown ==
  ASSUME IInv, Complete
  PROVE  Left' < Left
<1> DEFINE s == state.steps
<1>1. /\ s \in Seq(Step) /\ Len(s) \in Nat /\ state \in RunState /\ state.limit \in Nat
      /\ Len(s) < state.limit /\ pc = "think" /\ pc' = "answered"
  BY DEF IInv, TypeOK, RunState, Complete
<1>2. PICK calls \in SeqOf(Tools, MaxCalls) :
        state' = [state EXCEPT !.steps = Append(@, [calls |-> calls, results |-> <<>>])]
  BY DEF Complete
<1>3. calls \in Seq(Tools) /\ Len(calls) \in Nat /\ Len(calls) <= MaxCalls
  <2>1. MaxCalls \in Nat
    BY BoundsAssumption
  <2>2. PICK n \in 0..MaxCalls : calls \in [1..n -> Tools]
    BY DEF SeqOf
  <2>3. n \in Nat /\ n <= MaxCalls
    BY <2>1, <2>2
  <2>. QED
    BY <2>2, <2>3
<1> DEFINE u == [calls |-> calls, results |-> <<>>]
           t == Append(s, u)
<1>4. u \in Step /\ u.calls = calls /\ Len(u.results) = 0
  BY <1>3 DEF Step
<1> HIDE DEF u
<1>5. t \in Seq(Step) /\ t # <<>> /\ Len(t) = Len(s) + 1 /\ t[Len(s) + 1] = u
  BY <1>1, <1>4
<1>6. state'.steps = t /\ state'.limit = state.limit
  BY <1>1, <1>2 DEF RunState, u
<1> HIDE DEF t
<1>7. CallsLeft(state'.steps) = Len(calls)
  BY <1>3, <1>4, <1>5, <1>6 DEF CallsLeft, Last, Done
<1>8. StepsLeft(state') \in Nat /\ StepsLeft(state) = StepsLeft(state') + 1
  BY <1>1, <1>5, <1>6 DEF StepsLeft
<1>9. CallsLeft(s) \in Nat
  BY LeftFacts DEF IInv
<1>10. MaxCalls \in Nat
  BY BoundsAssumption
<1> DEFINE k == 2 * MaxCalls + 3
<1>11. k * (StepsLeft(state') + 1) = k * StepsLeft(state') + k /\ k * StepsLeft(state') \in Nat
  BY <1>8, <1>10
<1>12. Left' = k * StepsLeft(state') + 2 * Len(calls) + 4
  BY <1>1, <1>7, StageFacts DEF Left
<1>13. Left = k * (StepsLeft(state') + 1) + 2 * CallsLeft(s) + 2
  BY <1>1, <1>8, StageFacts DEF Left
<1>14. k > 2 * Len(calls) + 2 /\ k \in Nat
  BY <1>3, <1>10
<1> HIDE DEF k
<1>15. \A rest, a, b, m \in Nat : m > 2 * b + 2 => rest + 2 * b + 4 < (rest + m) + 2 * a + 2
  OBVIOUS
<1>16. Left = (k * StepsLeft(state') + k) + 2 * CallsLeft(s) + 2
  BY <1>11, <1>13
<1>. QED
  BY <1>3, <1>9, <1>11, <1>12, <1>14, <1>15, <1>16

\* No call of run or resume goes on for ever: each of its steps leaves less to do
\* than there was, down to nothing, whatever the model asks for and however often
\* something raises. A new run has (2 * MaxCalls + 3) * limit + 2 steps at most.
THEOREM CallsRunDown ==
  Spec => /\ [](Left \in Nat)
          /\ [][pc # "idle" => pc' = "idle" \/ Left' < Left]_vars
<1>1. IInv => Left \in Nat
  BY LeftFacts DEF IInv
<1>2. ASSUME IInv, Next, pc # "idle", pc' # "idle"
      PROVE  Left' < Left
  <2> DEFINE rest == (2 * MaxCalls + 3) * StepsLeft(state) + 2 * CallsLeft(state.steps)
  <2>1. rest \in Nat /\ Left = rest + Stage[pc] /\ Stage[pc] \in Nat
    BY <1>2, LeftFacts DEF IInv, Left
  <2>2. UNCHANGED state => Left' = rest + Stage[pc']
    BY DEF Left
  <2> HIDE DEF rest
  <2>3. CASE Complete
    BY <1>2, <2>3, CompleteRunsDown
  <2>4. CASE ExceedMaxSteps
    BY <2>1, <2>2, <2>4, StageFacts DEF ExceedMaxSteps, Throw
  <2>5. CASE CheckpointCompletion
    BY <2>1, <2>2, <2>5, StageFacts DEF CheckpointCompletion
  <2>6. CASE DispatchCall \/ DispatchApproved
    BY <2>1, <2>2, <2>6, StageFacts DEF DispatchCall, DispatchApproved
  <2>7. CASE RecordResult
    <3>1. (IF NextTool(state.steps) \in state.tools THEN "ran" ELSE "unknown_tool") \in Outcome
      BY DEF Outcome
    <3>. QED
      BY <1>2, <2>7, <3>1, RecordRunsDown DEF RecordResult
  <2>8. CASE RejectCall \/ SkipCall
    <3>1. "rejected" \in Outcome /\ "skipped" \in Outcome
      BY DEF Outcome
    <3>. QED
      BY <1>2, <2>8, <3>1, RecordRunsDown DEF RejectCall, SkipCall
  <2>9. CASE Raise
    BY <2>1, <2>2, <2>9, StageFacts DEF Raise, Throw
  <2>. QED
    BY <1>2, <2>3, <2>4, <2>5, <2>6, <2>7, <2>8, <2>9
    DEF Next, Advance, Resume, Run, Answer, Interrupt, CheckpointFailure, Crash, Leave,
        ResumeInterrupted, ResumeSettled, ResumeInFlight, ResumeRefused, Resumable
<1>3. IInv /\ [Next]_vars => [pc # "idle" => pc' = "idle" \/ Left' < Left]_vars
  BY <1>2
<1>. QED
  BY <1>1, <1>3, Invariance, PTL DEF Spec
=============================================================================
