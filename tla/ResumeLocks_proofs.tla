------------------------- MODULE ResumeLocks_proofs -------------------------
(***************************************************************************)
(* Proofs about ResumeLocks: for any callers and Agents, types, and what   *)
(* a resume waits for, which goes on by itself unless it is an abandoned   *)
(* stream; and, where all callers resume through one Agent, that resumes   *)
(* take turns and that no dispatch or write disagrees with the record.     *)
(***************************************************************************)
EXTENDS ResumeLocks, TLAPS

\* The user guide promises exclusion between the resumes of one Agent.
OneAgent == \A c, d \in Callers : AgentOf[c] = AgentOf[d]

-----------------------------------------------------------------------------
(* The inductive invariant.                                                *)

\* A paused thread waits at a gated call.
PausedIsGated == store.status = "interrupted" => store.done + 1 \in Gated

\* A task that is about to add a result has a call to add it to.
HasCall ==
  \A c \in Callers : pc[c] \in {"approved", "rejecting", "called"} => done[c] < Calls

\* An approval is in hand only while the thread is still paused.
ApprovedIsPaused ==
  \A c \in Callers : pc[c] = "approved" => store.status = "interrupted"

TInv == TypeOK /\ PausedIsGated /\ HasCall
IInv == TInv /\ ViewIsFresh /\ ApprovedIsPaused

-----------------------------------------------------------------------------
(* Types, whichever Agent each task calls.                                 *)

\* A task's step leaves its Agent's own turn alone.
LEMMA TurnsKept ==
  ASSUME TypeOK, UNCHANGED turns
  PROVE  TurnsOK /\ TurnsOK'
BY DEF TypeOK, TurnsOK

\* Leaving gives the task's lock back and touches no other.
LEMMA LeaveStep ==
  ASSUME TInv, NEW c \in Callers, Leave(c), UNCHANGED <<effects, turns>>,
         store' \in [status : Status, done : 0..Calls],
         resumes' \in 0..MaxResumes, cancels' \in 0..MaxCancels
  PROVE  TypeOK' /\ HasCall' /\ pc'[c] = "idle"
         /\ \A d \in Callers : d # c => pc'[d] = pc[d] /\ done'[d] = done[d]
<1>1. /\ pc' = [pc EXCEPT ![c] = "idle"]
      /\ approve' = [approve EXCEPT ![c] = NoAnswer]
      /\ done' = [done EXCEPT ![c] = 0]
      /\ locks' = [a \in Agents |-> IF locks[a] = c THEN Nobody ELSE locks[a]]
  BY DEF Leave, Goto
<1>2. \A d \in Callers : AgentOf[d] \in Agents /\ d # Nobody
  BY StepAssumption DEF Agents
<1>3. \A d \in Callers : locks'[AgentOf[d]] = d <=> d # c /\ locks[AgentOf[d]] = d
  BY <1>1, <1>2
<1>4. TurnsOK' /\ locks' \in [Agents -> Callers \cup {Nobody}]
  BY <1>1, TurnsKept DEF TInv, TypeOK
<1>. QED
  BY <1>1, <1>2, <1>3, <1>4, StepAssumption DEF TInv, TypeOK, HasCall

LEMMA InitTInv == Init => TInv
<1> SUFFICES ASSUME Init
             PROVE  TInv
  OBVIOUS
<1>1. effects \in [1..Calls -> Nat]
  BY DEF Init
<1>2. store \in [status : Status, done : 0..Calls] /\ PausedIsGated
  BY StepAssumption DEF Init, Status, PausedIsGated
<1>3. \A c \in Callers : AgentOf[c] \in Agents /\ Nobody # c
  BY StepAssumption DEF Agents
<1>4. \A c \in Callers : locks[AgentOf[c]] = c <=> pc[c] \notin {"idle", "queued"}
  BY <1>3 DEF Init
<1>5. TurnsOK
  BY DEF Init, TurnsOK
<1>. QED
  BY <1>1, <1>2, <1>4, <1>5, BoundsAssumption DEF Init, TInv, TypeOK, HasCall

LEMMA NextTInv == TInv /\ [Next]_vars => TInv'
<1> SUFFICES ASSUME TInv, [Next]_vars
             PROVE  TInv'
  OBVIOUS
<1> USE StepAssumption, BoundsAssumption
<1>0. TypeOK /\ PausedIsGated /\ HasCall
  BY DEF TInv
<1>k. UNCHANGED turns => TurnsOK'
  BY <1>0, TurnsKept
<1>1. CASE UNCHANGED vars
  BY <1>0, <1>k, <1>1 DEF TInv, TypeOK, PausedIsGated, HasCall, vars
<1>2. ASSUME NEW c \in Callers, Call(c)
      PROVE  TInv'
  <2>1. PICK a \in {NoAnswer} \cup Answers : approve' = [approve EXCEPT ![c] = a]
    BY <1>2 DEF Call
  <2>. QED
    BY <1>0, <1>k, <1>2, <2>1 DEF Call, Goto, TInv, TypeOK, PausedIsGated, HasCall
<1>3. ASSUME NEW c \in Callers, Acquire(c)
      PROVE  TInv'
  <2>1. AgentOf[c] \in Agents /\ locks' = [locks EXCEPT ![AgentOf[c]] = c]
    BY <1>3 DEF Acquire, Agents
  <2>2. \A d \in Callers : AgentOf[d] \in Agents
    BY DEF Agents
  <2>3. \A d \in Callers : locks'[AgentOf[d]] = d <=> d = c \/ locks[AgentOf[d]] = d
    BY <1>0, <1>3, <2>1, <2>2 DEF Acquire, TypeOK
  <2>. QED
    BY <1>0, <1>k, <1>3, <2>1, <2>2, <2>3 DEF Acquire, Goto, TInv, TypeOK, PausedIsGated, HasCall
<1>4. ASSUME NEW c \in Callers, Refuse(c)
      PROVE  TInv'
  <2>1. /\ Leave(c) /\ UNCHANGED <<turns, effects, resumes, cancels>>
        /\ store' = store \/ store' = [status |-> "failed", done |-> store.done]
    BY <1>4 DEF Refuse, Put
  <2>2. store' \in [status : Status, done : 0..Calls] /\ PausedIsGated'
    BY <1>0, <2>1 DEF TypeOK, Status, PausedIsGated
  <2>. QED
    BY <1>0, <1>k, <2>1, <2>2, LeaveStep DEF TInv, TypeOK
<1>5. ASSUME NEW c \in Callers, Rebuild(c)
      PROVE  TInv'
  <2>1. PICK l \in {"approved", "rejecting", "loop"} :
          /\ pc' = [pc EXCEPT ![c] = l]
          /\ l # "loop" => store.status = "interrupted"
    BY <1>5 DEF Rebuild, Goto
  <2>2. l # "loop" => store.done < Calls
    BY <1>0, <2>1 DEF PausedIsGated, TypeOK
  <2>. QED
    BY <1>0, <1>k, <1>5, <2>1, <2>2 DEF Rebuild, TInv, TypeOK, PausedIsGated, HasCall
<1>6. ASSUME NEW c \in Callers, Dispatch(c)
      PROVE  TInv'
  <2>1. done[c] < Calls /\ done[c] + 1 \in 1..Calls
    BY <1>0, <1>6 DEF Dispatch, HasCall, TypeOK
  <2>. QED
    BY <1>0, <1>k, <1>6, <2>1 DEF Dispatch, Goto, TInv, TypeOK, PausedIsGated, HasCall
<1>7. ASSUME NEW c \in Callers, Record(c)
      PROVE  TInv'
  <2>1. done[c] + 1 \in 0..Calls
    BY <1>0, <1>7 DEF Record, HasCall, TypeOK
  <2>. QED
    BY <1>0, <1>k, <1>7, <2>1 DEF Record, Goto, Put, TInv, TypeOK, PausedIsGated, HasCall, Status
<1>8. ASSUME NEW c \in Callers, Interrupt(c)
      PROVE  TInv'
  <2>1. /\ Leave(c) /\ UNCHANGED <<turns, effects, resumes, cancels>>
        /\ store' = [status |-> "interrupted", done |-> done[c]]
        /\ done[c] + 1 \in Gated
    BY <1>8 DEF Interrupt, Put
  <2>2. store' \in [status : Status, done : 0..Calls] /\ PausedIsGated'
    BY <1>0, <2>1 DEF TypeOK, Status, PausedIsGated
  <2>. QED
    BY <1>0, <1>k, <2>1, <2>2, LeaveStep DEF TInv, TypeOK
<1>9. ASSUME NEW c \in Callers, Answer(c)
      PROVE  TInv'
  BY <1>0, <1>k, <1>9 DEF Answer, Goto, Put, TInv, TypeOK, PausedIsGated, HasCall, Status
<1>11. ASSUME NEW c \in Callers, Commit(c)
       PROVE  TInv'
  <2>1. Leave(c) /\ UNCHANGED <<store, turns, effects, resumes, cancels>>
    BY <1>11 DEF Commit
  <2>. QED
    BY <1>0, <1>k, <2>1, LeaveStep DEF TInv, TypeOK, PausedIsGated
<1>12. ASSUME NEW a \in Agents, Begin(a) \/ End(a) \/ Abandon(a) \/ Close(a)
       PROVE  TInv'
  <2>1. UNCHANGED <<store, locks, pc, approve, done, effects, resumes, cancels>>
    BY <1>12 DEF Begin, End, Abandon, Close, Turn
  <2>2. PICK w \in {"none", "under way", "abandoned"} :
          /\ turns' = [turns EXCEPT ![a] = w]
          /\ turns[a] = "none" => a \in Serialized
    BY <1>12 DEF Begin, End, Abandon, Close, Turn
  <2>3. TurnsOK'
    BY <1>0, <2>2 DEF TypeOK, TurnsOK
  <2>. QED
    BY <1>0, <2>1, <2>3 DEF TInv, TypeOK, PausedIsGated, HasCall
<1>10. ASSUME NEW c \in Callers, Cancel(c)
       PROVE  TInv'
  <2>1. Leave(c) /\ UNCHANGED <<store, turns, effects, resumes>> /\ cancels' \in 0..MaxCancels
    BY <1>0, <1>10 DEF Cancel, TypeOK
  <2>. QED
    BY <1>0, <1>k, <2>1, LeaveStep DEF TInv, TypeOK, PausedIsGated
<1>. QED
  BY <1>1, <1>2, <1>3, <1>4, <1>5, <1>6, <1>7, <1>8, <1>9, <1>10, <1>11, <1>12
  DEF Next, Advance

\* Whatever Agents the tasks call, every variable keeps its type, and of the tasks
\* that call one Agent only the holder of its lock is past the queue.
THEOREM TypeCorrect == Spec => []TypeOK
<1>1. TInv => TypeOK
  BY DEF TInv
<1>. QED
  BY <1>1, InitTInv, NextTInv, PTL DEF Spec

-----------------------------------------------------------------------------
(* One Agent.                                                              *)

\* No two tasks are past the queue at once.
LEMMA Exclusion ==
  ASSUME OneAgent, TypeOK, NEW c \in Callers, pc[c] \notin {"idle", "queued"}
  PROVE  \A d \in Callers : d # c => pc[d] \in {"idle", "queued"}
BY DEF OneAgent, TypeOK

\* While one task is past the queue the others have nothing at stake, so what it
\* does to itself and to the record decides.
LEMMA FreshStep ==
  ASSUME OneAgent, TInv, TInv', NEW c \in Callers, pc[c] \notin {"idle", "queued"},
         \A d \in Callers : d # c => pc'[d] = pc[d],
         pc'[c] \in {"approved", "rejecting", "loop", "called", "commit"} => done'[c] = store'.done,
         pc'[c] = "approved" => store'.status = "interrupted"
  PROVE  ViewIsFresh' /\ ApprovedIsPaused'
<1>1. \A d \in Callers : d # c => pc'[d] \in {"idle", "queued"}
  BY Exclusion DEF TInv
<1>. QED
  BY <1>1 DEF ViewIsFresh, ApprovedIsPaused

LEMMA NextIInv == OneAgent /\ IInv /\ [Next]_vars => IInv'
<1> SUFFICES ASSUME OneAgent, IInv, [Next]_vars
             PROVE  IInv'
  OBVIOUS
<1>0. /\ TInv /\ TInv' /\ TypeOK /\ TypeOK' /\ ViewIsFresh /\ ApprovedIsPaused
  BY NextTInv DEF IInv, TInv
<1>b. \A d \in Callers : done[d] \in Nat
  BY <1>0, StepAssumption DEF TypeOK
<1>a. ASSUME NEW c \in Callers, Leave(c)
      PROVE  pc'[c] = "idle" /\ \A d \in Callers : d # c => pc'[d] = pc[d]
  BY <1>0, <1>a DEF Leave, Goto, TypeOK
<1>1. CASE UNCHANGED vars
  BY <1>0, <1>1 DEF vars, ViewIsFresh, ApprovedIsPaused, IInv
<1>2. ASSUME NEW c \in Callers, Call(c) \/ Acquire(c)
      PROVE  IInv'
  <2>1. /\ UNCHANGED <<store, done>>
        /\ pc'[c] \in {"queued", "load"}
        /\ \A d \in Callers : d # c => pc'[d] = pc[d]
    BY <1>0, <1>2 DEF Call, Acquire, Goto, TypeOK
  <2>. QED
    BY <1>0, <2>1 DEF IInv, ViewIsFresh, ApprovedIsPaused
<1>3. ASSUME NEW c \in Callers, Refuse(c) \/ Interrupt(c) \/ Commit(c)
      PROVE  IInv'
  <2>1. Leave(c) /\ pc[c] \in {"load", "loop", "commit"}
    BY <1>3 DEF Refuse, Interrupt, Commit
  <2>. QED
    BY <1>0, <1>a, <2>1, FreshStep DEF IInv
<1>4. ASSUME NEW c \in Callers, Rebuild(c)
      PROVE  IInv'
  <2>1. /\ pc[c] = "load" /\ done'[c] = store'.done
        /\ pc'[c] = "approved" => store'.status = "interrupted"
        /\ \A d \in Callers : d # c => pc'[d] = pc[d]
    BY <1>0, <1>4 DEF Rebuild, Goto, TypeOK
  <2>. QED
    BY <1>0, <2>1, FreshStep DEF IInv
<1>5. ASSUME NEW c \in Callers, Dispatch(c)
      PROVE  IInv'
  <2>1. /\ pc[c] \in {"approved", "loop"} /\ pc'[c] = "called"
        /\ UNCHANGED <<store, done>>
        /\ \A d \in Callers : d # c => pc'[d] = pc[d]
    BY <1>0, <1>5 DEF Dispatch, Goto, TypeOK
  <2>. QED
    BY <1>0, <2>1, FreshStep DEF IInv, ViewIsFresh
<1>6. ASSUME NEW c \in Callers, Record(c)
      PROVE  IInv'
  <2>1. /\ pc[c] \in {"called", "rejecting"} /\ pc'[c] = "loop"
        /\ done'[c] = done[c] + 1 /\ store'.done = done[c] + 1
        /\ \A d \in Callers : d # c => pc'[d] = pc[d]
    BY <1>0, <1>6 DEF Record, Goto, Put, TypeOK
  <2>. QED
    BY <1>0, <2>1, FreshStep DEF IInv
<1>7. ASSUME NEW c \in Callers, Cancel(c)
      PROVE  IInv'
  <2>1. Leave(c) /\ UNCHANGED store
        /\ \A d \in Callers : d # c => done'[d] = done[d]
    BY <1>0, <1>7 DEF Cancel, Leave, TypeOK
  <2>. QED
    BY <1>0, <1>a, <2>1 DEF IInv, ViewIsFresh, ApprovedIsPaused
<1>8. ASSUME NEW c \in Callers, Answer(c)
      PROVE  IInv'
  <2>1. /\ pc[c] = "loop" /\ pc'[c] = "commit"
        /\ done'[c] = store'.done
        /\ \A d \in Callers : d # c => pc'[d] = pc[d]
    BY <1>0, <1>8 DEF Answer, Goto, Put, TypeOK
  <2>. QED
    BY <1>0, <2>1, FreshStep DEF IInv
<1>9. ASSUME NEW a \in Agents, Begin(a) \/ End(a) \/ Abandon(a) \/ Close(a)
      PROVE  IInv'
  BY <1>0, <1>9 DEF Begin, End, Abandon, Close, Turn, IInv, ViewIsFresh, ApprovedIsPaused
<1>. QED
  BY <1>1, <1>2, <1>3, <1>4, <1>5, <1>6, <1>7, <1>8, <1>9 DEF Next, Advance

LEMMA Invariance == OneAgent /\ Spec => []IInv
<1> SUFFICES ASSUME OneAgent
             PROVE  Spec => []IInv
  OBVIOUS
<1>1. Init => IInv
  BY InitTInv DEF Init, IInv, ViewIsFresh, ApprovedIsPaused
<1>2. IInv /\ [Next]_vars => IInv'
  BY NextIInv
<1>. QED
  BY <1>1, <1>2, PTL DEF Spec

\* Resumes through one Agent take turns, and each works on the results the
\* checkpoint holds from its read to its last write.
THEOREM TurnsTaken == OneAgent /\ Spec => []TurnsAreTaken
<1>1. IInv => TurnsAreTaken
  BY DEF IInv, TInv, TurnsAreTaken
<1>. QED
  BY <1>1, Invariance, PTL

\* A step of such a resume neither shortens the record nor repeats what it
\* settles, and dispatches a gated call only while the thread waits at it.
LEMMA StepFits ==
  ASSUME IInv, [Next]_vars
  PROVE  /\ store.done <= store'.done
         /\ \A i \in 1..store.done : effects'[i] = effects[i]
         /\ \A i \in Gated : effects'[i] # effects[i]
              => store = [status |-> "interrupted", done |-> i - 1]
<1>0. /\ TypeOK /\ PausedIsGated /\ HasCall /\ ViewIsFresh /\ ApprovedIsPaused
      /\ store.done \in Nat /\ \A d \in Callers : done[d] \in Nat
      /\ store = [status |-> store.status, done |-> store.done]
  BY StepAssumption DEF IInv, TInv, TypeOK
<1>1. CASE UNCHANGED <<store, effects>>
  BY <1>0, <1>1
<1>2. ASSUME NEW c \in Callers, Dispatch(c)
      PROVE  /\ store' = store
             /\ \A i \in 1..store.done : effects'[i] = effects[i]
             /\ \A i \in Gated : effects'[i] # effects[i]
                  => store = [status |-> "interrupted", done |-> i - 1]
  <2>1. /\ done[c] = store.done /\ effects' = [effects EXCEPT ![done[c] + 1] = @ + 1]
        /\ store' = store
        /\ done[c] + 1 \in Gated => store.status = "interrupted"
    BY <1>0, <1>2 DEF Dispatch, ViewIsFresh, ApprovedIsPaused
  <2>2. \A i \in 1..Calls : i # store.done + 1 => effects'[i] = effects[i]
    BY <1>0, <2>1 DEF TypeOK
  <2>3. \A i \in Gated : effects'[i] # effects[i] => i = store.done + 1
    BY <2>2, StepAssumption
  <2>4. \A i \in 1..store.done : i \in 1..Calls /\ i # store.done + 1
    BY <1>0, StepAssumption DEF TypeOK
  <2>. QED
    BY <1>0, <2>1, <2>2, <2>3, <2>4
<1>3. ASSUME NEW c \in Callers, Refuse(c) \/ Record(c) \/ Interrupt(c) \/ Answer(c)
      PROVE  store.done <= store'.done /\ UNCHANGED effects
  <2>1. CASE Refuse(c)
    BY <1>0, <2>1 DEF Refuse, Put
  <2>2. CASE Record(c) \/ Interrupt(c) \/ Answer(c)
    <3>1. done[c] = store.done
      BY <1>0, <2>2 DEF ViewIsFresh, Record, Interrupt, Answer
    <3>. QED
      BY <1>0, <2>2, <3>1 DEF Record, Interrupt, Answer, Put
  <2>. QED
    BY <1>3, <2>1, <2>2
<1>4. ASSUME NEW c \in Callers, Call(c) \/ Acquire(c) \/ Rebuild(c) \/ Commit(c) \/ Cancel(c)
      PROVE  UNCHANGED <<store, effects>>
  BY <1>4 DEF Call, Acquire, Rebuild, Commit, Cancel
<1>5. ASSUME NEW a \in Agents, Begin(a) \/ End(a) \/ Abandon(a) \/ Close(a)
      PROVE  UNCHANGED <<store, effects>>
  BY <1>5 DEF Begin, End, Abandon, Close, Turn
<1>6. CASE UNCHANGED vars
  BY <1>1, <1>6 DEF vars
<1>7. ASSUME NEW c \in Callers, Advance(c)
      PROVE  \/ Call(c) \/ Acquire(c) \/ Rebuild(c) \/ Commit(c) \/ Cancel(c) \/ Dispatch(c)
             \/ Refuse(c) \/ Record(c) \/ Interrupt(c) \/ Answer(c)
  BY <1>7 DEF Advance
<1>8. CASE \E c \in Callers : Call(c) \/ Advance(c) \/ Cancel(c)
  <2> PICK c \in Callers : Call(c) \/ Advance(c) \/ Cancel(c)
    BY <1>8
  <2>1. CASE UNCHANGED <<store, effects>>
    BY <1>1, <2>1
  <2>2. CASE Dispatch(c)
    BY <1>0, <1>2, <2>2
  <2>3. CASE Refuse(c) \/ Record(c) \/ Interrupt(c) \/ Answer(c)
    BY <1>3, <2>3
  <2>. QED
    BY <1>4, <1>7, <2>1, <2>2, <2>3
<1>. QED
  BY <1>1, <1>5, <1>6, <1>8 DEF Next

\* Resumes through one Agent replay what the record holds, overwrite none of it,
\* and spend an approval only on the call the thread waits at.
THEOREM DispatchesFit == OneAgent /\ Spec => DispatchesFitTheRecord
BY StepFits, Invariance, PTL DEF Spec, DispatchesFitTheRecord

-----------------------------------------------------------------------------
(* What a resume waits for, whichever Agents the tasks call: a task that   *)
(* is under way has a next step, or waits for a task or a turn that has,   *)
(* or else an abandoned stream holds its Agent.                            *)

\* The guards of Advance, one for each of its steps.
CanAdvance(c) ==
  \/ pc[c] = "queued" /\ locks[AgentOf[c]] = Nobody
  \/ pc[c] = "load" /\ store.status \in {"completed", "failed"}
  \/ pc[c] = "load" /\ store.status = "interrupted"
  \/ /\ pc[c] = "load" /\ store.status = "running"
     /\ \/ store.done < Calls /\ store.done + 1 \notin Idempotent
        \/ store.done = Calls \/ store.done + 1 \in Idempotent
  \/ pc[c] = "loop" /\ done[c] < Calls /\ (done[c] + 1 \in Gated \/ done[c] + 1 \notin Gated)
  \/ pc[c] = "loop" /\ done[c] = Calls
  \/ pc[c] \in {"approved", "called", "rejecting"}
  \/ pc[c] = "commit" /\ turns[AgentOf[c]] = "none"

\* A resume can go on, or it is through and waits for a turn of its Agent that can
\* end.
GoesOn(c) ==
  \/ CanAdvance(c)
  \/ pc[c] = "commit" /\ turns[AgentOf[c]] = "under way"

\* No lock is left behind: whoever queues at the thread's lock waits for the task that
\* has it, which goes on. Only where the Agent's own _lock is held by an abandoned
\* stream a resume waits for nobody, and this happens to serialized Agents alone.
OnlyStreamsBlock ==
  \A c \in Callers : pc[c] # "idle" =>
    \/ GoesOn(c)
    \/ pc[c] = "queued" /\ \E d \in Callers : locks[AgentOf[c]] = d /\ GoesOn(d)
    \/ HeldByStream(AgentOf[c]) /\ AgentOf[c] \in Serialized

\* A lock is held by one of its own Agent's tasks.
OwnLocks == \A a \in Agents : locks[a] # Nobody => AgentOf[locks[a]] = a

LEMMA OwnLocksStep == TInv /\ OwnLocks /\ [Next]_vars => OwnLocks'
<1> SUFFICES ASSUME TInv, OwnLocks, [Next]_vars
             PROVE  OwnLocks'
  OBVIOUS
<1>1. locks \in [Agents -> Callers \cup {Nobody}]
  BY DEF TInv, TypeOK
<1>2. CASE UNCHANGED locks
  BY <1>2 DEF OwnLocks
<1>3. ASSUME NEW c \in Callers, Acquire(c)
      PROVE  OwnLocks'
  BY <1>1, <1>3 DEF Acquire, OwnLocks, Agents
<1>4. ASSUME NEW c \in Callers, Leave(c)
      PROVE  OwnLocks'
  BY <1>1, <1>4 DEF Leave, OwnLocks
<1>. QED
  BY <1>2, <1>3, <1>4
  DEF Next, Advance, Call, Refuse, Rebuild, Dispatch, Record, Interrupt, Answer, Commit,
      Cancel, Begin, End, Abandon, Close, Turn, vars

\* What is left to do of a resume that stands at a label with so many results.
Todo(label, n) ==
  CASE label = "queued" -> 2 * Calls + 4
    [] label = "load" -> 2 * Calls + 3
    [] label \in {"approved", "loop"} -> 2 * (Calls - n) + 2
    [] label \in {"called", "rejecting"} -> 2 * (Calls - n) + 1
    [] label = "commit" -> 1
    [] OTHER -> 0
Left(c) == Todo(pc[c], done[c])

LEMMA TodoFacts ==
  ASSUME NEW label \in {"idle", "queued", "load", "approved", "rejecting", "loop", "called",
                       "commit"},
         NEW n \in 0..Calls
  PROVE  /\ n \in Nat /\ Calls \in Nat /\ n <= Calls
         /\ label = "queued" => Todo(label, n) = 2 * Calls + 4
         /\ label = "load" => Todo(label, n) = 2 * Calls + 3
         /\ label \in {"approved", "loop"} => Todo(label, n) = 2 * (Calls - n) + 2
         /\ label \in {"called", "rejecting"} => Todo(label, n) = 2 * (Calls - n) + 1
         /\ label = "commit" => Todo(label, n) = 1
         /\ Todo(label, n) \in 0..(2 * Calls + 4)
<1>1. Calls \in Nat /\ n \in Nat /\ n <= Calls
  BY StepAssumption
<1>2. /\ label = "queued" => Todo(label, n) = 2 * Calls + 4
      /\ label = "load" => Todo(label, n) = 2 * Calls + 3
      /\ label \in {"approved", "loop"} => Todo(label, n) = 2 * (Calls - n) + 2
      /\ label \in {"called", "rejecting"} => Todo(label, n) = 2 * (Calls - n) + 1
      /\ label = "commit" => Todo(label, n) = 1
      /\ label = "idle" => Todo(label, n) = 0
  BY DEF Todo
<1>3. \A m, k \in Nat : k <= m =>
        /\ 2 * (m - k) + 2 \in 0..(2 * m + 4) /\ 2 * (m - k) + 1 \in 0..(2 * m + 4)
        /\ 2 * m + 4 \in 0..(2 * m + 4) /\ 2 * m + 3 \in 0..(2 * m + 4)
        /\ 1 \in 0..(2 * m + 4) /\ 0 \in 0..(2 * m + 4)
  OBVIOUS
<1>4. /\ 2 * (Calls - n) + 2 \in 0..(2 * Calls + 4) /\ 2 * (Calls - n) + 1 \in 0..(2 * Calls + 4)
      /\ 2 * Calls + 4 \in 0..(2 * Calls + 4) /\ 2 * Calls + 3 \in 0..(2 * Calls + 4)
      /\ 1 \in 0..(2 * Calls + 4) /\ 0 \in 0..(2 * Calls + 4)
  BY <1>1, <1>3
<1>. QED
  BY <1>1, <1>2, <1>4

LEMMA LeftFacts ==
  ASSUME TypeOK, TypeOK', NEW c \in Callers
  PROVE  /\ Left(c) \in Nat /\ Left(c)' \in Nat
         /\ Left(c) = Todo(pc[c], done[c]) /\ Left(c)' = Todo(pc'[c], done'[c])
         /\ pc[c] \in {"idle", "queued", "load", "approved", "rejecting", "loop", "called", "commit"}
         /\ pc'[c] \in {"idle", "queued", "load", "approved", "rejecting", "loop", "called", "commit"}
         /\ done[c] \in 0..Calls /\ done'[c] \in 0..Calls
<1>1. /\ pc[c] \in {"idle", "queued", "load", "approved", "rejecting", "loop", "called", "commit"}
      /\ pc'[c] \in {"idle", "queued", "load", "approved", "rejecting", "loop", "called", "commit"}
      /\ done[c] \in 0..Calls /\ done'[c] \in 0..Calls
  BY DEF TypeOK
<1>2. Left(c) \in 0..(2 * Calls + 4) /\ Left(c)' \in 0..(2 * Calls + 4)
  BY <1>1, TodoFacts DEF Left
<1>3. \A x \in 0..(2 * Calls + 4) : x \in Nat
  BY StepAssumption
<1>. QED
  BY <1>1, <1>2, <1>3 DEF Left

LEMMA AdvanceRunsDown ==
  ASSUME TypeOK, TypeOK', NEW c \in Callers, Advance(c)
  PROVE  pc'[c] = "idle" \/ Left(c)' < Left(c)
<1>1. /\ Left(c) = Todo(pc[c], done[c]) /\ Left(c)' = Todo(pc'[c], done'[c])
      /\ pc[c] \in {"idle", "queued", "load", "approved", "rejecting", "loop", "called", "commit"}
      /\ pc'[c] \in {"idle", "queued", "load", "approved", "rejecting", "loop", "called", "commit"}
      /\ done[c] \in 0..Calls /\ done'[c] \in 0..Calls /\ Calls \in Nat
  BY LeftFacts, StepAssumption
<1>2. CASE Acquire(c)
  <2>1. pc[c] = "queued" /\ pc'[c] = "load"
    BY <1>2 DEF Acquire, Goto, TypeOK
  <2>2. Left(c) = 2 * Calls + 4 /\ Left(c)' = 2 * Calls + 3
    BY <1>1, <2>1, TodoFacts
  <2>. QED
    BY <1>1, <2>2
<1>3. CASE Refuse(c) \/ Interrupt(c) \/ Commit(c)
  BY <1>3 DEF Refuse, Interrupt, Commit, Leave, Goto, TypeOK
<1>4. CASE Rebuild(c)
  <2>1. pc[c] = "load" /\ pc'[c] \in {"approved", "rejecting", "loop"}
    BY <1>4 DEF Rebuild, Goto, TypeOK
  <2>2. /\ Left(c) = 2 * Calls + 3
        /\ \/ Left(c)' = 2 * (Calls - done'[c]) + 2
           \/ Left(c)' = 2 * (Calls - done'[c]) + 1
    BY <1>1, <2>1, TodoFacts
  <2>. QED
    BY <1>1, <2>2
<1>5. CASE Dispatch(c)
  <2>1. pc[c] \in {"approved", "loop"} /\ pc'[c] = "called" /\ done'[c] = done[c]
    BY <1>5 DEF Dispatch, Goto, TypeOK
  <2>2. Left(c) = 2 * (Calls - done[c]) + 2 /\ Left(c)' = 2 * (Calls - done[c]) + 1
    BY <1>1, <2>1, TodoFacts
  <2>. QED
    BY <1>1, <2>2
<1>6. CASE Record(c)
  <2>1. pc[c] \in {"called", "rejecting"} /\ pc'[c] = "loop" /\ done'[c] = done[c] + 1
    BY <1>6 DEF Record, Goto, TypeOK
  <2>2. Left(c) = 2 * (Calls - done[c]) + 1 /\ Left(c)' = 2 * (Calls - (done[c] + 1)) + 2
    BY <1>1, <2>1, TodoFacts
  <2>. QED
    BY <1>1, <2>2
<1>7. CASE Answer(c)
  <2>1. pc[c] = "loop" /\ pc'[c] = "commit"
    BY <1>7 DEF Answer, Goto, TypeOK
  <2>2. Left(c) = 2 * (Calls - done[c]) + 2 /\ Left(c)' = 1
    BY <1>1, <2>1, TodoFacts
  <2>. QED
    BY <1>1, <2>2
<1>. QED
  BY <1>2, <1>3, <1>4, <1>5, <1>6, <1>7 DEF Advance

\* Nothing but an abandoned stream of a serialized Agent leaves a resume with nobody to
\* wait for: the thread's lock is held by a task past the queue (agent.py:456), and that
\* task has a step to take or waits, to commit (agent.py:735), for a turn of the Agent
\* that is under way. Each of a task's own steps lowers what is left of its resume by at
\* least one, no step of another task or turn raises it, and 2 * Calls + 4 of them end it.
THEOREM ResumesRunDown ==
  Spec => /\ [](OnlyStreamsBlock /\ \A c \in Callers : Left(c) \in 0..(2 * Calls + 4))
          /\ [][\A c \in Callers :
                  /\ Advance(c) => pc'[c] = "idle" \/ Left(c)' < Left(c)
                  /\ pc[c] # "idle" => pc'[c] = "idle" \/ Left(c)' <= Left(c)]_vars
<1>1. ASSUME TInv, NEW c \in Callers, pc[c] \notin {"idle", "queued"}
      PROVE  GoesOn(c) \/ (HeldByStream(AgentOf[c]) /\ AgentOf[c] \in Serialized)
  <2>1. /\ pc[c] \in {"load", "approved", "rejecting", "loop", "called", "commit"}
        /\ store.status \in Status /\ store.done \in 0..Calls /\ done[c] \in 0..Calls
        /\ Calls \in Nat
    BY <1>1, StepAssumption DEF TInv, TypeOK
  <2>2. CASE pc[c] # "commit"
    <3>1. CanAdvance(c)
      BY <2>1, <2>2 DEF CanAdvance, Status
    <3>. QED
      BY <3>1 DEF GoesOn
  <2>3. CASE pc[c] = "commit"
    <3>1. /\ turns[AgentOf[c]] \in {"none", "under way", "abandoned"}
          /\ turns[AgentOf[c]] # "none" => AgentOf[c] \in Serialized
      BY <1>1 DEF TInv, TypeOK, TurnsOK, Agents
    <3>2. turns[AgentOf[c]] = "none" => CanAdvance(c)
      BY <2>3 DEF CanAdvance
    <3>3. turns[AgentOf[c]] = "abandoned" => HeldByStream(AgentOf[c])
      BY <2>3 DEF HeldByStream
    <3>. QED
      BY <2>3, <3>1, <3>2, <3>3 DEF GoesOn
  <2>. QED
    BY <2>2, <2>3
<1>2. ASSUME TInv, OwnLocks
      PROVE  OnlyStreamsBlock
  <2> SUFFICES ASSUME NEW c \in Callers, pc[c] = "queued", locks[AgentOf[c]] # Nobody
               PROVE  \/ \E d \in Callers : locks[AgentOf[c]] = d /\ GoesOn(d)
                      \/ HeldByStream(AgentOf[c]) /\ AgentOf[c] \in Serialized
    <3>1. ASSUME NEW c \in Callers, pc[c] = "queued", locks[AgentOf[c]] = Nobody
          PROVE  GoesOn(c)
      BY <3>1 DEF GoesOn, CanAdvance
    <3>. QED
      BY <1>1, <1>2, <3>1 DEF OnlyStreamsBlock
  <2>1. AgentOf[c] \in Agents
    BY DEF Agents
  <2>2. PICK d \in Callers : locks[AgentOf[c]] = d
    BY <1>2, <2>1 DEF TInv, TypeOK
  <2>3. locks[AgentOf[d]] = d /\ AgentOf[d] = AgentOf[c]
    BY <1>2, <2>1, <2>2 DEF OwnLocks
  <2>4. pc[d] \notin {"idle", "queued"}
    BY <1>2, <2>3 DEF TInv, TypeOK
  <2>. QED
    BY <1>1, <1>2, <2>2, <2>3, <2>4
<1>3. ASSUME TInv, NEW c \in Callers
      PROVE  Left(c) \in 0..(2 * Calls + 4)
  <2>1. /\ pc[c] \in {"idle", "queued", "load", "approved", "rejecting", "loop", "called", "commit"}
        /\ done[c] \in 0..Calls
    BY <1>3 DEF TInv, TypeOK
  <2>. QED
    BY <2>1, TodoFacts DEF Left
<1>4. ASSUME TInv, TInv', Next
      PROVE  \A c \in Callers :
               /\ Advance(c) => pc'[c] = "idle" \/ Left(c)' < Left(c)
               /\ pc[c] # "idle" => pc'[c] = "idle" \/ Left(c)' <= Left(c)
  <2> TAKE c \in Callers
  <2>1. Advance(c) => pc'[c] = "idle" \/ Left(c)' < Left(c)
    BY <1>4, AdvanceRunsDown DEF TInv
  <2>2. Left(c) \in Nat /\ Left(c)' \in Nat
    BY <1>4, LeftFacts DEF TInv
  <2>3. CASE \E a \in Agents : Begin(a) \/ End(a) \/ Abandon(a) \/ Close(a)
    <3>1. UNCHANGED <<pc, done>>
      BY <2>3 DEF Begin, End, Abandon, Close, Turn
    <3>2. Left(c)' = Left(c)
      BY <3>1 DEF Left
    <3>. QED
      BY <2>1, <2>2, <3>2
  <2>6. CASE \E d \in Callers : Call(d) \/ Advance(d) \/ Cancel(d)
   <3> PICK d \in Callers : Call(d) \/ Advance(d) \/ Cancel(d)
    BY <2>6
   <3>4. CASE d # c
    <4>1. pc'[c] = pc[c] /\ done'[c] = done[c]
      BY <1>4, <3>4 DEF TInv, TypeOK, Call, Advance, Cancel, Acquire, Refuse, Rebuild,
         Dispatch, Record, Interrupt, Answer, Commit, Leave, Goto
    <4>2. Left(c)' = Left(c)
      BY <4>1 DEF Left
    <4>. QED
      BY <2>1, <2>2, <4>2
   <3>5. CASE d = c
    <4>1. Call(c) => pc[c] = "idle"
      BY DEF Call
    <4>2. Cancel(c) => pc'[c] = "idle"
      BY <1>4 DEF Cancel, Leave, Goto, TInv, TypeOK
    <4>. QED
      BY <2>1, <2>2, <3>5, <4>1, <4>2
   <3>. QED
    BY <3>4, <3>5
  <2>. QED
    BY <1>4, <2>3, <2>6 DEF Next
<1>5. Init => OwnLocks
  BY DEF Init, OwnLocks
<1>6. TInv /\ TInv' /\ [Next]_vars =>
        [\A c \in Callers :
           /\ Advance(c) => pc'[c] = "idle" \/ Left(c)' < Left(c)
           /\ pc[c] # "idle" => pc'[c] = "idle" \/ Left(c)' <= Left(c)]_vars
  BY <1>4
<1>7. TInv /\ OwnLocks => OnlyStreamsBlock /\ \A c \in Callers : Left(c) \in 0..(2 * Calls + 4)
  BY <1>2, <1>3
<1>. QED
  BY <1>5, <1>6, <1>7, InitTInv, NextTInv, OwnLocksStep, PTL DEF Spec
=============================================================================
