---------------------------- MODULE ResumeLocks -----------------------------
(***************************************************************************)
(* Concurrent resumes of one thread within a process: Agent.resume and     *)
(* _resume_guard of src/src/actants/agents/agent.py.                       *)
(*                                                                         *)
(* Several tasks of one event loop resume the same thread_id, on the same  *)
(* Agent or on Agents of their own that share the checkpointer; they take  *)
(* turns wherever the code awaits, and any of them may be cancelled.  A    *)
(* resume that is through commits its turn to the memory of its Agent, for *)
(* which it takes Agent._lock while it still holds the thread's lock.      *)
(*                                                                         *)
(* Simplifications:                                                        *)
(*  - the thread was paused or crashed at the first call of its last step, *)
(*    and the model's completion after that step is its final answer;      *)
(*  - nothing raises but an unresolved call, nobody acknowledges a failure *)
(*    and nobody overrides resolve="abort" (AgentDurable covers both);     *)
(*  - what an Agent's own turns, its run()s and stream()s, do but hold     *)
(*    Agent._lock is AgentMemory's; none of them resumes the thread;       *)
(*  - the process lives on, and no run() of the thread is still under way. *)
(***************************************************************************)
EXTENDS Integers

CONSTANTS
  Callers,      \* the tasks that resume the thread
  AgentOf,      \* the Agent each of them calls
  Serialized,   \* of those, the ones built with concurrency="serialized"
  Nobody,       \* the holder of a free lock
  Calls,        \* how many calls the thread's last step asked for
  Gated,        \* the positions of those that need an approval
  Idempotent,   \* of those that are safe to repeat
  MaxResumes,   \* bound: resumes of the thread
  MaxCancels    \* bound: cancellations

ASSUME StepAssumption ==
  /\ Calls \in Nat \ {0}
  /\ Gated \subseteq 1..Calls
  /\ Idempotent \subseteq 1..Calls
  /\ Nobody \notin Callers
  /\ DOMAIN AgentOf = Callers

ASSUME BoundsAssumption == MaxResumes \in Nat /\ MaxCancels \in Nat

Agents == {AgentOf[c] : c \in Callers}

ASSUME ModesAssumption == Serialized \subseteq Agents

VARIABLES
  store,        \* the checkpoint: status and number of results
  locks,        \* each Agent's lock of the thread
  turns,        \* the run() or stream() that holds each Agent's _lock across awaits
  pc,           \* where each task stands
  approve,      \* its resume's approve=
  done,         \* the results its rebuilt run holds
  effects,      \* history: how often each call reached its tool
  resumes, cancels   \* counters of the bounds

vars == <<store, locks, turns, pc, approve, done, effects, resumes, cancels>>

\* approve=None, True or False.
NoAnswer == "nothing"
Answers  == {"yes", "no"}

Status == {"running", "interrupted", "completed", "failed"}

\* The first call is pending, or was in flight when the process died.
Init ==
  /\ store = [status |-> IF 1 \in Gated THEN "interrupted" ELSE "running", done |-> 0]
  /\ effects \in [1..Calls -> {0, 1}]
  /\ \A i \in 1..Calls : (i > 1 \/ i \in Gated) => effects[i] = 0
  /\ locks = [a \in Agents |-> Nobody]
  /\ turns = [a \in Agents |-> "none"]
  /\ pc = [c \in Callers |-> "idle"]
  /\ approve = [c \in Callers |-> NoAnswer]
  /\ done = [c \in Callers |-> 0]
  /\ resumes = 0 /\ cancels = 0

-----------------------------------------------------------------------------
(* What the steps have in common.                                          *)

Goto(c, label) == pc' = [pc EXCEPT ![c] = label]

Put(status, n) == store' = [status |-> status, done |-> n]

\* The resume returns or raises: its arguments and its run go, and the async with
\* releases the lock if the task holds it.
Leave(c) ==
  /\ Goto(c, "idle")
  /\ approve' = [approve EXCEPT ![c] = NoAnswer]
  /\ done' = [done EXCEPT ![c] = 0]
  /\ locks' = [a \in Agents |-> IF locks[a] = c THEN Nobody ELSE locks[a]]

-----------------------------------------------------------------------------
(* resume.                                                                 *)

\* A task calls resume; if it saw the thread paused it says approve=True, or
\* approve=False, of the call it was shown.
Call(c) ==
  /\ pc[c] = "idle" /\ resumes < MaxResumes
  /\ store.status \in {"running", "interrupted"}
  /\ resumes' = resumes + 1
  /\ \E a \in IF store.status = "interrupted" THEN Answers ELSE {NoAnswer} :
       approve' = [approve EXCEPT ![c] = a]
  /\ Goto(c, "queued")
  /\ UNCHANGED <<store, locks, turns, done, effects, cancels>>

\* Mutant: no lock is taken.
Acquire_Never(c) ==
  /\ pc[c] = "queued"
  /\ Goto(c, "load")
  /\ UNCHANGED <<store, locks, turns, approve, done, effects, resumes, cancels>>

\* async with self._resume_guard(thread_id).
Acquire(c) ==
  /\ pc[c] = "queued" /\ locks[AgentOf[c]] = Nobody
  /\ locks' = [locks EXCEPT ![AgentOf[c]] = c]
  /\ Goto(c, "load")
  /\ UNCHANGED <<store, turns, approve, done, effects, resumes, cancels>>

\* The checkpoint is read, and the thread refused, its result returned, an answer to
\* its pause asked for, or the call that was in flight when it died surfaced as
\* UnresolvedToolCallError.
Refuse(c) ==
  /\ pc[c] = "load"
  /\ \/ store.status \in {"completed", "failed"} /\ UNCHANGED store
     \/ store.status = "interrupted" /\ approve[c] = NoAnswer /\ UNCHANGED store
     \/ /\ store.status = "running"
        /\ store.done < Calls /\ store.done + 1 \notin Idempotent
        /\ Put("failed", store.done)
  /\ Leave(c)
  /\ UNCHANGED <<turns, effects, resumes, cancels>>

\* Or the run is rebuilt from it.
Rebuild(c) ==
  /\ pc[c] = "load"
  /\ \/ /\ store.status = "interrupted" /\ approve[c] # NoAnswer
        /\ Goto(c, IF approve[c] = "yes" THEN "approved" ELSE "rejecting")
     \/ /\ store.status = "running"
        /\ store.done = Calls \/ store.done + 1 \in Idempotent
        /\ Goto(c, "loop")
  /\ done' = [done EXCEPT ![c] = store.done]
  /\ UNCHANGED <<store, locks, turns, approve, effects, resumes, cancels>>

\* The next call is dispatched: approved, or not in need of it.
Dispatch(c) ==
  /\ \/ pc[c] = "approved"
     \/ pc[c] = "loop" /\ done[c] < Calls /\ done[c] + 1 \notin Gated
  /\ effects' = [effects EXCEPT ![done[c] + 1] = @ + 1]
  /\ Goto(c, "called")
  /\ UNCHANGED <<store, locks, turns, approve, done, resumes, cancels>>

\* The next call's result, or its rejection, becomes durable.
Record(c) ==
  /\ pc[c] \in {"called", "rejecting"}
  /\ done' = [done EXCEPT ![c] = @ + 1]
  /\ Put("running", done[c] + 1)
  /\ Goto(c, "loop")
  /\ UNCHANGED <<locks, turns, approve, effects, resumes, cancels>>

\* Mutant: the lock is kept by a resume that pauses.
Interrupt_KeepsLock(c) ==
  /\ pc[c] = "loop" /\ done[c] < Calls /\ done[c] + 1 \in Gated
  /\ Put("interrupted", done[c])
  /\ Goto(c, "idle")
  /\ UNCHANGED <<locks, turns, approve, done, effects, resumes, cancels>>

\* The next call is gated: pause again.
Interrupt(c) ==
  /\ pc[c] = "loop" /\ done[c] < Calls /\ done[c] + 1 \in Gated
  /\ Put("interrupted", done[c])
  /\ Leave(c)
  /\ UNCHANGED <<turns, effects, resumes, cancels>>

\* The step is finished and the model answers.
Answer(c) ==
  /\ pc[c] = "loop" /\ done[c] = Calls
  /\ Put("completed", done[c])
  /\ Goto(c, "commit")
  /\ UNCHANGED <<locks, turns, approve, done, effects, resumes, cancels>>

\* _commit_turn: async with self._lock, inside which nothing awaits, and the resume
\* returns.
Commit(c) ==
  /\ pc[c] = "commit" /\ turns[AgentOf[c]] = "none"
  /\ Leave(c)
  /\ UNCHANGED <<store, turns, effects, resumes, cancels>>

\* The task is cancelled at an await, in the queue of either lock or between them.
Cancel(c) ==
  /\ pc[c] # "idle" /\ cancels < MaxCancels
  /\ cancels' = cancels + 1
  /\ Leave(c)
  /\ UNCHANGED <<store, turns, effects, resumes>>

-----------------------------------------------------------------------------
(* Turns of the Agents' own. In isolated mode they hold Agent._lock for no  *)
(* await; in serialized mode from their first step to their last.           *)

Turn(a, from, to) ==
  /\ turns[a] = from
  /\ turns' = [turns EXCEPT ![a] = to]
  /\ UNCHANGED <<store, locks, pc, approve, done, effects, resumes, cancels>>

\* _turn takes the lock; the turn returns or raises.
Begin(a) == a \in Serialized /\ Turn(a, "none", "under way")
End(a)   == Turn(a, "under way", "none")

\* The consumer of a stream stops iterating, and perhaps closes it later.
Abandon(a) == Turn(a, "under way", "abandoned")
Close(a)   == Turn(a, "abandoned", "none")

-----------------------------------------------------------------------------
Advance(c) ==
  \/ Acquire(c) \/ Refuse(c) \/ Rebuild(c) \/ Dispatch(c)
  \/ Record(c) \/ Interrupt(c) \/ Answer(c) \/ Commit(c)

Next ==
  \/ \E c \in Callers : Call(c) \/ Advance(c) \/ Cancel(c)
  \/ \E a \in Agents : Begin(a) \/ End(a) \/ Abandon(a) \/ Close(a)

Spec == Init /\ [][Next]_vars

\* The event loop runs every task, asyncio.Lock wakes its waiters in turn, and
\* what they await answers; nobody has to close a stream.
FairSpec ==
  /\ Spec
  /\ \A c \in Callers : WF_vars(Advance(c)) /\ SF_vars(Acquire(c)) /\ SF_vars(Commit(c))
  /\ \A a \in Agents : WF_vars(End(a))

-----------------------------------------------------------------------------
(* Properties.                                                             *)

TurnsOK ==
  /\ turns \in [Agents -> {"none", "under way", "abandoned"}]
  /\ \A a \in Agents : turns[a] # "none" => a \in Serialized

\* Every variable has its type, a lock is held by the one task past its queue, and
\* only a serialized turn holds its Agent's _lock across awaits.
TypeOK ==
  /\ store \in [status : Status, done : 0..Calls]
  /\ locks \in [Agents -> Callers \cup {Nobody}]
  /\ TurnsOK
  /\ pc \in [Callers -> {"idle", "queued", "load", "approved", "rejecting",
                         "loop", "called", "commit"}]
  /\ approve \in [Callers -> {NoAnswer} \cup Answers]
  /\ done \in [Callers -> 0..Calls]
  /\ effects \in [1..Calls -> Nat]
  /\ resumes \in 0..MaxResumes /\ cancels \in 0..MaxCancels
  /\ \A c \in Callers : locks[AgentOf[c]] = c <=> pc[c] \notin {"idle", "queued"}

\* "So the read-decide-dispatch sequence cannot interleave": from its read to its
\* last write a resume works on the results the checkpoint holds.
ViewIsFresh ==
  \A c \in Callers :
    pc[c] \in {"approved", "rejecting", "loop", "called", "commit"} => done[c] = store.done

\* Resumes take turns: one at a time is past the queue, on what is stored.
TurnsAreTaken == TypeOK /\ ViewIsFresh

\* "Every tool call whose result was recorded is replayed and never dispatched
\* again", no result is overwritten by a resume that knew fewer, and an approval,
\* whichever pause it was given for, is spent while the thread waits at the very
\* call it lets through.
DispatchesFitTheRecord ==
  [][/\ store.done <= store'.done
     /\ \A i \in 1..store.done : effects'[i] = effects[i]
     /\ \A i \in Gated :
          effects'[i] # effects[i] => store = [status |-> "interrupted", done |-> i - 1]]_vars

\* A resume that is through cannot commit: the Agent's _lock is held by a stream
\* nobody reads any more.
HeldByStream(a) ==
  turns[a] = "abandoned" /\ \E c \in Callers : AgentOf[c] = a /\ pc[c] = "commit"

\* Every resume ends: the lock is handed on by those that return, raise, pause or
\* are cancelled. Only a stream that is abandoned for good stops them, at the commit
\* of one and in the queue behind it.
EveryResumeEnds ==
  \A c \in Callers :
    (pc[c] # "idle" ~> pc[c] = "idle") \/ <>[]HeldByStream(AgentOf[c])
=============================================================================
