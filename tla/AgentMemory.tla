---------------------------- MODULE AgentMemory -----------------------------
(***************************************************************************)
(* The conversation memory of one Agent, shared by every run(), stream()   *)
(* and resume() called on it, in both of its concurrency modes             *)
(* (src/src/actants/agents/agent.py, agents/memory.py).                    *)
(*                                                                         *)
(* Any number of calls are under way at once on the event loop and take    *)
(* turns wherever the code awaits; any of them may raise, be cancelled, be *)
(* abandoned by the consumer of its stream, pause and be resumed.          *)
(*                                                                         *)
(* Simplifications:                                                        *)
(*  - a turn is one prompt, run once and under a thread_id of its own (a   *)
(*    streamed turn has none), and resumed only when its call is over;     *)
(*  - a message is its turn and its kind, a completion asks for one call,  *)
(*    of a guarded tool or of another one;                                 *)
(*  - system messages are counted, and where they stand in a history is    *)
(*    left open; the memory starts with one: an agent replaces a memory    *)
(*    that is empty, max_messages and all, by one of its own (agent.py:304); *)
(*  - a put that raises wrote nothing.                                     *)
(***************************************************************************)
EXTENDS Integers, Sequences, SequencesExt, FiniteSets

CONSTANTS
  Turns,        \* the turns asked of the agent
  Modes,        \* the ConcurrencyModes it may be built with
  Limits,       \* the max_messages of its memory; 0 stands for None
  Nobody,       \* the lock's holder when it is free
  MaxRounds,    \* bound: completions of one turn that ask for a call
  MaxFailures,  \* bound: exceptions and cancellations
  MaxResumes,   \* bound: resumes
  MaxResets     \* bound: calls of Agent.reset

ASSUME AgentAssumption ==
  /\ Modes \subseteq {"isolated", "serialized"}
  /\ Limits \subseteq Nat
  /\ Nobody \notin Turns

ASSUME BoundsAssumption ==
  /\ MaxRounds \in Nat /\ MaxFailures \in Nat
  /\ MaxResumes \in Nat /\ MaxResets \in Nat

VARIABLES
  mode,         \* Agent.concurrency
  limit,        \* ConversationMemory._max_messages
  memory,       \* Agent.memory, without its system messages
  system,       \* how many of those it holds
  lock,         \* the holder of Agent._lock across awaits
  pc,           \* where each turn's call stands
  how,          \* which call that is: run, stream or resume
  turn,         \* its _Turn: a private copy and what is to be committed
  saved,        \* the checkpoint of the turn's thread
  failures, resumes, resets   \* counters of the bounds

vars == <<mode, limit, memory, system, lock, pc, how, turn, saved, failures,
          resumes, resets>>
bounds == <<failures, resumes, resets>>

-----------------------------------------------------------------------------
(* Data.                                                                   *)

Kind    == {"user", "ask", "ask_guarded", "tool", "answer"}
Message == [turn : Turns, kind : Kind]

Guarded == {"ask_guarded"}

\* A _Turn works on the agent's own memory unless it is private. Of the system
\* messages it has a copy, or brings them with what is pending. With it go the steps
\* of the call: how many asked for a call, and what the last one asked for.
Steps   == [asked : Nat, last : Kind \cup {"none"}]
NoSteps == [asked |-> 0, last |-> "none"]
Turn    == [private : BOOLEAN, memory : Seq(Message), pending : Seq(Message),
            system : Nat, brings : Nat, steps : Steps]
NoTurn  == [private |-> FALSE, memory |-> <<>>, pending |-> <<>>,
            system |-> 0, brings |-> 0, steps |-> NoSteps]

Saved   == [status : {"absent", "running", "interrupted", "completed", "failed"},
            messages : Seq(Message), system : Nat, steps : Steps]
Unsaved == [status |-> "absent", messages |-> <<>>, system |-> 0, steps |-> NoSteps]

\* A call is under way, or its stream is suspended at a yield.
Active == {"start", "think", "dispatch", "approved", "commit"}
Called == Active \cup {"abandoned"}

\* The history a turn's call reads.
History(t) == IF turn[t].private THEN turn[t].memory ELSE memory
System(t)  == IF turn[t].private THEN turn[t].system ELSE system

Init ==
  /\ mode \in Modes /\ limit \in Limits
  /\ memory = <<>> /\ system = 1
  /\ lock = Nobody
  /\ pc = [t \in Turns |-> "new"]
  /\ how = [t \in Turns |-> "none"]
  /\ turn = [t \in Turns |-> NoTurn]
  /\ saved = [t \in Turns |-> Unsaved]
  /\ failures = 0 /\ resumes = 0 /\ resets = 0

-----------------------------------------------------------------------------
(* What the steps have in common.                                          *)

Goto(t, label) == pc' = [pc EXCEPT ![t] = label]

\* What trim keeps beside n system messages.
Room(n) == IF n < limit THEN limit - n ELSE 0

\* Mutant: the oldest messages are kept.
Trim_Oldest(h, n) ==
  IF limit = 0 \/ Len(h) + n <= limit THEN h ELSE SubSeq(h, 1, Room(n))

\* ConversationMemory.trim. The slice [-0:], when the system messages alone reach
\* max_messages, is everything.
Trim(h, n) ==
  IF limit = 0 \/ Len(h) + n <= limit \/ Room(n) = 0 THEN h
  ELSE SubSeq(h, Len(h) - Room(n) + 1, Len(h))

\* Mutant: the system messages that come with a turn take no room.
Extended_Uncounted(p, n) == {Trim(memory \o p, system)}

\* ConversationMemory.extend of the memory by p and, somewhere in front of its last
\* message, n system messages. Each is added and then all is trimmed. When one of them
\* fills max_messages, one other message is left, and from then on nothing is dropped.
Extended(p, n) ==
  LET all == memory \o p
  IN IF system < limit /\ limit <= system + n
     THEN {SubSeq(all, i, Len(all)) : i \in {k \in 1..(Len(all) - 1) : Len(memory) <= k}}
     ELSE {Trim(all, system + n)}

\* _Turn.add, with the call's steps: the history grows, and so does what is to
\* be committed.
Add(t, kind, steps) ==
  LET m == [turn |-> t, kind |-> kind]
  IN IF turn[t].private
     THEN /\ turn' = [turn EXCEPT ![t].memory = Append(@, m),
                                  ![t].pending = Append(@, m), ![t].steps = steps]
          /\ UNCHANGED memory
     ELSE /\ memory' = Trim(Append(memory, m), system)
          /\ turn' = [turn EXCEPT ![t].steps = steps]

\* Agent._checkpoint after Add: a durable turn's record is its whole history.
Save(t, status) ==
  saved' = IF how[t] = "stream" THEN saved
           ELSE [saved EXCEPT ![t] =
                  [status |-> status,
                   messages |-> IF turn[t].private THEN turn'[t].memory ELSE memory',
                   system |-> System(t),
                   steps |-> turn'[t].steps]]

\* Mutant: the lock is only released on the way out that returns.
Unwind_KeepsLock(t) ==
  /\ Goto(t, "out")
  /\ turn' = [turn EXCEPT ![t] = NoTurn]
  /\ UNCHANGED <<memory, system, lock>>

\* Mutant: what is pending is committed on every way out.
Unwind_Commits(t) ==
  /\ Goto(t, "out")
  /\ turn' = [turn EXCEPT ![t] = NoTurn]
  /\ lock' = IF lock = t THEN Nobody ELSE lock
  /\ memory' = memory \o turn[t].pending
  /\ UNCHANGED system

\* The turn scope is left by an exception: nothing is committed, and the lock
\* is released by whoever holds it.
Unwind(t) ==
  /\ Goto(t, "out")
  /\ turn' = [turn EXCEPT ![t] = NoTurn]
  /\ lock' = IF lock = t THEN Nobody ELSE lock
  /\ UNCHANGED <<memory, system>>

-----------------------------------------------------------------------------
(* run and stream.                                                         *)

Call(t) ==
  /\ pc[t] = "new"
  /\ Goto(t, "start")
  /\ \E call \in {"run", "stream"} : how' = [how EXCEPT ![t] = call]
  /\ UNCHANGED <<mode, limit, memory, system, lock, turn, saved, bounds>>

UserMessage(t) == [turn |-> t, kind |-> "user"]

\* Mutant: the private copy is not a copy.
BeginIsolated_Shared(t) ==
  /\ pc[t] = "start" /\ mode = "isolated"
  /\ Goto(t, "think")
  /\ memory' = Trim(Append(memory, UserMessage(t)), system)
  /\ UNCHANGED <<mode, limit, system, lock, how, turn, saved, bounds>>

\* _turn, isolated: work on a copy of the memory.
BeginIsolated(t) ==
  /\ pc[t] = "start" /\ mode = "isolated"
  /\ Goto(t, "think")
  /\ turn' = [turn EXCEPT ![t] =
       [private |-> TRUE, memory |-> Append(memory, UserMessage(t)),
        pending |-> <<UserMessage(t)>>, system |-> system, brings |-> 0,
        steps |-> NoSteps]]
  /\ UNCHANGED <<mode, limit, memory, system, lock, how, saved, bounds>>

\* Mutant: the turn does not queue on the lock.
BeginSerialized_NoLock(t) ==
  /\ pc[t] = "start" /\ mode = "serialized"
  /\ Goto(t, "think")
  /\ memory' = Trim(Append(memory, UserMessage(t)), system)
  /\ UNCHANGED <<mode, limit, system, lock, how, turn, saved, bounds>>

\* _turn, serialized: hold the lock and write through to the memory.
BeginSerialized(t) ==
  /\ pc[t] = "start" /\ mode = "serialized" /\ lock = Nobody
  /\ Goto(t, "think")
  /\ lock' = t
  /\ memory' = Trim(Append(memory, UserMessage(t)), system)
  /\ UNCHANGED <<mode, limit, system, how, turn, saved, bounds>>

-----------------------------------------------------------------------------
(* The step loop, shared by run, stream and resume.                        *)

\* The model asks for a call.
Ask(t) ==
  /\ pc[t] = "think" /\ turn[t].steps.asked < MaxRounds
  /\ \E kind \in {"ask", "ask_guarded"} :
       Add(t, kind, [asked |-> turn[t].steps.asked + 1, last |-> kind])
  /\ Save(t, "running")
  /\ Goto(t, "dispatch")
  /\ UNCHANGED <<mode, limit, system, lock, how, bounds>>

\* interrupt_before: the pause is saved and the turn unwound. stream does not
\* look at interrupt_before.
Pause(t) ==
  /\ pc[t] = "dispatch" /\ how[t] # "stream"
  /\ turn[t].steps.last \in Guarded
  /\ saved' = [saved EXCEPT ![t] =
                 [status |-> "interrupted", messages |-> History(t),
                  system |-> System(t), steps |-> turn[t].steps]]
  /\ Unwind(t)
  /\ UNCHANGED <<mode, limit, how, bounds>>

\* The call is dispatched (or rejected, or skipped) and its result recorded.
Dispatch(t) ==
  /\ \/ pc[t] = "approved"
     \/ pc[t] = "dispatch" /\ turn[t].steps.last \notin Guarded
     \/ pc[t] = "dispatch" /\ how[t] = "stream"
  /\ Add(t, "tool", [turn[t].steps EXCEPT !.last = "none"])
  /\ Save(t, "running")
  /\ Goto(t, "think")
  /\ UNCHANGED <<mode, limit, system, lock, how, bounds>>

\* The final answer; the turn scope is still open.
Answer(t) ==
  /\ pc[t] = "think"
  /\ Add(t, "answer", turn[t].steps)
  /\ Save(t, "completed")
  /\ Goto(t, "commit")
  /\ UNCHANGED <<mode, limit, system, lock, how, bounds>>

\* Mutant: the whole working history is committed, not what the turn added.
Commit_Whole(t) ==
  /\ pc[t] = "commit"
  /\ IF turn[t].private
     THEN /\ lock = Nobody
          /\ memory' \in Extended(turn[t].memory, turn[t].brings)
          /\ system' = system + turn[t].brings
          /\ UNCHANGED lock
     ELSE /\ lock' = Nobody
          /\ UNCHANGED <<memory, system>>
  /\ Goto(t, "done")
  /\ turn' = [turn EXCEPT ![t] = NoTurn]
  /\ UNCHANGED <<mode, limit, how, saved, bounds>>

\* The turn scope is left, or _commit_turn called: what is pending joins the
\* memory while nobody holds the lock; a turn that wrote through gives it back.
Commit(t) ==
  /\ pc[t] = "commit"
  /\ IF turn[t].private
     THEN /\ lock = Nobody
          /\ memory' \in Extended(turn[t].pending, turn[t].brings)
          /\ system' = system + turn[t].brings
          /\ UNCHANGED lock
     ELSE /\ lock' = Nobody
          /\ UNCHANGED <<memory, system>>
  /\ Goto(t, "done")
  /\ turn' = [turn EXCEPT ![t] = NoTurn]
  /\ UNCHANGED <<mode, limit, how, saved, bounds>>

-----------------------------------------------------------------------------
(* resume.                                                                 *)

\* _turn_from_checkpoint: a private copy of the saved history, all of it pending, the
\* system messages included.
TurnOf(checkpoint) == [private |-> TRUE, memory |-> checkpoint.messages,
                       pending |-> checkpoint.messages,
                       system |-> checkpoint.system, brings |-> checkpoint.system,
                       steps |-> checkpoint.steps]

\* A pause is answered, or a call in flight is taken up (repeated, retried,
\* skipped: its result is what comes next), or the next completion is asked for.
Resume(t) ==
  /\ pc[t] = "out" /\ resumes < MaxResumes
  /\ saved[t].status \in {"running", "interrupted", "failed"}
  /\ resumes' = resumes + 1
  /\ how' = [how EXCEPT ![t] = "resume"]
  /\ turn' = [turn EXCEPT ![t] = TurnOf(saved[t])]
  /\ Goto(t, IF saved[t].status = "interrupted" THEN "approved"
             ELSE IF saved[t].steps.last # "none" THEN "dispatch" ELSE "think")
  /\ UNCHANGED <<mode, limit, memory, system, lock, saved, failures, resets>>

-----------------------------------------------------------------------------
(* Failures, cancellation, abandoned streams, reset.                       *)

\* A hook, the LLM or the store raises, or the steps run out: the record, if
\* there is one, is marked failed.
Fail(t) ==
  /\ pc[t] \in {"think", "dispatch", "approved"} /\ failures < MaxFailures
  /\ failures' = failures + 1
  /\ saved' = IF saved[t].status = "absent" THEN saved
              ELSE [saved EXCEPT ![t].status = "failed"]
  /\ Unwind(t)
  /\ UNCHANGED <<mode, limit, how, resumes, resets>>

\* The task is cancelled at an await, which no handler catches.
Cancel(t) ==
  /\ pc[t] \in Active /\ failures < MaxFailures
  /\ failures' = failures + 1
  /\ Unwind(t)
  /\ UNCHANGED <<mode, limit, how, saved, resumes, resets>>

\* The consumer of a stream stops iterating; the generator keeps its turn scope
\* open until it is closed.
Abandon(t) ==
  /\ how[t] = "stream" /\ pc[t] \in {"think", "dispatch", "commit"}
  /\ Goto(t, "abandoned")
  /\ UNCHANGED <<mode, limit, memory, system, lock, how, turn, saved, bounds>>

Close(t) ==
  /\ pc[t] = "abandoned"
  /\ Unwind(t)
  /\ UNCHANGED <<mode, limit, how, saved, bounds>>

\* Agent.reset.
Reset ==
  /\ resets < MaxResets
  /\ resets' = resets + 1
  /\ memory' = <<>>
  /\ UNCHANGED <<mode, limit, system, lock, pc, how, turn, saved, failures, resumes>>

-----------------------------------------------------------------------------
\* What a call does by itself, and a stream while it is iterated.
Advance(t) ==
  \/ BeginIsolated(t) \/ BeginSerialized(t)
  \/ Ask(t) \/ Pause(t) \/ Dispatch(t) \/ Answer(t) \/ Commit(t)

Next ==
  \/ \E t \in Turns : \/ Call(t) \/ Advance(t) \/ Resume(t)
                       \/ Fail(t) \/ Cancel(t) \/ Abandon(t) \/ Close(t)
  \/ Reset

Spec == Init /\ [][Next]_vars

\* The event loop runs every task, and what they await answers or raises.
FairSpec == Spec /\ \A t \in Turns : WF_vars(Advance(t))

-----------------------------------------------------------------------------
(* Properties.                                                             *)

\* Every variable has its type, and the lock is held across awaits only by a
\* serialized turn under way.
TypeOK ==
  /\ mode \in Modes /\ limit \in Limits
  /\ memory \in Seq(Message) /\ system \in Nat \ {0}
  /\ pc \in [Turns -> Called \cup {"new", "done", "out"}]
  /\ how \in [Turns -> {"none", "run", "stream", "resume"}]
  /\ turn \in [Turns -> Turn]
  /\ saved \in [Turns -> Saved]
  /\ lock \in Turns \cup {Nobody}
  /\ lock # Nobody => /\ mode = "serialized" /\ ~turn[lock].private
                      /\ pc[lock] \in Called \ {"start"}

\* In a history every turn is in one piece: its prompt, results right after the
\* calls they answer, its final answer, and only then another turn's prompt. Where
\* a memory is trimmed, a history that was read from it may lack its front; with its
\* n system messages it is then as long as the memory may get.
Trims == limit > 1
Cut(h, n) == Trims /\ Len(h) + n >= limit
Follows(m, n) ==
  IF m.kind = "answer" THEN n.kind = "user" \/ Trims
  ELSE /\ n.turn = m.turn
       /\ IF m.kind \in {"ask", "ask_guarded"} THEN n.kind = "tool"
          ELSE n.kind \in {"ask", "ask_guarded", "answer"}
InOnePiece(h, n) ==
  /\ h # <<>> => h[1].kind = "user" \/ Cut(h, n)
  /\ \A i \in 1..Len(h)-1 : Follows(h[i], h[i+1])

Begun(t) == pc[t] \in Called \ {"start"}

\* "No run can ever see a half-written turn ... or another run's user message
\* interleaved into its own history", and the memory ends up with "every turn,
\* each one contiguous": in isolated mode, with every interleaving of runs,
\* streams and resumes, failures, abandoned streams and resets.
NoPartialTurns ==
  mode = "isolated" =>
    /\ InOnePiece(memory, system)
    /\ memory # <<>> => Last(memory).kind = "answer"
    /\ \A t \in Turns : Begun(t) => /\ InOnePiece(History(t), System(t))
                                    /\ Last(History(t)).turn = t

\* "Keeps the most recent N (system messages always preserved)": as long as its system
\* messages leave room the memory stays within max_messages, and a turn under way works
\* without its own prompt only where the memory it wrote through was trimmed or reset.
TrimKeepsPrompts ==
  /\ system < limit => system + Len(memory) <= limit
  /\ \A t \in Turns : Begun(t) =>
       \/ \E i \in DOMAIN History(t) : History(t)[i] = UserMessage(t)
       \/ mode = "serialized" /\ (resets > 0 \/ Cut(History(t), System(t)))

\* In either mode nobody writes into the history of a turn under way once it has
\* begun: what the model sees after the prompt is this turn's.
OwnTurnIsLast ==
  \A t \in Turns : Begun(t) =>
    \A i, j \in DOMAIN History(t) :
      i < j /\ History(t)[i].turn = t => History(t)[j].turn = t

\* In isolated mode a turn that raised, was cancelled, paused or abandoned left
\* nothing in the memory, and no other turn brought it there.
FailedCommitsNothing ==
  mode = "isolated" => \A i \in DOMAIN memory : pc[memory[i].turn] = "done"

\* A turn is remembered once, and so is the system message, unless a resumed one,
\* which commits the history its run began with, brought it there again.
OnlyResumesRepeat ==
  /\ mode = "isolated" =>
       \A t \in Turns :
         Cardinality({i \in DOMAIN memory : memory[i] = UserMessage(t)}) > 1
           => \E u \in Turns \ {t} : how[u] = "resume" /\ pc[u] = "done"
  /\ system > 1 => \E u \in Turns : how[u] = "resume" /\ pc[u] = "done"

\* What the agent remembers, and what a turn under way sees, are whole turns.
TurnsAreWhole ==
  /\ TypeOK /\ NoPartialTurns /\ FailedCommitsNothing
  /\ OnlyResumesRepeat /\ TrimKeepsPrompts

\* Every call ends, those queued on the lock included, unless the turn that holds
\* the lock is a stream its consumer has abandoned.
EveryTurnEnds ==
  \A t \in Turns :
    pc[t] \in Active
      ~> (pc[t] \notin Active \/ (lock # Nobody /\ pc[lock] = "abandoned"))
=============================================================================
