---------------------------- MODULE OfflineSuite ----------------------------
(***************************************************************************)
(* An evaluation suite over one agent whose provider is recorded, and the  *)
(* same suite replayed from the file: src/actants/testing/evals.py and     *)
(* recording.py, over the conversation modes of src/actants/agents/        *)
(* agent.py.  The cases are coroutines of one process; a step is what runs *)
(* between two awaits.  The replayed suite may hand over at every place    *)
(* the recorded one can, which allows it more orders than a provider that  *)
(* never waits.  A scorer that raises ends the suite and is left out.      *)
(***************************************************************************)
EXTENDS Scorers, FiniteSets, FiniteSetsExt

CONSTANTS
  N,          \* cases, run in the order 1..N
  Prompts,    \* what the cases may ask: functions from 1..N
  CaseScorer, \* [1..N -> scorers]
  Answers,    \* what a model may answer
  MaxSteps,   \* completions one case may take
  MaxFailures \* bound: provider failures while recording

Cases == 1..N

ASSUME SuiteAssumption ==
  /\ N \in Nat \ {0} /\ MaxSteps \in Nat \ {0} /\ MaxFailures \in Nat
  /\ \A p \in Prompts : DOMAIN p = Cases

VARIABLES
  setup,     \* [mode, slots, match, prompt, reused]: agent, suite, replay, a file used before
  phase,     \* "record", "load", "replay", "done" or "refused"
  pc,        \* [Cases -> "wait", "lock", "asking", "tool", "out"]
  memory,    \* the agent's conversation
  private,   \* [Cases -> the working history of an isolated turn]
  request,   \* [Cases -> the request a provider is working on]
  run,       \* [Cases -> completions of the case so far]
  lock,      \* the case that holds the agent's lock, or 0
  file,      \* lines on disk
  wrote,     \* recorder._header_written
  returned,  \* history: the exchanges whose answer went back to a case
  cursor,    \* ReplayProvider._cursor
  requests,  \* ReplayProvider._requests
  served,    \* indices of the recording that were served
  result,    \* [{"record", "replay"} -> [Cases -> CaseResult]]
  failures

suite == <<pc, memory, private, request, run, lock>>
recorder == <<file, wrote, returned>>
replay == <<cursor, requests, served>>
vars == <<setup, phase, suite, recorder, replay, result, failures>>

Header == [line |-> "header"]
Torn == [line |-> "torn"]
Exchange(rq, a) == [line |-> "exchange", request |-> rq, response |-> a]
IsCall(a) == a.k = "call"

User(c) == [role |-> "user", prompt |-> setup.prompt[c]]
Assistant(a) == [role |-> "assistant", said |-> a]
ToolMessage == [role |-> "tool"]

NoResult == [passed |-> FALSE, error |-> FALSE, cost |-> 0, ended |-> FALSE]
OldExchange == Exchange(<<[role |-> "old"]>>, [k |-> "final", text |-> "old"])

Init ==
  /\ setup \in [mode : {"isolated", "serialized"}, slots : 1..N,
                match : {"sequence", "request"},
                prompt : Prompts, reused : BOOLEAN]
  /\ phase = "record"
  /\ pc = [c \in Cases |-> "wait"] /\ memory = <<>>
  /\ private = [c \in Cases |-> <<>>] /\ request = [c \in Cases |-> <<>>]
  /\ run = [c \in Cases |-> <<>>] /\ lock = 0
  /\ file = IF setup.reused THEN <<Header, OldExchange>> ELSE <<>>
  /\ wrote = FALSE /\ returned = <<>>
  /\ cursor = 0 /\ requests = <<>> /\ served = <<>>
  /\ result = [p \in {"record", "replay"} |-> [c \in Cases |-> NoResult]]
  /\ failures = 0

Suite == {"record", "replay"}
Running == {c \in Cases : pc[c] \in {"lock", "asking", "tool"}}
Goto(c, l) == pc' = [pc EXCEPT ![c] = l]

(***************************************************************************)
(* _make_runner.run_agent and the agent's _turn.  A case takes a slot of   *)
(* the semaphore in its turn, clears the conversation, and starts on a     *)
(* copy of it or, with the agent's lock, on the conversation itself.       *)
(***************************************************************************)
Asking(c, history) ==
  /\ Goto(c, "asking")
  /\ request' = [request EXCEPT ![c] = history]
  /\ IF setup.mode = "isolated"
     THEN private' = [private EXCEPT ![c] = history] /\ UNCHANGED <<memory, lock>>
     ELSE memory' = history /\ lock' = c /\ UNCHANGED private

\* Mutant: the conversation is not reset between two cases.
Begin_KeepsMemory(c) ==
  /\ phase \in Suite /\ pc[c] = "wait" /\ Cardinality(Running) < setup.slots
  /\ \A d \in 1..(c - 1) : pc[d] # "wait"
  /\ IF setup.mode = "isolated" \/ lock = 0
     THEN Asking(c, Append(memory, User(c)))
     ELSE Goto(c, "lock") /\ UNCHANGED <<memory, private, request, lock>>
  /\ UNCHANGED <<setup, phase, run, recorder, replay, result, failures>>

Begin(c) ==
  /\ phase \in Suite /\ pc[c] = "wait" /\ Cardinality(Running) < setup.slots
  /\ \A d \in 1..(c - 1) : pc[d] # "wait"
  /\ IF setup.mode = "isolated"
     THEN /\ Goto(c, "asking") /\ memory' = <<>>
          /\ private' = [private EXCEPT ![c] = <<User(c)>>]
          /\ request' = [request EXCEPT ![c] = <<User(c)>>]
          /\ UNCHANGED lock
     ELSE IF lock = 0 THEN Asking(c, <<User(c)>>)
     ELSE Goto(c, "lock") /\ memory' = <<>> /\ UNCHANGED <<private, request, lock>>
  /\ UNCHANGED <<setup, phase, run, recorder, replay, result, failures>>

Acquire(c) ==
  /\ phase \in Suite /\ pc[c] = "lock" /\ lock = 0
  /\ Asking(c, Append(memory, User(c)))
  /\ UNCHANGED <<setup, phase, run, recorder, replay, result, failures>>

History(c) == IF setup.mode = "isolated" THEN private[c] ELSE memory

(***************************************************************************)
(* The end of a case.  A turn that returns is committed, one that raises   *)
(* only lets the lock go; _run_case makes a result of both.                *)
(***************************************************************************)
Trajectory(answers) ==
  FlattenSeq([i \in DOMAIN answers |-> IF IsCall(answers[i]) THEN answers[i].tools ELSE <<>>])

Verdict(c, answers) ==
  [passed |-> Passes(CaseScorer[c], Outcome(Last(answers).text, Trajectory(answers))),
   error |-> FALSE, cost |-> Len(answers), ended |-> TRUE]

Errored == [NoResult EXCEPT !.error = TRUE, !.ended = TRUE]

\* Mutant: the lock is not let go.
EndsWith_KeepsLock(c, r) ==
  /\ Goto(c, "out")
  /\ result' = [result EXCEPT ![phase][c] = r]
  /\ UNCHANGED lock

EndsWith(c, r) ==
  /\ Goto(c, "out")
  /\ result' = [result EXCEPT ![phase][c] = r]
  /\ lock' = IF lock = c THEN 0 ELSE lock

Raises(c) ==
  /\ EndsWith(c, Errored)
  /\ UNCHANGED <<memory, private, request, run>>

(***************************************************************************)
(* Agent.run on an answer: a final one ends the case, a call goes to its   *)
(* tool.  Where the tool was that of the last step the run raises, having  *)
(* held its slot and its lock for the tool like any other.                 *)
(***************************************************************************)
Take(c, a) ==
  LET history == Append(History(c), Assistant(a))
      answers == Append(run[c], a)
  IN /\ run' = [run EXCEPT ![c] = answers]
     /\ UNCHANGED request
     /\ IF setup.mode = "isolated" THEN private' = [private EXCEPT ![c] = history] ELSE UNCHANGED private
     /\ IF IsCall(a) THEN Goto(c, "tool") /\ UNCHANGED <<result, lock>>
        ELSE EndsWith(c, Verdict(c, answers))
     /\ memory' = IF setup.mode = "serialized" THEN Append(memory, Assistant(a))
                  ELSE IF IsCall(a) THEN memory ELSE memory \o history

OutOfSteps(c, history) ==
  /\ EndsWith(c, Errored)
  /\ IF setup.mode = "isolated"
     THEN private' = [private EXCEPT ![c] = history] /\ UNCHANGED memory
     ELSE memory' = history /\ UNCHANGED private
  /\ UNCHANGED request

Tool(c) ==
  /\ phase \in Suite /\ pc[c] = "tool"
  /\ LET history == Append(History(c), ToolMessage)
     IN IF Len(run[c]) < MaxSteps THEN Asking(c, history) /\ UNCHANGED result
        ELSE OutOfSteps(c, history)
  /\ UNCHANGED <<setup, phase, run, recorder, replay, failures>>

(***************************************************************************)
(* RecordingProvider.complete and RunRecorder.add: the exchange is on disk *)
(* before its answer goes back.                                            *)
(***************************************************************************)
Lines(x) == IF wrote THEN <<x>> ELSE <<Header, x>>

\* Mutant: after the first line, only a final answer is written at once.
Complete_Buffered(c, a) ==
  /\ phase = "record" /\ pc[c] = "asking"
  /\ file' = IF wrote /\ IsCall(a) THEN file ELSE file \o Lines(Exchange(request[c], a))
  /\ wrote' = TRUE
  /\ returned' = Append(returned, Exchange(request[c], a))
  /\ Take(c, a)
  /\ UNCHANGED <<setup, phase, replay, failures>>

Complete(c, a) ==
  /\ phase = "record" /\ pc[c] = "asking"
  /\ file' = file \o Lines(Exchange(request[c], a))
  /\ wrote' = TRUE
  /\ returned' = Append(returned, Exchange(request[c], a))
  /\ Take(c, a)
  /\ UNCHANGED <<setup, phase, replay, failures>>

ProviderFails(c) ==
  /\ phase = "record" /\ pc[c] = "asking" /\ failures < MaxFailures
  /\ failures' = failures + 1
  /\ Raises(c)
  /\ UNCHANGED <<setup, phase, recorder, replay>>

(***************************************************************************)
(* The process dies, between two lines or in the middle of one.            *)
(***************************************************************************)
Crash(c, a) ==
  /\ phase = "record" /\ pc[c] = "asking"
  /\ phase' = "load"
  /\ \/ UNCHANGED file
     \/ file' = Append(file, Torn)
     \/ file' = file \o Front(Lines(Exchange(request[c], a))) \o <<Torn>>
     \/ file' = file \o Lines(Exchange(request[c], a))
  /\ UNCHANGED <<setup, suite, wrote, returned, replay, result, failures>>

EndRecording ==
  /\ phase = "record" /\ \A c \in Cases : pc[c] = "out"
  /\ phase' = "load"
  /\ UNCHANGED <<setup, suite, recorder, replay, result, failures>>

(***************************************************************************)
(* Recording.load, and the replay of the suite by a fresh agent.           *)
(***************************************************************************)
Exchanges == IF file = <<>> THEN <<>> ELSE Tail(file)

Loads == /\ file # <<>> /\ file[1] = Header
         /\ \A i \in 2..Len(file) : file[i].line = "exchange"

Load ==
  /\ phase = "load"
  /\ phase' = IF Loads THEN "replay" ELSE "refused"
  /\ pc' = [c \in Cases |-> "wait"] /\ memory' = <<>> /\ lock' = 0
  /\ private' = [c \in Cases |-> <<>>] /\ request' = [c \in Cases |-> <<>>]
  /\ run' = [c \in Cases |-> <<>>]
  /\ UNCHANGED <<setup, recorder, replay, result, failures>>

(***************************************************************************)
(* ReplayProvider._next: the exchange at the cursor, or the first with the *)
(* same request that the same requests before have not taken.  0: a miss.  *)
(***************************************************************************)
Asked(rq) == Cardinality({n \in DOMAIN requests : requests[n] = rq})
Candidates(rq) == {i \in DOMAIN Exchanges : Exchanges[i].request = rq}

\* Mutant: a repeated request is answered from the start again.
NextExchange_First(rq) ==
  IF setup.match = "sequence" THEN IF cursor < Len(Exchanges) THEN cursor + 1 ELSE 0
  ELSE IF Candidates(rq) = {} THEN 0 ELSE Min(Candidates(rq))

NextExchange(rq) ==
  IF setup.match = "sequence" THEN IF cursor < Len(Exchanges) THEN cursor + 1 ELSE 0
  ELSE IF \E i \in Candidates(rq) : Cardinality({j \in Candidates(rq) : j < i}) = Asked(rq)
       THEN CHOOSE i \in Candidates(rq) : Cardinality({j \in Candidates(rq) : j < i}) = Asked(rq)
       ELSE 0

\* Mutant: the cursor only moves past a final answer.
Serve_KeepsCursor(c) ==
  /\ phase = "replay" /\ pc[c] = "asking"
  /\ requests' = Append(requests, request[c])
  /\ LET i == NextExchange(request[c])
     IN IF i = 0 THEN Raises(c) /\ UNCHANGED <<cursor, served>>
        ELSE /\ served' = Append(served, i)
             /\ cursor' = IF IsCall(Exchanges[i].response) THEN cursor ELSE cursor + 1
             /\ Take(c, Exchanges[i].response)
  /\ UNCHANGED <<setup, phase, recorder, failures>>

Serve(c) ==
  /\ phase = "replay" /\ pc[c] = "asking"
  /\ requests' = Append(requests, request[c])
  /\ LET i == NextExchange(request[c])
     IN IF i = 0 THEN Raises(c) /\ UNCHANGED <<cursor, served>>
        ELSE /\ served' = Append(served, i)
             /\ cursor' = IF setup.match = "sequence" THEN cursor + 1 ELSE cursor
             /\ Take(c, Exchanges[i].response)
  /\ UNCHANGED <<setup, phase, recorder, failures>>

EndReplay ==
  /\ phase = "replay" /\ \A c \in Cases : pc[c] = "out"
  /\ phase' = "done"
  /\ UNCHANGED <<setup, suite, recorder, replay, result, failures>>

CaseStep(c) == Begin(c) \/ Acquire(c) \/ Tool(c) \/ (\E a \in Answers : Complete(c, a)) \/ Serve(c)
Step == (\E c \in Cases : CaseStep(c)) \/ EndRecording \/ Load \/ EndReplay
Next == Step \/ \E c \in Cases : ProviderFails(c) \/ \E a \in Answers : Crash(c, a)

Spec == Init /\ [][Next]_vars
FairSpec == Spec /\ WF_vars(Step)
-----------------------------------------------------------------------------
(***************************************************************************)
(* compare(): the cases whose verdict differs, and what both suites spent. *)
(***************************************************************************)
Spent(results) == MapThenSumSet(LAMBDA c : results[c].cost, Cases)
Cost(p) == Spent(result[p])
Changed == {c \in Cases : result["record"][c].passed # result["replay"][c].passed}
Recorded == \A c \in Cases : result["record"][c].ended

(***************************************************************************)
(* When a replay is bound to repeat the run: one case at a time and no     *)
(* failed call, so that the order is the spine, or requests that tell the  *)
(* cases apart whatever the order.  A call that failed leaves no exchange, *)
(* and what follows it would be served in its place.                       *)
(***************************************************************************)
CasesShareNothing == setup.mode = "isolated" \/ setup.slots = 1
InOrder == setup.slots = 1 /\ failures = 0
Repeatable ==
  \/ InOrder
  \/ setup.match = "request" /\ CasesShareNothing /\ IsInjective(setup.prompt)

(***************************************************************************)
(* A replay of the same suite gives the report of the recorded run: no     *)
(* regression, no fix, the same cost (recording.py:446).                   *)
(***************************************************************************)
ReplayIsFaithful ==
  phase = "done" /\ Recorded /\ Repeatable => Changed = {} /\ Cost("record") = Cost("replay")

(***************************************************************************)
(* "Never a partial read" (recording.py:179): a file that loads, and was   *)
(* not used before, holds every exchange whose answer a case received, in  *)
(* order, and at most the one that was being written when it died.         *)
(***************************************************************************)
LoadIsHonest ==
  phase \in {"replay", "done"} =>
    /\ ~setup.reused \/ returned = <<>>
    /\ ~setup.reused => /\ IsPrefix(returned, Exchanges)
                        /\ Len(Exchanges) <= Len(returned) + 1
                        /\ Recorded => Exchanges = returned

(***************************************************************************)
(* A replay invents nothing: no exchange answers twice, in order with      *)
(* "sequence", and with "request" only one whose own request was asked.    *)
(***************************************************************************)
AnswersServedOnce ==
  /\ IsInjective(served)
  /\ setup.match = "request" => \A i \in DOMAIN served : Exchanges[served[i]].request \in ToSet(requests)
  /\ setup.match = "sequence" => served = [i \in 1..cursor |-> i]

\* What is replayed is what was recorded.
ReplayKeepsTheRecording == ReplayIsFaithful /\ AnswersServedOnce

(***************************************************************************)
(* Each case is an independent question: what it asks the model depends on *)
(* its own prompt and the answers it got, if the agent's mode or the suite *)
(* keeps the cases apart (evals.py:718).                                   *)
(***************************************************************************)
OwnHistory(c, answers, n) ==
  [i \in 1..2*n+1 |-> IF i = 1 THEN User(c)
                      ELSE IF i % 2 = 0 THEN Assistant(answers[i \div 2]) ELSE ToolMessage]

CasesAreIndependent ==
  CasesShareNothing => \A c \in Cases : pc[c] = "asking" => request[c] = OwnHistory(c, run[c], Len(run[c]))

(***************************************************************************)
(* A suite reports, whatever its cases do: with two slots and one lock, a  *)
(* case that fails or runs out of steps lets the next one go on.           *)
(***************************************************************************)
SuiteEnds == <>(phase \in {"done", "refused"})
=============================================================================
