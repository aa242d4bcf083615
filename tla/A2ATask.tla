------------------------------ MODULE A2ATask -------------------------------
(***************************************************************************)
(* The executor of src/actants/a2a/executor.py: what one request makes of  *)
(* a task, as the events it puts on the task's queue.  A cancellation is   *)
(* another request, handled while the first may be anywhere.               *)
(*                                                                         *)
(* The a2a package is external: after a cancellation it may or may not     *)
(* stop the coroutine that executes, and it ends a consumer's stream with  *)
(* the first event that is final.                                          *)
(***************************************************************************)
EXTENDS Naturals, Sequences, SequencesExt

CONSTANT Tasks

VARIABLE task   \* [Tasks -> [at, empty, events, ran]]

NoTask == [at |-> "none", empty |-> FALSE, events |-> <<>>, ran |-> "no"]
Final == {"failed", "completed", "canceled"}

Requested(t, empty) == [task EXCEPT ![t] = [NoTask EXCEPT !.at = "requested", !.empty = empty]]
Enqueue(t, e, next) == task' = [task EXCEPT ![t].events = Append(@, e), ![t].at = next]

\* The task itself goes first: a RemoteAgent never continues an earlier one.
Submit(t) == task[t].at = "requested" /\ Enqueue(t, "submitted", "submitted")

\* Mutant: an empty prompt ends the request without a word.
RefuseEmpty_Silent(t) ==
  task[t].at = "submitted" /\ task[t].empty /\ task' = [task EXCEPT ![t].at = "over"]

RefuseEmpty(t) == task[t].at = "submitted" /\ task[t].empty /\ Enqueue(t, "failed", "over")
Working(t) == task[t].at = "submitted" /\ ~task[t].empty /\ Enqueue(t, "working", "working")

\* agent.run, which returns or raises.
RunAgent(t) ==
  /\ task[t].at = "working"
  /\ \E o \in {"value", "raised"} :
       task' = [task EXCEPT ![t].ran = o, ![t].at = IF o = "value" THEN "answered" ELSE "raising"]

Fail(t) == task[t].at = "raising" /\ Enqueue(t, "failed", "over")

\* Mutant: the task is completed before its artifact is out.
Artifact_Late(t) == task[t].at = "answered" /\ Enqueue(t, "completed", "artifact")

Artifact(t) == task[t].at = "answered" /\ Enqueue(t, "artifact", "artifact")
Complete(t) == task[t].at = "artifact" /\ Enqueue(t, "completed", "over")

CancelTask(t) ==
  /\ task[t].at \notin {"none", "requested", "over"}
  /\ \E next \in {task[t].at, "over"} : Enqueue(t, "canceled", next)

TaskStep(t) ==
  Submit(t) \/ RefuseEmpty(t) \/ Working(t) \/ RunAgent(t) \/ Fail(t) \/ Artifact(t) \/ Complete(t)

Heard(t) ==
  LET e == task[t].events
      last == CHOOSE i \in DOMAIN e : e[i] \in Final /\ \A j \in 1..(i - 1) : e[j] \notin Final
  IN SubSeq(e, 1, last)
Answered(t) == ToSet(task[t].events) \cap Final # {}
=============================================================================
