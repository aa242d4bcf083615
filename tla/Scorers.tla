------------------------------ MODULE Scorers ------------------------------
(***************************************************************************)
(* The verdicts of src/actants/testing/evals.py on the outcome of one run: *)
(* [output, calls], the final text and the names of the tools called.  A   *)
(* scorer is a record; what makes texts or arguments equal is left to the  *)
(* caller, so ExactMatch and Contains are membership in a set of texts.    *)
(***************************************************************************)
EXTENDS Naturals, Sequences, SequencesExt

Outcome(output, calls) == [output |-> output, calls |-> calls]

TextIn(texts) == [k |-> "text", texts |-> texts]
ToolCalled(tool) == [k |-> "called", tool |-> tool]
ToolCalledTimes(tool, n) == [k |-> "times", tool |-> tool, times |-> n]
ToolsCalledInOrder(tools) == [k |-> "order", tools |-> tools]

CallsOf(o, tool) == SelectSeq(o.calls, LAMBDA c : c = tool)

(***************************************************************************)
(* ToolsCalledInOrder.score: one pass over the trajectory that strikes the *)
(* next expected tool off the list whenever it is called.                  *)
(***************************************************************************)
Remaining(tools, calls) ==
  FoldLeft(LAMBDA left, c : IF left # <<>> /\ c = Head(left) THEN Tail(left) ELSE left, tools, calls)

Passes(s, o) ==
  CASE s.k = "text" -> o.output \in s.texts
    [] s.k = "called" -> CallsOf(o, s.tool) # <<>>
    [] s.k = "times" -> CallsOf(o, s.tool) # <<>> /\ Len(CallsOf(o, s.tool)) = s.times
    [] s.k = "order" -> Remaining(s.tools, o.calls) = <<>>
=============================================================================
