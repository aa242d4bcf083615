------------------------- MODULE CheckpointRegister -------------------------
(***************************************************************************)
(* What a Checkpointer promises (the protocol of src/actants/agents/       *)
(* checkpoint.py): one register for each thread.  A call takes effect at   *)
(* one moment between its start and its return, whole or not at all.  Of a *)
(* call its caller gave up nothing is known: it may still take effect, at  *)
(* any later moment, or never.                                             *)
(***************************************************************************)
EXTENDS Naturals

CONSTANTS Ops,      \* the calls, positive integers
          Threads

VARIABLES value,    \* [Threads -> the put whose record is stored, or 0]
          call      \* [Ops -> Calls]

Kinds == {"put", "get", "delete"}
Free == [state |-> "idle", kind |-> "none", thread |-> "none", result |-> 0, failed |-> FALSE]

Init == value = [t \in Threads |-> 0] /\ call = [o \in Ops |-> Free]

Begin(o, k, t) ==
  /\ call[o] = Free
  /\ call' = [call EXCEPT ![o] = [Free EXCEPT !.state = "open", !.kind = k, !.thread = t]]
  /\ UNCHANGED value

(***************************************************************************)
(* The moment of a call.  Its result is the record it read or removed.     *)
(***************************************************************************)
Take(o) ==
  LET c == call[o]
      after == CASE c.kind = "put" -> o [] c.kind = "get" -> value[c.thread] [] OTHER -> 0
  IN /\ c.state \in {"open", "lost"}
     /\ value' = [value EXCEPT ![c.thread] = after]
     /\ call' = [call EXCEPT ![o].state = IF c.state = "open" THEN "took" ELSE "done",
                             ![o].result = IF c.kind = "put" THEN 0 ELSE value[c.thread]]

Return(o) ==
  /\ call[o].state = "took"
  /\ call' = [call EXCEPT ![o].state = "done"] /\ UNCHANGED value

Fail(o) ==
  /\ call[o].state = "open"
  /\ call' = [call EXCEPT ![o].state = "done", ![o].failed = TRUE] /\ UNCHANGED value

\* The callers of some calls give up, or the process of all of them dies.
Abandon(S) ==
  /\ \A o \in S : call[o].state \in {"open", "took"}
  /\ call' = [o \in Ops |-> IF o \notin S THEN call[o]
                            ELSE [call[o] EXCEPT !.state = IF @ = "open" THEN "lost" ELSE "done"]]
  /\ UNCHANGED value

Next ==
  \/ \E o \in Ops : \/ \E k \in Kinds, t \in Threads : Begin(o, k, t)
                    \/ Take(o) \/ Return(o) \/ Fail(o)
  \/ \E S \in SUBSET Ops : Abandon(S)

Spec == Init /\ [][Next]_<<value, call>>
=============================================================================
