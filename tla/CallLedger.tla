----------------------------- MODULE CallLedger -----------------------------
(***************************************************************************)
(* What durability promises about tool calls, without processes, steps or  *)
(* failures: a ledger of the calls a thread's model asked for. A call may  *)
(* reach its tool only between being asked for and being settled, both of  *)
(* which are durable; nothing is asked for while a call is unsettled; and  *)
(* only a new run of the thread clears the ledger.                         *)
(***************************************************************************)
EXTENDS Naturals

CONSTANT Call       \* every call that may ever be asked for

VARIABLES
  asked,            \* the calls on record
  settled,          \* those with a recorded result
  effects           \* how often each call reached its tool

ledger == <<asked, settled, effects>>

Init ==
  /\ asked = {}
  /\ settled = {}
  /\ effects = [c \in Call |-> 0]

\* New calls join the ledger; none of them has run yet.
Ask ==
  /\ asked = settled
  /\ asked \subseteq asked'
  /\ \A c \in asked' \ asked : c \in Call /\ effects[c] = 0
  /\ UNCHANGED <<settled, effects>>

\* A call on record reaches its tool (again).
Perform ==
  /\ \E c \in asked \ settled : effects' = [effects EXCEPT ![c] = @ + 1]
  /\ UNCHANGED <<asked, settled>>

\* A call gets its result and will never run again.
Settle ==
  /\ \E c \in asked \ settled : settled' = settled \cup {c}
  /\ UNCHANGED <<asked, effects>>

\* A new run takes the thread over with calls of its own.
StartOver ==
  /\ \A c \in asked' : c \in Call \ asked /\ effects[c] = 0
  /\ settled' = {}
  /\ UNCHANGED effects

Next == Ask \/ Perform \/ Settle \/ StartOver

Spec == Init /\ [][Next]_ledger
=============================================================================
