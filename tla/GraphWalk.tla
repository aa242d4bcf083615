------------------------------ MODULE GraphWalk ------------------------------
(***************************************************************************)
(* What a durable graph run promises, without processes, checkpoints or    *)
(* failures: its record is a walk through the graph that grows by one node *)
(* at a time, and only the visit the walk has come to may run its node.    *)
(***************************************************************************)
EXTENDS Naturals, Sequences, SequencesExt

CONSTANTS
  Runs,             \* the runs of the thread, numbered
  Entry,            \* the entry point
  Edges,            \* the possible successors of each node
  Visits            \* a visit: a run, a position in its walk, a node

VARIABLES
  run,              \* whose walk is on record, 0 before the first
  trail,            \* the nodes recorded as visited
  effects           \* how often the node of each visit ran

walk == <<run, trail, effects>>

Init ==
  /\ run = 0
  /\ trail = <<>>
  /\ effects = [v \in Visits |-> 0]

\* Where the walk may go on from a trail.
NextNodes(t) == IF t = <<>> THEN {Entry} ELSE Edges[Last(t)]

\* The node the walk has come to, or the entry of a run that takes it over,
\* runs (again).
Perform ==
  /\ \E v \in Visits :
       /\ \/ v[1] = run /\ v[2] = Len(trail) + 1 /\ v[3] \in NextNodes(trail)
          \/ v[1] > run /\ v[2] = 1 /\ v[3] = Entry
       /\ effects' = [effects EXCEPT ![v] = @ + 1]
  /\ UNCHANGED <<run, trail>>

\* A visit is over: its node ran, or a human declined it.
Visit ==
  /\ \E n \in NextNodes(trail) : trail' = Append(trail, n)
  /\ UNCHANGED <<run, effects>>

\* A new run takes the thread over.
StartOver ==
  /\ run' \in Runs /\ run' > run
  /\ trail' \in {<<>>, <<Entry>>}
  /\ UNCHANGED effects

Next == Perform \/ Visit \/ StartOver

Spec == Init /\ [][Next]_walk
=============================================================================
