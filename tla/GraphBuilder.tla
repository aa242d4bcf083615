----------------------------- MODULE GraphBuilder -----------------------------
(***************************************************************************)
(* StateGraph of src/src/actants/graph/state_graph.py: the calls that      *)
(* build a graph and what compile() accepts, as operators on the graph     *)
(* built so far. GraphRun takes the outcome as its constants.              *)
(*                                                                         *)
(* A mapping of router results is the set of its targets.                  *)
(***************************************************************************)
EXTENDS Integers, FiniteSets

CONSTANTS END, ROUTING, NoName   \* no node: no edge yet, no entry point yet

Empty == [nodes |-> {}, entry |-> NoName, edge |-> <<>>, routes |-> <<>>]

Extend(f, n, v) == [m \in DOMAIN f \cup {n} |-> IF m = n THEN v ELSE f[m]]

\* add_node refuses the two reserved names and one that is taken.
AddsNode(g, n) == n \notin {END, ROUTING} /\ n \notin g.nodes
AddNode(g, n) ==
  [g EXCEPT !.nodes = @ \cup {n}, !.edge = Extend(@, n, NoName),
            !.routes = Extend(@, n, {})]

\* set_entry_point checks nothing.
SetEntryPoint(g, n) == [g EXCEPT !.entry = n]

\* A node has one edge or one mapping; the target is not looked at yet.
Unrouted(g, n) == n \in g.nodes /\ g.edge[n] = NoName /\ g.routes[n] = {}

AddEdge(g, n, target) == [g EXCEPT !.edge[n] = target]

AddsConditionalEdges(g, n, targets) == Unrouted(g, n) /\ targets # {}
AddConditionalEdges(g, n, targets)  == [g EXCEPT !.routes[n] = targets]

-----------------------------------------------------------------------------
(* compile.                                                                *)

\* Where a node may lead.
TargetsOf(g, n) == ({g.edge[n]} \ {NoName}) \cup g.routes[n]

\* _validate_targets.
TargetsExist(g) ==
  \A n \in g.nodes : TargetsOf(g, n) # {} /\ TargetsOf(g, n) \subseteq g.nodes \cup {END}

\* _validate_reachability: the nodes the entry point reaches in so many steps.
Reached(g) ==
  LET within[k \in Nat] ==
        IF k = 0 THEN {g.entry}
        ELSE within[k - 1] \cup
             UNION {TargetsOf(g, n) \ {END} : n \in within[k - 1]}
  IN within[Cardinality(g.nodes)]

Compiles(g, guarded, maxIterations) ==
  /\ g.nodes # {}
  /\ g.entry \in g.nodes
  /\ maxIterations >= 1
  /\ TargetsExist(g)
  /\ g.nodes \subseteq Reached(g)
  /\ guarded \subseteq g.nodes

\* What the run is given.
EdgesOf(g) == [n \in g.nodes |-> TargetsOf(g, n)]
=============================================================================
