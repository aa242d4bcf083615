----------------------------- MODULE MCGraphRun ----------------------------
(* Instances of GraphRun for TLC.                                          *)
EXTENDS GraphRun

CONSTANTS plan, draft, send, NoName

Builder  == INSTANCE GraphBuilder
Digraphs == INSTANCE Graphs

-----------------------------------------------------------------------------
(* A plan, then a loop of two nodes, the second of them guarded and free to *)
(* repeat itself; one node has an edge, two have routers.                  *)

\* The reserved names are refused.
MCNodes   == {n \in {plan, draft, send, END, ROUTING} : Builder!AddsNode(Builder!Empty, n)}
MCGuarded == {send}

MCGraph ==
  LET nodes == Builder!AddNode(Builder!AddNode(Builder!AddNode(
                 Builder!Empty, plan), draft), send)
      entry == Builder!SetEntryPoint(nodes, plan)
      plans == Builder!AddConditionalEdges(entry, plan, {draft, send})
      edge  == Builder!AddEdge(plans, draft, send)
  IN Builder!AddConditionalEdges(edge, send, {draft, send, END})

MCEdges == Builder!EdgesOf(MCGraph)

ASSUME GraphCompiles == Builder!Compiles(MCGraph, MCGuarded, MaxIterations)

-----------------------------------------------------------------------------
(* compile against its definition, on the graphs of up to two nodes.       *)

Targets == {plan, draft, END}

\* Every graph the calls lead to: all nodes first, then an edge, a mapping or
\* nothing for each, and any entry point.
Outgoing(g, n) ==
  {g} \cup {Builder!AddEdge(g, n, t) : t \in {x \in Targets : Builder!Unrouted(g, n)}}
      \cup {Builder!AddConditionalEdges(g, n, ts) :
              ts \in {s \in SUBSET Targets : Builder!AddsConditionalEdges(g, n, s)}}
Entered(g) == {Builder!SetEntryPoint(g, n) : n \in {NoName, plan, draft}}

OneNode    == Builder!AddNode(Builder!Empty, plan)
TwoNodes   == Builder!AddNode(OneNode, draft)
Built      == {Builder!Empty}
              \cup Outgoing(OneNode, plan)
              \cup UNION {Outgoing(g, draft) : g \in Outgoing(TwoNodes, plan)}
SmallGraphs == UNION {Entered(g) : g \in Built}

\* A run can start, never stands at a node it does not have or cannot leave, and
\* has a way to every node.
Runnable(g) ==
  LET digraph == [node |-> g.nodes,
                  edge |-> {e \in g.nodes \X g.nodes : e[2] \in Builder!TargetsOf(g, e[1])}]
  IN /\ g.entry \in g.nodes
     /\ \A n \in g.nodes :
          /\ Builder!TargetsOf(g, n) # {}
          /\ Builder!TargetsOf(g, n) \subseteq g.nodes \cup {END}
          /\ Digraphs!ConnectionsIn(digraph)[g.entry, n]

\* compile accepts exactly the runnable graphs, with guards of the graph and a
\* budget, and GraphRun's assumption on its constants is what that gives.
ASSUME CompileIsExact ==
  \A g \in SmallGraphs, guarded \in SUBSET Targets, budget \in 0..1 :
    /\ Builder!Compiles(g, guarded, budget) <=>
         Runnable(g) /\ guarded \subseteq g.nodes /\ budget \in Nat \ {0}
    /\ Builder!Compiles(g, guarded, budget) =>
         Builder!EdgesOf(g) \in [g.nodes -> (SUBSET (g.nodes \cup {END})) \ {{}}]
=============================================================================
