---------------------------- MODULE MCToolCalls ----------------------------
(* Instances of ToolCalls for TLC: a tool of every kind, two servers.      *)
EXTENDS ToolCalls

CONSTANTS fs, git

MCConfig == <<fs, git>>
MCCalls == 1..2
MCKind == [note |-> "function", blank |-> "unbound", read |-> "foreign",
           push |-> "served", expert |-> "peer"]
MCServer == [read |-> fs, push |-> git]

\* Functions only, each with its handler.
OneFunction == [note |-> "function"]
NoServer == <<>>
=============================================================================
