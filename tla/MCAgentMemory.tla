---------------------------- MODULE MCAgentMemory ---------------------------
(* Instances of AgentMemory for TLC.                                       *)
EXTENDS AgentMemory

CONSTANTS first, second

MCTurns == {first, second}
MCModes == {"isolated", "serialized"}
=============================================================================
