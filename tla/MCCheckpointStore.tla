------------------------- MODULE MCCheckpointStore -------------------------
EXTENDS CheckpointStore

MCOps == 1..3

\* The two processes are alike: the first call is made by "p".
FirstIsP == op[1].store # "q"
=============================================================================
