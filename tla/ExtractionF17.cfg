CONSTANTS
  Schemas <- MCSchemas
  RepairLimits = {0, 1}
  ChunkSizes = {1, 5}
  Phrase <- WithComma
SPECIFICATION Spec
INVARIANT WholeAnswerIsYielded
CHECK_DEADLOCK FALSE
