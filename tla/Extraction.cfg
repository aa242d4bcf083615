CONSTANTS
  Schemas <- MCSchemas
  RepairLimits = {0, 1}
  ChunkSizes = {1, 5}
  Phrase <- Plain
SPECIFICATION FairSpec
INVARIANTS NativeNeedsNoRepair AnswerIsReadAsMeant WholeAnswerIsYielded
PROPERTY EveryExtractionEnds
CHECK_DEADLOCK FALSE
