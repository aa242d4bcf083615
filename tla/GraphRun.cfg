CONSTANTS
  plan = plan
  draft = draft
  send = send
  END = END
  NoName = NoName
  ROUTING = ROUTING
  Nodes <- MCNodes
  Entry = plan
  Edges <- MCEdges
  Guarded <- MCGuarded
  MaxIterations = 3
  MaxRuns = 2
  MaxResumes = 3
  MaxFailures = 2
SPECIFICATION FairSpec
INVARIANTS GateHolds RecordFits
PROPERTIES WalkKept ErrorsKept EveryRunReturns
CHECK_DEADLOCK FALSE
