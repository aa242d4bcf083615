CONSTANTS
  fs = fs
  git = git
  Config <- MCConfig
  Calls <- MCCalls
  Kind <- MCKind
  Server <- MCServer
  Gated = {"note"}
  FarGated = {"push"}
  MaxFaults = 1
SPECIFICATION FairSpec
INVARIANTS CallsAreHonest TasksAreOrderly SessionsFollowTheBlock
PROPERTIES EveryCallEnds
CHECK_DEADLOCK FALSE
