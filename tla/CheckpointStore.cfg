CONSTANTS
  Ops <- MCOps
  Threads = {"t"}
  Stores = {"p", "q"}
  MaxFaults = 1
SPECIFICATION FairSpec
CONSTRAINT FirstIsP
PROPERTIES LockedOutByOthers IsRegister OlderNeverLandsOver EveryCallEnds
CHECK_DEADLOCK FALSE
