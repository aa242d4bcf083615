CONSTANTS
  read = read
  pay = pay
  mail = mail
  Tools <- MCTools
  Idempotent <- MCIdempotent
  Gated <- MCGated
  Registries <- MCSameAgent
  Limits = {1, 2}
  MaxSteps = 2
  MaxCalls = 1
  MaxRuns = 2
  MaxResumes = 2
  MaxFailures = 2
SPECIFICATION FairSpec
PROPERTIES ErrorsKept CompletedIsFinal EveryCallReturns
CHECK_DEADLOCK FALSE
