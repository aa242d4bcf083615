CONSTANTS
  read = read
  pay = pay
  mail = mail
  Tools <- MCTools
  Idempotent <- MCIdempotent
  Gated <- MCGated
  Registries <- MCRegistries
  Limits = {2}
  MaxSteps = 2
  MaxCalls = 2
  MaxRuns = 1
  MaxResumes = 2
  MaxFailures = 1
SPECIFICATION Spec
INVARIANTS NoAutoReplay GateHolds CallsAccountedFor PendingIsNext
PROPERTIES LedgerKept ProgressKept
CHECK_DEADLOCK FALSE
