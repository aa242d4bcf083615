CONSTANTS
  click = click
  retry = retry
  cron = cron
  agent = agent
  Callers <- MCCallers
  AgentOf <- MCOneAgent
  Serialized <- MCSerialized
  Nobody = Nobody
  Calls = 4
  Gated <- MCGated
  Idempotent <- MCIdempotent
  MaxResumes = 4
  MaxCancels = 1
SPECIFICATION FairSpec
INVARIANT TurnsAreTaken
PROPERTIES DispatchesFitTheRecord EveryResumeEnds
CHECK_DEADLOCK FALSE
