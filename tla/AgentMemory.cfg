CONSTANTS
  first = first
  second = second
  Turns <- MCTurns
  Modes <- MCModes
  Limits = {0, 1, 3, 4}
  Nobody = Nobody
  MaxRounds = 1
  MaxFailures = 2
  MaxResumes = 2
  MaxResets = 1
SPECIFICATION FairSpec
INVARIANTS TurnsAreWhole OwnTurnIsLast
PROPERTIES EveryTurnEnds
CHECK_DEADLOCK FALSE
