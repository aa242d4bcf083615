CONSTANTS
  N = 2
  Prompts <- MCPrompts
  CaseScorer <- MCScorers
  Answers <- MCAnswers
  MaxSteps = 2
  MaxFailures = 1
SPECIFICATION FairSpec
INVARIANTS ReplayKeepsTheRecording LoadIsHonest CasesAreIndependent
PROPERTY SuiteEnds
CHECK_DEADLOCK FALSE
