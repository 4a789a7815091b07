SPECIFICATION MCFairSpec
CONSTANTS
  Deployments <- MCDeployments
  MaxSize = 9
  PromptSize = 3
  MaxNotes = 1
  MaxReviews = 2
  TurnBound = 3
  MaxCalls = 2
  AgentTurns = 2
  MaxAgents = 2
  AgentReviews = 1
INVARIANTS
  TypeOK
  DamagedOnlyAtTheFront
  NoNoteIsLost
  FirstRequestFits
  BudgetIsKept
  AnswersReachTheProvider
  OnlyFailuresLeaveAgents
  CostsAreComplete
PROPERTIES
  FailedRunsKeepHistory
  ReviewsEnd
  AgentsEnd
