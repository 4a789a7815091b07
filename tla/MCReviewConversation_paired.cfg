SPECIFICATION MCSpec
CONSTANTS
  Deployments <- MCDeployments
  MaxSize = 100
  PromptSize = 3
  MaxNotes = 1
  MaxReviews = 2
  TurnBound = 3
  MaxCalls = 1
  AgentTurns = 1
  MaxAgents = 0
  AgentReviews = 1
INVARIANTS
  SentHistoryIsPaired
