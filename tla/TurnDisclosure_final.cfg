SPECIFICATION FairSpec
CONSTANTS
  c1 = c1  c2 = c2  k1 = k1  k2 = k2  a1 = a1  ch1 = ch1  quota = quota
  None = None
  Calls <- MCCalls
  Tasks <- MCTasks
  Agents <- MCAgents
  Chats <- MCChats
  Errors <- MCErrors
  RateLimit = quota
  Configured <- MCConfigured
  MaxTurns = 3
  MaxRoutes = 1
  MaxDepth = 1
  MaxRetained = 2
  MaxActive = 1
  MaxIncidents = 1
  MaxEvents = 5
CHECK_DEADLOCK FALSE
INVARIANTS
  OneAnswer
  BubbleTellsOutcome
PROPERTIES
  NoStaleAnswer
  FinishReturns
