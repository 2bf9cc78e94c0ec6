SPECIFICATION MCSpec
CONSTANTS
  w1 = w1
  w2 = w2
  Workers = {w1, w2}
  Boss = "boss"
  Answers <- MCAnswers
  Order <- MCOrder
  Listed <- MCListed
  BossAnswers <- MCBossAnswers
  MaxRounds = 2
  MaxRetries = 1
  Fallbacks = 1
  MaxTokens = 2
  MaxToolCalls = 2
  Windows = {0, 2}
  Modes = {"mailbox", "chain", "parallel", "router", "supervisor"}
  MaxMessages = 2
  MaxStops = 1
  k1 = k1
  k2 = k2
  k3 = k3
  q1 = q1
  q2 = q2
  q3 = q3
  Convs = {k1, k2, k3}
  Requests = {q1, q2, q3}
  Scenarios <- MCScenarios
  Room = 2
  DynamicRoom = 2
  MaxOthers = 1
  Inbox = 1
  MaxFaults = 1
INVARIANTS
  RequestsHoldTogether
  BudgetOverrunIsBounded
  ResultsFollowOrder
  HistoryIsKept
  RefusalsAreExplained
PROPERTIES
  EveryTurnEnds
  EveryRequestIsAnswered
CHECK_DEADLOCK FALSE
