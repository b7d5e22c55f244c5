SPECIFICATION FairOverlapSpec
CONSTANTS
  NumSteps = 2
  Required = {1, 2}
  Quizzes = {2}
  Blocks = 2
  MaxTries = 1
  Sessions = {x1, x2}
  Kinds = {"complete", "start", "advance", "read", "cancel"}
  Clients = {"telegram", "web"}
  Free = Free
  Gone = Gone
PROPERTIES ResultToldIsStored UndisturbedIsAtomic EveryRequestAnswered
CHECK_DEADLOCK FALSE
