SPECIFICATION Spec
CONSTANTS
  NumSteps = 3
  Required = {1, 2, 3}
  Quizzes = {}
  Blocks = 1
  MaxTries = 1
  Sessions = {x1, x2}
  Kinds = {"complete"}
  Clients = {"web"}
  Free = Free
  Gone = Gone
INVARIANT FinishedIsClosed
CHECK_DEADLOCK FALSE
