SPECIFICATION FairSpec
CONSTANTS
  NumSteps = 1
  Required = {1}
  Quizzes = {}
  Blocks = 3
  MaxTries = 1
  Sessions = {x1, x2}
  Kinds = {"advance"}
  Clients = {"web"}
  Free = Free
  Gone = Gone
PROPERTY StaleAdvanceIsNoOp
CHECK_DEADLOCK FALSE
