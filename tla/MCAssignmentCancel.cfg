SPECIFICATION FairSpec
CONSTANTS
  NumSteps = 1
  Required = {1}
  Quizzes = {}
  Blocks = 1
  MaxTries = 1
  Sessions = {x1, x2}
  Kinds = {"complete", "cancel"}
  Clients = {"web"}
  Free = Free
  Gone = Gone
PROPERTY CompletedStaysCompleted
CHECK_DEADLOCK FALSE
