SPECIFICATION Spec
CONSTANTS
  NumSteps = 2
  Required = {1, 2}
  Quizzes = {2}
  Blocks = 2
  MaxTries = 2
  Sessions = {x1, x2, x3}
  Kinds = {"complete", "advance", "read", "cancel"}
  Clients = {"telegram", "bare"}
  Free = Free
  Gone = Gone
SYMMETRY Interchangeable
INVARIANTS CancelledIsClean CompletedWasEarned WorkShowsOnAssignment NoWaitCycle
PROPERTIES CancelledIsFinal
CHECK_DEADLOCK FALSE
