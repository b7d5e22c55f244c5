SPECIFICATION Spec
CONSTANTS
    i1 = i1
    i2 = i2
    Items = {i1, i2}
    Required = {i1, i2}
    x1 = x1
    x2 = x2
    Sessions = {x1, x2}
    Free = Free
    NoRow = NoRow
    Important = TRUE
    DayLength = 3
    Window = {1, 2}
    Midpoint = 2
    Spacing = 1
    Cooldown = 1
    MaxTime = 2
    MaxLog = 2
SYMMETRY Symmetry
INVARIANTS CompletedMeansAcknowledged OneMessagePerSlot TooCloseOverlapped DeadlockIsDoubleClick
PROPERTIES LateChangeOverlapped LastAcknowledgementCloses ReminderWasDue ChoiceKept
CHECK_DEADLOCK FALSE
