SPECIFICATION Spec
CONSTANTS
    Steps = {s1, s2}
    Rows = {r1, r2}
    Runs = {a1}
    Sessions = {x1, x2}
    Gone = Gone
    Free = Free
    MaxRevision = 3
SYMMETRY Symmetry
INVARIANTS AssignedStepsExist
PROPERTIES LockHolds GenerationNamesContent
CHECK_DEADLOCK FALSE
