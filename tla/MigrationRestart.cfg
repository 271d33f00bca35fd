SPECIFICATION Spec
CONSTANTS
    Minimum = 2
    Current = 3
    MaxWrites = 2
    MaxRestores = 1
    Sidecar = {s1}
    Exclusive = TRUE
INVARIANT RestoredIsStartable
CHECK_DEADLOCK FALSE
