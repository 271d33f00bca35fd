SPECIFICATION ApplicationSpec
CONSTANTS
    Spawns = 2
    Launches = 2
    RestartLimit = 1
    Polls = 1
    Minimum = 2
    Current = 3
    MaxWrites = 1
INVARIANTS EverySidecarIsOwned
PROPERTIES ImplementsExclusive
CHECK_DEADLOCK FALSE
