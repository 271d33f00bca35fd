SPECIFICATION FairSpec
CONSTANTS
    Sidecar = {s1}
    Minimum = 2
    Current = 4
    MaxWrites = 3
    MaxRestores = 2
    Exclusive = TRUE
INVARIANTS TypeOK DamageIsRecoverable NewestWriteKept ServingIsCurrent
PROPERTIES OriginalBackupKept StartupSettles
CHECK_DEADLOCK FALSE
