SPECIFICATION Spec
CONSTANTS
    Configs <- MCConfigs
    EndDates = {2, 6, 7}
    LastDate = 9
    Ids = {1, 2}
    Scores = {0, 1}
INVARIANT SupportedModesReturn
CHECK_DEADLOCK FALSE
