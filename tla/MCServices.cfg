CONSTANTS
    Chosen <- Catalogue
    Strikes = {1, 2, 3}
    Expirations = {1, 2}
    Flaws = {"label", "quantity", "underlying"}
    Grids <- AllGrids
    Far = 6
    Ids = {i1, i2}
    Aliases = {i2, a1}
    Versions = {1, 2}
    MaxSets = 1
    NoId = NoId
    Composed <- MCComposed
    Parameters <- MCParameters
    Contexts <- MCContexts
    Redirected = {"earnings.avoid_near_event", "roll.delta_breach"}
    MaxAliases = 2
    Estimates <- MCEstimates
    Limits <- MCLimits
    Fees = 1
    RollExpirations = {2, 3}
    Monthly = {3}
    MaxRolls = 3
    TimeOut = 2
    LastDay = 2
    Unknown = Unknown
    Problems <- MCProblems
    Payloads <- MCPayloads
    MaxWorkers = 2
    TopK = 2
    Configs <- MCConfigs
    EndDates = {2, 6, 7}
    LastDate = 8
    Trained = {1, 2}
    Scores = {0, 1}
    Histories <- MCHistories
    Groups = 3
    TestGroups = 1
    Purges = {0, 1}
    Embargoes = {0, 1}
    Candidates = {1, 2, 3}
    Metrics = {0, 1}
    Folds = 1
    PValues = {0, 6, 12, 18, 36, 60}
    Tests = 3
    Unit = 60
    Alpha = 18
    Callers = {c1, c2}
    MaxRetries = 2
    Size = 2
    BaseBackoff = 2
    MaxBackoff = 3
    MaxRuns = 3
SPECIFICATION ServicesSpec
INVARIANTS StructuresTellTheirRisk NamesLeadSomewhere EarningsBlock RollsAreAccounted SearchIsSound WalksLookBack StudiesAreSound RetriesAreBounded
PROPERTIES SettledStays BegunEnds
