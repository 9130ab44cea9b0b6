\* A provider, its files and its contract in one process with checker and timer.
CONSTANTS
    c1 = c1
    p1 = p1
    f1 = f1
    Provider = {p1}
    File = {f1}
    MaxFailed = 2
    Moods = {"healthy", "unhealthy"}
    MaxPending = 1
    MaxProbes = 1
    CountCap = 3
    MissCap = 0
    Contract = {c1}
    ProviderOf <- FirstProvider
    Durations = {1}
    StaleAfter = 1
    FailureThreshold = 1
    MaxTime = 3
    MaxDeposits = 1
    MaxProofs = 0
    MaxPosted = 1
    MaxTorn = 1
    MaxKills = 1
SPECIFICATION FairSpec
INVARIANTS
    TypeOK
    ContractsResolve
PROPERTIES
    SettlesUnlessLooping
    UnhealthyLeaves
