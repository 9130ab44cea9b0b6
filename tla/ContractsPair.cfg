\* Two contracts of one provider: order, cuts and deaths within a tick, and
\* settlement under fairness.
CONSTANTS
    c1 = c1
    c2 = c2
    p1 = p1
    Contract = {c1, c2}
    Provider = {p1}
    ProviderOf <- OneProvider
    Durations = {1, 2}
    StaleAfter = 1
    FailureThreshold = 2
    MaxTime = 4
    MaxDeposits = 1
    MaxProofs = 1
    MaxPosted = 0
    MaxTorn = 1
SPECIFICATION FairSpec
PROPERTIES
    ExpiredSettles
    ImplementsFairLifecycle
