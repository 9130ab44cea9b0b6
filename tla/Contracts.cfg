\* One contract in depth: proofs, deposits that reopen it, ticks, deaths.
CONSTANTS
    c1 = c1
    c2 = c2
    p1 = p1
    Contract = {c1}
    Provider = {p1}
    ProviderOf <- OneProvider
    Durations = {1, 3}
    StaleAfter = 1
    FailureThreshold = 2
    MaxTime = 5
    MaxDeposits = 2
    MaxProofs = 3
    MaxPosted = 1
    MaxTorn = 1
SPECIFICATION Spec
INVARIANTS
    TypeOK
    SettledOncePerDeposit
    ProofsAccounted
    PeriodsIncrease
    FailuresAreConsecutive
    FailedForCause
    ViolatedOnlyAfterProof
    ScoresFollowEvents
