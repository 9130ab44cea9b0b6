\* Two providers, overlapping rounds, registrations and deletions in between.
CONSTANTS
    p1 = p1
    p2 = p2
    f1 = f1
    Provider = {p1, p2}
    File = {f1}
    MaxFailed = 2
    Moods = {"healthy", "unhealthy", "silent"}
    Pinnable = {p1}
    MaxPending = 1
    MaxProbes = 2
    CountCap = 3
    MissCap = 0
SPECIFICATION Spec
INVARIANTS
    TypeOK
    ReferencesResolve
    ExitsAreEarned
PROPERTIES
    OnlyRegistrationAdds
    RemovalIsEarned
