\* Providers that do not answer: their failures are never written back.
CONSTANTS
    p1 = p1
    p2 = p2
    f1 = f1
    Provider = {p1}
    File = {f1}
    MaxFailed = 2
    Moods = {"healthy", "silent"}
    Pinnable = {}
    MaxPending = 1
    MaxProbes = 2
    CountCap = 3
    MissCap = 3
SPECIFICATION Spec
INVARIANT
    NeverOverlooked
