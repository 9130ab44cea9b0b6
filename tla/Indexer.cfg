\* One chain account and another, restarts, stops, lost notifications, and
\* the rest of the service on the same rows.
CONSTANTS
    o1 = o1
    o2 = o2
    v1 = v1
    v2 = v2
    Owner = {o1, o2}
    Value = {v1, v2}
    Foreign = Foreign
    Garbled = Garbled
    Absent = Absent
    HttpRow = HttpRow
    NoRow = NoRow
    Pinnable = {o1}
    Shared = {o1}
    c1 = c1
    c2 = c2
    Call = {c1, c2}
    MaxInbox = 2
SPECIFICATION FairSpec
INVARIANTS
    TypeOK
    LagExplained
PROPERTIES
    DeregisteredFallsOut
    NoUpsertAfterStop
