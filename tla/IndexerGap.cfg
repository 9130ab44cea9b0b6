\* Changes on chain around the start and around a prune.
CONSTANTS
    o1 = o1
    o2 = o2
    v1 = v1
    v2 = v2
    Owner = {o1}
    Value = {v1, v2}
    Foreign = Foreign
    Garbled = Garbled
    Absent = Absent
    HttpRow = HttpRow
    NoRow = NoRow
    Pinnable = {}
    Shared = {}
    c1 = c1
    c2 = c2
    Call = {c1}
    MaxInbox = 2
SPECIFICATION FairSpec
PROPERTY
    ChangesReflected
