\* An administrator touches a provider that is alive.
CONSTANTS
    p1 = p1
    p2 = p2
    p3 = p3
    Europe = Europe
    Asia = Asia
    Any = Any
    Provider = {p1}
    Offers <- TwoOffers
    Region = {Europe, Asia}
    FreePrice = 2
    Timeout = 2
    DayLength = 3
    MaxResults = 2
    Limits = {}
    QuoteRegions = {}
    QuoteMinRep = 3
    QuoteLimit = 1
    MaxTime = 6
SPECIFICATION Spec
INVARIANT
    HeardIsOnline
