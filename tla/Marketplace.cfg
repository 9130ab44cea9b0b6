\* Searches, quote requests and statistics while providers come and go, across a
\* midnight.
CONSTANTS
    p1 = p1
    p2 = p2
    p3 = p3
    Europe = Europe
    Asia = Asia
    Any = Any
    Provider = {p1, p2}
    Offers <- TwoOffers
    Region = {Europe, Asia}
    FreePrice = 2
    Timeout = 2
    DayLength = 3
    MaxResults = 2
    Limits = {0, 1}
    QuoteRegions = {Any}
    QuoteMinRep = 3
    QuoteLimit = 1
    MaxTime = 4
SPECIFICATION FairSpec
INVARIANTS
    TypeOK
    OnlineOnly
    ValueRespectsDominance
PROPERTIES
    QuotesAnswered
    StatsCatchUp
