\* Markets of four providers, negative prices and ties included, the dearest
\* price too large for a millionth to count; four events of every kind, in every
\* combination.
CONSTANTS
    p1 = p1
    p2 = p2
    p3 = p3
    p4 = p4
    NoValue = NoValue
    Provider = {p1, p2, p3, p4}
    Price <- AnyPrice
    Reputation = {0, 5, 12}
    Buckets <- AnyNumber
    Absorbed = {20}
    Event <- AnyEvent
    Announced <- Announcements
    MaxEvents = 4
SYMMETRY Symmetry
SPECIFICATION FiguresSpec
INVARIANTS
    TypeOK
    NewsCountsTheRightWay
    MedianSplits
    HistogramCountsAll
    RecommendationAgrees
