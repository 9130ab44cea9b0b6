------------------------------- MODULE Pricing -------------------------------
(***************************************************************************)
(* PricingService: the market price, the recommendation to a provider and  *)
(* the histogram of prices, over the rows of the healthy providers.        *)
(*                                                                         *)
(* Prices are integers in the smallest unit of account; results that are   *)
(* fractions in the code are scaled, by 100 for the market price and the   *)
(* recommendation.  Capacity does not enter the prices and is left out.    *)
(***************************************************************************)
EXTENDS Integers, FiniteSets, Sequences, Functions

CONSTANTS
    Provider,    \* provider ids
    Price,       \* price_per_gb_month, any text: a number, below 0 as well
    Reputation,  \* rep_overall, in tenths, any text as well
    Buckets,     \* numbers of buckets asked for; NaN stands with those below 1
    Absorbed     \* prices that 0.000001 does not change, from 2^34 in magnitude

ASSUME ConstantsAssumption ==
    /\ IsFiniteSet(Provider)
    /\ Price \subseteq Int
    /\ Reputation \subseteq Int
    /\ Buckets \subseteq Int

VARIABLE row   \* [price, rep, healthy] of a provider, or NoRow

NoRow == [price |-> 0, rep |-> 0, healthy |-> FALSE]
Row == [price : Price, rep : Reputation, healthy : BOOLEAN]

Init == row = [p \in Provider |-> NoRow]

\* Registrations, deletions, checks and score updates, whoever does them.
Change(p) == \E r \in Row \cup {NoRow} : row' = [row EXCEPT ![p] = r]

Next == \E p \in Provider : Change(p)

Spec == Init /\ [][Next]_row

-----------------------------------------------------------------------------
(* The market                                                              *)

Healthy == {p \in Provider : row[p].healthy}

\* SELECT price ... WHERE health_status = 'Healthy' ORDER BY price ASC.
Ascending(order) ==
    \A i, j \in DOMAIN order : i < j => row[order[i]].price <= row[order[j]].price

Prices ==
    LET all == Bijection(1..Cardinality(Healthy), Healthy)
        order == CHOOSE f \in all : Ascending(f)
    IN  [i \in DOMAIN order |-> row[order[i]].price]

\* Faulty variant: the index of the middle is not that of an array from 0.
MedianShifted(prices) ==
    LET n == Len(prices)
        mid == n \div 2
    IN  IF n % 2 = 0 THEN 50 * (prices[mid] + prices[mid + 1])
                     ELSE 100 * prices[IF mid = 0 THEN 1 ELSE mid]

\* In hundredths.
Median(prices) ==
    LET n == Len(prices)
        mid == n \div 2
    IN  IF n % 2 = 0 THEN 50 * (prices[mid] + prices[mid + 1])
                     ELSE 100 * prices[mid + 1]

Greater(a, b) == IF a > b THEN a ELSE b

\* 80% of the median, and never below the lowest price.
Floor(prices) == Greater(100 * prices[1], (4 * Median(prices)) \div 5)
Ceiling(prices) == (3 * Median(prices)) \div 2

-----------------------------------------------------------------------------
(* The recommendation                                                      *)

\* Faulty variant: the multiplier is centred on no reputation.
RecommendedUp(rep) == (Median(Prices) * (50 + rep)) \div 50

\* The median times 1 + (reputation - 0.5) * 0.2.
Recommended(rep) == (Median(Prices) * (45 + rep)) \div 50

\* More than five per cent off the median, or not.
Position(price) ==
    LET median == Median(Prices)
        off == 100 * (100 * price - median)
    IN  CASE median > 0 /\ off < -5 * median -> "below"
          [] median > 0 /\ off > 5 * median  -> "above"
          [] OTHER                           -> "at"

-----------------------------------------------------------------------------
(* The histogram                                                           *)

Lowest(prices) == prices[1]
Highest(prices) == prices[Len(prices)]

\* Faulty variant: the last bucket ends at the highest price like the others.
InBucketOpen(price, i, n, prices) ==
    LET range == Highest(prices) - Lowest(prices)
    IN  /\ n * (price - Lowest(prices)) >= i * range
        /\ n * (price - Lowest(prices)) < (i + 1) * range

\* Is a price in bucket i of n, counted from 0?  The last bucket ends 0.000001
\* above the highest price, where that is a different number.
InBucket(price, i, n, prices) ==
    LET range == Highest(prices) - Lowest(prices)
    IN  /\ n * (price - Lowest(prices)) >= i * range
        /\ IF i = n - 1 THEN price < Highest(prices) \/ Highest(prices) \notin Absorbed
                        ELSE n * (price - Lowest(prices)) < (i + 1) * range

\* No bucket at all where fewer than one is asked for.
Distribution(n, prices) ==
    IF Highest(prices) = Lowest(prices)
    THEN <<Len(prices)>>
    ELSE [k \in 1..n |->
            Cardinality({j \in DOMAIN prices : InBucket(prices[j], k - 1, n, prices)})]

-----------------------------------------------------------------------------
\* The definition of a median, at least half of the healthy providers charge no
\* more and at least half charge no less.  The floor is never below the cheapest
\* price.  It leaves the median in the market, with the ceiling above it, as long
\* as the median is not negative; of a negative one, which nothing in the code
\* rules out, 80% is more than the whole and 150% is less.
MedianSplits ==
    Healthy # {} =>
        LET median == Median(Prices)
            n == Cardinality(Healthy)
        IN  /\ 2 * Cardinality({p \in Healthy : 100 * row[p].price <= median}) >= n
            /\ 2 * Cardinality({p \in Healthy : 100 * row[p].price >= median}) >= n
            /\ 100 * Lowest(Prices) <= Floor(Prices)
            /\ Floor(Prices) <= median <=> median >= 0
            /\ median <= Ceiling(Prices) <=> median >= 0

\* Whom a histogram of n buckets shows: everybody when all charge the same;
\* nobody when fewer than one bucket is asked for; else everybody but those at
\* a highest price too large for the end of the last bucket to be above it.
Shown(n) ==
    LET top == Highest(Prices)
    IN  {p \in Healthy :
            \/ Lowest(Prices) = top
            \/ n >= 1 /\ (row[p].price < top \/ top \notin Absorbed)}

\* Every provider the histogram is to show is counted in exactly one bucket,
\* whatever the number of buckets that was asked for, and nobody else in any.
HistogramCountsAll ==
    \A n \in Buckets : Healthy # {} =>
        SumFunction(Distribution(n, Prices)) = Cardinality(Shown(n))

\* A provider that charges what is recommended to it is not told that its price
\* is out of line on the side its reputation does not justify.
RecommendationAgrees ==
    Healthy # {} => \A p \in Provider :
        /\ row[p].rep >= 5 /\ 100 * row[p].price >= Recommended(row[p].rep)
              => Position(row[p].price) # "below"
        /\ row[p].rep <= 5 /\ 100 * row[p].price <= Recommended(row[p].rep)
              => Position(row[p].price) # "above"
=============================================================================
