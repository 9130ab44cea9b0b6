-------------------------- MODULE MarketplaceProofs --------------------------
(***************************************************************************)
(* Proofs about Marketplace, for every set of providers and offers, every  *)
(* timeout and length of the day, every limit, and a clock that goes on    *)
(* for any time.  An answer lasts for one step, so what is claimed of it   *)
(* needs no more of the state it was made in than its types.               *)
(***************************************************************************)
EXTENDS Marketplace, FiniteSetTheorems, TLAPS

Row == Offers \cup {NoRow}

\* An answer to a search by value is in descending order of Value.
ByValue == answer.sort = "value" =>
    \A i, j \in DOMAIN answer.list :
        i < j => Value(offer[answer.list[i]]) >= Value(offer[answer.list[j]])

-----------------------------------------------------------------------------
(* Arithmetic                                                              *)

LEMMA Numbers ==
    /\ FreePrice \in Nat /\ FreePrice > 0 /\ Timeout \in Nat
    /\ DayLength \in Nat /\ DayLength > 0 /\ MaxResults \in Nat
    /\ QuoteLimit \in Nat /\ IsFiniteSet(Provider)
    /\ Limits \subseteq Int
BY ConstantsAssumption

LEMMA Rows == \A o \in Row : o.rep \in Int /\ o.price \in Int
BY ConstantsAssumption DEF Row, NoRow

LEMMA Times ==
    ASSUME NEW d \in Nat, d > 0, NEW m \in Int, NEW n \in Int, m < n
    PROVE  d * m + d <= d * n
<1>1. d * (n - m) >= d * 1
  OBVIOUS
<1> QED
  BY <1>1

\* The day never goes back.
LEMMA DaysPass ==
    ASSUME NEW s \in Int, NEW t \in Int, s <= t
    PROVE  Day(s) <= Day(t)
<1> DEFINE q == s \div DayLength
           r == t \div DayLength
<1>1. /\ q \in Int /\ DayLength * q <= s /\ s < DayLength * q + DayLength
      /\ r \in Int /\ DayLength * r <= t /\ t < DayLength * r + DayLength
  BY Numbers
<1> HIDE DEF q, r
<1>2. r < q => DayLength * r + DayLength <= DayLength * q
  BY <1>1, Numbers, Times
<1>3. DayLength * r \in Int /\ DayLength * q \in Int
  BY <1>1, Numbers
<1>4. q <= r
  BY <1>1, <1>2, <1>3, Numbers
<1> QED
  BY <1>4 DEF Day, q, r

\* A better reputation outweighs any price that is no lower.
LEMMA Dominance ==
    ASSUME NEW a \in Row, NEW b \in Row, a.rep > b.rep, a.price <= b.price
    PROVE  Value(a) > Value(b)
<1> DEFINE x == Lesser(a.price, FreePrice)
           y == Lesser(b.price, FreePrice)
<1>1. a.rep \in Int /\ b.rep \in Int /\ a.price \in Int /\ b.price \in Int
  BY Rows
<1>2. x \in Int /\ y \in Int /\ x <= y
  BY <1>1, Numbers DEF Lesser
<1>3. FreePrice * b.rep + FreePrice <= FreePrice * a.rep
  BY <1>1, Numbers, Times
<1>4. FreePrice * a.rep \in Int /\ FreePrice * b.rep \in Int
  BY <1>1, Numbers
<1>5. Value(a) = 6 * (FreePrice * a.rep) + 40 * (FreePrice - x)
      /\ Value(b) = 6 * (FreePrice * b.rep) + 40 * (FreePrice - y)
  BY <1>1, Numbers DEF Value
<1> HIDE DEF x, y
<1> QED
  BY <1>2, <1>3, <1>4, <1>5, Numbers

-----------------------------------------------------------------------------
(* Searches                                                                *)

LEMMA Counts ==
    ASSUME NEW S, S \subseteq Provider
    PROVE  IsFiniteSet(S) /\ Cardinality(S) \in Nat
BY Numbers, FS_Subset, FS_CardinalityType

LEMMA ListType ==
    ASSUME NEW S, S \subseteq Provider, NEW n \in Nat, NEW sort,
           NEW l \in Firsts(S, n, sort)
    PROVE  l \in Seq(Provider) /\ DOMAIN l = 1..n
<1>1. l \in [1..n -> S]
  BY DEF Firsts
<1>2. l \in [1..n -> Provider]
  BY <1>1
<1> QED
  BY <1>2

LEMMA Found == \A region, minRep : Matches(region, minRep) \subseteq Provider
BY DEF Matches, Online, Registered

LEMMA SearchAnswer ==
    ASSUME NEW region, NEW minRep, NEW sort \in Sorts, NEW limit \in Limits,
           Search(region, minRep, sort, limit)
    PROVE  \E n \in Nat : \E l \in Firsts(Matches(region, minRep), n, sort) :
              answer' = [list |-> l, total |-> Cardinality(Matches(region, minRep)),
                         sort |-> sort,
                         more |-> Cardinality(Matches(region, minRep)) >= MaxResults]
<1> DEFINE S == Matches(region, minRep)
           n == Returned(Cardinality(S), limit)
<1>1. Cardinality(S) \in Nat
  BY Found, Counts
<1>2. n \in Nat
  BY <1>1, Numbers DEF Returned, Lesser
<1>3. answer' \in {[list |-> l, total |-> Cardinality(S), sort |-> sort,
                    more |-> Cardinality(S) >= MaxResults] : l \in Firsts(S, n, sort)}
  BY DEF Search
<1> QED
  BY <1>2, <1>3

Answers == [list : Seq(Provider), total : Nat, more : BOOLEAN,
            sort : Sorts \cup {"none"}]

LEMMA SearchType ==
    ASSUME NEW region, NEW minRep, NEW sort \in Sorts, NEW limit \in Limits,
           Search(region, minRep, sort, limit)
    PROVE  answer' \in Answers
<1> DEFINE total == Cardinality(Matches(region, minRep))
<1>1. PICK n \in Nat : \E l \in Firsts(Matches(region, minRep), n, sort) :
              answer' = [list |-> l, total |-> total, sort |-> sort,
                         more |-> total >= MaxResults]
  BY SearchAnswer
<1>2. PICK l \in Firsts(Matches(region, minRep), n, sort) :
              answer' = [list |-> l, total |-> total, sort |-> sort,
                         more |-> total >= MaxResults]
  BY <1>1
<1>3. l \in Seq(Provider) /\ total \in Nat
  BY Found, Counts, ListType
<1>4. (total >= MaxResults) \in BOOLEAN
  BY <1>3, Numbers
<1> HIDE DEF total
<1> QED
  BY <1>2, <1>3, <1>4 DEF Answers

\* The answer of a search is sorted, and by the rows as they stay.
LEMMA SearchSorted ==
    ASSUME NEW region, NEW minRep, NEW sort \in Sorts, NEW limit \in Limits,
           Search(region, minRep, sort, limit)
    PROVE  ByValue'
<1> SUFFICES ASSUME answer'.sort = "value",
                    NEW i \in DOMAIN answer'.list, NEW j \in DOMAIN answer'.list, i < j
             PROVE  Value(offer'[answer'.list[i]]) >= Value(offer'[answer'.list[j]])
  BY DEF ByValue
<1> DEFINE S == Matches(region, minRep)
<1>1. PICK n \in Nat : \E l \in Firsts(S, n, sort) :
              answer' = [list |-> l, total |-> Cardinality(S), sort |-> sort,
                         more |-> Cardinality(S) >= MaxResults]
  BY SearchAnswer
<1>2. answer'.list \in Firsts(S, n, sort) /\ answer'.sort = sort
  BY <1>1
<1>3. i \in 1..n /\ j \in 1..n
  BY <1>2, Found, ListType
<1>4. Key(offer[answer'.list[i]], sort) >= Key(offer[answer'.list[j]], sort)
  BY <1>2, <1>3 DEF Firsts
<1>5. offer' = offer
  BY DEF Search, table
<1>6. sort = "value"
  BY <1>2
<1> QED
  BY <1>4, <1>5, <1>6 DEF Key

-----------------------------------------------------------------------------
(* Invariance                                                              *)

LEMMA NoAnswerType == NoAnswer \in Answers
<1>1. <<>> \in Seq(Provider)
  OBVIOUS
<1> QED
  BY <1>1 DEF NoAnswer, Answers

LEMMA InitType == Init => TypeOK
<1> SUFFICES ASSUME Init PROVE TypeOK
  OBVIOUS
<1>1. answer \in Answers
  BY NoAnswerType DEF Init
<1>2. /\ seen \in [Provider -> [at : Nat, form : {"iso", "sql"}]]
      /\ stats \in [total : Nat, online : Nat]
  BY DEF Init, Never
<1> QED
  BY <1>1, <1>2, Numbers DEF Init, TypeOK, Answers

\* What Leave and Announce count.
LEMMA RegisteredCounts ==
    ASSUME TypeOK
    PROVE  /\ Cardinality(Registered) \in Nat /\ Cardinality(Online) \in Nat
           /\ \A p \in Provider : /\ Cardinality(Registered \cup {p}) \in Nat
                                  /\ Cardinality(Registered \ {p}) \in Nat
<1>1. Registered \subseteq Provider /\ Online \subseteq Provider
  BY DEF Registered, Online
<1>2. \A p \in Provider : /\ Registered \cup {p} \subseteq Provider
                          /\ Registered \ {p} \subseteq Provider
  BY <1>1
<1> QED
  BY <1>1, <1>2, Counts

\* A step that is no search answers nothing.
Other ==
    \/ \E p \in Provider : \/ \E o \in Offers : Announce(p, o)
                           \/ Leave(p) \/ Heartbeat(p) \/ Administer(p)
                           \/ Headers(p) \/ Abort(p) \/ Body(p)
    \/ \E region \in QuoteRegions : RequestQuotes(region)
    \/ FinishQuotes \/ UpdateStats \/ Elapse

Searches == \E region \in Region \cup {Any}, minRep \in {Any, QuoteMinRep},
               sort \in Sorts, limit \in Limits : Search(region, minRep, sort, limit)

LEMMA NextIs == Next => Other \/ Searches
BY DEF Next, Other, Searches

LEMMA OtherAnswersNothing == Other => answer' = NoAnswer
BY DEF Other, Announce, Leave, Heartbeat, Administer, Headers, Abort, Body,
   RequestQuotes, FinishQuotes, UpdateStats, Elapse

Calls == [Provider -> {"none", "asked", "body", "quote", "null"}]
Beats == [Provider -> [at : Nat, form : {"iso", "sql"}]]
Figures == [total : Nat, online : Nat]

LEMMA OtherType ==
    ASSUME TypeOK, Other
    PROVE  /\ offer' \in [Provider -> Row] /\ seen' \in Beats
           /\ alive' \in [Provider -> Nat] /\ stats' \in Figures
           /\ quote' \in {"idle", "waiting"} /\ call' \in Calls /\ now' \in Nat
<1>0. /\ offer \in [Provider -> Row] /\ seen \in Beats
      /\ alive \in [Provider -> Nat] /\ stats \in Figures
      /\ quote \in {"idle", "waiting"} /\ call \in Calls /\ now \in Nat
  BY DEF TypeOK, Row, Beats, Figures, Calls
<1>1. /\ [at |-> now, form |-> "iso"] \in [at : Nat, form : {"iso", "sql"}]
      /\ [at |-> now, form |-> "sql"] \in [at : Nat, form : {"iso", "sql"}]
      /\ Never \in [at : Nat, form : {"iso", "sql"}]
  BY <1>0 DEF Never
<1>2. CASE \E p \in Provider : \/ \E o \in Offers : Announce(p, o)
                               \/ Leave(p)
  <2> PICK p \in Provider : (\E o \in Offers : Announce(p, o)) \/ Leave(p)
    BY <1>2
  <2>1. /\ UNCHANGED <<quote, call, now>>
        /\ seen' \in Beats /\ alive' \in [Provider -> Nat]
    BY <1>0, <1>1 DEF Announce, Leave, Beats
  <2>2. offer' \in [Provider -> Row]
    BY <1>0 DEF Announce, Leave, Row
  <2>3. stats' \in Figures
    BY <1>0, RegisteredCounts DEF Announce, Leave, Figures
  <2> QED
    BY <1>0, <2>1, <2>2, <2>3
<1>3. CASE \E p \in Provider : Heartbeat(p) \/ Administer(p)
  <2> PICK p \in Provider : Heartbeat(p) \/ Administer(p)
    BY <1>3
  <2>1. seen' \in Beats /\ alive' \in [Provider -> Nat]
    BY <1>0, <1>1 DEF Heartbeat, Administer, Beats
  <2> QED
    BY <1>0, <2>1 DEF Heartbeat, Administer
<1>4. CASE \E p \in Provider : Headers(p) \/ Abort(p) \/ Body(p)
  <2> PICK p \in Provider : Headers(p) \/ Abort(p) \/ Body(p)
    BY <1>4
  <2>1. UNCHANGED <<table, stats, quote, now>> /\ call' \in Calls
    BY <1>0 DEF Headers, Abort, Body, Calls
  <2> QED
    BY <1>0, <2>1 DEF table
<1>5. CASE (\E region \in QuoteRegions : RequestQuotes(region)) \/ FinishQuotes
  <2>1. /\ UNCHANGED <<table, stats, now>> /\ call' \in Calls
        /\ quote' \in {"idle", "waiting"}
    BY <1>5 DEF RequestQuotes, FinishQuotes, Calls
  <2> QED
    BY <1>0, <2>1 DEF table
<1>6. CASE UpdateStats
  <2>1. stats' \in Figures
    BY <1>6, RegisteredCounts DEF UpdateStats, Figures
  <2> QED
    BY <1>0, <1>6, <2>1 DEF UpdateStats, table
<1>7. CASE Elapse
  BY <1>0, <1>7 DEF Elapse, table
<1> QED
  BY <1>2, <1>3, <1>4, <1>5, <1>6, <1>7 DEF Other

LEMMA NextType == TypeOK /\ [Next]_vars => TypeOK'
<1> SUFFICES ASSUME TypeOK, [Next]_vars
             PROVE  TypeOK'
  OBVIOUS
<1>1. CASE Other
  <2>1. answer' \in Answers
    BY <1>1, OtherAnswersNothing, NoAnswerType
  <2> QED
    BY <1>1, <2>1, OtherType DEF TypeOK, Row, Beats, Figures, Calls, Answers
<1>2. CASE Searches
  <2>1. answer' \in Answers
    BY <1>2, SearchType DEF Searches
  <2>2. UNCHANGED <<table, stats, quote, call, now>>
    BY <1>2 DEF Searches, Search
  <2> QED
    BY <2>1, <2>2 DEF TypeOK, Answers, table
<1>3. CASE UNCHANGED vars
  BY <1>3 DEF TypeOK, vars, table
<1> QED
  BY <1>1, <1>2, <1>3, NextIs

LEMMA NextSorted == ByValue /\ [Next]_vars => ByValue'
<1> SUFFICES ASSUME ByValue, [Next]_vars
             PROVE  ByValue'
  OBVIOUS
<1>1. CASE Other
  BY <1>1, OtherAnswersNothing DEF ByValue, NoAnswer
<1>2. CASE Searches
  BY <1>2, SearchSorted DEF Searches
<1>3. CASE UNCHANGED vars
  BY <1>3 DEF ByValue, vars, table
<1> QED
  BY <1>1, <1>2, <1>3, NextIs

-----------------------------------------------------------------------------
(* The theorems                                                            *)

\* The tables, the cached statistics, the answers and the calls of a quote
\* request keep their types, a negative or missing limit included.
THEOREM TypeCorrect == Spec => []TypeOK
<1>1. Init => TypeOK
  BY InitType
<1>2. TypeOK /\ [Next]_vars => TypeOK'
  BY NextType
<1> QED
  BY <1>1, <1>2, PTL DEF Spec

\* For every timeout and every length of a day: comparing strings of two
\* formats never shows a provider whose last_heartbeat is a Timeout old.
THEOREM NobodySilentIsShown == Spec => []OnlineOnly
<1>1. TypeOK => OnlineOnly
  <2> SUFFICES ASSUME TypeOK, NEW p \in Online
               PROVE  now - seen[p].at < Timeout
    BY DEF OnlineOnly
  <2> DEFINE t == now - Timeout
  <2>1. p \in Provider /\ After(seen[p], t)
    BY DEF Online, Registered
  <2>2. seen[p].at \in Nat /\ now \in Nat /\ t \in Int
    BY <2>1, Numbers DEF TypeOK
  <2>3. CASE seen[p].form = "iso"
    BY <2>1, <2>2, <2>3, Numbers DEF After
  <2>4. CASE seen[p].form # "iso"
    <3>1. Day(seen[p].at) > Day(t)
      BY <2>1, <2>4 DEF After
    <3>2. seen[p].at <= t => Day(seen[p].at) <= Day(t)
      BY <2>2, DaysPass
    <3>3. Day(seen[p].at) \in Int /\ Day(t) \in Int
      BY <2>2, Numbers DEF Day
    <3> QED
      BY <2>2, <3>1, <3>2, <3>3, Numbers
  <2> QED
    BY <2>3, <2>4
<1> QED
  BY <1>1, TypeCorrect, PTL

\* For every scale of reputation and price: a search by value never puts a
\* provider before one with a better reputation that is no dearer.
THEOREM BetterComesFirst == Spec => []ValueRespectsDominance
<1>1. Init => ByValue
  BY DEF Init, ByValue, NoAnswer
<1>2. TypeOK /\ ByValue => ValueRespectsDominance
  <2> SUFFICES ASSUME TypeOK, ByValue, answer.sort = "value",
                      NEW i \in DOMAIN answer.list, NEW j \in DOMAIN answer.list,
                      offer[answer.list[i]].rep > offer[answer.list[j]].rep,
                      offer[answer.list[i]].price <= offer[answer.list[j]].price
               PROVE  i < j
    BY DEF ValueRespectsDominance
  <2> DEFINE a == offer[answer.list[i]]
             b == offer[answer.list[j]]
  <2>1. answer.list \in Seq(Provider)
    BY DEF TypeOK
  <2>2. /\ answer.list[i] \in Provider /\ answer.list[j] \in Provider
        /\ i \in Nat /\ j \in Nat
    BY <2>1
  <2>3. a \in Row /\ b \in Row
    BY <2>2 DEF TypeOK, Row
  <2>4. Value(a) > Value(b)
    BY <2>3, Dominance
  <2>5. Value(a) \in Int /\ Value(b) \in Int
    BY <2>3, Rows, Numbers DEF Value, Lesser
  <2>6. j < i => Value(b) >= Value(a)
    BY DEF ByValue
  <2>7. i # j
    BY <2>3, Rows
  <2> QED
    BY <2>2, <2>4, <2>5, <2>6, <2>7
<1>3. ByValue /\ [Next]_vars => ByValue'
  BY NextSorted
<1> QED
  BY <1>1, <1>2, <1>3, TypeCorrect, PTL DEF Spec

-----------------------------------------------------------------------------
(* Liveness.  The provers know no rule for ENABLED, so when the updater is  *)
(* enabled is a hypothesis: it changes statistics that are not up to date.  *)

Actual == [total |-> Cardinality(Registered), online |-> Cardinality(Online)]

UpdateEnabled == stats # Actual => ENABLED <<UpdateStats>>_vars

\* Between updates a registration or a removal writes the total alone, and
\* writes the one that is right after it.
LEMMA TotalsAreRight ==
    ASSUME TypeOK, [Next]_vars, NEW n, NEW m, stats = [total |-> n, online |-> m],
           Actual = stats, Actual' = stats
    PROVE  stats' = [total |-> n, online |-> m]
<1>1. offer \in [Provider -> Row] /\ \A o \in Offers : o # NoRow
  <2>1. NoRow \notin Offers
    BY ConstantsAssumption DEF NoRow
  <2> QED
    BY <2>1 DEF TypeOK, Row
<1>2. /\ Cardinality(Registered') = n
      /\ \A x : [stats EXCEPT !.total = x] = [total |-> x, online |-> m]
  BY DEF Actual
<1>3. ASSUME NEW p \in Provider, NEW o \in Offers, Announce(p, o)
      PROVE  stats' = [total |-> n, online |-> m]
  <2>1. /\ offer' = [offer EXCEPT ![p] = o]
        /\ stats' = [stats EXCEPT !.total = Cardinality(Registered \cup {p})]
    BY <1>3 DEF Announce
  <2>2. Registered' = Registered \cup {p}
    BY <1>1, <2>1 DEF Registered
  <2> QED
    BY <1>2, <2>1, <2>2
<1>4. ASSUME NEW p \in Provider, Leave(p)
      PROVE  stats' = [total |-> n, online |-> m]
  <2>1. /\ offer' = [offer EXCEPT ![p] = NoRow]
        /\ stats' = [stats EXCEPT !.total = Cardinality(Registered \ {p})]
    BY <1>4 DEF Leave
  <2>2. Registered' = Registered \ {p}
    BY <1>1, <2>1 DEF Registered
  <2> QED
    BY <1>2, <2>1, <2>2
<1>5. CASE UpdateStats
  BY <1>5 DEF UpdateStats, Actual
<1>6. CASE \/ \E p \in Provider : \/ Heartbeat(p) \/ Administer(p)
                                  \/ Headers(p) \/ Abort(p) \/ Body(p)
           \/ \E region \in QuoteRegions : RequestQuotes(region)
           \/ Searches \/ FinishQuotes \/ Elapse
           \/ UNCHANGED vars
  <2>1. stats' = stats
    BY <1>6 DEF Heartbeat, Administer, Headers, Abort, Body, RequestQuotes, Searches,
                Search, FinishQuotes, Elapse, vars
  <2> QED
    BY <2>1
<1> QED
  BY <1>3, <1>4, <1>5, <1>6 DEF Next, Searches

\* Once neither the rows nor who is online change in number, the statistics
\* come to say what they are and go on saying it.
THEOREM StatisticsCatchUp == FairSpec /\ []UpdateEnabled => StatsCatchUp
<1>1. ASSUME NEW n \in 0..Cardinality(Provider), NEW m \in 0..Cardinality(Provider)
      PROVE  FairSpec /\ []UpdateEnabled
               => (<>[](Cardinality(Registered) = n /\ Cardinality(Online) = m)
                     => <>[](stats = [total |-> n, online |-> m]))
  <2> DEFINE Rest == Cardinality(Registered) = n /\ Cardinality(Online) = m
             Right == stats = [total |-> n, online |-> m]
  <2>1. TypeOK /\ [Next]_vars /\ Rest /\ Rest' /\ Right => Right'
    BY TotalsAreRight DEF Actual
  <2>2. Rest /\ <<UpdateStats>>_vars => Right'
    BY DEF UpdateStats
  <2>3. Rest /\ ~Right /\ UpdateEnabled => ENABLED <<UpdateStats>>_vars
    BY DEF UpdateEnabled, Actual
  <2> HIDE DEF Rest, Right
  <2>4. FairSpec /\ []UpdateEnabled => (<>[]Rest => <>[]Right)
    BY <2>1, <2>2, <2>3, TypeCorrect, PTL DEF FairSpec, Spec, Fairness
  <2> QED
    BY <2>4 DEF Rest, Right
<1> QED
  BY <1>1, Zenon DEF StatsCatchUp

Asked(p)  == call[p] = "asked"
InBody(p) == call[p] = "body"
Ended(p)  == call[p] \in {"none", "quote", "null"}

AbortEnabled(p) == Asked(p) => ENABLED <<Abort(p)>>_vars
BodyEnabled(p)  == InBody(p) => ENABLED <<Body(p)>>_vars

\* Between requests nobody is being asked.
IdleAsksNobody == quote = "idle" => \A p \in Provider : call[p] = "none"

LEMMA IdleNext == TypeOK /\ IdleAsksNobody /\ [Next]_vars => IdleAsksNobody'
<1> SUFFICES ASSUME TypeOK, IdleAsksNobody, [Next]_vars, quote' = "idle",
                    NEW p \in Provider
             PROVE  call'[p] = "none"
  BY DEF IdleAsksNobody
<1>1. call \in Calls
  BY DEF TypeOK, Calls
<1>2. CASE quote' = quote /\ call' = call
  BY <1>2 DEF IdleAsksNobody
<1>3. ASSUME NEW q \in Provider, Headers(q) \/ Abort(q) \/ Body(q)
      PROVE  FALSE
  <2>1. call[q] # "none" /\ quote' = quote
    BY <1>3 DEF Headers, Abort, Body
  <2> QED
    BY <2>1 DEF IdleAsksNobody
<1>4. CASE FinishQuotes
  BY <1>4 DEF FinishQuotes
<1>5. CASE \E region \in QuoteRegions : RequestQuotes(region)
  BY <1>5 DEF RequestQuotes
<1>6. CASE \/ \E q \in Provider : \/ \E o \in Offers : Announce(q, o)
                                  \/ Leave(q) \/ Heartbeat(q) \/ Administer(q)
           \/ Searches \/ UpdateStats \/ Elapse \/ UNCHANGED vars
  <2>1. quote' = quote /\ call' = call
    BY <1>6 DEF Announce, Leave, Heartbeat, Administer, Searches, Search, UpdateStats,
                Elapse, vars
  <2> QED
    BY <1>2, <2>1
<1> QED
  BY <1>3, <1>4, <1>5, <1>6 DEF Next, Searches

\* What is asked of a provider moves on: from asked to its headers or an end,
\* and from there to an end.
LEMMA CallMoves ==
    ASSUME TypeOK, IdleAsksNobody, [Next]_vars, NEW p \in Provider
    PROVE  /\ call[p] = "asked" => call'[p] \in {"asked", "body", "null"}
           /\ call[p] = "body" => call'[p] = "body" \/ Ended(p)'
<1>1. call \in Calls
  BY DEF TypeOK, Calls
<1>2. ASSUME NEW q \in Provider, Headers(q)
      PROVE  call[q] = "asked" /\ call' = [call EXCEPT ![q] = "body"]
  BY <1>2 DEF Headers
<1>3. ASSUME NEW q \in Provider, Abort(q)
      PROVE  call[q] = "asked" /\ call' = [call EXCEPT ![q] = "null"]
  BY <1>3 DEF Abort
<1>4. ASSUME NEW q \in Provider, Body(q)
      PROVE  /\ call[q] = "body"
             /\ \E r \in {"quote", "null"} : call' = [call EXCEPT ![q] = r]
  BY <1>4 DEF Body
<1>5. CASE \E q \in Provider : Headers(q) \/ Abort(q) \/ Body(q)
  BY <1>1, <1>2, <1>3, <1>4, <1>5 DEF Calls, Ended
<1>6. CASE FinishQuotes
  BY <1>6 DEF FinishQuotes
<1>7. CASE \E region \in QuoteRegions : RequestQuotes(region)
  BY <1>7 DEF RequestQuotes, IdleAsksNobody
<1>8. CASE \/ \E q \in Provider : \/ \E o \in Offers : Announce(q, o)
                                  \/ Leave(q) \/ Heartbeat(q) \/ Administer(q)
           \/ Searches \/ UpdateStats \/ Elapse \/ UNCHANGED vars
  <2>1. call' = call
    BY <1>8 DEF Announce, Leave, Heartbeat, Administer, Searches, Search, UpdateStats,
                Elapse, vars
  <2> QED
    BY <2>1 DEF Ended
<1> QED
  BY <1>5, <1>6, <1>7, <1>8 DEF Next, Searches

FairCalls(p)    == WF_vars(Abort(p)) /\ WF_vars(Body(p))
CallsEnabled(p) == []AbortEnabled(p) /\ []BodyEnabled(p)

\* The part of QuotesAnswered that is about a single provider: the call of one
\* that is asked ends.
CallsEnd == \A p \in Provider : ~Ended(p) ~> Ended(p)

\* Whatever a provider does, its call ends, before or after its headers, and no
\* later request, search or removal of its row takes that back.
THEOREM EveryCallEnds ==
    FairSpec /\ (\A p \in Provider : CallsEnabled(p)) => CallsEnd
<1>1. ASSUME NEW p \in Provider
      PROVE  Spec /\ FairCalls(p) /\ CallsEnabled(p) => (~Ended(p) ~> Ended(p))
  <2>1. TypeOK => Asked(p) \/ InBody(p) \/ Ended(p)
    BY DEF TypeOK, Asked, InBody, Ended
  <2>2. TypeOK /\ IdleAsksNobody /\ [Next]_vars /\ Asked(p)
          => Asked(p)' \/ InBody(p)' \/ Ended(p)'
    BY CallMoves DEF Asked, InBody, Ended
  <2>3. TypeOK /\ IdleAsksNobody /\ [Next]_vars /\ InBody(p)
          => InBody(p)' \/ Ended(p)'
    BY CallMoves DEF InBody
  <2>4. TypeOK /\ <<Abort(p)>>_vars => Ended(p)'
    BY DEF TypeOK, Abort, Ended
  <2>5. TypeOK /\ <<Body(p)>>_vars => Ended(p)'
    BY DEF TypeOK, Body, Ended
  <2>6. Init => IdleAsksNobody
    BY DEF Init, IdleAsksNobody
  <2> QED
    BY <2>1, <2>2, <2>3, <2>4, <2>5, <2>6, IdleNext, TypeCorrect, PTL
       DEF Spec, FairCalls, CallsEnabled, AbortEnabled, BodyEnabled
<1>2. FairSpec => Spec /\ \A p \in Provider : FairCalls(p)
  BY PTL DEF FairSpec, Fairness, FairCalls
<1> QED
  BY <1>1, <1>2, Zenon DEF CallsEnd
=============================================================================
