----------------------------- MODULE Marketplace -----------------------------
(***************************************************************************)
(* What clients read of the registry: provider search, the quotes gathered *)
(* from the providers a search finds, and the cached statistics.           *)
(*                                                                         *)
(* "Online" is a comparison of two strings: last_heartbeat as it is stored *)
(* against a cutoff in ISO format ("2024-01-02T03:04:05.678Z").  The       *)
(* registry stores ISO strings; the administration stores SQLite's         *)
(* datetime('now') ("2024-01-02 03:04:05"), which on the cutoff's own day  *)
(* compares lower than the cutoff whatever the hour, ' ' being less than   *)
(* 'T', and on a later day higher.                                         *)
(*                                                                         *)
(* A search runs synchronously.  A quote request awaits the providers it   *)
(* asked, all in parallel, and everything else goes on meanwhile.          *)
(***************************************************************************)
EXTENDS Integers, Sequences, FiniteSets

CONSTANTS
    Provider,      \* provider ids
    Offers,        \* what a provider announces: [region, rep, price], numbers unchecked
    Region,        \* values of the equality filters (region, tier)
    Any,           \* no filter (on the region or on the reputation)
    FreePrice,     \* price from which on "value" gives no credit (0.02)
    Timeout,       \* PROVIDER_TIMEOUT
    DayLength,     \* a UTC day
    MaxResults,    \* MAX_SEARCH_RESULTS
    Limits,        \* limits the callers of searchProviders pass, 0 for none
    QuoteRegions,  \* regions quotes are asked for
    QuoteMinRep,   \* minimum reputation of a provider asked for a quote (0.30)
    QuoteLimit,    \* providers asked for a quote (10)
    MaxTime        \* bound: the clock

ASSUME ConstantsAssumption ==
    /\ IsFiniteSet(Provider)
    /\ Any \notin Region \cup Int
    /\ Offers \subseteq [region : Region, rep : Int, price : Int]
    /\ FreePrice \in Nat \ {0} /\ Timeout \in Nat \ {0}
    /\ DayLength \in Nat /\ DayLength > Timeout
    /\ MaxResults \in Nat \ {0} /\ QuoteLimit \in Nat \ {0}
    /\ Limits \subseteq Int
    /\ QuoteRegions \subseteq Region \cup {Any}
    /\ MaxTime \in Nat

VARIABLES
    offer,   \* what the row of a provider says, NoRow without a row
    seen,    \* last_heartbeat of a row: the time and the format it is written in
    alive,   \* ghost: when the provider was last heard of
    stats,   \* DiscoveryService.stats
    answer,  \* the answer to a search, until the next step
    quote,   \* the quote request: "idle" or "waiting"
    call,    \* its calls: what each provider asked is doing
    now

table == <<offer, seen, alive>>
vars == <<offer, seen, alive, stats, answer, quote, call, now>>

NoRow == [region |-> Any, rep |-> 0, price |-> 0]
NoAnswer == [list |-> <<>>, total |-> 0, more |-> FALSE, sort |-> "none"]
Never == [at |-> 0, form |-> "iso"]
Sorts == {"reputation", "price", "value"}

Init ==
    /\ offer = [p \in Provider |-> NoRow]
    /\ seen = [p \in Provider |-> Never]
    /\ alive = [p \in Provider |-> 0]
    /\ stats = [total |-> 0, online |-> 0]
    /\ answer = NoAnswer
    /\ quote = "idle"
    /\ call = [p \in Provider |-> "none"]
    /\ now = Timeout

-----------------------------------------------------------------------------
(* Who is online                                                           *)

Registered == {p \in Provider : offer[p] # NoRow}

Day(t) == t \div DayLength

\* Faulty variant: the cutoff is written in SQLite's format.
AfterSqlCutoff(s, t) == IF s.form = "iso" THEN Day(s.at) >= Day(t) ELSE s.at > t

\* The string comparison of a stored timestamp with a cutoff in ISO format.
After(s, t) == IF s.form = "iso" THEN s.at > t ELSE Day(s.at) > Day(t)

Online == {p \in Registered : After(seen[p], now - Timeout)}

-----------------------------------------------------------------------------
(* The registry                                                            *)

Announce(p, o) ==
    /\ offer' = [offer EXCEPT ![p] = o]
    /\ seen' = [seen EXCEPT ![p] = [at |-> now, form |-> "iso"]]
    /\ alive' = [alive EXCEPT ![p] = now]
    /\ stats' = [stats EXCEPT !.total = Cardinality(Registered \cup {p})]
    /\ answer' = NoAnswer
    /\ UNCHANGED <<quote, call, now>>

\* DELETE /providers/:id or the health checker.
Leave(p) ==
    /\ p \in Registered
    /\ offer' = [offer EXCEPT ![p] = NoRow]
    /\ seen' = [seen EXCEPT ![p] = Never]
    /\ alive' = [alive EXCEPT ![p] = 0]
    /\ stats' = [stats EXCEPT !.total = Cardinality(Registered \ {p})]
    /\ answer' = NoAnswer
    /\ UNCHANGED <<quote, call, now>>

\* A heartbeat, or the answer to a health check.
Heartbeat(p) ==
    /\ p \in Registered
    /\ seen' = [seen EXCEPT ![p] = [at |-> now, form |-> "iso"]]
    /\ alive' = [alive EXCEPT ![p] = now]
    /\ answer' = NoAnswer
    /\ UNCHANGED <<offer, stats, quote, call, now>>

\* deactivateProvider, activateProvider.
Administer(p) ==
    /\ p \in Registered
    /\ seen' = [seen EXCEPT ![p] = [at |-> now, form |-> "sql"]]
    /\ answer' = NoAnswer
    /\ UNCHANGED <<offer, alive, stats, quote, call, now>>

-----------------------------------------------------------------------------
(* Search                                                                  *)

Lesser(a, b) == IF a < b THEN a ELSE b

\* Faulty variant: a high price earns credit.
ValueOfPrice(o) == 6 * FreePrice * o.rep + 40 * Lesser(o.price, FreePrice)

\* rep/10 * 0.6 + (1 - min(price / FreePrice, 1)) * 0.4, in 1/(100 FreePrice).
Value(o) == 6 * FreePrice * o.rep + 40 * (FreePrice - Lesser(o.price, FreePrice))

Key(o, sort) == CASE sort = "reputation" -> o.rep
                  [] sort = "price"      -> -o.price
                  [] sort = "value"      -> Value(o)

Matches(region, minRep) ==
    {p \in Online : /\ region = Any \/ offer[p].region = region
                    /\ minRep = Any \/ offer[p].rep >= minRep}

\* The first n of S in the requested order; SQLite leaves the order of equals
\* open.
Firsts(S, n, sort) ==
    {l \in [1..n -> S] :
       /\ \A i, j \in 1..n : i < j =>
            l[i] # l[j] /\ Key(offer[l[i]], sort) >= Key(offer[l[j]], sort)
       /\ \A p \in S, i \in 1..n : (\A j \in 1..n : l[j] # p) =>
            Key(offer[l[i]], sort) >= Key(offer[p], sort)}

\* LIMIT: a limit of 0 is no limit, "||" takes the cap for it; a negative
\* LIMIT is none for SQLite.
Returned(total, limit) ==
    IF limit < 0 THEN total
    ELSE Lesser(total, IF limit = 0 THEN MaxResults ELSE limit)

Search(region, minRep, sort, limit) ==
    LET S == Matches(region, minRep)
        total == Cardinality(S)
    IN  /\ answer' \in {[list |-> l, total |-> total, sort |-> sort,
                         more |-> total >= MaxResults] :
                           l \in Firsts(S, Returned(total, limit), sort)}
        /\ UNCHANGED <<table, stats, quote, call, now>>

-----------------------------------------------------------------------------
(* Quotes                                                                  *)

RequestQuotes(region) ==
    LET S == Matches(region, QuoteMinRep)
    IN  /\ quote = "idle"
        /\ \E l \in Firsts(S, Lesser(Cardinality(S), QuoteLimit), "reputation") :
             call' = [p \in Provider |->
                        IF \E i \in DOMAIN l : l[i] = p THEN "asked" ELSE "none"]
        /\ quote' = "waiting"
        /\ answer' = NoAnswer
        /\ UNCHANGED <<table, stats, now>>

\* The headers of a good answer: the ten-second timer is cleared.
Headers(p) ==
    /\ call[p] = "asked"
    /\ call' = [call EXCEPT ![p] = "body"]
    /\ answer' = NoAnswer
    /\ UNCHANGED <<table, stats, quote, now>>

\* A refusal, a bad status, or ten seconds without headers.
Abort(p) ==
    /\ call[p] = "asked"
    /\ call' = [call EXCEPT ![p] = "null"]
    /\ answer' = NoAnswer
    /\ UNCHANGED <<table, stats, quote, now>>

\* Faulty variant: a body that does not parse rejects the call.
BodyThrows(p) ==
    /\ call[p] = "body"
    /\ \E r \in {"quote", "thrown"} : call' = [call EXCEPT ![p] = r]
    /\ answer' = NoAnswer
    /\ UNCHANGED <<table, stats, quote, now>>

\* The body is complete and parses, or not.
Body(p) ==
    /\ call[p] = "body"
    /\ \E r \in {"quote", "null"} : call' = [call EXCEPT ![p] = r]
    /\ answer' = NoAnswer
    /\ UNCHANGED <<table, stats, quote, now>>

\* Faulty variant: the request waits until somebody has quoted.
FinishQuotesOnce ==
    /\ quote = "waiting"
    /\ \A p \in Provider : call[p] \in {"none", "quote", "null"}
    /\ \E p \in Provider : call[p] = "quote"
    /\ quote' = "idle"
    /\ call' = [p \in Provider |-> "none"]
    /\ answer' = NoAnswer
    /\ UNCHANGED <<table, stats, now>>

\* Promise.all: the quotes are returned when every call has ended.
FinishQuotes ==
    /\ quote = "waiting"
    /\ \A p \in Provider : call[p] \in {"none", "quote", "null"}
    /\ quote' = "idle"
    /\ call' = [p \in Provider |-> "none"]
    /\ answer' = NoAnswer
    /\ UNCHANGED <<table, stats, now>>

-----------------------------------------------------------------------------
(* Statistics and time                                                     *)

\* Faulty variant: the number online is kept from the last time.
UpdateStatsTotalOnly ==
    /\ stats' = [stats EXCEPT !.total = Cardinality(Registered)]
    /\ answer' = NoAnswer
    /\ UNCHANGED <<table, quote, call, now>>

\* The stats updater, once a minute.
UpdateStats ==
    /\ stats' = [total |-> Cardinality(Registered), online |-> Cardinality(Online)]
    /\ answer' = NoAnswer
    /\ UNCHANGED <<table, quote, call, now>>

Elapse ==
    /\ now < MaxTime
    /\ now' = now + 1
    /\ answer' = NoAnswer
    /\ UNCHANGED <<table, stats, quote, call>>

Next ==
    \/ \E p \in Provider : \/ \E o \in Offers : Announce(p, o)
                           \/ Leave(p) \/ Heartbeat(p) \/ Administer(p)
                           \/ Headers(p) \/ Abort(p) \/ Body(p)
    \/ \E region \in Region \cup {Any}, minRep \in {Any, QuoteMinRep},
          sort \in Sorts, limit \in Limits : Search(region, minRep, sort, limit)
    \/ \E region \in QuoteRegions : RequestQuotes(region)
    \/ FinishQuotes
    \/ UpdateStats
    \/ Elapse

\* The timer of a call fires, a body ends (the HTTP client gives up on one that
\* does not go on), and the timer of the stats updater recurs.
Fairness ==
    /\ \A p \in Provider : WF_vars(Abort(p)) /\ WF_vars(Body(p))
    /\ WF_vars(FinishQuotes)
    /\ WF_vars(UpdateStats)

Spec == Init /\ [][Next]_vars
FairSpec == Spec /\ Fairness

-----------------------------------------------------------------------------
\* The type invariant.
TypeOK ==
    /\ offer \in [Provider -> Offers \cup {NoRow}]
    /\ seen \in [Provider -> [at : Nat, form : {"iso", "sql"}]]
    /\ alive \in [Provider -> Nat]
    /\ stats \in [total : Nat, online : Nat]
    /\ answer \in [list : Seq(Provider), total : Nat, more : BOOLEAN,
                   sort : Sorts \cup {"none"}]
    /\ quote \in {"idle", "waiting"}
    /\ call \in [Provider -> {"none", "asked", "body", "quote", "null"}]
    /\ now \in Nat

\* queries.ts: "Only return online providers (within timeout)".  Whatever the
\* format of the timestamps, the strings never make a provider look online
\* whose last_heartbeat was written a Timeout ago or earlier.
OnlineOnly == \A p \in Online : now - seen[p].at < Timeout

\* The order "value" mixes reputation and price, but never ranks a provider
\* below one with a worse reputation and no better price.
ValueRespectsDominance ==
    answer.sort = "value" =>
        \A i, j \in DOMAIN answer.list :
            LET a == offer[answer.list[i]]
                b == offer[answer.list[j]]
            IN  a.rep > b.rep /\ a.price <= b.price => i < j

\* A quote request is answered, whatever the providers asked do: fall silent
\* before or after their headers, refuse, garble, or leave the registry.
QuotesAnswered == quote = "waiting" ~> quote = "idle"

\* The cached statistics catch up with a registry that has come to rest.
StatsCatchUp ==
    \A n, m \in 0..Cardinality(Provider) :
        <>[](Cardinality(Registered) = n /\ Cardinality(Online) = m)
            => <>[](stats = [total |-> n, online |-> m])

\* Readme.md: PROVIDER_TIMEOUT is the "ms before a silent provider is
\* considered stale": one that has been heard of since is online.
HeardIsOnline ==
    \A p \in Registered : now - alive[p] < Timeout => p \in Online
=============================================================================
