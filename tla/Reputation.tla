------------------------------ MODULE Reputation -----------------------------
(***************************************************************************)
(* ReputationService: from the events recorded of a provider to its stored *)
(* scores.  recalculateScore reads all events; their order does not enter  *)
(* the scores, so the events are a bag.  Scores are in units of 1/Unit,    *)
(* where Unit = 10000 is the precision of toFixed(4).                      *)
(***************************************************************************)
EXTENDS Integers, Functions

CONSTANTS
    Event,      \* what may be recorded: [type, value], value in Int or NoValue
    NoValue,    \* value IS NULL
    Announced,  \* scores a registration may bring
    MaxEvents   \* bound: events of the provider

Unit == 10000
Fast == 100     \* ms, the best response time
Slow == 5000    \* ms, the worst
Stars == 5      \* the best rating

Dimension == {"uptime", "data_integrity", "response_time",
              "contract_compliance", "community_feedback"}

VARIABLES
    count,  \* reputation_events of the provider: how many of each
    stored  \* its rep_ columns

vars == <<count, stored>>

Init ==
    /\ count = [e \in Event |-> 0]
    /\ stored \in Announced

-----------------------------------------------------------------------------
OfType(types) == {e \in Event : e.type \in types}
Valued(S) == {e \in S : e.value # NoValue}

Number(c, S) == SumFunctionOnSet(c, S)
Sum(c, S) == SumFunctionOnSet([e \in S |-> c[e] * e.value], S)

Lesser(a, b) == IF a < b THEN a ELSE b
Clamp(n) == IF n < 0 THEN 0 ELSE Lesser(n, Unit)
Neutral == Unit \div 2

\* Faulty variant: the share is taken of all events.
ShareOfAll(c, good, bad) ==
    LET n == Number(c, Event)
    IN  IF n = 0 THEN Neutral
        ELSE Lesser(Unit, (Number(c, OfType({good})) * Unit) \div n)

\* calculateUptimeScore, calculateDataIntegrityScore and
\* calculateContractComplianceScore.
Share(c, good, bad) ==
    LET n == Number(c, OfType({good, bad}))
    IN  IF n = 0 THEN Neutral
        ELSE Lesser(Unit, (Number(c, OfType({good})) * Unit) \div n)

Timed == Valued(OfType({"proof_success", "upload_success", "download_success"}))

\* Faulty variant: a slow provider's score is not cut off at 0.
ResponseTimeUncut(c) ==
    LET n == Number(c, Timed)
    IN  IF n = 0 THEN Neutral
        ELSE Lesser(Unit, (Unit * (Slow * n - Sum(c, Timed))) \div ((Slow - Fast) * n))

\* 1 - (average - Fast) / (Slow - Fast), between 0 and 1.
ResponseTime(c) ==
    LET n == Number(c, Timed)
    IN  IF n = 0 THEN Neutral
        ELSE Clamp((Unit * (Slow * n - Sum(c, Timed))) \div ((Slow - Fast) * n))

Rated == Valued(OfType({"community_feedback"}))

\* average / Stars, cut off above only.
CommunityFeedback(c) ==
    LET n == Number(c, Rated)
    IN  IF n = 0 THEN Neutral
        ELSE Lesser(Unit, (Unit * Sum(c, Rated)) \div (Stars * n))

Score(c) == [d \in Dimension |->
    CASE d = "uptime"              -> Share(c, "online", "offline")
      [] d = "data_integrity"      -> Share(c, "proof_success", "proof_failure")
      [] d = "response_time"       -> ResponseTime(c)
      [] d = "contract_compliance" ->
            Share(c, "contract_completed", "contract_violated")
      [] d = "community_feedback"  -> CommunityFeedback(c)]

\* WEIGHTS, in hundredths.
Weight == [d \in Dimension |->
    CASE d \in {"uptime", "data_integrity"}             -> 25
      [] d \in {"response_time", "contract_compliance"} -> 20
      [] d = "community_feedback"                       -> 10]

Overall(score) ==
    SumFunction([d \in Dimension |-> Weight[d] * score[d]]) \div 100

-----------------------------------------------------------------------------
\* The bag c with one more e.
With(c, e) == [c EXCEPT ![e] = @ + 1]

\* recordEvent: from a route or from another service.
RecordEvent(e) ==
    /\ Number(count, Event) < MaxEvents
    /\ count' = With(count, e)
    /\ UNCHANGED stored

RecalculateScore ==
    /\ stored' = [of |-> Score(count), overall |-> Overall(Score(count))]
    /\ UNCHANGED count

\* upsertProvider: a registration overwrites the scores, and not the events.
Register ==
    /\ stored' \in Announced
    /\ UNCHANGED count

Next == \/ \E e \in Event : RecordEvent(e)
        \/ RecalculateScore
        \/ Register

Spec == Init /\ [][Next]_vars

-----------------------------------------------------------------------------
\* The type invariant: every score is between 0 and 1.
TypeOK ==
    /\ count \in [Event -> Nat]
    /\ stored.of \in [Dimension -> 0..Unit] /\ stored.overall \in 0..Unit

Good(e) == \/ e.type \in {"online", "contract_completed"}
           \/ /\ e.type \in {"proof_success", "upload_success", "download_success"}
              /\ e.value = NoValue \/ e.value <= Fast
           \/ e.type = "community_feedback" /\ (e.value = NoValue \/ e.value >= Stars)
Bad(e) == e.type \in {"offline", "proof_failure", "contract_violated"}

\* Whatever has happened before, good news never lowers the overall score of a
\* provider and bad news never raises it, the first event of a dimension,
\* which ends its neutral score, included.
NewsCountsTheRightWay ==
    \A e \in Event :
        LET before == Overall(Score(count))
            after  == Overall(Score(With(count, e)))
        IN  /\ Good(e) => after >= before
            /\ Bad(e) => after <= before
=============================================================================
