------------------------------ MODULE MCFigures ------------------------------
(***************************************************************************)
(* An instance of Figures for TLC: a behaviour changes the market or       *)
(* records events, and never does both.                                    *)
(***************************************************************************)
EXTENDS Figures, TLC

CONSTANTS p1, p2, p3, p4

\* Prices below 0, free, 5% and more apart; fewer buckets than one, and more
\* than providers.
AnyPrice == {-6, 0, 5, 6, 20}
AnyNumber == {-1, 0, 1, 2, 5}

Plain(types) == [type : types, value : {NoValue}]

\* Every type, the values at and beyond the ends of the scales.
AnyEvent ==
    Plain({"online", "offline", "proof_failure",
           "contract_completed", "contract_violated"})
    \cup [type : {"proof_success"}, value : {0, 100, 9000}]
    \cup [type : {"upload_success"}, value : {5000, NoValue}]
    \cup [type : {"community_feedback"}, value : {1, 8}]

\* What DEFAULT_REPUTATION announces, and the columns' defaults.
Announcements ==
    LET Dimension == {"uptime", "data_integrity", "response_time",
                      "contract_compliance", "community_feedback"}
    IN  {[of |-> [d \in Dimension |->
                    CASE d = "community_feedback" -> 5000
                      [] d = "response_time"      -> 8000
                      [] OTHER                    -> 10000], overall |-> 5000],
         [of |-> [d \in Dimension |-> 5000], overall |-> 5000]}

\* Nothing has happened yet to the scores, the columns' defaults.
Quiet == stored.of["uptime"] = 5000 /\ count = [e \in Event |-> 0]

FiguresInit == Init /\ Scores!Init

FiguresNext ==
    \/ Quiet /\ Next /\ UNCHANGED <<count, stored>>
    \/ Init /\ Scores!Next /\ UNCHANGED row

FiguresSpec == FiguresInit /\ [][FiguresNext]_<<row, count, stored>>

Symmetry == Permutations(Provider)
=============================================================================
