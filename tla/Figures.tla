------------------------------- MODULE Figures -------------------------------
(***************************************************************************)
(* PricingService and ReputationService side by side.  The two compute     *)
(* figures from rows and share no state, so that a behaviour of both is a  *)
(* behaviour of Pricing and one of Reputation.                             *)
(***************************************************************************)
EXTENDS Pricing

CONSTANTS
    Event, NoValue, Announced, MaxEvents  \* of Reputation

\* The events of a provider are finitely many and carry a number or none.
ASSUME EventsAssumption ==
    /\ IsFiniteSet(Event)
    /\ NoValue \notin Int
    /\ \A e \in Event : e.value \in Int \cup {NoValue}

VARIABLES count, stored  \* of Reputation

Scores == INSTANCE Reputation

\* Both components' types: rows of known providers, and, with Reputation, every
\* stored score between 0 and 1.
TypeOK ==
    /\ row \in [Provider -> Row \cup {NoRow}]
    /\ Scores!TypeOK

\* Reputation's main property: no good news lowers an overall score, no bad
\* news raises it.
NewsCountsTheRightWay == Scores!NewsCountsTheRightWay
=============================================================================
