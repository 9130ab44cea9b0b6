---------------------------- MODULE MCMarketplace ----------------------------
(***************************************************************************)
(* Instances of Marketplace for TLC.                                       *)
(***************************************************************************)
EXTENDS Marketplace

CONSTANTS p1, p2, p3, Europe, Asia

OfOffer(region, rep, price) == [region |-> region, rep |-> rep, price |-> price]

\* A better one whose price is even below 0, and one just below the reputation
\* that quotes ask for.
TwoOffers == {OfOffer(Europe, 3, -1), OfOffer(Asia, 2, 3)}
=============================================================================
