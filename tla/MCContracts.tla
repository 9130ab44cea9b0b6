----------------------------- MODULE MCContracts -----------------------------
(***************************************************************************)
(* Instances of Contracts for TLC.                                         *)
(***************************************************************************)
EXTENDS Contracts

CONSTANTS c1, c2, p1

OneProvider == [c \in Contract |-> p1]
=============================================================================
