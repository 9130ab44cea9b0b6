----------------------------- MODULE MCDiscovery ------------------------------
(***************************************************************************)
(* Instances of Discovery for TLC.                                         *)
(***************************************************************************)
EXTENDS Discovery

CONSTANTS c1, p1, f1

FirstProvider == [c \in Contract |-> p1]
=============================================================================
