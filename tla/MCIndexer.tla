------------------------------ MODULE MCIndexer ------------------------------
(***************************************************************************)
(* Instances of Indexer for TLC.                                           *)
(***************************************************************************)
EXTENDS Indexer

CONSTANTS o1, o2, v1, v2, c1, c2
=============================================================================
