------------------------------ MODULE MCServer -------------------------------
(***************************************************************************)
(* Instances of Server for TLC.                                            *)
(***************************************************************************)
EXTENDS Server

\* The shapes of the files: tables and indexes only (001 to 005, 007 to 012),
\* one new column (006), two new columns and their indexes (013).
Files == <<<<"create", "create", "create">>, <<"alter">>, <<"create", "create">>,
           <<"alter", "alter", "create", "create">>>>
=============================================================================
