----------------------------- MODULE Migrations ------------------------------
(***************************************************************************)
(* initDatabase: the migrations of the schema at every start of the        *)
(* process.  A migration is a file of SQL statements that commit one by    *)
(* one, followed by the INSERT that records it in _migrations; nothing     *)
(* encloses them in a transaction.  CREATE ... IF NOT EXISTS may be run    *)
(* again; ALTER TABLE ... ADD COLUMN fails on a column that exists, the    *)
(* exception leaves createServer, and start exits the process.             *)
(***************************************************************************)
EXTENDS Integers, Sequences

CONSTANTS
    Script,       \* the migrations: sequences of "create" and "alter"
    MaxKills      \* bound: kills of the process

ConstantsOK ==
    /\ Script \in Seq(Seq({"create", "alter"}))
    /\ MaxKills \in Nat

Migration == DOMAIN Script
Statement == UNION {{m} \X DOMAIN Script[m] : m \in Migration}

VARIABLES
    schema,   \* statements whose effect is in the database
    applied,  \* _migrations
    pc,       \* "down", "migrating" or "up"
    known,    \* the set applied as it was read at the start
    at,       \* the statement to execute: <<migration, position>>
    kills     \* ghost: kills so far

vars == <<schema, applied, pc, known, at, kills>>

Init ==
    /\ schema = {} /\ applied = {}
    /\ pc = "down"
    /\ known = {}
    /\ at = <<1, 1>>
    /\ kills = 0

-----------------------------------------------------------------------------
\* The process is started and reads _migrations.
Start ==
    /\ pc = "down"
    /\ pc' = "migrating"
    /\ known' = applied
    /\ at' = <<1, 1>>
    /\ UNCHANGED <<schema, applied, kills>>

AtFile(m) == pc = "migrating" /\ at[1] = m /\ m \in Migration

\* The migration has been applied: continue.
Skip(m) ==
    /\ AtFile(m)
    /\ m \in known
    /\ at' = <<m + 1, 1>>
    /\ UNCHANGED <<schema, applied, pc, known, kills>>

\* Faulty variant: CREATE without IF NOT EXISTS.
FailsAgain(s) == s \in schema

Fails(s) == Script[s[1]][s[2]] = "alter" /\ s \in schema

\* One statement of db.exec commits.
Execute(m) ==
    /\ AtFile(m)
    /\ m \notin known
    /\ at \in Statement
    /\ ~Fails(at)
    /\ schema' = schema \cup {at}
    /\ at' = <<m, at[2] + 1>>
    /\ UNCHANGED <<applied, pc, known, kills>>

\* "duplicate column name": the process exits.
Throw(m) ==
    /\ AtFile(m)
    /\ m \notin known
    /\ at \in Statement
    /\ Fails(at)
    /\ pc' = "down"
    /\ UNCHANGED <<schema, applied, known, at, kills>>

\* Every statement of the file has been executed.
Executed(m) ==
    /\ AtFile(m)
    /\ m \notin known
    /\ at \notin Statement

\* Faulty variants: the migration is recorded before its statements are all
\* executed; the loop skips a file.
RecordEarly(m) ==
    /\ AtFile(m)
    /\ m \notin known \cup applied
    /\ applied' = applied \cup {m}
    /\ at' = IF at \in Statement THEN at ELSE <<m + 1, 1>>
    /\ UNCHANGED <<schema, pc, known, kills>>

RecordSkipping(m) ==
    /\ Executed(m)
    /\ applied' = applied \cup {m}
    /\ at' = <<m + 2, 1>>
    /\ UNCHANGED <<schema, pc, known, kills>>

Record(m) ==
    /\ Executed(m)
    /\ applied' = applied \cup {m}
    /\ at' = <<m + 1, 1>>
    /\ UNCHANGED <<schema, pc, known, kills>>

\* The last file is done: the service is built and listens.
Serve ==
    /\ pc = "migrating"
    /\ at[1] \notin Migration
    /\ pc' = "up"
    /\ UNCHANGED <<schema, applied, known, at, kills>>

\* The process is killed, or exits for reasons of its own.
Kill ==
    /\ pc # "down"
    /\ kills < MaxKills
    /\ kills' = kills + 1
    /\ pc' = "down"
    /\ UNCHANGED <<schema, applied, known, at>>

Next ==
    \/ Start
    \/ \E m \in Migration : Skip(m) \/ Execute(m) \/ Throw(m) \/ Record(m)
    \/ Serve
    \/ Kill

Spec == Init /\ [][Next]_vars

-----------------------------------------------------------------------------
\* The type invariant.
TypeOK ==
    /\ schema \subseteq Statement
    /\ applied \subseteq Migration
    /\ known \subseteq applied
    /\ pc \in {"down", "migrating", "up"}
    /\ at \in (1..Len(Script) + 1) \X (Nat \ {0})
    /\ kills \in 0..MaxKills

Complete(m) == {m} \X DOMAIN Script[m] \subseteq schema

\* The service never runs on half a schema, however often and wherever the
\* migrations before were cut: what is recorded is complete, a file's statements
\* see everything the files before it have made (the columns of 006 and 013 are
\* added to tables that exist), and when the service is up everything is
\* recorded.
UpMeansMigrated ==
    /\ \A m \in applied : Complete(m)
    /\ \A s \in schema, m \in Migration : m < s[1] => m \in applied
    /\ pc = "up" => applied = Migration

\* A migration with an "alter" in the schema that is not recorded.
Wedged == \E s \in schema :
            Script[s[1]][s[2]] = "alter" /\ s[1] \notin applied
=============================================================================
