-------------------------------- MODULE Server --------------------------------
(***************************************************************************)
(* The life of the process (server.ts): configuration, migrations,         *)
(* background tasks, listening, and the shutdown on SIGINT or SIGTERM.     *)
(*                                                                         *)
(* The signal handlers are installed last but for listening: before that a *)
(* signal kills the process wherever it is, in the middle of a migration   *)
(* included.  Each signal runs a handler of its own, so two handlers may   *)
(* be under way.  A handler first awaits the indexer's stop, and only then *)
(* arms the thirty-second timer that bounds what follows.                  *)
(***************************************************************************)
EXTENDS Integers, Sequences

CONSTANTS
    Script,       \* the migrations (module Migrations)
    MaxRequests,  \* bound: requests in flight
    MaxKills      \* bound: kills, signals and failures to listen

VARIABLES
    schema, applied, known, at,  \* of Migrations
    kills,     \* ghost: kills, signals and failures to listen so far
    phase,     \* "down", "migrating", "building", "launched" or "listening"
    port,      \* the configuration: "good", "refused", or a PORT that is "NaN"
    indexed,   \* is a registry program configured?
    timers,    \* do the checker's, the statistics' and the contracts' run?
    requests,  \* requests in flight
    waiting,   \* signal handlers awaiting the indexer's stop
    closing    \* signal handlers awaiting server.close, their timer armed

migration == <<schema, applied, known, at>>
config    == <<port, indexed>>
activity  == <<timers, requests, waiting, closing>>
vars == <<schema, applied, known, at, kills, phase, port, indexed, timers,
          requests, waiting, closing>>

Past == {"building", "launched", "listening"}

M == INSTANCE Migrations WITH pc <- IF phase \in Past THEN "up" ELSE phase

ASSUME ConstantsAssumption == M!ConstantsOK /\ MaxRequests \in Nat

Init ==
    /\ phase = "down" /\ M!Init
    /\ port \in {"good", "refused", "NaN"}
    /\ indexed \in BOOLEAN
    /\ timers = FALSE
    /\ requests = 0 /\ waiting = 0 /\ closing = 0

-----------------------------------------------------------------------------
(* Start *)

\* loadConfig, validateConfig and the check of the secrets come before the
\* database is opened.  NaN, of a PORT that is no number, passes both
\* comparisons.
Start ==
    /\ port # "refused"
    /\ phase' = "migrating"
    /\ M!Start
    /\ UNCHANGED <<config, activity>>

Migrate ==
    /\ UNCHANGED <<phase, config, activity>>
    /\ \E m \in M!Migration : M!Skip(m) \/ M!Execute(m) \/ M!Record(m)

MigrationThrows ==
    /\ phase' = "down"
    /\ \E m \in M!Migration : M!Throw(m)
    /\ UNCHANGED <<config, activity>>

Migrated ==
    /\ phase = "migrating"
    /\ phase' = "building"
    /\ M!Serve
    /\ UNCHANGED <<config, activity>>

\* The last plugin is registered: background tasks, then signal handlers.
Launch ==
    /\ phase = "building"
    /\ phase' = "launched"
    /\ timers' = TRUE
    /\ UNCHANGED <<migration, kills, config, requests, waiting, closing>>

Listen ==
    /\ phase = "launched"
    /\ port = "good" /\ closing = 0
    /\ phase' = "listening"
    /\ UNCHANGED <<migration, kills, config, activity>>

\* process.exit.
Exit ==
    /\ phase' = "down"
    /\ timers' = FALSE
    /\ requests' = 0 /\ waiting' = 0 /\ closing' = 0

\* The port is no number, or the server is closed already.
ListenRejects ==
    /\ phase = "launched"
    /\ port # "good" \/ closing > 0
    /\ Exit
    /\ UNCHANGED <<migration, kills, config>>

\* The port is taken.
ListenFails ==
    /\ phase = "launched"
    /\ kills < MaxKills
    /\ kills' = kills + 1
    /\ Exit
    /\ UNCHANGED <<migration, config>>

-----------------------------------------------------------------------------
(* Requests *)

\* A server that closes answers 503 to what still comes in.
Accept ==
    /\ phase = "listening"
    /\ closing = 0
    /\ requests < MaxRequests
    /\ requests' = requests + 1
    /\ UNCHANGED <<migration, kills, phase, config, timers, waiting, closing>>

Answer ==
    /\ requests > 0
    /\ requests' = requests - 1
    /\ UNCHANGED <<migration, kills, phase, config, timers, waiting, closing>>

-----------------------------------------------------------------------------
(* Shutdown *)

Signal ==
    /\ phase \in {"launched", "listening"}
    /\ kills < MaxKills
    /\ kills' = kills + 1
    /\ timers' = FALSE
    /\ IF indexed THEN waiting' = waiting + 1 /\ UNCHANGED closing
                  ELSE closing' = closing + 1 /\ UNCHANGED waiting
    /\ UNCHANGED <<migration, phase, config, requests>>

\* The RPC node has answered that the subscription is gone, or failed to.
IndexerStopped ==
    /\ waiting > 0
    /\ waiting' = waiting - 1
    /\ closing' = closing + 1
    /\ UNCHANGED <<migration, kills, phase, config, timers, requests>>

\* server.close resolves when no request is in flight; the database is closed
\* and the process exits in one go.
Close ==
    /\ closing > 0 /\ requests = 0
    /\ Exit
    /\ UNCHANGED <<migration, kills, config>>

\* Faulty variant: the timer is armed only when server.close has resolved.
ForceExitLate ==
    /\ closing > 0 /\ requests = 0
    /\ Exit
    /\ UNCHANGED <<migration, kills, config>>

\* Thirty seconds.
ForceExit ==
    /\ closing > 0
    /\ Exit
    /\ UNCHANGED <<migration, kills, config>>

\* SIGKILL, an uncaught exception, an unhandled rejection, or a signal before
\* there is a handler.
Kill ==
    /\ Exit
    /\ M!Kill
    /\ UNCHANGED config

Starting == \/ Start \/ Migrate \/ MigrationThrows \/ Migrated
            \/ Launch \/ Listen \/ ListenRejects

Next ==
    \/ Start \/ Migrate \/ MigrationThrows \/ Migrated
    \/ Launch \/ Listen \/ ListenRejects \/ ListenFails
    \/ Accept \/ Answer
    \/ Signal \/ IndexerStopped \/ Close \/ ForceExit
    \/ Kill

\* The process is started again whenever it is down, and then runs; the force
\* timer fires.  A request may hang on a provider, and the answer of the RPC
\* node may never come: neither is fair.
Fairness ==
    /\ WF_vars(Starting)
    /\ WF_vars(Close)
    /\ WF_vars(ForceExit)

Spec == Init /\ [][Next]_vars
FairSpec == Spec /\ Fairness

-----------------------------------------------------------------------------
\* The type invariant.
TypeOK ==
    /\ M!TypeOK
    /\ phase \in Past \cup {"down", "migrating"}
    /\ port \in {"good", "refused", "NaN"} /\ indexed \in BOOLEAN
    /\ timers \in BOOLEAN
    /\ requests \in 0..MaxRequests
    /\ waiting \in 0..MaxKills /\ closing \in 0..MaxKills

\* The service never runs on half a schema, however often and wherever the
\* starts before were cut, by signals that came too early for a handler
\* included.
UpMeansMigrated == M!UpMeansMigrated

\* Once a handler has got past the indexer's stop the process ends, whatever
\* requests are in flight and whichever handler came first.
SignalEnds == closing > 0 ~> phase = "down"

\* A process that is started whenever it is down comes to listen, unless its
\* PORT is no port or a kill came between an ALTER and the record of its file:
\* a cut anywhere else is mended by the next start.
ComesUp == port = "good" => <>[](phase = "listening" \/ M!Wedged)
=============================================================================
