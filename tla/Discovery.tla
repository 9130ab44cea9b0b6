------------------------------ MODULE Discovery ------------------------------
(***************************************************************************)
(* One process over one database: the provider registry and its health     *)
(* checker (Registry) beside the contracts and their lifecycle timer       *)
(* (Contracts).  The two share the process, which either can bring down,   *)
(* and the foreign keys: storage_contracts and reputation_events refer to  *)
(* providers, so the rows that Registry takes as given (pinned) are here   *)
(* the rows Contracts writes.                                              *)
(*                                                                         *)
(* Every action is an action of one component conjoined with what it is to *)
(* the other: an action of its own, or no step.                            *)
(***************************************************************************)
EXTENDS Integers, FiniteSets, Sequences

CONSTANTS
    \* of both
    Provider,
    \* of Registry
    File, MaxFailed, Moods, MaxPending, MaxProbes, CountCap, MissCap,
    \* of Contracts
    Contract, ProviderOf, Durations, StaleAfter, FailureThreshold, MaxTime,
    MaxDeposits, MaxProofs, MaxPosted, MaxTorn,
    MaxKills     \* bound: kills by a signal or by the machine

VARIABLES
    \* of both
    up,
    \* of Registry
    registered, failed, health, files, pending, probes, total, exited, mood,
    misses, bad,
    \* of Contracts
    row, deposits, proofLog, events, posted, scored, torn, now,
    cited,       \* providers of events posted through the route
    minute,      \* has the process been up for the timer's first minute?
    kills        \* ghost: kills so far

\* The providers that rows of storage_contracts and reputation_events refer
\* to.  The service's own events concern the provider of a contract.
Pinned == {ProviderOf[c] : c \in {d \in Contract : row[d].status # "none"}}
            \cup cited

R == INSTANCE Registry WITH pinned <- Pinned, Pinnable <- Provider
C == INSTANCE Contracts

ASSUME ConstantsAssumption ==
    /\ R!ConstantsAssumption
    /\ C!ConstantsAssumption
    /\ MaxKills \in Nat

registry  == <<registered, failed, health, files, pending, probes, total, up,
               exited, mood, misses, bad>>
contracts == <<row, deposits, proofLog, events, posted, scored, torn, up, now>>
own       == <<cited, minute, kills>>
vars      == <<registry, contracts, own>>

Init == cited = {} /\ C!Init /\ R!Init /\ minute = FALSE /\ kills = 0

-----------------------------------------------------------------------------
(* Steps of the registry that the contracts do not notice *)

RegistryStep ==
    /\ UNCHANGED <<contracts, own>>
    /\ \E p \in Provider :
         \/ R!BeginRegister(p) \/ R!RefuseRegister(p) \/ R!Unregister(p)
         \/ \E ok \in BOOLEAN : R!Heartbeat(p, ok)
         \/ R!Deactivate(p) \/ R!Activate(p)
         \/ \E f \in File : R!RegisterFile(f, p) \/ R!RemoveFile(f, p)
         \/ R!ChangeMood(p)

Answer(p) ==
    /\ UNCHANGED <<contracts, own>>
    /\ R!Answer(p)

Round ==
    /\ UNCHANGED <<contracts, own>>
    /\ R!Round

\* A registration of a provider with events overwrites the score they made.
Register(p) ==
    /\ IF p \in Pinned THEN C!Reregister(p) ELSE UNCHANGED contracts
    /\ UNCHANGED own
    /\ R!Register(p)

-----------------------------------------------------------------------------
(* Steps of the contracts that the registry does not notice *)

\* A request, which may be cut short by the death of the process.
Request ==
    /\ \/ \E c \in Contract :
            \/ \E k \in 1..2 : C!RecordDeposit(c, k)
            \/ \E k \in 1..4 : C!AcceptProof(c, k)
            \/ \E k \in 1..5 : C!RejectProof(c, k)
       \/ \E p \in Provider : C!RecalculateScore(p)
    /\ UNCHANGED <<cited, kills>>
    /\ minute' = (minute /\ up')
    /\ UNCHANGED registry \/ R!Kill

Elapse ==
    /\ C!Elapse
    /\ UNCHANGED <<registry, own>>

\* The lifecycle timer first fires a minute after the start.
Tick ==
    /\ minute
    /\ C!Tick
    /\ UNCHANGED <<registry, own>>

TornTick ==
    /\ minute
    /\ \E done \in SUBSET Contract, c \in Contract, k \in 1..2 :
         C!TornTick(done, c, k)
    /\ minute' = FALSE
    /\ UNCHANGED <<cited, kills>>
    /\ R!Kill

\* A kill that falls between two contracts of the callback.
PartialTick ==
    /\ minute
    /\ kills < MaxKills
    /\ kills' = kills + 1
    /\ \E done \in SUBSET Contract : C!PartialTick(done)
    /\ minute' = FALSE
    /\ UNCHANGED cited
    /\ R!Kill

-----------------------------------------------------------------------------
(* Steps of both *)

\* Faulty variant: provider_id is no foreign key.
CreateUnreferenced(c, d) ==
    /\ C!CreateContract(c, d)
    /\ UNCHANGED <<own, registry>>

\* POST /contracts: the provider has to exist, and can no longer be deleted.
CreateContract(c, d) ==
    /\ C!CreateContract(c, d)
    /\ UNCHANGED own
    /\ R!Pin(ProviderOf[c])

\* POST /reputation/events: so has the provider of an event.
PostEvent(p) ==
    /\ C!PostEvent(p)
    /\ cited' = cited \cup {p}
    /\ UNCHANGED <<minute, kills>>
    /\ R!Pin(p)

\* The checker fails to remove a pinned provider: the process exits.
Exit(p) ==
    /\ C!Kill
    /\ minute' = FALSE
    /\ UNCHANGED <<cited, kills>>
    /\ R!AnswerExits(p)

\* Faulty variant: a process that starts again goes on with the old timers.
KillKeepsMinute ==
    /\ kills < MaxKills
    /\ kills' = kills + 1
    /\ C!Kill
    /\ UNCHANGED <<cited, minute>>
    /\ R!Kill

Kill ==
    /\ kills < MaxKills
    /\ kills' = kills + 1
    /\ C!Kill
    /\ minute' = FALSE
    /\ UNCHANGED cited
    /\ R!Kill

Restart ==
    /\ C!Restart
    /\ UNCHANGED own
    /\ R!Restart

MinutePasses ==
    /\ up /\ ~minute
    /\ minute' = TRUE
    /\ UNCHANGED <<registry, contracts, cited, kills>>

Next ==
    \/ RegistryStep \/ Round
    \/ \E p \in Provider : Answer(p) \/ Register(p) \/ PostEvent(p) \/ Exit(p)
    \/ Request
    \/ \E c \in Contract, d \in Durations : CreateContract(c, d)
    \/ Tick \/ TornTick \/ PartialTick
    \/ Elapse
    \/ Kill \/ Restart \/ MinutePasses

\* The process is restarted when it is down.  A process that stays up lives
\* through its first minute and fires its timer from then on; nothing promises
\* that to a process that exits again and again.  Rounds come from a timer too,
\* and the first one from the start itself; a fetch is aborted after ten seconds
\* without headers, and the HTTP client gives up on a body that does not go on.
\* Their fairness is strong because a restart loses the probes in flight.
Fairness ==
    /\ WF_vars(Restart)
    /\ WF_vars(MinutePasses)
    /\ WF_vars(Tick)
    /\ SF_vars(Round)
    /\ \A p \in Provider : SF_vars(Answer(p) \/ Exit(p))

Spec == Init /\ [][Next]_vars
FairSpec == Spec /\ Fairness

-----------------------------------------------------------------------------
\* The type invariant.
TypeOK ==
    /\ R!TypeOK /\ C!TypeOK
    /\ cited \subseteq Provider
    /\ minute \in BOOLEAN /\ (minute => up)
    /\ kills \in 0..MaxKills

\* The foreign keys between the tables of the two components: the provider of
\* every contract and every event is registered, whatever the checker, the
\* routes and the timer do to either side, and however often the process dies.
ContractsResolve == R!ReferencesResolve

\* Composed, the components still behave as each does alone: what holds of
\* Registry with contracts as given, and of Contracts with providers as given,
\* holds of the process that runs both (module DiscoveryProofs).
RegistryImplemented == R!Spec
ContractsImplemented == C!Spec

\* A contract past its term is settled unless the process keeps exiting over a
\* pinned provider in trouble, which starves the timer: one such provider is
\* enough to hold up the contracts of all others.
SettlesUnlessLooping ==
    \A c \in Contract :
        <>[](\A p \in Pinned : mood[p] = "healthy") =>
            (c \in C!Expired ~> row[c].status # "active")

\* A provider that keeps answering "unhealthy" and is not pinned leaves the
\* registry for good once it stops registering and claiming by heartbeat that it
\* is healthy, unless a pinned one brings the process down over and over.
UnhealthyLeaves == R!UnhealthyLeaves
=============================================================================
