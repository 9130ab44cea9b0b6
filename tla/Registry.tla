------------------------------ MODULE Registry -------------------------------
(***************************************************************************)
(* The provider registry: the routes that register, delete, refresh and    *)
(* administer providers and their files, DiscoveryService over the         *)
(* providers table, and the HealthChecker that probes every provider.      *)
(*                                                                         *)
(* The process has one thread, but a registration awaits the verification  *)
(* of its endpoint and a probe awaits the answer of its provider: between  *)
(* the two halves of either, any other step may happen.  Both carry only   *)
(* the provider's id across the await.                                     *)
(*                                                                         *)
(* An exception that escapes a probe is an unhandled rejection, on which   *)
(* server.ts exits the process.                                            *)
(***************************************************************************)
EXTENDS Integers, FiniteSets

CONSTANTS
    Provider,    \* provider ids
    File,        \* file ids
    MaxFailed,   \* failed checks a provider survives (5)
    Moods,       \* what a provider's endpoint may answer
    Pinnable,    \* providers that may get contracts or reputation events
    MaxPending,  \* bound: registrations of a provider under verification
    MaxProbes,   \* bound: probes of a provider in flight
    CountCap,    \* bound: failed_health_checks saturates here
    MissCap      \* bound: the ghost misses saturates here

ASSUME ConstantsAssumption ==
    /\ IsFiniteSet(Provider)
    /\ MaxFailed \in Nat \ {0}
    /\ Moods \subseteq {"healthy", "unhealthy", "silent"} /\ Moods # {}
    /\ Pinnable \subseteq Provider
    /\ {MaxPending, MaxProbes, CountCap, MissCap} \subseteq Nat
    /\ CountCap > MaxFailed

VARIABLES
    registered,  \* ids in the providers table
    failed,      \* failed_health_checks of a row, 0 without a row
    health,      \* health_status of a row, "none" without a row
    files,       \* file_providers: pairs of a file and a provider
    pinned,      \* providers with rows in storage_contracts, reputation_events
    pending,     \* registrations awaiting verifyEndpoint
    probes,      \* checkProvider calls awaiting their fetch
    total,       \* DiscoveryService.stats.total_providers, in memory
    up,          \* is the process running?
    exited,      \* ghost: who the process exited over, and is not well since
    mood,        \* what the provider's endpoint answers now
    misses,      \* ghost: checks failed since the last good one or registration
    bad          \* ghost: unhealthy reports since the last good one or registration

rows  == <<registered, failed, health, files, pinned>>
async == <<pending, probes>>
ghost == <<misses, bad, exited>>
vars  == <<registered, failed, health, files, pinned, pending, probes, total,
           up, exited, mood, misses, bad>>

Health == {"Healthy", "Unhealthy", "Deactivated"}

Saturate(n, cap) == IF n < cap THEN n + 1 ELSE cap

Init ==
    /\ registered = {} /\ files = {} /\ pinned = {}
    /\ failed = [p \in Provider |-> 0]
    /\ health = [p \in Provider |-> "none"]
    /\ pending = [p \in Provider |-> 0]
    /\ probes = [p \in Provider |-> 0]
    /\ total = 0
    /\ up = TRUE /\ exited = {}
    /\ mood \in [Provider -> Moods]
    /\ misses = [p \in Provider |-> 0] /\ bad = misses

-----------------------------------------------------------------------------
(* Registration *)

\* POST /providers: the body is parsed, the endpoint is being verified.
BeginRegister(p) ==
    /\ up
    /\ pending[p] < MaxPending
    /\ pending' = [pending EXCEPT ![p] = @ + 1]
    /\ UNCHANGED <<rows, probes, total, up, mood, ghost>>

\* The row a registration writes, but for its count of failures.  INSERT OR
\* REPLACE deletes the row it replaces, so its file_providers rows go with it
\* (ON DELETE CASCADE).
Upsert(p) ==
    /\ registered' = registered \cup {p}
    /\ health' = [health EXCEPT ![p] = "Healthy"]
    /\ files' = {m \in files : m[2] # p}
    /\ total' = Cardinality(registered')
    /\ misses' = [misses EXCEPT ![p] = 0] /\ bad' = [bad EXCEPT ![p] = 0]
    /\ exited' = exited \ {p}
    /\ UNCHANGED <<pinned, probes, up, mood>>

\* Faulty variants: the registration does not wait for the verification; the
\* upsert keeps the failures counted before.
RegisterUnverified(p) ==
    /\ up
    /\ pending' = [pending EXCEPT ![p] = @ - 1]
    /\ Upsert(p)
    /\ failed' = [failed EXCEPT ![p] = 0]

RegisterKeepsCount(p) ==
    /\ up
    /\ pending[p] > 0
    /\ pending' = [pending EXCEPT ![p] = @ - 1]
    /\ Upsert(p)
    /\ UNCHANGED failed

\* registerProvider, after the await.
Register(p) ==
    /\ up
    /\ pending[p] > 0
    /\ pending' = [pending EXCEPT ![p] = @ - 1]
    /\ Upsert(p)
    /\ failed' = [failed EXCEPT ![p] = 0]

\* The endpoint is unreachable: 422.
RefuseRegister(p) ==
    /\ up
    /\ pending[p] > 0
    /\ pending' = [pending EXCEPT ![p] = @ - 1]
    /\ UNCHANGED <<rows, probes, total, up, mood, ghost>>

\* DELETE FROM providers of a row nothing refers to but files.
Delete(p) ==
    /\ registered' = registered \ {p}
    /\ failed' = [failed EXCEPT ![p] = 0]
    /\ health' = [health EXCEPT ![p] = "none"]
    /\ misses' = [misses EXCEPT ![p] = 0] /\ bad' = [bad EXCEPT ![p] = 0]

\* Faulty variant: the files stay.
RemoveNoCascade(p) ==
    Delete(p) /\ UNCHANGED files /\ total' = Cardinality(registered')

\* DiscoveryService.unregisterProvider.
Remove(p) ==
    /\ Delete(p)
    /\ files' = {m \in files : m[2] # p}
    /\ total' = Cardinality(registered')

\* DELETE /providers/:id.  A pinned row violates a foreign key: 500.
Unregister(p) ==
    /\ up
    /\ p \in registered \ pinned
    /\ Remove(p)
    /\ UNCHANGED <<pinned, async, up, exited, mood>>

-----------------------------------------------------------------------------
(* Heartbeats, administration, files, rows of other tables *)

\* Faulty variant: good news does not clear the failures.
UpdateHeartbeatKeeps(p, ok) ==
    /\ failed' = [failed EXCEPT ![p] = IF ok THEN @ ELSE Saturate(@, CountCap)]
    /\ health' = [health EXCEPT ![p] = IF ok THEN "Healthy" ELSE "Unhealthy"]
    /\ bad' = [bad EXCEPT ![p] = IF ok THEN 0 ELSE Saturate(@, CountCap)]

\* DiscoveryService.updateHeartbeat.
UpdateHeartbeat(p, ok) ==
    /\ failed' = [failed EXCEPT ![p] = IF ok THEN 0 ELSE Saturate(@, CountCap)]
    /\ health' = [health EXCEPT ![p] = IF ok THEN "Healthy" ELSE "Unhealthy"]
    /\ bad' = [bad EXCEPT ![p] = IF ok THEN 0 ELSE Saturate(@, CountCap)]

\* POST /providers/:id/heartbeat: any status, whatever the endpoint answers.
Heartbeat(p, ok) ==
    /\ up
    /\ p \in registered
    /\ UpdateHeartbeat(p, ok)
    /\ exited' = IF ok THEN exited \ {p} ELSE exited
    /\ UNCHANGED <<registered, files, pinned, async, total, up, mood, misses>>

SetHealth(p, status) ==
    /\ up
    /\ p \in registered
    /\ health' = [health EXCEPT ![p] = status]
    /\ UNCHANGED <<registered, failed, files, pinned, async, total, up, mood,
                   ghost>>

Deactivate(p) == SetHealth(p, "Deactivated")
Activate(p)   == SetHealth(p, "Healthy")

RegisterFile(f, p) ==
    /\ up
    /\ p \in registered
    /\ files' = files \cup {<<f, p>>}
    /\ UNCHANGED <<registered, failed, health, pinned, async, total, up, mood,
                   ghost>>

RemoveFile(f, p) ==
    /\ up
    /\ files' = files \ {<<f, p>>}
    /\ UNCHANGED <<registered, failed, health, pinned, async, total, up, mood,
                   ghost>>

\* POST /contracts or /reputation/events: a row that refers to the provider,
\* without ON DELETE CASCADE, and that nothing ever deletes.
Pin(p) ==
    /\ up
    /\ p \in registered \cap Pinnable
    /\ pinned' = pinned \cup {p}
    /\ UNCHANGED <<registered, failed, health, files, async, total, up, mood,
                   ghost>>

-----------------------------------------------------------------------------
(* Health checks *)

\* runHealthCheck up to the first await: a probe of every registered provider.
Round ==
    /\ up
    /\ registered # {}
    /\ \A p \in registered : probes[p] < MaxProbes
    /\ probes' = [p \in Provider |->
                    probes[p] + (IF p \in registered THEN 1 ELSE 0)]
    /\ UNCHANGED <<rows, pending, total, up, mood, ghost>>

\* What a dead process loses.
Forget ==
    /\ up' = FALSE
    /\ pending' = [p \in Provider |-> 0]
    /\ probes' = [p \in Provider |-> 0]
    /\ total' = 0

Answered(p) ==
    /\ up
    /\ probes[p] > 0
    /\ probes' = [probes EXCEPT ![p] = @ - 1]

\* The row is gone: updateHeartbeat and handleFailure do nothing.
AnswerForNobody(p) ==
    /\ Answered(p)
    /\ p \notin registered
    /\ UNCHANGED <<rows, pending, total, up, mood, ghost>>

\* Faulty variant: the heartbeat of a probe is an upsert.
AnswerHealthyUpserts(p) ==
    /\ Answered(p)
    /\ mood[p] = "healthy"
    /\ UpdateHeartbeat(p, TRUE)
    /\ registered' = registered \cup {p}
    /\ misses' = [misses EXCEPT ![p] = 0]
    /\ exited' = exited \ {p}
    /\ UNCHANGED <<files, pinned, pending, total, up, mood>>

AnswerHealthy(p) ==
    /\ Answered(p)
    /\ p \in registered
    /\ mood[p] = "healthy"
    /\ UpdateHeartbeat(p, TRUE)
    /\ misses' = [misses EXCEPT ![p] = 0]
    /\ exited' = exited \ {p}
    /\ UNCHANGED <<registered, files, pinned, pending, total, up, mood>>

\* What is in failed_health_checks when handleFailure reads the row: an answer
\* "Unhealthy" has been counted by updateHeartbeat, a refused connection, a
\* timeout, a status >= 400 or a body that does not parse has not.
Count(p) == IF mood[p] = "unhealthy" THEN Saturate(failed[p], CountCap)
                                     ELSE failed[p]

\* handleFailure increments a copy of the row and compares the copy; the
\* increment is never written back.
Removable(p) == Count(p) + 1 > MaxFailed

CheckFails(p) ==
    /\ up
    /\ probes[p] > 0
    /\ p \in registered
    /\ mood[p] # "healthy"

\* Faulty variant: an unhealthy answer is not written back either.
AnswerFailedUnwritten(p) ==
    /\ CheckFails(p)
    /\ ~Removable(p)
    /\ Answered(p)
    /\ misses' = [misses EXCEPT ![p] = Saturate(@, MissCap)]
    /\ UNCHANGED <<failed, health, bad, registered, files, pinned, pending, total,
                   up, exited, mood>>

AnswerFailed(p) ==
    /\ CheckFails(p)
    /\ ~Removable(p)
    /\ Answered(p)
    /\ IF mood[p] = "unhealthy" THEN UpdateHeartbeat(p, FALSE)
                                ELSE UNCHANGED <<failed, health, bad>>
    /\ misses' = [misses EXCEPT ![p] = Saturate(@, MissCap)]
    /\ UNCHANGED <<registered, files, pinned, pending, total, up, exited, mood>>

AnswerRemoves(p) ==
    /\ CheckFails(p)
    /\ Removable(p)
    /\ p \notin pinned
    /\ Answered(p)
    /\ Remove(p)
    /\ UNCHANGED <<pinned, pending, up, exited, mood>>

\* The DELETE of a pinned row throws in handleFailure, and again in the
\* handleFailure of the catch block: the rejection reaches nobody.
AnswerExits(p) ==
    /\ CheckFails(p)
    /\ Removable(p)
    /\ p \in pinned
    /\ Forget
    /\ exited' = exited \cup {p}
    /\ IF mood[p] = "unhealthy" THEN UpdateHeartbeat(p, FALSE)
                                ELSE UNCHANGED <<failed, health, bad>>
    /\ misses' = [misses EXCEPT ![p] = Saturate(@, MissCap)]
    /\ UNCHANGED <<registered, files, pinned, mood>>

Answer(p) == \/ AnswerForNobody(p) \/ AnswerHealthy(p) \/ AnswerFailed(p)
             \/ AnswerRemoves(p) \/ AnswerExits(p)

-----------------------------------------------------------------------------
(* The process and the providers *)

Kill ==
    /\ up
    /\ Forget
    /\ UNCHANGED <<rows, mood, ghost>>

\* createServer: the health checker and the stats updater run at once.
Restart ==
    /\ ~up
    /\ up' = TRUE
    /\ probes' = [p \in Provider |-> IF p \in registered THEN 1 ELSE 0]
    /\ total' = Cardinality(registered)
    /\ UNCHANGED <<rows, pending, mood, ghost>>

ChangeMood(p) ==
    /\ \E m \in Moods : mood' = [mood EXCEPT ![p] = m]
    /\ UNCHANGED <<rows, async, total, up, ghost>>

Next ==
    \/ \E p \in Provider :
         \/ BeginRegister(p) \/ Register(p) \/ RefuseRegister(p)
         \/ Unregister(p)
         \/ \E ok \in BOOLEAN : Heartbeat(p, ok)
         \/ Deactivate(p) \/ Activate(p)
         \/ \E f \in File : RegisterFile(f, p) \/ RemoveFile(f, p)
         \/ Pin(p)
         \/ Answer(p)
         \/ ChangeMood(p)
    \/ Round
    \/ Kill \/ Restart

Spec == Init /\ [][Next]_vars

-----------------------------------------------------------------------------
\* The type invariant.
TypeOK ==
    /\ registered \subseteq Provider
    /\ failed \in [Provider -> 0..CountCap]
    /\ health \in [Provider -> Health \cup {"none"}]
    /\ files \subseteq File \X Provider
    /\ pinned \subseteq Provider
    /\ pending \in [Provider -> Nat]
    /\ probes \in [Provider -> Nat]
    /\ total \in Nat
    /\ up \in BOOLEAN /\ exited \subseteq Provider
    /\ mood \in [Provider -> Moods]
    /\ misses \in [Provider -> Nat]
    /\ bad \in [Provider -> 0..CountCap]

\* The foreign keys hold through replacements, cascades, removals by the
\* checker and crashes: no file, contract or reputation row is left pointing
\* at a provider that is gone, and what is gone left no count behind.
ReferencesResolve ==
    /\ \A m \in files : m[2] \in registered
    /\ pinned \subseteq registered
    /\ \A p \in Provider \ registered : failed[p] = 0 /\ health[p] = "none"

\* The checker brings the process down only over a provider that a contract or
\* a reputation event pins and that has given a full run of trouble since it
\* registered or was last found well.  Exits and restarts undo neither: until
\* better news of it comes, the row has the count at which the next failed
\* check exits again.
ExitsAreEarned ==
    \A p \in exited : p \in pinned /\ bad[p] >= MaxFailed /\ failed[p] >= MaxFailed

\* A late answer, a heartbeat or a file never brings a deleted provider back:
\* a row appears only when a registration completes.
OnlyRegistrationAdds ==
    [][\A p \in registered' \ registered : pending'[p] < pending[p]]_vars

\* The checker removes a provider only on the MaxFailed-th report of trouble
\* in a row since it registered or was last found well, even when the answer
\* was awaited across a new registration.
CheckerRemoves(p) == /\ p \in registered /\ p \notin registered'
                     /\ probes'[p] < probes[p]
RemovalIsEarned ==
    [][\A p \in Provider : CheckerRemoves(p) => bad[p] + 1 >= MaxFailed]_vars

\* A provider that keeps answering "unhealthy" and is not pinned leaves the
\* registry for good once it stops registering and claiming by heartbeat that it
\* is healthy, unless a pinned one brings the process down over and over.
UnhealthyLeaves ==
    \A p \in Provider :
        LET troubled == /\ mood[p] = "unhealthy" /\ pending[p] = 0 /\ p \notin pinned
                        /\ \A q \in pinned : mood[q] = "healthy"
        IN  <>[]troubled /\ <>[][~Heartbeat(p, TRUE)]_vars => <>[](p \notin registered)

\* Readme.md: "pings each one every 30s and removes any that fail 5
\* consecutive checks"; health-checker.ts: "removes providers that fail health
\* checks more than 5 times".  No registered provider has failed more than
\* MaxFailed checks in a row.
NeverOverlooked == \A p \in registered : misses[p] <= MaxFailed
=============================================================================
