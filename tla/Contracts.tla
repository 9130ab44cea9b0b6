------------------------------ MODULE Contracts ------------------------------
(***************************************************************************)
(* Storage contracts: ContractService, ProofVerifierService,               *)
(* ContractLifecycleManager and the reputation events these emit.          *)
(*                                                                         *)
(* Every handler runs synchronously on the one thread of the process, so   *)
(* handlers never interleave.  But a handler is a list of SQL statements   *)
(* that commit one by one: no transaction encloses them.  The argument k   *)
(* of a handler is the number of its statements that commit; when it is    *)
(* smaller than the whole list the handler was cut short, by the death of  *)
(* the process or by a statement that threw (the request is answered 500   *)
(* and the process lives on).  The ghost torn[c] counts the handlers of    *)
(* contract c that were cut short.                                         *)
(*                                                                         *)
(* The providers of the contracts stay registered throughout: the foreign  *)
(* keys of storage_contracts and reputation_events refuse their deletion   *)
(* (module Registry).                                                      *)
(***************************************************************************)
EXTENDS Integers, Sequences

CONSTANTS
    Contract,          \* contract ids (randomUUID)
    Provider,          \* registered providers
    ProviderOf,        \* the provider a contract is made with
    Durations,         \* admissible terms, in units of time
    StaleAfter,        \* age at which the last proof is stale (48 hours)
    FailureThreshold,  \* rejected proofs in a row that fail a contract (5)
    MaxTime,           \* bound: the clock
    MaxDeposits,       \* bound: deposits per contract
    MaxProofs,         \* bound: proof submissions per contract
    MaxPosted,         \* bound: writes of others to a provider's reputation
    MaxTorn            \* bound: handlers cut short per contract

ASSUME ConstantsAssumption ==
    /\ ProviderOf \in [Contract -> Provider]
    /\ Durations \subseteq Nat \ {0}
    /\ StaleAfter \in Nat \ {0}
    /\ FailureThreshold \in Nat \ {0}
    /\ {MaxTime, MaxDeposits, MaxProofs, MaxPosted, MaxTorn} \subseteq Nat

VARIABLES
    row,       \* storage_contracts
    deposits,  \* payment_events: number of 'deposit' rows of a contract
    proofLog,  \* proof_log: the rows of a contract, in order of insertion
    events,    \* reputation_events the service emitted, by contract and type
    posted,    \* events posted through the route and repeated registrations
    scored,    \* does the provider's stored score count its last event?
    torn,      \* ghost: handlers of a contract cut short
    up,        \* is the process running?
    now        \* wall clock

vars == <<row, deposits, proofLog, events, posted, scored, torn, up, now>>

Status == {"none", "pending_deposit", "active", "completed", "failed"}
EventType == {"proof_success", "proof_failure",
              "contract_completed", "contract_violated"}
NoProof == 0       \* last_proof_at IS NULL; the clock starts at 1

Row == [status : Status, created : Nat, duration : Nat, lastProof : Nat,
        submitted : Nat, failed : Nat]
NoRow == [status |-> "none", created |-> 0, duration |-> 0,
          lastProof |-> NoProof, submitted |-> 0, failed |-> 0]
LogRow == [valid : BOOLEAN, period : Nat]

Init ==
    /\ row = [c \in Contract |-> NoRow]
    /\ deposits = [c \in Contract |-> 0]
    /\ proofLog = [c \in Contract |-> <<>>]
    /\ events = [c \in Contract |-> [e \in EventType |-> 0]]
    /\ posted = [p \in Provider |-> 0]
    /\ scored = [p \in Provider |-> TRUE]
    /\ torn = [c \in Contract |-> 0]
    /\ up = TRUE
    /\ now = 1

-----------------------------------------------------------------------------
\* A request for contract c that committed k of its n statements.  Cut short,
\* it leaves the process dead, or alive and answering 500.
Answered(c, k, n) ==
    /\ k \in 1..n
    /\ IF k = n
       THEN UNCHANGED <<torn, up>>
       ELSE /\ torn[c] < MaxTorn
            /\ torn' = [torn EXCEPT ![c] = @ + 1]
            /\ up' \in BOOLEAN

\* recordEvent followed by recalculateScore, as statements number s and s + 1
\* of a handler that commits k.
EmitEvent(c, e, s, k) ==
    /\ events' = IF k >= s THEN [events EXCEPT ![c][e] = @ + 1] ELSE events
    /\ scored' = IF k >= s
                 THEN [scored EXCEPT ![ProviderOf[c]] = (k > s)]
                 ELSE scored

CreateContract(c, d) ==
    /\ up
    /\ row[c].status = "none"
    /\ row' = [row EXCEPT ![c] = [NoRow EXCEPT !.status = "pending_deposit",
                                               !.created = now,
                                               !.duration = d]]
    /\ UNCHANGED <<deposits, proofLog, events, posted, scored, torn, up, now>>

\* The UPDATE has no condition on the status: a deposit also reopens a
\* contract that has completed or failed.
RecordDeposit(c, k) ==
    /\ up
    /\ row[c].status # "none"
    /\ deposits[c] < MaxDeposits
    /\ Answered(c, k, 2)
    /\ row' = [row EXCEPT ![c].status = "active"]
    /\ deposits' = IF k = 2 THEN [deposits EXCEPT ![c] = @ + 1] ELSE deposits
    /\ UNCHANGED <<proofLog, events, posted, scored, now>>

-----------------------------------------------------------------------------
\* Faulty variant: the period is the number of proofs so far.
LogProofPeriodOffByOne(c, valid) ==
    /\ up
    /\ row[c].status = "active"
    /\ Len(proofLog[c]) < MaxProofs
    /\ proofLog' = [proofLog EXCEPT
         ![c] = Append(@, [valid |-> valid, period |-> row[c].submitted])]

\* verifyProof logs the attempt before it touches the contract.
LogProof(c, valid) ==
    /\ up
    /\ row[c].status = "active"
    /\ Len(proofLog[c]) < MaxProofs
    /\ proofLog' = [proofLog EXCEPT
         ![c] = Append(@, [valid |-> valid, period |-> row[c].submitted + 1])]

\* The row of a contract after a proof was accepted at time t.
Proved(r, t) == [r EXCEPT !.submitted = @ + 1, !.failed = 0, !.lastProof = t]

\* The row after a proof was rejected, the contract failing with it or not.
Struck(r, fails) == [r EXCEPT !.failed = @ + 1,
                              !.status = IF fails THEN "failed" ELSE @]

\* Faulty variants, for the mutation runs: the success does not reset
\* proofs_failed; it does not count the proof.
AcceptProofKeepsFailures(c, k) ==
    /\ LogProof(c, TRUE)
    /\ Answered(c, k, 4)
    /\ row' = IF k >= 2 THEN [row EXCEPT ![c].submitted = @ + 1,
                                         ![c].lastProof = now] ELSE row
    /\ EmitEvent(c, "proof_success", 3, k)
    /\ UNCHANGED <<deposits, posted, now>>

AcceptProofUncounted(c, k) ==
    /\ LogProof(c, TRUE)
    /\ Answered(c, k, 4)
    /\ row' = IF k >= 2 THEN [row EXCEPT ![c].failed = 0,
                                         ![c].lastProof = now] ELSE row
    /\ EmitEvent(c, "proof_success", 3, k)
    /\ UNCHANGED <<deposits, posted, now>>

AcceptProof(c, k) ==
    /\ LogProof(c, TRUE)
    /\ Answered(c, k, 4)
    /\ row' = IF k >= 2 THEN [row EXCEPT ![c] = Proved(row[c], now)] ELSE row
    /\ EmitEvent(c, "proof_success", 3, k)
    /\ UNCHANGED <<deposits, posted, now>>

\* Faulty variant: the failure just counted is counted again.
RejectProofCountsTwice(c, k) ==
    LET fails == k >= 3 /\ row[c].failed + 2 >= FailureThreshold
    IN  /\ LogProof(c, FALSE)
        /\ Answered(c, k, 5)
        /\ row' = IF k >= 2
                  THEN [row EXCEPT ![c] = Struck(row[c], fails)]
                  ELSE row
        /\ EmitEvent(c, "proof_failure", 4, k)
        /\ UNCHANGED <<deposits, posted, now>>

RejectProof(c, k) ==
    LET fails == k >= 3 /\ row[c].failed + 1 >= FailureThreshold
    IN  /\ LogProof(c, FALSE)
        /\ Answered(c, k, 5)
        /\ row' = IF k >= 2
                  THEN [row EXCEPT ![c] = Struck(row[c], fails)]
                  ELSE row
        /\ EmitEvent(c, "proof_failure", 4, k)
        /\ UNCHANGED <<deposits, posted, now>>

-----------------------------------------------------------------------------
Active == {c \in Contract : row[c].status = "active"}

\* Faulty variants: the query for expired contracts forgets the status; the
\* query for stale ones takes a contract without any proof.
ExpiredAnyStatus ==
    {c \in Contract : /\ row[c].status # "none"
                      /\ row[c].created + row[c].duration < now}

StaleWithoutProof == {c \in Active : /\ row[c].lastProof + StaleAfter < now
                                     /\ row[c].created + StaleAfter < now}

Expired == {c \in Active : row[c].created + row[c].duration < now}

Stale == {c \in Active : /\ row[c].lastProof # NoProof
                         /\ row[c].lastProof + StaleAfter < now
                         /\ row[c].created + StaleAfter < now}

\* Faulty variants: the stale proofs are looked at first; a status no reader of
\* the table knows.
OutcomeStaleFirst(c) == IF c \in Expired \ Stale THEN "completed" ELSE "failed"

OutcomeExpired(c) == IF c \in Expired THEN "expired" ELSE "failed"

\* checkExpiredContracts runs first, so what is both expired and stale
\* completes.
Outcome(c) == IF c \in Expired THEN "completed" ELSE "failed"
OutcomeEvent(c) == IF c \in Expired THEN "contract_completed"
                                    ELSE "contract_violated"

\* The contracts S are settled, and the event of those in R is recorded.
Report(S, R) ==
    /\ row' = [c \in Contract |->
                 IF c \in S THEN [row[c] EXCEPT !.status = Outcome(c)]
                            ELSE row[c]]
    /\ events' = [c \in Contract |->
                    IF c \in R THEN [events[c] EXCEPT ![OutcomeEvent(c)] = @ + 1]
                               ELSE events[c]]
    /\ UNCHANGED <<deposits, proofLog, posted, now>>

\* Faulty variant: the callback does not recalculate the scores.
SettleUnscored(S, R, unscored) ==
    /\ Report(S, R)
    /\ scored' = [p \in Provider |->
                    scored[p] /\ ~ \E c \in R : ProviderOf[c] = p]

\* The timer callback: the score of R's providers is recalculated except for
\* the provider in unscored.
Settle(S, R, unscored) ==
    /\ Report(S, R)
    /\ scored' = [p \in Provider |->
                    /\ p \notin unscored
                    /\ scored[p] \/ \E c \in R : ProviderOf[c] = p]

\* Faulty variant: the callback only looks for stale proofs.
TickOnlyStale ==
    /\ up
    /\ Settle(Stale, Stale, {})
    /\ UNCHANGED <<torn, up>>

Tick ==
    /\ up
    /\ Settle(Expired \cup Stale, Expired \cup Stale, {})
    /\ UNCHANGED <<torn, up>>

\* The process dies in the callback, after the contracts done and the first k
\* statements for contract c.  A statement that throws here is an uncaught
\* exception, which exits the process.
TornTick(done, c, k) ==
    LET due == Expired \cup Stale IN
    /\ up
    /\ done \subseteq due /\ c \in due \ done
    /\ IF c \in Expired THEN done \subseteq Expired ELSE Expired \subseteq done
    /\ k \in 1..2
    /\ torn[c] < MaxTorn
    /\ torn' = [torn EXCEPT ![c] = @ + 1]
    /\ up' = FALSE
    /\ Settle(done \cup {c},
              IF k = 2 THEN done \cup {c} ELSE done,
              IF k = 2 THEN {ProviderOf[c]} ELSE {})

\* The process dies in the callback between two contracts, or between its two
\* checks: those done are settled in full, nothing of the others is.
PartialTick(done) ==
    /\ up
    /\ done \subseteq Expired \cup Stale
    /\ done \subseteq Expired \/ Expired \subseteq done
    /\ up' = FALSE
    /\ Settle(done, done, {})
    /\ UNCHANGED torn

-----------------------------------------------------------------------------
\* POST /reputation/events: any client, any event, no recalculation.
PostEvent(p) ==
    /\ up
    /\ posted[p] < MaxPosted
    /\ posted' = [posted EXCEPT ![p] = @ + 1]
    /\ scored' = [scored EXCEPT ![p] = FALSE]
    /\ UNCHANGED <<row, deposits, proofLog, events, torn, up, now>>

\* POST /providers for a known id, or a change of its account on the chain:
\* INSERT OR REPLACE overwrites the stored scores.
Reregister(p) ==
    /\ up
    /\ posted[p] < MaxPosted
    /\ posted' = [posted EXCEPT ![p] = @ + 1]
    /\ scored' = [scored EXCEPT ![p] = FALSE]
    /\ UNCHANGED <<row, deposits, proofLog, events, torn, up, now>>

RecalculateScore(p) ==
    /\ up
    /\ scored' = [scored EXCEPT ![p] = TRUE]
    /\ UNCHANGED <<row, deposits, proofLog, events, posted, torn, up, now>>

Kill ==
    /\ up
    /\ up' = FALSE
    /\ UNCHANGED <<row, deposits, proofLog, events, posted, scored, torn, now>>

Restart ==
    /\ ~up
    /\ up' = TRUE
    /\ UNCHANGED <<row, deposits, proofLog, events, posted, scored, torn, now>>

Elapse ==
    /\ now < MaxTime
    /\ now' = now + 1
    /\ UNCHANGED <<row, deposits, proofLog, events, posted, scored, torn, up>>

Next ==
    \/ \E c \in Contract, d \in Durations : CreateContract(c, d)
    \/ \E c \in Contract, k \in 1..2 : RecordDeposit(c, k)
    \/ \E c \in Contract, k \in 1..4 : AcceptProof(c, k)
    \/ \E c \in Contract, k \in 1..5 : RejectProof(c, k)
    \/ Tick
    \/ \E done \in SUBSET Contract, c \in Contract, k \in 1..2 :
         TornTick(done, c, k)
    \/ \E done \in SUBSET Contract : PartialTick(done)
    \/ \E p \in Provider : PostEvent(p) \/ Reregister(p)
                           \/ RecalculateScore(p)
    \/ Kill \/ Restart
    \/ Elapse

\* The lifecycle timer fires every minute while the process is up: strongly
\* fair, because a supervisor that restarts the process leaves it up for more
\* than a minute again and again.
Fairness == WF_vars(Restart) /\ SF_vars(Tick)

Spec == Init /\ [][Next]_vars
FairSpec == Spec /\ Fairness

-----------------------------------------------------------------------------
\* The type invariant.
TypeOK ==
    /\ row \in [Contract -> Row]
    /\ deposits \in [Contract -> Nat]
    /\ proofLog \in [Contract -> Seq(LogRow)]
    /\ events \in [Contract -> [EventType -> Nat]]
    /\ posted \in [Provider -> Nat]
    /\ scored \in [Provider -> BOOLEAN]
    /\ torn \in [Contract -> Nat]
    /\ up \in BOOLEAN
    /\ now \in Nat \ {0}

\* Every contract_completed and contract_violated event the service emits, and
\* every active contract, is paid for by a deposit of its own or by a handler
\* that was cut short: the timer settles an activation at most once, whatever
\* the order of deposits, rejected proofs, ticks and deaths of the process.
SettledOncePerDeposit ==
    \A c \in Contract :
        events[c]["contract_completed"] + events[c]["contract_violated"]
          + (IF row[c].status = "active" THEN 1 ELSE 0)
            <= deposits[c] + torn[c]

\* proofs_submitted, proof_log and the proof_success events count the same
\* proofs, up to the handlers cut short between their statements: an event
\* never precedes its proof and a counted proof was logged.
ProofsAccounted ==
    \A c \in Contract :
        /\ events[c]["proof_success"] <= row[c].submitted
        /\ row[c].submitted <= events[c]["proof_success"] + torn[c]
        /\ \A n \in 1..row[c].submitted :
             \E i \in DOMAIN proofLog[c] : /\ proofLog[c][i].valid
                                           /\ proofLog[c][i].period = n

\* As long as no handler of the contract was cut short, the valid rows of
\* proof_log carry the periods 1, 2, 3, ... in that order: no proof period is
\* paid for twice.
PeriodsIncrease ==
    \A c \in Contract : torn[c] = 0 =>
        \A i, j \in DOMAIN proofLog[c] :
            i < j /\ proofLog[c][i].valid /\ proofLog[c][j].valid =>
                proofLog[c][i].period < proofLog[c][j].period

\* "5 consecutive failures": proofs_failed is the length of the run of invalid
\* rows at the end of proof_log, across deposits that reopen the contract.
FailuresAreConsecutive ==
    \A c \in Contract : torn[c] = 0 =>
        LET n == Len(proofLog[c]) - row[c].failed
        IN  /\ n >= 0
            /\ \A i \in DOMAIN proofLog[c] : i > n => ~proofLog[c][i].valid
            /\ n > 0 => proofLog[c][n].valid

\* A contract is failed for a cause on record: a run of FailureThreshold
\* rejected proofs, or a contract_violated event.
FailedForCause ==
    \A c \in Contract : torn[c] = 0 /\ row[c].status = "failed" =>
        \/ row[c].failed >= FailureThreshold
        \/ events[c]["contract_violated"] > 0

\* A provider is reported for a violation only on a contract it has proved at
\* least once: a contract without any proof is never stale, it completes.
ViolatedOnlyAfterProof ==
    \A c \in Contract :
        events[c]["contract_violated"] > 0 => row[c].submitted > 0

\* A stored score that leaves out the provider's last event is due to an event
\* posted through the route, to a repeated registration or to a handler cut
\* short: the service's own handlers keep score and events together.
ScoresFollowEvents ==
    \A p \in Provider :
        \/ scored[p]
        \/ posted[p] > 0
        \/ \E c \in Contract : ProviderOf[c] = p /\ torn[c] > 0

-----------------------------------------------------------------------------
\* The contracts implement ContractLifecycle: no statement, no cut between
\* statements and no death of the process shows in the statuses as anything
\* but a step of the abstract life cycle or no step at all.
Lifecycle == INSTANCE ContractLifecycle WITH
    phase <- [c \in Contract |-> row[c].status],
    overdue <- {c \in Contract : /\ row[c].status # "none"
                                 /\ row[c].created + row[c].duration < now}

ImplementsFairLifecycle == Lifecycle!FairSpec

\* A contract whose term has passed does not stay active for ever: the timer
\* completes it, whatever kills and restarts happen in between.
ExpiredSettles ==
    \A c \in Contract : c \in Expired ~> row[c].status # "active"
=============================================================================
