# Carbide discovery service: specification

TLA+ models of the discovery service of this repository, the TLC runs that check
them and the proofs that TLAPS checks. Paths are those of the repository
(`src/services/...`, `Readme.md`, `tests/...`). `PROJECT.json` maps every
definition that models code to the lines it models, and lists the runs, the
mutants, the hazards and the findings.

## 1. The system

One Node.js process with one SQLite database (`better-sqlite3`, synchronous).
Fastify serves `/api/v1`; four background tasks run beside the routes: the health
checker (30 s), the statistics updater (60 s), the contract lifecycle timer (60 s)
and, if a program id is configured, the Solana indexer (subscription and a prune
every five minutes). A handler runs without interruption up to its first `await`;
most have none. What interleaves is therefore: the two halves of the few handlers
that await (registration, health probes, quotes, backfill, prune), and, because no
handler uses a transaction, the SQL statements of one handler with the death of
the process.

| Component | State | Operations | Hard behaviour |
| --- | --- | --- | --- |
| Storage contracts (`contract-service.ts`) | `storage_contracts`, `payment_events` | create, deposit, update status | no condition on the status; statements commit one by one |
| Lifecycle timer (`contract-lifecycle.ts`) | none of its own | expired contracts complete, stale ones fail | order of the two checks; death within a loop |
| Proof verifier (`proof-verifier.ts`) | `proof_log`, counters of a contract | verify a proof | five statements; a threshold on consecutive failures |
| Reputation (`reputation-service.ts`) | `reputation_events`, scores in `providers` | record, recalculate | score and events are written apart; averages, clamps, neutral values |
| Provider registry (`discovery.ts`, `queries.ts`, `routes/providers.ts`) | `providers`, a cached total | register, delete, heartbeat | awaited verification; `INSERT OR REPLACE` cascades |
| Files (`routes/files.ts`) | `file_providers` | add, remove, look up | cascades with its provider |
| Health checker (`health-checker.ts`) | probes in flight | round, answer, removal | late answers, overlapping rounds, exceptions |
| Administration (`admin-service.ts`) | writes `providers` | deactivate, activate, list | another timestamp format |
| Search, quotes, statistics (`discovery.ts`, `stats-updater.ts`) | cached statistics, calls in flight | search, request quotes, update | string comparison of times, fan-out, stale cache |
| Solana indexer (`solana-indexer.ts`) | registry rows of `providers`, flags, subscription | backfill, upsert, prune, stop | snapshots across awaits, lost notifications |
| Pricing (`pricing-service.ts`) | none | median, recommendation, histogram | boundaries |
| Migrations (`database/index.ts`) | schema, `_migrations` | run at start | no transaction, `ALTER TABLE` cannot be repeated |
| Server lifecycle (`server.ts`, `config/index.ts`) | configuration, timers, signal handlers, requests in flight | start, listen, shut down | signals before there are handlers, overlapping handlers, a timer armed late |
| Keys and tokens (`middleware/auth.ts`, `middleware/jwt.ts`, `routes/auth.ts`) | `api_keys`; tokens held by clients | bootstrap, exchange, create | a token outlives what it stands for |
| Disputes, users, webhooks, analytics, payment signer, middleware | own tables | see section 8 | not modelled |

The components interact through rows of the shared database. Contracts and
reputation events hold foreign keys on `providers` without cascade, so they *pin*
a provider: deleting its row throws. Files cascade. The timer, the proof verifier
and the routes write reputation events and scores; registration and the indexer
overwrite the scores.

What makes a component correct, in a sentence each: a contract is settled once per
funding and each settlement has its event; proofs are counted once and fail a
contract only in a run; scores follow events; a row appears only by registration
and disappears only by deletion or an earned removal, taking along what refers to
it; the mirror of the chain lags only for known reasons; whoever looks online was
heard of; a quote request ends; the service never runs on half a schema, and a
signalled process ends; a credential outlives its key by a token's lifetime at most.

## 2. Modules

| Module | Models | State | Notes |
| --- | --- | --- | --- |
| `ContractLifecycle` | the promise of the contracts | status and overdue set | abstract; no statements, ledgers or deaths |
| `Contracts` | contracts, timer, proofs, emitted events | rows, ledgers, event counts, score freshness, clock | implements `ContractLifecycle` |
| `Registry` | providers, files, health checker, crash and restart | rows, failure counts, awaited registrations and probes | |
| `Discovery` | the process that runs `Registry` and `Contracts` over one database | theirs, and the timer's first minute | implements both |
| `Indexer` | the on-chain mirror | chain, rows, snapshot, inbox, prunes under way | |
| `Marketplace` | search, quotes, statistics | offers, timestamps with their format, calls, cached statistics | |
| `Reputation` | score formulas | bag of events, stored scores | |
| `Pricing` | market, recommendation, histogram | one row per provider | |
| `Figures` | the two side by side | theirs | nothing shared; the module that `MCFigures` runs and `FiguresProofs` is about |
| `Migrations` | schema migrations | schema, `_migrations`, position | |
| `Server` | start, listening, shutdown | phase, timers, requests, signal handlers | composes `Migrations` |
| `Access` | API keys and bearer tokens | `api_keys`, tokens handed out, clock | |
| `MC...` | constants of the runs | | one for each module that TLC runs |
| `...Proofs` | – | – | theorems about the module of that name |

Definitions keep the names of the methods they model. `Faulty variant` in a comment
marks a wrong version of the definition that follows it; they are used by no
specification, only by the mutation runs listed in `PROJECT.json`, each of which
shows that one property notices one plausible mistake.

### Contracts

A handler with several SQL statements takes the number `k` of statements that commit.
`k` equal to their number is the undisturbed handler; less is a handler cut by the death
of the process, or by a statement that throws, after which the request answers 500 and
the process lives on. In a timer callback an exception leaves the callback, is uncaught,
and exits the process, so `TornTick`, in which one contract's statements are cut, always
ends with the process down; so does `PartialTick`, a death between two contracts or
between the two checks, after which some are settled in full and the others not at all.
The ghost `torn` counts cut handlers of a contract; the properties use it to say exactly
what a cut may cost. Times are units, `StaleAfter` stands for 48 hours and
`FailureThreshold` for 5. Whether a proof is valid is an input: `verifyProof` looks only
whether the fields of a submission are empty. Amounts are opaque strings that nothing
compares and do not appear.

### Registry

`BeginRegister`/`Register` are the two halves of `POST /providers` around the
awaited verification; `Round` and the `Answer...` actions are the two halves of a
probe. Both carry only the provider's id across the await, so an answer meets
whatever row now has that id. `failed` is the column; the checker's increment of a
copy is the `+ 1` in `Removable`. `pinned` are providers that contracts or events
refer to. `AnswerExits` is the exception that a refused `DELETE` throws twice, in
the `try` and in the `catch` of `checkProvider`, and on which `server.ts` exits.
`mood` is the environment: what an endpoint answers at the moment.
It binds no client: a heartbeat may claim any status whatever the endpoint answers.
`misses` and `bad` are ghosts that count failed probes and reports of trouble;
`exited` holds the providers over which the process exited and that were not found
well since.

### Indexer

The chain is the environment. Contents of an account are a value (they make a
provider), `Foreign` (they decode but name an unknown tier or region: such an
account is spared by prunes and never upserted), `Garbled` or `Absent`. The RPC
answer is taken in `Start` and `BeginPrune` and applied in `FinishBackfill` and
`FinishPrune`; everything may happen in between. The timer does not wait for the prune
before, so that several may be under way: `Call` numbers them, and each has the chain
as it saw it in `seen`. `Shared` are the owners whose rows the rest of the service
touches too. Notifications arrive in order, may
be lost when the websocket drops, and are not sent when an account is closed.
`lost` is a ghost: the owners whose row may lag for a reason the code accepts.

### Marketplace

A timestamp is a time and the format it is stored in. SQLite compares strings:
`2024-01-02 03:04:05` against `2024-01-02T...` differs first at the blank, which is
below `T`. `After` is that comparison. A search runs in one step; `Firsts` is the
set of all orders that the `ORDER BY` allows, ties being open. A quote request is
open from `RequestQuotes` to `FinishQuotes`, and each provider's call has two
stages, since the ten-second timer is cleared at the headers.

### Reputation, Pricing

The score formulas read all events of a provider and do not look at their order, so
a bag of events is enough. Fractions are integers in units of 1/10000 (the
precision of `toFixed(4)`), truncated where the code rounds. Pricing takes every
market over small sets of prices and compares each figure with its definition.
Registration checks neither prices nor reputations, which are any strings
(`types/provider.ts:88`): they are integers of either sign here. So is the number of
buckets that a request asks for, and `NaN`, which leaves the loop as empty, stands with
the numbers below 1. `Absorbed` are the prices to which adding 0.000001 changes nothing
in double precision, from 2^34 on: the end of the last bucket is then not above them.
`ORDER BY price` is an enumeration of the healthy providers that is `Ascending`; which
of the enumerations, where prices tie, makes no difference to the list of prices.
`Figures` puts the two beside each other: they share no state, and its assumption on
the events (finitely many kinds, a number or `NULL` in each) is the column's type.

### Discovery

`Registry` takes the pinned providers as given and `Contracts` takes it for granted
that providers stay. `Discovery` instantiates both: `pinned` is replaced by
`Pinned`, the providers that rows of `storage_contracts` and `reputation_events`
refer to, and both share `up`, since either brings the process down for the other: the
checker by an exception over a pinned provider (`Exit`), the timer by one of its own
(`TornTick`) or by being killed between two contracts (`PartialTick`), a request by
dying half-way. Each action conjoins an action of one component with an action of the
other or with no step of it. `minute` tells whether the process has been up for the
sixty seconds after which the lifecycle timer fires for the first time; the checker's
first round comes at once.

### Server, Migrations

`Migrations` takes the shapes of the files (how many `CREATE ... IF NOT EXISTS` and
`ALTER TABLE`, in which order) and commits statement by statement. `Server` embeds
it: its phases `building`, `launched` and `listening` are what `Migrations` calls
"up". The configuration is good, refused by `validateConfig` (or by the check of the
secrets), or has a `PORT` that is no number, which validation lets through. Signal
handlers exist from `launched` on; before that a signal is a `Kill`. Every signal
starts a handler of its own, which first awaits the indexer's stop (`waiting`) and
then arms the thirty-second timer and awaits `server.close` (`closing`).

### Access

A key is looked up at every use, a token never. `lastGood` is a ghost: the last time
a key was active and unexpired. A key is valid up to its `expires_at`, a token
strictly before its `exp`, as the two comparisons of the code have it. `Revoke` is
the operator clearing `is_active`, for which there is a column and a condition in the
`SELECT` and no route. The role a route asks for is set by the authentication hook, so
with `AUTH_ENABLED=false` nobody can create a key by `POST /auth/keys`.

## 3. Runs

| Run | Question | Bounds that matter |
| --- | --- | --- |
| `contracts` | one contract in depth | two deposits, three proofs, threshold 2, five time units, one cut handler, one foreign write to the scores |
| `contracts_pair` | two contracts in one tick; refinement; liveness | one deposit and one proof each, one cut each |
| `registry` | safety of the registry | two providers, one of which may be pinned, two overlapping rounds, threshold 2, deaths without limit |
| `discovery` | registry and contracts in one process: foreign keys, the starved timer, removal | one provider, one file, one contract, threshold 2, three time units, one kill besides the checker's exits |
| `indexer` | safety and liveness of the mirror | two owners, two values, two notifications and two prunes under way, one owner that may be pinned and that the rest of the service touches |
| `marketplace` | who is found, do quotes end, do statistics catch up | two providers, two offers, one of them at a negative price, clock over a midnight |
| `figures` | ranges and direction of the scores, figures against their definitions | every bag of up to four events of twelve kinds; four providers, five prices, one below 0 and one too large for the last bucket; three reputations, one off the scale; bucket counts from -1 to 5 |
| `server` | starts cut anywhere, shutdowns | four files, two requests, five kills, signals and failures to listen |
| `access` | how far credentials reach | three keys, six moments, terms of none and one, tokens of two |
| `registry_silent` | finding 1 | |
| `indexer_gap` | finding 2 | |
| `marketplace_admin` | finding 3 | |

Why these bounds are enough. Two deposits reopen a settled contract once, which is what
double settlement needs; three proofs with threshold 2 allow a run, its interruption and
a run across a reopening; the terms 1 and 3 with a staleness of 1 give contracts that
are expired, stale, both and neither. Two providers and two probes each allow every
order of two answers around a deletion and a new registration, and a threshold of 2
separates the second report from the third. In `discovery` one provider is enough for
the checker to bring the process down over its own contract, and one kill to lose a
first minute; the larger instances are those of the components, which `Discovery` is
proved to implement. Two values tell a stale notification from the current one; with two
prunes one can see the chain before the other and delete after it. A midnight within the
clock's range is where the string comparison changes. Four providers give medians of odd
and even markets with ties, of either sign. Five kills allow one in each file, and two
signals whose handlers overlap. Three keys give a maker, a key it makes, and one that
this makes; six moments exceed a key's term, a token's lifetime and both in a row. Every
bound is a constant whose name starts with `Max`, or a saturation (`CountCap`,
`MissCap`) beyond the threshold it could influence.

`CHECK_DEADLOCK FALSE` appears once, in `Server.cfg`: a process whose configuration
is refused never starts. All other runs check deadlock.

## 4. What the properties say

*Contracts.* `SettledOncePerDeposit`: reported completions and violations, plus one
if the contract is active, never exceed deposits plus cut handlers, although
`recordDeposit` reopens settled contracts. `ProofsAccounted`: counter, log and
success events agree up to the cut handlers, event after count after log.
`PeriodsIncrease`, `FailuresAreConsecutive`, `FailedForCause`: without cut handlers the
log carries the periods in order, the counter is the length of the last run of
invalid rows, and a failed contract has its cause on record.
`ViolatedOnlyAfterProof`: a contract without any proof is never reported for a
violation; it completes. `ScoresFollowEvents`: a stored score that leaves out the
last event is due to a route, a repeated registration or a cut handler.
`ExpiredSettles` and `ImplementsFairLifecycle`: an overdue contract is settled,
completed and not failed, whatever dies in between.

*Registry.* `ReferencesResolve`, `OnlyRegistrationAdds`, `RemovalIsEarned` relate late
answers, cascades, counts and crashes. `ExitsAreEarned`: a provider over which the
process exited is pinned and had given a full run of trouble, and through exits and
restarts its row keeps the count at which the next failed check exits again, until it
registers anew or better news of it comes.

*Discovery.* `ContractsResolve`: the foreign keys between the tables of the two
components. `SettlesUnlessLooping`: an expired contract is settled unless a pinned
provider stays in trouble; without that proviso TLC finds the checker restarting the
process for ever before the timer's first minute is over. `UnhealthyLeaves`: a provider
whose endpoint answers "unhealthy" from some time on leaves, provided it stops
registering and stops posting `Healthy` heartbeats, which clear its count, and no pinned
provider stays in trouble. None of these provisos is in the code.

*Indexer.* `LagExplained` is the complete list of the ways a row can differ from its
account. `NoUpsertAfterStop`: a stop is final for the mirrored contents although the
backfill is not told of it. `DeregisteredFallsOut`: a closed account, of which no
notification tells, leaves the table unless a pinned row breaks off every prune.

*Marketplace.* `OnlineOnly` (the mix of formats never makes a silent provider look
online), `ValueRespectsDominance`, `QuotesAnswered`, `StatsCatchUp`.

*Figures.* `NewsCountsTheRightWay`: one more event moves the scores in its own
direction. `MedianSplits`: the median has half of the market on either side, and floor,
median and ceiling are in this order exactly when the median is not negative.
`HistogramCountsAll` says whom a histogram counts, each once: everybody when all charge
the same; otherwise nobody if fewer than one bucket is asked for, and else everybody but
those at a highest price too large for the last bucket. `RecommendationAgrees`.

*Server.* `UpMeansMigrated`: what is recorded is complete, files take effect in their
order, and the service runs on the whole schema only. `ComesUp`: a process that is
started whenever it is down comes to listen, unless a kill fell between an `ALTER`
and the record of its file. `SignalEnds`: once a handler is past the indexer's stop
the process ends, whatever requests hang.

*Access.* `TokensLapse`: a token works for less than its lifetime after its key was
last good, and in its key's role. `KeysDescend`: a key that was not made with the
secret was made on behalf of an administrator's key that was good less than a token's
lifetime before.

## 5. Fairness

* Timers (`Tick`, `Round`, `BeginPrune`, `UpdateStats`) recur while the process is
  up. In `Contracts` alone `Tick` is strongly fair because deaths of the process
  disable it again and again. `Discovery` says what is behind that: a process that
  stays up lives through its first minute (`MinutePasses`) and then fires the timer
  (`Tick`), both weakly fair, so that a process in a crash loop need never fire it.
  `Round` comes with the start itself and stays strongly fair, as do the answers: a
  restart loses the probes in flight.
* `Restart` is weakly fair: it stands for a supervisor. The repository's Dockerfile
  sets none, so liveness is a statement about deployments that have one.
* Calls end: `fetch` is aborted after ten seconds without headers, and the HTTP
  client gives up on a body that does not go on (`Answer`, `Abort`, `Body`). The last
  is the client's limit on the time between two chunks: a body that keeps dripping is
  not covered, and a quote request waits for it.
* `FinishPrune(c)` is strongly fair for each number `c` of a prune, which the timer
  gives out in turn: not every RPC call of the prunes fails, and the process is not
  killed within every one.
* In `Server` the steps of a start, `Close` and `ForceExit` are weakly fair: a process
  runs on and its armed timer fires. A request may hang for ever and the RPC node may
  never answer the indexer's stop.
* Fairness assumes nothing of clients, providers, the chain, administrators, deaths, or
  of the indexer's start. Where a property needs something of them it says so as its
  premise: `UnhealthyLeaves` (no more `Healthy` heartbeats and registrations) and
  `SettlesUnlessLooping` (no pinned provider stays in trouble).

## 6. Proofs

All theorems hold for every value of the constants that the `ConstantsAssumption` of
the module admits; nothing else is assumed but what a theorem states as its own
hypothesis (the scores of `FiguresTyped`, and in the theorems about liveness when an
action is enabled). In each module the invariant the proof
needs is defined first, then there is one lemma or step per action, and the theorems
come last.

`ContractsProofs`. `TypeCorrect`; `SettlementsPaidFor`; `ViolationsAfterProof`.
`TypeOK /\ SettledOncePerDeposit` is inductive: the property counts an active contract
as one settlement still to come, so that settling it moves a unit from one summand to
the other, a deposit adds a unit to both sides, and a handler cut between the two
statements of a deposit adds it to `torn` instead of `deposits`.
`ViolatedOnlyAfterProof` needs a strengthening, because the timer chooses the stale
contracts by `last_proof_at` and the property speaks of `proofs_submitted`:
`ProofsPrecede` says that a last proof implies a counted one, that a reported violation
does, and that a contract not yet created has no violation reported.

Then the ledgers, the counters and the scores: `ProofsAreAccounted`, `PeriodsAscend`,
`FailuresInARow`, `FailuresCaused`, `ScoresKeepUp`. The invariant says how log and
counters relate: every period up to the counter is logged (`AllLogged`), and in an uncut
history no valid row is ahead of the counter (`Ascending`) and `proofs_failed` is the
run of invalid rows at the end (`RunOfRejected`). `ImplementsLifecycle`: `Spec =>
Lifecycle!Spec`, every step of the contracts, whole or cut, is a step of the abstract
life cycle or a stutter. `CompletionsAreDue` uses it: that a completed contract is past
its term is shown of the abstract life cycle, in five actions, and holds of the rows by
the refinement.

`RegistryProofs`. `TypeCorrect`, `ReferencesHold`, `ExitsEarned`,
`RowsAreRegistered`, `RemovalsAreEarned`. The invariant adds to the types and the
references that the column `failed_health_checks` equals the ghost that counts reports
of trouble in a row: this is what a late answer, applied to a row that was deleted and
registered anew, cannot disturb, because a registration resets both. `ExitsEarned` is
part of the invariant for the sake of what comes after an exit: the row stays, since a
pinned one cannot be deleted, and only what takes the provider out of `exited` takes its
count back.

`DiscoveryProofs`. `ImplementsContracts` and `ImplementsRegistry` are step
simulations: every action of `Discovery` is an action of `Contracts` and of `Registry`
or a stutter of either. With them the theorems of `ContractsProofs` and
`RegistryProofs`, taken through `INSTANCE`, hold of the composition;
`ReferencesAcrossTables` and `TypeCorrect` are obtained that way. The step that needs
an argument is that `Pinned`, computed from the rows of the contracts, moves exactly as
the variable `pinned` of `Registry` may: it grows by `Pin` and never shrinks, because
no status goes back to "none". `ContractsKeepTheirWord` and `RegistryKeepsItsWord` take
over the rest: every safety property proved of either component holds of the process.

`IndexerProofs`. `TypeCorrect`, `MirrorAccountedFor`, `StopIsFinal`. `LagExplained`
speaks of a live indexer; the invariant carries it there. `SnapshotExplained`: what the
backfill's snapshot gets wrong is lost already. `LastSaysNow`: the last notification of
an account says what the account says now, so that a delivery may strike the account
off the list of the lost. `QuietUnlessLive`: nothing is under way outside the
subscription. `PinnedRowsStay` is what the foreign keys promise on this side of the
table: no upsert or prune takes the row of a pinned owner.

`MarketplaceProofs`. `TypeCorrect`; `NobodySilentIsShown`, by the monotony of days;
`BetterComesFirst`, by the arithmetic of the order "value" and the fact that an answer
is sorted by the rows it was made from.

`ServerProofs`. `TypeCorrect`; `NeverHalfASchema`. `Behind` relates the position
of a start in the migrations to the schema: files before it are recorded, and of the
current one what has been executed is there, whatever the starts before left behind;
the second part of `UpMeansMigrated` says that nothing is there of a file beyond an
unrecorded one. `Handlers`, a bound on the signal handlers under way, completes the
types.

`AccessProofs`. `TypeCorrect`, `TokensDie`, `KeysHaveMakers`. The invariant dates
everything by `lastGood`: a token was issued when its key was last good or before, and
a key that is good now was last good now.

`FiguresProofs`. The figures are folds over finite sets and an enumeration in order, so
that their proofs need induction over data. The library's induction theorems take an
operator, which the provers cannot instantiate; `Induction` and `SubsetInduction` are
about a *set* of good cases instead and follow from the well-foundedness of `<` on the
naturals and of strict inclusion on the subsets of a finite set. On them rest

* the sums: the fold that `SumFunctionOnSet` chooses exists (`AddsExists`), adds in any
  order (`SumWithout`), depends on the summands alone (`SumSame`), and the sizes of the
  parts of a partition add up to that of the whole (`SumOfParts`);
* the order: every finite set has an enumeration that ascends (`SortingExists`), so
  that `Prices` lists every healthy provider's price once, cheapest first.

`MedianIsMedian`: the median lies between two positions, each with half of the list on
one side; on which side of it 80% and 150% of it are depends on its sign alone.
`EverybodyIsCounted`: the buckets are disjoint, and a price not in the first `m` is in
one of those after it (`CountedAt`); which positions of the list they share out is
`ShownPositions`, in one case for each way a histogram can leave somebody out.
`AdviceAgrees`: the recommendation rounds to the side of the median on which the
reputation is. `NewsCounts`: one more event changes number and total of one kind; `Rise`
and `Fall` say what that does to a quotient rounded down, the case of no event before,
which jumps from the neutral score, included; the overall score is monotone in all five.
`RecalculationCaps` needs no hypothesis. `FiguresTyped`, that all scores are between 0
and 1, has two, because the code checks neither the sign of a rating nor the scores that
a registration announces.

Liveness. The provers know no rule for `ENABLED`, and no induction over a formula of
temporal logic; fairness itself they reason about. So each theorem about liveness takes
as hypothesis when its fair actions are enabled (`TickEnabled`: while something is due
`<<Tick>>_vars` is possible; the others likewise), which holds because the action then
changes the variable the hypothesis looks at. TLC needs no such hypothesis, it
evaluates `ENABLED`, and checks the same properties under the same fairness. With it

* `ExpiredIsSettled` proves `ExpiredSettles`: what is expired stays expired until it is
  closed (`ExpiredStays`), and a tick closes it; fairness of `Tick` must be strong,
  because the process goes down in between.
* `StatisticsCatchUp` proves `StatsCatchUp`: an update makes the statistics right, and
  the steps that write the total alone write the right one (`TotalsAreRight`).
* `SignalsEnd` proves `SignalEnds`.

Three more are the part of a property that is left when something has settled, where
the rest is an induction over how often it can still change:

* `UpMeansSettled`, of `SettlesUnlessLooping`: once the process stays up, the first
  minute passes, the timer is not lost again, and expired contracts are settled. That
  the process does come to stay up (finitely many kills and cuts, nobody pinned in
  trouble) is checked by TLC.
* `GoneAtRest`, of `DeregisteredFallsOut`: when the account's notifications are gone
  and the pins settled. A prune that was under way may have looked at the chain before;
  the next one of the same number has not (`Fresh`), meets no pinned row, and ends its
  loop, whatever the others delete meanwhile.
* `EveryCallEnds`, of `QuotesAnswered`: a single provider's call.

Checked by TLC only: the whole of these three, `UnhealthyLeaves`, which counts a
provider's reports, `ComesUp`, which counts migrations and starts, and the fairness of
the refinement (`ImplementsFairLifecycle`), which holds because a contract is reopened
finitely often. Every invariant and every action property that a run checks is proved.

## 7. Findings and observations

Three statements of the repository that the code does not meet, each with a run that
shows it:

1. `registry_silent`: "removes any that fail 5 consecutive checks" (`Readme.md:8`).
   `handleFailure` increments a copy (`health-checker.ts:135`); a provider that
   refuses every probe stays for ever.
2. `indexer_gap`: "any register/update/setActive call is reflected within seconds"
   (`solana-indexer.ts:14-16`). A write between the answer to the backfill and the
   subscription is not mirrored until the account changes again.
3. `marketplace_admin`: `PROVIDER_TIMEOUT` is "ms before a silent provider is
   considered stale" (`Readme.md:95`). An administrator's activation makes a live
   provider look stale at once (`admin-service.ts:99`).

Seen while modelling, and in the models, without a run of their own:

* A provider that reports it is unhealthy is counted twice per probe and removed one
  report earlier than the comparison with 5 suggests (`RemovalIsEarned` states the
  number that holds).
* Removing a pinned provider exits the process, and does so again after each restart
  as long as the provider is in trouble (`AnswerExits`). The checker runs at once and
  the lifecycle timer a minute later, so one such provider holds up the settlement of
  everybody's contracts (`SettlesUnlessLooping`).
* The comment in `server.ts:322` speaks of a graceful shutdown with a thirty-second
  timeout. The timer is armed after the indexer's stop has been awaited: if the RPC
  node never answers, the process goes on listening with its timers stopped. A second
  signal's handler gets through if the library has dropped the subscription by then.
* `PORT=abc` passes validation: migrations run and timers start, then listening fails
  and the process exits (`ListenRejects`).
* An administrator's token made before its key was revoked makes new keys until it
  expires (`KeysDescend` states the bound that holds).
* A pinned row whose account is gone breaks off every prune at that row, and a start
  that prunes it ends without a subscription (`PruneThrows`).
* A prune may delete a row that was mirrored after its RPC call; it is not put back
  until the account changes (`lost` in `FinishPrune`).
* The process dying between status and event of a settlement loses the event for good.
* `has_more` compares the total with the cap, not with what was returned; a caller's
  limit replaces the cap and a negative one removes it (`Returned`).
* A heartbeat that claims `Healthy` sets `failed_health_checks` to 0
  (`discovery.ts:114`), the column in which the checker counts. A provider whose endpoint
  answers "unhealthy" and that posts such heartbeats is never removed; the proviso of
  `UnhealthyLeaves` excludes it.
* Prices may be negative. Where the median is, 80% of it is more than the median and
  150% is less: the floor shuts out the market (`pricing-service.ts:65`, `MedianSplits`).
* A histogram of 0, fewer or `NaN` buckets (`routes/pricing.ts:27` checks nothing) is
  empty unless all charge the same, and providers at a highest price of 2^34 or more are
  in no bucket (`pricing-service.ts:153-155`, `Shown`).
* The timer of the prune does not wait for the prune before (`solana-indexer.ts:274`): an
  older answer may be applied after a newer one.
* Ratings below zero would give a negative community score (`CommunityFeedback`).

## 8. Not modelled, and why

* Disputes: a record that is open or resolved. Resolving it changes its own row in one
  statement, and no other component reads it; the contract it names is not looked at.
* Users: upsert and read of one row.
* Webhooks: rows only, `dispatch` has no caller and nothing is delivered.
* Analytics: read-only; its one writer has no caller.
* Payment signer: key handling and transaction building in the Solana libraries; it
  keeps no state, and nothing in the service calls it once it is loaded.
* Request middleware (audit log, metrics, request ids): output only.
* Types: declarations without behaviour.

Within modelled components: money (opaque strings), `recordPaymentRelease` (no caller),
capacities, the request counter, paging, logs, hashing and signing of credentials, the
rounding of a recommendation and of a bucket's edges to six and two places, prices that
are infinite as doubles, `last_used_at` (nothing reads it), the registration of plugins
and routes (one step of a start), the order of equal quotes, and the lookup of a file's
providers, whose cutoff is that of search.

## 9. How the modules build on each other

`Contracts` and `Registry` stand alone, each with the other's part taken as given, and
`Discovery` discharges both assumptions. `Migrations` is embedded in `Server`.
`Indexer` and `Marketplace` see the table of providers from two more sides: the rows'
contents, and their timestamps; the steps the rest of the service takes on those rows
are actions of their own there (`HttpRegister`, `Unregister`, `Announce`, `Leave`).
`Reputation` refines what `Contracts` and `Discovery` only count: which events there
are, and whether the stored score has seen them.
