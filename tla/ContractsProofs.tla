--------------------------- MODULE ContractsProofs ---------------------------
(***************************************************************************)
(* Proofs about Contracts, for every set of contracts and providers, every *)
(* threshold and every bound: the type invariant; the accounting of        *)
(* settlements; what is kept in more than one place, the counters of a     *)
(* contract, its proof log and its events, the scores and the events; that *)
(* all of it implements ContractLifecycle; and that what has expired is    *)
(* settled.                                                                *)
(***************************************************************************)
EXTENDS Contracts, TLAPS

-----------------------------------------------------------------------------
(* Type correctness *)

LEMMA InitType == Init => TypeOK
BY ConstantsAssumption
DEF Init, TypeOK, Row, NoRow, Status, NoProof, LogRow

\* The two building blocks of the handlers keep the types of what they change.
LEMMA AnsweredType ==
    ASSUME TypeOK, NEW c \in Contract, NEW k \in Nat, NEW n \in Nat,
           Answered(c, k, n)
    PROVE  torn' \in [Contract -> Nat] /\ up' \in BOOLEAN
<1>1. torn' \in [Contract -> Nat]
  <2>1. CASE k = n
    BY <2>1 DEF Answered, TypeOK
  <2>2. CASE k # n
    <3>1. torn' = [torn EXCEPT ![c] = @ + 1]
      BY <2>2 DEF Answered
    <3> QED
      BY <3>1 DEF TypeOK
  <2> QED
    BY <2>1, <2>2
<1>2. up' \in BOOLEAN
  BY Zenon DEF Answered, TypeOK
<1> QED
  BY <1>1, <1>2

LEMMA EmitEventType ==
    ASSUME TypeOK, NEW c \in Contract, NEW e \in EventType,
           NEW s \in Nat, NEW k \in Nat, EmitEvent(c, e, s, k)
    PROVE  /\ events' \in [Contract -> [EventType -> Nat]]
           /\ scored' \in [Provider -> BOOLEAN]
<1>1. ProviderOf[c] \in Provider
  BY ConstantsAssumption
<1>2. events' \in [Contract -> [EventType -> Nat]]
  BY DEF EmitEvent, TypeOK
<1>3. scored' \in [Provider -> BOOLEAN]
  <2>1. CASE k >= s
    <3>1. scored' = [scored EXCEPT ![ProviderOf[c]] = (k > s)]
      BY <2>1 DEF EmitEvent
    <3>2. (k > s) \in BOOLEAN
      OBVIOUS
    <3> QED
      BY <1>1, <3>1, <3>2 DEF TypeOK
  <2>2. CASE ~(k >= s)
    BY <2>2 DEF EmitEvent, TypeOK
  <2> QED
    BY <2>1, <2>2
<1> QED
  BY <1>2, <1>3

LEMMA LogProofType ==
    ASSUME TypeOK, NEW c \in Contract, NEW valid \in BOOLEAN,
           LogProof(c, valid)
    PROVE  proofLog' \in [Contract -> Seq(LogRow)]
<1>1. row[c].submitted + 1 \in Nat
  BY DEF TypeOK, Row
<1>2. [valid |-> valid, period |-> row[c].submitted + 1] \in LogRow
  BY <1>1 DEF LogRow
<1> QED
  BY <1>2 DEF LogProof, TypeOK

\* What the proof verifier writes to a row of storage_contracts is a row.
LEMMA ProvedRow ==
    ASSUME NEW r \in Row, NEW t \in Nat
    PROVE  Proved(r, t) \in Row
<1>1. /\ [r EXCEPT !.submitted = r.submitted + 1] \in Row
      /\ \A x \in Row : [x EXCEPT !.failed = 0] \in Row
      /\ \A x \in Row : [x EXCEPT !.lastProof = t] \in Row
  BY DEF Row
<1>2. Proved(r, t) = [[[r EXCEPT !.submitted = r.submitted + 1]
                         EXCEPT !.failed = 0] EXCEPT !.lastProof = t]
  BY Zenon DEF Proved
<1> QED
  BY <1>1, <1>2, Zenon

LEMMA StruckRow ==
    ASSUME NEW r \in Row, NEW fails \in BOOLEAN
    PROVE  Struck(r, fails) \in Row
<1> DEFINE st == IF fails THEN "failed" ELSE r.status
<1>1. st \in Status
  BY DEF Row, Status
<1>2. /\ [r EXCEPT !.failed = r.failed + 1] \in Row
      /\ \A x \in Row, s \in Status : [x EXCEPT !.status = s] \in Row
  BY DEF Row
<1>3. Struck(r, fails) = [[r EXCEPT !.failed = r.failed + 1] EXCEPT !.status = st]
  BY Zenon DEF Struck
<1> HIDE DEF st
<1> QED
  BY <1>1, <1>2, <1>3, Zenon

LEMMA AcceptedRow ==
    ASSUME TypeOK, NEW c \in Contract, NEW k \in 1..4, AcceptProof(c, k)
    PROVE  row' \in [Contract -> Row]
<1>1. CASE k >= 2
  <2>1. Proved(row[c], now) \in Row
    BY ProvedRow DEF TypeOK
  <2>2. row' = [row EXCEPT ![c] = Proved(row[c], now)]
    BY <1>1, Zenon DEF AcceptProof
  <2> QED
    BY <2>1, <2>2 DEF TypeOK
<1>2. CASE ~(k >= 2)
  <2>1. row' = row
    BY <1>2, Zenon DEF AcceptProof
  <2> QED
    BY <2>1 DEF TypeOK
<1> QED
  BY <1>1, <1>2

LEMMA RejectedRow ==
    ASSUME TypeOK, NEW c \in Contract, NEW k \in 1..5, RejectProof(c, k)
    PROVE  row' \in [Contract -> Row]
<1> DEFINE fails == k >= 3 /\ row[c].failed + 1 >= FailureThreshold
<1>1. CASE k >= 2
  <2>1. Struck(row[c], fails) \in Row
    <3>1. row[c] \in Row /\ fails \in BOOLEAN
      BY DEF TypeOK
    <3> HIDE DEF fails
    <3> QED
      BY <3>1, StruckRow
  <2>2. row' = [row EXCEPT ![c] = Struck(row[c], fails)]
    BY <1>1, Zenon DEF RejectProof
  <2> HIDE DEF fails
  <2> QED
    BY <2>1, <2>2 DEF TypeOK
<1>2. CASE ~(k >= 2)
  <2>1. row' = row
    BY <1>2, Zenon DEF RejectProof
  <2> QED
    BY <2>1 DEF TypeOK
<1> QED
  BY <1>1, <1>2

LEMMA SettleType ==
    ASSUME TypeOK, NEW S, NEW R, NEW unscored, Settle(S, R, unscored)
    PROVE  /\ row' \in [Contract -> Row]
           /\ events' \in [Contract -> [EventType -> Nat]]
           /\ scored' \in [Provider -> BOOLEAN]
           /\ UNCHANGED <<deposits, proofLog, posted, now>>
<1>1. \A c \in Contract : Outcome(c) \in Status /\ OutcomeEvent(c) \in EventType
  BY DEF Outcome, OutcomeEvent, Status, EventType
<1>2. row' \in [Contract -> Row]
  BY <1>1 DEF Settle, Report, TypeOK, Row
<1>3. events' \in [Contract -> [EventType -> Nat]]
  BY <1>1 DEF Settle, Report, TypeOK
<1>4. scored' \in [Provider -> BOOLEAN]
  BY DEF Settle, Report, TypeOK
<1> QED
  BY <1>2, <1>3, <1>4 DEF Settle, Report

LEMMA NextType == TypeOK /\ [Next]_vars => TypeOK'
<1> SUFFICES ASSUME TypeOK, [Next]_vars
             PROVE  TypeOK'
  OBVIOUS
<1>1. ASSUME NEW c \in Contract, NEW d \in Durations, CreateContract(c, d)
      PROVE  TypeOK'
  BY <1>1, ConstantsAssumption
  DEF CreateContract, TypeOK, Row, NoRow, Status, NoProof
<1>2. ASSUME NEW c \in Contract, NEW k \in 1..2, RecordDeposit(c, k)
      PROVE  TypeOK'
  <2>1. row' \in [Contract -> Row]
    BY <1>2 DEF RecordDeposit, TypeOK, Row, Status
  <2>2. deposits' \in [Contract -> Nat]
    BY <1>2 DEF RecordDeposit, TypeOK
  <2>3. torn' \in [Contract -> Nat] /\ up' \in BOOLEAN
    BY <1>2, AnsweredType DEF RecordDeposit
  <2> QED
    BY <1>2, <2>1, <2>2, <2>3 DEF RecordDeposit, TypeOK
<1>3. ASSUME NEW c \in Contract, NEW k \in 1..4, AcceptProof(c, k)
      PROVE  TypeOK'
  <2>1. row' \in [Contract -> Row]
    BY <1>3, AcceptedRow
  <2>2. proofLog' \in [Contract -> Seq(LogRow)]
    BY <1>3, LogProofType DEF AcceptProof
  <2>3. torn' \in [Contract -> Nat] /\ up' \in BOOLEAN
    BY <1>3, AnsweredType DEF AcceptProof
  <2>4. /\ events' \in [Contract -> [EventType -> Nat]]
        /\ scored' \in [Provider -> BOOLEAN]
    BY <1>3, EmitEventType DEF AcceptProof, EventType
  <2> QED
    BY <1>3, <2>1, <2>2, <2>3, <2>4 DEF AcceptProof, TypeOK
<1>4. ASSUME NEW c \in Contract, NEW k \in 1..5, RejectProof(c, k)
      PROVE  TypeOK'
  <2>1. row' \in [Contract -> Row]
    BY <1>4, RejectedRow
  <2>2. proofLog' \in [Contract -> Seq(LogRow)]
    BY <1>4, LogProofType DEF RejectProof
  <2>3. torn' \in [Contract -> Nat] /\ up' \in BOOLEAN
    BY <1>4, AnsweredType DEF RejectProof
  <2>4. /\ events' \in [Contract -> [EventType -> Nat]]
        /\ scored' \in [Provider -> BOOLEAN]
    BY <1>4, EmitEventType DEF RejectProof, EventType
  <2> QED
    BY <1>4, <2>1, <2>2, <2>3, <2>4 DEF RejectProof, TypeOK
<1>5. ASSUME Tick
      PROVE  TypeOK'
  BY <1>5, SettleType DEF Tick, TypeOK
<1>6. ASSUME NEW done \in SUBSET Contract, NEW c \in Contract, NEW k \in 1..2,
             TornTick(done, c, k)
      PROVE  TypeOK'
  <2>1. /\ row' \in [Contract -> Row]
        /\ events' \in [Contract -> [EventType -> Nat]]
        /\ scored' \in [Provider -> BOOLEAN]
        /\ UNCHANGED <<deposits, proofLog, posted, now>>
    BY <1>6, SettleType DEF TornTick
  <2>2. torn' \in [Contract -> Nat]
    BY <1>6 DEF TornTick, TypeOK
  <2>3. up' \in BOOLEAN
    BY <1>6, Zenon DEF TornTick
  <2> QED
    BY <2>1, <2>2, <2>3 DEF TypeOK
<1>10. ASSUME NEW done \in SUBSET Contract, PartialTick(done)
      PROVE  TypeOK'
  <2>1. up' \in BOOLEAN
    BY <1>10, Zenon DEF PartialTick
  <2> QED
    BY <1>10, <2>1, SettleType DEF PartialTick, TypeOK
<1>7. ASSUME NEW p \in Provider, PostEvent(p) \/ Reregister(p) \/ RecalculateScore(p)
      PROVE  TypeOK'
  <2>1. posted' \in [Provider -> Nat]
    <3>1. posted' = posted \/ posted' = [posted EXCEPT ![p] = @ + 1]
      BY <1>7, Zenon DEF PostEvent, Reregister, RecalculateScore
    <3> QED
      BY <3>1 DEF TypeOK
  <2>2. scored' \in [Provider -> BOOLEAN]
    BY <1>7, Zenon DEF PostEvent, Reregister, RecalculateScore, TypeOK
  <2>3. UNCHANGED <<row, deposits, proofLog, events, torn, up, now>>
    BY <1>7 DEF PostEvent, Reregister, RecalculateScore
  <2> QED
    BY <2>1, <2>2, <2>3 DEF TypeOK
<1>8. ASSUME Kill \/ Restart \/ Elapse
      PROVE  TypeOK'
  <2>1. up' \in BOOLEAN
    BY <1>8, Zenon DEF Kill, Restart, Elapse, TypeOK
  <2>2. now' \in Nat \ {0}
    BY <1>8 DEF Kill, Restart, Elapse, TypeOK
  <2>3. UNCHANGED <<row, deposits, proofLog, events, posted, scored, torn>>
    BY <1>8 DEF Kill, Restart, Elapse
  <2> QED
    BY <2>1, <2>2, <2>3 DEF TypeOK
<1>9. ASSUME UNCHANGED vars
      PROVE  TypeOK'
  BY <1>9 DEF vars, TypeOK
<1> QED
  BY <1>1, <1>2, <1>3, <1>4, <1>5, <1>6, <1>7, <1>8, <1>9, <1>10 DEF Next

\* Every reachable state of the contracts has the types TypeOK gives.
THEOREM TypeCorrect == Spec => []TypeOK
BY InitType, NextType, PTL DEF Spec

-----------------------------------------------------------------------------
(* Settlements: SettledOncePerDeposit is inductive together with TypeOK. *)

\* The accounting of contract c, the conjunct of SettledOncePerDeposit.
Settlements(c) == events[c]["contract_completed"] + events[c]["contract_violated"]
Open(c) == IF row[c].status = "active" THEN 1 ELSE 0
Paid(c) == Settlements(c) + Open(c) <= deposits[c] + torn[c]

\* A step that settles nothing and activates nothing leaves contract c paid for.
LEMMA PaidFrame ==
    ASSUME TypeOK, TypeOK', NEW c \in Contract, Paid(c),
           events'[c]["contract_completed"] = events[c]["contract_completed"],
           events'[c]["contract_violated"] = events[c]["contract_violated"],
           row'[c].status = "active" => row[c].status = "active",
           deposits'[c] = deposits[c],
           torn'[c] >= torn[c]
    PROVE  Paid(c)'
<1>1. /\ deposits[c] \in Nat /\ torn[c] \in Nat /\ torn'[c] \in Nat
      /\ Settlements(c) \in Nat
  BY DEF TypeOK, EventType, Settlements
<1>2. Settlements(c)' = Settlements(c)
  BY DEF Settlements
<1>3. Open(c) \in {0, 1} /\ Open(c)' \in {0, 1} /\ Open(c)' <= Open(c)
  BY DEF Open
<1> QED
  BY <1>1, <1>2, <1>3 DEF Paid

\* Settling the active contracts S, with an event for those in R, pays for the
\* event with the activation it ends.
LEMMA PaidSettle ==
    ASSUME TypeOK, TypeOK', NEW S \in SUBSET Active, NEW R \in SUBSET S, NEW u,
           Settle(S, R, u), NEW c \in Contract, Paid(c), torn'[c] >= torn[c]
    PROVE  Paid(c)'
<1>1. CASE c \in S
  <2>1. row[c].status = "active" /\ row'[c].status = Outcome(c)
    BY <1>1 DEF Active, Settle, Report, TypeOK, Row
  <2>2. Open(c) = 1 /\ Open(c)' = 0
    BY <2>1 DEF Open, Outcome
  <2>3. events[c] \in [EventType -> Nat] /\ OutcomeEvent(c) \in
          {"contract_completed", "contract_violated"}
    BY DEF TypeOK, OutcomeEvent
  <2>4. events'[c] = events[c]
        \/ events'[c] = [events[c] EXCEPT ![OutcomeEvent(c)] = @ + 1]
    BY DEF Settle, Report
  <2>5. Settlements(c) \in Nat /\ Settlements(c)' \in Nat
        /\ Settlements(c)' <= Settlements(c) + 1
    BY <2>3, <2>4 DEF Settlements, EventType
  <2>6. deposits'[c] = deposits[c] /\ deposits[c] \in Nat
        /\ torn[c] \in Nat /\ torn'[c] \in Nat
    BY DEF Settle, Report, TypeOK
  <2> QED
    BY <2>2, <2>5, <2>6 DEF Paid
<1>2. CASE c \notin S
  <2>1. row'[c] = row[c] /\ events'[c] = events[c] /\ deposits' = deposits
    BY <1>2 DEF Settle, Report
  <2> QED
    BY <2>1, PaidFrame
<1> QED
  BY <1>1, <1>2

\* A cut handler only adds to torn.
LEMMA AnsweredTorn ==
    ASSUME TypeOK, NEW c \in Contract, NEW k \in Nat, NEW n \in Nat,
           Answered(c, k, n), NEW x \in Contract
    PROVE  torn'[x] >= torn[x]
<1>1. torn' = torn \/ torn' = [torn EXCEPT ![c] = @ + 1]
  BY Zenon DEF Answered
<1>2. torn \in [Contract -> Nat]
  BY DEF TypeOK
<1>3. torn[x] \in Nat /\ torn[c] \in Nat
  BY <1>2
<1>4. torn'[x] = torn[x] \/ torn'[x] = torn[x] + 1
  BY <1>1, <1>2
<1> QED
  BY <1>3, <1>4

\* The proof events are no settlements.
LEMMA EmitEventSettlesNothing ==
    ASSUME TypeOK, NEW c \in Contract, NEW e \in {"proof_success", "proof_failure"},
           NEW s \in Nat, NEW k \in Nat, EmitEvent(c, e, s, k), NEW x \in Contract
    PROVE  /\ events'[x]["contract_completed"] = events[x]["contract_completed"]
           /\ events'[x]["contract_violated"] = events[x]["contract_violated"]
<1>1. events' = events \/ events' = [events EXCEPT ![c][e] = @ + 1]
  BY Zenon DEF EmitEvent
<1>2. events \in [Contract -> [EventType -> Nat]]
  BY DEF TypeOK
<1>3. CASE events' = [events EXCEPT ![c][e] = @ + 1]
  BY <1>2, <1>3 DEF EventType
<1> QED
  BY <1>1, <1>3

\* A proof, accepted or rejected, activates no contract.
LEMMA ProofActivatesNothing ==
    ASSUME TypeOK, NEW c \in Contract, NEW x \in Contract,
           \/ \E k \in 1..4 : AcceptProof(c, k)
           \/ \E k \in 1..5 : RejectProof(c, k)
    PROVE  row'[x].status = "active" => row[x].status = "active"
<1>1. row[c].status = "active"
  BY Zenon DEF AcceptProof, RejectProof, LogProof
<1>2. row' = row \/ \E r : row' = [row EXCEPT ![c] = r]
  BY Zenon DEF AcceptProof, RejectProof
<1> QED
  BY <1>1, <1>2 DEF TypeOK

LEMMA SettledNext ==
    TypeOK /\ SettledOncePerDeposit /\ [Next]_vars => SettledOncePerDeposit'
<1> SUFFICES ASSUME TypeOK, SettledOncePerDeposit, [Next]_vars, NEW x \in Contract
             PROVE  Paid(x)'
  BY DEF SettledOncePerDeposit, Paid, Settlements, Open
<1>1. TypeOK'
  BY NextType
<1>2. Paid(x)
  BY DEF SettledOncePerDeposit, Paid, Settlements, Open
<1>3. ASSUME NEW c \in Contract, NEW d \in Durations, CreateContract(c, d)
      PROVE  Paid(x)'
  <2>1. row'[x].status = "active" => row[x].status = "active"
    BY <1>3 DEF CreateContract, TypeOK, NoRow
  <2> QED
    BY <1>1, <1>2, <1>3, <2>1, PaidFrame DEF CreateContract, TypeOK
<1>4. ASSUME NEW c \in Contract, NEW k \in 1..2, RecordDeposit(c, k)
      PROVE  Paid(x)'
  <2>1. CASE x # c
    <3>1. row'[x] = row[x] /\ events' = events
      <4>1. row' = [row EXCEPT ![c].status = "active"] /\ events' = events
        BY <1>4, Zenon DEF RecordDeposit
      <4> QED
        BY <2>1, <4>1 DEF TypeOK
    <3>2. torn'[x] >= torn[x]
      <4>1. Answered(c, k, 2)
        BY <1>4, Zenon DEF RecordDeposit
      <4> QED
        BY <4>1, AnsweredTorn
    <3>3. deposits'[x] = deposits[x]
      <4>1. deposits' = deposits \/ deposits' = [deposits EXCEPT ![c] = @ + 1]
        BY <1>4, Zenon DEF RecordDeposit
      <4> QED
        BY <2>1, <4>1 DEF TypeOK
    <3> QED
      BY <1>1, <1>2, <3>1, <3>2, <3>3, PaidFrame
  <2>2. CASE x = c
    <3>1. deposits'[c] + torn'[c] = deposits[c] + torn[c] + 1
      <4>1. deposits[c] \in Nat /\ torn[c] \in Nat
        BY DEF TypeOK
      <4>2. CASE k = 2
        BY <1>4, <4>1, <4>2 DEF RecordDeposit, Answered, TypeOK
      <4>3. CASE k # 2
        <5>1. deposits' = deposits /\ torn' = [torn EXCEPT ![c] = @ + 1]
          BY <1>4, <4>3, Zenon DEF RecordDeposit, Answered
        <5> QED
          BY <4>1, <5>1 DEF TypeOK
      <4> QED
        BY <4>2, <4>3
    <3>2. Settlements(c)' = Settlements(c)
      BY <1>4 DEF RecordDeposit, Settlements
    <3>3. /\ Settlements(c) \in Nat /\ deposits[c] \in Nat /\ torn[c] \in Nat
          /\ Open(c) \in {0, 1} /\ Open(c)' \in {0, 1}
      BY DEF TypeOK, Settlements, EventType, Open
    <3> QED
      BY <1>2, <2>2, <3>1, <3>2, <3>3 DEF Paid
  <2> QED
    BY <2>1, <2>2
<1>5. ASSUME NEW c \in Contract, NEW k \in 1..4, AcceptProof(c, k)
      PROVE  Paid(x)'
  <2>1. row'[x].status = "active" => row[x].status = "active"
    BY <1>5, ProofActivatesNothing
  <2>2. torn'[x] >= torn[x]
    BY <1>5, AnsweredTorn DEF AcceptProof
  <2>3. /\ events'[x]["contract_completed"] = events[x]["contract_completed"]
        /\ events'[x]["contract_violated"] = events[x]["contract_violated"]
    BY <1>5, EmitEventSettlesNothing DEF AcceptProof
  <2>4. deposits' = deposits
    BY <1>5 DEF AcceptProof
  <2> QED
    BY <1>1, <1>2, <2>1, <2>2, <2>3, <2>4, PaidFrame
<1>6. ASSUME NEW c \in Contract, NEW k \in 1..5, RejectProof(c, k)
      PROVE  Paid(x)'
  <2>1. row'[x].status = "active" => row[x].status = "active"
    BY <1>6, ProofActivatesNothing
  <2>2. torn'[x] >= torn[x]
    BY <1>6, AnsweredTorn DEF RejectProof
  <2>3. /\ events'[x]["contract_completed"] = events[x]["contract_completed"]
        /\ events'[x]["contract_violated"] = events[x]["contract_violated"]
    BY <1>6, EmitEventSettlesNothing DEF RejectProof
  <2>4. deposits' = deposits
    BY <1>6 DEF RejectProof
  <2> QED
    BY <1>1, <1>2, <2>1, <2>2, <2>3, <2>4, PaidFrame
<1>7. ASSUME Tick
      PROVE  Paid(x)'
  <2>1. Expired \cup Stale \in SUBSET Active
    BY DEF Expired, Stale
  <2>2. torn'[x] >= torn[x]
    BY <1>7 DEF Tick, TypeOK
  <2> QED
    BY <1>1, <1>2, <1>7, <2>1, <2>2, PaidSettle DEF Tick
<1>8. ASSUME NEW done \in SUBSET Contract, NEW c \in Contract, NEW k \in 1..2,
             TornTick(done, c, k)
      PROVE  Paid(x)'
  <2> DEFINE S == done \cup {c}
             R == IF k = 2 THEN done \cup {c} ELSE done
             u == IF k = 2 THEN {ProviderOf[c]} ELSE {}
  <2>1. S \in SUBSET Active /\ R \in SUBSET S
    BY <1>8 DEF TornTick, Expired, Stale
  <2>2. torn'[x] >= torn[x]
    BY <1>8 DEF TornTick, TypeOK
  <2>3. Settle(S, R, u)
    BY <1>8 DEF TornTick
  <2> HIDE DEF S, R, u
  <2> QED
    BY <1>1, <1>2, <2>1, <2>2, <2>3, PaidSettle
<1>10. ASSUME NEW done \in SUBSET Contract, PartialTick(done)
      PROVE  Paid(x)'
  <2>1. done \in SUBSET Active
    BY <1>10 DEF PartialTick, Expired, Stale
  <2>2. torn'[x] >= torn[x]
    BY <1>10 DEF PartialTick, TypeOK
  <2> QED
    BY <1>1, <1>2, <1>10, <2>1, <2>2, PaidSettle DEF PartialTick
<1>9. ASSUME \/ \E p \in Provider : PostEvent(p) \/ Reregister(p) \/ RecalculateScore(p)
             \/ Kill \/ Restart \/ Elapse
             \/ UNCHANGED vars
      PROVE  Paid(x)'
  <2>1. UNCHANGED <<row, deposits, events, torn>>
    BY <1>9 DEF PostEvent, Reregister, RecalculateScore, Kill, Restart, Elapse, vars
  <2> QED
    BY <1>2, <2>1 DEF Paid, Settlements, Open
<1> QED
  BY <1>3, <1>4, <1>5, <1>6, <1>7, <1>8, <1>9, <1>10 DEF Next

\* The timer settles an activation at most once: every settlement event, and
\* every active contract, has a deposit of its own or a handler cut short.
THEOREM SettlementsPaidFor == Spec => []SettledOncePerDeposit
<1>1. ASSUME Init, NEW c \in Contract
      PROVE  Paid(c)
  <2>1. row[c].status = "none" /\ deposits[c] = 0 /\ torn[c] = 0
    BY <1>1 DEF Init, NoRow
  <2>2. /\ events[c]["contract_completed"] = 0
        /\ events[c]["contract_violated"] = 0
    BY <1>1 DEF Init, EventType
  <2> QED
    BY <2>1, <2>2 DEF Paid, Settlements, Open
<1>2. Init => SettledOncePerDeposit
  BY <1>1 DEF SettledOncePerDeposit, Paid, Settlements, Open
<1> QED
  BY <1>2, TypeCorrect, SettledNext, PTL DEF Spec

-----------------------------------------------------------------------------
(* Violations.  ViolatedOnlyAfterProof is not inductive alone: the timer    *)
(* looks at last_proof_at and not at proofs_submitted.                      *)

\* A contract that has a last proof has been proved, and so has one that was
\* reported for a violation; one that does not exist was never reported.
Proven(c) ==
    /\ row[c].lastProof # NoProof => row[c].submitted > 0
    /\ events[c]["contract_violated"] > 0 => row[c].submitted > 0
    /\ row[c].status = "none" => events[c]["contract_violated"] = 0
ProofsPrecede == \A c \in Contract : Proven(c)

\* A step that leaves the proofs and the violations of a contract alone.
LEMMA ProvenFrame ==
    ASSUME NEW c \in Contract, Proven(c),
           row'[c].lastProof = row[c].lastProof,
           row'[c].submitted = row[c].submitted,
           row'[c].status = "none" => row[c].status = "none",
           events'[c]["contract_violated"] = events[c]["contract_violated"]
    PROVE  Proven(c)'
BY DEF Proven

\* The timer reports for a violation what is stale, and only what has a last
\* proof is stale.
LEMMA ProvenSettle ==
    ASSUME TypeOK, NEW S \in SUBSET (Expired \cup Stale), NEW R \in SUBSET S, NEW u,
           Settle(S, R, u), NEW c \in Contract, Proven(c)
    PROVE  Proven(c)'
<1>1. /\ row'[c].lastProof = row[c].lastProof
      /\ row'[c].submitted = row[c].submitted
  BY DEF Settle, Report, TypeOK, Row
<1>2. row'[c].status = "none" => row[c].status = "none" /\ c \notin S
  BY DEF Settle, Report, TypeOK, Row, Outcome
<1>3. CASE c \in R \ Expired
  <2>1. row[c].lastProof # NoProof
    BY <1>3 DEF Stale
  <2>2. row'[c].submitted > 0
    BY <1>1, <2>1 DEF Proven
  <2>3. row'[c].status # "none"
    BY <1>2, <1>3
  <2> QED
    BY <2>2, <2>3 DEF Proven
<1>4. CASE c \notin R \ Expired
  <2>1. events'[c] = events[c]
        \/ events'[c] = [events[c] EXCEPT !["contract_completed"] = @ + 1]
    BY <1>4 DEF Settle, Report, OutcomeEvent
  <2>2. events[c] \in [EventType -> Nat]
    BY DEF TypeOK
  <2>3. events'[c]["contract_violated"] = events[c]["contract_violated"]
    BY <2>1, <2>2 DEF EventType
  <2> QED
    BY <1>1, <1>2, <2>3, ProvenFrame
<1> QED
  BY <1>3, <1>4

\* An accepted proof sets the last proof and the count together.
LEMMA ProvenAccept ==
    ASSUME TypeOK, NEW c \in Contract, NEW k \in 1..4, AcceptProof(c, k),
           NEW x \in Contract, Proven(x)
    PROVE  Proven(x)'
<1>1. events'[x]["contract_violated"] = events[x]["contract_violated"]
  BY EmitEventSettlesNothing DEF AcceptProof
<1>2. row \in [Contract -> Row] /\ row[c].status = "active"
  BY Zenon DEF AcceptProof, LogProof, TypeOK
<1>3. CASE row' = [row EXCEPT ![c] = Proved(row[c], now)]
  <2>1. CASE x = c
    <3>1. row'[c] = Proved(row[c], now) /\ row[c] \in Row
      BY <1>2, <1>3
    <3>2. row'[c].submitted = row[c].submitted + 1 /\ row[c].submitted \in Nat
          /\ row'[c].status = row[c].status
      BY <3>1 DEF Proved, Row
    <3> QED
      BY <1>1, <1>2, <2>1, <3>2 DEF Proven
  <2>2. CASE x # c
    BY <1>1, <1>2, <1>3, <2>2, ProvenFrame
  <2> QED
    BY <2>1, <2>2
<1>4. CASE row' = row
  BY <1>1, <1>4, ProvenFrame
<1> QED
  BY <1>3, <1>4, Zenon DEF AcceptProof

\* A rejected proof touches neither.
LEMMA ProvenReject ==
    ASSUME TypeOK, NEW c \in Contract, NEW k \in 1..5, RejectProof(c, k),
           NEW x \in Contract, Proven(x)
    PROVE  Proven(x)'
<1>1. events'[x]["contract_violated"] = events[x]["contract_violated"]
  BY EmitEventSettlesNothing DEF RejectProof
<1>2. row \in [Contract -> Row]
  BY DEF TypeOK
<1>3. ASSUME NEW fails, row' = [row EXCEPT ![c] = Struck(row[c], fails)]
      PROVE  Proven(x)'
  <2>1. CASE x = c
    <3>1. row'[c] = Struck(row[c], fails) /\ row[c] \in Row
      BY <1>2, <1>3
    <3>2. /\ row'[c].submitted = row[c].submitted
          /\ row'[c].lastProof = row[c].lastProof
          /\ row'[c].status = row[c].status \/ row'[c].status = "failed"
      BY <3>1 DEF Struck, Row
    <3> QED
      BY <1>1, <2>1, <3>2, ProvenFrame
  <2>2. CASE x # c
    BY <1>1, <1>2, <1>3, <2>2, ProvenFrame
  <2> QED
    BY <2>1, <2>2
<1>4. CASE row' = row
  BY <1>1, <1>4, ProvenFrame
<1> QED
  BY <1>3, <1>4, Zenon DEF RejectProof

LEMMA ProvenNext == TypeOK /\ ProofsPrecede /\ [Next]_vars => ProofsPrecede'
<1> SUFFICES ASSUME TypeOK, ProofsPrecede, [Next]_vars, NEW x \in Contract
             PROVE  Proven(x)'
  BY DEF ProofsPrecede
<1>1. Proven(x)
  BY DEF ProofsPrecede
<1>2. ASSUME NEW c \in Contract, NEW d \in Durations, CreateContract(c, d)
      PROVE  Proven(x)'
  <2>1. events' = events
    BY <1>2 DEF CreateContract
  <2>2. CASE x = c
    <3>1. events[c]["contract_violated"] = 0
      BY <1>1, <1>2, <2>2 DEF CreateContract, Proven
    <3>2. row'[c].lastProof = NoProof
      BY <1>2 DEF CreateContract, TypeOK, NoRow
    <3> QED
      BY <2>1, <2>2, <3>1, <3>2 DEF Proven
  <2>3. CASE x # c
    <3>1. row'[x] = row[x]
      BY <1>2, <2>3 DEF CreateContract, TypeOK
    <3> QED
      BY <1>1, <2>1, <3>1, ProvenFrame
  <2> QED
    BY <2>2, <2>3
<1>3. ASSUME NEW c \in Contract, NEW k \in 1..2, RecordDeposit(c, k)
      PROVE  Proven(x)'
  <2>1. row' = [row EXCEPT ![c].status = "active"] /\ events' = events
    BY <1>3, Zenon DEF RecordDeposit
  <2>2. /\ row'[x].lastProof = row[x].lastProof
        /\ row'[x].submitted = row[x].submitted
        /\ row'[x].status = row[x].status \/ row'[x].status = "active"
    BY <2>1 DEF TypeOK, Row
  <2> QED
    BY <1>1, <2>1, <2>2, ProvenFrame
<1>4. ASSUME NEW c \in Contract, NEW k \in 1..4, AcceptProof(c, k)
      PROVE  Proven(x)'
  BY <1>1, <1>4, ProvenAccept
<1>5. ASSUME NEW c \in Contract, NEW k \in 1..5, RejectProof(c, k)
      PROVE  Proven(x)'
  BY <1>1, <1>5, ProvenReject
<1>6. ASSUME Tick
      PROVE  Proven(x)'
  BY <1>1, <1>6, ProvenSettle DEF Tick
<1>7. ASSUME NEW done \in SUBSET Contract, NEW c \in Contract, NEW k \in 1..2,
             TornTick(done, c, k)
      PROVE  Proven(x)'
  <2> DEFINE S == done \cup {c}
             R == IF k = 2 THEN done \cup {c} ELSE done
             u == IF k = 2 THEN {ProviderOf[c]} ELSE {}
  <2>1. S \in SUBSET (Expired \cup Stale) /\ R \in SUBSET S
    BY <1>7 DEF TornTick
  <2>2. Settle(S, R, u)
    BY <1>7 DEF TornTick
  <2> HIDE DEF S, R, u
  <2> QED
    BY <1>1, <2>1, <2>2, ProvenSettle
<1>9. ASSUME NEW done \in SUBSET Contract, PartialTick(done)
      PROVE  Proven(x)'
  BY <1>1, <1>9, ProvenSettle DEF PartialTick
<1>8. ASSUME \/ \E p \in Provider : PostEvent(p) \/ Reregister(p) \/ RecalculateScore(p)
             \/ Kill \/ Restart \/ Elapse
             \/ UNCHANGED vars
      PROVE  Proven(x)'
  <2>1. UNCHANGED <<row, events>>
    BY <1>8 DEF PostEvent, Reregister, RecalculateScore, Kill, Restart, Elapse, vars
  <2> QED
    BY <1>1, <2>1 DEF Proven
<1> QED
  BY <1>2, <1>3, <1>4, <1>5, <1>6, <1>7, <1>8, <1>9 DEF Next

\* No provider is ever reported for a violation of a contract it has not
\* proved at least once.
THEOREM ViolationsAfterProof == Spec => []ViolatedOnlyAfterProof
<1>1. Init => ProofsPrecede
  <2> SUFFICES ASSUME Init, NEW c \in Contract
               PROVE  Proven(c)
    BY DEF ProofsPrecede
  <2>1. row[c].lastProof = NoProof
    BY DEF Init, NoRow
  <2>2. events[c]["contract_violated"] = 0
    BY DEF Init, EventType
  <2> QED
    BY <2>1, <2>2 DEF Proven
<1>2. ProofsPrecede => ViolatedOnlyAfterProof
  BY DEF ProofsPrecede, Proven, ViolatedOnlyAfterProof
<1> QED
  BY <1>1, <1>2, TypeCorrect, ProvenNext, PTL DEF Spec

-----------------------------------------------------------------------------
(* What the counters m (proofs_submitted) and f (proofs_failed) say of a    *)
(* proof log s.                                                             *)

AllLogged(s, m) ==
    \A n \in 1..m : \E i \in DOMAIN s : s[i].valid /\ s[i].period = n

\* PeriodsIncrease, and that no valid row is ahead of the counter.
Ascending(s, m) ==
    /\ \A i \in DOMAIN s : s[i].valid => s[i].period <= m
    /\ \A i, j \in DOMAIN s :
         i < j /\ s[i].valid /\ s[j].valid => s[i].period < s[j].period

RunOfRejected(s, f) ==
    /\ Len(s) - f >= 0
    /\ \A i \in DOMAIN s : i > Len(s) - f => ~s[i].valid
    /\ Len(s) - f > 0 => s[Len(s) - f].valid

LEMMA LogFacts ==
    ASSUME NEW s \in Seq(LogRow)
    PROVE  /\ Len(s) \in Nat /\ DOMAIN s = 1..Len(s)
           /\ \A i \in 1..Len(s) : s[i].valid \in BOOLEAN /\ s[i].period \in Nat
<1>1. Len(s) \in Nat /\ DOMAIN s = 1..Len(s) /\ \A i \in 1..Len(s) : s[i] \in LogRow
  OBVIOUS
<1> QED
  BY <1>1 DEF LogRow

\* A row at the end of a log.
LEMMA LogAppend ==
    ASSUME NEW s \in Seq(LogRow), NEW e \in LogRow
    PROVE  /\ Append(s, e) \in Seq(LogRow)
           /\ Len(Append(s, e)) = Len(s) + 1
           /\ DOMAIN Append(s, e) = 1..(Len(s) + 1)
           /\ Append(s, e)[Len(s) + 1] = e
           /\ \A i \in 1..Len(s) : Append(s, e)[i] = s[i]
OBVIOUS

\* Whatever is logged, what was on record stays on record.
LEMMA LoggedStays ==
    ASSUME NEW s \in Seq(LogRow), NEW e \in LogRow, NEW m \in Nat, AllLogged(s, m)
    PROVE  AllLogged(Append(s, e), m)
<1> SUFFICES ASSUME NEW n \in 1..m
             PROVE  \E i \in DOMAIN Append(s, e) : /\ Append(s, e)[i].valid
                                                   /\ Append(s, e)[i].period = n
  BY DEF AllLogged
<1>1. PICK i \in 1..Len(s) : s[i].valid /\ s[i].period = n
  BY LogFacts DEF AllLogged
<1>2. i \in 1..(Len(s) + 1)
  BY <1>1, LogFacts
<1> QED
  BY <1>1, <1>2, LogAppend

\* An accepted proof is logged under the next period.
LEMMA AcceptedLog ==
    ASSUME NEW s \in Seq(LogRow), NEW e \in LogRow, NEW m \in Nat,
           e.valid, e.period = m + 1
    PROVE  /\ AllLogged(s, m) => AllLogged(Append(s, e), m + 1)
           /\ Ascending(s, m) => Ascending(Append(s, e), m + 1)
           /\ RunOfRejected(Append(s, e), 0)
<1> DEFINE t == Append(s, e)
           L == Len(s)
<1>1. /\ Len(t) = L + 1 /\ DOMAIN t = 1..(L + 1) /\ t[L + 1] = e
      /\ \A i \in 1..L : t[i] = s[i]
  BY LogAppend
<1>2. /\ L \in Nat /\ DOMAIN s = 1..L
      /\ \A i \in 1..L : s[i].valid \in BOOLEAN /\ s[i].period \in Nat
  BY LogFacts
<1>3. AllLogged(s, m) => AllLogged(t, m + 1)
  <2> SUFFICES ASSUME AllLogged(s, m), NEW n \in 1..(m + 1)
               PROVE  \E i \in DOMAIN t : t[i].valid /\ t[i].period = n
    BY DEF AllLogged
  <2>1. CASE n = m + 1
    BY <1>1, <1>2, <2>1
  <2>2. CASE n \in 1..m
    BY <2>2, LoggedStays DEF AllLogged
  <2> QED
    BY <2>1, <2>2
<1> HIDE DEF t, L
<1>4. Ascending(s, m) => Ascending(t, m + 1)
  <2> SUFFICES ASSUME Ascending(s, m)
               PROVE  Ascending(t, m + 1)
    OBVIOUS
  <2>1. \A i \in 1..L : t[i].valid => t[i].period <= m
    BY <1>1, <1>2 DEF Ascending
  <2>2. \A i, j \in 1..L :
          i < j /\ t[i].valid /\ t[j].valid => t[i].period < t[j].period
    BY <1>1, <1>2 DEF Ascending
  <2>3. \A i \in 1..(L + 1) : i \in 1..L \/ i = L + 1
    BY <1>2
  <2>4. \A i \in 1..L : t[i].period \in Nat
    BY <1>1, <1>2
  <2>5. \A i \in 1..(L + 1) : t[i].valid => t[i].period <= m + 1
    BY <1>1, <2>1, <2>3, <2>4
  <2>6. ASSUME NEW i \in 1..(L + 1), NEW j \in 1..(L + 1),
               i < j, t[i].valid, t[j].valid
        PROVE  t[i].period < t[j].period
    <3>1. i \in 1..L
      BY <1>2, <2>6
    <3>2. CASE j \in 1..L
      BY <2>2, <2>6, <3>1, <3>2
    <3>3. CASE j = L + 1
      BY <1>1, <2>1, <2>4, <2>6, <3>1, <3>3
    <3> QED
      BY <2>3, <3>2, <3>3
  <2> QED
    BY <1>1, <2>5, <2>6 DEF Ascending
<1>5. RunOfRejected(t, 0)
  BY <1>1, <1>2 DEF RunOfRejected
<1> QED
  BY <1>3, <1>4, <1>5 DEF t

\* A rejected one prolongs the run at the end.
LEMMA RejectedLog ==
    ASSUME NEW s \in Seq(LogRow), NEW e \in LogRow, NEW m \in Nat, NEW f \in Nat,
           ~e.valid
    PROVE  /\ Ascending(s, m) => Ascending(Append(s, e), m)
           /\ RunOfRejected(s, f) => RunOfRejected(Append(s, e), f + 1)
<1> DEFINE t == Append(s, e)
           L == Len(s)
<1>1. /\ Len(t) = L + 1 /\ DOMAIN t = 1..(L + 1) /\ t[L + 1] = e
      /\ \A i \in 1..L : t[i] = s[i]
  BY LogAppend
<1>2. /\ L \in Nat /\ DOMAIN s = 1..L
      /\ \A i \in 1..L : s[i].valid \in BOOLEAN /\ s[i].period \in Nat
  BY LogFacts
<1>3. \A i \in 1..(L + 1) : i \in 1..L \/ i = L + 1
  BY <1>2
<1>4. Ascending(s, m) => Ascending(t, m)
  <2> HIDE DEF t, L
  <2> QED
    BY <1>1, <1>2, <1>3 DEF Ascending
<1>5. RunOfRejected(s, f) => RunOfRejected(t, f + 1)
  <2> HIDE DEF t
  <2> SUFFICES ASSUME RunOfRejected(s, f)
               PROVE  RunOfRejected(t, f + 1)
    OBVIOUS
  <2>1. L - f >= 0 /\ Len(t) - (f + 1) = L - f
    BY <1>1, <1>2 DEF RunOfRejected
  <2>2. \A i \in 1..(L + 1) : i > L - f => ~t[i].valid
    BY <1>1, <1>2, <1>3 DEF RunOfRejected
  <2>3. L - f > 0 => L - f \in 1..L /\ s[L - f].valid
    BY <1>2 DEF RunOfRejected
  <2>4. L - f > 0 => t[L - f].valid
    BY <1>1, <2>3
  <2> QED
    BY <1>1, <2>1, <2>2, <2>4 DEF RunOfRejected
<1> QED
  BY <1>4, <1>5

-----------------------------------------------------------------------------
(* The books of one contract *)

Successes(c) == events[c]["proof_success"]
Violated(c)  == events[c]["contract_violated"]

Accounted(c) ==
    /\ Successes(c) <= row[c].submitted
    /\ row[c].submitted <= Successes(c) + torn[c]
    /\ AllLogged(proofLog[c], row[c].submitted)

Intact(c) ==
    torn[c] = 0 => /\ Ascending(proofLog[c], row[c].submitted)
                   /\ RunOfRejected(proofLog[c], row[c].failed)

Caused(c) ==
    torn[c] = 0 /\ row[c].status = "failed" =>
        row[c].failed >= FailureThreshold \/ Violated(c) > 0

Books(c) == Accounted(c) /\ Intact(c) /\ Caused(c)

LEMMA RowType ==
    ASSUME TypeOK, NEW c \in Contract
    PROVE  /\ row[c] \in Row /\ row[c].submitted \in Nat /\ row[c].failed \in Nat
           /\ deposits[c] \in Nat /\ torn[c] \in Nat
           /\ Successes(c) \in Nat /\ Violated(c) \in Nat
           /\ proofLog[c] \in Seq(LogRow)
<1>1. row[c] \in Row /\ torn[c] \in Nat /\ deposits[c] \in Nat
      /\ proofLog[c] \in Seq(LogRow) /\ events[c] \in [EventType -> Nat]
  BY DEF TypeOK
<1> QED
  BY <1>1 DEF Row, Successes, Violated, EventType

\* A step that neither logs nor counts a proof, and that fails the contract
\* only with an event, keeps the books.
LEMMA BooksFrame ==
    ASSUME TypeOK, TypeOK', NEW c \in Contract, Books(c),
           row'[c].submitted = row[c].submitted, row'[c].failed = row[c].failed,
           proofLog'[c] = proofLog[c],
           Successes(c)' = Successes(c), Violated(c)' >= Violated(c),
           torn'[c] >= torn[c],
           torn'[c] = 0 /\ row'[c].status = "failed" =>
               row[c].status = "failed" \/ Violated(c)' > 0
    PROVE  Books(c)'
<1>1. /\ torn[c] \in Nat /\ row[c].submitted \in Nat
      /\ Successes(c) \in Nat /\ Violated(c) \in Nat
  BY RowType
<1>2. torn'[c] \in Nat /\ Violated(c)' \in Nat
  BY DEF TypeOK, Violated, EventType
<1>3. Accounted(c)'
  BY <1>1, <1>2 DEF Books, Accounted
<1>4. torn'[c] = 0 => torn[c] = 0
  BY <1>1, <1>2
<1>5. Intact(c)'
  BY <1>4 DEF Books, Intact
<1>6. Caused(c)'
  BY <1>1, <1>2, <1>4 DEF Books, Caused
<1> QED
  BY <1>3, <1>5, <1>6 DEF Books

\* What a submission writes to the log.
LEMMA Logged ==
    ASSUME TypeOK, NEW c \in Contract, NEW valid \in BOOLEAN, LogProof(c, valid)
    PROVE  /\ row[c].status = "active"
           /\ [valid |-> valid, period |-> row[c].submitted + 1] \in LogRow
           /\ proofLog'[c] = Append(proofLog[c],
                                    [valid |-> valid, period |-> row[c].submitted + 1])
           /\ \A x \in Contract \ {c} : proofLog'[x] = proofLog[x]
<1> DEFINE e == [valid |-> valid, period |-> row[c].submitted + 1]
<1>1. row[c].submitted + 1 \in Nat
  BY RowType
<1>2. e \in LogRow
  BY <1>1 DEF LogRow
<1>3. row[c].status = "active" /\ proofLog' = [proofLog EXCEPT ![c] = Append(@, e)]
  BY Zenon DEF LogProof
<1> QED
  BY <1>2, <1>3 DEF TypeOK

\* How far a handler got, and what it left in torn.
LEMMA TornBy ==
    ASSUME TypeOK, NEW c \in Contract, NEW k \in Nat, NEW n \in Nat,
           Answered(c, k, n)
    PROVE  /\ k = n => torn'[c] = torn[c]
           /\ k # n => torn'[c] = torn[c] + 1
           /\ \A x \in Contract \ {c} : torn'[x] = torn[x]
<1>1. k = n => torn' = torn
  BY Zenon DEF Answered
<1>2. k # n => torn' = [torn EXCEPT ![c] = @ + 1]
  BY Zenon DEF Answered
<1> QED
  BY <1>1, <1>2 DEF TypeOK

LEMMA EmittedBy ==
    ASSUME TypeOK, NEW c \in Contract, NEW e \in EventType,
           NEW s \in Nat, NEW k \in Nat, EmitEvent(c, e, s, k)
    PROVE  /\ k >= s => events'[c][e] = events[c][e] + 1
           /\ ~(k >= s) => events'[c][e] = events[c][e]
           /\ \A f \in EventType \ {e} : events'[c][f] = events[c][f]
           /\ \A x \in Contract \ {c} : events'[x] = events[x]
<1>1. k >= s => events' = [events EXCEPT ![c][e] = @ + 1]
  BY Zenon DEF EmitEvent
<1>2. ~(k >= s) => events' = events
  BY Zenon DEF EmitEvent
<1> QED
  BY <1>1, <1>2 DEF TypeOK

\* The other contracts do not notice a submission.
LEMMA BooksElsewhere ==
    ASSUME TypeOK, TypeOK', NEW c \in Contract, NEW x \in Contract \ {c}, Books(x),
           row'[x] = row[x], proofLog'[x] = proofLog[x], events'[x] = events[x],
           torn'[x] = torn[x]
    PROVE  Books(x)'
<1>1. torn[x] \in Nat /\ Violated(x) \in Nat
  BY RowType
<1>2. Successes(x)' = Successes(x) /\ Violated(x)' = Violated(x)
  BY DEF Successes, Violated
<1> QED
  BY <1>1, <1>2, BooksFrame

-----------------------------------------------------------------------------
(* The two submissions *)

LEMMA BooksAccept ==
    ASSUME TypeOK, TypeOK', NEW c \in Contract, NEW k \in 1..4, AcceptProof(c, k),
           NEW x \in Contract, Books(x)
    PROVE  Books(x)'
<1>1. LogProof(c, TRUE) /\ Answered(c, k, 4) /\ EmitEvent(c, "proof_success", 3, k)
  BY DEF AcceptProof
<1>2. /\ k >= 2 => row' = [row EXCEPT ![c] = Proved(row[c], now)]
      /\ ~(k >= 2) => row' = row
  BY Zenon DEF AcceptProof
<1>3. "proof_success" \in EventType
  BY DEF EventType
<1>4. CASE x # c
  <2>1. row'[x] = row[x]
    BY <1>2, <1>4 DEF TypeOK
  <2>2. proofLog'[x] = proofLog[x]
    BY <1>1, <1>4, Logged
  <2>3. events'[x] = events[x]
    BY <1>1, <1>3, <1>4, EmittedBy
  <2>4. torn'[x] = torn[x]
    BY <1>1, <1>4, TornBy
  <2> QED
    BY <1>4, <2>1, <2>2, <2>3, <2>4, BooksElsewhere
<1>5. CASE x = c
  <2> DEFINE s == proofLog[c]
             m == row[c].submitted
             e == [valid |-> TRUE, period |-> m + 1]
  <2>1. /\ row[c].status = "active"
        /\ e \in LogRow /\ e.valid /\ e.period = m + 1
        /\ proofLog'[c] = Append(s, e)
    BY <1>1, Logged
  <2>2. /\ m \in Nat /\ row[c].failed \in Nat /\ torn[c] \in Nat
        /\ Successes(c) \in Nat /\ s \in Seq(LogRow) /\ row[c] \in Row
    BY RowType
  <2>3. /\ k = 4 => torn'[c] = torn[c]
        /\ k # 4 => torn'[c] = torn[c] + 1
    BY <1>1, TornBy
  <2>4. /\ k >= 3 => Successes(c)' = Successes(c) + 1
        /\ ~(k >= 3) => Successes(c)' = Successes(c)
    BY <1>1, <1>3, EmittedBy DEF Successes
  <2>5. /\ k >= 2 => row'[c].submitted = m + 1 /\ row'[c].failed = 0
        /\ ~(k >= 2) => row'[c].submitted = m
        /\ row'[c].status = "active"
    <3>1. CASE k >= 2
      <4>1. row'[c] = Proved(row[c], now)
        BY <1>2, <3>1 DEF TypeOK
      <4> QED
        BY <2>1, <2>2, <3>1, <4>1 DEF Proved, Row
    <3>2. CASE ~(k >= 2)
      BY <1>2, <2>1, <3>2
    <3> QED
      BY <3>1, <3>2
  <2> HIDE DEF s, m, e
  <2>6. /\ Successes(c) <= m /\ m <= Successes(c) + torn[c]
        /\ AllLogged(s, m)
    BY <1>5 DEF Books, Accounted, s, m
  <2>7. AllLogged(Append(s, e), m) /\ AllLogged(Append(s, e), m + 1)
    BY <2>1, <2>2, <2>6, LoggedStays, AcceptedLog
  <2>8. Accounted(c)'
    <3>1. AllLogged(proofLog'[c], row'[c].submitted)
      BY <2>1, <2>5, <2>7
    <3> QED
      BY <2>2, <2>3, <2>4, <2>5, <2>6, <3>1 DEF Accounted
  <2>9. Intact(c)'
    <3> SUFFICES ASSUME torn'[c] = 0
                 PROVE  /\ Ascending(proofLog'[c], row'[c].submitted)
                        /\ RunOfRejected(proofLog'[c], row'[c].failed)
      BY DEF Intact
    <3>1. k = 4 /\ torn[c] = 0
      BY <2>2, <2>3
    <3>2. Ascending(s, m)
      BY <1>5, <3>1 DEF Books, Intact, s, m
    <3> QED
      BY <2>1, <2>2, <2>5, <3>1, <3>2, AcceptedLog
  <2>10. Caused(c)'
    BY <2>5 DEF Caused
  <2> QED
    BY <1>5, <2>8, <2>9, <2>10 DEF Books
<1> QED
  BY <1>4, <1>5

LEMMA BooksReject ==
    ASSUME TypeOK, TypeOK', NEW c \in Contract, NEW k \in 1..5, RejectProof(c, k),
           NEW x \in Contract, Books(x)
    PROVE  Books(x)'
<1> DEFINE fails == k >= 3 /\ row[c].failed + 1 >= FailureThreshold
<1>1. LogProof(c, FALSE) /\ Answered(c, k, 5) /\ EmitEvent(c, "proof_failure", 4, k)
  BY DEF RejectProof
<1>2. /\ k >= 2 => row' = [row EXCEPT ![c] = Struck(row[c], fails)]
      /\ ~(k >= 2) => row' = row
  BY Zenon DEF RejectProof
<1>3. /\ "proof_failure" \in EventType
      /\ "proof_success" \in EventType \ {"proof_failure"}
      /\ "contract_violated" \in EventType \ {"proof_failure"}
  BY DEF EventType
<1>4. CASE x # c
  <2>1. row'[x] = row[x]
    BY <1>2, <1>4 DEF TypeOK
  <2>2. proofLog'[x] = proofLog[x]
    BY <1>1, <1>4, Logged
  <2>3. events'[x] = events[x]
    BY <1>1, <1>3, <1>4, EmittedBy
  <2>4. torn'[x] = torn[x]
    BY <1>1, <1>4, TornBy
  <2> QED
    BY <1>4, <2>1, <2>2, <2>3, <2>4, BooksElsewhere
<1>5. CASE x = c
  <2> DEFINE s == proofLog[c]
             m == row[c].submitted
             f == row[c].failed
             e == [valid |-> FALSE, period |-> m + 1]
  <2>1. /\ row[c].status = "active"
        /\ e \in LogRow /\ ~e.valid
        /\ proofLog'[c] = Append(s, e)
    BY <1>1, Logged
  <2>2. /\ m \in Nat /\ f \in Nat /\ torn[c] \in Nat
        /\ Successes(c) \in Nat /\ s \in Seq(LogRow) /\ row[c] \in Row
        /\ FailureThreshold \in Nat
    BY RowType, ConstantsAssumption
  <2>3. /\ k = 5 => torn'[c] = torn[c]
        /\ k # 5 => torn'[c] = torn[c] + 1
    BY <1>1, TornBy
  <2>4. Successes(c)' = Successes(c) /\ Violated(c)' = Violated(c)
    BY <1>1, <1>3, EmittedBy DEF Successes, Violated
  <2>5. /\ row'[c].submitted = m
        /\ k >= 2 => row'[c].failed = f + 1
        /\ row'[c].status = "failed" => k >= 3 /\ f + 1 >= FailureThreshold
    <3>1. CASE k >= 2
      <4>1. row'[c] = Struck(row[c], fails)
        BY <1>2, <3>1 DEF TypeOK
      <4> QED
        BY <2>1, <2>2, <3>1, <4>1 DEF Struck, Row
    <3>2. CASE ~(k >= 2)
      BY <1>2, <2>1, <3>2
    <3> QED
      BY <3>1, <3>2
  <2> HIDE DEF s, m, e, f, fails
  <2>6. /\ Successes(c) <= m /\ m <= Successes(c) + torn[c]
        /\ AllLogged(s, m)
    BY <1>5 DEF Books, Accounted, s, m
  <2>7. AllLogged(proofLog'[c], row'[c].submitted)
    BY <2>1, <2>2, <2>5, <2>6, LoggedStays
  <2>8. Accounted(c)'
    BY <2>2, <2>3, <2>4, <2>5, <2>6, <2>7 DEF Accounted
  <2>9. Intact(c)'
    <3> SUFFICES ASSUME torn'[c] = 0
                 PROVE  /\ Ascending(proofLog'[c], row'[c].submitted)
                        /\ RunOfRejected(proofLog'[c], row'[c].failed)
      BY DEF Intact
    <3>1. k = 5 /\ torn[c] = 0
      BY <2>2, <2>3
    <3>2. Ascending(s, m) /\ RunOfRejected(s, f)
      BY <1>5, <3>1 DEF Books, Intact, s, m, f
    <3> QED
      BY <2>1, <2>2, <2>5, <3>1, <3>2, RejectedLog
  <2>10. Caused(c)'
    <3>1. row'[c].status = "failed" => row'[c].failed >= FailureThreshold
      BY <2>2, <2>5
    <3> QED
      BY <3>1 DEF Caused
  <2> QED
    BY <1>5, <2>8, <2>9, <2>10 DEF Books
<1> QED
  BY <1>4, <1>5

-----------------------------------------------------------------------------
(* The other steps *)

\* The timer fails a contract with an event, unless it is cut short.
LEMMA BooksSettle ==
    ASSUME TypeOK, TypeOK', NEW S \in SUBSET Contract, NEW R \in SUBSET S, NEW u,
           Settle(S, R, u), \A y \in S \ R : torn'[y] # 0,
           NEW x \in Contract, Books(x), torn'[x] >= torn[x]
    PROVE  Books(x)'
<1>1. /\ row'[x] = row[x] \/ row'[x] = [row[x] EXCEPT !.status = Outcome(x)]
      /\ x \notin S => row'[x] = row[x]
      /\ proofLog' = proofLog
  BY DEF Settle, Report
<1>2. /\ row'[x].submitted = row[x].submitted /\ row'[x].failed = row[x].failed
      /\ x \in S => row'[x].status = Outcome(x)
  BY <1>1 DEF Settle, Report, TypeOK, Row
<1>3. events[x] \in [EventType -> Nat]
  BY DEF TypeOK
<1>4. /\ x \notin R => events'[x] = events[x]
      /\ x \in R => events'[x] = [events[x] EXCEPT ![OutcomeEvent(x)] = @ + 1]
  BY DEF Settle, Report
<1>5. Successes(x)' = Successes(x) /\ Violated(x)' >= Violated(x)
  BY <1>3, <1>4 DEF Successes, Violated, OutcomeEvent, EventType
<1>6. ASSUME torn'[x] = 0, row'[x].status = "failed", x \in S
      PROVE  Violated(x)' > 0
  <2>1. x \in R /\ OutcomeEvent(x) = "contract_violated"
    BY <1>2, <1>6 DEF Outcome, OutcomeEvent
  <2> QED
    BY <1>3, <1>4, <2>1 DEF Violated, EventType
<1> QED
  BY <1>1, <1>2, <1>5, <1>6, BooksFrame

\* Nothing has happened to a contract before it is created.
Unborn(c) == row[c].status = "none" => row[c].submitted = 0 /\ row[c].failed = 0

LEMMA ProvedStatus ==
    ASSUME NEW r \in Row, NEW t, NEW fails
    PROVE  /\ Proved(r, t).status = r.status
           /\ Struck(r, fails).status \in {r.status, "failed"}
           /\ Proved(r, t).created = r.created /\ Proved(r, t).duration = r.duration
           /\ Struck(r, fails).created = r.created
           /\ Struck(r, fails).duration = r.duration
           /\ Struck(r, fails).status = IF fails THEN "failed" ELSE r.status
BY DEF Proved, Struck, Row

LEMMA UnbornNext ==
    ASSUME TypeOK, [Next]_vars, NEW x \in Contract, Unborn(x)
    PROVE  Unborn(x)'
<1> SUFFICES row'[x] = row[x] \/ row'[x].status # "none"
  BY DEF Unborn
<1>1. row \in [Contract -> Row]
  BY DEF TypeOK
<1>2. ASSUME NEW c \in Contract, NEW d \in Durations, CreateContract(c, d)
      PROVE  row'[x] = row[x] \/ row'[x].status # "none"
  BY <1>1, <1>2 DEF CreateContract, NoRow
<1>3. ASSUME NEW c \in Contract, NEW k \in 1..2, RecordDeposit(c, k)
      PROVE  row'[x] = row[x] \/ row'[x].status # "none"
  BY <1>1, <1>3 DEF RecordDeposit, Row
<1>4. ASSUME NEW c \in Contract,
             \/ \E k \in 1..4 : AcceptProof(c, k)
             \/ \E k \in 1..5 : RejectProof(c, k)
      PROVE  row'[x] = row[x] \/ row'[x].status # "none"
  <2>1. row[c].status = "active"
    BY <1>4, Zenon DEF AcceptProof, RejectProof, LogProof
  <2>2. \/ row' = row
        \/ row' = [row EXCEPT ![c] = Proved(row[c], now)]
        \/ \E fails : row' = [row EXCEPT ![c] = Struck(row[c], fails)]
    BY <1>4, Zenon DEF AcceptProof, RejectProof
  <2> QED
    BY <1>1, <2>1, <2>2, ProvedStatus
<1>5. ASSUME NEW S, NEW R, NEW u, Settle(S, R, u)
      PROVE  row'[x] = row[x] \/ row'[x].status # "none"
  BY <1>1, <1>5 DEF Settle, Report, Outcome, Row
<1>6. ASSUME \/ \E p \in Provider : PostEvent(p) \/ Reregister(p) \/ RecalculateScore(p)
             \/ Kill \/ Restart \/ Elapse
             \/ UNCHANGED vars
      PROVE  row'[x] = row[x]
  BY <1>6 DEF PostEvent, Reregister, RecalculateScore, Kill, Restart, Elapse, vars
<1>7. ASSUME \/ Tick
             \/ \E done \in SUBSET Contract, c \in Contract, k \in 1..2 :
                  TornTick(done, c, k)
             \/ \E done \in SUBSET Contract : PartialTick(done)
      PROVE  row'[x] = row[x] \/ row'[x].status # "none"
  BY <1>5, <1>7 DEF Tick, TornTick, PartialTick
<1> QED
  BY <1>2, <1>3, <1>4, <1>6, <1>7 DEF Next

LEMMA BooksNext ==
    ASSUME TypeOK, TypeOK', [Next]_vars, NEW x \in Contract, Books(x), Unborn(x)
    PROVE  Books(x)'
<1>1. /\ row \in [Contract -> Row] /\ torn \in [Contract -> Nat]
      /\ torn[x] \in Nat /\ Violated(x) \in Nat
  BY RowType DEF TypeOK
<1>2. ASSUME UNCHANGED <<events, proofLog>>, torn'[x] >= torn[x],
             row'[x].submitted = row[x].submitted, row'[x].failed = row[x].failed,
             row'[x].status = "failed" => row[x].status = "failed"
      PROVE  Books(x)'
  <2>1. Successes(x)' = Successes(x) /\ Violated(x)' >= Violated(x)
    BY <1>1, <1>2 DEF Successes, Violated
  <2> QED
    BY <1>2, <2>1, BooksFrame
<1>3. ASSUME NEW c \in Contract, NEW d \in Durations, CreateContract(c, d)
      PROVE  Books(x)'
  BY <1>1, <1>2, <1>3 DEF CreateContract, NoRow, Unborn
<1>4. ASSUME NEW c \in Contract, NEW k \in 1..2, RecordDeposit(c, k)
      PROVE  Books(x)'
  <2>1. row' = [row EXCEPT ![c].status = "active"] /\ UNCHANGED <<events, proofLog>>
    BY <1>4, Zenon DEF RecordDeposit
  <2>2. torn'[x] >= torn[x]
    <3>1. Answered(c, k, 2)
      BY <1>4, Zenon DEF RecordDeposit
    <3> QED
      BY <3>1, AnsweredTorn
  <2> QED
    BY <1>1, <1>2, <2>1, <2>2 DEF Row
<1>5. ASSUME Tick
      PROVE  Books(x)'
  <2> DEFINE S == Expired \cup Stale
  <2>1. S \in SUBSET Contract
    BY DEF Expired, Stale, Active
  <2>2. torn' = torn /\ Settle(S, S, {})
    BY <1>5 DEF Tick
  <2> HIDE DEF S
  <2> QED
    BY <1>1, <2>1, <2>2, BooksSettle
<1>6. ASSUME NEW done \in SUBSET Contract, NEW c \in Contract, NEW k \in 1..2,
             TornTick(done, c, k)
      PROVE  Books(x)'
  <2> DEFINE S == done \cup {c}
             R == IF k = 2 THEN done \cup {c} ELSE done
             u == IF k = 2 THEN {ProviderOf[c]} ELSE {}
  <2>1. S \in SUBSET Contract /\ R \in SUBSET S /\ S \ R \subseteq {c}
    OBVIOUS
  <2>2. Settle(S, R, u) /\ torn' = [torn EXCEPT ![c] = @ + 1]
    BY <1>6 DEF TornTick
  <2>3. torn'[x] >= torn[x] /\ torn'[c] # 0
    BY <1>1, <2>2
  <2> HIDE DEF S, R, u
  <2> QED
    BY <2>1, <2>2, <2>3, BooksSettle
<1>8. ASSUME NEW done \in SUBSET Contract, PartialTick(done)
      PROVE  Books(x)'
  <2>1. torn' = torn /\ Settle(done, done, {})
    BY <1>8 DEF PartialTick
  <2> QED
    BY <1>1, <2>1, BooksSettle
<1>7. ASSUME \/ \E p \in Provider : PostEvent(p) \/ Reregister(p) \/ RecalculateScore(p)
             \/ Kill \/ Restart \/ Elapse
             \/ UNCHANGED vars
      PROVE  Books(x)'
  <2>1. UNCHANGED <<row, proofLog, events, torn>>
    BY <1>7 DEF PostEvent, Reregister, RecalculateScore, Kill, Restart, Elapse, vars
  <2> QED
    BY <1>1, <1>2, <2>1
<1> QED
  BY <1>3, <1>4, <1>5, <1>6, <1>7, <1>8, BooksAccept, BooksReject DEF Next

BooksKept == \A c \in Contract : Books(c) /\ Unborn(c)

LEMMA BooksHold == Spec => []BooksKept
<1>1. Init => BooksKept
  <2> SUFFICES ASSUME Init, NEW c \in Contract
               PROVE  Books(c) /\ Unborn(c)
    BY DEF BooksKept
  <2>1. /\ row[c].status = "none" /\ row[c].submitted = 0 /\ row[c].failed = 0
        /\ proofLog[c] = <<>> /\ torn[c] = 0 /\ Successes(c) = 0
    BY DEF Init, NoRow, Successes, EventType
  <2>2. AllLogged(<<>>, 0) /\ Ascending(<<>>, 0) /\ RunOfRejected(<<>>, 0)
    BY DEF AllLogged, Ascending, RunOfRejected
  <2> QED
    BY <2>1, <2>2 DEF Books, Accounted, Intact, Caused, Unborn
<1>2. TypeOK /\ TypeOK' /\ BooksKept /\ [Next]_vars => BooksKept'
  BY BooksNext, UnbornNext DEF BooksKept
<1> QED
  BY <1>1, <1>2, TypeCorrect, PTL DEF Spec

\* The counter, the log and the events agree on the proofs of a contract.
THEOREM ProofsAreAccounted == Spec => []ProofsAccounted
<1>1. BooksKept => ProofsAccounted
  BY DEF BooksKept, Books, Accounted, AllLogged, Successes, ProofsAccounted
<1> QED
  BY <1>1, BooksHold, PTL

\* No proof period is paid for twice.
THEOREM PeriodsAscend == Spec => []PeriodsIncrease
<1>1. BooksKept => PeriodsIncrease
  BY DEF BooksKept, Books, Intact, Ascending, PeriodsIncrease
<1> QED
  BY <1>1, BooksHold, PTL

\* proofs_failed counts the failures in a row.
THEOREM FailuresInARow == Spec => []FailuresAreConsecutive
<1>1. BooksKept => FailuresAreConsecutive
  BY DEF BooksKept, Books, Intact, RunOfRejected, FailuresAreConsecutive
<1> QED
  BY <1>1, BooksHold, PTL

\* A contract fails for a cause on record.
THEOREM FailuresCaused == Spec => []FailedForCause
<1>1. BooksKept => FailedForCause
  BY DEF BooksKept, Books, Caused, Violated, FailedForCause
<1> QED
  BY <1>1, BooksHold, PTL

-----------------------------------------------------------------------------
(* Scores *)

Scored(p) ==
    \/ scored[p]
    \/ posted[p] > 0
    \/ \E c \in Contract : ProviderOf[c] = p /\ torn[c] > 0

\* What explains an outdated score goes on explaining it.
LEMMA ExplainedStays ==
    ASSUME TypeOK, TypeOK', NEW p \in Provider, Scored(p),
           scored[p] => scored'[p], posted'[p] >= posted[p],
           \A c \in Contract : torn'[c] >= torn[c]
    PROVE  Scored(p)'
<1>1. /\ posted[p] \in Nat /\ posted'[p] \in Nat
      /\ \A c \in Contract : torn[c] \in Nat /\ torn'[c] \in Nat
  BY DEF TypeOK
<1>2. CASE posted[p] > 0
  BY <1>1, <1>2 DEF Scored
<1>3. ASSUME NEW c \in Contract, ProviderOf[c] = p, torn[c] > 0
      PROVE  Scored(p)'
  BY <1>1, <1>3 DEF Scored
<1> QED
  BY <1>2, <1>3 DEF Scored

\* A handler that emits an event recalculates the score or is cut short.
LEMMA ScoredHandler ==
    ASSUME TypeOK, TypeOK', NEW c \in Contract, NEW e \in EventType,
           NEW s \in Nat, NEW k \in Nat, EmitEvent(c, e, s, k),
           Answered(c, k, s + 1), posted' = posted,
           NEW p \in Provider, Scored(p)
    PROVE  Scored(p)'
<1> s + 1 \in Nat
  OBVIOUS
<1>1. \A x \in Contract : torn'[x] >= torn[x] /\ torn[x] \in Nat
  BY AnsweredTorn DEF TypeOK
<1>2. posted[p] \in Nat /\ scored \in [Provider -> BOOLEAN] /\ ProviderOf[c] \in Provider
  BY ConstantsAssumption DEF TypeOK
<1>3. CASE scored[p] => scored'[p]
  BY <1>1, <1>2, <1>3, ExplainedStays
<1>4. CASE ~(scored[p] => scored'[p])
  <2>1. k >= s /\ scored' = [scored EXCEPT ![ProviderOf[c]] = (k > s)]
    BY <1>4, Zenon DEF EmitEvent
  <2>2. ProviderOf[c] = p /\ ~(k > s)
    BY <1>2, <1>4, <2>1
  <2>3. torn'[c] = torn[c] + 1
    BY <2>2, TornBy
  <2> QED
    BY <1>1, <2>2, <2>3 DEF Scored
<1> QED
  BY <1>3, <1>4

LEMMA ScoredNext ==
    ASSUME TypeOK, TypeOK', [Next]_vars, NEW p \in Provider, Scored(p)
    PROVE  Scored(p)'
<1>1. posted[p] \in Nat /\ \A x \in Contract : torn[x] \in Nat
  BY DEF TypeOK
<1>2. ASSUME UNCHANGED <<scored, posted, torn>>
      PROVE  Scored(p)'
  BY <1>2 DEF Scored
<1>3. ASSUME NEW c \in Contract, NEW k \in 1..2, RecordDeposit(c, k)
      PROVE  Scored(p)'
  <2>1. Answered(c, k, 2) /\ UNCHANGED <<scored, posted>>
    BY <1>3, Zenon DEF RecordDeposit
  <2>2. \A x \in Contract : torn'[x] >= torn[x]
    BY <2>1, AnsweredTorn
  <2> QED
    BY <1>1, <2>1, <2>2, ExplainedStays
<1>4. ASSUME NEW c \in Contract, NEW k \in 1..4, AcceptProof(c, k)
      PROVE  Scored(p)'
  <2>1. Answered(c, k, 3 + 1) /\ EmitEvent(c, "proof_success", 3, k) /\ posted' = posted
    BY <1>4 DEF AcceptProof
  <2>2. "proof_success" \in EventType
    BY DEF EventType
  <2> QED
    BY <2>1, <2>2, ScoredHandler
<1>5. ASSUME NEW c \in Contract, NEW k \in 1..5, RejectProof(c, k)
      PROVE  Scored(p)'
  <2>1. Answered(c, k, 4 + 1) /\ EmitEvent(c, "proof_failure", 4, k) /\ posted' = posted
    BY <1>5 DEF RejectProof
  <2>2. "proof_failure" \in EventType
    BY DEF EventType
  <2> QED
    BY <2>1, <2>2, ScoredHandler
<1>6. ASSUME Tick \/ \E done \in SUBSET Contract : PartialTick(done)
      PROVE  Scored(p)'
  <2>1. (scored[p] => scored'[p]) /\ UNCHANGED <<posted, torn>>
    BY <1>6 DEF Tick, PartialTick, Settle, Report
  <2> QED
    BY <1>1, <2>1, ExplainedStays
<1>7. ASSUME NEW done \in SUBSET Contract, NEW c \in Contract, NEW k \in 1..2,
             TornTick(done, c, k)
      PROVE  Scored(p)'
  <2> DEFINE u == IF k = 2 THEN {ProviderOf[c]} ELSE {}
  <2>1. posted' = posted /\ torn' = [torn EXCEPT ![c] = @ + 1]
    BY <1>7 DEF TornTick, Settle, Report
  <2>2. torn'[c] = torn[c] + 1 /\ \A x \in Contract : torn'[x] >= torn[x]
    BY <1>1, <2>1 DEF TypeOK
  <2>3. scored[p] => scored'[p] \/ p \in u
    BY <1>7 DEF TornTick, Settle
  <2>4. CASE p \in u
    BY <1>1, <2>2, <2>4 DEF Scored
  <2>5. CASE p \notin u
    BY <1>1, <2>1, <2>2, <2>3, <2>5, ExplainedStays
  <2> QED
    BY <2>4, <2>5
<1>8. ASSUME NEW q \in Provider, PostEvent(q) \/ Reregister(q)
      PROVE  Scored(p)'
  <2>1. /\ posted' = [posted EXCEPT ![q] = @ + 1] /\ torn' = torn
        /\ scored' = [scored EXCEPT ![q] = FALSE]
    BY <1>8 DEF PostEvent, Reregister
  <2>2. CASE p = q
    BY <1>1, <2>1, <2>2 DEF Scored, TypeOK
  <2>3. CASE p # q
    BY <1>1, <2>1, <2>3, ExplainedStays DEF TypeOK
  <2> QED
    BY <2>2, <2>3
<1>9. ASSUME NEW q \in Provider, RecalculateScore(q)
      PROVE  Scored(p)'
  <2>1. (scored[p] => scored'[p]) /\ UNCHANGED <<posted, torn>>
    BY <1>9 DEF RecalculateScore, TypeOK
  <2> QED
    BY <1>1, <2>1, ExplainedStays
<1> QED
  BY <1>2, <1>3, <1>4, <1>5, <1>6, <1>7, <1>8, <1>9
     DEF Next, CreateContract, Kill, Restart, Elapse, vars

\* The service's own handlers keep the scores up to date with the events.
THEOREM ScoresKeepUp == Spec => []ScoresFollowEvents
<1>1. Init => ScoresFollowEvents
  BY DEF Init, ScoresFollowEvents
<1>2. TypeOK /\ TypeOK' /\ ScoresFollowEvents /\ [Next]_vars => ScoresFollowEvents'
  BY ScoredNext DEF ScoresFollowEvents, Scored
<1> QED
  BY <1>1, <1>2, TypeCorrect, PTL DEF Spec

-----------------------------------------------------------------------------
(* The refinement: the statuses and the terms of the contracts move as      *)
(* ContractLifecycle says or not at all.                                    *)

Phases  == [c \in Contract |-> row[c].status]
Overdue == {c \in Contract : /\ row[c].status # "none"
                             /\ row[c].created + row[c].duration < now}

\* A step on contract c alone that leaves its term alone.
LEMMA SameTerms ==
    ASSUME TypeOK, NEW c \in Contract, NEW r \in Row, row' = [row EXCEPT ![c] = r],
           now' = now, row[c].status # "none", r.status # "none",
           r.created = row[c].created, r.duration = row[c].duration
    PROVE  /\ Overdue' = Overdue
           /\ Phases' = [Phases EXCEPT ![c] = r.status]
<1>1. row \in [Contract -> Row]
  BY DEF TypeOK
<1>2. \A x \in Contract : row'[x] = IF x = c THEN r ELSE row[x]
  BY <1>1
<1>3. Overdue' = Overdue
  BY <1>2 DEF Overdue
<1>4. Phases' = [Phases EXCEPT ![c] = r.status]
  <2>1. \A x \in Contract : row'[x].status = IF x = c THEN r.status ELSE row[x].status
    BY <1>2
  <2>2. Phases' = [x \in Contract |-> IF x = c THEN r.status ELSE Phases[x]]
    BY <2>1, Zenon DEF Phases
  <2> QED
    BY <2>2 DEF Phases
<1> QED
  BY <1>3, <1>4

LEMMA SettleRefines ==
    ASSUME TypeOK, NEW S \in SUBSET Active, NEW R, NEW u, Settle(S, R, u)
    PROVE  Lifecycle!Settle(S)
<1>1. /\ row \in [Contract -> Row]
      /\ row' = [c \in Contract |-> IF c \in S THEN [row[c] EXCEPT !.status = Outcome(c)]
                                               ELSE row[c]]
      /\ now' = now
  BY DEF TypeOK, Settle, Report
<1>2. \A c \in Contract :
         /\ row'[c].status = IF c \in S THEN Outcome(c) ELSE row[c].status
         /\ row'[c].created = row[c].created /\ row'[c].duration = row[c].duration
  BY <1>1 DEF Row
<1>3. \A c \in S : row[c].status = "active" /\ (c \in Overdue <=> c \in Expired)
  BY DEF Active, Expired, Overdue
<1>4. Overdue' = Overdue
  <2> SUFFICES ASSUME NEW c \in Contract
               PROVE  row'[c].status # "none" <=> row[c].status # "none"
    BY <1>1, <1>2 DEF Overdue
  <2> QED
    BY <1>2, <1>3 DEF Outcome
<1>5. Phases' = [c \in Contract |-> CASE c \in S \cap Overdue -> "completed"
                                     [] c \in S \ Overdue -> "failed"
                                     [] OTHER -> Phases[c]]
  BY <1>2, <1>3 DEF Phases, Outcome
<1>6. S \subseteq {c \in Contract : Phases[c] = "active"}
  BY DEF Active, Phases
<1> QED
  BY <1>4, <1>5, <1>6 DEF Lifecycle!Settle, Lifecycle!Open, Phases, Overdue

LEMMA StepRefines ==
    ASSUME TypeOK, [Next]_vars
    PROVE  [Lifecycle!Next]_(Lifecycle!vars)
<1> USE DEF Lifecycle!vars
<1>1. row \in [Contract -> Row] /\ now \in Nat
  BY DEF TypeOK
<1>2. ASSUME Phases' = Phases, Overdue' = Overdue
      PROVE  UNCHANGED Lifecycle!vars
  BY <1>2 DEF Phases, Overdue
<1>3. ASSUME NEW c \in Contract, NEW d \in Durations, CreateContract(c, d)
      PROVE  Lifecycle!Create(c)
  <2> DEFINE r == [NoRow EXCEPT !.status = "pending_deposit", !.created = now,
                                !.duration = d]
  <2>1. d \in Nat \ {0}
    BY ConstantsAssumption
  <2>2. /\ row' = [row EXCEPT ![c] = r] /\ row[c].status = "none" /\ now' = now
    BY <1>3 DEF CreateContract
  <2>3. r.status = "pending_deposit" /\ r.created = now /\ r.duration = d
    BY DEF NoRow
  <2> HIDE DEF r
  <2>4. \A x \in Contract : row'[x] = IF x = c THEN r ELSE row[x]
    BY <1>1, <2>2
  <2>5. Overdue' = Overdue
    BY <1>1, <2>1, <2>2, <2>3, <2>4 DEF Overdue
  <2>6. Phases[c] = "none" /\ Phases' = [Phases EXCEPT ![c] = "pending_deposit"]
    <3>1. \A x \in Contract :
             row'[x].status = IF x = c THEN "pending_deposit" ELSE row[x].status
      BY <2>3, <2>4
    <3>2. Phases' = [x \in Contract |-> IF x = c THEN "pending_deposit" ELSE Phases[x]]
      BY <3>1, Zenon DEF Phases
    <3> QED
      BY <2>2, <3>2 DEF Phases
  <2> QED
    BY <2>5, <2>6 DEF Lifecycle!Create, Phases, Overdue
<1>4. ASSUME NEW c \in Contract, NEW k \in 1..2, RecordDeposit(c, k)
      PROVE  Lifecycle!Fund(c)
  <2> DEFINE r == [row[c] EXCEPT !.status = "active"]
  <2>1. row' = [row EXCEPT ![c] = r] /\ row[c].status # "none" /\ now' = now
    BY <1>4, Zenon DEF RecordDeposit
  <2>2. /\ r \in Row /\ r.status = "active"
        /\ r.created = row[c].created /\ r.duration = row[c].duration
    BY <1>1 DEF Row, Status
  <2> HIDE DEF r
  <2>3. Overdue' = Overdue /\ Phases' = [Phases EXCEPT ![c] = "active"]
    BY <2>1, <2>2, SameTerms
  <2>4. Phases[c] # "none"
    BY <2>1 DEF Phases
  <2> QED
    BY <2>3, <2>4 DEF Lifecycle!Fund, Phases, Overdue
<1>5. ASSUME NEW c \in Contract, NEW k \in 1..4, AcceptProof(c, k)
      PROVE  UNCHANGED Lifecycle!vars
  <2>1. row[c].status = "active" /\ now' = now
    BY <1>5, Zenon DEF AcceptProof, LogProof
  <2>2. CASE row' = row
    BY <1>2, <2>1, <2>2 DEF Phases, Overdue
  <2>3. CASE row' = [row EXCEPT ![c] = Proved(row[c], now)]
    <3>1. /\ Proved(row[c], now) \in Row
          /\ Proved(row[c], now).status = "active"
          /\ Proved(row[c], now).created = row[c].created
          /\ Proved(row[c], now).duration = row[c].duration
      BY <1>1, <2>1, ProvedRow, ProvedStatus
    <3>2. Overdue' = Overdue /\ Phases' = [Phases EXCEPT ![c] = "active"]
      BY <2>1, <2>3, <3>1, SameTerms
    <3>3. Phases' = Phases
      BY <2>1, <3>2 DEF Phases
    <3> QED
      BY <1>2, <3>2, <3>3
  <2> QED
    BY <1>5, <2>2, <2>3, Zenon DEF AcceptProof
<1>6. ASSUME NEW c \in Contract, NEW k \in 1..5, RejectProof(c, k)
      PROVE  Lifecycle!Fail(c) \/ UNCHANGED Lifecycle!vars
  <2>1. row[c].status = "active" /\ now' = now
    BY <1>6, Zenon DEF RejectProof, LogProof
  <2>2. CASE row' = row
    BY <1>2, <2>1, <2>2 DEF Phases, Overdue
  <2>3. ASSUME NEW fails \in BOOLEAN, row' = [row EXCEPT ![c] = Struck(row[c], fails)]
        PROVE  Lifecycle!Fail(c) \/ UNCHANGED Lifecycle!vars
    <3> DEFINE r == Struck(row[c], fails)
    <3>1. /\ r \in Row /\ r.status = IF fails THEN "failed" ELSE "active"
          /\ r.created = row[c].created /\ r.duration = row[c].duration
      BY <1>1, <2>1, StruckRow, ProvedStatus
    <3>2. row' = [row EXCEPT ![c] = r]
      BY <2>3
    <3> HIDE DEF r
    <3>3. Overdue' = Overdue /\ Phases' = [Phases EXCEPT ![c] = r.status]
      BY <2>1, <3>1, <3>2, SameTerms
    <3>4. CASE fails
      BY <2>1, <3>1, <3>3, <3>4 DEF Lifecycle!Fail, Phases, Overdue
    <3>5. CASE ~fails
      <4>1. Phases' = Phases
        BY <2>1, <3>1, <3>3, <3>5 DEF Phases
      <4> QED
        BY <1>2, <3>3, <4>1
    <3> QED
      BY <3>4, <3>5
  <2>4. \/ row' = row
        \/ row' = [row EXCEPT ![c] =
                     Struck(row[c], k >= 3 /\ row[c].failed + 1 >= FailureThreshold)]
    BY <1>6, Zenon DEF RejectProof
  <2>5. (k >= 3 /\ row[c].failed + 1 >= FailureThreshold) \in BOOLEAN
    OBVIOUS
  <2> QED
    BY <2>2, <2>3, <2>4, <2>5
<1>7. ASSUME \/ Tick
             \/ \E done \in SUBSET Contract, c \in Contract, k \in 1..2 :
                  TornTick(done, c, k)
             \/ \E done \in SUBSET Contract : PartialTick(done)
      PROVE  \E S \in SUBSET Contract : Lifecycle!Settle(S)
  <2>1. \E S \in SUBSET Active : \E R, u : Settle(S, R, u)
    BY <1>7 DEF Tick, TornTick, PartialTick, Expired, Stale
  <2>2. SUBSET Active \subseteq SUBSET Contract
    BY DEF Active
  <2> QED
    BY <2>1, <2>2, SettleRefines
<1>8. ASSUME Elapse
      PROVE  \E L \in SUBSET Contract : Lifecycle!Lapse(L)
  <2>1. row' = row /\ now' = now + 1
    BY <1>8 DEF Elapse
  <2>2. PICK L \in SUBSET Contract : L = Overdue'
    BY DEF Overdue
  <2>3. /\ \A c \in L : Phases[c] # "none"
        /\ Overdue' = Overdue \cup L
        /\ Phases' = Phases
    BY <1>1, <2>1, <2>2 DEF Overdue, Phases, Row
  <2>4. Lifecycle!Lapse(L)
    BY <2>3 DEF Lifecycle!Lapse, Phases, Overdue
  <2> QED
    BY <2>4
<1>9. ASSUME \/ \E p \in Provider : PostEvent(p) \/ Reregister(p) \/ RecalculateScore(p)
             \/ Kill \/ Restart
             \/ UNCHANGED vars
      PROVE  UNCHANGED Lifecycle!vars
  <2>1. row' = row /\ now' = now
    BY <1>9 DEF PostEvent, Reregister, RecalculateScore, Kill, Restart, vars
  <2> QED
    BY <1>2, <2>1 DEF Phases, Overdue
<1>10. ASSUME \/ \E c \in Contract : Lifecycle!Create(c) \/ Lifecycle!Fund(c)
                                   \/ Lifecycle!Fail(c)
              \/ \E S \in SUBSET Contract : Lifecycle!Settle(S) \/ Lifecycle!Lapse(S)
      PROVE  Lifecycle!Next
  BY <1>10, Zenon DEF Lifecycle!Next
<1> HIDE DEF Lifecycle!vars
<1>11. CASE Next
  <2>1. CASE \/ \E c \in Contract, d \in Durations : CreateContract(c, d)
             \/ \E c \in Contract, k \in 1..2 : RecordDeposit(c, k)
    BY <1>3, <1>4, <1>10, <2>1
  <2>2. CASE \/ \E c \in Contract, k \in 1..4 : AcceptProof(c, k)
             \/ \E c \in Contract, k \in 1..5 : RejectProof(c, k)
    BY <1>5, <1>6, <1>10, <2>2
  <2>3. CASE \/ Tick
             \/ \E done \in SUBSET Contract, c \in Contract, k \in 1..2 :
                  TornTick(done, c, k)
             \/ \E done \in SUBSET Contract : PartialTick(done)
    BY <1>7, <1>10, <2>3
  <2>4. CASE Elapse
    BY <1>8, <1>10, <2>4
  <2> QED
    BY <1>9, <1>11, <2>1, <2>2, <2>3, <2>4 DEF Next
<1> QED
  BY <1>9, <1>11

\* No statement, cut, death of the process or order of requests shows in the
\* statuses as anything but a step of the abstract life cycle.
THEOREM ImplementsLifecycle == Spec => Lifecycle!Spec
<1>1. Init => Lifecycle!Init
  BY DEF Init, NoRow, Lifecycle!Init
<1>2. TypeOK /\ [Next]_vars => [Lifecycle!Next]_(Lifecycle!vars)
  BY StepRefines
<1> QED
  BY <1>1, <1>2, TypeCorrect, PTL DEF Spec, Lifecycle!Spec

\* A completed contract is past its term, however often it was reopened, failed
\* or settled before.
CompletedIsOver ==
    \A c \in Contract : row[c].status = "completed" =>
        row[c].created + row[c].duration < now

\* What the abstract life cycle promises holds of the contracts: the proof is
\* about its steps alone and reaches the rows by the refinement.
THEOREM CompletionsAreDue == Spec => []CompletedIsOver
<1> DEFINE Over == \A c \in Contract : Phases[c] = "completed" => c \in Overdue
<1>1. Lifecycle!Init => Over
  BY DEF Lifecycle!Init, Phases
<1>2. ASSUME Over, [Lifecycle!Next]_(Lifecycle!vars), NEW c \in Contract,
             Phases'[c] = "completed"
      PROVE  c \in Overdue'
  <2> USE DEF Phases, Overdue
  <2>1. CASE UNCHANGED Lifecycle!vars
    BY <1>2, <2>1 DEF Lifecycle!vars
  <2>2. ASSUME NEW b \in Contract, Lifecycle!Create(b) \/ Lifecycle!Fund(b) \/ Lifecycle!Fail(b)
        PROVE  c \in Overdue'
    BY <1>2, <2>2 DEF Lifecycle!Create, Lifecycle!Fund, Lifecycle!Fail
  <2>3. ASSUME NEW S \in SUBSET Contract, Lifecycle!Settle(S)
        PROVE  c \in Overdue'
    BY <1>2, <2>3 DEF Lifecycle!Settle
  <2>4. ASSUME NEW L \in SUBSET Contract, Lifecycle!Lapse(L)
        PROVE  c \in Overdue'
    BY <1>2, <2>4 DEF Lifecycle!Lapse
  <2> QED
    BY <1>2, <2>1, <2>2, <2>3, <2>4 DEF Lifecycle!Next
<1>3. Over /\ [Lifecycle!Next]_(Lifecycle!vars) => Over'
  BY <1>2
<1>4. Over => CompletedIsOver
  BY DEF Phases, Overdue, CompletedIsOver
<1> HIDE DEF Over
<1> QED
  BY <1>1, <1>3, <1>4, ImplementsLifecycle, PTL DEF Lifecycle!Spec

-----------------------------------------------------------------------------
(* Liveness.  The provers know no rule for ENABLED, so when the fair        *)
(* actions are enabled is a hypothesis: Tick changes the row of whatever is *)
(* due, and Restart the flag of a process that is down.                     *)

Due == Expired \cup Stale

TickEnabled == up /\ Due # {} => ENABLED <<Tick>>_vars
RestartEnabled == ~up => ENABLED <<Restart>>_vars

\* Settling the active contracts S closes what is in S and leaves the rest.
LEMMA SettleCloses ==
    ASSUME TypeOK, NEW S, NEW R, NEW u, Settle(S, R, u), NEW c \in Contract
    PROVE  /\ c \in S => row'[c].status # "active"
           /\ c \notin S => row'[c] = row[c]
           /\ now' = now
<1>1. row \in [Contract -> Row]
  BY DEF TypeOK
<1>2. /\ row' = [x \in Contract |-> IF x \in S THEN [row[x] EXCEPT !.status = Outcome(x)]
                                               ELSE row[x]]
      /\ now' = now
  BY DEF Settle, Report
<1>3. Outcome(c) # "active"
  BY DEF Outcome
<1> QED
  BY <1>1, <1>2, <1>3 DEF Row

LEMMA ExpiredFrame ==
    ASSUME TypeOK, NEW c \in Expired, now' \in Nat, now' >= now,
           row'[c].created = row[c].created, row'[c].duration = row[c].duration
    PROVE  c \in Expired' \/ row'[c].status # "active"
<1>1. row[c] \in Row /\ c \in Contract /\ now \in Nat
  BY DEF TypeOK, Expired, Active
<1>2. row[c].created + row[c].duration < now
  BY DEF Expired
<1>3. row[c].created \in Nat /\ row[c].duration \in Nat
  BY <1>1 DEF Row
<1>4. row'[c].created + row'[c].duration < now'
  BY <1>1, <1>2, <1>3
<1> QED
  BY <1>1, <1>4 DEF Expired, Active

\* An expired contract stays expired until it is no longer active: no deposit,
\* proof, cut or death of the process gives it another term.
LEMMA ExpiredStays ==
    ASSUME TypeOK, [Next]_vars, NEW c \in Expired
    PROVE  c \in Expired' \/ row'[c].status # "active"
<1>1. row \in [Contract -> Row] /\ c \in Contract /\ now \in Nat /\ row[c] \in Row
  BY DEF TypeOK, Expired, Active
<1>2. row[c].status = "active"
  BY DEF Expired, Active
<1>3. ASSUME row'[c] = row[c], now' \in {now, now + 1}
      PROVE  c \in Expired' \/ row'[c].status # "active"
  <2>1. now' \in Nat /\ now' >= now
    BY <1>1, <1>3
  <2> QED
    BY <1>3, <2>1, ExpiredFrame
<1>4. ASSUME NEW b \in Contract, NEW r, row' = [row EXCEPT ![b] = r], now' = now,
             r.created = row[b].created, r.duration = row[b].duration
      PROVE  c \in Expired' \/ row'[c].status # "active"
  <2>1. row'[c] = IF c = b THEN r ELSE row[c]
    BY <1>1, <1>4
  <2>2. row'[c].created = row[c].created /\ row'[c].duration = row[c].duration
    BY <1>4, <2>1
  <2>3. now' \in Nat /\ now' >= now
    BY <1>1, <1>4
  <2> QED
    BY <2>2, <2>3, ExpiredFrame
<1>5. ASSUME NEW b \in Contract, NEW d \in Durations, CreateContract(b, d)
      PROVE  c \in Expired' \/ row'[c].status # "active"
  <2>1. /\ row[b].status = "none" /\ now' = now
        /\ \E r : row' = [row EXCEPT ![b] = r]
    BY <1>5, Zenon DEF CreateContract
  <2>2. b # c
    BY <1>2, <2>1
  <2>3. row'[c] = row[c]
    BY <1>1, <2>1, <2>2
  <2> QED
    BY <1>3, <2>1, <2>3
<1>6. ASSUME NEW b \in Contract, NEW k \in 1..2, RecordDeposit(b, k)
      PROVE  c \in Expired' \/ row'[c].status # "active"
  <2>1. row' = [row EXCEPT ![b] = [row[b] EXCEPT !.status = "active"]] /\ now' = now
    BY <1>6, Zenon DEF RecordDeposit
  <2>2. /\ [row[b] EXCEPT !.status = "active"].created = row[b].created
        /\ [row[b] EXCEPT !.status = "active"].duration = row[b].duration
    BY <1>1 DEF Row
  <2> QED
    BY <1>4, <2>1, <2>2, Zenon
<1>7. ASSUME NEW b \in Contract, NEW k \in 1..4, AcceptProof(b, k)
      PROVE  c \in Expired' \/ row'[c].status # "active"
  <2>1. /\ row' = row \/ row' = [row EXCEPT ![b] = Proved(row[b], now)]
        /\ now' = now
    BY <1>7, Zenon DEF AcceptProof
  <2>2. row[b] \in Row
    BY <1>1
  <2>3. /\ Proved(row[b], now).created = row[b].created
        /\ Proved(row[b], now).duration = row[b].duration
    BY <2>2 DEF Proved, Row
  <2> QED
    BY <1>3, <1>4, <2>1, <2>3, Zenon
<1>8. ASSUME NEW b \in Contract, NEW k \in 1..5, RejectProof(b, k)
      PROVE  c \in Expired' \/ row'[c].status # "active"
  <2>1. /\ row' = row \/ \E fails : row' = [row EXCEPT ![b] = Struck(row[b], fails)]
        /\ now' = now
    BY <1>8, Zenon DEF RejectProof
  <2>2. row[b] \in Row
    BY <1>1
  <2>3. \A fails : /\ Struck(row[b], fails).created = row[b].created
                   /\ Struck(row[b], fails).duration = row[b].duration
    BY <2>2 DEF Struck, Row
  <2> QED
    BY <1>3, <1>4, <2>1, <2>3, Zenon
<1>9. ASSUME NEW S, NEW R, NEW u, Settle(S, R, u)
      PROVE  c \in Expired' \/ row'[c].status # "active"
  <2>1. now' = now /\ (row'[c].status # "active" \/ row'[c] = row[c])
    BY <1>1, <1>9, SettleCloses
  <2> QED
    BY <1>3, <2>1
<1>10. CASE \/ Tick
            \/ \E done \in SUBSET Contract, b \in Contract, k \in 1..2 :
                 TornTick(done, b, k)
            \/ \E done \in SUBSET Contract : PartialTick(done)
  BY <1>9, <1>10 DEF Tick, TornTick, PartialTick
<1>11. CASE \/ \E p \in Provider : PostEvent(p) \/ Reregister(p) \/ RecalculateScore(p)
            \/ Kill \/ Restart \/ Elapse
            \/ UNCHANGED vars
  <2>1. row' = row /\ now' \in {now, now + 1}
    BY <1>11 DEF PostEvent, Reregister, RecalculateScore, Kill, Restart, Elapse, vars
  <2> QED
    BY <1>3, <2>1
<1> QED
  BY <1>5, <1>6, <1>7, <1>8, <1>10, <1>11, Zenon DEF Next

\* The callback settles every expired contract.
LEMMA TickCloses ==
    ASSUME TypeOK, Tick, NEW c \in Expired
    PROVE  row'[c].status # "active"
<1>1. c \in Contract
  BY DEF Expired, Active
<1> QED
  BY <1>1, SettleCloses DEF Tick

\* Whatever kills, restarts, cuts, deposits and proofs come in between: a
\* contract past its term does not stay active for ever.
THEOREM ExpiredIsSettled ==
    FairSpec /\ []TickEnabled /\ []RestartEnabled => ExpiredSettles
<1>1. ASSUME NEW c \in Contract
      PROVE  FairSpec /\ []TickEnabled /\ []RestartEnabled
               => (c \in Expired ~> row[c].status # "active")
  <2>1. TypeOK /\ [Next]_vars /\ c \in Expired
          => (c \in Expired)' \/ (row[c].status # "active")'
    BY ExpiredStays
  <2>2. TypeOK /\ c \in Expired /\ <<Tick>>_vars => (row[c].status # "active")'
    BY TickCloses
  <2>3. c \in Expired /\ up /\ TickEnabled => ENABLED <<Tick>>_vars
    BY DEF TickEnabled, Due
  <2>4. <<Restart>>_vars => up'
    BY DEF Restart
  <2>5. RestartEnabled /\ ~up => ENABLED <<Restart>>_vars
    BY DEF RestartEnabled
  <2> QED
    BY <2>1, <2>2, <2>3, <2>4, <2>5, TypeCorrect, PTL
     DEF FairSpec, Spec, Fairness
<1> QED
  BY <1>1, Zenon DEF ExpiredSettles
=============================================================================
