---------------------------- MODULE DiscoveryProofs ----------------------------
(***************************************************************************)
(* Composed, the components behave as each does alone: Discovery           *)
(* implements Contracts, with the providers as given, and Registry, with   *)
(* the contracts and the events as what pins a provider.  So whatever is   *)
(* proved of either holds of the process that runs both; the foreign keys  *)
(* between their tables are the case in point.                             *)
(***************************************************************************)
EXTENDS Discovery, TLAPS

-----------------------------------------------------------------------------
(* What is proved of the components, by the names Discovery uses: an        *)
(* instance of a module and one of a module that extends it are the same    *)
(* formulas under two names.                                                *)

RP == INSTANCE RegistryProofs WITH pinned <- Pinned, Pinnable <- Provider
CP == INSTANCE ContractsProofs

LEMMA ContractsStepsByEitherName == [C!Next]_(C!vars) <=> [CP!Next]_(CP!vars)
<1>1. C!Next <=> CP!Next
  BY DEF C!Next, CP!Next, C!CreateContract, CP!CreateContract,
         C!RecordDeposit, CP!RecordDeposit, C!AcceptProof, CP!AcceptProof,
         C!RejectProof, CP!RejectProof, C!LogProof, CP!LogProof,
         C!Answered, CP!Answered, C!EmitEvent, CP!EmitEvent,
         C!Proved, CP!Proved, C!Struck, CP!Struck, C!Tick, CP!Tick,
         C!TornTick, CP!TornTick, C!PartialTick, CP!PartialTick, C!Settle, CP!Settle, C!Report, CP!Report,
         C!Expired, CP!Expired, C!Stale, CP!Stale, C!Active, CP!Active,
         C!Outcome, CP!Outcome, C!OutcomeEvent, CP!OutcomeEvent,
         C!PostEvent, CP!PostEvent, C!Reregister, CP!Reregister,
         C!RecalculateScore, CP!RecalculateScore, C!Kill, CP!Kill,
         C!Restart, CP!Restart, C!Elapse, CP!Elapse,
         C!NoRow, CP!NoRow, C!NoProof, CP!NoProof
<1> QED
  BY <1>1 DEF C!vars, CP!vars

LEMMA ContractsByEitherName ==
    /\ C!Spec <=> CP!Spec
    /\ C!TypeOK <=> CP!TypeOK
<1>1. C!TypeOK <=> CP!TypeOK
  BY DEF C!TypeOK, CP!TypeOK, C!Row, CP!Row, C!LogRow, CP!LogRow,
         C!EventType, CP!EventType, C!Status, CP!Status
<1>2. C!Init <=> CP!Init
  BY DEF C!Init, CP!Init, C!NoRow, CP!NoRow, C!NoProof, CP!NoProof,
         C!EventType, CP!EventType
<1>3. [C!Next]_(C!vars) <=> [CP!Next]_(CP!vars)
  BY ContractsStepsByEitherName
<1>4. C!Spec <=> CP!Spec
  BY <1>2, <1>3, PTL DEF C!Spec, CP!Spec
<1> QED
  BY <1>1, <1>4

LEMMA RegistryByEitherName ==
    /\ R!Spec <=> RP!Spec
    /\ R!TypeOK <=> RP!TypeOK
    /\ R!ReferencesResolve <=> RP!ReferencesResolve
<1>1. R!TypeOK <=> RP!TypeOK
  BY DEF R!TypeOK, RP!TypeOK, R!Health, RP!Health
<1>2. R!ReferencesResolve <=> RP!ReferencesResolve
  BY DEF R!ReferencesResolve, RP!ReferencesResolve
<1>3. R!Init <=> RP!Init
  BY DEF R!Init, RP!Init
<1> USE DEF R!rows, RP!rows, R!async, RP!async, R!ghost, RP!ghost,
            R!Cardinality, RP!Cardinality, R!Saturate, RP!Saturate
<1>4. \A p \in Provider : R!Answer(p) <=> RP!Answer(p)
  BY DEF R!Answer, RP!Answer, R!AnswerForNobody, RP!AnswerForNobody,
         R!AnswerHealthy, RP!AnswerHealthy, R!AnswerFailed, RP!AnswerFailed,
         R!AnswerRemoves, RP!AnswerRemoves, R!AnswerExits, RP!AnswerExits,
         R!Answered, RP!Answered, R!CheckFails, RP!CheckFails,
         R!Removable, RP!Removable, R!Count, RP!Count, R!Remove, RP!Remove,
         R!Delete, RP!Delete, R!Forget, RP!Forget,
         R!UpdateHeartbeat, RP!UpdateHeartbeat
<1>5. R!Next <=> RP!Next
  BY <1>4
     DEF R!Next, RP!Next, R!BeginRegister, RP!BeginRegister, R!Register, RP!Register,
         R!RefuseRegister, RP!RefuseRegister, R!Upsert, RP!Upsert,
         R!Unregister, RP!Unregister, R!Remove, RP!Remove, R!Delete, RP!Delete,
         R!Heartbeat, RP!Heartbeat, R!UpdateHeartbeat, RP!UpdateHeartbeat,
         R!Deactivate, RP!Deactivate, R!Activate, RP!Activate,
         R!SetHealth, RP!SetHealth, R!RegisterFile, RP!RegisterFile,
         R!RemoveFile, RP!RemoveFile, R!Pin, RP!Pin, R!ChangeMood, RP!ChangeMood,
         R!Round, RP!Round, R!Kill, RP!Kill, R!Restart, RP!Restart,
         R!Forget, RP!Forget
<1>6. [R!Next]_(R!vars) <=> [RP!Next]_(RP!vars)
  BY <1>5 DEF R!vars, RP!vars
<1>7. R!Spec <=> RP!Spec
  BY <1>3, <1>6, PTL DEF R!Spec, RP!Spec
<1> QED
  BY <1>1, <1>2, <1>7

LEMMA ContractsType == C!Spec => []C!TypeOK
<1>1. CP!Spec => []CP!TypeOK
  BY ConstantsAssumption, CP!TypeCorrect DEF C!ConstantsAssumption
<1>2. (C!Spec <=> CP!Spec) /\ (C!TypeOK <=> CP!TypeOK)
  BY ContractsByEitherName
<1> QED
  BY <1>1, <1>2, PTL

LEMMA RegistryFacts == R!Spec => [](R!TypeOK /\ R!ReferencesResolve)
<1>1. (RP!Spec => []RP!TypeOK) /\ (RP!Spec => []RP!ReferencesResolve)
  BY ConstantsAssumption, RP!TypeCorrect, RP!ReferencesHold
     DEF R!ConstantsAssumption, R!IsFiniteSet, RP!IsFiniteSet
<1>2. /\ R!Spec <=> RP!Spec
      /\ R!TypeOK <=> RP!TypeOK
      /\ R!ReferencesResolve <=> RP!ReferencesResolve
  BY RegistryByEitherName
<1> QED
  BY <1>1, <1>2, PTL

-----------------------------------------------------------------------------
(* The contracts: every step is one of theirs or leaves them alone.         *)

LEMMA ContractsStep == [Next]_vars => [C!Next]_(C!vars)
<1> SUFFICES ASSUME [Next]_vars
             PROVE  C!Next \/ UNCHANGED C!vars
  OBVIOUS
<1> USE DEF C!vars, contracts
<1>1. CASE RegistryStep \/ Round
  BY <1>1, Zenon DEF RegistryStep, Round
<1>2. ASSUME NEW p \in Provider, Answer(p)
      PROVE  UNCHANGED C!vars
  BY <1>2, Zenon DEF Answer
<1>3. ASSUME NEW p \in Provider, Register(p)
      PROVE  C!Next \/ UNCHANGED C!vars
  BY <1>3, Zenon DEF Register, C!Next
<1>4. ASSUME NEW p \in Provider, PostEvent(p) \/ Exit(p)
      PROVE  C!Next
  BY <1>4, Zenon DEF PostEvent, Exit, C!Next
<1>5. CASE Request
  BY <1>5, Zenon DEF Request, C!Next
<1>6. ASSUME NEW c \in Contract, NEW d \in Durations, CreateContract(c, d)
      PROVE  C!Next
  BY <1>6, Zenon DEF CreateContract, C!Next
<1>7. CASE Tick \/ TornTick \/ PartialTick \/ Elapse \/ Kill \/ Restart
  BY <1>7, Zenon DEF Tick, TornTick, PartialTick, Elapse, Kill, Restart, C!Next
<1>8. CASE MinutePasses \/ UNCHANGED vars
  BY <1>8, Zenon DEF MinutePasses, vars
<1> QED
  BY <1>1, <1>2, <1>3, <1>4, <1>5, <1>6, <1>7, <1>8, Zenon DEF Next

\* The process that runs both implements the contracts: nothing the registry
\* does, its exits included, is more than a kill, a restart or a repeated
\* registration to them.
THEOREM ImplementsContracts == Spec => ContractsImplemented
<1>1. Init => C!Init
  BY DEF Init
<1> QED
  BY <1>1, ContractsStep, PTL DEF Spec, ContractsImplemented, C!Spec

LEMMA ContractsTyped == Spec => []C!TypeOK
<1>1. Spec => C!Spec
  BY ImplementsContracts DEF ContractsImplemented
<1> QED
  BY <1>1, ContractsType, PTL

-----------------------------------------------------------------------------
(* The registry: what the other side does to it is to pin a provider, to    *)
(* kill the process, or nothing, because no contract that exists goes away. *)

LEMMA PinnedStays ==
    ASSUME cited' = cited,
           \A x \in Contract : row'[x].status = "none" <=> row[x].status = "none"
    PROVE  Pinned' = Pinned
BY DEF Pinned

\* A contract that a request touches exists before and after it.
LEMMA RequestPinsNobody ==
    ASSUME C!TypeOK, Request
    PROVE  Pinned' = Pinned
<1>1. row \in [Contract -> C!Row] /\ cited' = cited
  BY DEF C!TypeOK, Request
<1>2. ASSUME NEW c \in Contract, NEW k \in 1..2, C!RecordDeposit(c, k)
      PROVE  Pinned' = Pinned
  <2>1. row' = [row EXCEPT ![c].status = "active"] /\ row[c].status # "none"
    BY <1>2, Zenon DEF C!RecordDeposit
  <2>2. \A x \in Contract : row'[x].status = "none" <=> row[x].status = "none"
    BY <1>1, <2>1 DEF C!Row
  <2> QED
    BY <1>1, <2>2, PinnedStays
<1>3. ASSUME NEW c \in Contract,
             \/ \E k \in 1..4 : C!AcceptProof(c, k)
             \/ \E k \in 1..5 : C!RejectProof(c, k)
      PROVE  Pinned' = Pinned
  <2>1. row[c].status = "active"
    BY <1>3, Zenon DEF C!AcceptProof, C!RejectProof, C!LogProof
  <2>2. \/ row' = row
        \/ row' = [row EXCEPT ![c] = C!Proved(row[c], now)]
        \/ \E fails : row' = [row EXCEPT ![c] = C!Struck(row[c], fails)]
    BY <1>3, Zenon DEF C!AcceptProof, C!RejectProof
  <2>3. /\ row[c] \in C!Row /\ C!Proved(row[c], now).status # "none"
        /\ \A fails : C!Struck(row[c], fails).status # "none"
    BY <1>1, <2>1 DEF C!Row, C!Proved, C!Struck
  <2>4. \A x \in Contract : row'[x].status = "none" <=> row[x].status = "none"
    BY <1>1, <2>1, <2>2, <2>3
  <2> QED
    BY <1>1, <2>4, PinnedStays
<1>4. ASSUME NEW p \in Provider, C!RecalculateScore(p)
      PROVE  Pinned' = Pinned
  BY <1>1, <1>4, PinnedStays DEF C!RecalculateScore
<1> QED
  BY <1>2, <1>3, <1>4 DEF Request

LEMMA TickPinsNobody ==
    ASSUME C!TypeOK, Tick
    PROVE  Pinned' = Pinned
<1>1. row \in [Contract -> C!Row] /\ cited' = cited
  BY DEF C!TypeOK, Tick, own
<1> DEFINE S == C!Expired \cup C!Stale
<1>2. row' = [c \in Contract |-> IF c \in S THEN [row[c] EXCEPT !.status = C!Outcome(c)]
                                          ELSE row[c]]
  BY DEF Tick, C!Tick, C!Settle, C!Report
<1>3. \A c \in S : row[c].status # "none"
  BY DEF C!Expired, C!Stale, C!Active
<1>4. \A c : C!Outcome(c) # "none"
  BY DEF C!Outcome
<1> HIDE DEF S
<1>5. \A x \in Contract : row'[x].status = "none" <=> row[x].status = "none"
  BY <1>1, <1>2, <1>3, <1>4 DEF C!Row
<1> QED
  BY <1>1, <1>5, PinnedStays

LEMMA RegistryStepMaps == C!TypeOK /\ [Next]_vars => [R!Next]_(R!vars)
<1> SUFFICES ASSUME C!TypeOK, [Next]_vars
             PROVE  R!Next \/ UNCHANGED R!vars
  OBVIOUS
<1>1. ASSUME UNCHANGED registry, Pinned' = Pinned
      PROVE  UNCHANGED R!vars
  BY <1>1 DEF registry, R!vars
<1>2. CASE RegistryStep \/ Round
  BY <1>2, Zenon DEF RegistryStep, Round, R!Next
<1>3. ASSUME NEW p \in Provider,
             Answer(p) \/ Register(p) \/ PostEvent(p) \/ Exit(p)
      PROVE  R!Next
  BY <1>3, Zenon DEF Answer, Register, PostEvent, Exit, R!Answer, R!Next
<1>4. CASE Request
  <2>1. CASE UNCHANGED registry
    BY <1>1, <1>4, <2>1, RequestPinsNobody
  <2>2. CASE R!Kill
    BY <2>2 DEF R!Next
  <2> QED
    BY <1>4, <2>1, <2>2, Zenon DEF Request
<1>5. ASSUME NEW c \in Contract, NEW d \in Durations, CreateContract(c, d)
      PROVE  R!Next
  <2>1. ProviderOf[c] \in Provider
    BY ConstantsAssumption DEF C!ConstantsAssumption
  <2> QED
    BY <1>5, <2>1, Zenon DEF CreateContract, R!Next
<1>6. CASE Tick
  <2>1. UNCHANGED registry
    BY <1>6, Zenon DEF Tick
  <2> QED
    BY <1>1, <1>6, <2>1, TickPinsNobody
<1>7. CASE Elapse \/ MinutePasses \/ UNCHANGED vars
  <2>1. UNCHANGED registry /\ row' = row /\ cited' = cited
    BY <1>7 DEF Elapse, MinutePasses, C!Elapse, own, vars, contracts
  <2> QED
    BY <1>1, <2>1, PinnedStays
<1>8. CASE TornTick \/ PartialTick \/ Kill \/ Restart
  BY <1>8, Zenon DEF TornTick, PartialTick, Kill, Restart, R!Next
<1> QED
  BY <1>2, <1>3, <1>4, <1>5, <1>6, <1>7, <1>8, Zenon DEF Next

\* The process that runs both implements the registry: the contracts and the
\* events pin providers and never unpin them, and what else the contracts do,
\* the registry does not notice or is killed by.
THEOREM ImplementsRegistry == Spec => RegistryImplemented
<1>1. Init => R!Init
  BY DEF Init
<1> QED
  BY <1>1, ContractsTyped, RegistryStepMaps, PTL DEF Spec, RegistryImplemented, R!Spec

LEMMA RegistryHolds == Spec => [](R!TypeOK /\ R!ReferencesResolve)
<1>1. Spec => R!Spec
  BY ImplementsRegistry DEF RegistryImplemented
<1> QED
  BY <1>1, RegistryFacts, PTL

\* No contract, event or file is left pointing at a provider that is gone.
THEOREM ReferencesAcrossTables == Spec => []ContractsResolve
<1>1. R!ReferencesResolve <=> ContractsResolve
  BY DEF ContractsResolve
<1> QED
  BY <1>1, RegistryHolds, PTL

-----------------------------------------------------------------------------
(* What is the process's own: a process that is down has no timer.          *)

OwnTypeOK ==
    /\ cited \subseteq Provider
    /\ minute \in BOOLEAN /\ (minute => up)
    /\ kills \in 0..MaxKills

LEMMA OwnNext == OwnTypeOK /\ [Next]_vars => OwnTypeOK'
<1> SUFFICES ASSUME OwnTypeOK, [Next]_vars
             PROVE  OwnTypeOK'
  OBVIOUS
<1> USE DEF own, contracts
<1>1. MaxKills \in Nat
  BY ConstantsAssumption
<1>2. ASSUME UNCHANGED own, up' = up
      PROVE  OwnTypeOK'
  BY <1>2 DEF OwnTypeOK
<1>3. ASSUME minute' = FALSE, UNCHANGED <<cited, kills>>
      PROVE  OwnTypeOK'
  BY <1>3 DEF OwnTypeOK
<1>4. CASE RegistryStep \/ Round
  BY <1>2, <1>4, Zenon DEF RegistryStep, Round
<1>5. ASSUME NEW p \in Provider, Answer(p) \/ Register(p)
      PROVE  OwnTypeOK'
  <2>1. UNCHANGED own /\ up' = up
    BY <1>5, Zenon DEF Answer, Register, C!Reregister
  <2> QED
    BY <1>2, <2>1
<1>6. ASSUME NEW p \in Provider, PostEvent(p)
      PROVE  OwnTypeOK'
  <2>1. /\ cited' = cited \cup {p} /\ minute' = minute /\ kills' = kills
        /\ up' = up
    BY <1>6, Zenon DEF PostEvent, C!PostEvent
  <2> QED
    BY <2>1 DEF OwnTypeOK
<1>7. CASE Request
  <2>1. UNCHANGED <<cited, kills>> /\ minute' = (minute /\ up')
    BY <1>7, Zenon DEF Request
  <2>2. minute' \in BOOLEAN /\ (minute' => up')
    BY <2>1, Zenon
  <2> QED
    BY <2>1, <2>2 DEF OwnTypeOK
<1>8. ASSUME NEW c \in Contract, NEW d \in Durations, CreateContract(c, d)
      PROVE  OwnTypeOK'
  <2>1. UNCHANGED own /\ up' = up
    BY <1>8, Zenon DEF CreateContract, C!CreateContract
  <2> QED
    BY <1>2, <2>1
<1>9. CASE Tick \/ Elapse
  <2>1. UNCHANGED own /\ up' = up
    BY <1>9 DEF Tick, Elapse, C!Tick, C!Elapse
  <2> QED
    BY <1>2, <2>1
<1>10. CASE TornTick \/ \E p \in Provider : Exit(p)
  BY <1>3, <1>10, Zenon DEF TornTick, Exit
<1>11. CASE Kill \/ PartialTick
  <2>1. /\ cited' = cited /\ kills < MaxKills /\ kills' = kills + 1
    BY <1>11, Zenon DEF Kill, PartialTick
  <2>2. minute' \in BOOLEAN /\ (minute' => up')
    BY <1>11, Zenon DEF Kill, PartialTick
  <2> QED
    BY <1>1, <2>1, <2>2 DEF OwnTypeOK
<1>12. CASE Restart
  <2>1. UNCHANGED own /\ up' = TRUE
    BY <1>12, Zenon DEF Restart, C!Restart
  <2> QED
    BY <2>1 DEF OwnTypeOK
<1>13. CASE MinutePasses
  <2>1. up' = up /\ UNCHANGED <<cited, kills>>
    BY <1>13 DEF MinutePasses
  <2>2. minute' = TRUE /\ up
    BY <1>13, Zenon DEF MinutePasses
  <2>3. up'
    BY <2>1, <2>2
  <2>4. minute' \in BOOLEAN /\ (minute' => up')
    BY <2>2, <2>3, Zenon
  <2> QED
    BY <2>1, <2>4 DEF OwnTypeOK
<1>14. CASE UNCHANGED vars
  BY <1>2, <1>14, Zenon DEF vars
<1> QED
  BY <1>4, <1>5, <1>6, <1>7, <1>8, <1>9, <1>10, <1>11, <1>12, <1>13, <1>14, Zenon
     DEF Next

\* Every reachable state of the whole has the types TypeOK gives.
THEOREM TypeCorrect == Spec => []TypeOK
<1>1. Init => OwnTypeOK
  <2>1. Init => minute \in BOOLEAN /\ (minute => up) /\ cited \subseteq Provider
    BY Zenon DEF Init
  <2>2. Init => kills \in 0..MaxKills
    BY ConstantsAssumption DEF Init
  <2> QED
    BY <2>1, <2>2 DEF OwnTypeOK
<1>2. R!TypeOK /\ C!TypeOK /\ OwnTypeOK => TypeOK
  BY DEF OwnTypeOK, TypeOK
<1> QED
  BY <1>1, <1>2, OwnNext, ContractsTyped, RegistryHolds, PTL DEF Spec

-----------------------------------------------------------------------------
(* What is proved of the components alone, taken over to the whole.         *)

ContractsSafe ==
    /\ C!SettledOncePerDeposit /\ C!ProofsAccounted /\ C!PeriodsIncrease
    /\ C!FailuresAreConsecutive /\ C!FailedForCause /\ C!ViolatedOnlyAfterProof
    /\ C!ScoresFollowEvents
    /\ CP!CompletedIsOver

\* The registry's exits and its repeated registrations leave the contracts'
\* books as true as kills and restarts do: settlements are paid for, proofs
\* accounted for, failures in a row, violations proved first, scores explained,
\* completions due.
THEOREM ContractsKeepTheirWord == Spec => []ContractsSafe
<1>1. /\ C!SettledOncePerDeposit <=> CP!SettledOncePerDeposit
      /\ C!ProofsAccounted <=> CP!ProofsAccounted
      /\ C!PeriodsIncrease <=> CP!PeriodsIncrease
      /\ C!FailuresAreConsecutive <=> CP!FailuresAreConsecutive
      /\ C!FailedForCause <=> CP!FailedForCause
      /\ C!ViolatedOnlyAfterProof <=> CP!ViolatedOnlyAfterProof
      /\ C!ScoresFollowEvents <=> CP!ScoresFollowEvents
  BY DEF C!SettledOncePerDeposit, CP!SettledOncePerDeposit,
         C!ProofsAccounted, CP!ProofsAccounted,
         C!PeriodsIncrease, CP!PeriodsIncrease,
         C!FailuresAreConsecutive, CP!FailuresAreConsecutive,
         C!FailedForCause, CP!FailedForCause,
         C!ViolatedOnlyAfterProof, CP!ViolatedOnlyAfterProof,
         C!ScoresFollowEvents, CP!ScoresFollowEvents
<1>2. C!ConstantsAssumption => CP!ConstantsAssumption
  BY DEF C!ConstantsAssumption, CP!ConstantsAssumption
<1>3. /\ CP!Spec => []CP!SettledOncePerDeposit
      /\ CP!Spec => []CP!ProofsAccounted
      /\ CP!Spec => []CP!PeriodsIncrease
      /\ CP!Spec => []CP!FailuresAreConsecutive
      /\ CP!Spec => []CP!FailedForCause
      /\ CP!Spec => []CP!ViolatedOnlyAfterProof
      /\ CP!Spec => []CP!ScoresFollowEvents
      /\ CP!Spec => []CP!CompletedIsOver
  BY <1>2, ConstantsAssumption, CP!SettlementsPaidFor, CP!ProofsAreAccounted,
     CP!PeriodsAscend, CP!FailuresInARow, CP!FailuresCaused,
     CP!ViolationsAfterProof, CP!ScoresKeepUp, CP!CompletionsAreDue
     DEF CP!ConstantsAssumption
<1>4. Spec => CP!Spec
  BY ImplementsContracts, ContractsByEitherName DEF ContractsImplemented
<1> QED
  BY <1>1, <1>3, <1>4, PTL DEF ContractsSafe

\* The contracts' requests, ticks and deaths leave the registry's promises
\* alone: it exits over pinned providers at the end of a full run of trouble only,
\* rows come by registration only, and the checker removes for a full run of bad
\* reports.
THEOREM RegistryKeepsItsWord ==
    Spec => []R!ExitsAreEarned /\ R!OnlyRegistrationAdds /\ R!RemovalIsEarned
<1>1. R!ExitsAreEarned <=> RP!ExitsAreEarned
  BY DEF R!ExitsAreEarned, RP!ExitsAreEarned
<1>2. /\ R!OnlyRegistrationAdds <=> RP!OnlyRegistrationAdds
      /\ R!RemovalIsEarned <=> RP!RemovalIsEarned
  BY PTL
     DEF R!OnlyRegistrationAdds, RP!OnlyRegistrationAdds, R!RemovalIsEarned,
         RP!RemovalIsEarned, R!CheckerRemoves, RP!CheckerRemoves, R!vars, RP!vars
<1>3. /\ RP!Spec => []RP!ExitsAreEarned
      /\ RP!Spec => RP!OnlyRegistrationAdds
      /\ RP!Spec => RP!RemovalIsEarned
  BY ConstantsAssumption, RP!ExitsEarned, RP!RowsAreRegistered, RP!RemovalsAreEarned
     DEF R!ConstantsAssumption, R!IsFiniteSet, RP!IsFiniteSet
<1>4. Spec => RP!Spec
  BY ImplementsRegistry, RegistryByEitherName DEF RegistryImplemented
<1> QED
  BY <1>1, <1>2, <1>3, <1>4, PTL

-----------------------------------------------------------------------------
(* Liveness.  The provers know no rule for ENABLED, so when the fair        *)
(* actions are enabled is a hypothesis: the minute passes for a process     *)
(* that is up, and then Tick changes the row of whatever is due.            *)

MinuteEnabled == up /\ ~minute => ENABLED <<MinutePasses>>_vars
TickEnabled ==
    up /\ minute /\ C!Expired \cup C!Stale # {} => ENABLED <<Tick>>_vars

\* The process keeps its timer as long as it is up.
LEMMA MinuteStays ==
    ASSUME [Next]_vars, minute, up'
    PROVE  minute'
<1>1. CASE RegistryStep \/ Round \/ Tick \/ Elapse \/ Restart \/ UNCHANGED vars
  BY <1>1, Zenon DEF RegistryStep, Round, Tick, Elapse, Restart, own, vars
<1>2. ASSUME NEW p \in Provider, Answer(p) \/ Register(p) \/ PostEvent(p)
      PROVE  minute'
  BY <1>2, Zenon DEF Answer, Register, PostEvent, own
<1>3. CASE Request
  BY <1>3, Zenon DEF Request
<1>4. ASSUME NEW c \in Contract, NEW d \in Durations, CreateContract(c, d)
      PROVE  minute'
  BY <1>4, Zenon DEF CreateContract, own
<1>5. CASE TornTick \/ PartialTick \/ Kill \/ \E p \in Provider : Exit(p)
  <2>1. up' = FALSE
    BY <1>5, Zenon DEF TornTick, PartialTick, Kill, Exit, C!TornTick, C!PartialTick, C!Kill
  <2> QED
    BY <2>1
<1>6. CASE MinutePasses
  BY <1>6, Zenon DEF MinutePasses
<1> QED
  BY <1>1, <1>2, <1>3, <1>4, <1>5, <1>6, Zenon DEF Next

\* The timer settles what has expired in the composed process as well.
SettlesOnceUp ==
    \A c \in Contract : <>[]up => (c \in C!Expired ~> row[c].status # "active")

\* Once the process stays up, every contract past its term is settled: nothing
\* but its going down again, which only kills, cuts and pinned providers bring
\* about, keeps the minute from passing or the timer from firing.
THEOREM UpMeansSettled ==
    FairSpec /\ []MinuteEnabled /\ []TickEnabled => SettlesOnceUp
<1>1. C!Expired = CP!Expired /\ (C!Tick <=> CP!Tick)
  BY DEF C!Expired, CP!Expired, C!Active, CP!Active, C!Tick, CP!Tick,
         C!Settle, CP!Settle, C!Report, CP!Report, C!Stale, CP!Stale,
         C!Outcome, CP!Outcome, C!OutcomeEvent, CP!OutcomeEvent,
         C!NoProof, CP!NoProof
<1>2. ASSUME C!TypeOK, [Next]_vars, NEW c \in C!Expired
      PROVE  c \in C!Expired' \/ row'[c].status # "active"
  <2>1. CP!TypeOK /\ [CP!Next]_(CP!vars)
    BY <1>2, ContractsStep, ContractsByEitherName, ContractsStepsByEitherName
  <2>2. c \in CP!Expired' \/ row'[c].status # "active"
    BY <1>1, <1>2, <2>1, ConstantsAssumption, CP!ExpiredStays DEF C!ConstantsAssumption
  <2>3. C!Expired' = CP!Expired'
    BY DEF C!Expired, CP!Expired, C!Active, CP!Active
  <2> QED
    BY <2>2, <2>3
<1>3. ASSUME C!TypeOK, Tick, NEW c \in C!Expired
      PROVE  row'[c].status # "active"
  <2>1. CP!TypeOK /\ CP!Tick
    BY <1>1, <1>3, ContractsByEitherName DEF Tick
  <2> QED
    BY <1>1, <1>3, <2>1, ConstantsAssumption, CP!TickCloses DEF C!ConstantsAssumption
<1>4. ASSUME NEW c \in Contract
      PROVE  FairSpec /\ []MinuteEnabled /\ []TickEnabled
               => (<>[]up => (c \in C!Expired ~> row[c].status # "active"))
  <2>1. C!TypeOK /\ [Next]_vars /\ c \in C!Expired
          => (c \in C!Expired)' \/ (row[c].status # "active")'
    BY <1>2
  <2>2. C!TypeOK /\ c \in C!Expired /\ <<Tick>>_vars => (row[c].status # "active")'
    BY <1>3
  <2>3. [Next]_vars /\ minute /\ up' => minute'
    BY MinuteStays
  <2>4. <<MinutePasses>>_vars => minute'
    BY DEF MinutePasses
  <2>5. MinuteEnabled /\ up /\ ~minute => ENABLED <<MinutePasses>>_vars
    BY DEF MinuteEnabled
  <2>6. TickEnabled /\ up /\ minute /\ c \in C!Expired => ENABLED <<Tick>>_vars
    BY DEF TickEnabled
  <2> QED
    BY <2>1, <2>2, <2>3, <2>4, <2>5, <2>6, ContractsTyped, PTL
       DEF FairSpec, Spec, Fairness
<1> QED
  BY <1>4, Zenon DEF SettlesOnceUp
=============================================================================
