----------------------------- MODULE ServerProofs ------------------------------
(***************************************************************************)
(* Proofs about Server, for every list of migrations and every number of   *)
(* kills: the service never runs on half a schema, and a shutdown ends.    *)
(***************************************************************************)
EXTENDS Server, TLAPS

-----------------------------------------------------------------------------
(* The inductive invariant.  The next start goes by what is recorded alone, *)
(* so while the migrations run, the files behind the current one have to be *)
(* recorded, and of the current one what has been executed.                 *)

pc == IF phase \in Past THEN "up" ELSE phase

Behind ==
    pc = "migrating" =>
        /\ \A m \in M!Migration : m < at[1] => m \in applied
        /\ at[1] \in M!Migration \ known =>
             \A i \in DOMAIN Script[at[1]] : i < at[2] => <<at[1], i>> \in schema

\* Every handler of a signal under way had a signal of its own.
Handlers == waiting \in Nat /\ closing \in Nat /\ waiting + closing <= kills

Inv == TypeOK /\ UpMeansMigrated /\ Behind /\ Handlers

LEMMA Scripts ==
    /\ Len(Script) \in Nat /\ M!Migration = 1..Len(Script)
    /\ \A m \in M!Migration : /\ Len(Script[m]) \in Nat
                              /\ DOMAIN Script[m] = 1..Len(Script[m])
    /\ MaxKills \in Nat /\ MaxRequests \in Nat
BY ConstantsAssumption DEF M!ConstantsOK, M!Migration

LEMMA StatementAt ==
    \A m \in M!Migration : \A i : <<m, i>> \in M!Statement <=> i \in DOMAIN Script[m]
BY DEF M!Statement

\* The types of what the migrations do not touch.
Own ==
    /\ phase \in Past \cup {"down", "migrating"}
    /\ port \in {"good", "refused", "NaN"} /\ indexed \in BOOLEAN
    /\ timers \in BOOLEAN
    /\ requests \in 0..MaxRequests

LEMMA TypeParts ==
    TypeOK <=> /\ Own /\ M!TypeOK
               /\ waiting \in 0..MaxKills /\ closing \in 0..MaxKills
BY Zenon DEF TypeOK, Own

\* A step that leaves the migrations alone and the process in its stage, or
\* that ends it, keeps what the invariant says of the schema.
LEMMA SchemaStays ==
    ASSUME Inv, UNCHANGED migration, pc' = pc \/ pc' = "down", kills' \in 0..MaxKills
    PROVE  M!TypeOK' /\ UpMeansMigrated' /\ Behind'
<1> USE DEF migration
<1>1. M!TypeOK'
  BY DEF Inv, TypeOK, M!TypeOK, pc
<1>2. UpMeansMigrated'
  BY DEF Inv, UpMeansMigrated, M!UpMeansMigrated, M!Complete, pc
<1>3. Behind'
  BY DEF Inv, Behind
<1> QED
  BY <1>1, <1>2, <1>3

LEMMA InitInv == Init => Inv
<1> SUFFICES ASSUME Init
             PROVE  Inv
  OBVIOUS
<1> USE DEF Init
<1>1. phase = "down" /\ M!Init
  OBVIOUS
<1>2. Own
  <2>1. requests \in 0..MaxRequests /\ phase \in Past \cup {"down", "migrating"}
    BY Scripts DEF Past
  <2>2. timers \in BOOLEAN
    BY Zenon
  <2>3. port \in {"good", "refused", "NaN"} /\ indexed \in BOOLEAN
    BY Zenon
  <2> QED
    BY <2>1, <2>2, <2>3, Zenon DEF Own
<1>3. M!TypeOK
  BY Scripts DEF M!TypeOK, M!Init, Past
<1>4. UpMeansMigrated /\ Behind
  BY DEF M!Init, UpMeansMigrated, M!UpMeansMigrated, M!Complete, Behind, pc, Past
<1>5. Handlers /\ waiting \in 0..MaxKills /\ closing \in 0..MaxKills
  BY Scripts DEF M!Init, Handlers
<1> QED
  BY <1>2, <1>3, <1>4, <1>5, TypeParts DEF Inv

-----------------------------------------------------------------------------
(* The steps of the migrations *)

\* What is recorded now is complete, and is what the next file rests on.
LEMMA RecordKeeps ==
    ASSUME Inv, NEW m \in M!Migration, M!Record(m), phase' = phase
    PROVE  M!TypeOK' /\ UpMeansMigrated' /\ Behind'
<1>1. /\ pc = "migrating" /\ at[1] = m /\ m \notin known
      /\ at \notin M!Statement
      /\ applied' = applied \cup {m} /\ at' = <<m + 1, 1>>
      /\ UNCHANGED <<schema, known, kills>>
  BY DEF M!Record, M!Executed, M!AtFile, pc
<1>2. /\ at \in (1..Len(Script) + 1) \X (Nat \ {0})
      /\ schema \subseteq M!Statement /\ applied \subseteq M!Migration
      /\ known \subseteq applied /\ kills \in 0..MaxKills
  BY DEF Inv, TypeOK, M!TypeOK
<1>3. at = <<m, at[2]>> /\ at[2] \in Nat \ {0}
  BY <1>1, <1>2
<1>4. at[2] \notin DOMAIN Script[m]
  BY <1>1, <1>3, StatementAt
<1>5. \A i \in DOMAIN Script[m] : i < at[2]
  BY <1>3, <1>4, Scripts
<1>6. M!Complete(m)
  BY <1>1, <1>5 DEF Inv, Behind, M!Complete
<1>7. M!TypeOK'
  BY <1>1, <1>2, Scripts DEF M!TypeOK, pc, Inv, TypeOK
<1>8. pc' = pc
  BY DEF pc
<1>9. UpMeansMigrated'
  BY <1>1, <1>6, <1>8 DEF Inv, UpMeansMigrated, M!UpMeansMigrated, M!Complete, pc
<1>10. Behind'
  <2>1. \A k \in M!Migration : k < m + 1 => k \in applied'
    <3> SUFFICES ASSUME NEW k \in M!Migration, k < m + 1
                 PROVE  k \in applied'
      OBVIOUS
    <3>1. k = m \/ k < m
      BY Scripts
    <3> QED
      BY <1>1, <3>1 DEF Inv, Behind
  <2>2. \A i \in DOMAIN Script[m + 1] : m + 1 \in M!Migration => ~(i < 1)
    BY Scripts
  <2> QED
    BY <1>1, <2>1, <2>2 DEF Behind
<1> QED
  BY <1>7, <1>9, <1>10

\* A statement is executed when all files before its own are recorded.
LEMMA ExecuteKeeps ==
    ASSUME Inv, NEW m \in M!Migration, M!Execute(m), phase' = phase
    PROVE  M!TypeOK' /\ UpMeansMigrated' /\ Behind'
<1>1. /\ pc = "migrating" /\ at[1] = m /\ m \notin known
      /\ at \in M!Statement
      /\ schema' = schema \cup {at} /\ at' = <<m, at[2] + 1>>
      /\ UNCHANGED <<applied, known, kills>>
  BY DEF M!Execute, M!AtFile, pc
<1>2. /\ at \in (1..Len(Script) + 1) \X (Nat \ {0})
      /\ schema \subseteq M!Statement /\ applied \subseteq M!Migration
      /\ known \subseteq applied /\ kills \in 0..MaxKills
  BY DEF Inv, TypeOK, M!TypeOK
<1>3. at = <<m, at[2]>> /\ at[2] \in Nat \ {0}
  BY <1>1, <1>2
<1>4. M!TypeOK'
  BY <1>1, <1>2, <1>3, Scripts DEF M!TypeOK, pc, Inv, TypeOK
<1>5. pc' = pc
  BY DEF pc
<1>6. \A k \in M!Migration : k < m => k \in applied
  BY <1>1 DEF Inv, Behind
<1>7. UpMeansMigrated'
  <2>1. \A s \in schema', k \in M!Migration : k < s[1] => k \in applied
    BY <1>1, <1>6 DEF Inv, UpMeansMigrated, M!UpMeansMigrated
  <2>2. \A k \in applied : M!Complete(k)'
    BY <1>1 DEF Inv, UpMeansMigrated, M!UpMeansMigrated, M!Complete
  <2> QED
    BY <1>1, <1>5, <2>1, <2>2 DEF UpMeansMigrated, M!UpMeansMigrated, pc
<1>8. Behind'
  <2>1. \A i \in DOMAIN Script[m] : i < at[2] => <<m, i>> \in schema
    BY <1>1 DEF Inv, Behind
  <2>2. \A i \in DOMAIN Script[m] : i < at[2] + 1 => i < at[2] \/ i = at[2]
    BY <1>3, Scripts
  <2>3. \A i \in DOMAIN Script[m] : i < at[2] + 1 => <<m, i>> \in schema'
    BY <1>1, <1>3, <2>1, <2>2
  <2> QED
    BY <1>1, <1>6, <2>3 DEF Behind
<1> QED
  BY <1>4, <1>7, <1>8

LEMMA MigrationKeeps ==
    ASSUME Inv,
           \/ M!Start /\ phase' = "migrating"
           \/ Migrate
           \/ MigrationThrows
           \/ Migrated
    PROVE  M!TypeOK' /\ UpMeansMigrated' /\ Behind'
<1>0. /\ at \in (1..Len(Script) + 1) \X (Nat \ {0})
      /\ schema \subseteq M!Statement /\ applied \subseteq M!Migration
      /\ known \subseteq applied /\ kills \in 0..MaxKills
  BY DEF Inv, TypeOK, M!TypeOK
<1>1. CASE M!Start /\ phase' = "migrating"
  <2>1. /\ known' = applied /\ at' = <<1, 1>>
        /\ UNCHANGED <<schema, applied, kills>>
        /\ pc' = "migrating"
    BY <1>1 DEF M!Start, pc, Past
  <2>2. M!TypeOK'
    BY <1>0, <2>1, Scripts DEF M!TypeOK, pc
  <2>3. UpMeansMigrated'
    BY <2>1 DEF Inv, UpMeansMigrated, M!UpMeansMigrated, M!Complete, pc
  <2>4. \A k \in M!Migration : ~(k < 1)
    BY Scripts
  <2>5. \A i \in DOMAIN Script[1] : 1 \in M!Migration => ~(i < 1)
    BY Scripts
  <2>6. Behind'
    BY <2>1, <2>4, <2>5 DEF Behind
  <2> QED
    BY <2>2, <2>3, <2>6
<1>2. ASSUME NEW m \in M!Migration, M!Skip(m), phase' = phase
      PROVE  M!TypeOK' /\ UpMeansMigrated' /\ Behind'
  <2>1. /\ pc = "migrating" /\ at[1] = m /\ m \in known
        /\ at' = <<m + 1, 1>>
        /\ UNCHANGED <<schema, applied, known, kills>>
    BY <1>2 DEF M!Skip, M!AtFile, pc
  <2>2. pc' = pc
    BY <1>2 DEF pc
  <2>3. M!TypeOK'
    BY <1>0, <2>1, <2>2, Scripts DEF M!TypeOK, pc, Inv, TypeOK
  <2>4. UpMeansMigrated'
    BY <2>1, <2>2 DEF Inv, UpMeansMigrated, M!UpMeansMigrated, M!Complete, pc
  <2>5. \A k \in M!Migration : k < m + 1 => k \in applied
    <3> SUFFICES ASSUME NEW k \in M!Migration, k < m + 1
                 PROVE  k \in applied
      OBVIOUS
    <3>1. k = m \/ k < m
      BY Scripts
    <3> QED
      BY <1>0, <2>1, <3>1 DEF Inv, Behind
  <2>6. \A i \in DOMAIN Script[m + 1] : m + 1 \in M!Migration => ~(i < 1)
    BY Scripts
  <2>7. Behind'
    BY <2>1, <2>5, <2>6 DEF Behind
  <2> QED
    BY <2>3, <2>4, <2>7
<1>3. CASE Migrate
  BY <1>2, <1>3, ExecuteKeeps, RecordKeeps DEF Migrate
<1>4. CASE MigrationThrows
  <2>1. UNCHANGED migration /\ kills' = kills /\ phase' = "down"
    BY <1>4 DEF MigrationThrows, M!Throw, migration
  <2>2. pc' = "down"
    BY <2>1 DEF pc, Past
  <2> QED
    BY <1>0, <2>1, <2>2, SchemaStays
<1>5. CASE Migrated
  <2>1. /\ pc = "migrating" /\ at[1] \notin M!Migration
        /\ UNCHANGED <<schema, applied, known, at, kills>> /\ pc' = "up"
    BY <1>5 DEF Migrated, M!Serve, pc, Past
  <2>2. at[1] = Len(Script) + 1
    BY <1>0, <2>1, Scripts
  <2>3. \A k \in M!Migration : k < at[1]
    BY <2>2, Scripts
  <2>4. applied = M!Migration
    BY <1>0, <2>1, <2>3 DEF Inv, Behind
  <2>5. M!TypeOK'
    BY <1>0, <2>1, Scripts DEF M!TypeOK, pc
  <2>6. UpMeansMigrated'
    BY <2>1, <2>4 DEF Inv, UpMeansMigrated, M!UpMeansMigrated, M!Complete, pc
  <2>7. Behind'
    BY <2>1 DEF Behind
  <2> QED
    BY <2>5, <2>6, <2>7
<1> QED
  BY <1>1, <1>3, <1>4, <1>5

-----------------------------------------------------------------------------
(* The steps of the server                                                  *)

\* A process that exits leaves no handler and no request behind.
LEMMA ExitKeeps ==
    ASSUME Inv, Exit, UNCHANGED <<migration, config>>, kills' \in 0..MaxKills
    PROVE  Inv'
<1>1. phase' = "down" /\ pc' = "down"
  BY DEF Exit, pc, Past
<1>2. M!TypeOK' /\ UpMeansMigrated' /\ Behind'
  BY <1>1, SchemaStays
<1>3. timers' \in BOOLEAN
  BY Zenon DEF Exit
<1>4. requests' = 0 /\ waiting' = 0 /\ closing' = 0
  BY DEF Exit
<1>5. Own'
  BY <1>1, <1>3, <1>4, Scripts DEF Own, config, Inv, TypeOK
<1>6. TypeOK'
  BY <1>2, <1>4, <1>5, Scripts DEF TypeOK, Own
<1> QED
  BY <1>2, <1>4, <1>6 DEF Inv, Handlers

LEMMA PartsBounded ==
    ASSUME NEW a \in Nat, NEW b \in Nat, NEW n \in Nat, NEW k \in 0..n, a + b <= k
    PROVE  a \in 0..n /\ b \in 0..n
OBVIOUS

\* A step that does not touch the migrations and does not end the process.
LEMMA RunningKeeps ==
    ASSUME Inv, UNCHANGED <<migration, config>>, pc' = pc,
           phase' \in Past \cup {"down", "migrating"}, timers' \in BOOLEAN,
           requests' \in 0..MaxRequests, kills' \in 0..MaxKills, Handlers'
    PROVE  Inv'
<1>1. M!TypeOK' /\ UpMeansMigrated' /\ Behind'
  BY SchemaStays
<1>2. Own'
  BY DEF Own, config, Inv, TypeOK
<1>3. waiting' \in 0..MaxKills /\ closing' \in 0..MaxKills
  <2>1. MaxKills \in Nat
    BY Scripts
  <2>2. waiting' \in Nat /\ closing' \in Nat /\ waiting' + closing' <= kills'
    BY DEF Handlers
  <2>3. kills' \in 0..MaxKills
    OBVIOUS
  <2> QED
    BY ONLY <2>1, <2>2, <2>3, PartsBounded
<1> QED
  BY <1>1, <1>2, <1>3 DEF Inv, TypeOK, Own

LEMMA NextInv == Inv /\ [Next]_vars => Inv'
<1> SUFFICES ASSUME Inv, [Next]_vars
             PROVE  Inv'
  OBVIOUS
<1>1. /\ kills \in 0..MaxKills /\ requests \in 0..MaxRequests /\ Handlers
      /\ waiting \in 0..MaxKills /\ closing \in 0..MaxKills
  BY DEF Inv, TypeOK, M!TypeOK
<1>2. /\ timers \in BOOLEAN /\ phase \in Past \cup {"down", "migrating"}
      /\ port \in {"good", "refused", "NaN"} /\ indexed \in BOOLEAN
  BY Zenon DEF Inv, TypeOK
<1>3. CASE Start \/ Migrate \/ MigrationThrows \/ Migrated
  <2>1. UNCHANGED <<config, activity, kills>>
        /\ phase' \in Past \cup {"down", "migrating"}
    BY <1>2, <1>3 DEF Start, M!Start, Migrate, M!Skip, M!Execute, M!Record,
       MigrationThrows, M!Throw, Migrated, M!Serve, Past
  <2>2. M!TypeOK' /\ UpMeansMigrated' /\ Behind'
    BY <1>3, MigrationKeeps DEF Start
  <2>3. TypeOK'
    BY <1>1, <1>2, <2>1, <2>2 DEF TypeOK, config, activity
  <2> QED
    BY <1>1, <2>1, <2>2, <2>3 DEF Inv, Handlers, activity
<1>4. CASE Launch
  <2>1. /\ UNCHANGED <<migration, config, kills, requests, waiting, closing>>
        /\ phase' = "launched" /\ pc' = pc
    BY <1>4 DEF Launch, pc, Past
  <2>2. timers' \in BOOLEAN
    BY <1>4, Zenon DEF Launch
  <2>3. Handlers' /\ phase' \in Past \cup {"down", "migrating"}
    BY <1>1, <2>1 DEF Handlers, Past
  <2> QED
    BY <1>1, <2>1, <2>2, <2>3, RunningKeeps
<1>5. CASE Listen
  <2>1. /\ UNCHANGED <<migration, config, kills, activity>>
        /\ phase' = "listening" /\ pc' = pc
    BY <1>5 DEF Listen, pc, Past
  <2>2. Handlers' /\ phase' \in Past \cup {"down", "migrating"}
    BY <1>1, <2>1 DEF Handlers, Past, activity
  <2> QED
    BY <1>1, <1>2, <2>1, <2>2, RunningKeeps DEF activity
<1>6. CASE ListenRejects \/ ListenFails \/ Close \/ ForceExit \/ Kill
  <2>1. Exit /\ UNCHANGED <<migration, config>>
    BY <1>6 DEF ListenRejects, ListenFails, Close, ForceExit, Kill, M!Kill, migration
  <2>2. kills' = kills \/ (kills < MaxKills /\ kills' = kills + 1)
    BY <1>6, Zenon DEF ListenRejects, ListenFails, Close, ForceExit, Kill, M!Kill
  <2>3. kills' \in 0..MaxKills
    BY <1>1, <2>2, Scripts
  <2> QED
    BY <2>1, <2>3, ExitKeeps
<1>7. CASE Accept \/ Answer
  <2>1. /\ UNCHANGED <<migration, config, kills, phase, timers, waiting, closing>>
        /\ \/ requests < MaxRequests /\ requests' = requests + 1
           \/ requests > 0 /\ requests' = requests - 1
    BY <1>7, Zenon DEF Accept, Answer
  <2>2. requests' \in 0..MaxRequests
    BY <1>1, <2>1, Scripts
  <2>3. Handlers' /\ pc' = pc
    BY <1>1, <2>1 DEF Handlers, pc
  <2> QED
    BY <1>1, <1>2, <2>1, <2>2, <2>3, RunningKeeps
<1>8. CASE Signal \/ IndexerStopped
  <2>1. UNCHANGED <<migration, config, phase, requests>>
    BY <1>8 DEF Signal, IndexerStopped
  <2>2. timers' \in BOOLEAN
    BY <1>2, <1>8, Zenon DEF Signal, IndexerStopped
  <2>3. \/ /\ kills < MaxKills /\ kills' = kills + 1
           /\ \/ waiting' = waiting + 1 /\ closing' = closing
              \/ waiting' = waiting /\ closing' = closing + 1
        \/ /\ kills' = kills /\ waiting > 0
           /\ waiting' = waiting - 1 /\ closing' = closing + 1
    BY <1>8, Zenon DEF Signal, IndexerStopped
  <2>4. kills' \in 0..MaxKills /\ Handlers'
    BY <1>1, <2>3, Scripts DEF Handlers
  <2>5. pc' = pc
    BY <2>1 DEF pc
  <2> QED
    BY <1>1, <1>2, <2>1, <2>2, <2>4, <2>5, RunningKeeps
<1>9. CASE UNCHANGED vars
  <2>1. UNCHANGED <<migration, config, kills, phase, activity>> /\ pc' = pc
    BY <1>9 DEF vars, migration, config, activity, pc
  <2> QED
    BY <1>1, <1>2, <2>1, RunningKeeps DEF activity, Handlers
<1> QED
  BY <1>3, <1>4, <1>5, <1>6, <1>7, <1>8, <1>9 DEF Next

LEMMA InvHolds == Spec => []Inv
BY InitInv, NextInv, PTL DEF Spec

-----------------------------------------------------------------------------
\* Every reachable state of the server has the types TypeOK gives: no more
\* handlers are under way than signals came.
THEOREM TypeCorrect == Spec => []TypeOK
<1>1. Inv => TypeOK
  BY DEF Inv
<1> QED
  BY <1>1, InvHolds, PTL

\* Whatever the migrations are and wherever the starts before were cut, what
\* is recorded is complete and a service that is up runs on the whole schema.
THEOREM NeverHalfASchema == Spec => []UpMeansMigrated
<1>1. Inv => UpMeansMigrated
  BY DEF Inv
<1> QED
  BY <1>1, InvHolds, PTL

-----------------------------------------------------------------------------
(* Liveness.  The provers know no rule for ENABLED, so when the timer's     *)
(* exit is enabled is a hypothesis: it disarms a timer that is armed.       *)

ForceExitEnabled == closing > 0 => ENABLED <<ForceExit>>_vars

\* A handler past the indexer's stop stays there until the process is down: no
\* request, migration or further signal disarms its timer.
LEMMA ClosingStays ==
    ASSUME Inv, [Next]_vars, closing > 0
    PROVE  closing' > 0 \/ phase' = "down"
<1>1. closing \in Nat
  BY DEF Inv, Handlers
<1>2. CASE closing' = closing
  BY <1>2
<1>3. CASE closing' = closing + 1
  BY <1>1, <1>3
<1>4. CASE Start \/ Migrate \/ MigrationThrows \/ Migrated
  BY <1>2, <1>4 DEF Start, Migrate, MigrationThrows, Migrated, activity
<1>5. CASE Launch \/ Listen \/ Accept \/ Answer \/ UNCHANGED vars
  BY <1>2, <1>5 DEF Launch, Listen, Accept, Answer, activity, vars
<1>6. CASE ListenRejects \/ ListenFails \/ Close \/ ForceExit \/ Kill
  BY <1>6 DEF ListenRejects, ListenFails, Close, ForceExit, Kill, Exit
<1>7. CASE Signal \/ IndexerStopped
  BY <1>2, <1>3, <1>7 DEF Signal, IndexerStopped
<1> QED
  BY <1>4, <1>5, <1>6, <1>7 DEF Next

\* A handler past the indexer's stop ends the process, for any number of
\* requests that hang and whichever signal came first.
THEOREM SignalsEnd == FairSpec /\ []ForceExitEnabled => SignalEnds
<1>1. Inv /\ [Next]_vars /\ closing > 0 => (closing > 0)' \/ (phase = "down")'
  BY ClosingStays
<1>2. <<ForceExit>>_vars => (phase = "down")'
  BY DEF ForceExit, Exit
<1>3. closing > 0 /\ ForceExitEnabled => ENABLED <<ForceExit>>_vars
  BY DEF ForceExitEnabled
<1> QED
  BY <1>1, <1>2, <1>3, InvHolds, PTL DEF FairSpec, Spec, Fairness, SignalEnds
=============================================================================
