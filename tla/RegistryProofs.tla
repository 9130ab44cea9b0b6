---------------------------- MODULE RegistryProofs -----------------------------
(***************************************************************************)
(* Proofs about Registry, for every finite set of providers and every      *)
(* bound on registrations and probes in flight.                            *)
(***************************************************************************)
EXTENDS Registry, TLAPS, FiniteSetTheorems

-----------------------------------------------------------------------------
(* The inductive invariant.  TypeOK and ReferencesResolve are inductive     *)
(* together; RemovalIsEarned, which speaks of the ghost bad, rests on the   *)
(* table counting the same reports.                                         *)

CountsReports == failed = bad

Inv == TypeOK /\ ReferencesResolve /\ ExitsAreEarned /\ CountsReports

LEMMA SaturateType ==
    \A cap \in Nat : \A n \in 0..cap :
        /\ Saturate(n, cap) \in 0..cap
        /\ Saturate(n, cap) <= n + 1
        /\ n < cap => Saturate(n, cap) = n + 1
        /\ n = cap => Saturate(n, cap) = n
BY DEF Saturate

LEMMA MissesType == \A n \in Nat : Saturate(n, MissCap) \in Nat
BY ConstantsAssumption DEF Saturate

LEMMA TotalType == \A S : S \subseteq Provider => Cardinality(S) \in Nat
BY ConstantsAssumption, FS_Subset, FS_CardinalityType

LEMMA InitInv == Init => Inv
<1> SUFFICES ASSUME Init
             PROVE  Inv
  OBVIOUS
<1>1. 0 \in 0..CountCap
  BY ConstantsAssumption
<1>2. /\ failed \in [Provider -> 0..CountCap] /\ bad \in [Provider -> 0..CountCap]
      /\ health \in [Provider -> Health \cup {"none"}]
      /\ misses \in [Provider -> Nat]
      /\ pending \in [Provider -> Nat] /\ probes \in [Provider -> Nat]
  BY <1>1 DEF Init
<1>3. /\ registered \subseteq Provider /\ files \subseteq File \X Provider
      /\ pinned \subseteq Provider /\ mood \in [Provider -> Moods] /\ total \in Nat
  BY DEF Init
<1>4. up \in BOOLEAN /\ exited \subseteq Provider
  BY Zenon DEF Init
<1>5. TypeOK
  BY <1>2, <1>3, <1>4 DEF TypeOK
<1>6. ReferencesResolve /\ ExitsAreEarned /\ CountsReports
  BY DEF Init, ReferencesResolve, ExitsAreEarned, CountsReports
<1> QED
  BY <1>5, <1>6 DEF Inv

-----------------------------------------------------------------------------
(* The steps, grouped by what they write.                                   *)

\* A registration that completes replaces the row and drops its files.
LEMMA RegisterInv ==
    ASSUME Inv, NEW p \in Provider, Register(p)
    PROVE  Inv'
<1>1. /\ registered' = registered \cup {p}
      /\ files' = {m \in files : m[2] # p}
      /\ failed' = [failed EXCEPT ![p] = 0]
      /\ bad' = [bad EXCEPT ![p] = 0]
      /\ health' = [health EXCEPT ![p] = "Healthy"]
      /\ misses' = [misses EXCEPT ![p] = 0]
      /\ pending[p] > 0
      /\ pending' = [pending EXCEPT ![p] = @ - 1]
      /\ total' = Cardinality(registered')
      /\ exited' = exited \ {p}
      /\ UNCHANGED <<pinned, probes, up, mood>>
  BY DEF Register, Upsert
<1>2. TypeOK'
  BY <1>1, TotalType, ConstantsAssumption DEF Inv, TypeOK, Health
<1>3. ReferencesResolve'
  BY <1>1 DEF Inv, TypeOK, ReferencesResolve
<1>4. ExitsAreEarned'
  BY <1>1 DEF Inv, TypeOK, ExitsAreEarned
<1> QED
  BY <1>1, <1>2, <1>3, <1>4 DEF Inv, CountsReports, TypeOK

\* A row nothing pins takes its files and its counts with it.
LEMMA RemoveInv ==
    ASSUME Inv, NEW p \in Provider, p \notin pinned, Remove(p),
           UNCHANGED <<pinned, pending, up, exited, mood>>,
           probes' \in [Provider -> Nat]
    PROVE  Inv'
<1>1. /\ registered' = registered \ {p}
      /\ files' = {m \in files : m[2] # p}
      /\ failed' = [failed EXCEPT ![p] = 0]
      /\ bad' = [bad EXCEPT ![p] = 0]
      /\ health' = [health EXCEPT ![p] = "none"]
      /\ misses' = [misses EXCEPT ![p] = 0]
      /\ total' = Cardinality(registered')
  BY DEF Remove, Delete
<1>2. TypeOK'
  BY <1>1, TotalType, ConstantsAssumption DEF Inv, TypeOK
<1>3. ReferencesResolve'
  BY <1>1 DEF Inv, TypeOK, ReferencesResolve
<1>4. ExitsAreEarned'
  BY <1>1 DEF Inv, TypeOK, ExitsAreEarned
<1> QED
  BY <1>1, <1>2, <1>3, <1>4 DEF Inv, CountsReports, TypeOK

\* What a report writes: one more failure, or none left.
LEMMA ReportType ==
    ASSUME TypeOK, CountsReports, NEW p \in Provider, NEW ok \in BOOLEAN,
           UpdateHeartbeat(p, ok)
    PROVE  /\ failed' \in [Provider -> 0..CountCap]
           /\ bad' = failed'
           /\ ~ok /\ failed[p] + 1 >= MaxFailed => failed'[p] >= MaxFailed
           /\ health' \in [Provider -> Health \cup {"none"}]
           /\ \A q \in Provider \ {p} : failed'[q] = failed[q] /\ health'[q] = health[q]
<1>1. /\ CountCap \in Nat /\ MaxFailed \in Nat /\ CountCap > MaxFailed
      /\ failed[p] \in 0..CountCap
  BY ConstantsAssumption DEF TypeOK
<1>2. /\ Saturate(failed[p], CountCap) \in 0..CountCap
      /\ failed[p] + 1 >= MaxFailed => Saturate(failed[p], CountCap) >= MaxFailed
  BY <1>1 DEF Saturate
<1>3. /\ failed' = [failed EXCEPT ![p] = IF ok THEN 0 ELSE Saturate(@, CountCap)]
      /\ health' = [health EXCEPT ![p] = IF ok THEN "Healthy" ELSE "Unhealthy"]
      /\ bad' = [bad EXCEPT ![p] = IF ok THEN 0 ELSE Saturate(@, CountCap)]
  BY DEF UpdateHeartbeat
<1>4. /\ failed' \in [Provider -> 0..CountCap]
      /\ bad' = failed'
      /\ health' \in [Provider -> Health \cup {"none"}]
      /\ \A q \in Provider \ {p} : failed'[q] = failed[q] /\ health'[q] = health[q]
  BY <1>1, <1>2, <1>3 DEF TypeOK, CountsReports, Health
<1>5. ~ok => failed'[p] = Saturate(failed[p], CountCap)
  BY <1>3 DEF TypeOK
<1> QED
  BY <1>2, <1>4, <1>5

\* A report of trouble keeps whom the process exited over where it was, and may
\* add its provider, at the full count and pinned.
LEMMA ReportInv ==
    ASSUME Inv, NEW p \in registered, NEW ok \in BOOLEAN, UpdateHeartbeat(p, ok),
           UNCHANGED <<registered, files, pinned>>,
           exited' \subseteq exited \cup {p}, ok => p \notin exited',
           p \in exited' \ exited => p \in pinned /\ failed[p] + 1 >= MaxFailed,
           misses' \in [Provider -> Nat], pending' \in [Provider -> Nat],
           probes' \in [Provider -> Nat], total' \in Nat,
           up' \in BOOLEAN, mood' = mood
    PROVE  Inv'
<1>1. p \in Provider
  BY DEF Inv, TypeOK
<1>2. /\ failed' \in [Provider -> 0..CountCap]
      /\ bad' = failed'
      /\ ~ok /\ failed[p] + 1 >= MaxFailed => failed'[p] >= MaxFailed
      /\ health' \in [Provider -> Health \cup {"none"}]
      /\ \A q \in Provider \ {p} : failed'[q] = failed[q] /\ health'[q] = health[q]
  BY <1>1, ReportType DEF Inv
<1>3. TypeOK'
  BY <1>1, <1>2 DEF Inv, TypeOK
<1>4. ReferencesResolve'
  BY <1>2 DEF Inv, ReferencesResolve
<1>5. ExitsAreEarned'
  <2> SUFFICES ASSUME NEW q \in exited'
               PROVE  q \in pinned /\ failed'[q] >= MaxFailed
    BY <1>2 DEF ExitsAreEarned
  <2>1. MaxFailed \in Nat /\ failed[p] \in Nat
    BY <1>1, ConstantsAssumption DEF Inv, TypeOK
  <2>2. CASE q = p
    <3>1. ~ok /\ q \in pinned /\ failed[p] + 1 >= MaxFailed
      BY <2>1, <2>2 DEF Inv, ExitsAreEarned
    <3> QED
      BY <1>2, <2>2, <3>1
  <2>3. CASE q # p
    BY <1>2, <2>3 DEF Inv, TypeOK, ExitsAreEarned
  <2> QED
    BY <2>2, <2>3
<1> QED
  BY <1>2, <1>3, <1>4, <1>5 DEF Inv, CountsReports

\* Steps that leave the counts of reports alone.
LEMMA QuietInv ==
    ASSUME Inv, UNCHANGED <<registered, failed, bad>>,
           health' \in [Provider -> Health \cup {"none"}],
           \A p \in Provider \ registered : health'[p] = health[p],
           files' \subseteq files \cup (File \X registered),
           pinned \subseteq pinned' /\ pinned' \subseteq registered,
           \A p \in exited' \ exited : p \in pinned /\ failed[p] >= MaxFailed,
           misses' \in [Provider -> Nat], pending' \in [Provider -> Nat],
           probes' \in [Provider -> Nat], total' \in Nat,
           up' \in BOOLEAN, mood' \in [Provider -> Moods]
    PROVE  Inv'
<1>1. TypeOK'
  BY DEF Inv, TypeOK, ReferencesResolve
<1>2. ReferencesResolve'
  BY DEF Inv, ReferencesResolve
<1>3. ExitsAreEarned'
  BY DEF Inv, ExitsAreEarned, CountsReports
<1> QED
  BY <1>1, <1>2, <1>3 DEF Inv, CountsReports

\* A probe that has been answered is no longer in flight.
LEMMA AnsweredType ==
    ASSUME TypeOK, NEW p \in Provider, Answered(p)
    PROVE  /\ probes' \in [Provider -> Nat]
           /\ probes'[p] = probes[p] - 1
           /\ \A q \in Provider \ {p} : probes'[q] = probes[q]
BY DEF TypeOK, Answered

LEMMA AnswerInv ==
    ASSUME Inv, NEW p \in Provider, Answer(p)
    PROVE  Inv'
<1>1. CASE AnswerForNobody(p)
  <2>1. probes' \in [Provider -> Nat]
    BY <1>1, AnsweredType DEF Inv, AnswerForNobody
  <2> QED
    BY <1>1, <2>1, QuietInv
       DEF Inv, TypeOK, ReferencesResolve, AnswerForNobody, rows, ghost
<1>2. CASE AnswerHealthy(p)
  <2>1. probes' \in [Provider -> Nat]
    BY <1>2, AnsweredType DEF Inv, AnswerHealthy
  <2>2. misses' \in [Provider -> Nat]
    BY <1>2 DEF AnswerHealthy, Inv, TypeOK
  <2> QED
    BY <1>2, <2>1, <2>2, ReportInv DEF Inv, TypeOK, AnswerHealthy
<1>3. ASSUME misses' = [misses EXCEPT ![p] = Saturate(@, MissCap)]
      PROVE  misses' \in [Provider -> Nat]
  BY <1>3, MissesType DEF Inv, TypeOK
<1>4. CASE AnswerFailed(p)
  <2>1. probes' \in [Provider -> Nat] /\ misses' \in [Provider -> Nat]
    BY <1>3, <1>4, AnsweredType DEF Inv, AnswerFailed
  <2>2. /\ UNCHANGED <<registered, files, pinned, pending, total, up, exited, mood>>
        /\ p \in registered
    BY <1>4 DEF AnswerFailed, CheckFails
  <2>3. CASE UpdateHeartbeat(p, FALSE)
    BY <2>1, <2>2, <2>3, ReportInv DEF Inv, TypeOK
  <2>4. CASE UNCHANGED <<failed, health, bad>>
    BY <2>1, <2>2, <2>4, QuietInv DEF Inv, TypeOK, ReferencesResolve
  <2> QED
    BY <1>4, <2>3, <2>4 DEF AnswerFailed
<1>5. CASE AnswerRemoves(p)
  <2>1. probes' \in [Provider -> Nat]
    BY <1>5, AnsweredType DEF Inv, AnswerRemoves
  <2> QED
    BY <1>5, <2>1, RemoveInv DEF AnswerRemoves
<1>6. CASE AnswerExits(p)
  <2>1. /\ misses' \in [Provider -> Nat]
        /\ pending' \in [Provider -> Nat] /\ probes' \in [Provider -> Nat]
        /\ total' \in Nat /\ up' \in BOOLEAN
    BY <1>3, <1>6 DEF AnswerExits, Forget
  <2>2. /\ UNCHANGED <<registered, files, pinned, mood>>
        /\ p \in registered /\ p \in pinned /\ Removable(p)
        /\ exited' = exited \cup {p}
    BY <1>6 DEF AnswerExits, CheckFails
  <2>3. failed[p] \in 0..CountCap /\ CountCap \in Nat /\ MaxFailed \in Nat
    BY ConstantsAssumption DEF Inv, TypeOK
  <2>4. CASE mood[p] = "unhealthy"
    <3>1. UpdateHeartbeat(p, FALSE)
      BY <1>6, <2>4 DEF AnswerExits
    <3>2. Saturate(failed[p], CountCap) + 1 > MaxFailed
      BY <2>2, <2>4 DEF Removable, Count
    <3>3. /\ Saturate(failed[p], CountCap) \in 0..CountCap
          /\ Saturate(failed[p], CountCap) <= failed[p] + 1
      BY <2>3, SaturateType
    <3>4. failed[p] + 1 >= MaxFailed
      BY <2>3, <3>2, <3>3
    <3> QED
      BY <2>1, <2>2, <3>1, <3>4, ReportInv
  <2>5. CASE mood[p] # "unhealthy"
    <3>1. UNCHANGED <<failed, health, bad>>
      BY <1>6, <2>5 DEF AnswerExits
    <3>2. failed[p] >= MaxFailed
      BY <2>2, <2>3, <2>5 DEF Removable, Count
    <3> QED
      BY <2>1, <2>2, <3>1, <3>2, QuietInv DEF Inv, TypeOK, ReferencesResolve
  <2> QED
    BY <2>4, <2>5
<1> QED
  BY <1>1, <1>2, <1>4, <1>5, <1>6 DEF Answer

LEMMA NextInv == Inv /\ [Next]_vars => Inv'
<1> SUFFICES ASSUME Inv, [Next]_vars
             PROVE  Inv'
  OBVIOUS
<1> USE DEF rows, async, ghost
<1>1. ASSUME NEW p \in Provider, BeginRegister(p) \/ RefuseRegister(p)
      PROVE  Inv'
  <2>1. pending' \in [Provider -> Nat]
    BY <1>1 DEF BeginRegister, RefuseRegister, Inv, TypeOK
  <2> QED
    BY <1>1, <2>1, QuietInv
       DEF BeginRegister, RefuseRegister, Inv, TypeOK, ReferencesResolve
<1>2. ASSUME NEW p \in Provider, Unregister(p)
      PROVE  Inv'
  BY <1>2, RemoveInv DEF Unregister, Inv, TypeOK
<1>3. ASSUME NEW p \in Provider, NEW ok \in BOOLEAN, Heartbeat(p, ok)
      PROVE  Inv'
  BY <1>3, ReportInv DEF Heartbeat, Inv, TypeOK
<1>4. ASSUME NEW p \in Provider, Deactivate(p) \/ Activate(p)
      PROVE  Inv'
  <2>1. PICK status \in Health : SetHealth(p, status)
    BY <1>4 DEF Deactivate, Activate, Health
  <2> QED
    BY <2>1, QuietInv DEF SetHealth, Inv, TypeOK, ReferencesResolve
<1>5. ASSUME NEW p \in Provider, NEW f \in File, RegisterFile(f, p) \/ RemoveFile(f, p)
      PROVE  Inv'
  BY <1>5, QuietInv DEF RegisterFile, RemoveFile, Inv, TypeOK, ReferencesResolve
<1>6. ASSUME NEW p \in Provider, Pin(p)
      PROVE  Inv'
  BY <1>6, QuietInv DEF Pin, Inv, TypeOK, ReferencesResolve
<1>7. ASSUME NEW p \in Provider, ChangeMood(p)
      PROVE  Inv'
  <2>1. mood' \in [Provider -> Moods]
    BY <1>7 DEF ChangeMood, Inv, TypeOK
  <2> QED
    BY <1>7, <2>1, QuietInv DEF ChangeMood, Inv, TypeOK, ReferencesResolve
<1>8. CASE Round
  <2>1. probes' \in [Provider -> Nat]
    BY <1>8 DEF Round, Inv, TypeOK
  <2> QED
    BY <1>8, <2>1, QuietInv DEF Round, Inv, TypeOK, ReferencesResolve
<1>9. CASE Kill \/ Restart
  <2>1. up' \in BOOLEAN
    BY <1>9, Zenon DEF Kill, Restart, Forget
  <2>2. total' \in Nat
    BY <1>9, TotalType DEF Kill, Restart, Forget, Inv, TypeOK
  <2>3. pending' \in [Provider -> Nat] /\ probes' \in [Provider -> Nat]
    BY <1>9 DEF Kill, Restart, Forget, Inv, TypeOK
  <2> QED
    BY <1>9, <2>1, <2>2, <2>3, QuietInv DEF Kill, Restart, Forget, Inv, TypeOK, ReferencesResolve
<1>10. CASE UNCHANGED vars
  BY <1>10, QuietInv DEF vars, Inv, TypeOK, ReferencesResolve
<1> QED
  BY <1>1, <1>2, <1>3, <1>4, <1>5, <1>6, <1>7, <1>8, <1>9, <1>10,
     RegisterInv, AnswerInv DEF Next

LEMMA InvHolds == Spec => []Inv
BY InitInv, NextInv, PTL DEF Spec

-----------------------------------------------------------------------------
\* Every reachable state of the registry has the types TypeOK gives.
THEOREM TypeCorrect == Spec => []TypeOK
<1>1. Inv => TypeOK
  BY DEF Inv
<1> QED
  BY <1>1, InvHolds, PTL

\* The foreign keys hold whatever is registered, removed and answered, in any
\* order and across crashes.
THEOREM ReferencesHold == Spec => []ReferencesResolve
<1>1. Inv => ReferencesResolve
  BY DEF Inv
<1> QED
  BY <1>1, InvHolds, PTL

\* Whom the process exited over is pinned and at the full count, whichever
\* answers, registrations, exits and restarts came before and after.
THEOREM ExitsEarned == Spec => []ExitsAreEarned
<1>1. Inv => ExitsAreEarned
  BY DEF Inv
<1> QED
  BY <1>1, InvHolds, PTL

\* No answer, heartbeat or file puts a row into the table.
THEOREM RowsAreRegistered == Spec => OnlyRegistrationAdds
<1> DEFINE Adds == \A p \in registered' \ registered : pending'[p] < pending[p]
<1> USE DEF rows, async, ghost
<1>1. Inv /\ [Next]_vars => [Adds]_vars
  <2> SUFFICES ASSUME Inv, Next, NEW q \in registered' \ registered
               PROVE  pending'[q] < pending[q]
    OBVIOUS
  <2>1. ASSUME NEW p \in Provider, Register(p)
        PROVE  pending'[q] < pending[q]
    <3>1. q = p /\ pending'[p] = pending[p] - 1 /\ pending[p] \in Nat
      BY <2>1 DEF Register, Upsert, Inv, TypeOK
    <3> QED
      BY <3>1
  <2>2. ASSUME NEW p \in Provider, Answer(p)
        PROVE  FALSE
    BY <2>2 DEF Answer, AnswerForNobody, AnswerHealthy, AnswerFailed,
                AnswerRemoves, AnswerExits, Remove, Delete
  <2>3. ASSUME NEW p \in Provider, Unregister(p)
        PROVE  FALSE
    BY <2>3 DEF Unregister, Remove, Delete
  <2> QED
    BY <2>1, <2>2, <2>3
       DEF Next, BeginRegister, RefuseRegister, Heartbeat, Deactivate, Activate,
           SetHealth, RegisterFile, RemoveFile, Pin, ChangeMood, Round, Kill,
           Restart
<1> QED
  BY <1>1, InvHolds, PTL DEF Spec, OnlyRegistrationAdds

\* The checker removes nobody for failures that a registration or a good
\* report has cleared.
THEOREM RemovalsAreEarned == Spec => RemovalIsEarned
<1> DEFINE Earned ==
        \A p \in Provider : CheckerRemoves(p) => bad[p] + 1 >= MaxFailed
<1> USE DEF rows, async, ghost
<1>1. Inv /\ [Next]_vars => [Earned]_vars
  <2> SUFFICES ASSUME Inv, Next, NEW q \in Provider, CheckerRemoves(q)
               PROVE  bad[q] + 1 >= MaxFailed
    OBVIOUS
  <2>1. ASSUME NEW p \in Provider, AnswerRemoves(p)
        PROVE  bad[q] + 1 >= MaxFailed
    <3>1. q = p
      BY <2>1 DEF AnswerRemoves, Remove, Delete, CheckerRemoves
    <3>2. Removable(q)
      BY <2>1, <3>1 DEF AnswerRemoves
    <3>3. /\ failed[q] = bad[q] /\ failed[q] \in 0..CountCap
          /\ CountCap \in Nat /\ MaxFailed \in Nat /\ CountCap > MaxFailed
      BY ConstantsAssumption DEF Inv, TypeOK, CountsReports
    <3>4. /\ Saturate(failed[q], CountCap) \in 0..CountCap
          /\ Saturate(failed[q], CountCap) <= failed[q] + 1
      BY <3>3, SaturateType
    <3>5. Count(q) <= failed[q] + 1 /\ Count(q) \in Nat
      BY <3>3, <3>4 DEF Count
    <3> QED
      BY <3>2, <3>3, <3>5 DEF Removable
  <2>2. ASSUME NEW p \in Provider,
               \/ AnswerForNobody(p) \/ AnswerHealthy(p)
               \/ AnswerFailed(p) \/ AnswerExits(p)
        PROVE  FALSE
    BY <2>2 DEF AnswerForNobody, AnswerHealthy, AnswerFailed, AnswerExits,
                CheckerRemoves
  <2>3. ASSUME NEW p \in Provider, Register(p) \/ Unregister(p)
        PROVE  FALSE
    BY <2>3 DEF Register, Upsert, Unregister, CheckerRemoves, Inv, TypeOK
  <2> QED
    BY <2>1, <2>2, <2>3
       DEF Next, Answer, BeginRegister, RefuseRegister, Heartbeat, Deactivate,
           Activate, SetHealth, RegisterFile, RemoveFile, Pin, ChangeMood, Round,
           Kill, Restart, CheckerRemoves
<1> QED
  BY <1>1, InvHolds, PTL DEF Spec, RemovalIsEarned
=============================================================================
