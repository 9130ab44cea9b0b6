-------------------------- MODULE ContractLifecycle --------------------------
(***************************************************************************)
(* What the storage contracts promise, without the statements, the proofs, *)
(* the ledgers and the deaths of the process: a contract is created, made  *)
(* active by a deposit, and an active contract is settled: completed when  *)
(* its term has passed, failed otherwise, and never left active for ever   *)
(* after its term.                                                         *)
(***************************************************************************)
CONSTANT Contract

VARIABLES
    phase,    \* status of the contract
    overdue   \* contracts whose term has passed

vars == <<phase, overdue>>

Phase == {"none", "pending_deposit", "active", "completed", "failed"}

TypeOK == /\ phase \in [Contract -> Phase]
          /\ overdue \subseteq Contract

Init == /\ phase = [c \in Contract |-> "none"]
        /\ overdue = {}

Create(c) == /\ phase[c] = "none"
             /\ phase' = [phase EXCEPT ![c] = "pending_deposit"]
             /\ UNCHANGED overdue

\* A deposit makes any existing contract active, a settled one included.
Fund(c) == /\ phase[c] # "none"
           /\ phase' = [phase EXCEPT ![c] = "active"]
           /\ UNCHANGED overdue

Open == {c \in Contract : phase[c] = "active"}

\* The active contracts S are settled, each according to its term.
Settle(S) ==
    /\ S \subseteq Open
    /\ phase' = [c \in Contract |->
                   CASE c \in S \cap overdue -> "completed"
                     [] c \in S \ overdue    -> "failed"
                     [] OTHER                -> phase[c]]
    /\ UNCHANGED overdue

\* A run of rejected proofs fails a contract whatever its term.
Fail(c) == /\ phase[c] = "active"
           /\ phase' = [phase EXCEPT ![c] = "failed"]
           /\ UNCHANGED overdue

Lapse(L) == /\ \A c \in L : phase[c] # "none"
            /\ overdue' = overdue \cup L
            /\ UNCHANGED phase

Next == \/ \E c \in Contract : Create(c) \/ Fund(c) \/ Fail(c)
        \/ \E S \in SUBSET Contract : Settle(S) \/ Lapse(S)

\* Every overdue contract is settled together with the others that are due.
SettleOverdue ==
    /\ overdue \cap Open # {}
    /\ \E S \in SUBSET Open : overdue \cap Open \subseteq S /\ Settle(S)

Spec == Init /\ [][Next]_vars
FairSpec == Spec /\ SF_vars(SettleOverdue)
=============================================================================
