------------------------------- MODULE Indexer -------------------------------
(***************************************************************************)
(* SolanaIndexer: mirrors the provider accounts of the on-chain registry   *)
(* into the providers table.  The chain is the authority; the table is a   *)
(* cache filled by a backfill, kept current by a subscription, and pruned  *)
(* from a snapshot of the chain on a slow timer.                           *)
(*                                                                         *)
(* The backfill and the prune await an RPC call: what they then apply is   *)
(* the chain as it was when the node answered, not as it is.  Rows of the  *)
(* table are also written by the HTTP routes and deleted by them and by    *)
(* the health checker (module Registry).                                   *)
(***************************************************************************)
EXTENDS Integers, Sequences, FiniteSets

CONSTANTS
    Owner,     \* owners of registry accounts (and the row ids made of them)
    Value,     \* contents of an account that make a provider
    Foreign,   \* contents that decode, of an unknown tier or region
    Garbled,   \* contents that do not decode
    Absent,    \* no account
    HttpRow,   \* a row that POST /providers wrote (source = 'http')
    NoRow,     \* no row
    Pinnable,  \* rows that may get contracts or reputation events
    Shared,    \* owners whose rows the routes and the health checker touch, too
    Call,      \* prunes that may await their RPC calls at the same time
    MaxInbox   \* bound: notifications under way

ASSUME ConstantsAssumption ==
    /\ {Foreign, Garbled, Absent, HttpRow, NoRow} \cap Value = {}
    /\ Foreign \notin {Garbled, Absent} /\ Garbled # Absent /\ HttpRow # NoRow
    /\ Pinnable \subseteq Owner
    /\ Shared \subseteq Owner
    /\ Call # {}
    /\ MaxInbox \in Nat

VARIABLES
    chain,     \* the account of an owner
    row,       \* its row: a registry row holds the value it mirrors
    pinned,    \* owners whose row contracts or reputation events refer to
    phase,     \* the indexer: "down", "backfill", "live" or "idle"
    stopped,   \* the flag stop() sets
    snapshot,  \* what the backfill's RPC call returned
    pruning,   \* the prunes that await their RPC calls
    seen,      \* the owners that a prune's call returned
    inbox,     \* notifications of the subscription, in order
    lost       \* ghost: owners whose row may lag for good

vars == <<chain, row, pinned, phase, stopped, snapshot, pruning, seen, inbox,
          lost>>

Init ==
    /\ chain = [o \in Owner |-> Absent]
    /\ row = [o \in Owner |-> NoRow]
    /\ pinned = {}
    /\ phase = "down"
    /\ stopped = FALSE
    /\ snapshot = chain
    /\ pruning = {} /\ seen = [c \in Call |-> {}]
    /\ inbox = <<>>
    /\ lost = {}

-----------------------------------------------------------------------------
(* The chain.  A write reaches the subscription, closing an account does   *)
(* not; contents that do not make a provider are dropped by its callback.  *)

\* The discriminator and the layout are right.
Decodes(v) == v \in Value \cup {Foreign}

\* Faulty variant: an unknown tier or region is let through.
MakesProviderUnknown(v) == Decodes(v)

\* The tier and the region are known ones, too.
MakesProvider(v) == v \in Value

Write(o, v) ==
    /\ v # chain[o]
    /\ chain' = [chain EXCEPT ![o] = v]
    /\ IF phase = "live" /\ MakesProvider(v)
       THEN /\ Len(inbox) < MaxInbox
            /\ inbox' = Append(inbox, [owner |-> o, value |-> v])
            /\ UNCHANGED lost
       ELSE /\ UNCHANGED inbox
            /\ lost' = lost \cup {o}
    /\ UNCHANGED <<row, pinned, phase, stopped, snapshot, pruning, seen>>

Close(o) ==
    /\ chain[o] # Absent
    /\ chain' = [chain EXCEPT ![o] = Absent]
    /\ UNCHANGED <<row, pinned, phase, stopped, snapshot, pruning, seen, inbox,
                   lost>>

\* The websocket drops and reconnects: what was under way is gone.
Disconnect ==
    /\ inbox # <<>>
    /\ lost' = lost \cup {inbox[i].owner : i \in DOMAIN inbox}
    /\ inbox' = <<>>
    /\ UNCHANGED <<chain, row, pinned, phase, stopped, snapshot, pruning, seen>>

-----------------------------------------------------------------------------
(* Pruning: DELETE the registry rows of owners that were not seen, one row *)
(* at a time.  The DELETE of a pinned row violates a foreign key, and the  *)
(* exception leaves the rest of the loop undone.                           *)

\* Faulty variant: the prune looks at the HTTP rows.
DoomedHttp(table, s) == {o \in Owner : table[o] = HttpRow /\ o \notin s}

Doomed(table, s) == {o \in Owner : table[o] \in Value /\ o \notin s}

\* D is what the loop deletes.
Prunes(table, s, D) ==
    /\ IF Doomed(table, s) \cap pinned = {}
       THEN D = Doomed(table, s)
       ELSE D \subseteq Doomed(table, s) \ pinned
    /\ row' = [o \in Owner |-> IF o \in D THEN NoRow ELSE table[o]]

PruneThrows(table, s) == Doomed(table, s) \cap pinned # {}

-----------------------------------------------------------------------------
(* Start: backfill, then subscribe                                         *)

\* start(), up to the answer of getProgramAccounts.
Start ==
    /\ phase = "down"
    /\ phase' = "backfill"
    /\ snapshot' = chain
    /\ lost' = {}
    /\ UNCHANGED <<chain, row, pinned, stopped, pruning, seen, inbox>>

\* What the prune after the upserts spares.
Decoded == {o \in Owner : Decodes(snapshot[o])}

\* Faulty variants: INSERT OR IGNORE; no look at the stopped flag.
UpsertedIgnoring == [o \in Owner |->
    IF MakesProvider(snapshot[o]) /\ ~stopped /\ row[o] = NoRow
    THEN snapshot[o] ELSE row[o]]

UpsertedStopped == [o \in Owner |->
    IF MakesProvider(snapshot[o]) THEN snapshot[o] ELSE row[o]]

\* The table after the backfill's upserts, which stop() turns off.
Upserted == [o \in Owner |->
    IF MakesProvider(snapshot[o]) /\ ~stopped THEN snapshot[o] ELSE row[o]]

\* Upserts, prune, and, in the continuation of the await, subscribe.  If the
\* prune throws, start() rejects and nothing is subscribed.
FinishBackfill ==
    /\ phase = "backfill"
    /\ \E D \in SUBSET Owner : Prunes(Upserted, Decoded, D)
    /\ phase' = IF PruneThrows(Upserted, Decoded) THEN "idle" ELSE "live"
    /\ snapshot' = [o \in Owner |-> Absent]
    /\ UNCHANGED <<chain, pinned, stopped, pruning, seen, inbox, lost>>

FailBackfill ==
    /\ phase = "backfill"
    /\ phase' = "idle"
    /\ snapshot' = [o \in Owner |-> Absent]
    /\ UNCHANGED <<chain, row, pinned, stopped, pruning, seen, inbox, lost>>

-----------------------------------------------------------------------------
(* Live                                                                    *)

\* The subscription's callback.
Deliver ==
    /\ inbox # <<>>
    /\ inbox' = Tail(inbox)
    /\ IF stopped
       THEN UNCHANGED <<row, lost>>
       ELSE LET o == Head(inbox).owner
            IN  /\ row' = [row EXCEPT ![o] = Head(inbox).value]
                /\ lost' = lost \ {o}
    /\ UNCHANGED <<chain, pinned, phase, stopped, snapshot, pruning, seen>>

\* runPrune, up to the answer of getProgramAccounts.  The timer does not ask
\* whether the prune before has ended.
BeginPrune(c) ==
    /\ phase = "live"
    /\ ~stopped
    /\ c \in Call \ pruning
    /\ pruning' = pruning \cup {c}
    /\ seen' = [seen EXCEPT ![c] = {o \in Owner : Decodes(chain[o])}]
    /\ UNCHANGED <<chain, row, pinned, phase, stopped, snapshot, inbox, lost>>

\* stop() is not looked at again.
FinishPrune(c) ==
    /\ c \in pruning
    /\ \E D \in SUBSET Owner :
         /\ Prunes(row, seen[c], D)
         /\ lost' = lost \cup D
    /\ pruning' = pruning \ {c}
    /\ seen' = [seen EXCEPT ![c] = {}]
    /\ UNCHANGED <<chain, pinned, phase, stopped, snapshot, inbox>>

FailPrune(c) ==
    /\ c \in pruning
    /\ pruning' = pruning \ {c}
    /\ seen' = [seen EXCEPT ![c] = {}]
    /\ UNCHANGED <<chain, row, pinned, phase, stopped, snapshot, inbox, lost>>

\* stop(): a backfill under way is not told, and subscribes when it is done.
Stop ==
    /\ phase # "down"
    /\ ~stopped
    /\ stopped' = TRUE
    /\ phase' = IF phase = "live" THEN "idle" ELSE phase
    /\ inbox' = <<>>
    /\ UNCHANGED <<chain, row, pinned, snapshot, pruning, seen, lost>>

\* The process exits.
Exit ==
    /\ phase # "down"
    /\ phase' = "down"
    /\ stopped' = FALSE
    /\ snapshot' = [o \in Owner |-> Absent]
    /\ pruning' = {}
    /\ seen' = [c \in Call |-> {}]
    /\ inbox' = <<>>
    /\ UNCHANGED <<chain, row, pinned, lost>>

-----------------------------------------------------------------------------
(* The rest of the service, on the same rows                               *)

\* POST /providers with the id of a registry row takes the row over.
HttpRegister(o) ==
    /\ o \in Shared
    /\ phase # "down"
    /\ row' = [row EXCEPT ![o] = HttpRow]
    /\ lost' = lost \cup {o}
    /\ UNCHANGED <<chain, pinned, phase, stopped, snapshot, pruning, seen, inbox>>

\* DELETE /providers/:id, or the health checker.
Unregister(o) ==
    /\ o \in Shared
    /\ phase # "down"
    /\ row[o] # NoRow
    /\ o \notin pinned
    /\ row' = [row EXCEPT ![o] = NoRow]
    /\ lost' = lost \cup {o}
    /\ UNCHANGED <<chain, pinned, phase, stopped, snapshot, pruning, seen, inbox>>

Pin(o) ==
    /\ phase # "down"
    /\ o \in Pinnable \ pinned
    /\ row[o] # NoRow
    /\ pinned' = pinned \cup {o}
    /\ UNCHANGED <<chain, row, phase, stopped, snapshot, pruning, seen, inbox,
                   lost>>

Next ==
    \/ \E o \in Owner : \/ \E v \in Value \cup {Foreign, Garbled} : Write(o, v)
                        \/ Close(o)
                        \/ HttpRegister(o) \/ Unregister(o) \/ Pin(o)
    \/ Disconnect
    \/ Start \/ FinishBackfill \/ FailBackfill
    \/ Deliver
    \/ \E c \in Call : BeginPrune(c) \/ FinishPrune(c) \/ FailPrune(c)
    \/ Stop \/ Exit

\* The prune timer and the event loop run on, with the prunes of the timer's
\* ticks numbered by Call in turn; of each number not every RPC call fails.
Fairness ==
    /\ WF_vars(Deliver)
    /\ \A c \in Call : WF_vars(BeginPrune(c)) /\ SF_vars(FinishPrune(c))

Spec == Init /\ [][Next]_vars
FairSpec == Spec /\ Fairness

-----------------------------------------------------------------------------
\* The type invariant.
TypeOK ==
    /\ chain \in [Owner -> Value \cup {Foreign, Garbled, Absent}]
    /\ row \in [Owner -> Value \cup {HttpRow, NoRow}]
    /\ pinned \subseteq Owner
    /\ phase \in {"down", "backfill", "live", "idle"}
    /\ stopped \in BOOLEAN
    /\ snapshot \in [Owner -> Value \cup {Foreign, Garbled, Absent}]
    /\ pruning \subseteq Call
    /\ seen \in [Call -> SUBSET Owner]
    /\ inbox \in Seq([owner : Owner, value : Value])
    /\ lost \subseteq Owner

\* The complete account of how the mirror can lag while the indexer is live:
\* the row of an account that makes a provider equals the account, or a notification of
\* the account's present contents is under way, or the account is lost: it was
\* written while nothing was subscribed, its notification was dropped with the
\* connection, or its row was pruned from an old snapshot, taken over or
\* deleted by the rest of the service.
LagExplained ==
    phase = "live" /\ ~stopped =>
        \A o \in Owner : chain[o] \in Value =>
            \/ row[o] = chain[o]
            \/ \E i \in DOMAIN inbox : inbox[i].owner = o /\ inbox[i].value = chain[o]
            \/ o \in lost

\* stop() is final for the mirrored contents: from then on until the process
\* exits no registry row changes its contents or appears.
NoUpsertAfterStop ==
    [][stopped /\ stopped' => \A o \in Owner :
          row'[o] \in Value => row'[o] = row[o]]_vars

Live == phase = "live" /\ ~stopped

\* A deregistered account falls out of the table: no late notification and no
\* failed prune keeps its registry row for ever, unless a contract or an event
\* pins the row of some deregistered account, at which every prune breaks off.
PruneBlocked == \E o \in pinned : ~Decodes(chain[o])
DeregisteredFallsOut ==
    \A o \in Owner :
        <>[](Live /\ chain[o] = Absent /\ ~PruneBlocked)
            => <>[](row[o] \notin Value)

\* solana-indexer.ts: "subscribe to onProgramAccountChange so any
\* register/update/setActive call is reflected within seconds".
ChangesReflected ==
    \A o \in Owner, v \in Value :
        <>[](Live /\ chain[o] = v) => <>(row[o] = v)
=============================================================================
