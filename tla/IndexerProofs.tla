---------------------------- MODULE IndexerProofs ----------------------------
(***************************************************************************)
(* Proofs about Indexer, for every set of accounts and of contents and any *)
(* number of notifications under way.                                      *)
(*                                                                         *)
(* LagExplained speaks of a live indexer only.  What carries it there is   *)
(* said of the other phases and of the order of the notifications: the     *)
(* snapshot of a backfill differs from the chain on lost accounts alone,   *)
(* and the last notification of an account says what the chain says.       *)
(***************************************************************************)
EXTENDS Indexer, TLAPS

Note == [owner : Owner, value : Value]
Content == Value \cup {Foreign, Garbled, Absent}

\* Whatever the backfill's snapshot gets wrong is lost.
SnapshotExplained ==
    phase = "backfill" =>
        \A o \in Owner : chain[o] \in Value => snapshot[o] = chain[o] \/ o \in lost

\* Nothing is under way unless the subscription is open.
QuietUnlessLive == phase # "live" => inbox = <<>>

\* No notification of an account is the last of it unless it says what the
\* account says now.
LastSaysNow ==
    \A i \in 1..Len(inbox) : chain[inbox[i].owner] \in Value =>
        \E j \in 1..Len(inbox) : /\ j >= i
                                 /\ inbox[j].owner = inbox[i].owner
                                 /\ inbox[j].value = chain[inbox[i].owner]

Underway(o) == \E i \in 1..Len(inbox) :
                   inbox[i].owner = o /\ inbox[i].value = chain[o]

\* LagExplained, with the domain of the inbox written out.
Explained ==
    phase = "live" /\ ~stopped =>
        \A o \in Owner : chain[o] \in Value =>
            row[o] = chain[o] \/ Underway(o) \/ o \in lost

Inv == /\ TypeOK
       /\ SnapshotExplained /\ QuietUnlessLive /\ LastSaysNow /\ Explained

-----------------------------------------------------------------------------
(* The type invariant                                                      *)

LEMMA Sequences ==
    ASSUME NEW S, NEW s \in Seq(S)
    PROVE  /\ Len(s) \in Nat /\ \A i \in 1..Len(s) : s[i] \in S
           /\ \A e \in S : Append(s, e) \in Seq(S)
           /\ s # <<>> => Head(s) \in S /\ Tail(s) \in Seq(S)
OBVIOUS

LEMMA Empty ==
    ASSUME NEW S
    PROVE  <<>> \in Seq(S)
OBVIOUS

LEMMA Inbox == TypeOK => inbox \in Seq(Note)
BY DEF TypeOK, Note

LEMMA InitType == Init => TypeOK
<1> SUFFICES ASSUME Init PROVE TypeOK
  OBVIOUS
<1>1. inbox \in Seq(Note)
  BY Empty DEF Init
<1>2. /\ stopped \in BOOLEAN /\ pruning \subseteq Call
      /\ phase \in {"down", "backfill", "live", "idle"}
  BY Zenon DEF Init
<1> QED
  BY <1>1, <1>2 DEF Init, TypeOK, Note

LEMMA PrunedType ==
    ASSUME NEW table \in [Owner -> Value \cup {HttpRow, NoRow}], NEW s,
           NEW D, Prunes(table, s, D)
    PROVE  /\ row' \in [Owner -> Value \cup {HttpRow, NoRow}]
           /\ D \subseteq Doomed(table, s) /\ D \subseteq Owner
           /\ \A o \in Owner : row'[o] = IF o \in D THEN NoRow ELSE table[o]
<1>1. D \subseteq Doomed(table, s)
  BY DEF Prunes
<1>2. D \subseteq Owner
  BY <1>1 DEF Doomed
<1> QED
  BY <1>1, <1>2 DEF Prunes

LEMMA UpsertedType ==
    ASSUME TypeOK
    PROVE  /\ Upserted \in [Owner -> Value \cup {HttpRow, NoRow}]
           /\ \A o \in Owner : Upserted[o] =
                IF MakesProvider(snapshot[o]) /\ ~stopped THEN snapshot[o] ELSE row[o]
BY DEF TypeOK, Upserted, MakesProvider

LEMMA NextType == TypeOK /\ [Next]_vars => TypeOK'
<1> SUFFICES ASSUME TypeOK, [Next]_vars
             PROVE  TypeOK'
  OBVIOUS
<1>1. CASE \E o \in Owner, v \in Value \cup {Foreign, Garbled} : Write(o, v)
  <2> PICK o \in Owner, v \in Value \cup {Foreign, Garbled} : Write(o, v)
    BY <1>1
  <2>1. chain' \in [Owner -> Content]
    BY DEF Write, TypeOK, Content
  <2>2. inbox' \in Seq(Note) /\ lost' \subseteq Owner
    <3>1. CASE phase = "live" /\ MakesProvider(v)
      <4>1. v \in Value /\ [owner |-> o, value |-> v] \in Note
        BY <3>1 DEF MakesProvider, Note
      <4>2. inbox' = Append(inbox, [owner |-> o, value |-> v]) /\ lost' = lost
        BY <3>1 DEF Write
      <4> QED
        BY <4>1, <4>2, Inbox, Sequences DEF TypeOK
    <3>2. CASE ~(phase = "live" /\ MakesProvider(v))
      BY <3>2 DEF Write, TypeOK, Note
    <3> QED
      BY <3>1, <3>2
  <2> QED
    BY <2>1, <2>2 DEF Write, TypeOK, Content, Note
<1>2. CASE \E o \in Owner : Close(o) \/ HttpRegister(o) \/ Unregister(o) \/ Pin(o)
  BY <1>2 DEF Close, HttpRegister, Unregister, Pin, TypeOK
<1>3. CASE Disconnect
  <2>1. inbox' \in Seq(Note)
    BY <1>3, Empty DEF Disconnect
  <2>2. \A i \in DOMAIN inbox : inbox[i] \in Note
    BY Inbox, Sequences
  <2>3. {inbox[i].owner : i \in DOMAIN inbox} \subseteq Owner
    BY <2>2 DEF Note
  <2>4. lost' \subseteq Owner
    BY <1>3, <2>3 DEF Disconnect, TypeOK
  <2> QED
    BY <1>3, <2>1, <2>4 DEF Disconnect, TypeOK, Note
<1>4. CASE Start
  BY <1>4 DEF Start, TypeOK
<1>5. CASE FinishBackfill
  <2>1. row' \in [Owner -> Value \cup {HttpRow, NoRow}]
    BY <1>5, UpsertedType, PrunedType DEF FinishBackfill
  <2>2. phase' \in {"idle", "live"}
    BY <1>5 DEF FinishBackfill
  <2> QED
    BY <1>5, <2>1, <2>2 DEF FinishBackfill, TypeOK
<1>6. CASE FailBackfill
  BY <1>6 DEF FailBackfill, TypeOK
<1>7. CASE Deliver
  <2>1. Head(inbox) \in Note /\ inbox' \in Seq(Note)
    BY <1>7, Inbox, Sequences DEF Deliver
  <2>2. row' \in [Owner -> Value \cup {HttpRow, NoRow}] /\ lost' \subseteq Owner
    BY <1>7, <2>1 DEF Deliver, TypeOK, Note
  <2> QED
    BY <1>7, <2>1, <2>2 DEF Deliver, TypeOK, Note
<1>8. CASE \E c \in Call : BeginPrune(c)
  BY <1>8 DEF BeginPrune, TypeOK
<1>9. CASE \E c \in Call : FinishPrune(c)
  <2>1. row' \in [Owner -> Value \cup {HttpRow, NoRow}] /\ lost' \subseteq Owner
    BY <1>9, PrunedType DEF FinishPrune, TypeOK
  <2> QED
    BY <1>9, <2>1 DEF FinishPrune, TypeOK
<1>10. CASE \E c \in Call : FailPrune(c)
  BY <1>10 DEF FailPrune, TypeOK
<1>11. CASE Stop
  <2>1. stopped' \in BOOLEAN /\ phase' \in {"down", "backfill", "live", "idle"}
    BY <1>11 DEF Stop, TypeOK
  <2> QED
    BY <1>11, <2>1 DEF Stop, TypeOK
<1>12. CASE Exit
  <2>1. inbox' \in Seq(Note)
    BY <1>12, Empty DEF Exit
  <2>2. /\ stopped' \in BOOLEAN /\ pruning' \subseteq Call
        /\ phase' \in {"down", "backfill", "live", "idle"}
    BY <1>12, Zenon DEF Exit
  <2>3. snapshot' \in [Owner -> Content] /\ seen' \in [Call -> SUBSET Owner]
    BY <1>12 DEF Exit, Content
  <2> QED
    BY <1>12, <2>1, <2>2, <2>3 DEF Exit, TypeOK, Note, Content
<1>13. CASE UNCHANGED vars
  BY <1>13 DEF vars, TypeOK
<1> QED
  BY <1>1, <1>2, <1>3, <1>4, <1>5, <1>6, <1>7, <1>8, <1>9, <1>10, <1>11, <1>12,
     <1>13 DEF Next

-----------------------------------------------------------------------------
(* How the mirror lags                                                     *)

LEMMA NoteAt == TypeOK => /\ Len(inbox) \in Nat
                          /\ \A i \in 1..Len(inbox) : inbox[i] \in Note
BY Inbox, Sequences

\* A write.
LEMMA WriteExplained ==
    ASSUME Inv, NEW o \in Owner, NEW v \in Value \cup {Foreign, Garbled},
           Write(o, v)
    PROVE  SnapshotExplained' /\ QuietUnlessLive' /\ LastSaysNow' /\ Explained'
<1>1. /\ UNCHANGED <<row, phase, stopped, snapshot>>
      /\ chain' \in [Owner -> Content] /\ chain'[o] = v
      /\ \A p \in Owner : p # o => chain'[p] = chain[p]
  BY DEF Write, Inv, TypeOK, Content
<1>2. Len(inbox) \in Nat /\ \A i \in 1..Len(inbox) : inbox[i] \in Note
  BY NoteAt DEF Inv
<1>3. CASE phase = "live" /\ MakesProvider(v)
  <2> DEFINE n == [owner |-> o, value |-> v]
  <2>1. inbox' = Append(inbox, n) /\ lost' = lost
    BY <1>3 DEF Write
  <2>2. /\ Len(inbox') = Len(inbox) + 1
        /\ inbox'[Len(inbox) + 1] = n
        /\ \A i \in 1..Len(inbox) : inbox'[i] = inbox[i]
    BY <2>1 DEF Inv, TypeOK
  <2>3. /\ inbox'[Len(inbox) + 1].owner = o
        /\ inbox'[Len(inbox) + 1].value = chain'[o]
    BY <1>1, <2>2
  <2>4. LastSaysNow'
    <3> SUFFICES ASSUME NEW i \in 1..Len(inbox'), chain'[inbox'[i].owner] \in Value
                 PROVE  \E j \in 1..Len(inbox') :
                           /\ j >= i
                           /\ inbox'[j].owner = inbox'[i].owner
                           /\ inbox'[j].value = chain'[inbox'[i].owner]
      BY DEF LastSaysNow
    <3>1. CASE inbox'[i].owner = o
      BY <1>2, <2>2, <2>3, <3>1
    <3>2. CASE inbox'[i].owner # o
      <4>1. i \in 1..Len(inbox) /\ inbox'[i] = inbox[i] /\ inbox[i] \in Note
        BY <1>2, <2>2, <2>3, <3>2
      <4>2. chain'[inbox[i].owner] = chain[inbox[i].owner]
        BY <1>1, <3>2, <4>1 DEF Note
      <4>3. PICK j \in 1..Len(inbox) : /\ j >= i
                                       /\ inbox[j].owner = inbox[i].owner
                                       /\ inbox[j].value = chain[inbox[i].owner]
        BY <4>1, <4>2 DEF Inv, LastSaysNow
      <4> QED
        BY <1>2, <2>2, <4>1, <4>2, <4>3
    <3> QED
      BY <3>1, <3>2
  <2>5. Explained'
    <3> SUFFICES ASSUME phase = "live", ~stopped, NEW p \in Owner, chain'[p] \in Value
                 PROVE  row'[p] = chain'[p] \/ Underway(p)' \/ p \in lost'
      BY <1>1 DEF Explained
    <3>1. CASE p = o
      BY <1>2, <2>2, <2>3, <3>1 DEF Underway
    <3>2. CASE p # o
      BY <1>1, <1>2, <2>1, <2>2, <3>2 DEF Inv, Explained, Underway
    <3> QED
      BY <3>1, <3>2
  <2> QED
    BY <1>1, <1>3, <2>4, <2>5 DEF SnapshotExplained, QuietUnlessLive
<1>4. CASE ~(phase = "live" /\ MakesProvider(v))
  <2>1. inbox' = inbox /\ lost' = lost \cup {o}
    BY <1>4 DEF Write
  <2>2. v \in Value => inbox = <<>>
    BY <1>4 DEF MakesProvider, Inv, QuietUnlessLive
  <2>3. LastSaysNow'
    BY <1>1, <1>2, <2>1, <2>2 DEF Inv, LastSaysNow, Note
  <2>4. Explained'
    BY <1>1, <1>2, <2>1 DEF Inv, Explained, Underway
  <2> QED
    BY <1>1, <2>1, <2>3, <2>4 DEF Inv, SnapshotExplained, QuietUnlessLive
<1> QED
  BY <1>3, <1>4

\* Closing an account leaves nothing to mirror.
LEMMA CloseExplained ==
    ASSUME Inv, NEW o \in Owner, Close(o)
    PROVE  SnapshotExplained' /\ QuietUnlessLive' /\ LastSaysNow' /\ Explained'
<1>1. /\ UNCHANGED <<row, phase, stopped, snapshot, inbox, lost>>
      /\ chain'[o] = Absent /\ Absent \notin Value
      /\ \A p \in Owner : p # o => chain'[p] = chain[p]
  BY ConstantsAssumption DEF Close, Inv, TypeOK
<1>2. Len(inbox) \in Nat /\ \A i \in 1..Len(inbox) : inbox[i] \in Note
  BY NoteAt DEF Inv
<1> QED
  BY <1>1, <1>2 DEF Inv, SnapshotExplained, QuietUnlessLive, LastSaysNow, Explained,
     Underway, Note

\* A delivery takes the first notification of its account off the list of the
\* lost: either it is the last, and right, or the last is still under way.
LEMMA DeliverExplained ==
    ASSUME Inv, Deliver
    PROVE  SnapshotExplained' /\ QuietUnlessLive' /\ LastSaysNow' /\ Explained'
<1>1. Len(inbox) \in Nat /\ \A i \in 1..Len(inbox) : inbox[i] \in Note
  BY NoteAt DEF Inv
<1>2. /\ UNCHANGED <<chain, phase, stopped, snapshot>>
      /\ inbox # <<>> /\ inbox' = Tail(inbox)
  BY DEF Deliver
<1>3. /\ Len(inbox) >= 1 /\ Len(inbox') = Len(inbox) - 1
      /\ Head(inbox) = inbox[1]
      /\ \A i \in 1..Len(inbox') : inbox'[i] = inbox[i + 1]
  BY <1>2 DEF Inv, TypeOK
<1>4. phase = "live"
  BY <1>2 DEF Inv, QuietUnlessLive
<1>5. LastSaysNow'
  <2> SUFFICES ASSUME NEW i \in 1..Len(inbox'), chain[inbox'[i].owner] \in Value
               PROVE  \E j \in 1..Len(inbox') :
                         /\ j >= i
                         /\ inbox'[j].owner = inbox'[i].owner
                         /\ inbox'[j].value = chain[inbox'[i].owner]
    BY <1>2 DEF LastSaysNow
  <2>1. i + 1 \in 1..Len(inbox) /\ inbox'[i] = inbox[i + 1]
    BY <1>1, <1>3
  <2>2. PICK j \in 1..Len(inbox) : /\ j >= i + 1
                                   /\ inbox[j].owner = inbox[i + 1].owner
                                   /\ inbox[j].value = chain[inbox[i + 1].owner]
    BY <2>1 DEF Inv, LastSaysNow
  <2>3. j - 1 \in 1..Len(inbox') /\ j - 1 >= i /\ inbox'[j - 1] = inbox[j]
    BY <1>1, <1>3, <2>2
  <2> QED
    BY <2>1, <2>2, <2>3
<1>6. Explained'
  <2> SUFFICES ASSUME ~stopped, NEW o \in Owner, chain[o] \in Value
               PROVE  row'[o] = chain[o] \/ Underway(o)' \/ o \in lost'
    BY <1>2 DEF Explained
  <2>1. /\ row' = [row EXCEPT ![inbox[1].owner] = inbox[1].value]
        /\ lost' = lost \ {inbox[1].owner}
    BY <1>3 DEF Deliver
  <2>2. ASSUME NEW j \in 1..Len(inbox), j >= 2,
               inbox[j].owner = o, inbox[j].value = chain[o]
        PROVE  Underway(o)'
    <3>1. j - 1 \in 1..Len(inbox') /\ inbox'[j - 1] = inbox[j]
      BY <1>1, <1>3, <2>2
    <3> QED
      BY <1>2, <2>2, <3>1 DEF Underway
  <2>3. CASE o = inbox[1].owner
    <3>1. PICK j \in 1..Len(inbox) : inbox[j].owner = o /\ inbox[j].value = chain[o]
      BY <1>1, <1>3, <2>3 DEF Inv, LastSaysNow
    <3>2. CASE j = 1
      BY <2>1, <2>3, <3>1, <3>2 DEF Inv, TypeOK
    <3>3. CASE j >= 2
      BY <2>2, <3>1, <3>3
    <3> QED
      BY <1>1, <3>2, <3>3
  <2>4. CASE o # inbox[1].owner
    <3>1. row'[o] = row[o] /\ (o \in lost => o \in lost')
      BY <2>1, <2>4 DEF Inv, TypeOK
    <3>2. CASE Underway(o)
      <4>1. PICK j \in 1..Len(inbox) : inbox[j].owner = o /\ inbox[j].value = chain[o]
        BY <3>2 DEF Underway
      <4>2. j >= 2
        BY <1>1, <2>4, <4>1
      <4> QED
        BY <2>2, <4>1, <4>2
    <3> QED
      BY <1>4, <3>1, <3>2 DEF Inv, Explained
  <2> QED
    BY <2>3, <2>4
<1> QED
  BY <1>2, <1>4, <1>5, <1>6 DEF SnapshotExplained, QuietUnlessLive

\* The backfill brings in the snapshot, of which its prune spares what decodes.
LEMMA BackfillExplained ==
    ASSUME Inv, FinishBackfill
    PROVE  SnapshotExplained' /\ QuietUnlessLive' /\ LastSaysNow' /\ Explained'
<1>1. /\ UNCHANGED <<chain, stopped, inbox, lost>>
      /\ phase = "backfill" /\ phase' \in {"idle", "live"}
  BY DEF FinishBackfill
<1>2. inbox = <<>> /\ Len(inbox) = 0
  BY <1>1 DEF Inv, QuietUnlessLive
<1>3. Explained'
  <2> SUFFICES ASSUME ~stopped, NEW o \in Owner, chain[o] \in Value, o \notin lost
               PROVE  row'[o] = chain[o]
    BY <1>1 DEF Explained
  <2>1. snapshot[o] = chain[o]
    BY <1>1 DEF Inv, SnapshotExplained
  <2>2. Upserted[o] = chain[o] /\ o \in Decoded
    BY <2>1, UpsertedType DEF Inv, MakesProvider, Decoded, Decodes
  <2>3. PICK D : D \in SUBSET Owner /\ Prunes(Upserted, Decoded, D)
    BY DEF FinishBackfill
  <2>4. D \subseteq Doomed(Upserted, Decoded) /\ row'[o] = IF o \in D THEN NoRow ELSE Upserted[o]
    BY <2>3, UpsertedType, PrunedType DEF Inv
  <2> QED
    BY <2>2, <2>4 DEF Doomed
<1>4. LastSaysNow'
  BY <1>1, <1>2 DEF LastSaysNow
<1> QED
  BY <1>1, <1>2, <1>3, <1>4 DEF SnapshotExplained, QuietUnlessLive

\* Steps that only lose notifications or rows, and say so.
LEMMA LosingExplained ==
    ASSUME Inv, UNCHANGED <<chain, phase, stopped, snapshot>>,
           inbox' = inbox \/ inbox' = <<>>, lost \subseteq lost',
           \A o \in Owner : row'[o] = row[o] \/ o \in lost',
           \A o \in Owner : Underway(o) => Underway(o)' \/ o \in lost'
    PROVE  SnapshotExplained' /\ QuietUnlessLive' /\ LastSaysNow' /\ Explained'
<1>1. LastSaysNow'
  <2>1. CASE inbox' = inbox
    BY <2>1 DEF Inv, LastSaysNow
  <2>2. CASE inbox' = <<>>
    BY <2>2 DEF LastSaysNow
  <2> QED
    BY <2>1, <2>2
<1>2. SnapshotExplained'
  BY DEF Inv, SnapshotExplained
<1>3. QuietUnlessLive'
  BY DEF Inv, QuietUnlessLive
<1>4. Explained'
  BY DEF Inv, Explained
<1> QED
  BY <1>1, <1>2, <1>3, <1>4

\* Steps to a phase that is not live, or after a stop, with nothing under way.
LEMMA QuietExplained ==
    ASSUME UNCHANGED chain, inbox' = <<>>, phase' # "live" \/ stopped',
           phase' = "backfill" =>
               SnapshotExplained /\ phase = "backfill" /\ UNCHANGED <<snapshot, lost>>
    PROVE  SnapshotExplained' /\ QuietUnlessLive' /\ LastSaysNow' /\ Explained'
BY DEF SnapshotExplained, QuietUnlessLive, LastSaysNow, Explained

LEMMA InitInv == Init => Inv
<1> SUFFICES ASSUME Init PROVE Inv
  OBVIOUS
<1>1. phase = "down" /\ inbox = <<>>
  BY DEF Init
<1>2. LastSaysNow
  BY <1>1 DEF LastSaysNow
<1> QED
  BY <1>1, <1>2, InitType DEF Inv, SnapshotExplained, QuietUnlessLive, Explained

LEMMA NextInv == Inv /\ [Next]_vars => Inv'
<1> SUFFICES ASSUME Inv, [Next]_vars
             PROVE  SnapshotExplained' /\ QuietUnlessLive' /\ LastSaysNow' /\ Explained'
  BY NextType DEF Inv
<1>1. CASE \E o \in Owner, v \in Value \cup {Foreign, Garbled} : Write(o, v)
  BY <1>1, WriteExplained
<1>2. CASE \E o \in Owner : Close(o)
  BY <1>2, CloseExplained
<1>3. CASE \E o \in Owner : HttpRegister(o) \/ Unregister(o)
  <2> PICK o \in Owner : HttpRegister(o) \/ Unregister(o)
    BY <1>3
  <2>1. /\ UNCHANGED <<chain, phase, stopped, snapshot, inbox>>
        /\ lost' = lost \cup {o}
    BY DEF HttpRegister, Unregister
  <2>2. \A p \in Owner : row'[p] = row[p] \/ p \in lost'
    BY <2>1 DEF HttpRegister, Unregister, Inv, TypeOK
  <2>3. \A p \in Owner : Underway(p) => Underway(p)'
    BY <2>1 DEF Underway
  <2> QED
    BY <2>1, <2>2, <2>3, LosingExplained
<1>4. CASE Disconnect
  <2>1. /\ UNCHANGED <<chain, row, phase, stopped, snapshot>> /\ inbox' = <<>>
        /\ lost' = lost \cup {inbox[i].owner : i \in DOMAIN inbox}
    BY <1>4 DEF Disconnect
  <2>2. \A p \in Owner : Underway(p) => p \in lost'
    BY <2>1 DEF Underway, Inv, TypeOK
  <2> QED
    BY <2>1, <2>2, LosingExplained
<1>5. CASE Start
  <2>1. /\ UNCHANGED <<chain, stopped, inbox>> /\ phase = "down"
        /\ phase' = "backfill" /\ snapshot' = chain
    BY <1>5 DEF Start
  <2>2. inbox = <<>>
    BY <2>1 DEF Inv, QuietUnlessLive
  <2>3. LastSaysNow'
    BY <2>1, <2>2 DEF LastSaysNow
  <2> QED
    BY <2>1, <2>2, <2>3 DEF SnapshotExplained, QuietUnlessLive, Explained
<1>6. CASE FinishBackfill
  BY <1>6, BackfillExplained
<1>7. CASE FailBackfill
  BY <1>7, QuietExplained DEF FailBackfill, Inv, QuietUnlessLive
<1>8. CASE Deliver
  BY <1>8, DeliverExplained
<1>9. CASE \E c \in Call : FinishPrune(c)
  <2>1. PICK c \in Call, D \in SUBSET Owner : Prunes(row, seen[c], D) /\ lost' = lost \cup D
    BY <1>9 DEF FinishPrune
  <2>2. UNCHANGED <<chain, phase, stopped, snapshot, inbox>>
    BY <1>9 DEF FinishPrune
  <2>3. \A p \in Owner : row'[p] = row[p] \/ p \in lost'
    BY <2>1, PrunedType DEF Inv, TypeOK
  <2>4. \A p \in Owner : Underway(p) => Underway(p)'
    BY <2>2 DEF Underway
  <2> QED
    BY <2>1, <2>2, <2>3, <2>4, LosingExplained
<1>10. CASE Stop
  <2>1. /\ UNCHANGED <<chain, snapshot, lost>> /\ stopped' /\ inbox' = <<>>
        /\ phase' = "backfill" => phase = "backfill"
    BY <1>10 DEF Stop
  <2> QED
    BY <2>1, QuietExplained DEF Inv
<1>11. CASE Exit
  BY <1>11, QuietExplained DEF Exit
<1>12. CASE \/ \E o \in Owner : Pin(o)
            \/ \E c \in Call : BeginPrune(c) \/ FailPrune(c)
            \/ UNCHANGED vars
  <2>1. UNCHANGED <<chain, row, phase, stopped, snapshot, inbox, lost>>
    BY <1>12 DEF Pin, BeginPrune, FailPrune, vars
  <2>2. \A p \in Owner : Underway(p) => Underway(p)'
    BY <2>1 DEF Underway
  <2> QED
    BY <2>1, <2>2, LosingExplained
<1> QED
  BY <1>1, <1>2, <1>3, <1>4, <1>5, <1>6, <1>7, <1>8, <1>9, <1>10, <1>11, <1>12
     DEF Next

-----------------------------------------------------------------------------
(* The theorems                                                            *)

\* The mirror, the indexer's phases and its notifications keep their types
\* through backfills, prunes, stops and lost connections.
THEOREM TypeCorrect == Spec => []TypeOK
<1>1. Init => TypeOK
  BY InitType
<1>2. TypeOK /\ [Next]_vars => TypeOK'
  BY NextType
<1> QED
  BY <1>1, <1>2, PTL DEF Spec

\* However many accounts there are and however their writes, the subscription
\* and the prunes interleave: a row that differs from an account that makes a
\* provider either has the news of it under way, or was touched in one of the
\* ways listed.
THEOREM MirrorAccountedFor == Spec => []LagExplained
<1>1. Init => Inv
  BY InitInv
<1>2. Inv /\ [Next]_vars => Inv'
  BY NextInv
<1>3. Inv => LagExplained
  BY DEF Inv, Explained, Underway, LagExplained, TypeOK
<1> QED
  BY <1>1, <1>2, <1>3, PTL DEF Spec

\* No answer that was under way when the indexer was stopped writes contents
\* into the table.
THEOREM StopIsFinal == Spec => NoUpsertAfterStop
<1> DEFINE Silent == stopped /\ stopped' => \A o \in Owner :
                        row'[o] \in Value => row'[o] = row[o]
<1>1. ASSUME TypeOK, [Next]_vars
      PROVE  [Silent]_vars
  <2> SUFFICES ASSUME stopped, stopped', NEW o \in Owner, row'[o] \in Value, Next
               PROVE  row'[o] = row[o]
    BY <1>1 DEF vars
  <2>1. NoRow \notin Value /\ HttpRow \notin Value
    BY ConstantsAssumption
  <2>2. CASE FinishBackfill
    <3>1. PICK D \in SUBSET Owner : Prunes(Upserted, Decoded, D)
      BY <2>2 DEF FinishBackfill
    <3>2. row'[o] = IF o \in D THEN NoRow ELSE Upserted[o]
      BY <1>1, <3>1, UpsertedType, PrunedType
    <3> QED
      BY <1>1, <2>1, <3>2, UpsertedType
  <2>3. CASE \E c \in Call : FinishPrune(c)
    <3>1. PICK c \in Call, D \in SUBSET Owner : Prunes(row, seen[c], D)
      BY <2>3 DEF FinishPrune
    <3>2. row'[o] = IF o \in D THEN NoRow ELSE row[o]
      BY <1>1, <3>1, PrunedType DEF TypeOK
    <3> QED
      BY <2>1, <3>2
  <2>4. CASE \E p \in Owner : HttpRegister(p) \/ Unregister(p)
    <3>1. PICK p \in Owner : HttpRegister(p) \/ Unregister(p)
      BY <2>4
    <3> QED
      BY <1>1, <2>1, <3>1 DEF HttpRegister, Unregister, TypeOK
  <2>5. CASE Deliver
    BY <2>5 DEF Deliver
  <2>6. CASE \/ \E p \in Owner : \/ \E v \in Value \cup {Foreign, Garbled} : Write(p, v)
                                 \/ Close(p) \/ Pin(p)
             \/ \E c \in Call : BeginPrune(c) \/ FailPrune(c)
             \/ Disconnect \/ Start \/ FailBackfill
             \/ Stop \/ Exit
    BY <2>6 DEF Write, Close, Pin, Disconnect, Start, FailBackfill, BeginPrune,
       FailPrune, Stop, Exit
  <2> QED
    BY <2>2, <2>3, <2>4, <2>5, <2>6 DEF Next
<1> QED
  BY <1>1, TypeCorrect, PTL DEF Spec, NoUpsertAfterStop

-----------------------------------------------------------------------------
(* Rows that contracts and events refer to.                                 *)

\* What a contract or an event refers to has a row.
PinnedHaveRows == \A o \in pinned : row[o] # NoRow

\* Neither an upsert nor a prune, from a snapshot however old, takes a row away
\* that a contract or an event refers to, whether its account is gone or not.
THEOREM PinnedRowsStay == Spec => []PinnedHaveRows
<1>1. Init => PinnedHaveRows
  BY DEF Init, PinnedHaveRows
<1>2. ASSUME TypeOK, PinnedHaveRows, [Next]_vars, NEW o \in pinned'
      PROVE  row'[o] # NoRow
  <2> USE DEF PinnedHaveRows
  <2>1. NoRow \notin Value /\ HttpRow # NoRow
    BY ConstantsAssumption
  <2>2. ASSUME NEW table \in [Owner -> Value \cup {HttpRow, NoRow}], NEW s, NEW D,
               Prunes(table, s, D), table[o] # NoRow, o \in pinned
        PROVE  row'[o] # NoRow
    <3>1. o \in Owner /\ o \notin D
      BY <1>2, <2>2 DEF Prunes, TypeOK
    <3> QED
      BY <2>2, <3>1, PrunedType
  <2>3. CASE FinishBackfill
    <3>1. PICK D \in SUBSET Owner : Prunes(Upserted, Decoded, D)
      BY <2>3 DEF FinishBackfill
    <3>2. o \in pinned /\ o \in Owner
      BY <1>2, <2>3 DEF FinishBackfill, TypeOK
    <3>3. Upserted[o] # NoRow
      BY <1>2, <2>1, <3>2, UpsertedType DEF MakesProvider
    <3> QED
      BY <1>2, <2>2, <3>1, <3>2, <3>3, UpsertedType
  <2>4. CASE \E c \in Call : FinishPrune(c)
    <3>1. PICK c \in Call, D \in SUBSET Owner : Prunes(row, seen[c], D)
      BY <2>4 DEF FinishPrune
    <3>2. o \in pinned /\ row \in [Owner -> Value \cup {HttpRow, NoRow}]
      BY <1>2, <2>4 DEF FinishPrune, TypeOK
    <3> QED
      BY <1>2, <2>2, <3>1, <3>2
  <2>5. CASE Deliver
    <3>1. Head(inbox) \in Note
      BY <1>2, <2>5, Inbox, Sequences DEF Deliver
    <3>2. Head(inbox).value \in Value
      BY <3>1 DEF Note
    <3> QED
      BY <1>2, <2>1, <2>5, <3>2 DEF Deliver, TypeOK
  <2>6. CASE \E p \in Owner : HttpRegister(p) \/ Unregister(p) \/ Pin(p)
    BY <1>2, <2>1, <2>6 DEF HttpRegister, Unregister, Pin, TypeOK
  <2>7. CASE \/ \E p \in Owner : \/ \E v \in Value \cup {Foreign, Garbled} : Write(p, v)
                                 \/ Close(p)
             \/ \E c \in Call : BeginPrune(c) \/ FailPrune(c)
             \/ Disconnect \/ Start \/ FailBackfill
             \/ Stop \/ Exit \/ UNCHANGED vars
    <3>1. row' = row /\ pinned' = pinned
      BY <2>7 DEF Write, Close, Disconnect, Start, FailBackfill, BeginPrune,
         FailPrune, Stop, Exit, vars
    <3> QED
      BY <1>2, <3>1
  <2> QED
    BY <1>2, <2>3, <2>4, <2>5, <2>6, <2>7 DEF Next
<1>3. TypeOK /\ PinnedHaveRows /\ [Next]_vars => PinnedHaveRows'
  BY <1>2 DEF PinnedHaveRows
<1> QED
  BY <1>1, <1>3, TypeCorrect, PTL DEF Spec

-----------------------------------------------------------------------------
(* Liveness.  The provers know no rule for ENABLED, so when the fair        *)
(* actions are enabled is a hypothesis: a live indexer can begin a prune    *)
(* that is not under way, and one under way can end.                        *)

Awaiting(c)      == c \in pruning
BeginEnabled(c)  == Live /\ ~Awaiting(c) => ENABLED <<BeginPrune(c)>>_vars
FinishEnabled(c) == Awaiting(c) => ENABLED <<FinishPrune(c)>>_vars

\* An account that is gone, with none of its notifications under way, while the
\* owners K are the pinned ones and their accounts are there.
AtRest(o, K) ==
    /\ Live /\ chain[o] = Absent
    /\ \A i \in 1..Len(inbox) : inbox[i].owner # o
    /\ pinned = K /\ ~PruneBlocked

Gone(o) == row[o] \notin Value

\* Prune c, if it is under way, looked at the chain after that came to rest.
Fresh(c, o, K) == c \in pruning => o \notin seen[c] /\ K \subseteq seen[c]

LEMMA GoneStays ==
    ASSUME TypeOK, [Next]_vars, NEW o \in Owner, NEW K, AtRest(o, K), AtRest(o, K)',
           Gone(o)
    PROVE  Gone(o)'
<1>1. NoRow \notin Value /\ HttpRow \notin Value
  BY ConstantsAssumption
<1>2. phase = "live" /\ row \in [Owner -> Value \cup {HttpRow, NoRow}]
  BY DEF AtRest, Live, TypeOK
<1>3. CASE FinishBackfill \/ FailBackfill \/ Start \/ Stop \/ Exit
  BY <1>2, <1>3 DEF FinishBackfill, FailBackfill, Start, Stop, Exit, AtRest, Live
<1>4. CASE \E c \in Call : FinishPrune(c)
  <2>1. PICK c \in Call, D \in SUBSET Owner : Prunes(row, seen[c], D)
    BY <1>4 DEF FinishPrune
  <2>2. row'[o] = IF o \in D THEN NoRow ELSE row[o]
    BY <1>2, <2>1, PrunedType
  <2> QED
    BY <1>1, <2>2 DEF Gone
<1>5. CASE Deliver
  <2>1. Len(inbox) \in Nat /\ inbox # <<>> /\ inbox \in Seq(Note)
    BY <1>5, Inbox, NoteAt DEF Deliver
  <2>2. 1 \in 1..Len(inbox) /\ Head(inbox) = inbox[1]
    BY <2>1
  <2>3. Head(inbox).owner # o
    BY <2>2 DEF AtRest
  <2>4. row' = row \/ row' = [row EXCEPT ![Head(inbox).owner] = Head(inbox).value]
    BY <1>5, Zenon DEF Deliver
  <2> QED
    BY <1>2, <2>3, <2>4 DEF Gone
<1>6. CASE \E p \in Owner : HttpRegister(p) \/ Unregister(p)
  BY <1>1, <1>2, <1>6 DEF HttpRegister, Unregister, Gone
<1>7. CASE \/ \E p \in Owner : \/ \E v \in Value \cup {Foreign, Garbled} : Write(p, v)
                               \/ Close(p) \/ Pin(p)
           \/ \E c \in Call : BeginPrune(c) \/ FailPrune(c)
           \/ Disconnect \/ UNCHANGED vars
  <2>1. row' = row
    BY <1>7 DEF Write, Close, Pin, Disconnect, BeginPrune, FailPrune, vars
  <2> QED
    BY <2>1 DEF Gone
<1> QED
  BY <1>3, <1>4, <1>5, <1>6, <1>7 DEF Next

LEMMA BeginIsFresh ==
    ASSUME TypeOK, NEW o \in Owner, NEW K, AtRest(o, K), NEW c \in Call, BeginPrune(c)
    PROVE  Fresh(c, o, K)' /\ c \in pruning'
<1>1. seen'[c] = {p \in Owner : Decodes(chain[p])} /\ c \in pruning'
  BY DEF BeginPrune, TypeOK
<1>2. ~Decodes(chain[o])
  BY ConstantsAssumption DEF AtRest, Decodes
<1>3. ASSUME NEW x \in K
      PROVE  x \in Owner /\ Decodes(chain[x])
  BY <1>3 DEF AtRest, PruneBlocked, TypeOK
<1> QED
  BY <1>1, <1>2, <1>3 DEF Fresh

LEMMA FreshStays ==
    ASSUME TypeOK, [Next]_vars, NEW o \in Owner, NEW K, AtRest(o, K),
           NEW c \in Call, Fresh(c, o, K)
    PROVE  Fresh(c, o, K)'
<1>1. CASE BeginPrune(c)
  BY <1>1, BeginIsFresh
<1>2. ASSUME NEW d \in Call, d # c, BeginPrune(d) \/ FinishPrune(d) \/ FailPrune(d)
      PROVE  Fresh(c, o, K)'
  <2>1. (c \in pruning' <=> c \in pruning) /\ seen'[c] = seen[c]
    BY <1>2 DEF BeginPrune, FinishPrune, FailPrune, TypeOK
  <2> QED
    BY <2>1 DEF Fresh
<1>3. CASE FinishPrune(c) \/ FailPrune(c) \/ Exit
  BY <1>3 DEF FinishPrune, FailPrune, Exit, Fresh
<1>4. CASE \/ \E p \in Owner : \/ \E v \in Value \cup {Foreign, Garbled} : Write(p, v)
                               \/ Close(p) \/ Pin(p)
                               \/ HttpRegister(p) \/ Unregister(p)
           \/ Disconnect \/ Deliver \/ FinishBackfill \/ FailBackfill \/ Start
           \/ Stop \/ UNCHANGED vars
  <2>1. pruning' = pruning /\ seen' = seen
    BY <1>4 DEF Write, Close, Pin, HttpRegister, Unregister, Disconnect, Deliver,
                FinishBackfill, FailBackfill, Start, Stop, vars
  <2> QED
    BY <2>1 DEF Fresh
<1> QED
  BY <1>1, <1>2, <1>3, <1>4 DEF Next

\* A prune that looked at the chain as it is now meets no pinned row, and so
\* reaches the end of its loop.
LEMMA FinishIsGone ==
    ASSUME TypeOK, NEW o \in Owner, NEW K, AtRest(o, K),
           NEW c \in Call, Fresh(c, o, K), FinishPrune(c)
    PROVE  Gone(o)'
<1>1. o \notin seen[c] /\ pinned \subseteq seen[c]
  BY DEF AtRest, Fresh, FinishPrune
<1>2. PICK D \in SUBSET Owner : Prunes(row, seen[c], D)
  BY DEF FinishPrune
<1>3. D = Doomed(row, seen[c])
  BY <1>1, <1>2 DEF Prunes, Doomed
<1>4. row'[o] = IF o \in D THEN NoRow ELSE row[o]
  BY <1>2, PrunedType DEF TypeOK
<1> QED
  BY <1>1, <1>3, <1>4, ConstantsAssumption DEF Doomed, Gone

\* An account that is gone falls out of the table once its notifications have
\* been delivered or lost and no further owner is pinned.
FallsOutAtRest ==
    \A o \in Owner, K \in SUBSET Owner : <>[]AtRest(o, K) => <>[]Gone(o)

FairPrunes(c)    == WF_vars(BeginPrune(c)) /\ SF_vars(FinishPrune(c))
PrunesEnabled(c) == []BeginEnabled(c) /\ []FinishEnabled(c)

\* The prunes get there whatever prunes fail or overlap, connections drop and
\* other accounts change: what is left of DeregisteredFallsOut is that inbox and
\* pins settle.
THEOREM GoneAtRest ==
    FairSpec /\ (\A c \in Call : PrunesEnabled(c)) => FallsOutAtRest
<1>1. ASSUME NEW c \in Call, NEW o \in Owner, NEW K \in SUBSET Owner
      PROVE  Spec /\ FairPrunes(c) /\ PrunesEnabled(c)
               => (<>[]AtRest(o, K) => <>[]Gone(o))
  <2>1. TypeOK /\ [Next]_vars /\ AtRest(o, K) /\ AtRest(o, K)' /\ Gone(o) => Gone(o)'
    BY GoneStays
  <2>2. TypeOK /\ [Next]_vars /\ AtRest(o, K) /\ Fresh(c, o, K) => Fresh(c, o, K)'
    BY FreshStays
  <2>3. ~Awaiting(c) => Fresh(c, o, K)
    BY DEF Fresh, Awaiting
  <2>4. <<FinishPrune(c)>>_vars => ~Awaiting(c)'
    BY DEF FinishPrune, Awaiting
  <2>5. TypeOK /\ AtRest(o, K) /\ <<BeginPrune(c)>>_vars => Awaiting(c)'
    BY BeginIsFresh DEF Awaiting
  <2>6. TypeOK /\ AtRest(o, K) /\ Fresh(c, o, K) /\ <<FinishPrune(c)>>_vars
          => Gone(o)'
    BY FinishIsGone
  <2>7. AtRest(o, K) => Live
    BY DEF AtRest
  <2> QED
    BY <2>1, <2>2, <2>3, <2>4, <2>5, <2>6, <2>7, TypeCorrect, PTL
       DEF Spec, FairPrunes, PrunesEnabled, BeginEnabled, FinishEnabled
<1>2. FairSpec => Spec /\ \A c \in Call : FairPrunes(c)
  BY PTL DEF FairSpec, Fairness, FairPrunes
<1>3. Call # {}
  BY ConstantsAssumption
<1> QED
  BY <1>1, <1>2, <1>3, Zenon DEF FallsOutAtRest
=============================================================================
