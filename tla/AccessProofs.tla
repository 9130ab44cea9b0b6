---------------------------- MODULE AccessProofs ------------------------------
(***************************************************************************)
(* Proofs about Access, for every set of keys, every term and every        *)
(* lifetime of tokens.                                                     *)
(***************************************************************************)
EXTENDS Access, TLAPS

-----------------------------------------------------------------------------
(* Type correctness *)

LEMMA RoleOfType == \A asked : RoleOf(asked) \in Role
BY DEF RoleOf, Role

LEMMA ExpiryType ==
    ASSUME TypeOK, NEW term \in Terms
    PROVE  Expiry(term) \in Nat /\ (Expiry(term) = Never \/ now <= Expiry(term))
BY ConstantsAssumption DEF Expiry, Never, TypeOK

\* A row that is inserted is a row, and the others stay.
LEMMA InsertType ==
    ASSUME TypeOK, NEW k \in Key, NEW role \in Role, NEW e \in Nat,
           NEW by \in Key \cup {Secret}
    PROVE  /\ Insert(k, role, e, by) \in [Key -> Row]
           /\ Insert(k, role, e, by)[k] =
                [role |-> role, active |-> TRUE, created |-> now,
                 expires |-> e, by |-> by]
           /\ \A x \in Key \ {k} : Insert(k, role, e, by)[x] = keys[x]
BY DEF Insert, TypeOK, Row

\* The three ways to make a key, as one.
Makes(k, role, e, by) ==
    /\ Fresh(k)
    /\ keys' = Insert(k, role, e, by)
    /\ lastGood' = Seen(k)
    /\ UNCHANGED <<tokens, enabled, now>>

\* What the maker of a key is at the moment it makes it.
Entitled(by) ==
    by # Secret =>
        /\ keys[by].role = "admin"
        /\ \/ Good(by, now)
           \/ \E token \in tokens : token.key = by /\ Valid(token, now)

LEMMA KeysAreMade ==
    ASSUME TypeOK, \A token \in tokens : token.role = keys[token.key].role, Next
    PROVE  \/ \E k \in Key, role \in Role, e \in Nat, by \in Key \cup {Secret} :
                /\ Makes(k, role, e, by) /\ Entitled(by)
                /\ e = Never \/ now <= e
           \/ \E k \in Key : Exchange(k) \/ Revoke(k)
           \/ Reconfigure \/ Elapse
<1>1. ASSUME NEW k \in Key, Bootstrap(k)
      PROVE  Makes(k, "admin", Never, Secret) /\ Entitled(Secret)
  BY <1>1 DEF Bootstrap, Makes, Entitled
<1>2. ASSUME NEW k \in Key, NEW asked, NEW term \in Terms, NEW token \in tokens,
             CreateByToken(token, k, asked, term)
      PROVE  /\ Makes(k, RoleOf(asked), Expiry(term), token.key)
             /\ Entitled(token.key)
  BY <1>2 DEF CreateByToken, Makes, Entitled
<1>3. ASSUME NEW k \in Key, NEW asked, NEW term \in Terms, NEW admin \in Key,
             CreateByKey(admin, k, asked, term)
      PROVE  Makes(k, RoleOf(asked), Expiry(term), admin) /\ Entitled(admin)
  BY <1>3 DEF CreateByKey, Makes, Entitled
<1>4. "admin" \in Role /\ Never \in Nat /\ Secret \in Key \cup {Secret}
      /\ \A token \in tokens : token.key \in Key \cup {Secret}
  BY DEF Role, Never, TypeOK, Token
<1> QED
  BY <1>1, <1>2, <1>3, <1>4, RoleOfType, ExpiryType DEF Next

-----------------------------------------------------------------------------
(* The invariant.  What TokensLapse says of valid tokens rests on when they *)
(* were issued, and what KeysDescend says of makers on what they were then. *)

Remembered ==
    \A k \in Key : /\ lastGood[k] <= now
                   /\ Good(k, now) => lastGood[k] = now
                   /\ keys[k].created <= now
                   /\ keys[k].active => ~Fresh(k)

Issued ==
    \A token \in tokens : /\ token.issued <= lastGood[token.key]
                          /\ token.role = keys[token.key].role

Inv == TypeOK /\ Remembered /\ Issued /\ KeysDescend

LEMMA InitInv == Init => Inv
BY DEF Init, Inv, TypeOK, Remembered, Issued, KeysDescend, NoRow, Row, Never,
       Fresh, Good

\* Making a key keeps the invariant: no token can be one of a fresh key.
LEMMA MakesInv ==
    ASSUME Inv, NEW k \in Key, NEW role \in Role, NEW e \in Nat,
           NEW by \in Key \cup {Secret}, Makes(k, role, e, by), Entitled(by),
           e = Never \/ now <= e
    PROVE  Inv'
<1>1. /\ keys' \in [Key -> Row]
      /\ keys'[k] = [role |-> role, active |-> TRUE, created |-> now,
                     expires |-> e, by |-> by]
      /\ \A x \in Key \ {k} : keys'[x] = keys[x]
  BY InsertType DEF Makes, Inv
<1>2. /\ lastGood' \in [Key -> Nat] /\ lastGood'[k] = now
      /\ \A x \in Key \ {k} : lastGood'[x] = lastGood[x]
      /\ \A x \in Key : lastGood'[x] >= lastGood[x]
  BY DEF Makes, Seen, Inv, TypeOK, Remembered
<1>3. tokens' = tokens /\ now' = now /\ enabled' = enabled /\ now \in Nat
  BY DEF Makes, Inv, TypeOK
<1>4. TypeOK'
  BY <1>1, <1>2, <1>3 DEF TypeOK, Inv
<1>5. Remembered'
  BY <1>1, <1>2, <1>3 DEF Remembered, Inv, Good, Fresh, Role
<1>6. \A token \in tokens : token.key \in Key \ {k}
  BY DEF Inv, Issued, TypeOK, Token, Makes, Fresh, Role
<1>7. Issued'
  BY <1>1, <1>2, <1>3, <1>6 DEF Inv, Issued
<1>8. KeysDescend'
  <2> SUFFICES ASSUME NEW x \in Key, ~Fresh(x)', keys'[x].by # Secret
               PROVE  /\ keys'[keys'[x].by].role = "admin"
                      /\ keys'[keys'[x].by].created <= keys'[x].created
                      /\ keys'[x].created < lastGood'[keys'[x].by] + TokenLife
    BY DEF KeysDescend
  <2>1. CASE x = k
    <3>1. by \in Key /\ keys'[x].by = by /\ keys'[x].created = now
      BY <1>1, <2>1
    <3>2. by \in Key \ {k} /\ keys[by].role = "admin"
      BY <1>1, <2>1, <3>1 DEF Entitled, Makes, Fresh
    <3>3. now < lastGood[by] + TokenLife
      <4>1. lastGood[by] \in Nat /\ TokenLife \in Nat \ {0} /\ now \in Nat
        BY <3>1, ConstantsAssumption DEF Inv, TypeOK
      <4>2. CASE Good(by, now)
        BY <3>1, <4>1, <4>2 DEF Inv, Remembered
      <4>3. ASSUME NEW token \in tokens, token.key = by, Valid(token, now)
            PROVE  now < lastGood[by] + TokenLife
        <5>1. token.issued \in Nat /\ token.issued <= lastGood[by]
          BY <4>3 DEF Inv, Issued, TypeOK, Token
        <5> QED
          BY <4>1, <4>3, <5>1 DEF Valid
      <4> QED
        BY <3>1, <4>2, <4>3, <2>1, <1>1 DEF Entitled
    <3> QED
      BY <1>1, <1>2, <3>1, <3>2, <3>3 DEF Inv, Remembered
  <2>2. CASE x # k
    <3> DEFINE maker == keys[x].by
    <3>1. /\ keys'[x] = keys[x] /\ ~Fresh(x)
          /\ maker \in Key
      BY <1>1, <2>2 DEF Fresh, Inv, TypeOK, Row
    <3>2. /\ keys[maker].role = "admin"
          /\ keys[maker].created <= keys[x].created
          /\ keys[x].created < lastGood[maker] + TokenLife
      BY <2>2, <3>1 DEF Inv, KeysDescend
    <3>3. maker # k /\ keys'[maker] = keys[maker]
      BY <1>1, <3>1, <3>2 DEF Makes, Fresh
    <3> QED
      BY <1>2, <3>1, <3>2, <3>3
  <2> QED
    BY <2>1, <2>2
<1> QED
  BY <1>4, <1>5, <1>7, <1>8 DEF Inv

LEMMA NextInv == Inv /\ [Next]_vars => Inv'
<1> SUFFICES ASSUME Inv, [Next]_vars
             PROVE  Inv'
  OBVIOUS
<1>1. ASSUME NEW k \in Key, Exchange(k)
      PROVE  Inv'
  <2>1. UNCHANGED <<keys, enabled, lastGood, now>>
    BY <1>1 DEF Exchange
  <2> DEFINE fresh == [key |-> k, role |-> keys[k].role, issued |-> now]
  <2>2. tokens' = tokens \cup {fresh}
    BY <1>1 DEF Exchange
  <2>3. keys[k].role \in Role
    BY <1>1 DEF Exchange, Good, Fresh, Inv, Remembered, TypeOK, Row, Role
  <2>4. fresh \in Token /\ lastGood[k] = now
    BY <1>1, <2>3 DEF Inv, TypeOK, Token, Exchange, Remembered
  <2>5. TypeOK'
    BY <2>1, <2>2, <2>4 DEF Inv, TypeOK
  <2>6. Issued'
    BY <2>1, <2>2, <2>4 DEF Inv, Issued, TypeOK
  <2> QED
    BY <2>1, <2>5, <2>6 DEF Inv, Remembered, KeysDescend, Good, Fresh
<1>2. ASSUME NEW k \in Key, Revoke(k)
      PROVE  Inv'
  <2>1. /\ keys' = [keys EXCEPT ![k].active = FALSE]
        /\ UNCHANGED <<tokens, enabled, lastGood, now>>
    BY <1>2 DEF Revoke
  <2>2. /\ keys' \in [Key -> Row]
        /\ \A x \in Key : /\ keys'[x].role = keys[x].role
                          /\ keys'[x].created = keys[x].created
                          /\ keys'[x].expires = keys[x].expires
                          /\ keys'[x].by = keys[x].by
                          /\ keys'[x].active => keys[x].active
    BY <2>1 DEF Inv, TypeOK, Row
  <2>3. TypeOK'
    BY <2>1, <2>2 DEF Inv, TypeOK
  <2>4. Remembered' /\ Issued'
    BY <2>1, <2>2 DEF Inv, Remembered, Issued, Good, Fresh, TypeOK, Token
  <2>5. KeysDescend'
    BY <2>1, <2>2 DEF Inv, KeysDescend, Fresh, TypeOK, Row
  <2> QED
    BY <2>3, <2>4, <2>5 DEF Inv
<1>3. ASSUME Elapse
      PROVE  Inv'
  <2>1. now' = now + 1 /\ now \in Nat /\ UNCHANGED <<keys, enabled>>
    BY <1>3 DEF Elapse, Inv, TypeOK
  <2>2. /\ lastGood' \in [Key -> Nat]
        /\ \A x \in Key : /\ lastGood'[x] >= lastGood[x] /\ lastGood'[x] <= now'
                          /\ Good(x, now') => lastGood'[x] = now'
    BY <1>3, <2>1 DEF Elapse, Inv, TypeOK, Remembered
  <2>3. tokens' \subseteq tokens
    BY <1>3 DEF Elapse
  <2>4. TypeOK'
    BY <2>1, <2>2, <2>3 DEF Inv, TypeOK
  <2>5. Remembered'
    BY <2>1, <2>2 DEF Inv, Remembered, Good, Fresh, TypeOK, Row
  <2>6. Issued'
    <3> SUFFICES ASSUME NEW token \in tokens
                 PROVE  /\ token.issued <= lastGood'[token.key]
                        /\ token.role = keys[token.key].role
      BY <2>1, <2>3 DEF Issued
    <3>1. token.key \in Key /\ token.issued \in Nat /\ lastGood[token.key] \in Nat
      BY DEF Inv, TypeOK, Token
    <3> QED
      BY <2>2, <3>1 DEF Inv, Issued
  <2>7. KeysDescend'
    <3> SUFFICES ASSUME NEW x \in Key, ~Fresh(x), keys[x].by # Secret
                 PROVE  /\ keys[keys[x].by].role = "admin"
                        /\ keys[keys[x].by].created <= keys[x].created
                        /\ keys[x].created < lastGood'[keys[x].by] + TokenLife
      BY <2>1 DEF KeysDescend, Fresh
    <3>1. /\ keys[x].by \in Key /\ keys[x].created \in Nat
          /\ lastGood[keys[x].by] \in Nat /\ TokenLife \in Nat
      BY ConstantsAssumption DEF Inv, TypeOK, Row
    <3> QED
      BY <2>2, <3>1 DEF Inv, KeysDescend
  <2> QED
    BY <2>4, <2>5, <2>6, <2>7 DEF Inv
<1>4. ASSUME Reconfigure \/ UNCHANGED vars
      PROVE  Inv'
  <2>1. UNCHANGED <<keys, tokens, lastGood, now>> /\ enabled' \in BOOLEAN
    BY <1>4, Zenon DEF Reconfigure, vars, Inv, TypeOK
  <2> QED
    BY <2>1 DEF Inv, TypeOK, Remembered, Issued, KeysDescend, Good, Fresh
<1>5. CASE Next
  BY <1>1, <1>2, <1>3, <1>4, <1>5, KeysAreMade, MakesInv DEF Inv, Issued
<1> QED
  BY <1>4, <1>5

LEMMA InvHolds == Spec => []Inv
BY InitInv, NextInv, PTL DEF Spec

-----------------------------------------------------------------------------
\* Every reachable state of keys and tokens has the types TypeOK gives.
THEOREM TypeCorrect == Spec => []TypeOK
<1>1. Inv => TypeOK
  BY DEF Inv
<1> QED
  BY <1>1, InvHolds, PTL

\* A token opens nothing later than its lifetime after its key was last good,
\* whatever is exchanged, made, revoked and restarted.
THEOREM TokensDie == Spec => []TokensLapse
<1>1. Inv => TokensLapse
  <2> SUFFICES ASSUME Inv, NEW token \in tokens, Valid(token, now)
               PROVE  /\ now < lastGood[token.key] + TokenLife
                      /\ token.role = keys[token.key].role
    BY DEF TokensLapse
  <2>1. /\ token.issued \in Nat /\ lastGood[token.key] \in Nat
        /\ now \in Nat /\ TokenLife \in Nat
    BY ConstantsAssumption DEF Inv, TypeOK, Token
  <2> QED
    BY <2>1 DEF Inv, Issued, Valid
<1> QED
  BY <1>1, InvHolds, PTL

\* Every key has the secret or a good administrator's key behind it.
THEOREM KeysHaveMakers == Spec => []KeysDescend
<1>1. Inv => KeysDescend
  BY DEF Inv
<1> QED
  BY <1>1, InvHolds, PTL
=============================================================================
