-------------------------------- MODULE Access --------------------------------
(***************************************************************************)
(* API keys and bearer tokens (middleware/auth.ts, middleware/jwt.ts,      *)
(* routes/auth.ts).  A key is a row of api_keys, looked up at every use; a *)
(* token is a signed statement that is never looked up: until it expires   *)
(* it stands for the key it was made from, whatever has become of the key. *)
(*                                                                         *)
(* A request is admitted by a valid token, else by a good key; what it     *)
(* then does to the registry and the contracts is left to their modules.   *)
(* Hashing and signing are left out, and so is last_used_at, which nothing *)
(* reads: using a key is no step.                                          *)
(***************************************************************************)
EXTENDS Integers

CONSTANTS
    Key,        \* keys that may be generated
    Terms,      \* terms of keys; 0 is no term: expires_in_days absent or <= 0
    TokenLife,  \* JWT_EXPIRES_IN
    MaxTime     \* bound: the clock

ASSUME ConstantsAssumption ==
    /\ Terms \subseteq Nat
    /\ TokenLife \in Nat \ {0}
    /\ MaxTime \in Nat

VARIABLES
    keys,      \* api_keys
    tokens,    \* tokens handed out
    enabled,   \* AUTH_ENABLED of the running process
    lastGood,  \* ghost: the last time a key was active and unexpired
    now        \* wall clock

vars == <<keys, tokens, enabled, lastGood, now>>

Role == {"admin", "provider"}
Never == 0          \* expires_at IS NULL; the clock starts at 1
Secret == "secret"  \* made with AUTH_SECRET, not on behalf of another key

Row == [role : Role \cup {"none"}, active : BOOLEAN, created : Nat,
        expires : Nat, by : Key \cup {Secret}]
NoRow == [role |-> "none", active |-> FALSE, created |-> 0,
          expires |-> Never, by |-> Secret]
Token == [key : Key, role : Role, issued : Nat]

Init ==
    /\ keys = [k \in Key |-> NoRow]
    /\ tokens = {}
    /\ enabled \in BOOLEAN
    /\ lastGood = [k \in Key |-> 0]
    /\ now = 1

-----------------------------------------------------------------------------
(* Credentials *)

\* SELECT ... WHERE is_active = 1, and expires_at < now is refused.
Good(k, t) ==
    /\ keys[k].active
    /\ keys[k].expires = Never \/ t <= keys[k].expires

\* Faulty variant: the lifetime of a token is not looked at.
ValidForEver(token, t) == TRUE

\* jwt.verify: the signature, and the time up to exp.
Valid(token, t) == t < token.issued + TokenLife

\* A row of the ghost: k is good now.
Seen(k) == [lastGood EXCEPT ![k] = now]

Fresh(k) == keys[k].role = "none"

Insert(k, role, expires, by) ==
    [keys EXCEPT ![k] = [role |-> role, active |-> TRUE, created |-> now,
                         expires |-> expires, by |-> by]]

-----------------------------------------------------------------------------
(* Requests *)

\* POST /auth/bootstrap, with or without authentication, any number of times.
Bootstrap(k) ==
    /\ Fresh(k)
    /\ keys' = Insert(k, "admin", Never, Secret)
    /\ lastGood' = Seen(k)
    /\ UNCHANGED <<tokens, enabled, now>>

\* POST /auth/token: whatever admitted the request, the key is looked up.
Exchange(k) ==
    /\ Good(k, now)
    /\ tokens' = tokens \cup {[key |-> k, role |-> keys[k].role, issued |-> now]}
    /\ UNCHANGED <<keys, enabled, lastGood, now>>

\* Faulty variant: the role of the body is taken as it is.
RoleAsked(asked) == asked

\* Anything but "admin" is a provider.
RoleOf(asked) == IF asked = "admin" THEN "admin" ELSE "provider"

Expiry(term) == IF term = 0 THEN Never ELSE now + term

\* Faulty variant: any role may make keys.
CreateByAnyToken(token, k, asked, term) ==
    /\ enabled
    /\ Valid(token, now)
    /\ Fresh(k)
    /\ keys' = Insert(k, RoleOf(asked), Expiry(term), token.key)
    /\ lastGood' = Seen(k)
    /\ UNCHANGED <<tokens, enabled, now>>

\* POST /auth/keys.  Without authentication no hook sets the role the route
\* asks for, and it refuses everybody.
CreateByToken(token, k, asked, term) ==
    /\ enabled
    /\ Valid(token, now) /\ token.role = "admin"
    /\ Fresh(k)
    /\ keys' = Insert(k, RoleOf(asked), Expiry(term), token.key)
    /\ lastGood' = Seen(k)
    /\ UNCHANGED <<tokens, enabled, now>>

CreateByKey(admin, k, asked, term) ==
    /\ enabled
    /\ Good(admin, now) /\ keys[admin].role = "admin"
    /\ Fresh(k)
    /\ keys' = Insert(k, RoleOf(asked), Expiry(term), admin)
    /\ lastGood' = Seen(k)
    /\ UNCHANGED <<tokens, enabled, now>>

-----------------------------------------------------------------------------
(* The operator and the clock *)

\* is_active = 0.  No route does this; the column is there for it.
Revoke(k) ==
    /\ keys[k].active
    /\ keys' = [keys EXCEPT ![k].active = FALSE]
    /\ UNCHANGED <<tokens, enabled, lastGood, now>>

\* A restart with another AUTH_ENABLED.
Reconfigure ==
    /\ enabled' = ~enabled
    /\ UNCHANGED <<keys, tokens, lastGood, now>>

\* A token that has expired is forgotten: it will never be valid again.
Elapse ==
    /\ now < MaxTime
    /\ now' = now + 1
    /\ lastGood' = [k \in Key |-> IF Good(k, now') THEN now' ELSE lastGood[k]]
    /\ tokens' = {token \in tokens : Valid(token, now')}
    /\ UNCHANGED <<keys, enabled>>

Next ==
    \/ \E k \in Key :
         \/ Bootstrap(k) \/ Exchange(k) \/ Revoke(k)
         \/ \E asked \in Role \cup {"other"}, term \in Terms :
              \/ \E token \in tokens : CreateByToken(token, k, asked, term)
              \/ \E admin \in Key : CreateByKey(admin, k, asked, term)
    \/ Reconfigure
    \/ Elapse

Spec == Init /\ [][Next]_vars

-----------------------------------------------------------------------------
\* The type invariant.
TypeOK ==
    /\ keys \in [Key -> Row]
    /\ tokens \subseteq Token
    /\ enabled \in BOOLEAN
    /\ lastGood \in [Key -> Nat]
    /\ now \in Nat \ {0}

\* A key that was revoked or has expired opens nothing by way of its tokens
\* once a token's lifetime has passed, and its tokens never say more than the
\* key did: no exchange, renewal or restart stretches a credential further.
TokensLapse ==
    \A token \in tokens : Valid(token, now) =>
        /\ now < lastGood[token.key] + TokenLife
        /\ token.role = keys[token.key].role

\* Every key but those made with the secret was made on behalf of an
\* administrator's key that was good when it was made or less than a token's
\* lifetime before: what becomes of the maker later, and in which order keys,
\* tokens and restarts came, does not matter.
KeysDescend ==
    \A k \in Key : ~Fresh(k) /\ keys[k].by # Secret =>
        LET maker == keys[k].by IN
        /\ keys[maker].role = "admin"
        /\ keys[maker].created <= keys[k].created
        /\ keys[k].created < lastGood[maker] + TokenLife
=============================================================================
