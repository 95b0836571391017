----------------------------- MODULE SigningKeys ----------------------------
(***************************************************************************)
(* Applications and the keys that sign (application/admin.rs,              *)
(* application/repository.rs, client_auth/access_token.rs): the global key *)
(* of the access tokens, made on first use and rotated by the back office, *)
(* and the request key and secret of an application.                       *)
(*                                                                         *)
(* A key is named after the request that makes it.  A rotation is one      *)
(* transaction of several statements: its update takes the rows that were  *)
(* active when it started, waits for the row locks of another rotation and *)
(* looks at the status again; what it writes is seen when it commits.      *)
(***************************************************************************)
EXTENDS Integers

CONSTANTS
    Issuers,        \* requests that issue an access token: activate, login, refresh
    JwtRotations,   \* calls of rotate_global_jwt_signing_key
    AppRotations,   \* calls of rotate_application_keys
    AccessTtl,      \* client_access_token_ttl_seconds, in ticks
    MaxNow          \* bound of the clock

VARIABLES
    now,
    key,            \* signing_keys
    application,    \* the row of applications: its status and app_secret_hash
    issuer,         \* the requests that issue tokens
    rotation        \* the rotations

keyVars == <<now, key, application, issuer, rotation>>

Rotations == JwtRotations \cup AppRotations

\* create_application makes the first request key.
Creation == "create_application"

Kids == Issuers \cup Rotations \cup {Creation}

NoKid == "none"

\* Requests of different kinds are different requests.
ASSUME KeysAssumption ==
    /\ AccessTtl \in Nat /\ MaxNow \in Nat
    /\ Issuers \cap Rotations = {} /\ JwtRotations \cap AppRotations = {}
    /\ Creation \notin Issuers \cup Rotations /\ NoKid \notin Kids

KeyScope(k) == IF k \in AppRotations \cup {Creation} THEN "app_request" ELSE "jwt_access_token"

\* not_after is null.
Never == MaxNow + AccessTtl + 1

KeyRow == [st : {"none", "active", "retiring"}, born : 0 .. MaxNow, notAfter : 0 .. Never]

\* iat is the time the request took first of all, before it read the key; open
\* are the rotations that were under way then.
IssuerRow == [pc : {"idle", "started", "create", "ready", "issued"}, iat : 0 .. MaxNow,
              kid : Kids \cup {NoKid}, open : SUBSET Rotations]

RotationRow == [pc : {"idle", "waiting", "locked", "done"}, began : 0 .. MaxNow,
                retired : SUBSET Kids]

\* secret is the rotation, or the creation, whose app_secret_hash the row holds.
ApplicationRow == [st : {"none", "active", "disabled"}, secret : Kids]

KeysTypeOK ==
    /\ now \in 0 .. MaxNow
    /\ key \in [Kids -> KeyRow]
    /\ application \in ApplicationRow
    /\ issuer \in [Issuers -> IssuerRow]
    /\ rotation \in [Rotations -> RotationRow]

KeysInit ==
    /\ now = 0
    /\ key = [k \in Kids |-> [st |-> "none", born |-> 0, notAfter |-> Never]]
    /\ application = [st |-> "none", secret |-> Creation]
    /\ issuer = [i \in Issuers |-> [pc |-> "idle", iat |-> 0, kid |-> NoKid, open |-> {}]]
    /\ rotation = [r \in Rotations |-> [pc |-> "idle", began |-> 0, retired |-> {}]]

Tick ==
    /\ now < MaxNow
    /\ now' = now + 1
    /\ UNCHANGED <<key, application, issuer, rotation>>

-----------------------------------------------------------------------------
(* Look-ups. *)

ActiveKeys(scope) == {k \in Kids : KeyScope(k) = scope /\ key[k].st = "active" /\ key[k].notAfter > now}

\* order by created_at desc: any of the newest.
NewestActive(scope) ==
    {k \in ActiveKeys(scope) : \A l \in ActiveKeys(scope) : key[l].born <= key[k].born}

\* find_public_global_signing_key_by_kid, and what global_jwks lists.
PublicKeys(scope) ==
    {k \in Kids : KeyScope(k) = scope /\ key[k].st \in {"active", "retiring"} /\ key[k].notAfter > now}

\* list_public_jwks_keys_for_app_key.
ApplicationJwks == IF application.st = "active" THEN PublicKeys("app_request") ELSE {}

\* create_signing_key_in_transaction.
NewKey == [st |-> "active", born |-> now, notAfter |-> Never]

-----------------------------------------------------------------------------
(* Issuing access tokens. *)

UnderWay(r) == rotation[r].pc \in {"waiting", "locked"}

\* now = Utc::now(), long before the token is signed.
StartIssue(i) ==
    /\ issuer[i].pc = "idle"
    /\ issuer' = [issuer EXCEPT ![i] = [pc |-> "started", iat |-> now, kid |-> NoKid,
                                        open |-> {r \in JwtRotations : UnderWay(r)}]]
    /\ UNCHANGED <<now, key, application, rotation>>

\* The look-up of get_or_create_jwt_signing_key.
PrepareSigner(i) ==
    /\ issuer[i].pc = "started"
    /\ \/ \E k \in NewestActive("jwt_access_token") :
             issuer' = [issuer EXCEPT ![i].pc = "ready", ![i].kid = k]
       \/ /\ ActiveKeys("jwt_access_token") = {}
          /\ issuer' = [issuer EXCEPT ![i].pc = "create"]
    /\ UNCHANGED <<now, key, application, rotation>>

\* Its transaction: nothing keeps two first requests from making a key each.
CreateJwtKey(i) ==
    /\ issuer[i].pc = "create"
    /\ key' = [key EXCEPT ![i] = NewKey]
    /\ issuer' = [issuer EXCEPT ![i].pc = "ready", ![i].kid = i]
    /\ UNCHANGED <<now, application, rotation>>

\* ClientAccessTokenSigner::sign, after the statements of the transaction.
Sign(i) ==
    /\ issuer[i].pc = "ready"
    /\ issuer' = [issuer EXCEPT ![i].pc = "issued"]
    /\ UNCHANGED <<now, key, application, rotation>>

\* exp of access_claims.
ExpiresAt(i) == issuer[i].iat + AccessTtl

-----------------------------------------------------------------------------
(* The back office. *)

CreateApplication ==
    /\ application.st = "none"
    /\ application' = [st |-> "active", secret |-> Creation]
    /\ key' = [key EXCEPT ![Creation] = NewKey]
    /\ UNCHANGED <<now, issuer, rotation>>

UpdateApplication ==
    /\ application.st # "none"
    /\ application' = [application EXCEPT !.st = IF @ = "active" THEN "disabled" ELSE "active"]
    /\ UNCHANGED <<now, key, issuer, rotation>>

\* The transaction begins: the time is taken and the update finds its rows.
BeginRotation(r) ==
    /\ rotation[r].pc = "idle"
    /\ r \in AppRotations => application.st # "none"
    /\ rotation' = [rotation EXCEPT ![r] =
                      [pc |-> "waiting", began |-> now,
                       retired |-> {k \in Kids : KeyScope(k) = KeyScope(r) /\ key[k].st = "active"}]]
    /\ UNCHANGED <<now, key, application, issuer>>

\* The update has the locks of its rows and keeps those that are still active.
RetireActiveKeys(r) ==
    /\ rotation[r].pc = "waiting"
    /\ \A q \in Rotations \ {r} : rotation[q].pc = "locked" =>
          rotation[q].retired \cap rotation[r].retired = {}
    /\ rotation' = [rotation EXCEPT ![r].pc = "locked",
                      ![r].retired = {k \in @ : key[k].st = "active"}]
    /\ UNCHANGED <<now, key, application, issuer>>

\* Mutant: the old key ends with the rotation.
RetiredKeyAtOnce(r) == [st |-> "retiring", notAfter |-> rotation[r].began]

\* retire_active_global_signing_keys_in_transaction leaves the key for as long
\* as a token lives; retire_active_app_request_keys_in_transaction sets no end.
RetiredKey(r) == [st |-> "retiring",
                  notAfter |-> IF r \in JwtRotations THEN rotation[r].began + AccessTtl ELSE Never]

\* The rows of the keys after the rotation.
RotatedKey(r, k) ==
    CASE k = r -> [NewKey EXCEPT !.born = rotation[r].began]
      [] k \in rotation[r].retired ->
           [st |-> RetiredKey(r).st, born |-> key[k].born, notAfter |-> RetiredKey(r).notAfter]
      [] OTHER -> key[k]

\* The new key and, for an application, the new secret; the commit.
CommitRotation(r) ==
    /\ rotation[r].pc = "locked"
    /\ key' = [k \in Kids |-> RotatedKey(r, k)]
    /\ application' = IF r \in AppRotations THEN [application EXCEPT !.secret = r] ELSE application
    /\ rotation' = [rotation EXCEPT ![r].pc = "done"]
    /\ UNCHANGED <<now, issuer>>

RotationStep(r) == BeginRotation(r) \/ RetireActiveKeys(r) \/ CommitRotation(r)

\* The global key and the keys of an application touch no common row.
JwtNext ==
    \/ Tick
    \/ \E i \in Issuers : StartIssue(i) \/ PrepareSigner(i) \/ CreateJwtKey(i) \/ Sign(i)
    \/ \E r \in JwtRotations : RotationStep(r)

ApplicationNext ==
    \/ Tick \/ CreateApplication \/ UpdateApplication
    \/ \E r \in AppRotations : RotationStep(r)

-----------------------------------------------------------------------------
\* verify_client_access_token.
Verifies(i) == issuer[i].pc = "issued" /\ now < ExpiresAt(i) /\ issuer[i].kid \in PublicKeys("jwt_access_token")

\* A token that has not expired verifies, although its key may be rotated while
\* the request that issues it runs, unless that request began while the
\* transaction of the rotation was open and read the old key before its commit
\* (verify_client_access_token, rotate_global_jwt_signing_key).
TokensVerify ==
    \A i \in Issuers : (issuer[i].pc = "issued" /\ now < ExpiresAt(i)) =>
        \/ Verifies(i)
        \/ \E r \in issuer[i].open : issuer[i].kid \in rotation[r].retired

\* Once there is a key of a scope there is one to sign with, whatever rotations
\* overlap (retire and create in one transaction).
SigningKeyKept ==
    \A scope \in {"jwt_access_token", "app_request"} :
        (\E k \in Kids : KeyScope(k) = scope /\ key[k].st # "none") => ActiveKeys(scope) # {}

\* The secret that opens the application was handed out with a request key that
\* is active, whatever rotations overlap (rotate_application_keys).
SecretGoesWithKey == application.st # "none" => key[application.secret].st = "active"

\* Signing keys: their types and the three parts above.
KeysKept == KeysTypeOK /\ TokensVerify /\ SigningKeyKept /\ SecretGoesWithKey
=============================================================================
