------------------------- MODULE DistributionProofs -------------------------
(***************************************************************************)
(* Proofs about what reaches the clients (MCDistribution): signing keys,   *)
(* releases, scripts and the SDK, for any numbers of requests, rotations,  *)
(* releases, threads and downloads and for every day of the calendar; and  *)
(* about what customers keep on the web (MCWeb): folders, assets, works,   *)
(* for any number of them and of requests, uploads, crashes and stops.     *)
(*                                                                         *)
(* Each part has an inductive invariant of its own.  Most of it says what  *)
(* a request still knows when it comes back to a row: a rotation of the    *)
(* keys it has found active, a token of the rotations that were under way  *)
(* when its request began, a thread of the session under its mutex, a move *)
(* of the folders below its target, a media task of the videos it claimed. *)
(***************************************************************************)
EXTENDS MCDistribution, MCWeb, FiniteSetTheorems, TLAPS

-----------------------------------------------------------------------------
(* Signing keys. *)

\* A key that is not retired has no end, and one that never was made has no status.
KeysHaveNoEnd == \A k \in Kids : key[k].st # "retiring" => key[k].notAfter = Never

\* A request that has not made its key yet has none.
KeysAreMadeOnce ==
    /\ \A i \in Issuers : issuer[i].pc \in {"idle", "started", "create"} => key[i].st = "none"
    /\ \A r \in Rotations : rotation[r].pc # "done" => key[r].st = "none"

\* Rotations that have their rows find them active at the commit, and no two of
\* them have the same row.
RotationsKnow ==
    /\ \A r \in Rotations : \A k \in rotation[r].retired : KeyScope(k) = KeyScope(r)
    /\ \A r \in Rotations : rotation[r].pc = "locked" => \A k \in rotation[r].retired : key[k].st = "active"
    /\ \A r, q \in Rotations :
          (r # q /\ rotation[r].pc = "locked" /\ rotation[q].pc = "locked") =>
              rotation[r].retired \cap rotation[q].retired = {}

\* A rotation that began before a request took its time, and is not through, is
\* one that the request found under way.
OpenIsKnown ==
    \A i \in Issuers : issuer[i].pc # "idle" =>
        /\ issuer[i].iat <= now
        /\ \A r \in JwtRotations :
              (UnderWay(r) /\ rotation[r].began < issuer[i].iat) => r \in issuer[i].open

\* The rotation that has retired the key of a token.
RetiredBy(i, r) ==
    /\ rotation[r].pc = "done" /\ issuer[i].kid \in rotation[r].retired
    /\ key[issuer[i].kid].notAfter = rotation[r].began + AccessTtl
    /\ issuer[i].iat <= rotation[r].began \/ r \in issuer[i].open

SignersHaveKeys ==
    \A i \in Issuers : issuer[i].pc \in {"ready", "issued"} =>
        /\ issuer[i].kid \in Kids /\ KeyScope(issuer[i].kid) = "jwt_access_token"
        /\ key[issuer[i].kid].st # "none"
        /\ key[issuer[i].kid].st = "retiring" => \E r \in JwtRotations : RetiredBy(i, r)

SecretIsOfTheApplication == application.secret \in AppRotations \cup {Creation}

KeysInv ==
    /\ KeysTypeOK /\ KeysHaveNoEnd /\ KeysAreMadeOnce /\ RotationsKnow /\ OpenIsKnown
    /\ SignersHaveKeys /\ SigningKeyKept /\ SecretIsOfTheApplication /\ SecretGoesWithKey

-----------------------------------------------------------------------------
(* Releases and scripts. *)

\* The token has been used up by the one download that may serve.
UsedByOne ==
    /\ \A d \in DownloadCalls : download[d] \in {"consumed", "served"} => offer.st = "used"
    /\ \A d, e \in DownloadCalls :
          (download[d] \in {"consumed", "served"} /\ download[e] \in {"consumed", "served"}) => d = e

\* The token is for a release that was published.
OfferedWasPublished ==
    offer.st # "none" => offer.r \in ReleaseIds /\ release[offer.r].st \in {"published", "deprecated"}

ReleasesInv == ReleasesTypeOK /\ SignatureCoversRelease /\ UsedByOne /\ OfferedWasPublished

ScriptsInv == ScriptsTypeOK /\ ScriptSignatureFits

-----------------------------------------------------------------------------
(* The SDK. *)

\* A refresh under way has the mutex and the session of the manager.
RefreshHasMutex ==
    \A t \in Threads : call[t].pc \in {"refreshing", "accepted", "refused"} =>
        mutex = t /\ call[t].tok = mem /\ mem.s \in Sessions

\* The session of the manager is the one the server knows and nothing of it is
\* on its way, unless it was taken from an old envelope; it is one step behind
\* once the server has answered.
TokenIsCurrent ==
    \/ mem = NoSession
    \/ mem.s \in fromOldDisk
    \/ /\ \A tok \in sent : tok.s # mem.s
       /\ \/ mem.n = server[mem.s].cur
          \/ \E t \in Threads : call[t].pc \in {"accepted", "refused"}

AcceptedIsNext ==
    \A t \in Threads : call[t].pc = "accepted" =>
        /\ call[t].tok.n < server[call[t].tok.s].cur
        /\ call[t].tok.s \in fromOldDisk \/ server[call[t].tok.s].cur = call[t].tok.n + 1

SessionsExist ==
    /\ mem = NoSession \/ mem.s \in 1 .. logins
    /\ disk.session = NoSession \/ disk.session.s \in 1 .. logins

\* A refresh token that is on its way comes in time, unless its session was taken
\* from an old envelope.
SentIsCurrent ==
    \A tok \in sent : tok.s \in 1 .. logins /\ (tok.s \in fromOldDisk \/ tok.n = server[tok.s].cur)

SdkInv ==
    /\ SdkTypeOK /\ RefreshHasMutex /\ TokenIsCurrent /\ AcceptedIsNext /\ SessionsExist /\ SentIsCurrent
    /\ ReuseOnlyFromOldDisk /\ DeviceKeyAgrees

-----------------------------------------------------------------------------
(* Downloads of the SDK. *)

\* Who writes is streaming, and who runs has passed the version check it has.
WritersStream ==
    /\ \A d \in Downloads : handle[d] # None => stage[d] = "streaming"
    /\ \A d \in Downloads : Running(d) => d \notin Old \cap Compared

\* Without an overlap one download has the temporary file for itself and nobody
\* writes to the target.
Alone ==
    ~overlapped =>
       /\ \A d, e \in Downloads : Running(d) /\ Running(e) => d = e
       /\ \A d \in Downloads : handle[d] # "target"
       /\ \A d \in Downloads : stage[d] = "verified" => MatchesSignature(d)

DownloadsInv == DownloadsTypeOK /\ WritersStream /\ Alone /\ TargetIsVerified

\* The day is one of the calendar.
DatesInv ==
    /\ DatesTypeOK /\ date.d <= DaysInMonth(date.y, date.m)
    /\ DaysFromCivil(date.y, date.m, date.d) = days
-----------------------------------------------------------------------------
(* Signing keys. *)

LEMMA ScopesApart ==
    /\ \A i \in Issuers : KeyScope(i) = "jwt_access_token"
    /\ \A r \in JwtRotations : KeyScope(r) = "jwt_access_token"
    /\ \A r \in AppRotations : KeyScope(r) = "app_request"
    /\ KeyScope(Creation) = "app_request"
  BY KeysAssumption DEF KeyScope, Rotations

LEMMA NeverIs == Never \in Nat /\ Never > MaxNow /\ \A t \in 0 .. MaxNow : t + AccessTtl \in 0 .. Never
  BY KeysAssumption DEF Never

\* The keys of a scope that sign, when every active one has no end.
LEMMA ActiveIs ==
    ASSUME KeysTypeOK, KeysHaveNoEnd, NEW scope
    PROVE  ActiveKeys(scope) = {k \in Kids : KeyScope(k) = scope /\ key[k].st = "active"}
<1>1. \A k \in Kids : key[k].st = "active" => key[k].notAfter > now
  BY NeverIs, KeysAssumption DEF KeysTypeOK, KeysHaveNoEnd, KeyRow
<1> QED
  BY <1>1 DEF ActiveKeys

LEMMA KeysInitSound ==
    ASSUME KeysInit
    PROVE  KeysInv
<1>1. KeysTypeOK
  <2>1. [st |-> "none", born |-> 0, notAfter |-> Never] \in KeyRow
    BY NeverIs, KeysAssumption DEF KeyRow
  <2>2. [pc |-> "idle", iat |-> 0, kid |-> NoKid, open |-> {}] \in IssuerRow
    BY KeysAssumption DEF IssuerRow
  <2>3. [pc |-> "idle", began |-> 0, retired |-> {}] \in RotationRow
    BY KeysAssumption DEF RotationRow
  <2>4. application \in ApplicationRow
    BY DEF KeysInit, ApplicationRow, Kids
  <2> QED
    BY <2>1, <2>2, <2>3, <2>4, KeysAssumption DEF KeysInit, KeysTypeOK
<1>2. KeysHaveNoEnd /\ KeysAreMadeOnce
  BY DEF KeysInit, KeysHaveNoEnd, KeysAreMadeOnce, Kids
<1>3. RotationsKnow
  BY DEF KeysInit, RotationsKnow
<1>4. OpenIsKnown /\ SignersHaveKeys
  BY DEF KeysInit, OpenIsKnown, SignersHaveKeys
<1>5. SigningKeyKept /\ SecretIsOfTheApplication /\ SecretGoesWithKey
  BY DEF KeysInit, SigningKeyKept, SecretIsOfTheApplication, SecretGoesWithKey
<1> QED
  BY <1>1, <1>2, <1>3, <1>4, <1>5 DEF KeysInv

\* SigningKeyKept in terms of the rows alone.
Signable ==
    \A scope \in {"jwt_access_token", "app_request"} :
        (\E k \in Kids : KeyScope(k) = scope /\ key[k].st # "none") =>
            \E k \in Kids : KeyScope(k) = scope /\ key[k].st = "active"

LEMMA SignableIs ==
    ASSUME KeysInv
    PROVE  Signable
  BY ActiveIs DEF KeysInv, SigningKeyKept, Signable

LEMMA SignableKeeps ==
    ASSUME KeysTypeOK', KeysHaveNoEnd', Signable'
    PROVE  SigningKeyKept'
<1>1. \A k \in Kids : key'[k].st = "active" => key'[k].notAfter > now'
  BY NeverIs, KeysAssumption DEF KeysTypeOK, KeysHaveNoEnd, KeyRow
<1> QED
  BY <1>1 DEF SigningKeyKept, Signable, ActiveKeys

LEMMA TickSound ==
    ASSUME KeysInv, Tick
    PROVE  KeysInv'
<1>1. now \in 0 .. MaxNow /\ now' = now + 1 /\ now < MaxNow /\ UNCHANGED <<key, application, issuer, rotation>>
  BY DEF Tick, KeysInv, KeysTypeOK
<1>2. (KeysTypeOK /\ KeysHaveNoEnd /\ KeysAreMadeOnce /\ RotationsKnow)'
  BY <1>1, KeysAssumption DEF KeysInv, KeysTypeOK, KeysHaveNoEnd, KeysAreMadeOnce, RotationsKnow
<1>3. OpenIsKnown'
  <2>1. \A i \in Issuers : issuer[i].iat \in 0 .. MaxNow
    BY DEF KeysInv, KeysTypeOK, IssuerRow
  <2> QED
    BY <1>1, <2>1, KeysAssumption DEF KeysInv, OpenIsKnown, UnderWay
<1>4. (SignersHaveKeys /\ SecretIsOfTheApplication /\ SecretGoesWithKey)'
  BY <1>1 DEF KeysInv, SignersHaveKeys, RetiredBy, SecretIsOfTheApplication, SecretGoesWithKey
<1>5. Signable'
  BY <1>1, SignableIs DEF Signable
<1> QED
  BY <1>2, <1>3, <1>4, <1>5, SignableKeeps DEF KeysInv

\* What a step of an issuer that makes no key has to show.
LEMMA IssuerSound ==
    ASSUME KeysInv, NEW i \in Issuers, NEW q \in IssuerRow, issuer' = [issuer EXCEPT ![i] = q],
           UNCHANGED <<now, key, application, rotation>>,
           q.pc \in {"idle", "started", "create"} => issuer[i].pc \in {"idle", "started", "create"},
           q.iat <= now,
           \A r \in JwtRotations : (UnderWay(r) /\ rotation[r].began < q.iat) => r \in q.open,
           q.pc \in {"ready", "issued"} =>
               /\ q.kid \in Kids /\ KeyScope(q.kid) = "jwt_access_token" /\ key[q.kid].st # "none"
               /\ key[q.kid].st = "retiring" =>
                     \E r \in JwtRotations :
                        /\ rotation[r].pc = "done" /\ q.kid \in rotation[r].retired
                        /\ key[q.kid].notAfter = rotation[r].began + AccessTtl
                        /\ q.iat <= rotation[r].began \/ r \in q.open
    PROVE  KeysInv'
<1>1. issuer \in [Issuers -> IssuerRow]
  BY DEF KeysInv, KeysTypeOK
<1>2. issuer'[i] = q /\ \A j \in Issuers \ {i} : issuer'[j] = issuer[j]
  BY <1>1
<1>3. KeysTypeOK' /\ KeysHaveNoEnd' /\ RotationsKnow'
  BY <1>1 DEF KeysInv, KeysTypeOK, KeysHaveNoEnd, RotationsKnow
<1>4. KeysAreMadeOnce'
  BY <1>2 DEF KeysInv, KeysAreMadeOnce
<1>5. OpenIsKnown'
  BY <1>2 DEF KeysInv, OpenIsKnown, UnderWay
<1>6. SignersHaveKeys'
  BY <1>2 DEF KeysInv, SignersHaveKeys, RetiredBy
<1>7. SecretIsOfTheApplication' /\ SecretGoesWithKey'
  BY DEF KeysInv, SecretIsOfTheApplication, SecretGoesWithKey
<1>8. Signable'
  BY SignableIs DEF Signable
<1> QED
  BY <1>3, <1>4, <1>5, <1>6, <1>7, <1>8, SignableKeeps DEF KeysInv

LEMMA StartIssueSound ==
    ASSUME KeysInv, NEW i \in Issuers, StartIssue(i)
    PROVE  KeysInv'
<1> DEFINE q == [pc |-> "started", iat |-> now, kid |-> NoKid, open |-> {r \in JwtRotations : UnderWay(r)}]
<1>1. now \in 0 .. MaxNow
  BY DEF KeysInv, KeysTypeOK
<1>2. q \in IssuerRow /\ q.pc = "started" /\ q.iat = now /\ q.open = {r \in JwtRotations : UnderWay(r)}
  BY <1>1 DEF IssuerRow, Rotations
<1>3. issuer' = [issuer EXCEPT ![i] = q] /\ UNCHANGED <<now, key, application, rotation>> /\ issuer[i].pc = "idle"
  BY DEF StartIssue
<1> HIDE DEF q
<1>4. q.iat <= now
  BY <1>1, <1>2
<1> QED
  BY <1>2, <1>3, <1>4, IssuerSound

LEMMA PrepareSignerSound ==
    ASSUME KeysInv, NEW i \in Issuers, PrepareSigner(i)
    PROVE  KeysInv'
<1>1. PICK row \in IssuerRow : row = issuer[i]
  BY DEF KeysInv, KeysTypeOK
<1>2. row.pc = "started" /\ UNCHANGED <<now, key, application, rotation>> /\ row.iat <= now
  BY <1>1 DEF PrepareSigner, KeysInv, OpenIsKnown
<1>3. \A r \in JwtRotations : (UnderWay(r) /\ rotation[r].began < row.iat) => r \in row.open
  BY <1>1, <1>2 DEF KeysInv, OpenIsKnown
<1>4. CASE \E k \in NewestActive("jwt_access_token") : issuer' = [issuer EXCEPT ![i].pc = "ready", ![i].kid = k]
  <2>1. PICK k \in NewestActive("jwt_access_token") : issuer' = [issuer EXCEPT ![i].pc = "ready", ![i].kid = k]
    BY <1>4
  <2>2. k \in Kids /\ KeyScope(k) = "jwt_access_token" /\ key[k].st = "active"
    BY <2>1 DEF NewestActive, ActiveKeys
  <2> DEFINE q == [row EXCEPT !.pc = "ready", !.kid = k]
  <2>3. q \in IssuerRow /\ q.pc = "ready" /\ q.kid = k /\ q.iat = row.iat /\ q.open = row.open
    BY <1>1, <2>2 DEF IssuerRow
  <2>4. issuer' = [issuer EXCEPT ![i] = q]
    BY <1>1, <2>1 DEF KeysInv, KeysTypeOK
  <2> HIDE DEF q
  <2> QED
    BY <1>1, <1>2, <1>3, <2>2, <2>3, <2>4, IssuerSound
<1>5. CASE issuer' = [issuer EXCEPT ![i].pc = "create"]
  <2> DEFINE q == [row EXCEPT !.pc = "create"]
  <2>1. q \in IssuerRow /\ q.pc = "create" /\ q.iat = row.iat /\ q.open = row.open
    BY <1>1 DEF IssuerRow
  <2>2. issuer' = [issuer EXCEPT ![i] = q]
    BY <1>1, <1>5 DEF KeysInv, KeysTypeOK
  <2> HIDE DEF q
  <2> QED
    BY <1>1, <1>2, <1>3, <2>1, <2>2, IssuerSound
<1> QED
  BY <1>4, <1>5 DEF PrepareSigner

LEMMA SignSound ==
    ASSUME KeysInv, NEW i \in Issuers, Sign(i)
    PROVE  KeysInv'
<1>1. PICK row \in IssuerRow : row = issuer[i]
  BY DEF KeysInv, KeysTypeOK
<1>2. row.pc = "ready" /\ UNCHANGED <<now, key, application, rotation>> /\ row.iat <= now
  BY <1>1 DEF Sign, KeysInv, OpenIsKnown
<1>3. \A r \in JwtRotations : (UnderWay(r) /\ rotation[r].began < row.iat) => r \in row.open
  BY <1>1, <1>2 DEF KeysInv, OpenIsKnown
<1> DEFINE q == [row EXCEPT !.pc = "issued"]
<1>4. q \in IssuerRow /\ q.pc = "issued" /\ q.iat = row.iat /\ q.open = row.open /\ q.kid = row.kid
  BY <1>1 DEF IssuerRow
<1>5. issuer' = [issuer EXCEPT ![i] = q]
  BY <1>1 DEF Sign, KeysInv, KeysTypeOK
<1>6. /\ row.kid \in Kids /\ KeyScope(row.kid) = "jwt_access_token" /\ key[row.kid].st # "none"
      /\ key[row.kid].st = "retiring" =>
            \E r \in JwtRotations :
               /\ rotation[r].pc = "done" /\ row.kid \in rotation[r].retired
               /\ key[row.kid].notAfter = rotation[r].began + AccessTtl
               /\ row.iat <= rotation[r].began \/ r \in row.open
  BY <1>1, <1>2 DEF KeysInv, SignersHaveKeys, RetiredBy
<1> HIDE DEF q
<1> QED
  BY <1>1, <1>2, <1>3, <1>4, <1>5, <1>6, IssuerSound

LEMMA CreateJwtKeySound ==
    ASSUME KeysInv, NEW i \in Issuers, CreateJwtKey(i)
    PROVE  KeysInv'
<1>1. PICK row \in IssuerRow : row = issuer[i]
  BY DEF KeysInv, KeysTypeOK
<1> DEFINE n == [st |-> "active", born |-> now, notAfter |-> Never]
           q == [row EXCEPT !.pc = "ready", !.kid = i]
<1>2. row.pc = "create" /\ UNCHANGED <<now, application, rotation>> /\ key' = [key EXCEPT ![i] = n]
  BY <1>1 DEF CreateJwtKey, NewKey
<1>3. i \in Kids /\ KeyScope(i) = "jwt_access_token" /\ key[i].st = "none"
  BY <1>1, <1>2, ScopesApart DEF Kids, KeysInv, KeysAreMadeOnce
<1>4. q \in IssuerRow /\ q.pc = "ready" /\ q.iat = row.iat /\ q.open = row.open /\ q.kid = i
  BY <1>1, <1>3 DEF IssuerRow
<1>5. issuer' = [issuer EXCEPT ![i] = q]
  BY <1>1 DEF CreateJwtKey, KeysInv, KeysTypeOK
<1>6. n \in KeyRow /\ n.st = "active" /\ n.notAfter = Never
  BY NeverIs DEF KeysInv, KeysTypeOK, KeyRow
<1> HIDE DEF n, q
<1>7. /\ key' \in [Kids -> KeyRow] /\ key'[i] = n /\ \A k \in Kids \ {i} : key'[k] = key[k]
      /\ issuer' \in [Issuers -> IssuerRow] /\ issuer'[i] = q /\ \A j \in Issuers \ {i} : issuer'[j] = issuer[j]
  BY <1>2, <1>3, <1>4, <1>5, <1>6 DEF KeysInv, KeysTypeOK
<1>8. KeysTypeOK' /\ KeysHaveNoEnd'
  BY <1>2, <1>6, <1>7 DEF KeysInv, KeysTypeOK, KeysHaveNoEnd
<1>9. KeysAreMadeOnce'
  <2>1. \A r \in Rotations : r \in Kids \ {i}
    BY KeysAssumption DEF Kids
  <2>2. \A j \in Issuers \ {i} : j \in Kids \ {i}
    BY DEF Kids
  <2> QED
    BY <1>2, <1>4, <1>7, <2>1, <2>2 DEF KeysInv, KeysAreMadeOnce
<1>10. RotationsKnow'
  <2>1. \A r \in Rotations : rotation[r].retired \subseteq Kids
    BY DEF KeysInv, KeysTypeOK, RotationRow
  <2>2. \A r \in Rotations : rotation[r].pc = "locked" => i \notin rotation[r].retired
    BY <1>3 DEF KeysInv, RotationsKnow
  <2> QED
    BY <1>2, <1>7, <2>1, <2>2 DEF KeysInv, RotationsKnow
<1>11. OpenIsKnown'
  BY <1>1, <1>2, <1>4, <1>7 DEF KeysInv, OpenIsKnown, UnderWay
<1>12. SignersHaveKeys'
  <2>1. \A j \in Issuers \ {i} : issuer[j].pc \in {"ready", "issued"} => issuer[j].kid # i
    BY <1>3 DEF KeysInv, SignersHaveKeys
  <2> QED
    BY <1>2, <1>3, <1>4, <1>6, <1>7, <2>1 DEF KeysInv, SignersHaveKeys, RetiredBy
<1>13. SecretIsOfTheApplication' /\ SecretGoesWithKey'
  BY <1>2, <1>3, <1>7 DEF KeysInv, KeysTypeOK, ApplicationRow, SecretIsOfTheApplication, SecretGoesWithKey
<1>14. Signable'
  BY <1>3, <1>6, <1>7, SignableIs DEF Signable
<1> QED
  BY <1>8, <1>9, <1>10, <1>11, <1>12, <1>13, <1>14, SignableKeeps DEF KeysInv

LEMMA CreateApplicationSound ==
    ASSUME KeysInv, CreateApplication
    PROVE  KeysInv'
<1> DEFINE n == [st |-> "active", born |-> now, notAfter |-> Never]
<1>1. /\ UNCHANGED <<now, issuer, rotation>> /\ key' = [key EXCEPT ![Creation] = n]
      /\ application' = [st |-> "active", secret |-> Creation]
  BY DEF CreateApplication, NewKey
<1>2. Creation \in Kids /\ KeyScope(Creation) = "app_request" /\ Creation \notin Issuers \cup Rotations
  BY ScopesApart, KeysAssumption DEF Kids
<1>3. n \in KeyRow /\ n.st = "active" /\ n.notAfter = Never
  BY NeverIs DEF KeysInv, KeysTypeOK, KeyRow
<1> HIDE DEF n
<1>4. key' \in [Kids -> KeyRow] /\ key'[Creation] = n /\ \A k \in Kids \ {Creation} : key'[k] = key[k]
  BY <1>1, <1>2, <1>3 DEF KeysInv, KeysTypeOK
<1>5. KeysTypeOK' /\ KeysHaveNoEnd'
  BY <1>1, <1>2, <1>3, <1>4 DEF KeysInv, KeysTypeOK, KeysHaveNoEnd, ApplicationRow
<1>6. KeysAreMadeOnce' /\ OpenIsKnown'
  BY <1>1, <1>2, <1>4 DEF KeysInv, KeysAreMadeOnce, OpenIsKnown, UnderWay, Kids
<1>7. RotationsKnow'
  <2>1. \A r \in Rotations : rotation[r].retired \subseteq Kids
    BY DEF KeysInv, KeysTypeOK, RotationRow
  <2> QED
    BY <1>1, <1>3, <1>4, <2>1 DEF KeysInv, RotationsKnow
<1>8. SignersHaveKeys'
  BY <1>1, <1>2, <1>4 DEF KeysInv, SignersHaveKeys, RetiredBy
<1>9. SecretIsOfTheApplication' /\ SecretGoesWithKey'
  BY <1>1, <1>3, <1>4 DEF SecretIsOfTheApplication, SecretGoesWithKey
<1>10. Signable'
  BY <1>2, <1>3, <1>4, SignableIs DEF Signable
<1> QED
  BY <1>5, <1>6, <1>7, <1>8, <1>9, <1>10, SignableKeeps DEF KeysInv

LEMMA UpdateApplicationSound ==
    ASSUME KeysInv, UpdateApplication
    PROVE  KeysInv'
<1>1. /\ application \in ApplicationRow /\ application.st # "none" /\ UNCHANGED <<now, key, issuer, rotation>>
      /\ application' = [application EXCEPT !.st = IF application.st = "active" THEN "disabled" ELSE "active"]
  BY DEF KeysInv, KeysTypeOK, UpdateApplication
<1>2. application' \in ApplicationRow /\ application'.secret = application.secret
  BY <1>1 DEF ApplicationRow
<1>3. KeysTypeOK' /\ KeysHaveNoEnd' /\ KeysAreMadeOnce' /\ RotationsKnow'
  BY <1>1, <1>2 DEF KeysInv, KeysTypeOK, KeysHaveNoEnd, KeysAreMadeOnce, RotationsKnow
<1>4. OpenIsKnown' /\ SignersHaveKeys'
  BY <1>1 DEF KeysInv, OpenIsKnown, UnderWay, SignersHaveKeys, RetiredBy
<1>5. SecretIsOfTheApplication' /\ SecretGoesWithKey'
  BY <1>1, <1>2 DEF KeysInv, SecretIsOfTheApplication, SecretGoesWithKey
<1>6. Signable'
  BY <1>1, SignableIs DEF Signable
<1> QED
  BY <1>3, <1>4, <1>5, <1>6, SignableKeeps DEF KeysInv

\* What a step of a rotation before its commit has to show.
LEMMA RotationSound ==
    ASSUME KeysInv, NEW r \in Rotations, NEW q \in RotationRow, rotation' = [rotation EXCEPT ![r] = q],
           UNCHANGED <<now, key, application, issuer>>,
           rotation[r].pc # "done", q.pc \in {"waiting", "locked"},
           \A k \in q.retired : KeyScope(k) = KeyScope(r) /\ (q.pc = "locked" => key[k].st = "active"),
           q.pc = "locked" => \A p \in Rotations \ {r} : rotation[p].pc = "locked" =>
                                 rotation[p].retired \cap q.retired = {},
           UnderWay(r) => q.began = rotation[r].began,
           ~UnderWay(r) => q.began = now
    PROVE  KeysInv'
<1>1. rotation \in [Rotations -> RotationRow] /\ now \in 0 .. MaxNow /\ \A i \in Issuers : issuer[i].iat \in 0 .. MaxNow
  BY DEF KeysInv, KeysTypeOK, IssuerRow
<1>2. rotation'[r] = q /\ \A p \in Rotations \ {r} : rotation'[p] = rotation[p]
  BY <1>1
<1>3. KeysTypeOK' /\ KeysHaveNoEnd' /\ KeysAreMadeOnce'
  BY <1>1, <1>2 DEF KeysInv, KeysTypeOK, KeysHaveNoEnd, KeysAreMadeOnce
<1>4. RotationsKnow'
  BY <1>2 DEF KeysInv, RotationsKnow
<1>5. OpenIsKnown'
  <2> SUFFICES ASSUME NEW i \in Issuers, issuer[i].pc # "idle", NEW p \in JwtRotations,
                      UnderWay(p)', rotation'[p].began < issuer[i].iat
               PROVE  p \in issuer[i].open
    BY DEF KeysInv, OpenIsKnown
  <2>1. issuer[i].iat <= now /\ ((UnderWay(p) /\ rotation[p].began < issuer[i].iat) => p \in issuer[i].open)
    BY DEF KeysInv, OpenIsKnown
  <2>2. CASE p = r /\ ~UnderWay(r)
    <3>1. q.began = now /\ q.began < issuer[i].iat
      BY <1>2, <2>2
    <3> QED
      BY <1>1, <2>1, <3>1
  <2>3. CASE p = r /\ UnderWay(r)
    BY <1>2, <2>1, <2>3
  <2>4. CASE p # r
    BY <1>2, <2>1, <2>4 DEF UnderWay, Rotations
  <2> QED
    BY <2>2, <2>3, <2>4
<1>6. SignersHaveKeys'
  <2>1. \A i \in Issuers, p \in JwtRotations : RetiredBy(i, p) => RetiredBy(i, p)'
    BY <1>2 DEF RetiredBy, Rotations
  <2> QED
    BY <2>1 DEF KeysInv, SignersHaveKeys
<1>7. SecretIsOfTheApplication' /\ SecretGoesWithKey' /\ Signable'
  BY SignableIs DEF KeysInv, SecretIsOfTheApplication, SecretGoesWithKey, Signable
<1> QED
  BY <1>3, <1>4, <1>5, <1>6, <1>7, SignableKeeps DEF KeysInv

LEMMA BeginRotationSound ==
    ASSUME KeysInv, NEW r \in Rotations, BeginRotation(r)
    PROVE  KeysInv'
<1> DEFINE q == [pc |-> "waiting", began |-> now,
                 retired |-> {k \in Kids : KeyScope(k) = KeyScope(r) /\ key[k].st = "active"}]
<1>1. q \in RotationRow /\ q.pc = "waiting" /\ q.began = now /\ \A k \in q.retired : KeyScope(k) = KeyScope(r)
  BY DEF RotationRow, KeysInv, KeysTypeOK
<1>2. /\ rotation' = [rotation EXCEPT ![r] = q] /\ UNCHANGED <<now, key, application, issuer>>
      /\ rotation[r].pc = "idle"
  BY DEF BeginRotation
<1>3. ~UnderWay(r)
  BY <1>2 DEF UnderWay
<1> HIDE DEF q
<1> QED
  BY <1>1, <1>2, <1>3, RotationSound

LEMMA RetireActiveKeysSound ==
    ASSUME KeysInv, NEW r \in Rotations, RetireActiveKeys(r)
    PROVE  KeysInv'
<1>1. PICK row \in RotationRow : row = rotation[r]
  BY DEF KeysInv, KeysTypeOK
<1> DEFINE q == [row EXCEPT !.pc = "locked", !.retired = {k \in row.retired : key[k].st = "active"}]
<1>2. q \in RotationRow /\ q.pc = "locked" /\ q.began = row.began /\ q.retired = {k \in row.retired : key[k].st = "active"}
  BY <1>1 DEF RotationRow
<1>3. /\ rotation' = [rotation EXCEPT ![r] = q] /\ UNCHANGED <<now, key, application, issuer>>
      /\ row.pc = "waiting"
  BY <1>1 DEF RetireActiveKeys, KeysInv, KeysTypeOK
<1>4. UnderWay(r)
  BY <1>1, <1>3 DEF UnderWay
<1>5. \A k \in row.retired : KeyScope(k) = KeyScope(r)
  BY <1>1 DEF KeysInv, RotationsKnow
<1>6. \A p \in Rotations \ {r} : rotation[p].pc = "locked" => rotation[p].retired \cap row.retired = {}
  BY <1>1 DEF RetireActiveKeys
<1> HIDE DEF q
<1> QED
  BY <1>1, <1>2, <1>3, <1>4, <1>5, <1>6, RotationSound

\* The commit retires what the rotation found and makes its key, so that the scope
\* keeps one to sign with.  A request that has read a retired key began before the
\* rotation or found it under way.
LEMMA CommitRotationSound ==
    ASSUME KeysInv, NEW r \in Rotations, CommitRotation(r)
    PROVE  KeysInv'
<1>1. PICK row \in RotationRow : row = rotation[r]
  BY DEF KeysInv, KeysTypeOK
<1> DEFINE n == [st |-> "active", born |-> row.began, notAfter |-> Never]
           end == IF r \in JwtRotations THEN row.began + AccessTtl ELSE Never
           q == [row EXCEPT !.pc = "done"]
<1>2. row.pc = "locked" /\ UNCHANGED <<now, issuer>> /\ rotation' = [rotation EXCEPT ![r] = q]
  BY <1>1 DEF CommitRotation, KeysInv, KeysTypeOK
<1>3. key' = [k \in Kids |-> IF k = r THEN n
                             ELSE IF k \in row.retired THEN [st |-> "retiring", born |-> key[k].born, notAfter |-> end]
                             ELSE key[k]]
  <2>1. [NewKey EXCEPT !.born = rotation[r].began] = n
    BY <1>1 DEF NewKey
  <2>2. RetiredKey(r).st = "retiring" /\ RetiredKey(r).notAfter = end
    BY <1>1 DEF RetiredKey
  <2>3. \A k \in row.retired : KeyScope(k) = KeyScope(r) /\ key[k].st = "active"
    BY <1>1, <1>2 DEF KeysInv, RotationsKnow
  <2>4. key[r].st = "none"
    BY <1>1, <1>2 DEF KeysInv, KeysAreMadeOnce
  <2>5. r \notin row.retired
    BY <2>3, <2>4
  <2> HIDE DEF n, end
  <2>6. ASSUME NEW k \in Kids
        PROVE  RotatedKey(r, k) = IF k = r THEN n
                                  ELSE IF k \in row.retired THEN [st |-> "retiring", born |-> key[k].born, notAfter |-> end]
                                  ELSE key[k]
    BY <1>1, <2>1, <2>2, <2>5 DEF RotatedKey
  <2> QED
    BY <2>6 DEF CommitRotation
<1>4. n \in KeyRow /\ n.st = "active" /\ n.notAfter = Never
  BY <1>1, NeverIs DEF RotationRow, KeyRow
<1>5. q \in RotationRow /\ q.pc = "done" /\ q.began = row.began /\ q.retired = row.retired
  BY <1>1 DEF RotationRow
<1>6. end \in 0 .. Never
  BY <1>1, NeverIs DEF RotationRow
<1>7. r \in JwtRotations => end = row.began + AccessTtl
  OBVIOUS
<1> HIDE DEF n, end, q
<1>8. r \in Kids /\ key[r].st = "none" /\ row.retired \subseteq Kids /\ r \notin row.retired
  BY <1>1, <1>2 DEF Kids, KeysInv, KeysAreMadeOnce, RotationsKnow, RotationRow
<1>9. \A k \in row.retired : KeyScope(k) = KeyScope(r) /\ key[k].st = "active"
  BY <1>1, <1>2 DEF KeysInv, RotationsKnow
<1>10. /\ key' \in [Kids -> KeyRow] /\ key'[r] = n
       /\ \A k \in row.retired : key'[k].st = "retiring" /\ key'[k].notAfter = end
       /\ \A k \in Kids \ (row.retired \cup {r}) : key'[k] = key[k]
  <2>1. \A k \in Kids : [st |-> "retiring", born |-> key[k].born, notAfter |-> end] \in KeyRow
    BY <1>6 DEF KeysInv, KeysTypeOK, KeyRow
  <2> QED
    BY <1>3, <1>4, <1>8, <2>1 DEF KeysInv, KeysTypeOK
<1>11. rotation' \in [Rotations -> RotationRow] /\ rotation'[r] = q /\ \A p \in Rotations \ {r} : rotation'[p] = rotation[p]
  BY <1>2, <1>5 DEF KeysInv, KeysTypeOK
<1>12. /\ application' \in ApplicationRow /\ application'.st = application.st
       /\ application'.secret = IF r \in AppRotations THEN r ELSE application.secret
  BY <1>8 DEF CommitRotation, KeysInv, KeysTypeOK, ApplicationRow
<1>13. KeysTypeOK' /\ KeysHaveNoEnd'
  BY <1>2, <1>4, <1>10, <1>11, <1>12 DEF KeysInv, KeysTypeOK, KeysHaveNoEnd
<1>14. KeysAreMadeOnce'
  <2>1. \A k \in Kids : key[k].st = "none" /\ k # r => key'[k].st = "none"
    BY <1>9, <1>10
  <2>2. \A i \in Issuers : i # r /\ i \in Kids
    BY KeysAssumption DEF Kids
  <2>3. \A p \in Rotations : p \in Kids
    BY DEF Kids
  <2> QED
    BY <1>2, <1>5, <1>11, <2>1, <2>2, <2>3 DEF KeysInv, KeysAreMadeOnce
<1>15. RotationsKnow'
  <2>1. \A p \in Rotations : rotation'[p].retired = rotation[p].retired
    BY <1>1, <1>5, <1>11
  <2>2. \A p \in Rotations : rotation'[p].pc = "locked" => p # r /\ rotation[p].pc = "locked"
    BY <1>5, <1>11
  <2>3. ASSUME NEW p \in Rotations, rotation'[p].pc = "locked", NEW k \in rotation[p].retired
        PROVE  key'[k].st = "active"
    <3>1. p # r /\ rotation[p].pc = "locked" /\ key[k].st = "active" /\ k \in Kids
      BY <2>2, <2>3 DEF KeysInv, KeysTypeOK, RotationRow, RotationsKnow
    <3>2. k \notin row.retired
      BY <1>1, <1>2, <2>3, <3>1 DEF KeysInv, RotationsKnow
    <3> QED
      BY <1>4, <1>10, <3>1, <3>2
  <2> QED
    BY <2>1, <2>2, <2>3 DEF KeysInv, RotationsKnow
<1>16. OpenIsKnown'
  <2>1. \A p \in JwtRotations : UnderWay(p)' => UnderWay(p) /\ rotation'[p].began = rotation[p].began
    BY <1>1, <1>5, <1>11 DEF UnderWay, Rotations
  <2> QED
    BY <1>2, <2>1 DEF KeysInv, OpenIsKnown
<1>17. SignersHaveKeys'
  <2> SUFFICES ASSUME NEW i \in Issuers, issuer[i].pc \in {"ready", "issued"}
               PROVE  /\ issuer[i].kid \in Kids /\ KeyScope(issuer[i].kid) = "jwt_access_token"
                      /\ key'[issuer[i].kid].st # "none"
                      /\ key'[issuer[i].kid].st = "retiring" => \E p \in JwtRotations : RetiredBy(i, p)'
    BY <1>2 DEF SignersHaveKeys
  <2>1. PICK k \in Kids : k = issuer[i].kid
    BY DEF KeysInv, SignersHaveKeys
  <2>2. /\ KeyScope(k) = "jwt_access_token" /\ key[k].st # "none"
        /\ key[k].st = "retiring" => \E p \in JwtRotations : RetiredBy(i, p)
    BY <2>1 DEF KeysInv, SignersHaveKeys
  <2>3. CASE k \in row.retired
    <3>1. r \in JwtRotations
      BY <1>9, <2>2, <2>3, ScopesApart DEF Rotations
    <3>2. UnderWay(r)
      BY <1>1, <1>2 DEF UnderWay
    <3>3. issuer[i].iat <= row.began \/ r \in issuer[i].open
      <4>1. row.began < issuer[i].iat => r \in issuer[i].open
        BY <1>1, <3>1, <3>2 DEF KeysInv, OpenIsKnown
      <4>2. row.began \in Int /\ issuer[i].iat \in Int
        BY <1>1 DEF RotationRow, KeysInv, KeysTypeOK, IssuerRow
      <4> QED
        BY <4>1, <4>2
    <3>4. RetiredBy(i, r)'
      BY <1>2, <1>5, <1>7, <1>10, <1>11, <2>1, <2>3, <3>1, <3>3 DEF RetiredBy
    <3> QED
      BY <1>10, <2>1, <2>2, <2>3, <3>1, <3>4
  <2>4. CASE k \notin row.retired
    <3>1. k # r
      BY <1>8, <2>2
    <3>2. key'[k] = key[k]
      BY <1>10, <2>4, <3>1
    <3>3. \A p \in JwtRotations : RetiredBy(i, p) => RetiredBy(i, p)'
      BY <1>1, <1>2, <1>11, <2>1, <3>2 DEF RetiredBy, Rotations
    <3> QED
      BY <2>1, <2>2, <3>2, <3>3
  <2> QED
    BY <2>3, <2>4
<1>18. SecretIsOfTheApplication'
  BY <1>12 DEF KeysInv, SecretIsOfTheApplication
<1>19. SecretGoesWithKey'
  <2>1. CASE r \in AppRotations
    BY <1>4, <1>10, <1>12, <2>1 DEF SecretGoesWithKey
  <2>2. CASE r \notin AppRotations
    <3>1. r \in JwtRotations /\ KeyScope(r) = "jwt_access_token"
      BY <2>2, ScopesApart DEF Rotations
    <3>2. application.secret \in Kids /\ KeyScope(application.secret) = "app_request"
      BY ScopesApart DEF KeysInv, KeysTypeOK, ApplicationRow, SecretIsOfTheApplication
    <3>3. application.secret \notin row.retired \cup {r}
      BY <1>9, <3>1, <3>2
    <3> QED
      BY <1>10, <1>12, <2>2, <3>2, <3>3 DEF KeysInv, SecretGoesWithKey
  <2> QED
    BY <2>1, <2>2
<1>20. Signable'
  <2> SUFFICES ASSUME NEW scope \in {"jwt_access_token", "app_request"},
                      \E k \in Kids : KeyScope(k) = scope /\ key'[k].st # "none"
               PROVE  \E k \in Kids : KeyScope(k) = scope /\ key'[k].st = "active"
    BY DEF Signable
  <2>1. CASE scope = KeyScope(r)
    BY <1>4, <1>8, <1>10, <2>1
  <2>2. CASE scope # KeyScope(r)
    <3>1. \A k \in Kids : KeyScope(k) = scope => key'[k] = key[k]
      BY <1>9, <1>10, <2>2
    <3> QED
      BY <3>1, SignableIs DEF Signable
  <2> QED
    BY <2>1, <2>2
<1> QED
  BY <1>13, <1>14, <1>15, <1>16, <1>17, <1>18, <1>19, <1>20, SignableKeeps DEF KeysInv

LEMMA KeysStep ==
    ASSUME KeysInv, JwtNext \/ ApplicationNext
    PROVE  KeysInv'
<1>1. CASE \E r \in Rotations : RotationStep(r)
  BY <1>1, BeginRotationSound, RetireActiveKeysSound, CommitRotationSound DEF RotationStep
<1>2. CASE Tick \/ CreateApplication \/ UpdateApplication
  BY <1>2, TickSound, CreateApplicationSound, UpdateApplicationSound
<1>3. CASE \E i \in Issuers : StartIssue(i) \/ PrepareSigner(i) \/ CreateJwtKey(i) \/ Sign(i)
  BY <1>3, StartIssueSound, PrepareSignerSound, CreateJwtKeySound, SignSound
<1> QED
  BY <1>1, <1>2, <1>3 DEF JwtNext, ApplicationNext, Rotations

LEMMA KeysStutter ==
    ASSUME KeysInv, UNCHANGED keyVars
    PROVE  KeysInv'
<1>1. KeysTypeOK' /\ KeysHaveNoEnd' /\ KeysAreMadeOnce' /\ RotationsKnow'
  BY DEF keyVars, KeysInv, KeysTypeOK, KeysHaveNoEnd, KeysAreMadeOnce, RotationsKnow
<1>2. OpenIsKnown' /\ SignersHaveKeys'
  BY DEF keyVars, KeysInv, OpenIsKnown, UnderWay, SignersHaveKeys, RetiredBy
<1>3. SecretIsOfTheApplication' /\ SecretGoesWithKey' /\ Signable'
  BY SignableIs DEF keyVars, KeysInv, SecretIsOfTheApplication, SecretGoesWithKey, Signable
<1> QED
  BY <1>1, <1>2, <1>3, SignableKeeps DEF KeysInv

\* A token that has not expired was signed with a key that is still public.
LEMMA KeysSound ==
    ASSUME KeysInv
    PROVE  KeysKept
<1>1. TokensVerify
  <2> SUFFICES ASSUME NEW i \in Issuers, issuer[i].pc = "issued", now < ExpiresAt(i)
               PROVE  issuer[i].kid \in PublicKeys("jwt_access_token")
                        \/ \E r \in issuer[i].open : issuer[i].kid \in rotation[r].retired
    BY DEF TokensVerify, Verifies
  <2>1. PICK k \in Kids : k = issuer[i].kid
    BY DEF KeysInv, SignersHaveKeys
  <2>2. /\ KeyScope(k) = "jwt_access_token" /\ key[k].st # "none"
        /\ key[k].st = "retiring" => \E p \in JwtRotations : RetiredBy(i, p)
    BY <2>1 DEF KeysInv, SignersHaveKeys
  <2>3. now \in 0 .. MaxNow /\ issuer[i].iat \in 0 .. MaxNow /\ key[k] \in KeyRow
    BY DEF KeysInv, KeysTypeOK, IssuerRow
  <2>4. CASE key[k].st = "retiring"
    <3>1. PICK p \in JwtRotations : RetiredBy(i, p)
      BY <2>2, <2>4
    <3>2. CASE p \in issuer[i].open
      BY <3>1, <3>2 DEF RetiredBy
    <3>3. CASE issuer[i].iat <= rotation[p].began
      <4>1. rotation[p].began \in 0 .. MaxNow
        BY DEF KeysInv, KeysTypeOK, RotationRow, Rotations
      <4>2. now < issuer[i].iat + AccessTtl /\ key[k].notAfter = rotation[p].began + AccessTtl
        BY <2>1, <3>1 DEF ExpiresAt, RetiredBy
      <4>3. key[k].notAfter > now
        BY <2>3, <3>3, <4>1, <4>2, KeysAssumption
      <4> QED
        BY <2>1, <2>2, <2>4, <4>3 DEF PublicKeys
    <3> QED
      BY <3>1, <3>2, <3>3 DEF RetiredBy
  <2>5. CASE key[k].st # "retiring"
    <3>1. key[k].st = "active"
      BY <2>2, <2>3, <2>5 DEF KeyRow
    <3>2. key[k].notAfter > now
      BY <2>3, <2>5, NeverIs, KeysAssumption DEF KeysInv, KeysHaveNoEnd
    <3> QED
      BY <2>1, <2>2, <3>1, <3>2 DEF PublicKeys
  <2> QED
    BY <2>4, <2>5
<1> QED
  BY <1>1 DEF KeysInv, KeysKept

-----------------------------------------------------------------------------
(* Releases. *)

ShownStates == {"published", "deprecated"}

LEMMA IdleOfficeIs == IdleOffice \in OfficeRow
<1>1. \A r \in ReleaseIds : NoRelease(r) \in ReleaseRow
  BY DEF NoRelease, ReleaseRow, Unsigned, Payload
<1>2. (CHOOSE r \in ReleaseIds : TRUE) \in ReleaseIds
  BY ReleasesAssumption
<1> QED
  BY <1>1, <1>2 DEF IdleOffice, OfficeRow, Operations

LEMMA ReleasesInitSound ==
    ASSUME ReleasesInit
    PROVE  ReleasesInv
<1>1. \A r \in ReleaseIds : NoRelease(r) \in ReleaseRow /\ NoRelease(r).st = "none"
  BY DEF NoRelease, ReleaseRow, Unsigned, Payload
<1>2. ReleasesTypeOK
  BY <1>1, IdleOfficeIs DEF ReleasesInit, ReleasesTypeOK, OfferRow
<1>3. SignatureCoversRelease /\ UsedByOne /\ OfferedWasPublished
  BY <1>1 DEF ReleasesInit, SignatureCoversRelease, UsedByOne, OfferedWasPublished
<1> QED
  BY <1>2, <1>3 DEF ReleasesInv

\* What a step that leaves releases, token and downloads alone has to show.
LEMMA OfficeSound ==
    ASSUME ReleasesInv, UNCHANGED <<release, offer, download>>,
           (file \in [ReleaseIds -> [row : BOOLEAN, object : BOOLEAN]])',
           (office \in [OfficeCalls -> OfficeRow])', (device \in BOOLEAN)'
    PROVE  ReleasesInv'
<1>1. ReleasesTypeOK'
  BY DEF ReleasesInv, ReleasesTypeOK
<1>2. SignatureCoversRelease' /\ UsedByOne' /\ OfferedWasPublished'
  BY DEF ReleasesInv, SignatureCoversRelease, UsedByOne, OfferedWasPublished
<1> QED
  BY <1>1, <1>2 DEF ReleasesInv

LEMMA FilesSound ==
    ASSUME ReleasesInv, NEW r \in ReleaseIds, PutReleaseObject(r) \/ CreateReleaseFile(r)
    PROVE  ReleasesInv'
<1>1. file \in [ReleaseIds -> [row : BOOLEAN, object : BOOLEAN]] /\ UNCHANGED <<release, office, offer, download, device>>
  BY DEF ReleasesInv, ReleasesTypeOK, PutReleaseObject, CreateReleaseFile
<1>2. PICK row \in [row : BOOLEAN, object : BOOLEAN] : row = file[r]
  BY <1>1
<1>3. PICK q \in [row : BOOLEAN, object : BOOLEAN] : file' = [file EXCEPT ![r] = q]
  <2>1. CASE PutReleaseObject(r)
    <3> DEFINE q == [row EXCEPT !.object = TRUE]
    <3>1. q \in [row : BOOLEAN, object : BOOLEAN]
      BY <1>2
    <3>2. file' = [file EXCEPT ![r] = q]
      BY <1>1, <1>2, <2>1 DEF PutReleaseObject
    <3> QED
      BY <3>1, <3>2
  <2>2. CASE CreateReleaseFile(r)
    <3> DEFINE q == [row EXCEPT !.row = TRUE]
    <3>1. q \in [row : BOOLEAN, object : BOOLEAN]
      BY <1>2
    <3>2. file' = [file EXCEPT ![r] = q]
      BY <1>1, <1>2, <2>2 DEF CreateReleaseFile
    <3> QED
      BY <3>1, <3>2
  <2> QED
    BY <2>1, <2>2
<1>4. file' \in [ReleaseIds -> [row : BOOLEAN, object : BOOLEAN]]
  BY <1>1, <1>3
<1>5. office \in [OfficeCalls -> OfficeRow] /\ device \in BOOLEAN
  BY DEF ReleasesInv, ReleasesTypeOK
<1> QED
  BY <1>1, <1>4, <1>5, OfficeSound

LEMMA CheckReleaseSound ==
    ASSUME ReleasesInv, NEW o \in OfficeCalls, NEW op \in Operations, NEW r \in ReleaseIds,
           NEW v \in Versions \cup {NoVersion}, CheckRelease(o, op, r, v)
    PROVE  ReleasesInv'
<1> DEFINE q == [pc |-> "checked", op |-> op, r |-> r, v |-> v, before |-> release[r]]
<1>1. q \in OfficeRow
  BY DEF OfficeRow, ReleasesInv, ReleasesTypeOK
<1>2. office' = [office EXCEPT ![o] = q] /\ UNCHANGED <<file, release, offer, download, device>>
  BY DEF CheckRelease
<1> HIDE DEF q
<1>3. office' \in [OfficeCalls -> OfficeRow]
  BY <1>1, <1>2 DEF ReleasesInv, ReleasesTypeOK
<1>4. file \in [ReleaseIds -> [row : BOOLEAN, object : BOOLEAN]] /\ device \in BOOLEAN
  BY DEF ReleasesInv, ReleasesTypeOK
<1> QED
  BY <1>2, <1>3, <1>4, OfficeSound

LEMMA RefuseReleaseSound ==
    ASSUME ReleasesInv, NEW o \in OfficeCalls, RefuseRelease(o)
    PROVE  ReleasesInv'
<1>1. office' = [office EXCEPT ![o] = IdleOffice] /\ UNCHANGED <<file, release, offer, download, device>>
  BY DEF RefuseRelease
<1>2. office' \in [OfficeCalls -> OfficeRow]
  BY <1>1, IdleOfficeIs DEF ReleasesInv, ReleasesTypeOK
<1>3. file \in [ReleaseIds -> [row : BOOLEAN, object : BOOLEAN]] /\ device \in BOOLEAN
  BY DEF ReleasesInv, ReleasesTypeOK
<1> QED
  BY <1>1, <1>2, <1>3, OfficeSound

LEMMA LoseEntitlementSound ==
    ASSUME ReleasesInv, LoseEntitlement
    PROVE  ReleasesInv'
<1>1. device' = FALSE /\ UNCHANGED <<file, release, office, offer, download>>
  BY DEF LoseEntitlement
<1>2. file \in [ReleaseIds -> [row : BOOLEAN, object : BOOLEAN]] /\ office \in [OfficeCalls -> OfficeRow]
  BY DEF ReleasesInv, ReleasesTypeOK
<1> QED
  BY <1>1, <1>2, OfficeSound

\* What a step that writes one release has to show.
LEMMA ReleaseWritten ==
    ASSUME ReleasesInv, NEW r \in ReleaseIds, NEW q \in ReleaseRow, release' = [release EXCEPT ![r] = q],
           UNCHANGED <<file, offer, download, device>>, (office \in [OfficeCalls -> OfficeRow])',
           q.st \in ShownStates => q.sig = [v |-> q.v, file |-> r],
           release[r].st \in ShownStates => q.st \in ShownStates
    PROVE  ReleasesInv'
<1>1. release' \in [ReleaseIds -> ReleaseRow] /\ release'[r] = q /\ \A p \in ReleaseIds \ {r} : release'[p] = release[p]
  BY DEF ReleasesInv, ReleasesTypeOK
<1>2. ReleasesTypeOK'
  BY <1>1 DEF ReleasesInv, ReleasesTypeOK
<1>3. SignatureCoversRelease'
  BY <1>1 DEF ReleasesInv, SignatureCoversRelease, ShownStates
<1>4. UsedByOne' /\ OfferedWasPublished'
  BY <1>1 DEF ReleasesInv, UsedByOne, OfferedWasPublished, ShownStates
<1> QED
  BY <1>2, <1>3, <1>4 DEF ReleasesInv

LEMMA CreateReleaseSound ==
    ASSUME ReleasesInv, NEW r \in ReleaseIds, NEW v \in Versions, CreateRelease(r, v)
    PROVE  ReleasesInv'
<1>1. PICK row \in ReleaseRow : row = release[r]
  BY DEF ReleasesInv, ReleasesTypeOK
<1> DEFINE q == [row EXCEPT !.st = "draft", !.v = v]
<1>2. q \in ReleaseRow /\ q.st = "draft"
  BY <1>1 DEF ReleaseRow
<1>3. /\ release' = [release EXCEPT ![r] = q] /\ UNCHANGED <<file, office, offer, download, device>>
      /\ release[r].st = "none"
  BY <1>1 DEF CreateRelease, ReleasesInv, ReleasesTypeOK
<1>4. office' \in [OfficeCalls -> OfficeRow]
  BY <1>3 DEF ReleasesInv, ReleasesTypeOK
<1> HIDE DEF q
<1> QED
  BY <1>2, <1>3, <1>4, ReleaseWritten DEF ShownStates

\* The statement of a handler, on the row as it is now: what the row becomes, and
\* that a row that was shown stays as it was.
LEMMA CommittedRow ==
    ASSUME ReleasesInv, NEW o \in OfficeCalls, CommitRelease(o)
    PROVE  \E r \in ReleaseIds, q \in ReleaseRow :
              /\ release' = [release EXCEPT ![r] = q]
              /\ q.st \in ShownStates => q.sig = [v |-> q.v, file |-> r]
              /\ release[r].st \in ShownStates =>
                    /\ q.st = "deprecated" /\ q.v = release[r].v /\ q.sig = release[r].sig
                    /\ q.deleted = release[r].deleted
<1>1. PICK w \in OfficeRow : w = office[o]
  BY DEF ReleasesInv, ReleasesTypeOK
<1>2. PICK r \in ReleaseIds : r = w.r
  BY <1>1 DEF OfficeRow
<1>3. PICK row \in ReleaseRow : row = release[r]
  BY <1>2 DEF ReleasesInv, ReleasesTypeOK
<1>4. /\ release' = [release EXCEPT ![r] = UpdatedRelease(o)]
      /\ row.st = (IF w.op = "deprecate" THEN "published" ELSE "draft")
  BY <1>1, <1>2, <1>3 DEF CommitRelease, StillExpected, ExpectedStatus
<1>5. row.st \in ShownStates => row.sig = [v |-> row.v, file |-> r]
  BY <1>3 DEF ReleasesInv, SignatureCoversRelease, ShownStates
<1>6. CASE w.op = "update"
  <2> DEFINE q == [row EXCEPT !.v = w.v]
  <2>1. q \in ReleaseRow /\ q.st = row.st
    BY <1>1, <1>3 DEF OfficeRow, ReleaseRow
  <2>2. UpdatedRelease(o) = q
    BY <1>1, <1>2, <1>3, <1>6 DEF UpdatedRelease
  <2> HIDE DEF q
  <2> QED
    BY <1>3, <1>4, <1>6, <2>1, <2>2 DEF ShownStates
<1>7. CASE w.op = "publish"
  <2> DEFINE q == [row EXCEPT !.st = "published", !.sig = [v |-> row.v, file |-> r]]
  <2>1. q \in ReleaseRow /\ q.sig = [v |-> q.v, file |-> r]
    BY <1>3 DEF ReleaseRow, Payload
  <2>2. UpdatedRelease(o) = q
    BY <1>1, <1>2, <1>3, <1>7 DEF UpdatedRelease, SignedPayload
  <2> HIDE DEF q
  <2> QED
    BY <1>3, <1>4, <1>7, <2>1, <2>2 DEF ShownStates
<1>8. CASE w.op = "deprecate"
  <2> DEFINE q == [row EXCEPT !.st = "deprecated"]
  <2>1. q \in ReleaseRow /\ q.st = "deprecated" /\ q.v = row.v /\ q.sig = row.sig /\ q.deleted = row.deleted
    BY <1>3 DEF ReleaseRow
  <2>2. UpdatedRelease(o) = q
    BY <1>1, <1>2, <1>3, <1>8 DEF UpdatedRelease
  <2> HIDE DEF q
  <2> QED
    BY <1>3, <1>4, <1>5, <1>8, <2>1, <2>2 DEF ShownStates
<1>9. CASE w.op = "delete"
  <2> DEFINE q == [row EXCEPT !.deleted = TRUE]
  <2>1. q \in ReleaseRow /\ q.st = row.st
    BY <1>3 DEF ReleaseRow
  <2>2. UpdatedRelease(o) = q
    BY <1>1, <1>2, <1>3, <1>9 DEF UpdatedRelease
  <2> HIDE DEF q
  <2> QED
    BY <1>3, <1>4, <1>9, <2>1, <2>2 DEF ShownStates
<1> QED
  BY <1>1, <1>6, <1>7, <1>8, <1>9 DEF OfficeRow, Operations

LEMMA CommitReleaseSound ==
    ASSUME ReleasesInv, NEW o \in OfficeCalls, CommitRelease(o)
    PROVE  ReleasesInv'
<1>1. PICK r \in ReleaseIds, q \in ReleaseRow :
         /\ release' = [release EXCEPT ![r] = q]
         /\ q.st \in ShownStates => q.sig = [v |-> q.v, file |-> r]
         /\ release[r].st \in ShownStates => q.st = "deprecated"
  BY CommittedRow
<1>2. office' = [office EXCEPT ![o] = IdleOffice] /\ UNCHANGED <<file, offer, download, device>>
  BY DEF CommitRelease
<1>3. office' \in [OfficeCalls -> OfficeRow]
  BY <1>2, IdleOfficeIs DEF ReleasesInv, ReleasesTypeOK
<1> QED
  BY <1>1, <1>2, <1>3, ReleaseWritten DEF ShownStates

\* What a step of the client has to show.
LEMMA ClientSound ==
    ASSUME ReleasesInv, UNCHANGED <<file, release, office, device>>, offer' \in OfferRow,
           download' \in [DownloadCalls -> {"idle", "consumed", "served", "refused"}],
           UsedByOne', OfferedWasPublished'
    PROVE  ReleasesInv'
  BY DEF ReleasesInv, ReleasesTypeOK, SignatureCoversRelease

LEMMA LatestReleaseSound ==
    ASSUME ReleasesInv, NEW r \in ReleaseIds, LatestRelease(r)
    PROVE  ReleasesInv'
<1>1. /\ offer.st = "none" /\ release[r].st = "published" /\ offer' = [st |-> "open", r |-> r]
      /\ UNCHANGED <<file, release, office, download, device>>
  BY DEF LatestRelease, Offered
<1>2. offer' \in OfferRow /\ offer'.r = r /\ offer'.st = "open"
  BY <1>1 DEF OfferRow
<1>3. UsedByOne' /\ OfferedWasPublished'
  BY <1>1, <1>2 DEF ReleasesInv, UsedByOne, OfferedWasPublished
<1> QED
  BY <1>1, <1>2, <1>3, ClientSound DEF ReleasesInv, ReleasesTypeOK

LEMMA ExpireDownloadTokenSound ==
    ASSUME ReleasesInv, ExpireDownloadToken
    PROVE  ReleasesInv'
<1>1. /\ offer \in OfferRow /\ offer.st = "open" /\ offer' = [offer EXCEPT !.st = "expired"]
      /\ UNCHANGED <<file, release, office, download, device>>
  BY DEF ExpireDownloadToken, ReleasesInv, ReleasesTypeOK
<1>2. offer' \in OfferRow /\ offer'.r = offer.r /\ offer'.st = "expired"
  BY <1>1 DEF OfferRow
<1>3. UsedByOne' /\ OfferedWasPublished'
  BY <1>1, <1>2 DEF ReleasesInv, UsedByOne, OfferedWasPublished
<1> QED
  BY <1>1, <1>2, <1>3, ClientSound DEF ReleasesInv, ReleasesTypeOK

LEMMA ConsumeDownloadTokenSound ==
    ASSUME ReleasesInv, NEW d \in DownloadCalls, ConsumeDownloadToken(d)
    PROVE  ReleasesInv'
<1>1. /\ offer \in OfferRow /\ download[d] = "idle" /\ offer.st # "none" /\ UNCHANGED <<file, release, office, device>>
      /\ download \in [DownloadCalls -> {"idle", "consumed", "served", "refused"}]
  BY DEF ConsumeDownloadToken, ReleasesInv, ReleasesTypeOK
<1>2. CASE TokenUsable
  <2>1. offer' = [offer EXCEPT !.st = "used"] /\ download' = [download EXCEPT ![d] = "consumed"] /\ offer.st = "open"
    BY <1>2 DEF ConsumeDownloadToken, TokenUsable
  <2>2. offer' \in OfferRow /\ offer'.r = offer.r /\ offer'.st = "used"
    BY <1>1, <2>1 DEF OfferRow
  <2>3. \A e \in DownloadCalls : download[e] \notin {"consumed", "served"}
    BY <2>1 DEF ReleasesInv, UsedByOne
  <2>4. UsedByOne'
    BY <1>1, <2>1, <2>2, <2>3 DEF UsedByOne
  <2>5. OfferedWasPublished'
    BY <1>1, <2>2 DEF ReleasesInv, OfferedWasPublished
  <2> QED
    BY <1>1, <2>1, <2>2, <2>4, <2>5, ClientSound
<1>3. CASE ~TokenUsable
  <2>1. offer' = offer /\ download' = [download EXCEPT ![d] = "refused"]
    BY <1>3 DEF ConsumeDownloadToken
  <2>2. UsedByOne' /\ OfferedWasPublished'
    BY <1>1, <2>1 DEF ReleasesInv, UsedByOne, OfferedWasPublished
  <2> QED
    BY <1>1, <2>1, <2>2, ClientSound
<1> QED
  BY <1>2, <1>3

LEMMA ServeDownloadSound ==
    ASSUME ReleasesInv, NEW d \in DownloadCalls, ServeDownload(d)
    PROVE  ReleasesInv'
<1>1. /\ offer \in OfferRow /\ download[d] = "consumed" /\ UNCHANGED <<file, release, office, offer, device>>
      /\ download \in [DownloadCalls -> {"idle", "consumed", "served", "refused"}]
  BY DEF ServeDownload, ReleasesInv, ReleasesTypeOK
<1>2. PICK s \in {"served", "refused"} : download' = [download EXCEPT ![d] = s]
  BY DEF ServeDownload
<1>3. UsedByOne' /\ OfferedWasPublished'
  BY <1>1, <1>2 DEF ReleasesInv, UsedByOne, OfferedWasPublished
<1> QED
  BY <1>1, <1>2, <1>3, ClientSound

LEMMA ReleasesStep ==
    ASSUME ReleasesInv, ReleasesNext
    PROVE  ReleasesInv'
<1>1. CASE LoseEntitlement \/ ExpireDownloadToken
  BY <1>1, LoseEntitlementSound, ExpireDownloadTokenSound
<1>2. CASE \E r \in ReleaseIds : PutReleaseObject(r) \/ CreateReleaseFile(r) \/ LatestRelease(r)
  BY <1>2, FilesSound, LatestReleaseSound
<1>3. CASE \E r \in ReleaseIds, v \in Versions : CreateRelease(r, v)
  BY <1>3, CreateReleaseSound
<1>4. CASE \E r \in ReleaseIds, o \in OfficeCalls, op \in Operations, v \in Versions \cup {NoVersion} : CheckRelease(o, op, r, v)
  BY <1>4, CheckReleaseSound
<1>5. CASE \E o \in OfficeCalls : CommitRelease(o) \/ RefuseRelease(o)
  BY <1>5, CommitReleaseSound, RefuseReleaseSound
<1>6. CASE \E d \in DownloadCalls : ConsumeDownloadToken(d) \/ ServeDownload(d)
  BY <1>6, ConsumeDownloadTokenSound, ServeDownloadSound
<1> QED
  BY <1>1, <1>2, <1>3, <1>4, <1>5, <1>6 DEF ReleasesNext

LEMMA ReleasesStutter ==
    ASSUME ReleasesInv, UNCHANGED releaseVars
    PROVE  ReleasesInv'
  BY DEF releaseVars, ReleasesInv, ReleasesTypeOK, SignatureCoversRelease, UsedByOne, OfferedWasPublished

LEMMA ReleasesSound ==
    ASSUME ReleasesInv
    PROVE  ReleasesTypeOK /\ SignatureCoversRelease /\ TokenServesOnce
<1> DEFINE S == {d \in DownloadCalls : download[d] \in {"consumed", "served"}}
<1>1. Cardinality(S) <= 1
  <2>1. \A d, e \in S : d = e
    BY DEF ReleasesInv, UsedByOne
  <2>2. S = {} \/ \E d \in S : S = {d}
    BY <2>1
  <2> HIDE DEF S
  <2>3. CASE S = {}
    <3>1. Cardinality(S) = 0
      BY <2>3, FS_EmptySet
    <3> QED
      BY <3>1
  <2>4. ASSUME NEW d, S = {d}
        PROVE  Cardinality(S) <= 1
    <3>1. Cardinality(S) = 1
      BY <2>4, FS_Singleton
    <3> QED
      BY <3>1
  <2> QED
    BY <2>2, <2>3, <2>4
<1> QED
  BY <1>1 DEF ReleasesInv, TokenServesOnce, OfferedWasPublished

\* What has been shown to clients is fixed.
Fixed ==
    \A r \in ReleaseIds : release[r].st \in {"published", "deprecated"} =>
          /\ release'[r].v = release[r].v /\ release'[r].sig = release[r].sig
          /\ release'[r].deleted = release[r].deleted
          /\ release'[r].st \in {release[r].st, "deprecated"}

LEMMA ShownStays ==
    ASSUME ReleasesInv, ReleasesNext
    PROVE  Fixed
<1>1. CASE UNCHANGED release
  BY <1>1 DEF Fixed
<1>2. CASE \E r \in ReleaseIds, v \in Versions : CreateRelease(r, v)
  <2>1. PICK r \in ReleaseIds, v \in Versions : CreateRelease(r, v)
    BY <1>2
  <2>2. release[r].st = "none" /\ \A p \in ReleaseIds \ {r} : release'[p] = release[p]
    BY <2>1 DEF CreateRelease, ReleasesInv, ReleasesTypeOK
  <2> QED
    BY <2>2 DEF Fixed
<1>3. CASE \E o \in OfficeCalls : CommitRelease(o)
  <2>1. PICK r \in ReleaseIds, q \in ReleaseRow :
           /\ release' = [release EXCEPT ![r] = q]
           /\ release[r].st \in ShownStates =>
                 /\ q.st = "deprecated" /\ q.v = release[r].v /\ q.sig = release[r].sig
                 /\ q.deleted = release[r].deleted
    BY <1>3, CommittedRow
  <2>2. release'[r] = q /\ \A p \in ReleaseIds \ {r} : release'[p] = release[p]
    BY <2>1 DEF ReleasesInv, ReleasesTypeOK
  <2> QED
    BY <2>1, <2>2 DEF Fixed, ShownStates
<1> QED
  BY <1>1, <1>2, <1>3 DEF ReleasesNext, LoseEntitlement, ExpireDownloadToken, PutReleaseObject, CreateReleaseFile,
     LatestRelease, CheckRelease, RefuseRelease, ConsumeDownloadToken, ServeDownload

-----------------------------------------------------------------------------
(* Scripts. *)

LEMMA NoScriptIs == NoScript \in ScriptRow /\ NoScript.st = "none" /\ IdleScriptCall \in ScriptCallRow
<1>1. PICK c \in VersionCodes : c = CHOOSE d \in VersionCodes : TRUE
  BY ScriptsAssumption
<1>2. NoScript \in ScriptRow /\ NoScript.st = "none"
  BY <1>1 DEF NoScript, NewScript, ScriptRow, Signed
<1> QED
  BY <1>2 DEF IdleScriptCall, ScriptCallRow

LEMMA ScriptsInitSound ==
    ASSUME ScriptsInit
    PROVE  ScriptsInv
  BY NoScriptIs DEF ScriptsInit, ScriptsInv, ScriptsTypeOK, ScriptSignatureFits, Fetchable

LEMMA CreateScriptSound ==
    ASSUME ScriptsInv, NEW code \in VersionCodes, CreateSecureScript(code)
    PROVE  ScriptsInv'
<1>1. script' = NewScript(code) /\ UNCHANGED <<scriptCall, overtaken>>
  BY DEF CreateSecureScript
<1>2. NewScript(code) \in ScriptRow /\ VerifiesOnClient(NewScript(code))
  BY DEF NewScript, ScriptRow, Signed, VerifiesOnClient
<1> QED
  BY <1>1, <1>2 DEF ScriptsInv, ScriptsTypeOK, ScriptSignatureFits, Fetchable

LEMMA CheckScriptSound ==
    ASSUME ScriptsInv, NEW o \in ScriptCalls,
           \/ \E content \in Contents, code \in VersionCodes \cup {Keep} : CheckContent(o, content, code)
           \/ \E op \in {"publish", "deprecate"} : CheckScriptStatus(o, op)
    PROVE  ScriptsInv'
<1>1. PICK row \in ScriptCallRow : row = scriptCall[o]
  BY DEF ScriptsInv, ScriptsTypeOK
<1>2. PICK q \in ScriptCallRow : scriptCall' = [scriptCall EXCEPT ![o] = q]
  <2>1. ASSUME NEW content \in Contents, NEW code \in VersionCodes \cup {Keep}, CheckContent(o, content, code)
        PROVE  \E q \in ScriptCallRow : scriptCall' = [scriptCall EXCEPT ![o] = q]
    <3> DEFINE q == [pc |-> "checked", op |-> "content", content |-> content, code |-> code, before |-> script]
    <3>1. q \in ScriptCallRow
      BY DEF ScriptsInv, ScriptsTypeOK, ScriptCallRow
    <3>2. scriptCall' = [scriptCall EXCEPT ![o] = q]
      BY <2>1 DEF CheckContent
    <3> QED
      BY <3>1, <3>2
  <2>2. ASSUME NEW op \in {"publish", "deprecate"}, CheckScriptStatus(o, op)
        PROVE  \E q \in ScriptCallRow : scriptCall' = [scriptCall EXCEPT ![o] = q]
    <3> DEFINE q == [row EXCEPT !.pc = "checked", !.op = op, !.before = script]
    <3>1. q \in ScriptCallRow
      BY <1>1 DEF ScriptsInv, ScriptsTypeOK, ScriptCallRow
    <3>2. scriptCall' = [scriptCall EXCEPT ![o] = q]
      BY <1>1, <2>2 DEF CheckScriptStatus, ScriptsInv, ScriptsTypeOK
    <3> QED
      BY <3>1, <3>2
  <2> QED
    BY <2>1, <2>2
<1>3. UNCHANGED <<script, overtaken>>
  BY DEF CheckContent, CheckScriptStatus
<1> QED
  BY <1>2, <1>3 DEF ScriptsInv, ScriptsTypeOK, ScriptSignatureFits, Fetchable, VerifiesOnClient

\* The signature was made with the version code the handler had read; the row has
\* another one only if the update was overtaken.
LEMMA UpdateContentSound ==
    ASSUME ScriptsInv, NEW o \in ScriptCalls, UpdateContent(o)
    PROVE  ScriptsInv'
<1>1. PICK row \in ScriptCallRow : row = scriptCall[o]
  BY DEF ScriptsInv, ScriptsTypeOK
<1> DEFINE code == IF row.code = Keep THEN script.code ELSE row.code
           sig == [content |-> row.content, code |-> IF row.code = Keep THEN row.before.code ELSE row.code]
<1>2. script' = [st |-> "draft", content |-> row.content, sig |-> sig, code |-> code]
  BY <1>1 DEF UpdateContent, SignedContent
<1>3. overtaken' = (row.code = Keep /\ script.code # row.before.code)
  BY <1>1 DEF UpdateContent
<1>4. scriptCall' = [scriptCall EXCEPT ![o] = IdleScriptCall]
  BY DEF UpdateContent
<1>5. script \in ScriptRow /\ row.before \in ScriptRow /\ code \in VersionCodes /\ sig \in Signed
  BY <1>1 DEF ScriptsInv, ScriptsTypeOK, ScriptRow, ScriptCallRow, Signed
<1>6. sig.content = row.content /\ (overtaken' \/ sig.code = code)
  BY <1>3
<1>7. overtaken' \in BOOLEAN
  BY <1>3
<1>8. script' \in ScriptRow
  BY <1>1, <1>2, <1>5 DEF ScriptRow, ScriptCallRow
<1>9. scriptCall' \in [ScriptCalls -> ScriptCallRow]
  BY <1>4, NoScriptIs DEF ScriptsInv, ScriptsTypeOK
<1>10. VerifiesOnClient(script') \/ overtaken'
  <2>1. sig = [content |-> row.content, code |-> sig.code]
    OBVIOUS
  <2> HIDE DEF sig, code
  <2> QED
    BY <1>2, <1>6, <2>1 DEF VerifiesOnClient
<1> QED
  BY <1>7, <1>8, <1>9, <1>10 DEF ScriptsInv, ScriptsTypeOK, ScriptSignatureFits, VerifiesOnClient

LEMMA MutateScriptStatusSound ==
    ASSUME ScriptsInv, NEW o \in ScriptCalls, MutateScriptStatus(o)
    PROVE  ScriptsInv'
<1>1. scriptCall' = [scriptCall EXCEPT ![o] = IdleScriptCall] /\ UNCHANGED overtaken
  BY DEF MutateScriptStatus
<1>2. scriptCall' \in [ScriptCalls -> ScriptCallRow]
  BY <1>1, NoScriptIs DEF ScriptsInv, ScriptsTypeOK
<1>3. CASE script' = script
  BY <1>1, <1>2, <1>3 DEF ScriptsInv, ScriptsTypeOK, ScriptSignatureFits, Fetchable, VerifiesOnClient
<1>4. CASE script' # script
  <2>1. PICK s \in {"published", "deprecated"} : script' = [script EXCEPT !.st = s] /\ (s = "published" => script.st = "draft")
    BY <1>4 DEF MutateScriptStatus, ScriptStatusExpected
  <2>2. script \in ScriptRow
    BY DEF ScriptsInv, ScriptsTypeOK
  <2>3. /\ script' \in ScriptRow /\ script'.st = s
        /\ script'.sig = script.sig /\ script'.content = script.content /\ script'.code = script.code
    BY <2>1, <2>2 DEF ScriptRow
  <2> QED
    BY <1>1, <1>2, <2>1, <2>3 DEF ScriptsInv, ScriptsTypeOK, ScriptSignatureFits, Fetchable, VerifiesOnClient
<1> QED
  BY <1>3, <1>4

LEMMA ScriptsStep ==
    ASSUME ScriptsInv, ScriptsNext
    PROVE  ScriptsInv'
  BY CreateScriptSound, CheckScriptSound, UpdateContentSound, MutateScriptStatusSound DEF ScriptsNext

LEMMA ScriptsStutter ==
    ASSUME ScriptsInv, UNCHANGED scriptVars
    PROVE  ScriptsInv'
  BY DEF scriptVars, ScriptsInv, ScriptsTypeOK, ScriptSignatureFits, Fetchable, VerifiesOnClient

-----------------------------------------------------------------------------
(* The session of the SDK. *)

Refreshing == {"refreshing", "accepted", "refused"}

ServerRow == [cur : 0 .. MaxRefreshes, alive : BOOLEAN, reused : BOOLEAN]

DiskRow == [session : SessionState, key : 1 .. MaxKeys]

LEMMA SdkConstants ==
    /\ NoSession \in SessionState /\ NoSession.s = 0 /\ Sessions \subseteq Nat /\ 0 \notin Sessions
    /\ IdleCall \in CallRow /\ IdleCall.pc = "idle"
    /\ 1 \in 1 .. MaxKeys
  BY SdkAssumption DEF NoSession, SessionState, Sessions, IdleCall, CallRow

\* The parts about the device key, which the steps of the session leave alone.
KeyPart == /\ serverKey \in 1 .. MaxKeys /\ envelope \in 1 .. MaxKeys /\ rotating \in {"idle", "sent", "answered"}
           /\ sentKeys \in SUBSET (1 .. MaxKeys) /\ keyLost \in BOOLEAN /\ DeviceKeyAgrees

\* The parts about the session.
SessionPart ==
    /\ server \in [Sessions -> ServerRow]
    /\ logins \in 0 .. MaxLogins /\ restarts \in 0 .. MaxRestarts
    /\ mem \in SessionState /\ disk \in DiskRow /\ due \in BOOLEAN
    /\ mutex \in Threads \cup {Nobody} /\ call \in [Threads -> CallRow]
    /\ sent \in SUBSET SessionState /\ fromOldDisk \in SUBSET Sessions
    /\ RefreshHasMutex /\ TokenIsCurrent /\ AcceptedIsNext /\ SessionsExist /\ SentIsCurrent /\ ReuseOnlyFromOldDisk

LEMMA SdkParts ==
    ASSUME SdkInv
    PROVE  KeyPart /\ SessionPart
  BY DEF SdkInv, SdkTypeOK, KeyPart, SessionPart, ServerRow, DiskRow

LEMMA SdkWhole ==
    ASSUME KeyPart', SessionPart'
    PROVE  SdkInv'
  BY DEF SdkInv, SdkTypeOK, KeyPart, SessionPart, ServerRow, DiskRow

LEMMA SdkInitSound ==
    ASSUME SdkInit
    PROVE  SdkInv
<1>1. SdkTypeOK
  <2>1. server \in [Sessions -> ServerRow]
    BY SdkAssumption DEF SdkInit, ServerRow
  <2>2. disk \in DiskRow /\ mem \in SessionState
    BY SdkConstants DEF SdkInit, DiskRow
  <2>3. call \in [Threads -> CallRow]
    BY SdkConstants DEF SdkInit
  <2>4. serverKey \in 1 .. MaxKeys /\ envelope \in 1 .. MaxKeys /\ logins \in 0 .. MaxLogins /\ restarts \in 0 .. MaxRestarts
    BY SdkAssumption DEF SdkInit
  <2>5. due \in BOOLEAN /\ keyLost \in BOOLEAN /\ mutex \in Threads \cup {Nobody} /\ fromOldDisk \in SUBSET Sessions
    BY DEF SdkInit
  <2>6. sent \in SUBSET SessionState /\ rotating \in {"idle", "sent", "answered"} /\ sentKeys \in SUBSET (1 .. MaxKeys)
    BY DEF SdkInit
  <2> QED
    BY <2>1, <2>2, <2>3, <2>4, <2>5, <2>6 DEF SdkTypeOK, ServerRow, DiskRow
<1>2. RefreshHasMutex /\ TokenIsCurrent /\ AcceptedIsNext
  BY SdkConstants DEF SdkInit, RefreshHasMutex, TokenIsCurrent, AcceptedIsNext
<1>3. SessionsExist /\ SentIsCurrent /\ ReuseOnlyFromOldDisk /\ DeviceKeyAgrees
  BY DEF SdkInit, SessionsExist, SentIsCurrent, ReuseOnlyFromOldDisk, DeviceKeyAgrees
<1> QED
  BY <1>1, <1>2, <1>3 DEF SdkInv

LEMMA KeyPartStutter ==
    ASSUME KeyPart, UNCHANGED keyState
    PROVE  KeyPart'
  BY DEF KeyPart, keyState, DeviceKeyAgrees

LEMMA SessionPartStutter ==
    ASSUME SessionPart, UNCHANGED <<server, sessionState>>
    PROVE  SessionPart'
<1>1. RefreshHasMutex' /\ TokenIsCurrent' /\ AcceptedIsNext' /\ SessionsExist' /\ SentIsCurrent' /\ ReuseOnlyFromOldDisk'
  BY DEF SessionPart, sessionState, RefreshHasMutex, TokenIsCurrent, AcceptedIsNext, SessionsExist, SentIsCurrent,
     ReuseOnlyFromOldDisk
<1> QED
  BY <1>1 DEF SessionPart, sessionState

LEMMA RotationStepsSound ==
    ASSUME SdkInv,
           \/ SendKeyRotation \/ RotateDeviceKey \/ RotateDeviceKeyLate \/ ApplyDeviceKeyRotation
           \/ KeyRotationFails
    PROVE  SdkInv'
<1>1. UNCHANGED <<server, sessionState>>
  BY DEF SendKeyRotation, RotateDeviceKey, RotateDeviceKeyLate, ApplyDeviceKeyRotation, KeyRotationFails
<1>2. KeyPart'
  <2>1. KeyPart
    BY SdkParts
  <2>2. CASE SendKeyRotation
    BY <2>1, <2>2 DEF KeyPart, SendKeyRotation, DeviceKeyAgrees
  <2>3. CASE RotateDeviceKey
    BY <2>1, <2>3, SdkAssumption DEF KeyPart, RotateDeviceKey, ServerRotatedKey, DeviceKeyAgrees
  <2>4. CASE RotateDeviceKeyLate
    BY <2>1, <2>4, SdkAssumption DEF KeyPart, RotateDeviceKeyLate, ServerRotatedKey, DeviceKeyAgrees
  <2>5. CASE ApplyDeviceKeyRotation
    BY <2>1, <2>5 DEF KeyPart, ApplyDeviceKeyRotation, RotatedEnvelope, DeviceKeyAgrees
  <2>6. CASE KeyRotationFails
    <3>1. keyLost' \in BOOLEAN /\ sentKeys' \in SUBSET (1 .. MaxKeys)
      BY <2>1, <2>6 DEF KeyPart, KeyRotationFails
    <3> QED
      BY <2>1, <2>6, <3>1 DEF KeyPart, KeyRotationFails, DeviceKeyAgrees
  <2> QED
    BY <2>2, <2>3, <2>4, <2>5, <2>6
<1> QED
  BY <1>1, <1>2, SdkParts, SessionPartStutter, SdkWhole

\* While nobody has the mutex, nobody refreshes.
LEMMA NobodyRefreshes ==
    ASSUME SessionPart, mutex = Nobody
    PROVE  \A t \in Threads : call[t].pc \notin Refreshing
  BY SdkAssumption DEF SessionPart, RefreshHasMutex, Refreshing

\* What is known of a state in which nobody refreshes.
LEMMA QuietSession ==
    ASSUME (server \in [Sessions -> ServerRow])',
           (logins \in 0 .. MaxLogins)', (restarts \in 0 .. MaxRestarts)',
           (mem \in SessionState)', (disk \in DiskRow)', (due \in BOOLEAN)',
           mutex' = Nobody, (call \in [Threads -> CallRow])',
           \A t \in Threads : call'[t].pc \notin Refreshing,
           (sent \in SUBSET SessionState)', (fromOldDisk \in SUBSET Sessions)',
           \/ mem' = NoSession
           \/ /\ mem'.s \in 1 .. logins'
              /\ \/ mem'.s \in fromOldDisk'
                 \/ mem'.n = server'[mem'.s].cur /\ \A tok \in sent' : tok.s # mem'.s,
           disk'.session = NoSession \/ disk'.session.s \in 1 .. logins',
           SentIsCurrent', ReuseOnlyFromOldDisk'
    PROVE  SessionPart'
<1>1. RefreshHasMutex' /\ TokenIsCurrent' /\ AcceptedIsNext' /\ SessionsExist'
  BY DEF RefreshHasMutex, TokenIsCurrent, AcceptedIsNext, SessionsExist, Refreshing
<1> QED
  BY <1>1 DEF SessionPart

LEMMA IssuedSessions ==
    ASSUME SessionPart
    PROVE  1 .. logins \subseteq Sessions
  BY SdkAssumption DEF SessionPart, Sessions

\* The session of the manager while nobody refreshes.
LEMMA QuietToken ==
    ASSUME SessionPart, mutex = Nobody
    PROVE  \/ mem = NoSession
           \/ /\ mem.s \in 1 .. logins /\ mem.s \in Sessions
              /\ \/ mem.s \in fromOldDisk
                 \/ mem.n = server[mem.s].cur /\ \A tok \in sent : tok.s # mem.s
  BY NobodyRefreshes, IssuedSessions DEF SessionPart, TokenIsCurrent, SessionsExist, Refreshing

LEMMA ApplyAuthResponseSound ==
    ASSUME SdkInv, ApplyAuthResponse
    PROVE  SdkInv'
<1>1. KeyPart /\ SessionPart
  BY SdkParts
<1>2. /\ mutex = Nobody /\ logins \in 0 .. MaxLogins /\ logins < MaxLogins /\ logins' = logins + 1
      /\ UNCHANGED <<keyState, disk, mutex, call, sent, restarts, fromOldDisk>> /\ due' = FALSE
  BY <1>1 DEF ApplyAuthResponse, SessionPart
<1>3. PICK s \in Sessions : s = logins + 1
  BY <1>2, SdkAssumption DEF Sessions
<1> DEFINE q == [cur |-> 1, alive |-> TRUE, reused |-> FALSE]
<1>4. q \in ServerRow /\ q.cur = 1 /\ q.reused = FALSE
  BY SdkAssumption DEF ServerRow
<1>5. server' = [server EXCEPT ![s] = q] /\ mem' = [s |-> s, n |-> 1]
  BY <1>3 DEF ApplyAuthResponse
<1> HIDE DEF q
<1>6. server' \in [Sessions -> ServerRow] /\ server'[s] = q /\ \A x \in Sessions \ {s} : server'[x] = server[x]
  BY <1>1, <1>4, <1>5 DEF SessionPart
<1>7. mem' \in SessionState /\ mem'.s = s /\ mem'.n = 1
  BY <1>3, <1>5, SdkAssumption DEF SessionState, Sessions
<1>8. ReuseOnlyFromOldDisk'
  BY <1>1, <1>2, <1>4, <1>6 DEF SessionPart, ReuseOnlyFromOldDisk
<1>9. logins' \in 0 .. MaxLogins /\ due' \in BOOLEAN
  <2>1. logins' \in 0 .. MaxLogins
    BY <1>2, SdkAssumption
  <2>2. due' \in BOOLEAN
    BY <1>2
  <2> QED
    BY <2>1, <2>2
<1>10. SessionPart'
  <2>1. \A t \in Threads : call[t].pc \notin Refreshing
    BY <1>1, <1>2, NobodyRefreshes
  <2>2. 1 .. logins \subseteq 1 .. logins' /\ 1 .. logins \subseteq Sessions \ {s} /\ s \in 1 .. logins'
    BY <1>2, <1>3, SdkAssumption DEF Sessions
  <2>3. mem'.s \in 1 .. logins' /\ mem'.n = server'[mem'.s].cur /\ \A tok \in sent' : tok.s # mem'.s
    BY <1>1, <1>2, <1>4, <1>6, <1>7, <2>2 DEF SessionPart, SentIsCurrent
  <2>4. SentIsCurrent'
    BY <1>1, <1>2, <1>6, <2>2 DEF SessionPart, SentIsCurrent
  <2>5. /\ restarts \in 0 .. MaxRestarts /\ disk \in DiskRow /\ call \in [Threads -> CallRow]
        /\ fromOldDisk \in SUBSET Sessions /\ sent \in SUBSET SessionState
        /\ disk.session = NoSession \/ disk.session.s \in 1 .. logins'
    BY <1>1, <2>2 DEF SessionPart, SessionsExist
  <2> QED
    BY <1>2, <1>6, <1>7, <1>8, <1>9, <2>1, <2>3, <2>4, <2>5, QuietSession
<1> QED
  BY <1>1, <1>2, <1>10, KeyPartStutter, SdkWhole

LEMMA TokenDueSound ==
    ASSUME SdkInv, TokenDue
    PROVE  SdkInv'
<1>1. KeyPart /\ SessionPart
  BY SdkParts
<1>2. due' = TRUE /\ UNCHANGED <<server, keyState, logins, mem, disk, mutex, call, sent, restarts, fromOldDisk>>
  BY DEF TokenDue
<1>3. /\ RefreshHasMutex' /\ TokenIsCurrent' /\ AcceptedIsNext' /\ SessionsExist' /\ SentIsCurrent'
      /\ ReuseOnlyFromOldDisk'
  BY <1>1, <1>2 DEF SessionPart, RefreshHasMutex, TokenIsCurrent, AcceptedIsNext, SessionsExist, SentIsCurrent,
     ReuseOnlyFromOldDisk
<1>4. SessionPart'
  BY <1>1, <1>2, <1>3 DEF SessionPart
<1> QED
  BY <1>1, <1>2, <1>4, KeyPartStutter, SdkWhole

LEMMA LogoutSound ==
    ASSUME SdkInv, Logout
    PROVE  SdkInv'
<1>1. KeyPart /\ SessionPart
  BY SdkParts
<1>2. /\ mutex = Nobody /\ mem # NoSession /\ server' = [server EXCEPT ![mem.s].alive = FALSE]
      /\ mem' = NoSession /\ due' = FALSE /\ disk' = [disk EXCEPT !.session = NoSession]
      /\ UNCHANGED <<keyState, logins, mutex, call, sent, restarts, fromOldDisk>>
  BY DEF Logout
<1>3. PICK s \in Sessions : s = mem.s
  BY <1>1, <1>2, QuietToken
<1>4. PICK row \in ServerRow : row = server[s]
  BY <1>1 DEF SessionPart
<1> DEFINE q == [row EXCEPT !.alive = FALSE]
<1>5. q \in ServerRow /\ q.reused = row.reused /\ q.cur = row.cur
  BY <1>4 DEF ServerRow
<1>6. server' = [server EXCEPT ![s] = q]
  BY <1>1, <1>2, <1>3, <1>4 DEF SessionPart
<1> HIDE DEF q
<1>7. server' \in [Sessions -> ServerRow] /\ server'[s] = q /\ \A x \in Sessions \ {s} : server'[x] = server[x]
  BY <1>1, <1>5, <1>6 DEF SessionPart
<1>8. ReuseOnlyFromOldDisk'
  BY <1>1, <1>2, <1>4, <1>5, <1>7 DEF SessionPart, ReuseOnlyFromOldDisk
<1>9. disk' \in DiskRow /\ disk'.session = NoSession /\ mem' \in SessionState
  BY <1>1, <1>2, SdkConstants DEF SessionPart, DiskRow
<1>10. SessionPart'
  <2>1. \A t \in Threads : call[t].pc \notin Refreshing
    BY <1>1, <1>2, NobodyRefreshes
  <2>2. /\ logins \in 0 .. MaxLogins /\ restarts \in 0 .. MaxRestarts /\ call \in [Threads -> CallRow]
        /\ sent \in SUBSET SessionState /\ fromOldDisk \in SUBSET Sessions
    BY <1>1 DEF SessionPart
  <2>3. due' \in BOOLEAN
    BY <1>2
  <2>4. SentIsCurrent'
    BY <1>1, <1>2, <1>4, <1>5, <1>7, IssuedSessions DEF SessionPart, SentIsCurrent
  <2> QED
    BY <1>2, <1>7, <1>8, <1>9, <2>1, <2>2, <2>3, <2>4, QuietSession
<1> QED
  BY <1>1, <1>2, <1>10, KeyPartStutter, SdkWhole

LEMMA SaveCacheSound ==
    ASSUME SdkInv, SaveCache
    PROVE  SdkInv'
<1>1. KeyPart /\ SessionPart
  BY SdkParts
<1>2. /\ mutex = Nobody /\ disk' = [session |-> mem, key |-> envelope]
      /\ UNCHANGED <<server, keyState, logins, mem, due, mutex, call, sent, restarts, fromOldDisk>>
  BY DEF SaveCache
<1>3. disk' \in DiskRow /\ disk'.session = mem
  BY <1>1, <1>2 DEF SessionPart, KeyPart, DiskRow
<1>4. /\ RefreshHasMutex' /\ TokenIsCurrent' /\ AcceptedIsNext' /\ SessionsExist' /\ SentIsCurrent'
      /\ ReuseOnlyFromOldDisk'
  BY <1>1, <1>2, <1>3 DEF SessionPart, RefreshHasMutex, TokenIsCurrent, AcceptedIsNext, SessionsExist, SentIsCurrent,
     ReuseOnlyFromOldDisk
<1>5. SessionPart'
  BY <1>1, <1>2, <1>3, <1>4 DEF SessionPart
<1> QED
  BY <1>1, <1>2, <1>5, KeyPartStutter, SdkWhole

\* The one thread that refreshes.
LEMMA OneRefresh ==
    ASSUME SessionPart, NEW t \in Threads, call[t].pc \in Refreshing
    PROVE  /\ mutex = t /\ call[t].tok = mem /\ mem.s \in Sessions
           /\ \A u \in Threads \ {t} : call[u].pc \notin Refreshing
  BY DEF SessionPart, RefreshHasMutex, Refreshing

\* A request that is being refreshed carries the current token of its session.
LEMMA OnTheirWayFit ==
    ASSUME SessionPart, NEW ts \in SUBSET Threads
    PROVE  /\ OnTheirWay(ts) \in SUBSET SessionState
           /\ \A tok \in OnTheirWay(ts) :
                 tok.s \in 1 .. logins /\ (tok.s \in fromOldDisk \/ tok.n = server[tok.s].cur)
<1> SUFFICES ASSUME NEW t \in ts, call[t].pc = "refreshing"
             PROVE  /\ call[t].tok \in SessionState
                    /\ call[t].tok.s \in 1 .. logins
                    /\ call[t].tok.s \in fromOldDisk \/ call[t].tok.n = server[call[t].tok.s].cur
  BY DEF OnTheirWay
<1>1. call[t].tok = mem /\ mem \in SessionState /\ mem # NoSession
  BY SdkConstants DEF SessionPart, RefreshHasMutex
<1>2. \A u \in Threads : call[u].pc \notin {"accepted", "refused"}
  BY OneRefresh DEF Refreshing
<1> QED
  BY <1>1, <1>2 DEF SessionPart, TokenIsCurrent, SessionsExist

\* The envelope is compared with the server when it is taken from the disk.
LEMMA RestartSound ==
    ASSUME SdkInv, Restart
    PROVE  SdkInv'
<1>1. KeyPart /\ SessionPart
  BY SdkParts
<1>2. /\ restarts < MaxRestarts /\ restarts' = restarts + 1
      /\ mem' = disk.session /\ due' = TRUE /\ envelope' = disk.key
      /\ mutex' = Nobody /\ call' = [t \in Threads |-> IdleCall] /\ rotating' = "idle"
      /\ sent' = sent \cup OnTheirWay(Threads)
      /\ sentKeys' = IF rotating = "sent" THEN sentKeys \cup {envelope} ELSE sentKeys
      /\ fromOldDisk' = fromOldDisk \cup
            {s \in Sessions : disk.session.s = s /\ (disk.session.n # server[s].cur \/ disk.session \in sent')}
      /\ keyLost' = (keyLost \/ disk.key # serverKey)
      /\ UNCHANGED <<server, serverKey, logins, disk>>
  BY DEF Restart
<1>3. disk \in DiskRow /\ disk.session \in SessionState /\ disk.key \in 1 .. MaxKeys
  BY <1>1 DEF SessionPart, DiskRow
<1>4. KeyPart'
  <2>1. keyLost' \in BOOLEAN /\ sentKeys' \in SUBSET (1 .. MaxKeys)
    BY <1>1, <1>2 DEF KeyPart
  <2> QED
    BY <1>1, <1>2, <1>3, <2>1 DEF KeyPart, DeviceKeyAgrees
<1>5. call' \in [Threads -> CallRow] /\ \A t \in Threads : call'[t].pc \notin Refreshing
  BY <1>2, SdkConstants DEF Refreshing
<1>6. fromOldDisk' \in SUBSET Sessions /\ fromOldDisk \subseteq fromOldDisk'
  BY <1>1, <1>2 DEF SessionPart
<1>7. ReuseOnlyFromOldDisk'
  BY <1>1, <1>2, <1>6 DEF SessionPart, ReuseOnlyFromOldDisk
<1>8. sent' \in SUBSET SessionState /\ SentIsCurrent'
  BY <1>1, <1>2, <1>6, OnTheirWayFit DEF SessionPart, SentIsCurrent
<1>9. ASSUME mem' # NoSession
      PROVE  /\ mem'.s \in 1 .. logins'
             /\ \/ mem'.s \in fromOldDisk'
                \/ mem'.n = server'[mem'.s].cur /\ \A tok \in sent' : tok.s # mem'.s
  <2>1. mem'.s \in 1 .. logins /\ mem'.s \in Sessions
    BY <1>1, <1>2, <1>9, IssuedSessions DEF SessionPart, SessionsExist
  <2>2. ASSUME mem'.s \notin fromOldDisk'
        PROVE  mem'.n = server'[mem'.s].cur /\ \A tok \in sent' : tok.s # mem'.s
    <3>1. mem'.n = server[mem'.s].cur /\ mem' \notin sent'
      BY <1>2, <2>1, <2>2
    <3>2. ASSUME NEW tok \in sent', tok.s = mem'.s
          PROVE  FALSE
      <4>1. tok \in SessionState /\ tok.n = mem'.n
        BY <1>2, <1>8, <2>2, <3>1, <3>2 DEF SentIsCurrent
      <4>2. mem' \in SessionState
        BY <1>2, <1>3
      <4>3. tok = mem'
        BY <3>2, <4>1, <4>2 DEF SessionState
      <4> QED
        BY <3>1, <4>3
    <3> QED
      BY <1>2, <3>1, <3>2
  <2> QED
    BY <1>2, <2>1, <2>2
<1>10. restarts' \in 0 .. MaxRestarts /\ logins' \in 0 .. MaxLogins
  BY <1>1, <1>2, SdkAssumption DEF SessionPart
<1>11. /\ due' \in BOOLEAN /\ server' \in [Sessions -> ServerRow]
       /\ disk'.session = NoSession \/ disk'.session.s \in 1 .. logins'
  BY <1>1, <1>2 DEF SessionPart, SessionsExist
<1>12. SessionPart'
  BY <1>2, <1>3, <1>5, <1>6, <1>7, <1>8, <1>9, <1>10, <1>11, QuietSession
<1> QED
  BY <1>4, <1>12, SdkWhole

\* A thread that builds a request and refreshes nothing, or fails: the session is
\* as it was, or gone.
LEMMA QuietCall ==
    ASSUME SdkInv, NEW t \in Threads, NEW q \in CallRow, q.pc \notin Refreshing,
           call' = [call EXCEPT ![t] = q], mutex' = Nobody,
           \A u \in Threads \ {t} : call[u].pc \notin Refreshing,
           mem' = NoSession \/ (mem' = mem /\ mutex = Nobody /\ sent' = sent),
           sent' \in SUBSET SessionState, SentIsCurrent',
           UNCHANGED <<server, keyState, logins, disk, due, restarts, fromOldDisk>>
    PROVE  SdkInv'
<1>1. KeyPart /\ SessionPart
  BY SdkParts
<1>2. call' \in [Threads -> CallRow] /\ \A u \in Threads : call'[u].pc \notin Refreshing
  BY <1>1 DEF SessionPart
<1>3. mem' \in SessionState
  BY <1>1, SdkConstants DEF SessionPart
<1>4. \/ mem' = NoSession
      \/ /\ mem'.s \in 1 .. logins'
         /\ \/ mem'.s \in fromOldDisk'
            \/ mem'.n = server'[mem'.s].cur /\ \A tok \in sent' : tok.s # mem'.s
  BY <1>1, QuietToken
<1>5. ReuseOnlyFromOldDisk'
  BY <1>1 DEF SessionPart, ReuseOnlyFromOldDisk
<1>6. /\ server \in [Sessions -> ServerRow] /\ logins \in 0 .. MaxLogins /\ restarts \in 0 .. MaxRestarts
      /\ disk \in DiskRow /\ fromOldDisk \in SUBSET Sessions
      /\ disk.session = NoSession \/ disk.session.s \in 1 .. logins
  BY <1>1 DEF SessionPart, SessionsExist
<1>7. due \in BOOLEAN
  BY <1>1 DEF SessionPart
<1>8. SessionPart'
  BY <1>2, <1>3, <1>4, <1>5, <1>6, <1>7, QuietSession
<1> QED
  BY <1>1, <1>8, KeyPartStutter, SdkWhole

LEMMA BuildRequestSound ==
    ASSUME SdkInv, NEW t \in Threads, BuildRequest(t)
    PROVE  SdkInv'
<1>1. KeyPart /\ SessionPart
  BY SdkParts
<1>2. mutex = Nobody /\ UNCHANGED <<server, keyState, logins, disk, due, sent, restarts, fromOldDisk>>
  BY DEF BuildRequest
<1>3. /\ (\A u \in Threads : call[u].pc \notin Refreshing) /\ mem \in SessionState
      /\ sent' \in SUBSET SessionState /\ SentIsCurrent'
  BY <1>1, <1>2, NobodyRefreshes DEF SessionPart, SentIsCurrent
<1> DEFINE failed == [pc |-> "failed", tok |-> NoSession]
           built == [pc |-> "built", tok |-> mem]
           begun == [pc |-> "refreshing", tok |-> mem]
<1>4. /\ failed \in CallRow /\ failed.pc \notin Refreshing /\ built \in CallRow /\ built.pc \notin Refreshing
      /\ begun \in CallRow /\ begun.pc = "refreshing" /\ begun.tok = mem
  BY <1>3, SdkConstants DEF CallRow, Refreshing
<1>5. \/ call' = [call EXCEPT ![t] = failed] /\ UNCHANGED <<mem, mutex>>
      \/ call' = [call EXCEPT ![t] = built] /\ UNCHANGED <<mem, mutex>>
      \/ call' = [call EXCEPT ![t] = failed] /\ mem' = NoSession /\ UNCHANGED mutex
      \/ call' = [call EXCEPT ![t] = begun] /\ mem # NoSession /\ mutex' = t /\ UNCHANGED mem
  BY DEF BuildRequest, Built, RefreshMutex
<1> HIDE DEF failed, built, begun
<1>6. CASE call' = [call EXCEPT ![t] = begun] /\ mem # NoSession /\ mutex' = t /\ UNCHANGED mem
  <2>1. call' \in [Threads -> CallRow] /\ call'[t] = begun /\ \A u \in Threads \ {t} : call'[u] = call[u]
    BY <1>1, <1>4, <1>6 DEF SessionPart
  <2>2. /\ mem.s \in Sessions
        /\ mem.s \in fromOldDisk \/ (mem.n = server[mem.s].cur /\ \A tok \in sent : tok.s # mem.s)
    BY <1>1, <1>2, <1>6, QuietToken
  <2>3. RefreshHasMutex' /\ AcceptedIsNext'
    BY <1>3, <1>4, <1>6, <2>1, <2>2 DEF RefreshHasMutex, AcceptedIsNext, Refreshing
  <2>4. TokenIsCurrent' /\ SessionsExist' /\ ReuseOnlyFromOldDisk'
    BY <1>1, <1>2, <1>6, <2>2 DEF SessionPart, TokenIsCurrent, SessionsExist, ReuseOnlyFromOldDisk
  <2>5. SessionPart'
    BY <1>1, <1>2, <1>3, <1>6, <2>1, <2>3, <2>4 DEF SessionPart
  <2> QED
    BY <1>1, <1>2, <2>5, KeyPartStutter, SdkWhole
<1>7. CASE call' = [call EXCEPT ![t] = failed] /\ (mem' = mem \/ mem' = NoSession) /\ UNCHANGED mutex
  BY <1>2, <1>3, <1>4, <1>7, QuietCall
<1>8. CASE call' = [call EXCEPT ![t] = built] /\ UNCHANGED <<mem, mutex>>
  BY <1>2, <1>3, <1>4, <1>8, QuietCall
<1> QED
  BY <1>5, <1>6, <1>7, <1>8

LEMMA RefreshFailsSound ==
    ASSUME SdkInv, NEW t \in Threads, RefreshFails(t)
    PROVE  SdkInv'
<1>1. /\ call[t].pc \in Refreshing /\ mem' = NoSession /\ mutex' = Nobody
      /\ UNCHANGED <<server, keyState, logins, disk, due, restarts, fromOldDisk>>
  BY DEF RefreshFails, AfterFailedRefresh, Refreshing
<1> DEFINE q == [pc |-> "failed", tok |-> NoSession]
<1>2. q \in CallRow /\ q.pc \notin Refreshing
  BY SdkConstants DEF CallRow, Refreshing
<1>3. call' = [call EXCEPT ![t] = q]
  BY DEF RefreshFails
<1>4. \A u \in Threads \ {t} : call[u].pc \notin Refreshing
  BY <1>1, SdkParts, OneRefresh
<1>5. sent' = sent \cup OnTheirWay({t})
  BY DEF RefreshFails
<1>6. sent' \in SUBSET SessionState /\ SentIsCurrent'
  BY <1>1, <1>5, SdkParts, OnTheirWayFit DEF SessionPart, SentIsCurrent
<1> HIDE DEF q
<1> QED
  BY <1>1, <1>2, <1>3, <1>4, <1>6, QuietCall

\* What an exchange does with the row of its session.
LEMMA ExchangedFits ==
    ASSUME SessionPart, NEW tok \in SessionState, tok.s \in Sessions, server[tok.s].cur < MaxRefreshes
    PROVE  /\ Exchanged(tok) \in ServerRow
           /\ Exchanged(tok).cur \in Nat /\ Exchanged(tok).cur >= server[tok.s].cur
           /\ server[tok.s].alive /\ server[tok.s].cur = tok.n => Exchanged(tok).cur = tok.n + 1
           /\ Exchanged(tok).reused => server[tok.s].reused \/ server[tok.s].cur > tok.n
<1>1. PICK row \in ServerRow : row = server[tok.s]
  BY DEF SessionPart
<1>2. row.cur \in Nat /\ row.cur < MaxRefreshes /\ tok.n \in Nat
  BY <1>1 DEF ServerRow, SessionState
<1>3. CASE row.alive /\ row.cur = tok.n
  <2>1. Exchanged(tok) = [row EXCEPT !.cur = row.cur + 1]
    BY <1>1, <1>2, <1>3 DEF Exchanged
  <2>2. row.cur + 1 \in 0 .. MaxRefreshes /\ row.cur + 1 \in Nat /\ row.cur + 1 >= row.cur
    BY <1>2, SdkAssumption
  <2> QED
    BY <1>1, <1>3, <2>1, <2>2 DEF ServerRow
<1>4. CASE ~(row.alive /\ row.cur = tok.n) /\ row.cur > tok.n
  <2> DEFINE q == [row EXCEPT !.alive = FALSE, !.reused = TRUE]
  <2>1. Exchanged(tok) = q
    BY <1>1, <1>4 DEF Exchanged
  <2>2. q \in ServerRow /\ q.cur = row.cur
    BY <1>1 DEF ServerRow
  <2> HIDE DEF q
  <2> QED
    BY <1>1, <1>2, <1>4, <2>1, <2>2
<1>5. CASE ~(row.alive /\ row.cur = tok.n) /\ ~(row.cur > tok.n)
  <2>1. Exchanged(tok) = row
    BY <1>1, <1>5 DEF Exchanged
  <2> QED
    BY <1>1, <1>2, <1>5, <2>1
<1> QED
  BY <1>3, <1>4, <1>5

\* The token is exchanged when it is the current one; it comes again only if it
\* was taken from an old envelope.
LEMMA ServerRefreshSound ==
    ASSUME SdkInv, NEW t \in Threads, ServerRefresh(t)
    PROVE  SdkInv'
<1>1. KeyPart /\ SessionPart
  BY SdkParts
<1>2. /\ call[t].pc = "refreshing"
      /\ UNCHANGED <<keyState, logins, mem, disk, due, mutex, sent, restarts, fromOldDisk>>
  BY DEF ServerRefresh
<1>3. mutex = t /\ call[t].tok = mem /\ mem.s \in Sessions /\ \A u \in Threads \ {t} : call[u].pc \notin Refreshing
  BY <1>1, <1>2, OneRefresh DEF Refreshing
<1>4. PICK s \in Sessions : s = mem.s
  BY <1>3
<1>5. mem \in SessionState /\ server[mem.s].cur < MaxRefreshes
  BY <1>1, <1>3 DEF SessionPart, ServerRefresh
<1>6. PICK c \in CallRow : c = call[t]
  BY <1>1 DEF SessionPart
<1>7. PICK q \in ServerRow :
         /\ q = Exchanged(mem)
         /\ server[s].alive /\ server[s].cur = mem.n => q.cur = mem.n + 1
         /\ q.reused => server[s].reused \/ server[s].cur > mem.n
  BY <1>1, <1>4, <1>5, ExchangedFits
<1>8. PICK answer \in {"accepted", "refused"} :
         /\ call' = [call EXCEPT ![t].pc = answer]
         /\ answer = "accepted" => server[s].alive /\ server[s].cur = mem.n
  BY <1>3, <1>4 DEF ServerRefresh
<1> DEFINE d == [c EXCEPT !.pc = answer]
<1>9. d \in CallRow /\ d.pc = answer /\ d.tok = mem
  BY <1>3, <1>6 DEF CallRow
<1>10. call' = [call EXCEPT ![t] = d]
  BY <1>1, <1>6, <1>8 DEF SessionPart
<1> HIDE DEF d
<1>11. call' \in [Threads -> CallRow] /\ call'[t] = d /\ \A u \in Threads \ {t} : call'[u] = call[u]
  BY <1>1, <1>9, <1>10 DEF SessionPart
<1>12. server' = [server EXCEPT ![s] = q]
  BY <1>3, <1>4, <1>7 DEF ServerRefresh
<1>13. server' \in [Sessions -> ServerRow] /\ server'[s] = q /\ \A x \in Sessions \ {s} : server'[x] = server[x]
  BY <1>1, <1>12 DEF SessionPart
<1>14. s \in fromOldDisk \/ (mem.n = server[s].cur /\ \A tok \in sent : tok.s # s)
  <2>1. mem # NoSession
    BY <1>3, SdkConstants
  <2>2. \A u \in Threads : call[u].pc \notin {"accepted", "refused"}
    BY <1>2, <1>3 DEF Refreshing
  <2> QED
    BY <1>1, <1>4, <2>1, <2>2 DEF SessionPart, TokenIsCurrent
<1>15. RefreshHasMutex'
  BY <1>2, <1>3, <1>9, <1>11 DEF RefreshHasMutex, Refreshing
<1>16. AcceptedIsNext'
  <2> SUFFICES ASSUME NEW u \in Threads, call'[u].pc = "accepted"
               PROVE  /\ call'[u].tok.n < server'[call'[u].tok.s].cur
                      /\ server'[call'[u].tok.s].cur = call'[u].tok.n + 1
    BY DEF AcceptedIsNext
  <2>1. u = t
    BY <1>3, <1>11 DEF Refreshing
  <2>2. q.cur = mem.n + 1 /\ mem.n \in Nat
    BY <1>5, <1>7, <1>8, <1>9, <1>11, <2>1 DEF SessionState
  <2> QED
    BY <1>4, <1>9, <1>11, <1>13, <2>1, <2>2
<1>17. TokenIsCurrent'
  BY <1>2, <1>4, <1>8, <1>9, <1>11, <1>14 DEF TokenIsCurrent
<1>18. ReuseOnlyFromOldDisk'
  <2>1. q.reused => s \in fromOldDisk
    <3>1. mem.n \in Nat
      BY <1>5 DEF SessionState
    <3> QED
      BY <1>1, <1>7, <1>14, <3>1 DEF SessionPart, ReuseOnlyFromOldDisk
  <2> QED
    BY <1>1, <1>2, <1>13, <2>1 DEF SessionPart, ReuseOnlyFromOldDisk
<1>19. SessionsExist' /\ SentIsCurrent'
  BY <1>1, <1>2, <1>13, <1>14, IssuedSessions DEF SessionPart, SessionsExist, SentIsCurrent
<1>20. SessionPart'
  BY <1>1, <1>2, <1>11, <1>13, <1>15, <1>16, <1>17, <1>18, <1>19 DEF SessionPart
<1> QED
  BY <1>1, <1>2, <1>20, KeyPartStutter, SdkWhole

\* A request that arrives late spends the token its session still has, and no
\* other request of that session is on its way.
LEMMA ServerRefreshLateSound ==
    ASSUME SdkInv, NEW tok \in sent, ServerRefreshLate(tok)
    PROVE  SdkInv'
<1>1. KeyPart /\ SessionPart
  BY SdkParts
<1>2. /\ sent' = sent \ {tok} /\ server[tok.s].cur < MaxRefreshes
      /\ UNCHANGED <<keyState, logins, mem, disk, due, mutex, call, restarts, fromOldDisk>>
  BY DEF ServerRefreshLate
<1>3. tok \in SessionState /\ (tok.s \in fromOldDisk \/ tok.n = server[tok.s].cur)
  BY <1>1 DEF SessionPart, SentIsCurrent
<1>4. PICK s \in Sessions : s = tok.s
  BY <1>1, IssuedSessions DEF SessionPart, SentIsCurrent
<1>5. PICK q \in ServerRow :
         /\ q = Exchanged(tok) /\ q.cur \in Nat /\ q.cur >= server[s].cur
         /\ q.reused => server[s].reused \/ server[s].cur > tok.n
  BY <1>1, <1>2, <1>3, <1>4, ExchangedFits
<1>6. server' = [server EXCEPT ![s] = q]
  BY <1>4, <1>5 DEF ServerRefreshLate
<1>7. server' \in [Sessions -> ServerRow] /\ server'[s] = q /\ \A x \in Sessions \ {s} : server'[x] = server[x]
  BY <1>1, <1>6 DEF SessionPart
<1>8. \A x \in Sessions : server'[x].cur \in Nat /\ server[x].cur \in Nat /\ server'[x].cur >= server[x].cur
  <2>1. \A x \in Sessions : server[x].cur \in Nat
    BY <1>1 DEF SessionPart, ServerRow
  <2> QED
    BY <1>5, <1>7, <2>1
<1>9. RefreshHasMutex' /\ SessionsExist'
  BY <1>1, <1>2 DEF SessionPart, RefreshHasMutex, SessionsExist
<1>10. mem = NoSession \/ mem.s # s \/ s \in fromOldDisk \/ \E t \in Threads : call[t].pc \in {"accepted", "refused"}
  BY <1>1, <1>4 DEF SessionPart, TokenIsCurrent
<1>11. TokenIsCurrent'
  <2>1. CASE mem = NoSession \/ mem.s \in fromOldDisk
    BY <1>2, <2>1 DEF TokenIsCurrent
  <2>2. CASE mem # NoSession /\ mem.s \notin fromOldDisk
    <3>1. /\ \A x \in sent : x.s # mem.s
          /\ mem.n = server[mem.s].cur \/ \E t \in Threads : call[t].pc \in {"accepted", "refused"}
      BY <1>1, <2>2 DEF SessionPart, TokenIsCurrent
    <3>2. mem.s # s /\ mem.s \in Sessions
      BY <1>1, <1>4, <2>2, <3>1, IssuedSessions DEF SessionPart, SessionsExist
    <3> QED
      BY <1>2, <1>7, <3>1, <3>2 DEF TokenIsCurrent
  <2> QED
    BY <2>1, <2>2
<1>12. AcceptedIsNext'
  <2> SUFFICES ASSUME NEW t \in Threads, call[t].pc = "accepted"
               PROVE  /\ mem.n < server'[mem.s].cur
                      /\ mem.s \in fromOldDisk \/ server'[mem.s].cur = mem.n + 1
    BY <1>1, <1>2 DEF AcceptedIsNext, SessionPart, RefreshHasMutex
  <2>1. /\ call[t].tok = mem /\ mem.s \in Sessions /\ mem \in SessionState /\ mem # NoSession
    BY <1>1, SdkConstants DEF SessionPart, RefreshHasMutex
  <2>2. /\ mem.n < server[mem.s].cur /\ mem.n \in Nat
        /\ mem.s \in fromOldDisk \/ server[mem.s].cur = mem.n + 1
    BY <1>1, <2>1 DEF SessionPart, AcceptedIsNext, SessionState
  <2>3. mem.s \notin fromOldDisk => mem.s # s
    BY <1>1, <1>4, <2>1 DEF SessionPart, TokenIsCurrent
  <2>4. mem.n < server'[mem.s].cur
    BY <1>8, <2>1, <2>2
  <2> QED
    BY <1>7, <2>1, <2>2, <2>3, <2>4
<1>13. SentIsCurrent'
  <2> SUFFICES ASSUME NEW x \in sent \ {tok}
               PROVE  x.s \in 1 .. logins /\ (x.s \in fromOldDisk \/ x.n = server'[x.s].cur)
    BY <1>2 DEF SentIsCurrent
  <2>1. x \in SessionState /\ x.s \in 1 .. logins /\ (x.s \in fromOldDisk \/ x.n = server[x.s].cur)
    BY <1>1 DEF SessionPart, SentIsCurrent
  <2>2. x.s = s /\ x.s \notin fromOldDisk => x = tok
    BY <1>3, <1>4, <2>1 DEF SessionState
  <2> QED
    BY <1>1, <1>7, <2>1, <2>2, IssuedSessions
<1>14. ReuseOnlyFromOldDisk'
  <2>1. q.reused => s \in fromOldDisk
    <3>1. tok.n \in Nat
      BY <1>3 DEF SessionState
    <3> QED
      BY <1>1, <1>3, <1>4, <1>5, <3>1 DEF SessionPart, ReuseOnlyFromOldDisk
  <2> QED
    BY <1>1, <1>2, <1>7, <2>1 DEF SessionPart, ReuseOnlyFromOldDisk
<1>15. SessionPart'
  <2>1. sent' \in SUBSET SessionState
    BY <1>1, <1>2 DEF SessionPart
  <2> QED
    BY <1>1, <1>2, <1>7, <1>9, <1>11, <1>12, <1>13, <1>14, <2>1 DEF SessionPart
<1> QED
  BY <1>1, <1>2, <1>15, KeyPartStutter, SdkWhole

LEMMA ApplyRefreshSound ==
    ASSUME SdkInv, NEW t \in Threads, ApplyRefresh(t)
    PROVE  SdkInv'
<1>1. KeyPart /\ SessionPart
  BY SdkParts
<1>2. /\ call[t].pc = "accepted" /\ due' = FALSE /\ mutex' = Nobody
      /\ UNCHANGED <<server, keyState, logins, disk, sent, restarts, fromOldDisk>>
  BY DEF ApplyRefresh
<1>3. call[t].tok = mem /\ mem.s \in Sessions /\ \A u \in Threads \ {t} : call[u].pc \notin Refreshing
  BY <1>1, <1>2, OneRefresh DEF Refreshing
<1>4. /\ mem.n < server[mem.s].cur /\ server[mem.s] \in ServerRow /\ mem \in SessionState
      /\ mem.s \in fromOldDisk \/ server[mem.s].cur = mem.n + 1
  BY <1>1, <1>2, <1>3 DEF SessionPart, AcceptedIsNext
<1>5. mem' = [mem EXCEPT !.n = mem.n + 1]
  BY <1>3 DEF ApplyRefresh
<1>6. mem' \in SessionState /\ mem'.s = mem.s /\ mem'.n = mem.n + 1
  <2>1. mem.n + 1 \in 0 .. MaxRefreshes
    BY <1>4, SdkAssumption DEF SessionState, ServerRow
  <2> QED
    BY <1>4, <1>5, <2>1 DEF SessionState
<1> DEFINE q == [pc |-> "built", tok |-> mem']
<1>7. q \in CallRow /\ q.pc \notin Refreshing
  BY <1>6 DEF CallRow, Refreshing
<1>8. call' = [call EXCEPT ![t] = q]
  BY DEF ApplyRefresh, Built
<1> HIDE DEF q
<1>9. call' \in [Threads -> CallRow] /\ \A u \in Threads : call'[u].pc \notin Refreshing
  BY <1>1, <1>3, <1>7, <1>8 DEF SessionPart
<1>10. ReuseOnlyFromOldDisk'
  BY <1>1, <1>2 DEF SessionPart, ReuseOnlyFromOldDisk
<1>11. /\ server \in [Sessions -> ServerRow] /\ logins \in 0 .. MaxLogins /\ restarts \in 0 .. MaxRestarts
       /\ disk \in DiskRow /\ sent \in SUBSET SessionState /\ fromOldDisk \in SUBSET Sessions
       /\ disk.session = NoSession \/ disk.session.s \in 1 .. logins
       /\ SentIsCurrent'
  BY <1>1, <1>2 DEF SessionPart, SessionsExist, SentIsCurrent
<1>12. due' \in BOOLEAN
  BY <1>2
<1>13. /\ mem'.s \in 1 .. logins'
       /\ \/ mem'.s \in fromOldDisk'
          \/ mem'.n = server'[mem'.s].cur /\ \A tok \in sent' : tok.s # mem'.s
  <2>1. mem # NoSession
    BY <1>3, SdkConstants
  <2>2. mem.s \in 1 .. logins /\ (mem.s \in fromOldDisk \/ \A tok \in sent : tok.s # mem.s)
    BY <1>1, <2>1 DEF SessionPart, SessionsExist, TokenIsCurrent
  <2> QED
    BY <1>2, <1>4, <1>6, <2>2
<1>14. SessionPart'
  BY <1>2, <1>6, <1>9, <1>10, <1>11, <1>12, <1>13, QuietSession
<1> QED
  BY <1>1, <1>2, <1>14, KeyPartStutter, SdkWhole

LEMMA SdkStep ==
    ASSUME SdkInv, SdkNext
    PROVE  SdkInv'
<1>1. CASE ApplyAuthResponse \/ TokenDue \/ Logout \/ SaveCache \/ Restart
  BY <1>1, ApplyAuthResponseSound, TokenDueSound, LogoutSound, SaveCacheSound, RestartSound
<1>2. CASE \/ SendKeyRotation \/ RotateDeviceKey \/ RotateDeviceKeyLate \/ ApplyDeviceKeyRotation
           \/ KeyRotationFails
  BY <1>2, RotationStepsSound
<1>3. CASE \E t \in Threads : BuildRequest(t) \/ ServerRefresh(t) \/ ApplyRefresh(t) \/ RefreshFails(t)
  BY <1>3, BuildRequestSound, ServerRefreshSound, ApplyRefreshSound, RefreshFailsSound
<1>4. CASE \E tok \in sent : ServerRefreshLate(tok)
  BY <1>4, ServerRefreshLateSound
<1> QED
  BY <1>1, <1>2, <1>3, <1>4 DEF SdkNext

LEMMA SdkStutter ==
    ASSUME SdkInv, UNCHANGED sdkVars
    PROVE  SdkInv'
<1>1. UNCHANGED keyState /\ UNCHANGED <<server, sessionState>>
  BY DEF sdkVars, keyState, sessionState
<1> QED
  BY <1>1, SdkParts, KeyPartStutter, SessionPartStutter, SdkWhole

-----------------------------------------------------------------------------
(* Downloads of the SDK. *)

Stages == {"idle", "streaming", "streamed", "verified", "failed", "done"}

LEMMA NoFileIs == NoFile \in File /\ NoFile.there = FALSE
  BY DEF NoFile, File

LEMMA DownloadsInitSound ==
    ASSUME DownloadsInit
    PROVE  DownloadsInv
<1>1. DownloadsTypeOK
  <2>1. overlapped \in BOOLEAN
    BY DEF DownloadsInit
  <2>2. handle \in [Downloads -> {None, "temp", "target"}] /\ downloadStops \in 0 .. MaxDownloadStops
    BY DownloadsAssumption DEF DownloadsInit
  <2> QED
    BY <2>1, <2>2, NoFileIs DEF DownloadsInit, DownloadsTypeOK
<1>2. WritersStream /\ Alone
  BY DEF DownloadsInit, WritersStream, Alone, Running, None
<1>3. TargetIsVerified
  BY NoFileIs DEF DownloadsInit, TargetIsVerified
<1> QED
  BY <1>1, <1>2, <1>3 DEF DownloadsInv

\* The types, one by one.
LEMMA DownloadTypes ==
    ASSUME DownloadsInv
    PROVE  /\ temp \in File /\ target \in File /\ handle \in [Downloads -> {None, "temp", "target"}]
           /\ stage \in [Downloads -> Stages] /\ overlapped \in BOOLEAN /\ downloadStops \in 0 .. MaxDownloadStops
  BY DEF DownloadsInv, DownloadsTypeOK, Stages

LEMMA DownloadTypesKept ==
    ASSUME (temp \in File)', (target \in File)', (handle \in [Downloads -> {None, "temp", "target"}])',
           (stage \in [Downloads -> Stages])', (overlapped \in BOOLEAN)', (downloadStops \in 0 .. MaxDownloadStops)'
    PROVE  DownloadsTypeOK'
  BY DEF DownloadsTypeOK, Stages

LEMMA StartDownloadSound ==
    ASSUME DownloadsInv, NEW d \in Downloads, StartDownload(d)
    PROVE  DownloadsInv'
<1>1. /\ stage[d] = "idle" /\ d \notin Old \cap Compared /\ temp' = [there |-> TRUE, bytes |-> {}]
      /\ handle' = [handle EXCEPT ![d] = "temp"] /\ stage' = [stage EXCEPT ![d] = "streaming"]
      /\ UNCHANGED <<target, downloadStops>>
  BY DEF StartDownload, NotDowngrade
<1>2. overlapped' = (overlapped \/ \E e \in Downloads \ {d} : Running(e))
  BY DEF StartDownload
<1>3. temp' \in File
  BY <1>1 DEF File
<1>4. /\ handle' \in [Downloads -> {None, "temp", "target"}] /\ stage' \in [Downloads -> Stages]
      /\ handle'[d] = "temp" /\ stage'[d] = "streaming"
      /\ \A e \in Downloads \ {d} : handle'[e] = handle[e] /\ stage'[e] = stage[e]
  BY <1>1, DownloadTypes DEF Stages
<1>5. overlapped' \in BOOLEAN
  BY <1>2
<1>6. DownloadsTypeOK'
  BY <1>1, <1>3, <1>4, <1>5, DownloadTypes, DownloadTypesKept
<1>7. WritersStream'
  BY <1>1, <1>4 DEF DownloadsInv, WritersStream, Running
<1>8. Alone'
  <2> SUFFICES ASSUME ~overlapped'
               PROVE  /\ \A e, f \in Downloads : Running(e)' /\ Running(f)' => e = f
                      /\ \A e \in Downloads : handle'[e] # "target"
                      /\ \A e \in Downloads : stage'[e] = "verified" => MatchesSignature(e)'
    BY DEF Alone
  <2>1. ~overlapped /\ \A e \in Downloads \ {d} : ~Running(e)
    BY <1>2
  <2>2. \A e \in Downloads \ {d} : ~Running(e)' /\ stage'[e] # "verified"
    BY <1>4, <2>1 DEF Running
  <2>3. \A e \in Downloads : handle'[e] # "target"
    BY <1>4, <2>1 DEF DownloadsInv, Alone
  <2> QED
    BY <1>4, <2>2, <2>3
<1>9. TargetIsVerified'
  BY <1>1, <1>2 DEF DownloadsInv, TargetIsVerified
<1> QED
  BY <1>6, <1>7, <1>8, <1>9 DEF DownloadsInv

LEMMA StreamToFileSound ==
    ASSUME DownloadsInv, NEW d \in Downloads, StreamToFile(d)
    PROVE  DownloadsInv'
<1>1. /\ stage[d] = "streaming" /\ handle' = [handle EXCEPT ![d] = None]
      /\ stage' = [stage EXCEPT ![d] = "streamed"] /\ UNCHANGED <<overlapped, downloadStops>>
  BY DEF StreamToFile
<1>2. temp' \in File /\ target' \in File
  <2>1. temp \in File /\ target \in File
    BY DownloadTypes
  <2>2. \A f \in File : [f EXCEPT !.bytes = f.bytes \cup {d}] \in File
    BY DEF File
  <2>3. temp' = temp \/ temp' = [temp EXCEPT !.bytes = temp.bytes \cup {d}]
    BY DEF StreamToFile
  <2>4. target' = target \/ target' = [target EXCEPT !.bytes = target.bytes \cup {d}]
    BY DEF StreamToFile
  <2> QED
    BY <2>1, <2>2, <2>3, <2>4
<1>3. /\ handle' \in [Downloads -> {None, "temp", "target"}] /\ stage' \in [Downloads -> Stages]
      /\ handle'[d] = None /\ stage'[d] = "streamed"
      /\ \A e \in Downloads \ {d} : handle'[e] = handle[e] /\ stage'[e] = stage[e]
  BY <1>1, DownloadTypes DEF Stages
<1>4. DownloadsTypeOK'
  BY <1>1, <1>2, <1>3, DownloadTypes, DownloadTypesKept
<1>5. \A e \in Downloads : Running(e)' => Running(e)
  BY <1>1, <1>3 DEF Running
<1>6. WritersStream'
  BY <1>1, <1>3, <1>5 DEF DownloadsInv, WritersStream
<1>7. ASSUME ~overlapped
      PROVE  (\A e \in Downloads \ {d} : stage[e] # "verified") /\ target' = target
  <2>1. \A e \in Downloads \ {d} : stage[e] # "verified"
    BY <1>1, <1>7 DEF DownloadsInv, Alone, Running
  <2>2. handle[d] # "target"
    BY <1>7 DEF DownloadsInv, Alone
  <2> QED
    BY <2>1, <2>2 DEF StreamToFile
<1>8. Alone'
  BY <1>1, <1>3, <1>5, <1>7 DEF DownloadsInv, Alone, None
<1>9. TargetIsVerified'
  BY <1>1, <1>7 DEF DownloadsInv, TargetIsVerified
<1> QED
  BY <1>4, <1>6, <1>8, <1>9 DEF DownloadsInv

LEMMA VerifyDownloadSound ==
    ASSUME DownloadsInv, NEW d \in Downloads, VerifyDownload(d)
    PROVE  DownloadsInv'
<1>1. /\ stage[d] = "streamed" /\ MatchesSignature(d) /\ stage' = [stage EXCEPT ![d] = "verified"]
      /\ UNCHANGED <<temp, target, handle, overlapped, downloadStops>>
  BY DEF VerifyDownload
<1>2. /\ stage' \in [Downloads -> Stages] /\ stage'[d] = "verified"
      /\ \A e \in Downloads \ {d} : stage'[e] = stage[e]
  BY <1>1, DownloadTypes DEF Stages
<1>3. DownloadsTypeOK'
  BY <1>1, <1>2, DownloadTypes, DownloadTypesKept
<1>4. \A e \in Downloads : Running(e)' <=> Running(e)
  BY <1>1, <1>2 DEF Running
<1>5. WritersStream'
  <2>1. handle[d] = None
    BY <1>1 DEF DownloadsInv, WritersStream
  <2> QED
    BY <1>1, <1>2, <1>4, <2>1 DEF DownloadsInv, WritersStream
<1>6. \A e \in Downloads : MatchesSignature(e)' <=> MatchesSignature(e)
  BY <1>1 DEF MatchesSignature
<1>7. Alone'
  BY <1>1, <1>2, <1>4, <1>6 DEF DownloadsInv, Alone
<1>8. TargetIsVerified'
  BY <1>1 DEF DownloadsInv, TargetIsVerified
<1> QED
  BY <1>3, <1>5, <1>7, <1>8 DEF DownloadsInv

LEMMA RenameDownloadSound ==
    ASSUME DownloadsInv, NEW d \in Downloads, RenameDownload(d)
    PROVE  DownloadsInv'
<1>1. /\ stage[d] = "verified" /\ target' = temp /\ temp' = NoFile
      /\ handle' = [e \in Downloads |-> IF handle[e] = "temp" THEN "target"
                                        ELSE IF handle[e] = "target" THEN None ELSE handle[e]]
      /\ stage' = [stage EXCEPT ![d] = "done"] /\ UNCHANGED <<overlapped, downloadStops>>
  BY DEF RenameDownload
<1>2. /\ handle' \in [Downloads -> {None, "temp", "target"}] /\ stage' \in [Downloads -> Stages]
      /\ stage'[d] = "done" /\ \A e \in Downloads \ {d} : stage'[e] = stage[e]
  BY <1>1, DownloadTypes DEF Stages
<1>3. \A e \in Downloads : handle'[e] # None => handle[e] # None
  BY <1>1, DownloadTypes DEF None
<1>4. DownloadsTypeOK'
  BY <1>1, <1>2, NoFileIs, DownloadTypes, DownloadTypesKept
<1>5. \A e \in Downloads : Running(e)' => Running(e) /\ e # d
  BY <1>2 DEF Running
<1>6. WritersStream'
  BY <1>1, <1>2, <1>3, <1>5 DEF DownloadsInv, WritersStream
<1>7. ASSUME ~overlapped
      PROVE  /\ \A e \in Downloads : handle[e] = None
             /\ \A e \in Downloads : ~Running(e)'
  <2>1. \A e \in Downloads : Running(e) => e = d
    BY <1>1, <1>7 DEF DownloadsInv, Alone, Running
  <2>2. \A e \in Downloads : handle[e] # None => Running(e) /\ stage[e] = "streaming"
    BY DEF DownloadsInv, WritersStream, Running
  <2> QED
    BY <1>1, <1>5, <2>1, <2>2
<1>8. Alone'
  <2>1. ~overlapped => \A e \in Downloads : handle'[e] # "target"
    BY <1>3, <1>7 DEF None
  <2>2. ~overlapped => \A e \in Downloads : stage'[e] # "verified"
    BY <1>7 DEF Running
  <2> QED
    BY <1>1, <1>7, <2>1, <2>2 DEF Alone
<1>9. TargetIsVerified'
  <2> SUFFICES ASSUME ~overlapped
               PROVE  \E e \in Downloads \ (Corrupt \cup (Old \cap Compared)) : target'.bytes = {e}
    BY <1>1 DEF TargetIsVerified
  <2>1. MatchesSignature(d) /\ d \notin Old \cap Compared
    BY <1>1 DEF DownloadsInv, Alone, WritersStream, Running
  <2> QED
    BY <1>1, <2>1 DEF MatchesSignature
<1> QED
  BY <1>4, <1>6, <1>8, <1>9 DEF DownloadsInv

LEMMA FailDownloadSound ==
    ASSUME DownloadsInv, NEW d \in Downloads, FailDownload(d)
    PROVE  DownloadsInv'
<1>1. /\ stage[d] \in {"streaming", "streamed", "verified"} /\ temp' = NoFile
      /\ handle' = [MoveHandles("temp", None) EXCEPT ![d] = None]
      /\ stage' = [stage EXCEPT ![d] = "failed"] /\ UNCHANGED <<target, overlapped, downloadStops>>
  BY DEF FailDownload
<1>2. MoveHandles("temp", None) \in [Downloads -> {None, "temp", "target"}]
  BY DownloadTypes DEF MoveHandles
<1>3. \A e \in Downloads : MoveHandles("temp", None)[e] \in {None, handle[e]}
  BY DownloadTypes DEF MoveHandles
<1>4. /\ handle' \in [Downloads -> {None, "temp", "target"}] /\ handle'[d] = None
      /\ \A e \in Downloads : handle'[e] \in {None, handle[e]}
  BY <1>1, <1>2, <1>3
<1>5. stage' \in [Downloads -> Stages] /\ stage'[d] = "failed" /\ \A e \in Downloads \ {d} : stage'[e] = stage[e]
  BY <1>1, DownloadTypes DEF Stages
<1>6. DownloadsTypeOK'
  BY <1>1, <1>4, <1>5, NoFileIs, DownloadTypes, DownloadTypesKept
<1>7. \A e \in Downloads : Running(e)' => Running(e) /\ e # d
  BY <1>5 DEF Running
<1>8. WritersStream'
  BY <1>4, <1>5, <1>7 DEF DownloadsInv, WritersStream
<1>9. Alone'
  <2>1. ~overlapped => \A e \in Downloads : handle'[e] # "target"
    BY <1>4 DEF DownloadsInv, Alone, None
  <2>2. ~overlapped => \A e \in Downloads : ~Running(e)'
    BY <1>1, <1>7 DEF DownloadsInv, Alone, Running
  <2>3. ~overlapped => \A e \in Downloads : stage'[e] # "verified"
    BY <2>2 DEF Running
  <2> QED
    BY <1>1, <2>1, <2>2, <2>3 DEF Alone
<1>10. TargetIsVerified'
  BY <1>1 DEF DownloadsInv, TargetIsVerified
<1> QED
  BY <1>6, <1>8, <1>9, <1>10 DEF DownloadsInv

LEMMA StopDownloadsSound ==
    ASSUME DownloadsInv, StopDownloads
    PROVE  DownloadsInv'
<1>1. /\ downloadStops < MaxDownloadStops /\ downloadStops' = downloadStops + 1
      /\ handle' = [d \in Downloads |-> None]
      /\ stage' = [d \in Downloads |-> IF Running(d) THEN "idle" ELSE stage[d]]
      /\ UNCHANGED <<temp, target, overlapped>>
  BY DEF StopDownloads
<1>2. downloadStops' \in 0 .. MaxDownloadStops
  BY <1>1, DownloadTypes, DownloadsAssumption
<1>3. handle' \in [Downloads -> {None, "temp", "target"}] /\ stage' \in [Downloads -> Stages]
  BY <1>1, DownloadTypes DEF Stages
<1>4. \A d \in Downloads : handle'[d] = None /\ ~Running(d)' /\ stage'[d] # "verified"
  BY <1>1, DownloadTypes DEF Running
<1>5. DownloadsTypeOK'
  BY <1>1, <1>2, <1>3, DownloadTypes, DownloadTypesKept
<1>6. WritersStream' /\ Alone'
  BY <1>4 DEF WritersStream, Alone, None
<1>7. TargetIsVerified'
  BY <1>1 DEF DownloadsInv, TargetIsVerified
<1> QED
  BY <1>5, <1>6, <1>7 DEF DownloadsInv

LEMMA DownloadsStep ==
    ASSUME DownloadsInv, DownloadsNext
    PROVE  DownloadsInv'
  BY StopDownloadsSound, StartDownloadSound, StreamToFileSound, VerifyDownloadSound, RenameDownloadSound,
     FailDownloadSound DEF DownloadsNext

LEMMA DownloadsStutter ==
    ASSUME DownloadsInv, UNCHANGED downloadVars
    PROVE  DownloadsInv'
<1>1. DownloadsTypeOK' /\ TargetIsVerified'
  BY DEF downloadVars, DownloadsInv, DownloadsTypeOK, TargetIsVerified
<1>2. WritersStream' /\ Alone'
  BY DEF downloadVars, DownloadsInv, WritersStream, Alone, Running, MatchesSignature
<1> QED
  BY <1>1, <1>2 DEF DownloadsInv

-----------------------------------------------------------------------------
(* Dates. *)

\* The days before the year that begins in March of year y.
DaysBefore(y) == y * 365 + y \div 4 - y \div 100 + y \div 400

\* The days before the month that is the m-th after February.
DaysOfMonths(m) == (153 * m + 2) \div 5

Quadrennial(y, n) == IF y % n = 0 THEN 1 ELSE 0

LEMMA NextQuotient ==
    ASSUME NEW y \in Nat, y >= 1
    PROVE  /\ y \div 4 = (y - 1) \div 4 + Quadrennial(y, 4)
           /\ y \div 100 = (y - 1) \div 100 + Quadrennial(y, 100)
           /\ y \div 400 = (y - 1) \div 400 + Quadrennial(y, 400)
<1>1. y \div 4 = (y - 1) \div 4 + Quadrennial(y, 4)
  BY DEF Quadrennial
<1>2. y \div 100 = (y - 1) \div 100 + Quadrennial(y, 100)
  BY DEF Quadrennial
<1>3. y \div 400 = (y - 1) \div 400 + Quadrennial(y, 400)
  BY DEF Quadrennial
<1> QED
  BY <1>1, <1>2, <1>3

LEMMA YearLength ==
    ASSUME NEW y \in Nat, y >= 1
    PROVE  DaysBefore(y) = DaysBefore(y - 1) + 337 + DaysInMonth(y, 2)
<1>1. y % 100 = 0 => y % 4 = 0
  OBVIOUS
<1>2. y % 400 = 0 => y % 100 = 0
  OBVIOUS
<1>3. Quadrennial(y, 4) - Quadrennial(y, 100) + Quadrennial(y, 400) = IF IsLeapYear(y) THEN 1 ELSE 0
  BY <1>1, <1>2 DEF Quadrennial, IsLeapYear
<1>4. DaysInMonth(y, 2) = 28 + (IF IsLeapYear(y) THEN 1 ELSE 0)
  BY DEF DaysInMonth
<1>5. PICK a \in Int, b \in Int, c \in Int : a = (y - 1) \div 4 /\ b = (y - 1) \div 100 /\ c = (y - 1) \div 400
  OBVIOUS
<1>6. PICK p \in Int, q \in Int, r \in Int : p = Quadrennial(y, 4) /\ q = Quadrennial(y, 100) /\ r = Quadrennial(y, 400)
  BY DEF Quadrennial
<1>7. y \div 4 = a + p /\ y \div 100 = b + q /\ y \div 400 = c + r
  BY <1>5, <1>6, NextQuotient
<1>8. DaysBefore(y) = y * 365 + (a + p) - (b + q) + (c + r)
  BY <1>7 DEF DaysBefore
<1>9. DaysBefore(y - 1) = (y - 1) * 365 + a - b + c
  BY <1>5 DEF DaysBefore
<1>10. p - q + r = DaysInMonth(y, 2) - 28
  BY <1>3, <1>4, <1>6
<1>11. DaysInMonth(y, 2) \in Int
  BY <1>4
<1> QED
  BY <1>8, <1>9, <1>10, <1>11

\* The eras of 400 years cancel out.
LEMMA ErasCancel ==
    ASSUME NEW y \in Nat, NEW n \in Int
    PROVE  DaysInEras(y, n) = DaysBefore(y) + n - 719468
<1>1. PICK e \in Int, a \in Int, b \in Int : e = y \div 400 /\ a = y \div 4 /\ b = y \div 100
  OBVIOUS
<1>2. (y - e * 400) \div 4 = a - e * 100
  BY <1>1
<1>3. (y - e * 400) \div 100 = b - e * 4
  BY <1>1
<1>4. DaysInEras(y, n) = e * 146097 + ((y - e * 400) * 365 + (a - e * 100) - (b - e * 4) + n) - 719468
  BY <1>1, <1>2, <1>3, SMTT(60) DEF DaysInEras
<1>5. DaysBefore(y) = y * 365 + a - b + e
  BY <1>1 DEF DaysBefore
<1> QED
  BY <1>4, <1>5, SMTT(60)

\* days_from_civil without its eras.
LEMMA CivilDays ==
    ASSUME NEW year \in Nat, year >= 1, NEW month \in 1 .. 12, NEW day \in 1 .. 31
    PROVE  DaysFromCivil(year, month, day) =
             (IF month <= 2 THEN DaysBefore(year - 1) + DaysOfMonths(month + 9)
              ELSE DaysBefore(year) + DaysOfMonths(month - 3)) + (day - 1) - 719468
<1>1. CASE month <= 2
  <2>1. PICK m \in Int : m = DaysOfMonths(month + 9)
    BY DEF DaysOfMonths
  <2>2. DaysFromCivil(year, month, day) = DaysInEras(year - 1, m + (day - 1))
    <3>1. DaysFromCivil(year, month, day) = DaysInEras(year - 1, DaysOfMonths(month + 9) + day - 1)
      BY <1>1, SMT DEF DaysFromCivil, DaysOfMonths
    <3> QED
      BY <2>1, <3>1, SMTT(60)
  <2>3. PICK b \in Int : b = DaysBefore(year - 1)
    BY DEF DaysBefore
  <2>4. DaysInEras(year - 1, m + (day - 1)) = b + (m + (day - 1)) - 719468
    BY <2>3, ErasCancel, SMTT(60)
  <2> QED
    BY <1>1, <2>1, <2>2, <2>3, <2>4, SMTT(60)
<1>2. CASE month > 2
  <2>1. PICK m \in Int : m = DaysOfMonths(month - 3)
    BY DEF DaysOfMonths
  <2>2. DaysFromCivil(year, month, day) = DaysInEras(year, m + (day - 1))
    <3>1. DaysFromCivil(year, month, day) = DaysInEras(year, DaysOfMonths(month - 3) + day - 1)
      BY <1>2, SMT DEF DaysFromCivil, DaysOfMonths
    <3> QED
      BY <2>1, <3>1, SMTT(60)
  <2>3. PICK b \in Int : b = DaysBefore(year)
    BY DEF DaysBefore
  <2>4. DaysInEras(year, m + (day - 1)) = b + (m + (day - 1)) - 719468
    BY <2>3, ErasCancel, SMTT(60)
  <2> QED
    BY <1>2, <2>1, <2>2, <2>3, <2>4, SMTT(60)
<1> QED
  BY <1>1, <1>2, SMTT(60)

LEMMA MonthTable ==
    /\ DaysOfMonths(0) = 0 /\ DaysOfMonths(1) = 31 /\ DaysOfMonths(2) = 61 /\ DaysOfMonths(3) = 92
    /\ DaysOfMonths(4) = 122 /\ DaysOfMonths(5) = 153 /\ DaysOfMonths(6) = 184 /\ DaysOfMonths(7) = 214
    /\ DaysOfMonths(8) = 245 /\ DaysOfMonths(9) = 275 /\ DaysOfMonths(10) = 306 /\ DaysOfMonths(11) = 337
  BY DEF DaysOfMonths

LEMMA MonthLength ==
    ASSUME NEW y \in Nat, NEW m \in 1 .. 12
    PROVE  /\ DaysInMonth(y, m) \in 28 .. 31
           /\ m \in {1, 3, 5, 7, 8, 10, 12} => DaysInMonth(y, m) = 31
           /\ m \in {4, 6, 9, 11} => DaysInMonth(y, m) = 30
  BY DEF DaysInMonth

LEMMA DaysBeforeType ==
    ASSUME NEW y \in Nat
    PROVE  DaysBefore(y) \in Int
  BY DEF DaysBefore

\* A day that is not the last of its month.
LEMMA WithinMonth ==
    ASSUME NEW y \in Nat, y >= 1, NEW m \in 1 .. 12, NEW d \in 1 .. 30
    PROVE  DaysFromCivil(y, m, d + 1) = DaysFromCivil(y, m, d) + 1
<1>1. PICK b \in Int : b = IF m <= 2 THEN DaysBefore(y - 1) + DaysOfMonths(m + 9)
                           ELSE DaysBefore(y) + DaysOfMonths(m - 3)
  BY DaysBeforeType DEF DaysOfMonths
<1>2. DaysFromCivil(y, m, d) = b + (d - 1) - 719468
  BY <1>1, CivilDays, SMTT(60)
<1>3. DaysFromCivil(y, m, d + 1) = b + d - 719468
  <2>1. PICK e \in 1 .. 31 : e = d + 1
    OBVIOUS
  <2>2. DaysFromCivil(y, m, e) = b + (e - 1) - 719468
    BY <1>1, CivilDays, SMTT(60)
  <2> QED
    BY <2>1, <2>2, SMTT(60)
<1> QED
  BY <1>2, <1>3, SMTT(60)

\* The last day of a month and the first of the next.
LEMMA EndOfMonth ==
    ASSUME NEW y \in Nat, y >= 1, NEW m \in 1 .. 11
    PROVE  DaysFromCivil(y, m + 1, 1) = DaysFromCivil(y, m, DaysInMonth(y, m)) + 1
<1>1. PICK len \in 28 .. 31 : len = DaysInMonth(y, m)
  BY MonthLength
<1>2. PICK a \in Int, b \in Int : a = DaysBefore(y - 1) /\ b = DaysBefore(y)
  BY DaysBeforeType
<1>3. DaysFromCivil(y, m, len) = (IF m <= 2 THEN a + DaysOfMonths(m + 9) ELSE b + DaysOfMonths(m - 3)) + (len - 1) - 719468
  BY <1>1, <1>2, CivilDays, SMTT(60)
<1>4. DaysFromCivil(y, m + 1, 1) =
        (IF m + 1 <= 2 THEN a + DaysOfMonths((m + 1) + 9) ELSE b + DaysOfMonths((m + 1) - 3)) + (1 - 1) - 719468
  BY <1>2, CivilDays, SMTT(60)
<1>5. CASE m = 1
  <2>1. DaysFromCivil(y, 1, len) = a + 306 + (len - 1) - 719468
    BY <1>3, <1>5, MonthTable, SMTT(60)
  <2>2. DaysFromCivil(y, 2, 1) = a + 337 - 719468
    BY <1>4, <1>5, MonthTable, SMTT(60)
  <2>3. len = 31
    BY <1>1, <1>5, MonthLength
  <2> QED
    BY <1>1, <1>5, <2>1, <2>2, <2>3, SMTT(60)
<1>6. CASE m = 2
  <2>1. DaysFromCivil(y, 2, len) = a + 337 + (len - 1) - 719468
    BY <1>3, <1>6, MonthTable, SMTT(60)
  <2>2. DaysFromCivil(y, 3, 1) = b - 719468
    BY <1>4, <1>6, MonthTable, SMTT(60)
  <2>3. b = a + 337 + len
    BY <1>1, <1>2, <1>6, YearLength
  <2> QED
    BY <1>1, <1>6, <2>1, <2>2, <2>3, SMTT(60)
<1>7. CASE m > 2
  <2>1. DaysFromCivil(y, m, len) = b + DaysOfMonths(m - 3) + (len - 1) - 719468
    BY <1>3, <1>7, SMTT(60)
  <2>2. DaysFromCivil(y, m + 1, 1) = b + DaysOfMonths((m + 1) - 3) - 719468
    <3>1. DaysOfMonths((m + 1) - 3) \in Int
      BY DEF DaysOfMonths
    <3> QED
      BY <1>4, <1>7, <3>1, SMTT(60)
  <2>3. DaysOfMonths((m + 1) - 3) = DaysOfMonths(m - 3) + len
    <3>1. m \in {3, 5, 7, 8, 10} => len = 31
      BY <1>1, MonthLength
    <3>2. m \in {4, 6, 9, 11} => len = 30
      BY <1>1, MonthLength
    <3> QED
      BY <1>7, <3>1, <3>2, SMTT(60) DEF DaysOfMonths
  <2>4. DaysOfMonths(m - 3) \in Int
    BY DEF DaysOfMonths
  <2> QED
    BY <1>1, <2>1, <2>2, <2>3, <2>4, SMTT(60)
<1> QED
  BY <1>5, <1>6, <1>7, SMTT(60)

LEMMA EndOfYear ==
    ASSUME NEW y \in Nat, y >= 1
    PROVE  DaysFromCivil(y + 1, 1, 1) = DaysFromCivil(y, 12, 31) + 1
<1>1. PICK b \in Int : b = DaysBefore(y)
  BY DaysBeforeType
<1>2. DaysFromCivil(y, 12, 31) = b + DaysOfMonths(9) + 30 - 719468
  BY <1>1, CivilDays, SMTT(60)
<1>3. DaysFromCivil(y + 1, 1, 1) = b + DaysOfMonths(10) + 0 - 719468
  <2>1. (y + 1) - 1 = y
    OBVIOUS
  <2> QED
    BY <1>1, <2>1, CivilDays, SMTT(60)
<1> QED
  BY <1>2, <1>3, MonthTable, SMTT(60)

LEMMA DatesInitSound == DatesInit => DatesInv
<1> SUFFICES ASSUME DatesInit PROVE DatesInv
  OBVIOUS
<1>1. date.y = 1970 /\ date.m = 1 /\ date.d = 1 /\ days = 0
  BY DEF DatesInit
<1>2. DatesTypeOK
  BY DownloadsAssumption DEF DatesInit, DatesTypeOK
<1>3. DaysInMonth(1970, 1) = 31
  BY DEF DaysInMonth
<1>4. DaysFromCivil(1970, 1, 1) = 0
  <2>1. DaysFromCivil(1970, 1, 1) = DaysBefore(1969) + DaysOfMonths(10) + (1 - 1) - 719468
    BY CivilDays, SMTT(60)
  <2>2. DaysBefore(1969) = 719162
    BY SMTT(60) DEF DaysBefore
  <2> QED
    BY <2>1, <2>2, MonthTable, SMTT(60)
<1> QED
  BY <1>1, <1>2, <1>3, <1>4 DEF DatesInv

LEMMA NextDaySound ==
    ASSUME DatesInv, NextDay
    PROVE  DatesInv'
<1>1. PICK y \in 1970 .. LastYear, m \in 1 .. 12, d \in 1 .. 31 : date = [y |-> y, m |-> m, d |-> d]
  BY DEF DatesInv, DatesTypeOK
<1>2. y \in Nat /\ y >= 1 /\ LastYear \in Nat /\ days \in Nat
  BY DownloadsAssumption DEF DatesInv, DatesTypeOK
<1>3. PICK len \in 28 .. 31 : len = DaysInMonth(y, m)
  BY <1>2, MonthLength
<1>4. d <= len /\ DaysFromCivil(y, m, d) = days
  BY <1>1, <1>3 DEF DatesInv
<1>5. days' = days + 1 /\ days' \in Nat
  BY <1>2 DEF NextDay
<1>6. CASE d < len
  <2>1. date' = [y |-> y, m |-> m, d |-> d + 1] /\ d + 1 \in 1 .. 31 /\ d \in 1 .. 30
    BY <1>1, <1>3, <1>6 DEF NextDay
  <2>2. DaysFromCivil(y, m, d + 1) = days + 1
    BY <1>2, <1>4, <2>1, WithinMonth
  <2>3. d + 1 <= len
    BY <1>6
  <2> QED
    BY <1>3, <1>5, <2>1, <2>2, <2>3 DEF DatesInv, DatesTypeOK
<1>7. CASE d = len /\ m < 12
  <2>1. date' = [y |-> y, m |-> m + 1, d |-> 1] /\ m + 1 \in 1 .. 12
    BY <1>1, <1>3, <1>7 DEF NextDay
  <2>2. DaysFromCivil(y, m + 1, 1) = days + 1
    BY <1>2, <1>3, <1>4, <1>7, EndOfMonth
  <2>3. DaysInMonth(y, m + 1) \in 28 .. 31
    BY <1>2, <2>1, MonthLength
  <2> QED
    BY <1>5, <2>1, <2>2, <2>3 DEF DatesInv, DatesTypeOK
<1>8. CASE d = len /\ m = 12
  <2>1. d = 31
    BY <1>2, <1>3, <1>8, MonthLength
  <2>2. date' = [y |-> y + 1, m |-> 1, d |-> 1]
    BY <1>1, <1>3, <1>8 DEF NextDay
  <2>3. y + 1 \in 1970 .. LastYear
    <3>1. y # LastYear
      BY <1>1, <1>8, <2>1 DEF NextDay
    <3> QED
      BY <1>2, <3>1
  <2>4. DaysFromCivil(y + 1, 1, 1) = days + 1
    BY <1>2, <1>4, <1>8, <2>1, EndOfYear
  <2>5. DaysInMonth(y + 1, 1) = 31
    BY <1>2, MonthLength
  <2> QED
    BY <1>5, <2>2, <2>3, <2>4, <2>5 DEF DatesInv, DatesTypeOK
<1> QED
  BY <1>4, <1>6, <1>7, <1>8

LEMMA DatesStutter ==
    ASSUME DatesInv, UNCHANGED dateVars
    PROVE  DatesInv'
  BY DEF DatesInv, DatesTypeOK, dateVars

LEMMA DatesSound ==
    ASSUME DatesInv
    PROVE  DatesTypeOK /\ DatesCount
<1>1. DatesTypeOK /\ days \in Nat /\ DaysFromCivil(date.y, date.m, date.d) = days
  BY DEF DatesInv, DatesTypeOK
<1>2. ASSUME NEW offset \in {-720, 0, 330, 840}
      PROVE  UnixMinutes(date, 1439, offset) + 1 + offset = (days + 1) * 1440
  <2>1. UnixMinutes(date, 1439, offset) = days * 1440 + 1439 - offset
    BY <1>1 DEF UnixMinutes
  <2> QED
    BY <1>1, <2>1
<1> QED
  BY <1>1, <1>2 DEF DatesCount

-----------------------------------------------------------------------------
(* The parts together. *)

DistributionInv == KeysInv /\ ReleasesInv /\ ScriptsInv /\ SdkInv /\ DownloadsInv /\ DatesInv

LEMMA DistributionInit == Init => DistributionInv
  BY KeysInitSound, ReleasesInitSound, ScriptsInitSound, SdkInitSound, DownloadsInitSound, DatesInitSound
     DEF Init, DistributionInv

\* Each step is one of a single part and leaves the others alone.
LEMMA DistributionStep ==
    ASSUME DistributionInv, [Next]_mcVars
    PROVE  DistributionInv'
<1>1. KeysInv /\ ReleasesInv /\ ScriptsInv /\ SdkInv /\ DownloadsInv /\ DatesInv
  BY DEF DistributionInv
<1>2. KeysInv'
  <2>1. (JwtNext \/ ApplicationNext) \/ UNCHANGED keyVars
    BY DEF Next, mcVars
  <2> QED
    BY <1>1, <2>1, KeysStep, KeysStutter
<1>3. ReleasesInv'
  <2>1. ReleasesNext \/ UNCHANGED releaseVars
    BY DEF Next, mcVars
  <2> QED
    BY <1>1, <2>1, ReleasesStep, ReleasesStutter
<1>4. ScriptsInv'
  <2>1. ScriptsNext \/ UNCHANGED scriptVars
    BY DEF Next, mcVars
  <2> QED
    BY <1>1, <2>1, ScriptsStep, ScriptsStutter
<1>5. SdkInv'
  <2>1. SdkNext \/ UNCHANGED sdkVars
    BY DEF Next, mcVars
  <2> QED
    BY <1>1, <2>1, SdkStep, SdkStutter
<1>6. DownloadsInv'
  <2>1. DownloadsNext \/ UNCHANGED downloadVars
    BY DEF Next, mcVars
  <2> QED
    BY <1>1, <2>1, DownloadsStep, DownloadsStutter
<1>7. DatesInv'
  <2>1. NextDay \/ UNCHANGED dateVars
    BY DEF Next, mcVars
  <2> QED
    BY <1>1, <2>1, NextDaySound, DatesStutter
<1> QED
  BY <1>2, <1>3, <1>4, <1>5, <1>6, <1>7 DEF DistributionInv

LEMMA DistributionInvariant == Spec => []DistributionInv
<1>1. Init => DistributionInv
  BY DistributionInit
<1>2. DistributionInv /\ [Next]_mcVars => DistributionInv'
  BY DistributionStep
<1> QED
  BY <1>1, <1>2, PTL DEF Spec

\* Signing keys (application/admin.rs, client_auth/access_token.rs): a token
\* verifies until it expires, unless a rotation that was under way when its request
\* began retired its key; there is always a key to sign with, and the secret of an
\* application goes with an active key, for any number of requests and rotations.
THEOREM KeysAreKept == Spec => []KeysKept
<1>1. DistributionInv => KeysKept
  BY KeysSound DEF DistributionInv
<1> QED
  BY <1>1, DistributionInvariant, PTL

\* Publication (release/, secure_script/): a release is signed as it is shown, and
\* a script too unless the update that wrote it was overtaken; a download token
\* serves one request, for a release that was published, whatever overlaps.
THEOREM PublicationIsKept == Spec => []PublicationKept
<1>1. DistributionInv => PublicationKept
  BY ReleasesSound DEF DistributionInv, PublicationKept, ScriptsInv
<1> QED
  BY <1>1, DistributionInvariant, PTL

\* The SDK (client-sdk/src): a refresh token is used twice only if it comes from an
\* envelope whose token had been sent before, whatever requests arrive late; the key
\* of the device is the one the server knows unless an answer or a saved envelope was
\* lost; the target of an update is verified as long as no two downloads overlap, and
\* of no older version if versions are compared; and the date of expiry is right on
\* every day of the calendar.
THEOREM SdkIsKept == Spec => []SdkKept
<1>1. DistributionInv => SdkKept
  BY DatesSound DEF DistributionInv, SdkKept, SdkInv, DownloadsInv
<1> QED
  BY <1>1, DistributionInvariant, PTL

\* A release that was published never changes, and one that is deprecated is not
\* offered again (release/admin.rs), whatever handlers overlap.
THEOREM PublishedStaysFixed == Spec => PublishedIsFixed
<1>1. DistributionInv /\ [Next]_mcVars => [Fixed]_releaseVars
  <2>1. SUFFICES ASSUME DistributionInv, [Next]_mcVars, ~UNCHANGED releaseVars PROVE Fixed
    OBVIOUS
  <2>2. ReleasesNext
    BY <2>1 DEF Next, mcVars
  <2> QED
    BY <2>1, <2>2, ShownStays DEF DistributionInv
<1> QED
  BY <1>1, DistributionInvariant, PTL DEF Spec, PublishedIsFixed, Fixed


-----------------------------------------------------------------------------
(* Folders. *)

\* A folder is in the root or in one that was made.
ParentsExist ==
    \A f \in Folders : folder[f].st # "none" =>
        folder[f].parent = Root \/ folder[folder[f].parent].st # "none"

Wants(r, ops) == folderReq[r].pc = "checked" /\ folderReq[r].op \in ops

\* What a request that has checked the tree knows, whatever overlaps: ids are
\* not given twice, and creations and deletions put nobody above anybody.
FolderRequestsKnow ==
    /\ \A r \in FolderRequests : Wants(r, {"create"}) => folder[folderReq[r].f].st = "none"
    /\ \A r \in FolderRequests : Wants(r, {"move", "delete"}) => folder[folderReq[r].f].st # "none"
    /\ \A r \in FolderRequests : Wants(r, {"create", "move"}) =>
          folderReq[r].to = Root \/ folder[folderReq[r].to].st # "none"
    /\ \A r \in FolderRequests : (Wants(r, {"move"}) /\ ~movesRaced) => FolderCanMove(folderReq[r].f, folderReq[r].to)

CreationsApart ==
    \A q, r \in FolderRequests :
        (q # r /\ folderReq[q].op = "create" /\ folderReq[r].op = "create") => folderReq[q].f # folderReq[r].f

\* As long as requests take turns, all that was checked is still true.
ChecksHold ==
    ~raced =>
       /\ \A r \in FolderRequests : Wants(r, {"create", "move", "file", "grant", "direct"}) => FolderBelongs(folderReq[r].to)
       /\ \A r \in FolderRequests : Wants(r, {"move"}) => FolderCanMove(folderReq[r].f, folderReq[r].to)
       /\ \A r \in FolderRequests : Wants(r, {"delete"}) => FolderEmpty(folderReq[r].f)

\* The folder of an open upload session was live and is, or is an orphan now.
SessionFolderKept ==
    ~raced => (uploadTo \in Folders \ orphans => folder[uploadTo].st = "live")

FoldersInv ==
    /\ FoldersTypeOK /\ ParentsExist /\ FolderRequestsKnow /\ CreationsApart /\ ChecksHold /\ SessionFolderKept
    /\ NothingLostByTurns /\ NoCycleUnlessMovesRace

-----------------------------------------------------------------------------
(* Assets. *)

\* Uploads that have used up the session, of which there is at most one.
Consumer(u) == ~upload[u].direct /\ upload[u].pc \in {"consumed", "spawned", "done"}

OneConsumer ==
    /\ \A u \in Uploads : Consumer(u) => session = "consumed"
    /\ \A u, v \in Uploads : (Consumer(u) /\ Consumer(v)) => u = v

\* An asset was inserted by the last step of its upload.
MadeByUpload ==
    \A u \in Uploads : asset[u].st # "none" => upload[u].pc \in {"spawned", "done"} /\ asset[u].key = StorageKey(u)

\* The bytes are there before the row.
BytesAreStored ==
    /\ \A u \in Uploads : upload[u].pc = "stored" => ~upload[u].direct
    /\ \A u \in Uploads : (upload[u].direct /\ upload[u].pc \in {"consumed", "spawned", "done"}) => object[u] = u
    /\ \A u \in Uploads : (~upload[u].direct /\ upload[u].pc \in {"stored", "consumed", "spawned", "done"}) =>
          object["session"] # NoUpload
    /\ \A u \in Uploads : object["session"] = u =>
          ~upload[u].direct /\ upload[u].pc \in {"stored", "consumed", "refused", "lost", "spawned", "done"}

ThumbnailsAreStored ==
    \A u \in Uploads :
        /\ asset[u].meta.thumb = "own" => u \in thumb
        /\ (asset[u].video /\ asset[u].st = "ready") => (asset[u].meta.thumb = "own" \/ asset[u].meta.edit)

\* A task works on one of its videos and remembers the edits that were quiet.
TasksKnow ==
    \A t \in MediaTasks :
        /\ task[t].now # NoUpload => task[t].now \in task[t].has
        /\ task[t].put => task[t].now \in thumb
        /\ task[t].err => task[t].now # NoUpload
        /\ \A u \in task[t].has : asset[u].st # "none" /\ (u \in quietEdit => task[t].read[u].edit)

QuietEditsKept == \A u \in quietEdit : asset[u].st # "none" /\ asset[u].meta.edit

\* The task of an upload has nothing in hand before it claims.
TasksSpawned == \A u \in Uploads : upload[u].pc # "done" => task[u].has = {}

Unanswered(t, u) == task[t].now = u /\ task[t].put /\ task[t].err

\* A video that was not claimed twice is in one pair of hands until it is marked,
\* and longer only when the answer to the mark was lost.
OneHand ==
    \A u \in Uploads : u \notin doubled =>
        /\ \A s, t \in MediaTasks : (u \in task[s].has /\ u \in task[t].has) => s = t
        /\ \A t \in MediaTasks : u \in task[t].has =>
              \/ asset[u].st \in {"processing", "deleted"}
              \/ asset[u].st = "ready" /\ Unanswered(t, u)

AssetsInv ==
    /\ AssetsTypeOK /\ OneConsumer /\ MadeByUpload /\ BytesAreStored /\ TasksSpawned
    /\ ThumbnailsAreStored /\ TasksKnow /\ QuietEditsKept /\ OneHand

-----------------------------------------------------------------------------
(* Works. *)

\* The operations that write the visibility and then the publication.
Publishing == {"publish", "unpublish", "delete"}

\* A work is made once, and before it is made there is nothing to publish.
WorksAreMadeOnce ==
    /\ \A w \in Works : work[w].st = "none" => work[w].vis = "private" /\ pub[w] = "none"
    /\ \A r \in WorkRequests : At(r, "create", "read") => work[workReq[r].w].st = "none"
    /\ \A q, r \in WorkRequests : (q # r /\ workReq[q].op = "create" /\ workReq[r].op = "create") =>
          workReq[q].w # workReq[r].w
    /\ \A r \in WorkRequests : (workReq[r].op \in Publishing /\ workReq[r].pc \in {"read", "half"}) =>
          work[workReq[r].w].st # "none"

TracesInOrder ==
    \A w \in Works : "asset" \in made[w] => "ai_asset" \in made[w] /\ "object" \in made[w]

Agrees(w) == work[w].vis = "public" <=> pub[w] = "published"

HalfOn(w) == \E r \in WorkRequests : workReq[r].op \in Publishing /\ workReq[r].pc = "half" /\ workReq[r].w = w

\* As long as requests take turns, visibility and publication differ only while
\* a request is between the two.
WorkTurns ==
    (~workRaced /\ workStops = 0) =>
       /\ \A r \in WorkRequests : (workReq[r].op \in Publishing /\ workReq[r].pc = "read") =>
             work[workReq[r].w].st = "active"
       /\ \A r \in WorkRequests : At(r, "publish", "half") => work[workReq[r].w].vis = "public"
       /\ \A r \in WorkRequests : (At(r, "unpublish", "half") \/ At(r, "delete", "half")) =>
             work[workReq[r].w].vis = "private"
       /\ \A q, r \in WorkRequests :
             (q # r /\ workReq[q].pc = "half" /\ workReq[r].pc = "half") => workReq[q].w # workReq[r].w
       /\ \A w \in Works : ~HalfOn(w) => Agrees(w)

WorksInv ==
    /\ WorksTypeOK /\ WorksAreMadeOnce /\ TracesInOrder /\ WorkTurns
    /\ OneFavoriteRow /\ DownloadsCounted /\ WorkIsBacked

-----------------------------------------------------------------------------
(* Trees of folders: the operators of WebFolders for any rows F. *)

ChildrenIn(F, p) == {f \in Folders : F[f].st = "live" /\ F[f].parent = p}

ClosedIn(F, S) == \A g \in S : ChildrenIn(F, g) \subseteq S

DescendantsIn(F, p) ==
    {f \in Folders : \A S \in SUBSET Folders : (ChildrenIn(F, p) \subseteq S /\ ClosedIn(F, S)) => f \in S}

LEMMA DescendantsAre ==
    /\ \A p : Children(p) = ChildrenIn(folder, p) /\ Descendants(p) = DescendantsIn(folder, p)
    /\ \A p : Children(p)' = ChildrenIn(folder', p) /\ Descendants(p)' = DescendantsIn(folder', p)
  BY DEF Children, Descendants, ChildrenIn, ClosedIn, DescendantsIn

LEMMA DescendantsClosed ==
    ASSUME NEW F, NEW p
    PROVE  /\ DescendantsIn(F, p) \in SUBSET Folders
           /\ ChildrenIn(F, p) \subseteq DescendantsIn(F, p)
           /\ ClosedIn(F, DescendantsIn(F, p))
<1>1. DescendantsIn(F, p) \in SUBSET Folders
  BY DEF DescendantsIn
<1>2. ChildrenIn(F, p) \subseteq DescendantsIn(F, p)
  BY DEF DescendantsIn, ChildrenIn
<1>3. ASSUME NEW g \in DescendantsIn(F, p), NEW h \in ChildrenIn(F, g)
      PROVE  h \in DescendantsIn(F, p)
  <2>1. ASSUME NEW S \in SUBSET Folders, ChildrenIn(F, p) \subseteq S, ClosedIn(F, S) PROVE h \in S
    <3>1. g \in S
      BY <2>1 DEF DescendantsIn
    <3> QED
      BY <1>3, <2>1, <3>1 DEF ClosedIn
  <2>2. h \in Folders
    BY <1>3 DEF ChildrenIn
  <2> QED
    BY <2>1, <2>2 DEF DescendantsIn
<1> QED
  BY <1>1, <1>2, <1>3 DEF ClosedIn

LEMMA DescendantsLeast ==
    ASSUME NEW F, NEW p, NEW S \in SUBSET Folders, ChildrenIn(F, p) \subseteq S, ClosedIn(F, S)
    PROVE  DescendantsIn(F, p) \subseteq S
  BY DEF DescendantsIn

LEMMA DescendantsNest ==
    ASSUME NEW F, NEW p, NEW g \in DescendantsIn(F, p)
    PROVE  DescendantsIn(F, g) \subseteq DescendantsIn(F, p)
<1>1. /\ DescendantsIn(F, p) \in SUBSET Folders
      /\ ClosedIn(F, DescendantsIn(F, p))
  BY DescendantsClosed
<1>2. ChildrenIn(F, g) \subseteq DescendantsIn(F, p)
  BY <1>1 DEF ClosedIn
<1> QED
  BY <1>1, <1>2, DescendantsLeast

LEMMA DescendantsLive ==
    ASSUME NEW F, NEW p, NEW g \in DescendantsIn(F, p)
    PROVE  g \in Folders /\ F[g].st = "live"
<1> DEFINE S == {f \in Folders : F[f].st = "live"}
<1>1. S \in SUBSET Folders /\ ChildrenIn(F, p) \subseteq S /\ ClosedIn(F, S)
  BY DEF ChildrenIn, ClosedIn
<1>2. DescendantsIn(F, p) \subseteq S
  BY <1>1, DescendantsLeast
<1> QED
  BY <1>2

-----------------------------------------------------------------------------
(* A folder is made, moved or deleted. *)

\* Row f of the tree F has become live under p in G.
Put(F, G, f, p) ==
    /\ f \in Folders /\ G[f].st = "live" /\ G[f].parent = p
    /\ \A g \in Folders \ {f} : G[g] = F[g]

LEMMA PutChildren ==
    ASSUME NEW F, NEW G, NEW f, NEW p, Put(F, G, f, p)
    PROVE  /\ \A x, g : (g \in ChildrenIn(G, x) /\ g # f) => g \in ChildrenIn(F, x)
           /\ \A x, g : (g \in ChildrenIn(F, x) /\ g # f) => g \in ChildrenIn(G, x)
           /\ \A x : f \in ChildrenIn(G, x) <=> x = p
  BY DEF Put, ChildrenIn

\* What is reached from the root is still, if the folder goes where it can.
LEMMA PutIsShown ==
    ASSUME NEW F, NEW G, NEW f, NEW p, Put(F, G, f, p), F[f].st # "live",
           p = Root \/ p \in DescendantsIn(F, Root)
    PROVE  f \in DescendantsIn(G, Root) /\ DescendantsIn(F, Root) \subseteq DescendantsIn(G, Root)
<1> DEFINE S == DescendantsIn(G, Root)
<1>1. S \in SUBSET Folders /\ ChildrenIn(G, Root) \subseteq S /\ ClosedIn(G, S)
  BY DescendantsClosed
<1> HIDE DEF S
<1>2. \A x : f \notin ChildrenIn(F, x)
  BY DEF ChildrenIn
<1>3. ChildrenIn(F, Root) \subseteq S /\ ClosedIn(F, S)
  BY <1>1, <1>2, PutChildren DEF ClosedIn
<1>4. DescendantsIn(F, Root) \subseteq S
  BY <1>1, <1>3, DescendantsLeast
<1>5. f \in S
  BY <1>1, <1>4, PutChildren DEF ClosedIn
<1> QED
  BY <1>4, <1>5 DEF S

LEMMA MovedIsShown ==
    ASSUME NEW F, NEW G, NEW f, NEW p, Put(F, G, f, p), p # f, p \notin DescendantsIn(F, f),
           p = Root \/ p \in DescendantsIn(F, Root)
    PROVE  DescendantsIn(F, Root) \subseteq DescendantsIn(G, Root)
<1> DEFINE S == DescendantsIn(G, Root)
           D == DescendantsIn(F, f)
           T == S \cup {f} \cup D
<1>1. S \in SUBSET Folders /\ ChildrenIn(G, Root) \subseteq S /\ ClosedIn(G, S)
  BY DescendantsClosed
<1>2. D \in SUBSET Folders /\ ChildrenIn(F, f) \subseteq D /\ ClosedIn(F, D) /\ p \notin D
  BY DescendantsClosed
<1>3. f \in Folders
  BY DEF Put
<1> HIDE DEF S, D
<1>4. ChildrenIn(F, Root) \subseteq T
  BY <1>1, PutChildren
<1>5. ClosedIn(F, T)
  <2> SUFFICES ASSUME NEW g \in T, NEW h \in ChildrenIn(F, g) PROVE h \in T
    BY DEF ClosedIn
  <2>1. CASE g \in S
    <3>1. h # f => h \in ChildrenIn(G, g)
      BY PutChildren
    <3> QED
      BY <1>1, <2>1, <3>1 DEF ClosedIn
  <2>2. CASE g = f \/ g \in D
    BY <1>2, <2>2 DEF ClosedIn
  <2> QED
    BY <2>1, <2>2
<1>6. DescendantsIn(F, Root) \subseteq T
  BY <1>1, <1>2, <1>3, <1>4, <1>5, DescendantsLeast
<1>7. p = Root \/ p \in S
  BY <1>2, <1>6
<1>8. f \in S
  BY <1>1, <1>7, PutChildren DEF ClosedIn
<1>9. ChildrenIn(F, Root) \subseteq S /\ ClosedIn(F, S)
  <2>1. ChildrenIn(F, Root) \subseteq S
    BY <1>1, <1>8, PutChildren
  <2>2. ASSUME NEW g \in S, NEW h \in ChildrenIn(F, g) PROVE h \in S
    <3>1. h # f => h \in ChildrenIn(G, g)
      BY <2>2, PutChildren
    <3> QED
      BY <1>1, <1>8, <2>2, <3>1 DEF ClosedIn
  <2> QED
    BY <2>1, <2>2 DEF ClosedIn
<1>10. DescendantsIn(F, Root) \subseteq S
  BY <1>1, <1>9, DescendantsLeast
<1> QED
  BY <1>10 DEF S

\* A new folder without children is below others and above nobody.
LEMMA PutBelow ==
    ASSUME NEW F, NEW G, NEW f, NEW p, Put(F, G, f, p), p # f, ChildrenIn(F, f) = {}
    PROVE  /\ \A x : DescendantsIn(G, x) \subseteq DescendantsIn(F, x) \cup {f}
           /\ DescendantsIn(G, f) = {}
<1>1. ChildrenIn(G, f) = {}
  <2> SUFFICES ASSUME NEW g \in ChildrenIn(G, f) PROVE FALSE
    OBVIOUS
  <2>1. CASE g = f
    BY <2>1, PutChildren
  <2>2. CASE g # f
    BY <2>2, PutChildren
  <2> QED
    BY <2>1, <2>2
<1>2. DescendantsIn(G, f) \subseteq {}
  <2>1. {} \in SUBSET Folders /\ ChildrenIn(G, f) \subseteq {} /\ ClosedIn(G, {})
    BY <1>1 DEF ClosedIn
  <2> QED
    BY <2>1, DescendantsLeast
<1>3. ASSUME NEW x PROVE DescendantsIn(G, x) \subseteq DescendantsIn(F, x) \cup {f}
  <2> DEFINE D == DescendantsIn(F, x)
             S == D \cup {f}
  <2>1. D \in SUBSET Folders /\ ChildrenIn(F, x) \subseteq D /\ ClosedIn(F, D)
    BY DescendantsClosed
  <2>2. f \in Folders
    BY DEF Put
  <2> HIDE DEF D
  <2>3. ChildrenIn(G, x) \subseteq S
    BY <2>1, PutChildren
  <2>4. ASSUME NEW g \in S, NEW h \in ChildrenIn(G, g) PROVE h \in S
    <3>1. h # f => h \in ChildrenIn(F, g)
      BY <2>4, PutChildren
    <3>2. g # f
      BY <1>1, <2>4
    <3> QED
      BY <2>1, <2>4, <3>1, <3>2 DEF ClosedIn
  <2>5. S \in SUBSET Folders /\ ClosedIn(G, S)
    BY <2>1, <2>2, <2>4 DEF ClosedIn
  <2>6. DescendantsIn(G, x) \subseteq S
    BY <2>3, <2>5, DescendantsLeast
  <2> QED
    BY <2>6 DEF D
<1> QED
  BY <1>2, <1>3

\* A folder that goes neither into itself nor below itself closes no cycle.
LEMMA MovedIsAcyclic ==
    ASSUME NEW F, NEW G, NEW f, NEW p, Put(F, G, f, p), p # f, p \notin DescendantsIn(F, f),
           NEW g, g \notin DescendantsIn(F, g), f \notin DescendantsIn(F, f)
    PROVE  g \notin DescendantsIn(G, g)
<1> DEFINE D == DescendantsIn(F, f) \cup {f}
           E == DescendantsIn(F, g)
           S == IF p = g \/ p \in E THEN E \cup D ELSE E
<1>1. f \in Folders
  BY DEF Put
<1>2. D \in SUBSET Folders /\ ClosedIn(F, D) /\ f \in D
  BY <1>1, DescendantsClosed DEF ClosedIn
<1>3. E \in SUBSET Folders /\ ChildrenIn(F, g) \subseteq E /\ ClosedIn(F, E)
  BY DescendantsClosed
<1>4. (p = g \/ p \in E) => g \notin D
  <2>1. g \in DescendantsIn(F, f) => E \subseteq DescendantsIn(F, f)
    BY DescendantsNest
  <2> QED
    BY <2>1
<1>5. g \notin S
  BY <1>4
<1> HIDE DEF D, E
<1>6. S \in SUBSET Folders
  BY <1>2, <1>3
<1>7. ChildrenIn(G, g) \subseteq S
  <2> SUFFICES ASSUME NEW h \in ChildrenIn(G, g) PROVE h \in S
    OBVIOUS
  <2>1. CASE h = f
    BY <1>2, <2>1, PutChildren
  <2>2. CASE h # f
    BY <1>3, <2>2, PutChildren
  <2> QED
    BY <2>1, <2>2
<1>8. ClosedIn(G, S)
  <2> SUFFICES ASSUME NEW x \in S, NEW h \in ChildrenIn(G, x) PROVE h \in S
    BY DEF ClosedIn
  <2>1. CASE h = f
    <3>1. x = p
      BY <2>1, PutChildren
    <3>2. (p = g \/ p \in E) => f \in S
      BY <1>2
    <3>3. ~(p = g \/ p \in E) => S = E
      OBVIOUS
    <3> QED
      BY <2>1, <3>1, <3>2, <3>3
  <2>2. CASE h # f
    <3>1. h \in ChildrenIn(F, x)
      BY <2>2, PutChildren
    <3>2. CASE x \in E
      BY <1>3, <3>1, <3>2 DEF ClosedIn
    <3>3. CASE x \notin E
      <4>1. S = E \cup D
        BY <3>3
      <4>2. x \in D
        BY <3>3, <4>1
      <4>3. h \in D
        BY <1>2, <3>1, <4>2 DEF ClosedIn
      <4> QED
        BY <4>1, <4>3
    <3> QED
      BY <3>2, <3>3
  <2> QED
    BY <2>1, <2>2
<1>9. DescendantsIn(G, g) \subseteq S
  BY <1>6, <1>7, <1>8, DescendantsLeast
<1> QED
  BY <1>5, <1>9

\* A folder is no longer live.
LEMMA RemovedFolder ==
    ASSUME NEW F, NEW G, NEW f \in Folders, G[f].st # "live", \A g \in Folders \ {f} : G[g] = F[g]
    PROVE  /\ \A x : DescendantsIn(G, x) \subseteq DescendantsIn(F, x)
           /\ ChildrenIn(F, f) = {} => DescendantsIn(F, Root) \subseteq DescendantsIn(G, Root) \cup {f}
<1>1. \A x : ChildrenIn(G, x) \subseteq ChildrenIn(F, x) /\ ChildrenIn(F, x) \subseteq ChildrenIn(G, x) \cup {f}
  BY DEF ChildrenIn
<1>2. ASSUME NEW x PROVE DescendantsIn(G, x) \subseteq DescendantsIn(F, x)
  <2> DEFINE D == DescendantsIn(F, x)
  <2>1. D \in SUBSET Folders /\ ChildrenIn(F, x) \subseteq D /\ ClosedIn(F, D)
    BY DescendantsClosed
  <2> HIDE DEF D
  <2>2. ChildrenIn(G, x) \subseteq D /\ ClosedIn(G, D)
    BY <1>1, <2>1 DEF ClosedIn
  <2>3. DescendantsIn(G, x) \subseteq D
    BY <2>1, <2>2, DescendantsLeast
  <2> QED
    BY <2>3 DEF D
<1>3. ASSUME ChildrenIn(F, f) = {} PROVE DescendantsIn(F, Root) \subseteq DescendantsIn(G, Root) \cup {f}
  <2> DEFINE D == DescendantsIn(G, Root)
             S == D \cup {f}
  <2>1. D \in SUBSET Folders /\ ChildrenIn(G, Root) \subseteq D /\ ClosedIn(G, D)
    BY DescendantsClosed
  <2> HIDE DEF D
  <2>2. ChildrenIn(F, Root) \subseteq S
    BY <1>1, <2>1
  <2>3. ASSUME NEW g \in S, NEW h \in ChildrenIn(F, g) PROVE h \in S
    <3>1. g # f
      BY <1>3, <2>3
    <3>2. h = f \/ h \in ChildrenIn(G, g)
      BY <1>1, <2>3
    <3> QED
      BY <2>1, <2>3, <3>1, <3>2 DEF ClosedIn
  <2>4. S \in SUBSET Folders /\ ClosedIn(F, S)
    BY <2>1, <2>3 DEF ClosedIn
  <2>5. DescendantsIn(F, Root) \subseteq S
    BY <2>2, <2>4, DescendantsLeast
  <2> QED
    BY <2>5 DEF D
<1> QED
  BY <1>2, <1>3

-----------------------------------------------------------------------------
(* The handlers of folders. *)

LEMMA FoldersInitSound == FoldersInit => FoldersInv
<1> SUFFICES ASSUME FoldersInit PROVE FoldersInv
  OBVIOUS
<1>1. PICK c \in Folders : c = CHOOSE g \in Folders : TRUE
  BY FoldersAssumption
<1>2. /\ folder = [f \in Folders |-> [st |-> IF f = c THEN "none" ELSE "live", parent |-> Root]]
      /\ folderReq = [r \in FolderRequests |-> [pc |-> "idle", op |-> "none", f |-> c, to |-> Root]]
      /\ place \in {"none", Root} /\ uploadTo = "none" /\ orphans = {} /\ raced = FALSE /\ movesRaced = FALSE
  BY <1>1 DEF FoldersInit
<1>3. FoldersTypeOK
  BY <1>2 DEF FoldersTypeOK, FolderRow, FolderRequest, Parents
<1>4. ParentsExist /\ FolderRequestsKnow /\ CreationsApart /\ ChecksHold /\ SessionFolderKept
  BY <1>2, FoldersAssumption DEF ParentsExist, FolderRequestsKnow, CreationsApart, ChecksHold, SessionFolderKept, Wants
<1>5. \A x \in Folders : ChildrenIn(folder, x) = {}
  BY <1>2, FoldersAssumption DEF ChildrenIn, Root
<1>6. NothingLostByTurns
  <2>1. ChildrenIn(folder, Root) \subseteq DescendantsIn(folder, Root)
    BY DescendantsClosed
  <2>2. \A f \in Folders : folder[f].st = "live" => f \in ChildrenIn(folder, Root)
    BY <1>2 DEF ChildrenIn
  <2>3. place \notin Folders
    BY <1>2, FoldersAssumption DEF Root
  <2> QED
    BY <2>1, <2>2, <2>3, DescendantsAre DEF NothingLostByTurns, Shown
<1>7. NoCycleUnlessMovesRace
  <2>1. ASSUME NEW f \in Folders PROVE f \notin DescendantsIn(folder, f)
    <3>1. {} \in SUBSET Folders /\ ChildrenIn(folder, f) \subseteq {} /\ ClosedIn(folder, {})
      BY <1>5 DEF ClosedIn
    <3>2. DescendantsIn(folder, f) \subseteq {}
      BY <3>1, DescendantsLeast
    <3> QED
      BY <3>2
  <2> QED
    BY <2>1, DescendantsAre DEF NoCycleUnlessMovesRace
<1> QED
  BY <1>3, <1>4, <1>6, <1>7 DEF FoldersInv

\* What FolderWritten leaves of the requests: nobody else is under way unless they
\* have raced.
LEMMA Written ==
    ASSUME FoldersInv, NEW r \in FolderRequests, folderReq[r].pc = "checked", FolderWritten(r)
    PROVE  /\ (folderReq \in [FolderRequests -> FolderRequest])' /\ (raced \in BOOLEAN)' /\ (movesRaced \in BOOLEAN)'
           /\ \A q \in FolderRequests : folderReq'[q].pc = "checked" => q # r /\ folderReq'[q] = folderReq[q]
           /\ ~raced' => ~raced
           /\ ~movesRaced' => ~movesRaced
           /\ (~movesRaced' /\ folderReq[r].op = "move") =>
                 \A q \in FolderRequests : folderReq'[q].pc = "checked" => folderReq'[q].op # "move"
           /\ CreationsApart' /\ ChecksHold'
<1>1. PICK row \in FolderRequest : row = folderReq[r]
  BY DEF FoldersInv, FoldersTypeOK
<1> DEFINE q0 == [row EXCEPT !.pc = "done"]
<1>2. q0 \in FolderRequest /\ q0.pc = "done" /\ q0.op = row.op /\ q0.f = row.f
  BY DEF FolderRequest
<1>3. folderReq' = [folderReq EXCEPT ![r] = q0]
  BY <1>1 DEF FolderWritten
<1> HIDE DEF q0
<1>4. folderReq \in [FolderRequests -> FolderRequest] /\ raced \in BOOLEAN /\ movesRaced \in BOOLEAN
  BY DEF FoldersInv, FoldersTypeOK
<1>5. /\ folderReq' \in [FolderRequests -> FolderRequest]
      /\ folderReq'[r] = q0 /\ \A q \in FolderRequests \ {r} : folderReq'[q] = folderReq[q]
  BY <1>2, <1>3, <1>4
<1>6. \A q \in FolderRequests : folderReq'[q].pc = "checked" => q # r /\ folderReq'[q] = folderReq[q]
  BY <1>2, <1>5
<1> DEFINE others == {q \in FolderRequests \ {r} : folderReq[q].pc = "checked"}
<1>7. /\ raced' = (raced \/ others # {})
      /\ movesRaced' = (movesRaced \/ (folderReq[r].op = "move" /\ \E q \in others : folderReq[q].op = "move"))
  BY DEF FolderWritten
<1>8. (raced \in BOOLEAN)' /\ (movesRaced \in BOOLEAN)'
  BY <1>4, <1>7
<1>9. (~raced' => ~raced /\ others = {}) /\ (~movesRaced' => ~movesRaced)
  BY <1>7
<1>10. (~movesRaced' /\ folderReq[r].op = "move") =>
          \A q \in FolderRequests : folderReq'[q].pc = "checked" => folderReq'[q].op # "move"
  BY <1>6, <1>7
<1>11. CreationsApart'
  BY <1>1, <1>2, <1>5 DEF CreationsApart, FoldersInv
<1>12. ~raced' => \A q \in FolderRequests : folderReq'[q].pc # "checked"
  BY <1>6, <1>9
<1>13. ChecksHold'
  BY <1>12 DEF ChecksHold, Wants
<1> QED
  BY <1>5, <1>6, <1>8, <1>9, <1>10, <1>11, <1>13

StillKnows(q) ==
    /\ folderReq'[q].op = "create" => folder'[folderReq'[q].f].st = "none"
    /\ folderReq'[q].op \in {"move", "delete"} => folder'[folderReq'[q].f].st # "none"
    /\ folderReq'[q].op \in {"create", "move"} =>
          folderReq'[q].to = Root \/ folder'[folderReq'[q].to].st # "none"
    /\ (folderReq'[q].op = "move" /\ ~movesRaced') =>
          /\ folderReq'[q].to # folderReq'[q].f
          /\ folderReq'[q].to \notin DescendantsIn(folder', folderReq'[q].f)

LEMMA RequestsStillKnow ==
    ASSUME \A q \in FolderRequests : folderReq'[q].pc = "checked" => StillKnows(q)
    PROVE  FolderRequestsKnow'
<1>1. ASSUME NEW q \in FolderRequests, folderReq'[q].to # folderReq'[q].f,
             folderReq'[q].to \notin DescendantsIn(folder', folderReq'[q].f)
      PROVE  FolderCanMove(folderReq[q].f, folderReq[q].to)'
  BY <1>1 DEF FolderCanMove, Descendants, Children, DescendantsIn, ChildrenIn, ClosedIn
<1> QED
  BY <1>1 DEF StillKnows, FolderRequestsKnow, Wants

LEMMA CreateAssetFolderSound ==
    ASSUME FoldersInv, NEW r \in FolderRequests, CreateAssetFolder(r)
    PROVE  FoldersInv'
<1>1. PICK f \in Folders, p \in Parents : f = folderReq[r].f /\ p = folderReq[r].to
  BY DEF FoldersInv, FoldersTypeOK, FolderRequest
<1> DEFINE n == [st |-> "live", parent |-> p]
<1>2. /\ folderReq[r].pc = "checked" /\ folderReq[r].op = "create" /\ FolderWritten(r)
      /\ place' = place /\ uploadTo' = uploadTo /\ orphans' = orphans
      /\ folder' = [folder EXCEPT ![f] = n]
  BY <1>1 DEF CreateAssetFolder
<1>3. /\ (folderReq \in [FolderRequests -> FolderRequest])' /\ (raced \in BOOLEAN)' /\ (movesRaced \in BOOLEAN)'
      /\ \A q \in FolderRequests : folderReq'[q].pc = "checked" => q # r /\ folderReq'[q] = folderReq[q]
      /\ ~raced' => ~raced
      /\ ~movesRaced' => ~movesRaced
      /\ CreationsApart' /\ ChecksHold'
  BY <1>2, Written
<1>4. folder \in [Folders -> FolderRow] /\ n \in FolderRow /\ n.st = "live" /\ n.parent = p
  BY DEF FoldersInv, FoldersTypeOK, FolderRow
<1> HIDE DEF n
<1>5. folder' \in [Folders -> FolderRow] /\ folder'[f] = n /\ \A g \in Folders \ {f} : folder'[g] = folder[g]
  BY <1>2, <1>4
<1>6. folder[f].st = "none" /\ (p = Root \/ folder[p].st # "none")
  BY <1>1, <1>2 DEF FoldersInv, FolderRequestsKnow, Wants
<1>7. f # Root
  BY FoldersAssumption DEF Root
<1>8. p # f
  BY <1>6, <1>7
<1>9. Put(folder, folder', f, p)
  BY <1>4, <1>5 DEF Put
<1>10. ChildrenIn(folder, f) = {}
  <2> SUFFICES ASSUME NEW g \in ChildrenIn(folder, f) PROVE FALSE
    OBVIOUS
  <2>1. g \in Folders /\ folder[g].st = "live" /\ folder[g].parent = f
    BY DEF ChildrenIn
  <2> QED
    BY <1>6, <1>7, <2>1 DEF FoldersInv, ParentsExist
<1>11. FoldersTypeOK'
  BY <1>2, <1>3, <1>5 DEF FoldersInv, FoldersTypeOK
<1>12. ParentsExist'
  <2> SUFFICES ASSUME NEW g \in Folders, folder'[g].st # "none"
               PROVE  folder'[g].parent = Root \/ folder'[folder'[g].parent].st # "none"
    BY DEF ParentsExist
  <2>1. \A x \in Folders : folder[x].st # "none" => folder'[x].st # "none"
    BY <1>4, <1>5
  <2>2. folder'[g].parent \in Parents
    BY <1>5 DEF FolderRow
  <2>3. CASE g = f
    BY <1>4, <1>5, <1>6, <2>1, <2>2, <2>3 DEF Parents
  <2>4. CASE g # f
    BY <1>5, <2>1, <2>2, <2>4 DEF FoldersInv, ParentsExist, Parents
  <2> QED
    BY <2>3, <2>4
<1>13. FolderRequestsKnow'
  <2> SUFFICES ASSUME NEW q \in FolderRequests, folderReq'[q].pc = "checked" PROVE StillKnows(q)
    BY RequestsStillKnow
  <2>1. q # r /\ folderReq'[q] = folderReq[q] /\ folderReq[q].pc = "checked"
    BY <1>3
  <2>2. PICK x \in Folders, y \in Parents : x = folderReq[q].f /\ y = folderReq[q].to
    BY DEF FoldersInv, FoldersTypeOK, FolderRequest
  <2>3. \A z \in Folders : folder[z].st # "none" => folder'[z].st # "none"
    BY <1>4, <1>5
  <2>4. folderReq[q].op = "create" => folder'[x].st = "none"
    <3> SUFFICES ASSUME folderReq[q].op = "create" PROVE folder'[x].st = "none"
      OBVIOUS
    <3>1. x # f
      BY <1>1, <1>2, <2>1, <2>2 DEF FoldersInv, CreationsApart
    <3> QED
      BY <1>5, <2>1, <2>2, <3>1 DEF FoldersInv, FolderRequestsKnow, Wants
  <2>5. folderReq[q].op \in {"move", "delete"} => folder'[x].st # "none"
    BY <2>1, <2>2, <2>3 DEF FoldersInv, FolderRequestsKnow, Wants
  <2>6. folderReq[q].op \in {"create", "move"} => y = Root \/ folder[y].st # "none"
    BY <2>1, <2>2 DEF FoldersInv, FolderRequestsKnow, Wants
  <2>7. folderReq[q].op \in {"create", "move"} => y = Root \/ folder'[y].st # "none"
    BY <2>2, <2>3, <2>6 DEF Parents
  <2>8. ASSUME folderReq[q].op = "move", ~movesRaced' PROVE y # x /\ y \notin DescendantsIn(folder', x)
    <3>1. y # x /\ y \notin DescendantsIn(folder, x)
      BY <1>3, <2>1, <2>2, <2>8, DescendantsAre DEF FoldersInv, FolderRequestsKnow, Wants, FolderCanMove
    <3>2. y # f
      BY <1>6, <1>7, <2>6, <2>8
    <3>3. y \notin DescendantsIn(folder', x)
      BY <1>8, <1>9, <1>10, <3>1, <3>2, PutBelow
    <3> QED
      BY <3>1, <3>3
  <2> QED
    BY <2>1, <2>2, <2>4, <2>5, <2>7, <2>8 DEF StillKnows
<1>14. NothingLostByTurns'
  <2> SUFFICES ASSUME ~raced'
               PROVE  /\ \A g \in Folders : folder'[g].st = "live" => g \in DescendantsIn(folder', Root)
                      /\ place' \in Folders \ orphans' => place' \in DescendantsIn(folder', Root)
    BY DescendantsAre DEF NothingLostByTurns, Shown
  <2>1. ~raced
    BY <1>3
  <2>2. /\ \A g \in Folders : folder[g].st = "live" => g \in DescendantsIn(folder, Root)
        /\ place \in Folders \ orphans => place \in DescendantsIn(folder, Root)
    BY <2>1, DescendantsAre DEF FoldersInv, NothingLostByTurns, Shown
  <2>3. p = Root \/ folder[p].st = "live"
    BY <1>1, <1>2, <2>1 DEF FoldersInv, ChecksHold, Wants, FolderBelongs
  <2>4. p = Root \/ p \in DescendantsIn(folder, Root)
    BY <2>2, <2>3 DEF Parents
  <2>5. f \in DescendantsIn(folder', Root) /\ DescendantsIn(folder, Root) \subseteq DescendantsIn(folder', Root)
    BY <1>6, <1>9, <2>4, PutIsShown
  <2> QED
    BY <1>2, <1>5, <2>2, <2>5
<1>15. NoCycleUnlessMovesRace'
  <2> SUFFICES ASSUME ~movesRaced', NEW g \in Folders, folder'[g].st = "live"
               PROVE  g \notin DescendantsIn(folder', g)
    BY DescendantsAre DEF NoCycleUnlessMovesRace
  <2>1. CASE g = f
    BY <1>8, <1>9, <1>10, <2>1, PutBelow
  <2>2. CASE g # f
    <3>1. g \notin DescendantsIn(folder, g)
      BY <1>3, <1>5, <2>2, DescendantsAre DEF FoldersInv, NoCycleUnlessMovesRace
    <3> QED
      BY <1>8, <1>9, <1>10, <2>2, <3>1, PutBelow
  <2> QED
    BY <2>1, <2>2
<1>16. SessionFolderKept'
  BY <1>2, <1>3, <1>4, <1>5 DEF FoldersInv, SessionFolderKept
<1> QED
  BY <1>3, <1>11, <1>12, <1>13, <1>14, <1>15, <1>16 DEF FoldersInv

\* A write that makes no folder, adds nobody below anybody and forgets no row:
\* the requests under way know what they knew.
LEMMA KnowledgeKept ==
    ASSUME FoldersInv, NEW r \in FolderRequests, folderReq[r].pc = "checked", FolderWritten(r),
           \A g \in Folders : folder'[g].st = "none" <=> folder[g].st = "none",
           folderReq[r].op = "move" \/ \A x \in Folders : DescendantsIn(folder', x) \subseteq DescendantsIn(folder, x)
    PROVE  FolderRequestsKnow'
<1> SUFFICES ASSUME NEW q \in FolderRequests, folderReq'[q].pc = "checked" PROVE StillKnows(q)
  BY RequestsStillKnow
<1>1. /\ folderReq'[q] = folderReq[q] /\ folderReq[q].pc = "checked"
      /\ ~movesRaced' => ~movesRaced
      /\ (~movesRaced' /\ folderReq[r].op = "move") => folderReq'[q].op # "move"
  BY Written
<1>2. PICK x \in Folders, y \in Parents : x = folderReq[q].f /\ y = folderReq[q].to
  BY DEF FoldersInv, FoldersTypeOK, FolderRequest
<1>3. folderReq[q].op = "create" => folder[x].st = "none"
  BY <1>1, <1>2 DEF FoldersInv, FolderRequestsKnow, Wants
<1>4. folderReq[q].op \in {"move", "delete"} => folder[x].st # "none"
  BY <1>1, <1>2 DEF FoldersInv, FolderRequestsKnow, Wants
<1>5. folderReq[q].op \in {"create", "move"} => y = Root \/ folder[y].st # "none"
  BY <1>1, <1>2 DEF FoldersInv, FolderRequestsKnow, Wants
<1>6. folderReq[q].op \in {"create", "move"} => y = Root \/ folder'[y].st # "none"
  BY <1>2, <1>5 DEF Parents
<1>7. ASSUME folderReq[q].op = "move", ~movesRaced' PROVE y # x /\ y \notin DescendantsIn(folder', x)
  <2>1. y # x /\ y \notin DescendantsIn(folder, x)
    BY <1>1, <1>2, <1>7, DescendantsAre DEF FoldersInv, FolderRequestsKnow, Wants, FolderCanMove
  <2>2. DescendantsIn(folder', x) \subseteq DescendantsIn(folder, x)
    BY <1>1, <1>2, <1>7
  <2> QED
    BY <2>1, <2>2
<1> QED
  BY <1>1, <1>2, <1>3, <1>4, <1>6, <1>7 DEF StillKnows

LEMMA UpdateAssetFolderSound ==
    ASSUME FoldersInv, NEW r \in FolderRequests, UpdateAssetFolder(r)
    PROVE  FoldersInv'
<1>1. PICK f \in Folders, p \in Parents : f = folderReq[r].f /\ p = folderReq[r].to
  BY DEF FoldersInv, FoldersTypeOK, FolderRequest
<1>2. PICK row \in FolderRow : row = folder[f]
  BY DEF FoldersInv, FoldersTypeOK
<1> DEFINE n == [row EXCEPT !.parent = IF row.st = "live" THEN p ELSE row.parent]
<1>3. /\ folderReq[r].pc = "checked" /\ folderReq[r].op = "move" /\ FolderWritten(r)
      /\ place' = place /\ uploadTo' = uploadTo /\ orphans' = orphans
      /\ folder' = [folder EXCEPT ![f] = n]
  BY <1>1, <1>2 DEF UpdateAssetFolder
<1>4. /\ folder \in [Folders -> FolderRow] /\ n \in FolderRow /\ n.st = row.st
      /\ n.parent = IF row.st = "live" THEN p ELSE row.parent
  BY DEF FoldersInv, FoldersTypeOK, FolderRow
<1>5. row.st # "live" => n = row
  BY DEF FolderRow
<1> HIDE DEF n
<1>6. /\ (folderReq \in [FolderRequests -> FolderRequest])' /\ (raced \in BOOLEAN)' /\ (movesRaced \in BOOLEAN)'
      /\ ~raced' => ~raced
      /\ ~movesRaced' => ~movesRaced
      /\ CreationsApart' /\ ChecksHold'
  BY <1>3, Written
<1>7. folder' \in [Folders -> FolderRow] /\ folder'[f] = n /\ \A g \in Folders \ {f} : folder'[g] = folder[g]
  BY <1>3, <1>4
<1>8. \A g \in Folders : folder'[g].st = folder[g].st
  BY <1>2, <1>4, <1>7
<1>9. p = Root \/ folder[p].st # "none"
  BY <1>1, <1>3 DEF FoldersInv, FolderRequestsKnow, Wants
<1>10. FoldersTypeOK'
  BY <1>3, <1>6, <1>7 DEF FoldersInv, FoldersTypeOK
<1>11. ParentsExist'
  <2> SUFFICES ASSUME NEW g \in Folders, folder'[g].st # "none"
               PROVE  folder'[g].parent = Root \/ folder'[folder'[g].parent].st # "none"
    BY DEF ParentsExist
  <2>1. folder[g].parent \in Parents /\ (folder[g].parent = Root \/ folder[folder[g].parent].st # "none")
    BY <1>4, <1>8 DEF FoldersInv, ParentsExist, FolderRow
  <2>2. folder'[g].parent = folder[g].parent \/ folder'[g].parent = p
    BY <1>2, <1>4, <1>7
  <2> QED
    BY <1>8, <1>9, <2>1, <2>2 DEF Parents
<1>12. FolderRequestsKnow'
  BY <1>3, <1>8, KnowledgeKept
<1>13. SessionFolderKept'
  BY <1>3, <1>6, <1>8 DEF FoldersInv, SessionFolderKept
<1>14. CASE row.st # "live"
  <2>1. folder' = folder
    BY <1>2, <1>4, <1>5, <1>7, <1>14
  <2>2. NothingLostByTurns'
    BY <1>3, <1>6, <2>1, DescendantsAre DEF FoldersInv, NothingLostByTurns, Shown
  <2>3. NoCycleUnlessMovesRace'
    BY <1>6, <2>1, DescendantsAre DEF FoldersInv, NoCycleUnlessMovesRace
  <2> QED
    BY <1>6, <1>10, <1>11, <1>12, <1>13, <2>2, <2>3 DEF FoldersInv
<1>15. CASE row.st = "live"
  <2>1. Put(folder, folder', f, p)
    BY <1>4, <1>7, <1>15 DEF Put
  <2>2. NothingLostByTurns'
    <3> SUFFICES ASSUME ~raced'
                 PROVE  /\ \A g \in Folders : folder'[g].st = "live" => g \in DescendantsIn(folder', Root)
                        /\ place' \in Folders \ orphans' => place' \in DescendantsIn(folder', Root)
      BY DescendantsAre DEF NothingLostByTurns, Shown
    <3>1. ~raced
      BY <1>6
    <3>2. /\ \A g \in Folders : folder[g].st = "live" => g \in DescendantsIn(folder, Root)
          /\ place \in Folders \ orphans => place \in DescendantsIn(folder, Root)
      BY <3>1, DescendantsAre DEF FoldersInv, NothingLostByTurns, Shown
    <3>3. (p = Root \/ folder[p].st = "live") /\ p # f /\ p \notin DescendantsIn(folder, f)
      BY <1>1, <1>3, <3>1, DescendantsAre DEF FoldersInv, ChecksHold, Wants, FolderBelongs, FolderCanMove
    <3>4. p = Root \/ p \in DescendantsIn(folder, Root)
      BY <3>2, <3>3 DEF Parents
    <3>5. DescendantsIn(folder, Root) \subseteq DescendantsIn(folder', Root)
      BY <2>1, <3>3, <3>4, MovedIsShown
    <3> QED
      BY <1>3, <1>8, <3>2, <3>5
  <2>3. NoCycleUnlessMovesRace'
    <3> SUFFICES ASSUME ~movesRaced', NEW g \in Folders, folder'[g].st = "live"
                 PROVE  g \notin DescendantsIn(folder', g)
      BY DescendantsAre DEF NoCycleUnlessMovesRace
    <3>1. ~movesRaced
      BY <1>6
    <3>2. p # f /\ p \notin DescendantsIn(folder, f)
      BY <1>1, <1>3, <3>1, DescendantsAre DEF FoldersInv, FolderRequestsKnow, Wants, FolderCanMove
    <3>3. g \notin DescendantsIn(folder, g) /\ f \notin DescendantsIn(folder, f)
      BY <1>2, <1>8, <1>15, <3>1, DescendantsAre DEF FoldersInv, NoCycleUnlessMovesRace
    <3> QED
      BY <2>1, <3>2, <3>3, MovedIsAcyclic
  <2> QED
    BY <1>6, <1>10, <1>11, <1>12, <1>13, <2>2, <2>3 DEF FoldersInv
<1> QED
  BY <1>14, <1>15

LEMMA DeleteAssetFolderSound ==
    ASSUME FoldersInv, NEW r \in FolderRequests, DeleteAssetFolder(r)
    PROVE  FoldersInv'
<1>1. PICK f \in Folders : f = folderReq[r].f
  BY DEF FoldersInv, FoldersTypeOK, FolderRequest
<1>2. PICK row \in FolderRow : row = folder[f]
  BY DEF FoldersInv, FoldersTypeOK
<1> DEFINE n == [row EXCEPT !.st = "deleted"]
<1>3. /\ folderReq[r].pc = "checked" /\ folderReq[r].op = "delete" /\ FolderWritten(r)
      /\ place' = place /\ uploadTo' = uploadTo /\ orphans' = orphans \cup ({f} \cap {uploadTo})
      /\ folder' = [folder EXCEPT ![f] = n]
  BY <1>1, <1>2 DEF DeleteAssetFolder
<1>4. folder \in [Folders -> FolderRow] /\ n \in FolderRow /\ n.st = "deleted" /\ n.parent = row.parent
  BY DEF FoldersInv, FoldersTypeOK, FolderRow
<1> HIDE DEF n
<1>5. /\ (folderReq \in [FolderRequests -> FolderRequest])' /\ (raced \in BOOLEAN)' /\ (movesRaced \in BOOLEAN)'
      /\ ~raced' => ~raced
      /\ ~movesRaced' => ~movesRaced
      /\ CreationsApart' /\ ChecksHold'
  BY <1>3, Written
<1>6. folder' \in [Folders -> FolderRow] /\ folder'[f] = n /\ \A g \in Folders \ {f} : folder'[g] = folder[g]
  BY <1>3, <1>4
<1>7. row.st # "none"
  BY <1>1, <1>2, <1>3 DEF FoldersInv, FolderRequestsKnow, Wants
<1>8. \A g \in Folders : folder'[g].st = "none" <=> folder[g].st = "none"
  BY <1>2, <1>4, <1>6, <1>7
<1>9. folder'[f].st # "live"
  BY <1>4, <1>6
<1>10. /\ \A x : DescendantsIn(folder', x) \subseteq DescendantsIn(folder, x)
       /\ ChildrenIn(folder, f) = {} => DescendantsIn(folder, Root) \subseteq DescendantsIn(folder', Root) \cup {f}
  BY <1>6, <1>9, RemovedFolder
<1>11. FoldersTypeOK'
  BY <1>3, <1>5, <1>6 DEF FoldersInv, FoldersTypeOK
<1>12. ParentsExist'
  <2> SUFFICES ASSUME NEW g \in Folders, folder'[g].st # "none"
               PROVE  folder'[g].parent = Root \/ folder'[folder'[g].parent].st # "none"
    BY DEF ParentsExist
  <2>1. folder[g].parent \in Parents /\ (folder[g].parent = Root \/ folder[folder[g].parent].st # "none")
    BY <1>4, <1>8 DEF FoldersInv, ParentsExist, FolderRow
  <2>2. folder'[g].parent = folder[g].parent
    BY <1>2, <1>4, <1>6
  <2> QED
    BY <1>8, <2>1, <2>2 DEF Parents
<1>13. FolderRequestsKnow'
  BY <1>3, <1>8, <1>10, KnowledgeKept
<1>14. NothingLostByTurns'
  <2> SUFFICES ASSUME ~raced'
               PROVE  /\ \A g \in Folders : folder'[g].st = "live" => g \in DescendantsIn(folder', Root)
                      /\ place' \in Folders \ orphans' => place' \in DescendantsIn(folder', Root)
    BY DescendantsAre DEF NothingLostByTurns, Shown
  <2>1. ~raced
    BY <1>5
  <2>2. /\ \A g \in Folders : folder[g].st = "live" => g \in DescendantsIn(folder, Root)
        /\ place \in Folders \ orphans => place \in DescendantsIn(folder, Root)
    BY <2>1, DescendantsAre DEF FoldersInv, NothingLostByTurns, Shown
  <2>3. ChildrenIn(folder, f) = {} /\ place # f
    BY <1>1, <1>3, <2>1, DescendantsAre DEF FoldersInv, ChecksHold, Wants, FolderEmpty
  <2>4. DescendantsIn(folder, Root) \subseteq DescendantsIn(folder', Root) \cup {f}
    BY <1>10, <2>3
  <2> QED
    BY <1>3, <1>6, <1>9, <2>2, <2>3, <2>4
<1>15. NoCycleUnlessMovesRace'
  <2> SUFFICES ASSUME ~movesRaced', NEW g \in Folders, folder'[g].st = "live"
               PROVE  g \notin DescendantsIn(folder', g)
    BY DescendantsAre DEF NoCycleUnlessMovesRace
  <2>1. g \notin DescendantsIn(folder, g)
    BY <1>5, <1>6, <1>9, DescendantsAre DEF FoldersInv, NoCycleUnlessMovesRace
  <2> QED
    BY <1>10, <2>1
<1>16. SessionFolderKept'
  BY <1>3, <1>5, <1>6 DEF FoldersInv, SessionFolderKept
<1> QED
  BY <1>5, <1>11, <1>12, <1>13, <1>14, <1>15, <1>16 DEF FoldersInv

\* Who writes only where the asset is, or where it is to go, takes a folder that
\* it has checked or that was already in one of the two places.
LEMMA AssetFiledSound ==
    ASSUME FoldersInv, NEW r \in FolderRequests, folderReq[r].pc = "checked", FolderWritten(r),
           folderReq[r].op \in {"file", "grant", "upload", "direct"},
           folder' = folder, orphans' = orphans,
           place' \in Parents \cup {"none", "deleted"}, uploadTo' \in Parents \cup {"none"},
           \A x \in {place', uploadTo'} :
               \/ x \in {place, uploadTo, "none"}
               \/ folderReq[r].op # "upload" /\ x = folderReq[r].to
    PROVE  FoldersInv'
<1>1. PICK p \in Parents : p = folderReq[r].to
  BY DEF FoldersInv, FoldersTypeOK, FolderRequest
<1>2. /\ (folderReq \in [FolderRequests -> FolderRequest])' /\ (raced \in BOOLEAN)' /\ (movesRaced \in BOOLEAN)'
      /\ ~raced' => ~raced
      /\ ~movesRaced' => ~movesRaced
      /\ CreationsApart' /\ ChecksHold'
  BY Written
<1>3. FoldersTypeOK' /\ ParentsExist'
  BY <1>2 DEF FoldersInv, FoldersTypeOK, ParentsExist
<1>4. FolderRequestsKnow'
  BY KnowledgeKept
<1>5. ASSUME ~raced', NEW x \in {place', uploadTo'}, x \in Folders \ orphans PROVE folder[x].st = "live"
  <2>1. ~raced
    BY <1>2, <1>5
  <2>2. CASE x = place
    <3>1. x \in DescendantsIn(folder, Root)
      BY <1>5, <2>1, <2>2, DescendantsAre DEF FoldersInv, NothingLostByTurns, Shown
    <3> QED
      BY <3>1, DescendantsLive
  <2>3. CASE x = uploadTo
    BY <1>5, <2>1, <2>3 DEF FoldersInv, SessionFolderKept
  <2>4. CASE folderReq[r].op # "upload" /\ x = p
    BY <1>1, <1>5, <2>1, <2>4, FoldersAssumption DEF FoldersInv, ChecksHold, Wants, FolderBelongs, Root
  <2> QED
    BY <1>1, <1>5, <2>2, <2>3, <2>4, FoldersAssumption
<1>6. NothingLostByTurns'
  <2> SUFFICES ASSUME ~raced'
               PROVE  /\ \A g \in Folders : folder[g].st = "live" => g \in DescendantsIn(folder, Root)
                      /\ place' \in Folders \ orphans => place' \in DescendantsIn(folder, Root)
    BY DescendantsAre DEF NothingLostByTurns, Shown
  <2>1. \A g \in Folders : folder[g].st = "live" => g \in DescendantsIn(folder, Root)
    BY <1>2, DescendantsAre DEF FoldersInv, NothingLostByTurns, Shown
  <2> QED
    BY <1>5, <2>1
<1>7. SessionFolderKept'
  BY <1>5 DEF SessionFolderKept
<1>8. NoCycleUnlessMovesRace'
  BY <1>2, DescendantsAre DEF FoldersInv, NoCycleUnlessMovesRace
<1> QED
  BY <1>2, <1>3, <1>4, <1>6, <1>7, <1>8 DEF FoldersInv

LEMMA AssetFilersSound ==
    ASSUME FoldersInv, NEW r \in FolderRequests,
           FileAsset(r) \/ GrantUpload(r) \/ UploadIntoFolder(r) \/ DirectUploadIntoFolder(r)
    PROVE  FoldersInv'
<1>1. folderReq[r].to \in Parents /\ place \in Parents \cup {"none", "deleted"} /\ uploadTo \in Parents \cup {"none"}
  BY DEF FoldersInv, FoldersTypeOK, FolderRequest
<1>2. CASE FileAsset(r)
  BY <1>1, <1>2, AssetFiledSound DEF FileAsset
<1>3. CASE GrantUpload(r)
  BY <1>1, <1>3, AssetFiledSound DEF GrantUpload
<1>4. CASE UploadIntoFolder(r)
  BY <1>1, <1>4, AssetFiledSound DEF UploadIntoFolder
<1>5. CASE DirectUploadIntoFolder(r)
  BY <1>1, <1>5, AssetFiledSound DEF DirectUploadIntoFolder
<1> QED
  BY <1>2, <1>3, <1>4, <1>5

LEMMA RemoveAssetSound ==
    ASSUME FoldersInv, RemoveAsset
    PROVE  FoldersInv'
<1>1. /\ place' = "deleted" /\ uploadTo' = uploadTo /\ orphans' = orphans
      /\ folder' = folder /\ folderReq' = folderReq /\ raced' = raced /\ movesRaced' = movesRaced
  BY DEF RemoveAsset
<1>2. "deleted" \notin Folders
  BY FoldersAssumption
<1>3. FoldersTypeOK' /\ ParentsExist' /\ CreationsApart' /\ SessionFolderKept'
  BY <1>1 DEF FoldersInv, FoldersTypeOK, ParentsExist, CreationsApart, SessionFolderKept
<1>4. FolderRequestsKnow'
  BY <1>1 DEF FoldersInv, FolderRequestsKnow, Wants, FolderCanMove, Descendants, Children
<1>5. ChecksHold'
  <2> SUFFICES ASSUME ~raced, NEW r \in FolderRequests
               PROVE  /\ Wants(r, {"create", "move", "file", "grant", "direct"}) => FolderBelongs(folderReq[r].to)
                      /\ Wants(r, {"move"}) => FolderCanMove(folderReq[r].f, folderReq[r].to)
                      /\ Wants(r, {"delete"}) => Children(folderReq[r].f) = {} /\ "deleted" # folderReq[r].f
    BY <1>1 DEF ChecksHold, Wants, FolderBelongs, FolderCanMove, FolderEmpty, Descendants, Children
  <2>1. folderReq[r].f \in Folders
    BY DEF FoldersInv, FoldersTypeOK, FolderRequest
  <2> QED
    BY <1>2, <2>1 DEF FoldersInv, ChecksHold, FolderEmpty
<1>6. NothingLostByTurns' /\ NoCycleUnlessMovesRace'
  BY <1>1, <1>2, DescendantsAre DEF FoldersInv, NothingLostByTurns, NoCycleUnlessMovesRace, Shown
<1> QED
  BY <1>3, <1>4, <1>5, <1>6 DEF FoldersInv

LEMMA FolderReadSound ==
    ASSUME FoldersInv, NEW r \in FolderRequests, FolderRead(r)
    PROVE  FoldersInv'
<1>1. PICK op \in {"create", "move", "delete", "file", "grant", "upload", "direct"}, f \in Folders, p \in Parents :
         /\ FolderChecks(op, f, p)
         /\ op = "create" => \A q \in FolderRequests : ~(folderReq[q].op = "create" /\ folderReq[q].f = f)
         /\ folderReq' = [folderReq EXCEPT ![r] = [pc |-> "checked", op |-> op, f |-> f, to |-> p]]
  BY DEF FolderRead, SameId
<1>2. /\ folder' = folder /\ place' = place /\ raced' = raced /\ movesRaced' = movesRaced
      /\ uploadTo' = uploadTo /\ orphans' = orphans
  BY DEF FolderRead
<1> DEFINE n == [pc |-> "checked", op |-> op, f |-> f, to |-> p]
<1>3. n \in FolderRequest /\ n.pc = "checked" /\ n.op = op /\ n.f = f /\ n.to = p
  BY DEF FolderRequest
<1> HIDE DEF n
<1>4. /\ folderReq' \in [FolderRequests -> FolderRequest] /\ folderReq'[r] = n
      /\ \A q \in FolderRequests \ {r} : folderReq'[q] = folderReq[q]
  BY <1>1, <1>3 DEF FoldersInv, FoldersTypeOK, n
<1>5. /\ op = "create" => folder[f].st = "none"
      /\ op \in {"move", "delete"} => folder[f].st = "live"
      /\ op \in {"create", "move", "file", "grant", "direct"} => (p = Root \/ folder[p].st = "live")
      /\ op = "move" => p # f /\ p \notin DescendantsIn(folder, f)
      /\ op = "delete" => ChildrenIn(folder, f) = {} /\ place # f
  <2>1. CASE op = "create"
    BY <1>1, <2>1 DEF FolderChecks, FolderBelongs
  <2>2. CASE op = "move"
    BY <1>1, <2>2, DescendantsAre DEF FolderChecks, FolderBelongs, FolderCanMove
  <2>3. CASE op = "delete"
    BY <1>1, <2>3, DescendantsAre DEF FolderChecks, FolderEmpty
  <2>4. CASE op \in {"file", "grant", "direct"}
    BY <1>1, <2>4 DEF FolderChecks, FolderBelongs
  <2> QED
    BY <2>1, <2>2, <2>3, <2>4
<1>6. FoldersTypeOK' /\ ParentsExist' /\ SessionFolderKept'
  BY <1>2, <1>4 DEF FoldersInv, FoldersTypeOK, ParentsExist, SessionFolderKept
<1>7. CreationsApart'
  BY <1>1, <1>3, <1>4 DEF FoldersInv, CreationsApart
<1>8. FolderRequestsKnow'
  <2> SUFFICES ASSUME NEW q \in FolderRequests, folderReq'[q].pc = "checked" PROVE StillKnows(q)
    BY RequestsStillKnow
  <2>1. CASE q = r
    BY <1>2, <1>3, <1>4, <1>5, <2>1 DEF StillKnows
  <2>2. CASE q # r
    <3>1. folderReq'[q] = folderReq[q] /\ folderReq[q].pc = "checked"
      BY <1>4, <2>2
    <3> QED
      BY <1>2, <3>1, DescendantsAre DEF FoldersInv, FolderRequestsKnow, Wants, FolderCanMove, StillKnows
  <2> QED
    BY <2>1, <2>2
<1>9. ChecksHold'
  <2> SUFFICES ASSUME ~raced, NEW q \in FolderRequests, folderReq'[q].pc = "checked"
               PROVE  /\ folderReq'[q].op \in {"create", "move", "file", "grant", "direct"} =>
                            folderReq'[q].to = Root \/ folder[folderReq'[q].to].st = "live"
                      /\ folderReq'[q].op = "move" =>
                            /\ folderReq'[q].to # folderReq'[q].f
                            /\ folderReq'[q].to \notin DescendantsIn(folder, folderReq'[q].f)
                      /\ folderReq'[q].op = "delete" =>
                            ChildrenIn(folder, folderReq'[q].f) = {} /\ place # folderReq'[q].f
    BY <1>2 DEF ChecksHold, Wants, FolderBelongs, FolderCanMove, FolderEmpty, Descendants, Children,
                DescendantsIn, ChildrenIn, ClosedIn
  <2>1. CASE q = r
    BY <1>3, <1>4, <1>5, <2>1
  <2>2. CASE q # r
    <3>1. folderReq'[q] = folderReq[q] /\ folderReq[q].pc = "checked"
      BY <1>4, <2>2
    <3> QED
      BY <3>1, DescendantsAre DEF FoldersInv, ChecksHold, Wants, FolderBelongs, FolderCanMove, FolderEmpty
  <2> QED
    BY <2>1, <2>2
<1>10. NothingLostByTurns' /\ NoCycleUnlessMovesRace'
  BY <1>2, DescendantsAre DEF FoldersInv, NothingLostByTurns, NoCycleUnlessMovesRace, Shown
<1> QED
  BY <1>6, <1>7, <1>8, <1>9, <1>10 DEF FoldersInv

LEMMA FoldersStep ==
    ASSUME FoldersInv, FoldersNext
    PROVE  FoldersInv'
  BY FolderReadSound, CreateAssetFolderSound, UpdateAssetFolderSound, DeleteAssetFolderSound,
     AssetFilersSound, RemoveAssetSound DEF FoldersNext

LEMMA FoldersStutter ==
    ASSUME FoldersInv, UNCHANGED folderVars
    PROVE  FoldersInv'
<1>1. /\ folder' = folder /\ place' = place /\ uploadTo' = uploadTo /\ orphans' = orphans
      /\ folderReq' = folderReq /\ raced' = raced /\ movesRaced' = movesRaced
  BY DEF folderVars
<1>2. FoldersTypeOK' /\ ParentsExist' /\ CreationsApart' /\ SessionFolderKept'
  BY <1>1 DEF FoldersInv, FoldersTypeOK, ParentsExist, CreationsApart, SessionFolderKept
<1>3. FolderRequestsKnow' /\ ChecksHold'
  BY <1>1 DEF FoldersInv, FolderRequestsKnow, ChecksHold, Wants, FolderCanMove, FolderBelongs, FolderEmpty,
              Descendants, Children
<1>4. NothingLostByTurns' /\ NoCycleUnlessMovesRace'
  BY <1>1, DescendantsAre DEF FoldersInv, NothingLostByTurns, NoCycleUnlessMovesRace, Shown
<1> QED
  BY <1>2, <1>3, <1>4 DEF FoldersInv

-----------------------------------------------------------------------------
(* Assets: uploads. *)

UploadsPart == OneConsumer /\ MadeByUpload /\ BytesAreStored /\ TasksSpawned

MediaPart == ThumbnailsAreStored /\ TasksKnow /\ QuietEditsKept /\ OneHand

LEMMA AssetNames ==
    /\ NoUpload \notin Uploads /\ "session" \notin Uploads /\ "loop" \notin Uploads
    /\ Keys = Uploads \cup {"session"} /\ MediaTasks = Uploads \cup {"loop"}
  BY AssetsAssumption DEF NoUpload, Keys, MediaTasks

LEMMA AssetTypes ==
    ASSUME AssetsInv
    PROVE  /\ session \in {"none", "open", "consumed", "expired"}
           /\ asset \in [Uploads -> AssetRow]
           /\ object \in [Keys -> Uploads \cup {NoUpload}] /\ thumb \in SUBSET Uploads
           /\ upload \in [Uploads -> UploadRow] /\ task \in [MediaTasks -> TaskRow]
           /\ quietEdit \in SUBSET Uploads /\ doubled \in SUBSET Uploads
           /\ mediaFaults \in 0 .. MaxMediaFaults /\ edits \in 0 .. MaxEdits /\ lapses \in 0 .. MaxLapses
           /\ UploadsPart /\ MediaPart
  BY DEF AssetsInv, AssetsTypeOK, UploadsPart, MediaPart

LEMMA AssetsWhole ==
    ASSUME AssetsTypeOK', UploadsPart', MediaPart'
    PROVE  AssetsInv'
  BY DEF AssetsInv, UploadsPart, MediaPart

LEMMA AssetsInitSound == AssetsInit => AssetsInv
<1> SUFFICES ASSUME AssetsInit PROVE AssetsInv
  OBVIOUS
<1>1. NoMetadata \in Metadata /\ NoMetadata.thumb = "none"
  BY DEF NoMetadata, Metadata
<1>2. IdleTask \in TaskRow /\ IdleTask.has = {} /\ IdleTask.now = NoUpload /\ IdleTask.put = FALSE /\ IdleTask.err = FALSE
  BY <1>1 DEF IdleTask, TaskRow
<1> DEFINE row(u) == [st |-> "none", video |-> FALSE, key |-> u, sum |-> u, meta |-> NoMetadata, lapsed |-> FALSE]
<1>3. \A u \in Uploads : row(u) \in AssetRow
  BY <1>1 DEF AssetRow, Keys
<1>4. AssetsTypeOK
  <2>1. asset \in [Uploads -> AssetRow]
    BY <1>3 DEF AssetsInit
  <2>2. upload \in [Uploads -> UploadRow]
    BY DEF AssetsInit, UploadRow
  <2>3. task \in [MediaTasks -> TaskRow] /\ object \in [Keys -> Uploads \cup {NoUpload}]
    BY <1>2 DEF AssetsInit
  <2>4. mediaFaults \in 0 .. MaxMediaFaults /\ edits \in 0 .. MaxEdits /\ lapses \in 0 .. MaxLapses
    BY AssetsAssumption DEF AssetsInit
  <2> QED
    BY <2>1, <2>2, <2>3, <2>4 DEF AssetsInit, AssetsTypeOK
<1>5. \A u \in Uploads : upload[u].pc = "idle" /\ asset[u].st = "none" /\ asset[u].meta.thumb = "none"
  BY <1>1 DEF AssetsInit
<1>6. \A t \in MediaTasks : task[t].has = {} /\ task[t].now = NoUpload /\ task[t].put = FALSE /\ task[t].err = FALSE
  BY <1>2 DEF AssetsInit
<1>7. object["session"] = NoUpload /\ quietEdit = {}
  BY AssetNames DEF AssetsInit
<1>8. OneConsumer /\ MadeByUpload /\ BytesAreStored /\ TasksSpawned
  BY <1>5, <1>6, <1>7, AssetNames DEF OneConsumer, Consumer, MadeByUpload, BytesAreStored, TasksSpawned
<1>9. ThumbnailsAreStored /\ TasksKnow /\ QuietEditsKept /\ OneHand
  BY <1>5, <1>6, <1>7 DEF ThumbnailsAreStored, TasksKnow, QuietEditsKept, OneHand
<1> QED
  BY <1>4, <1>8, <1>9 DEF AssetsInv

\* Steps of the media worker and edits leave uploads and their bytes alone, and
\* the start of a spawned task tells nothing about them.
UploadsStay ==
    \A u \in Uploads :
        /\ upload'[u].direct = upload[u].direct
        /\ (upload'[u].pc = upload[u].pc) \/ (upload[u].pc = "spawned" /\ upload'[u].pc = "done")

LEMMA SpawnedFrame ==
    ASSUME AssetsInv, \A u \in Uploads : upload[u].pc = "done" => upload'[u].pc = "done",
           \A u \in Uploads : task'[u].has \subseteq task[u].has \/ upload'[u].pc = "done"
    PROVE  TasksSpawned'
  BY DEF AssetsInv, TasksSpawned

LEMMA UploadsFrame ==
    ASSUME AssetsInv, session' = session, object' = object, upload' = upload \/ UploadsStay,
           \A u \in Uploads : task'[u].has \subseteq task[u].has \/ upload'[u].pc = "done",
           \A u \in Uploads : asset'[u].st # "none" => asset[u].st # "none" /\ asset'[u].key = asset[u].key
    PROVE  UploadsPart'
<1>1. UploadsStay
  BY DEF UploadsStay
<1>2. OneConsumer'
  <2>1. \A u \in Uploads : Consumer(u)' => Consumer(u)
    BY <1>1 DEF UploadsStay, Consumer
  <2> QED
    BY <2>1 DEF AssetsInv, OneConsumer
<1>3. BytesAreStored'
  BY <1>1 DEF AssetsInv, UploadsStay, BytesAreStored
<1>4. MadeByUpload'
  BY <1>1 DEF AssetsInv, UploadsStay, MadeByUpload, StorageKey
<1>5. TasksSpawned'
  BY <1>1, SpawnedFrame DEF UploadsStay
<1> QED
  BY <1>2, <1>3, <1>4, <1>5 DEF UploadsPart

LEMMA MediaFrame ==
    ASSUME AssetsInv, asset' = asset, thumb' = thumb, task' = task, quietEdit' = quietEdit, doubled' = doubled
    PROVE  MediaPart'
  BY DEF AssetsInv, MediaPart, ThumbnailsAreStored, TasksKnow, QuietEditsKept, OneHand, Unanswered

LEMMA SessionStepSound ==
    ASSUME AssetsInv, CreateAssetUploadUrl \/ ExpireUpload
    PROVE  AssetsInv'
<1>1. /\ session \in {"none", "open"} /\ session' \in {"open", "expired"}
      /\ asset' = asset /\ object' = object /\ thumb' = thumb /\ upload' = upload /\ task' = task
      /\ quietEdit' = quietEdit /\ doubled' = doubled /\ mediaFaults' = mediaFaults /\ edits' = edits /\ lapses' = lapses
  BY DEF CreateAssetUploadUrl, ExpireUpload, history, counters
<1>2. AssetsTypeOK'
  BY <1>1 DEF AssetsInv, AssetsTypeOK
<1>3. OneConsumer'
  BY <1>1 DEF AssetsInv, OneConsumer, Consumer
<1>4. MadeByUpload' /\ BytesAreStored' /\ TasksSpawned'
  BY <1>1 DEF AssetsInv, MadeByUpload, BytesAreStored, StorageKey, TasksSpawned
<1> QED
  BY <1>1, <1>2, <1>3, <1>4, MediaFrame, AssetsWhole DEF UploadsPart

\* A step of the upload u that makes no asset.
LEMMA UploadSound ==
    ASSUME AssetsInv, NEW u \in Uploads, NEW q \in UploadRow, upload' = [upload EXCEPT ![u] = q],
           asset[u].st = "none", upload[u].pc # "done",
           session' \in {"none", "open", "consumed", "expired"},
           (object \in [Keys -> Uploads \cup {NoUpload}])',
           UNCHANGED <<asset, thumb, task, history, counters>>, OneConsumer', BytesAreStored'
    PROVE  AssetsInv'
<1>1. /\ asset' = asset /\ thumb' = thumb /\ task' = task
      /\ quietEdit' = quietEdit /\ doubled' = doubled /\ mediaFaults' = mediaFaults /\ edits' = edits /\ lapses' = lapses
  BY DEF history, counters
<1>2. (upload \in [Uploads -> UploadRow])' /\ \A v \in Uploads \ {u} : upload'[v] = upload[v]
  BY AssetTypes
<1>3. AssetsTypeOK'
  BY <1>1, <1>2 DEF AssetsInv, AssetsTypeOK
<1>4. MadeByUpload'
  <2> SUFFICES ASSUME NEW v \in Uploads, asset'[v].st # "none"
               PROVE  upload'[v].pc \in {"spawned", "done"} /\ asset'[v].key = StorageKey(v)'
    BY DEF MadeByUpload
  <2>1. upload'[v] = upload[v]
    BY <1>1, <1>2
  <2> QED
    BY <1>1, <2>1 DEF AssetsInv, MadeByUpload, StorageKey
<1>5. TasksSpawned'
  BY <1>1, <1>2, SpawnedFrame
<1> QED
  BY <1>1, <1>3, <1>4, <1>5, MediaFrame, AssetsWhole DEF UploadsPart

LEMMA StartUploadSound ==
    ASSUME AssetsInv, NEW u \in Uploads, StartUpload(u)
    PROVE  AssetsInv'
<1>1. PICK d \in BOOLEAN, v \in BOOLEAN :
         upload' = [upload EXCEPT ![u] = [pc |-> "checked", direct |-> d, video |-> v]]
  BY DEF StartUpload
<1> DEFINE q == [pc |-> "checked", direct |-> d, video |-> v]
<1>2. q \in UploadRow /\ q.pc = "checked"
  BY DEF UploadRow
<1> HIDE DEF q
<1>3. upload' = [upload EXCEPT ![u] = q]
  BY <1>1 DEF q
<1>4. upload'[u] = q /\ \A w \in Uploads \ {u} : upload'[w] = upload[w]
  BY <1>3, AssetTypes
<1>5. /\ upload[u].pc = "idle" /\ session' = session /\ object' = object
      /\ UNCHANGED <<asset, thumb, task, history, counters>>
  BY DEF StartUpload
<1>6. asset[u].st = "none"
  BY <1>5 DEF AssetsInv, MadeByUpload
<1>7. OneConsumer'
  BY <1>2, <1>4, <1>5 DEF AssetsInv, OneConsumer, Consumer
<1>8. BytesAreStored'
  BY <1>2, <1>4, <1>5 DEF AssetsInv, BytesAreStored
<1> QED
  BY <1>2, <1>3, <1>5, <1>6, <1>7, <1>8, AssetTypes, UploadSound

LEMMA PutObjectSound ==
    ASSUME AssetsInv, NEW u \in Uploads, PutObject(u)
    PROVE  AssetsInv'
<1>1. PICK row \in UploadRow : row = upload[u]
  BY AssetTypes
<1> DEFINE q == [row EXCEPT !.pc = IF row.direct THEN "consumed" ELSE "stored"]
<1>2. q \in UploadRow /\ q.pc = (IF row.direct THEN "consumed" ELSE "stored") /\ q.direct = row.direct
  BY DEF UploadRow
<1>3. upload' = [upload EXCEPT ![u] = q]
  BY <1>1 DEF PutObject
<1> HIDE DEF q
<1>4. upload'[u] = q /\ \A w \in Uploads \ {u} : upload'[w] = upload[w]
  BY <1>3, AssetTypes
<1>5. PICK k \in Keys : k = StorageKey(u) /\ k = IF row.direct THEN u ELSE "session"
  BY <1>1, AssetNames DEF StorageKey
<1>6. /\ row.pc = "checked" /\ session' = session /\ object' = [object EXCEPT ![k] = u]
      /\ UNCHANGED <<asset, thumb, task, history, counters>>
  BY <1>1, <1>5 DEF PutObject
<1>7. (object \in [Keys -> Uploads \cup {NoUpload}])' /\ object'[k] = u /\ \A j \in Keys \ {k} : object'[j] = object[j]
  BY <1>6, AssetTypes
<1>8. asset[u].st = "none"
  BY <1>1, <1>6 DEF AssetsInv, MadeByUpload
<1>9. OneConsumer'
  BY <1>2, <1>4, <1>6 DEF AssetsInv, OneConsumer, Consumer
<1>10. BytesAreStored'
  <2>1. ASSUME NEW w \in Uploads, upload'[w].direct, upload'[w].pc \in {"consumed", "spawned", "done"} PROVE object'[w] = w
    <3>1. CASE w = u
      BY <1>2, <1>4, <1>5, <1>7, <2>1, <3>1
    <3>2. CASE w # u
      <4>1. w \in Keys /\ w # k /\ object[w] = w
        BY <1>4, <1>5, <2>1, <3>2, AssetNames DEF AssetsInv, BytesAreStored
      <4> QED
        BY <1>7, <4>1
    <3> QED
      BY <3>1, <3>2
  <2>2. ASSUME NEW w \in Uploads, ~upload'[w].direct, upload'[w].pc \in {"stored", "consumed", "spawned", "done"}
        PROVE  object'["session"] # NoUpload
    <3>1. CASE k = "session"
      BY <1>7, <3>1, AssetNames
    <3>2. CASE k # "session"
      <4>1. w # u
        BY <1>2, <1>4, <1>5, <2>2, <3>2
      <4>2. object["session"] # NoUpload
        BY <1>4, <2>2, <4>1 DEF AssetsInv, BytesAreStored
      <4> QED
        BY <1>7, <3>2, <4>2, AssetNames
    <3> QED
      BY <3>1, <3>2
  <2>3. ASSUME NEW w \in Uploads, object'["session"] = w
        PROVE  ~upload'[w].direct /\ upload'[w].pc \in {"stored", "consumed", "refused", "lost", "spawned", "done"}
    <3>1. CASE k = "session"
      <4>1. w = u /\ ~row.direct
        BY <1>5, <1>7, <2>3, <3>1, AssetNames
      <4> QED
        BY <1>2, <1>4, <4>1
    <3>2. CASE k # "session"
      <4>1. object["session"] = w
        BY <1>7, <2>3, <3>2, AssetNames
      <4>2. ~upload[w].direct /\ upload[w].pc \in {"stored", "consumed", "refused", "lost", "spawned", "done"}
        BY <4>1 DEF AssetsInv, BytesAreStored
      <4>3. w # u
        BY <1>1, <1>6, <4>2
      <4> QED
        BY <1>4, <4>2, <4>3
    <3> QED
      BY <3>1, <3>2
  <2>4. \A w \in Uploads : upload'[w].pc = "stored" => ~upload'[w].direct
    BY <1>2, <1>4 DEF AssetsInv, BytesAreStored
  <2> QED
    BY <2>1, <2>2, <2>3, <2>4 DEF BytesAreStored
<1> QED
  BY <1>1, <1>2, <1>3, <1>6, <1>7, <1>8, <1>9, <1>10, AssetTypes, UploadSound

LEMMA ConsumeUploadSound ==
    ASSUME AssetsInv, NEW u \in Uploads, ConsumeUpload(u)
    PROVE  AssetsInv'
<1>1. PICK row \in UploadRow : row = upload[u]
  BY AssetTypes
<1> DEFINE q == [row EXCEPT !.pc = IF session = "open" THEN "consumed" ELSE "refused"]
<1>2. q \in UploadRow /\ q.pc = (IF session = "open" THEN "consumed" ELSE "refused") /\ q.direct = row.direct
  BY DEF UploadRow
<1>3. upload' = [upload EXCEPT ![u] = q]
  BY <1>1 DEF ConsumeUpload, Consumable
<1> HIDE DEF q
<1>4. upload'[u] = q /\ \A w \in Uploads \ {u} : upload'[w] = upload[w]
  BY <1>3, AssetTypes
<1>5. /\ row.pc = "stored" /\ object' = object /\ session' = IF session = "open" THEN "consumed" ELSE session
      /\ UNCHANGED <<asset, thumb, task, history, counters>>
  BY <1>1 DEF ConsumeUpload, Consumable
<1>6. asset[u].st = "none"
  BY <1>1, <1>5 DEF AssetsInv, MadeByUpload
<1>7. OneConsumer'
  <2>1. CASE session = "open"
    <3>1. \A w \in Uploads : ~Consumer(w)
      BY <2>1 DEF AssetsInv, OneConsumer
    <3>2. session' = "consumed" /\ \A w \in Uploads : Consumer(w)' => w = u
      BY <1>4, <1>5, <2>1, <3>1 DEF Consumer
    <3> QED
      BY <3>2 DEF OneConsumer
  <2>2. CASE session # "open"
    <3>1. session' = session /\ \A w \in Uploads : Consumer(w)' => Consumer(w)
      BY <1>2, <1>4, <1>5, <2>2 DEF Consumer
    <3> QED
      BY <3>1 DEF AssetsInv, OneConsumer
  <2> QED
    BY <2>1, <2>2
<1>8. BytesAreStored'
  <2>1. ASSUME NEW w \in Uploads, upload'[w].direct, upload'[w].pc \in {"consumed", "spawned", "done"} PROVE object'[w] = w
    <3>1. ~row.direct
      BY <1>1, <1>5 DEF AssetsInv, BytesAreStored
    <3> QED
      BY <1>2, <1>4, <1>5, <2>1, <3>1 DEF AssetsInv, BytesAreStored
  <2>2. ASSUME NEW w \in Uploads, ~upload'[w].direct, upload'[w].pc \in {"stored", "consumed", "spawned", "done"}
        PROVE  object'["session"] # NoUpload
    BY <1>1, <1>2, <1>4, <1>5, <2>2 DEF AssetsInv, BytesAreStored
  <2>3. ASSUME NEW w \in Uploads, object'["session"] = w
        PROVE  ~upload'[w].direct /\ upload'[w].pc \in {"stored", "consumed", "refused", "lost", "spawned", "done"}
    BY <1>1, <1>2, <1>4, <1>5, <2>3 DEF AssetsInv, BytesAreStored
  <2>4. \A w \in Uploads : upload'[w].pc = "stored" => ~upload'[w].direct
    BY <1>1, <1>2, <1>4, <1>5 DEF AssetsInv, BytesAreStored
  <2> QED
    BY <2>1, <2>2, <2>3, <2>4 DEF BytesAreStored
<1> QED
  BY <1>1, <1>2, <1>3, <1>5, <1>6, <1>7, <1>8, AssetTypes, UploadSound

-----------------------------------------------------------------------------
(* Assets: rows. *)

\* A step that writes the row of u and leaves the tasks alone.
LEMMA RowSound ==
    ASSUME AssetsInv, NEW u \in Uploads, NEW q \in AssetRow, asset' = [asset EXCEPT ![u] = q],
           thumb' = thumb, task' = task, doubled' = doubled,
           quietEdit' \in {quietEdit, quietEdit \cup {u}},
           u \in quietEdit' => q.st # "none" /\ q.meta.edit /\ \A t \in MediaTasks : u \notin task[t].has \/ u \in quietEdit,
           q.meta.thumb = "own" => asset[u].meta.thumb = "own",
           (q.video /\ q.st = "ready") => (q.meta.thumb = "own" \/ q.meta.edit),
           \A t \in MediaTasks : u \in task[t].has => q.st \in {asset[u].st, "deleted"}
    PROVE  MediaPart'
<1>1. asset'[u] = q /\ \A v \in Uploads \ {u} : asset'[v] = asset[v]
  BY AssetTypes
<1>2. ThumbnailsAreStored'
  BY <1>1 DEF AssetsInv, ThumbnailsAreStored
<1>3. TasksKnow'
  <2> SUFFICES ASSUME NEW t \in MediaTasks
               PROVE  /\ task[t].now # NoUpload => task[t].now \in task[t].has
                      /\ task[t].put => task[t].now \in thumb
                      /\ task[t].err => task[t].now # NoUpload
                      /\ \A v \in task[t].has : asset'[v].st # "none" /\ (v \in quietEdit' => task[t].read[v].edit)
    BY DEF TasksKnow
  <2>1. \A v \in task[t].has : v \in Uploads
    BY AssetTypes DEF TaskRow
  <2>2. ASSUME NEW v \in task[t].has PROVE asset'[v].st # "none" /\ (v \in quietEdit' => task[t].read[v].edit)
    <3>1. asset[v].st # "none" /\ (v \in quietEdit => task[t].read[v].edit)
      BY <2>2 DEF AssetsInv, TasksKnow
    <3>2. CASE v = u
      BY <1>1, <2>2, <3>1, <3>2
    <3>3. CASE v # u
      BY <1>1, <2>1, <2>2, <3>1, <3>3
    <3> QED
      BY <3>2, <3>3
  <2> QED
    BY <2>2 DEF AssetsInv, TasksKnow
<1>4. QuietEditsKept'
  BY <1>1, AssetTypes DEF AssetsInv, QuietEditsKept
<1>5. OneHand'
  BY <1>1 DEF AssetsInv, OneHand, Unanswered
<1> QED
  BY <1>2, <1>3, <1>4, <1>5 DEF MediaPart

LEMMA InsertCustomerAssetSound ==
    ASSUME AssetsInv, NEW u \in Uploads, InsertCustomerAsset(u)
    PROVE  AssetsInv'
<1>1. PICK row \in UploadRow : row = upload[u]
  BY AssetTypes
<1> DEFINE q == [row EXCEPT !.pc = IF row.video THEN "spawned" ELSE "done"]
<1>2. q \in UploadRow /\ q.pc \in {"spawned", "done"} /\ q.direct = row.direct
  BY DEF UploadRow
<1>3. upload' = [upload EXCEPT ![u] = q]
  BY <1>1 DEF InsertCustomerAsset
<1> HIDE DEF q
<1>4. upload'[u] = q /\ (\A w \in Uploads \ {u} : upload'[w] = upload[w]) /\ (upload \in [Uploads -> UploadRow])'
  BY <1>2, <1>3, AssetTypes
<1>5. /\ row.pc = "consumed" /\ session' = session /\ object' = object /\ thumb' = thumb /\ task' = task
      /\ quietEdit' = quietEdit /\ doubled' = doubled /\ mediaFaults' = mediaFaults /\ edits' = edits /\ lapses' = lapses
  BY <1>1 DEF InsertCustomerAsset, history, counters
<1>6. PICK m \in ClientMetadata(FALSE) \cup {NoMetadata} :
         asset' = [asset EXCEPT ![u] = [st |-> InitialAssetStatus(row.video), video |-> row.video,
                                        key |-> StorageKey(u), sum |-> u, meta |-> m, lapsed |-> FALSE]]
  BY <1>1 DEF InsertCustomerAsset
<1> DEFINE a == [st |-> InitialAssetStatus(row.video), video |-> row.video,
                 key |-> StorageKey(u), sum |-> u, meta |-> m, lapsed |-> FALSE]
<1>7. asset' = [asset EXCEPT ![u] = a]
  BY <1>6
<1>8. StorageKey(u) \in Keys /\ row.video \in BOOLEAN /\ StorageKey(u)' = StorageKey(u)
  BY <1>1, <1>2, <1>4, AssetNames DEF StorageKey, UploadRow
<1>9. m \in Metadata /\ m.thumb # "own"
  <2>1. CASE m = NoMetadata
    BY <2>1 DEF NoMetadata, Metadata
  <2>2. CASE m \in ClientMetadata(FALSE)
    BY <2>2 DEF ClientMetadata, Metadata
  <2> QED
    BY <2>1, <2>2
<1>10. a.st \in {"processing", "ready"} /\ (a.video => a.st = "processing") /\ a.meta = m /\ a.key = StorageKey(u)
  BY DEF InitialAssetStatus
<1>11. a \in AssetRow
  BY <1>8, <1>9, <1>10 DEF AssetRow
<1> HIDE DEF a
<1>12. asset'[u] = a /\ (\A w \in Uploads \ {u} : asset'[w] = asset[w]) /\ (asset \in [Uploads -> AssetRow])'
  BY <1>7, <1>11, AssetTypes
<1>13. asset[u].st = "none"
  BY <1>1, <1>5 DEF AssetsInv, MadeByUpload
<1>14. u \notin quietEdit /\ \A t \in MediaTasks : u \notin task[t].has
  BY <1>13 DEF AssetsInv, TasksKnow, QuietEditsKept
<1>15. MediaPart'
  BY <1>5, <1>7, <1>9, <1>10, <1>11, <1>14, RowSound
<1>16. OneConsumer'
  <2>1. \A w \in Uploads : Consumer(w)' => Consumer(w)
    BY <1>1, <1>2, <1>4, <1>5 DEF Consumer
  <2> QED
    BY <1>5, <2>1 DEF AssetsInv, OneConsumer
<1>17. BytesAreStored'
  BY <1>1, <1>2, <1>4, <1>5 DEF AssetsInv, BytesAreStored
<1>18. MadeByUpload'
  <2> SUFFICES ASSUME NEW w \in Uploads, asset'[w].st # "none"
               PROVE  upload'[w].pc \in {"spawned", "done"} /\ asset'[w].key = StorageKey(w)'
    BY DEF MadeByUpload
  <2>1. CASE w = u
    BY <1>2, <1>4, <1>8, <1>10, <1>12, <2>1
  <2>2. CASE w # u
    <3>1. asset'[w] = asset[w] /\ upload'[w] = upload[w]
      BY <1>4, <1>12, <2>2
    <3> QED
      BY <3>1 DEF AssetsInv, MadeByUpload, StorageKey
  <2> QED
    BY <2>1, <2>2
<1>19. AssetsTypeOK'
  BY <1>4, <1>5, <1>12 DEF AssetsInv, AssetsTypeOK
<1>20. TasksSpawned'
  BY <1>1, <1>4, <1>5, SpawnedFrame
<1> QED
  BY <1>15, <1>16, <1>17, <1>18, <1>19, <1>20, AssetsWhole DEF UploadsPart

\* A step that writes the row of an asset that is there and nothing of its upload.
LEMMA EditSound ==
    ASSUME AssetsInv, NEW u \in Uploads, NEW q \in AssetRow, asset' = [asset EXCEPT ![u] = q],
           asset[u].st # "none", q.key = asset[u].key, MediaPart',
           \A t \in Uploads : task'[t].has \subseteq task[t].has,
           UNCHANGED <<session, object, upload>>,
           (task \in [MediaTasks -> TaskRow])', (thumb \in SUBSET Uploads)',
           (quietEdit \in SUBSET Uploads)', (doubled \in SUBSET Uploads)',
           (mediaFaults \in 0 .. MaxMediaFaults)', (edits \in 0 .. MaxEdits)', (lapses \in 0 .. MaxLapses)'
    PROVE  AssetsInv'
<1>1. (asset \in [Uploads -> AssetRow])' /\ asset'[u] = q /\ \A v \in Uploads \ {u} : asset'[v] = asset[v]
  BY AssetTypes
<1>2. AssetsTypeOK'
  BY <1>1 DEF AssetsInv, AssetsTypeOK
<1>3. UploadsPart'
  BY <1>1, UploadsFrame
<1> QED
  BY <1>2, <1>3, AssetsWhole

LEMMA UpdateCustomerAssetSound ==
    ASSUME AssetsInv, NEW u \in Uploads, UpdateCustomerAsset(u)
    PROVE  AssetsInv'
<1>1. PICK row \in AssetRow : row = asset[u]
  BY AssetTypes
<1>2. PICK m \in ClientMetadata(TRUE) \cup {row.meta} :
         /\ asset' = [asset EXCEPT ![u].meta = m, ![u].lapsed = FALSE]
         /\ quietEdit' = IF m.edit /\ ~InHand(u) THEN quietEdit \cup {u} ELSE quietEdit
  BY <1>1 DEF UpdateCustomerAsset
<1> DEFINE q == [row EXCEPT !.meta = m, !.lapsed = FALSE]
<1>3. m \in Metadata /\ (m = row.meta \/ (m.thumb # "own" /\ m.edit = TRUE))
  BY DEF Metadata, ClientMetadata, AssetRow
<1>4. /\ q \in AssetRow /\ q.st = row.st /\ q.meta = m /\ q.key = row.key /\ q.video = row.video
  BY <1>3 DEF AssetRow
<1>5. asset' = [asset EXCEPT ![u] = q]
  BY <1>1, <1>3, <1>2, AssetTypes
<1> HIDE DEF q
<1>6. /\ row.st \notin {"none", "deleted"} /\ session' = session /\ object' = object /\ upload' = upload
      /\ thumb' = thumb /\ task' = task /\ doubled' = doubled /\ mediaFaults' = mediaFaults /\ lapses' = lapses
  BY <1>1 DEF UpdateCustomerAsset
<1>7. (edits \in 0 .. MaxEdits)'
  BY AssetTypes, AssetsAssumption DEF UpdateCustomerAsset
<1>8. /\ quietEdit' \in {quietEdit, quietEdit \cup {u}}
      /\ (InHand(u) \/ ~m.edit) => quietEdit' = quietEdit
  BY <1>2
<1>9. u \in quietEdit' => \A t \in MediaTasks : u \notin task[t].has \/ u \in quietEdit
  BY <1>8 DEF InHand
<1>10. u \in quietEdit => row.meta.edit
  BY <1>1 DEF AssetsInv, QuietEditsKept
<1>11. u \in quietEdit' => m.edit
  BY <1>3, <1>8, <1>10
<1>12. (row.video /\ row.st = "ready") => (row.meta.thumb = "own" \/ row.meta.edit)
  BY <1>1 DEF AssetsInv, ThumbnailsAreStored
<1>13. MediaPart'
  BY <1>1, <1>3, <1>4, <1>5, <1>6, <1>8, <1>9, <1>11, <1>12, RowSound
<1>14. (quietEdit \in SUBSET Uploads)'
  BY <1>8, AssetTypes
<1> QED
  BY <1>1, <1>4, <1>5, <1>6, <1>7, <1>13, <1>14, AssetTypes, EditSound

LEMMA DeleteCustomerAssetSound ==
    ASSUME AssetsInv, NEW u \in Uploads, DeleteCustomerAsset(u)
    PROVE  AssetsInv'
<1>1. PICK row \in AssetRow : row = asset[u]
  BY AssetTypes
<1> DEFINE q == [row EXCEPT !.st = "deleted"]
<1>2. q \in AssetRow /\ q.st = "deleted" /\ q.meta = row.meta /\ q.key = row.key
  BY DEF AssetRow
<1>3. asset' = [asset EXCEPT ![u] = q]
  BY <1>1 DEF DeleteCustomerAsset
<1> HIDE DEF q
<1>4. /\ row.st \notin {"none", "deleted"} /\ session' = session /\ object' = object /\ upload' = upload
      /\ thumb' = thumb /\ task' = task /\ quietEdit' = quietEdit /\ doubled' = doubled
      /\ mediaFaults' = mediaFaults /\ edits' = edits /\ lapses' = lapses
  BY <1>1 DEF DeleteCustomerAsset, history, counters
<1>5. u \in quietEdit => row.meta.edit
  BY <1>1 DEF AssetsInv, QuietEditsKept
<1>6. MediaPart'
  BY <1>1, <1>2, <1>3, <1>4, <1>5, RowSound
<1> QED
  BY <1>1, <1>2, <1>3, <1>4, <1>6, AssetTypes, EditSound

LEMMA LeaseLapsesSound ==
    ASSUME AssetsInv, NEW u \in Uploads, LeaseLapses(u)
    PROVE  AssetsInv'
<1>1. PICK row \in AssetRow : row = asset[u]
  BY AssetTypes
<1> DEFINE q == [row EXCEPT !.lapsed = TRUE]
<1>2. q \in AssetRow /\ q.st = row.st /\ q.meta = row.meta /\ q.key = row.key /\ q.video = row.video
  BY DEF AssetRow
<1>3. asset' = [asset EXCEPT ![u] = q]
  BY <1>1 DEF LeaseLapses
<1> HIDE DEF q
<1>4. /\ row.st = "processing" /\ session' = session /\ object' = object /\ upload' = upload
      /\ thumb' = thumb /\ task' = task /\ quietEdit' = quietEdit /\ doubled' = doubled
      /\ mediaFaults' = mediaFaults /\ edits' = edits
  BY <1>1 DEF LeaseLapses, history
<1>5. (lapses \in 0 .. MaxLapses)'
  BY AssetTypes, AssetsAssumption DEF LeaseLapses
<1>6. u \in quietEdit => row.meta.edit
  BY <1>1 DEF AssetsInv, QuietEditsKept
<1>7. MediaPart'
  BY <1>1, <1>2, <1>3, <1>4, <1>6, RowSound
<1> QED
  BY <1>1, <1>2, <1>3, <1>4, <1>5, <1>7, AssetTypes, EditSound

-----------------------------------------------------------------------------
(* Assets: the media worker. *)

LEMMA StartedRow ==
    ASSUME AssetsInv, NEW u \in Uploads
    PROVE  /\ Started(u) \in AssetRow /\ Started(u).meta \in Metadata
           /\ Started(u).st = asset[u].st /\ Started(u).key = asset[u].key /\ Started(u).video = asset[u].video
           /\ Started(u).meta.thumb = asset[u].meta.thumb /\ Started(u).meta.edit = asset[u].meta.edit
<1>1. PICK row \in AssetRow : row = asset[u]
  BY AssetTypes
<1>2. PICK m \in Metadata : m = row.meta
  BY DEF AssetRow
<1> DEFINE n == [m EXCEPT !.started = TRUE]
<1>3. n \in Metadata /\ n.thumb = m.thumb /\ n.edit = m.edit
  BY DEF Metadata
<1>4. Started(u) = [row EXCEPT !.meta = n, !.lapsed = FALSE]
  BY <1>1, <1>2 DEF Started
<1> HIDE DEF n
<1>5. /\ Started(u) \in AssetRow /\ Started(u).st = row.st /\ Started(u).key = row.key /\ Started(u).video = row.video
      /\ Started(u).meta = n
  BY <1>3, <1>4 DEF AssetRow
<1> QED
  BY <1>1, <1>2, <1>3, <1>5

LEMMA IdleTaskFields == IdleTask.has = {} /\ IdleTask.now = NoUpload /\ IdleTask.put = FALSE /\ IdleTask.err = FALSE /\ IdleTask \in TaskRow
<1>1. NoMetadata \in Metadata
  BY DEF NoMetadata, Metadata
<1> QED
  BY <1>1 DEF IdleTask, TaskRow

LEMMA ClaimsSound ==
    ASSUME AssetsInv, NEW t \in MediaTasks, NEW us \in SUBSET Uploads, Claims(t, us), task[t].has = {},
           (upload \in [Uploads -> UploadRow])', upload' = upload \/ UploadsStay, t \in Uploads => upload'[t].pc = "done",
           \A u \in us : asset[u].st = "processing"
    PROVE  AssetsInv'
<1>1. PICK row \in TaskRow : row = task[t]
  BY AssetTypes
<1>2. row.has = {} /\ row.now = NoUpload /\ row.put = FALSE /\ row.err = FALSE
  BY <1>1, AssetNames, AssetTypes DEF AssetsInv, TasksKnow, TaskRow
<1> DEFINE rd == [u \in Uploads |-> IF u \in us THEN Started(u).meta ELSE NoMetadata]
<1> DEFINE q == [row EXCEPT !.has = us, !.read = rd]
<1>3. NoMetadata \in Metadata
  BY DEF NoMetadata, Metadata
<1>4. rd \in [Uploads -> Metadata] /\ \A u \in us : rd[u] = Started(u).meta
  BY <1>3, StartedRow
<1>5. q \in TaskRow /\ q.has = us /\ q.now = NoUpload /\ ~q.put /\ ~q.err /\ q.read = rd
  BY <1>2, <1>4 DEF TaskRow
<1>6. task' = [task EXCEPT ![t] = q]
  BY <1>1, AssetTypes DEF Claims
<1> HIDE DEF q, rd
<1>7. (task \in [MediaTasks -> TaskRow])' /\ task'[t] = q /\ \A s \in MediaTasks \ {t} : task'[s] = task[s]
  BY <1>5, <1>6, AssetTypes
<1>8. /\ session' = session /\ object' = object /\ thumb' = thumb /\ quietEdit' = quietEdit
      /\ mediaFaults' = mediaFaults /\ edits' = edits /\ lapses' = lapses
      /\ doubled' = doubled \cup {u \in us : InHand(u)}
  BY DEF Claims, counters
<1>9. (doubled \in SUBSET Uploads)'
  BY <1>8, AssetTypes
<1>10. asset' = [u \in Uploads |-> IF u \in us THEN Started(u) ELSE asset[u]]
  BY DEF Claims
<1>11. (asset \in [Uploads -> AssetRow])'
  BY <1>10, StartedRow, AssetTypes
<1>12. \A u \in Uploads : /\ asset'[u].st = asset[u].st /\ asset'[u].key = asset[u].key /\ asset'[u].video = asset[u].video
                          /\ asset'[u].meta.thumb = asset[u].meta.thumb /\ asset'[u].meta.edit = asset[u].meta.edit
  BY <1>10, StartedRow
<1>13. UploadsPart'
  <2>1. \A s \in Uploads : task'[s].has \subseteq task[s].has \/ upload'[s].pc = "done"
    BY <1>7, AssetNames
  <2> QED
    BY <1>8, <1>12, <2>1, UploadsFrame
<1>14. AssetsTypeOK'
  BY <1>7, <1>8, <1>9, <1>11 DEF AssetsInv, AssetsTypeOK
<1>15. ThumbnailsAreStored'
  BY <1>8, <1>12 DEF AssetsInv, ThumbnailsAreStored
<1>16. QuietEditsKept'
  BY <1>8, <1>12, AssetTypes DEF AssetsInv, QuietEditsKept
<1>17. TasksKnow'
  <2> SUFFICES ASSUME NEW s \in MediaTasks
               PROVE  /\ task'[s].now # NoUpload => task'[s].now \in task'[s].has
                      /\ task'[s].put => task'[s].now \in thumb'
                      /\ task'[s].err => task'[s].now # NoUpload
                      /\ \A u \in task'[s].has : asset'[u].st # "none" /\ (u \in quietEdit' => task'[s].read[u].edit)
    BY DEF TasksKnow
  <2>1. CASE s = t
    <3>1. \A u \in us : u \in quietEdit => Started(u).meta.edit
      BY StartedRow DEF AssetsInv, QuietEditsKept
    <3>2. \A u \in us : asset'[u].st # "none"
      BY <1>12
    <3> QED
      BY <1>4, <1>5, <1>7, <1>8, <2>1, <3>1, <3>2
  <2>2. CASE s # t
    <3>1. task'[s] = task[s] /\ \A u \in task[s].has : u \in Uploads
      BY <1>7, <2>2, AssetTypes DEF TaskRow
    <3> QED
      BY <1>8, <1>12, <3>1 DEF AssetsInv, TasksKnow
  <2> QED
    BY <2>1, <2>2
<1>18. OneHand'
  <2> SUFFICES ASSUME NEW u \in Uploads, u \notin doubled'
               PROVE  /\ \A r, s \in MediaTasks : (u \in task'[r].has /\ u \in task'[s].has) => r = s
                      /\ \A s \in MediaTasks : u \in task'[s].has =>
                            \/ asset'[u].st \in {"processing", "deleted"}
                            \/ asset'[u].st = "ready" /\ Unanswered(s, u)'
    BY DEF OneHand
  <2>1. u \notin doubled /\ (u \in us => \A s \in MediaTasks : u \notin task[s].has)
    BY <1>8 DEF InHand
  <2>2. CASE u \in us
    <3>1. \A s \in MediaTasks : u \in task'[s].has => s = t
      BY <1>7, <2>1, <2>2
    <3> QED
      BY <1>12, <2>2, <3>1
  <2>3. CASE u \notin us
    <3>1. \A s \in MediaTasks : u \in task'[s].has => u \in task[s].has /\ task'[s] = task[s]
      BY <1>5, <1>7, <2>3
    <3> QED
      BY <1>12, <2>1, <3>1 DEF AssetsInv, OneHand, Unanswered
  <2> QED
    BY <2>2, <2>3
<1> QED
  BY <1>13, <1>14, <1>15, <1>16, <1>17, <1>18, AssetsWhole DEF MediaPart

LEMMA ClaimSound ==
    ASSUME AssetsInv, ClaimPendingVideoAssets \/ \E u \in Uploads : ClaimVideoAssetById(u)
    PROVE  AssetsInv'
<1>1. CASE ClaimPendingVideoAssets
  <2>1. "loop" \in MediaTasks
    BY AssetNames
  <2>2. \A u \in {v \in Uploads : Claimable(v)} : asset[u].st = "processing"
    BY DEF Claimable
  <2>3. task["loop"].has = {} /\ upload' = upload /\ Claims("loop", {v \in Uploads : Claimable(v)})
    BY <1>1, IdleTaskFields DEF ClaimPendingVideoAssets
  <2> QED
    BY <2>1, <2>2, <2>3, AssetNames, AssetTypes, ClaimsSound
<1>2. CASE \E u \in Uploads : ClaimVideoAssetById(u)
  <2>1. PICK u \in Uploads : ClaimVideoAssetById(u)
    BY <1>2
  <2>2. u \in MediaTasks /\ {u} \in SUBSET Uploads /\ Claims(u, {u}) /\ asset[u].st = "processing"
    BY <2>1, AssetNames DEF ClaimVideoAssetById, Claimable
  <2>3. task[u].has = {}
    BY <2>1 DEF AssetsInv, TasksSpawned, ClaimVideoAssetById
  <2>4. PICK row \in UploadRow : row = upload[u]
    BY AssetTypes
  <2> DEFINE q == [row EXCEPT !.pc = "done"]
  <2>5. q \in UploadRow /\ q.pc = "done" /\ q.direct = row.direct
    BY DEF UploadRow
  <2>6. upload' = [upload EXCEPT ![u] = q] /\ row.pc = "spawned"
    BY <2>1, <2>4 DEF ClaimVideoAssetById
  <2> HIDE DEF q
  <2>7. (upload \in [Uploads -> UploadRow])' /\ upload'[u] = q /\ \A v \in Uploads \ {u} : upload'[v] = upload[v]
    BY <2>5, <2>6, AssetTypes
  <2>8. UploadsStay
    BY <2>4, <2>5, <2>6, <2>7 DEF UploadsStay
  <2> QED
    BY <2>2, <2>3, <2>5, <2>7, <2>8, ClaimsSound
<1> QED
  BY <1>1, <1>2

\* A task goes on with what it has, or marks one of its videos and puts it back.
LEMMA HandSound ==
    ASSUME AssetsInv, NEW t \in MediaTasks, NEW q \in TaskRow, task' = [task EXCEPT ![t] = q],
           q.has \subseteq task[t].has, q.read = task[t].read \/ \A v \in q.has : q.read[v] = task[t].read[v],
           q.now # NoUpload => q.now \in q.has, q.put => q.now \in thumb', q.err => q.now # NoUpload,
           task[t].err => (q.err /\ q.now = task[t].now /\ q.put = task[t].put) \/ task[t].now \notin q.has,
           thumb \subseteq thumb', quietEdit' = quietEdit, doubled' = doubled,
           \A v \in Uploads : \/ asset'[v].st = asset[v].st
                              \/ v \in task[t].has \ q.has /\ asset'[v].st # "none"
                              \/ v \in q.has /\ asset'[v].st = "ready" /\ q.now = v /\ q.put /\ q.err,
           ThumbnailsAreStored', QuietEditsKept'
    PROVE  MediaPart'
<1>1. task'[t] = q /\ \A s \in MediaTasks \ {t} : task'[s] = task[s]
  BY AssetTypes
<1>2. \A s \in MediaTasks : task'[s].has \subseteq task[s].has /\ task[s].has \subseteq Uploads
  BY <1>1, AssetTypes DEF TaskRow
<1>3. \A v \in Uploads : asset[v].st # "none" => asset'[v].st # "none"
  OBVIOUS
<1>4. TasksKnow'
  <2> SUFFICES ASSUME NEW s \in MediaTasks
               PROVE  /\ task'[s].now # NoUpload => task'[s].now \in task'[s].has
                      /\ task'[s].put => task'[s].now \in thumb'
                      /\ task'[s].err => task'[s].now # NoUpload
                      /\ \A u \in task'[s].has : asset'[u].st # "none" /\ (u \in quietEdit' => task'[s].read[u].edit)
    BY DEF TasksKnow
  <2>1. /\ task[s].now # NoUpload => task[s].now \in task[s].has
        /\ task[s].put => task[s].now \in thumb
        /\ task[s].err => task[s].now # NoUpload
        /\ \A u \in task[s].has : asset[u].st # "none" /\ (u \in quietEdit => task[s].read[u].edit)
    BY DEF AssetsInv, TasksKnow
  <2>2. \A u \in task'[s].has : asset'[u].st # "none"
    BY <1>2, <1>3, <2>1
  <2>3. CASE s = t
    BY <1>1, <2>1, <2>2, <2>3
  <2>4. CASE s # t
    BY <1>1, <2>1, <2>2, <2>4
  <2> QED
    BY <2>3, <2>4
<1>5. OneHand'
  <2> SUFFICES ASSUME NEW u \in Uploads, u \notin doubled
               PROVE  /\ \A r, s \in MediaTasks : (u \in task'[r].has /\ u \in task'[s].has) => r = s
                      /\ \A s \in MediaTasks : u \in task'[s].has =>
                            \/ asset'[u].st \in {"processing", "deleted"}
                            \/ asset'[u].st = "ready" /\ Unanswered(s, u)'
    BY DEF OneHand
  <2>1. /\ \A r, s \in MediaTasks : (u \in task[r].has /\ u \in task[s].has) => r = s
        /\ \A s \in MediaTasks : u \in task[s].has =>
              \/ asset[u].st \in {"processing", "deleted"}
              \/ asset[u].st = "ready" /\ Unanswered(s, u)
    BY DEF AssetsInv, OneHand
  <2>2. \A r, s \in MediaTasks : (u \in task'[r].has /\ u \in task'[s].has) => r = s
    BY <1>2, <2>1
  <2>3. ASSUME NEW s \in MediaTasks, u \in task'[s].has
        PROVE  \/ asset'[u].st \in {"processing", "deleted"}
               \/ asset'[u].st = "ready" /\ Unanswered(s, u)'
    <3>1. CASE s = t
      <4>1. u \in q.has /\ u \in task[t].has
        BY <1>1, <2>3, <3>1
      <4>2. CASE asset'[u].st = asset[u].st
        BY <1>1, <2>1, <3>1, <4>1, <4>2 DEF Unanswered
      <4>3. CASE asset'[u].st = "ready" /\ q.now = u /\ q.put /\ q.err
        BY <1>1, <3>1, <4>3 DEF Unanswered
      <4> QED
        BY <4>1, <4>2, <4>3
    <3>2. CASE s # t
      <4>1. u \notin task[t].has /\ task'[s] = task[s]
        BY <1>1, <1>2, <2>1, <2>3, <3>2
      <4>2. asset'[u].st = asset[u].st
        BY <4>1
      <4> QED
        BY <2>1, <2>3, <4>1, <4>2 DEF Unanswered
    <3> QED
      BY <3>1, <3>2
  <2> QED
    BY <2>2, <2>3
<1> QED
  BY <1>4, <1>5 DEF MediaPart

LEMMA ProcessVideoAssetSound ==
    ASSUME AssetsInv, NEW t \in MediaTasks, NEW u \in Uploads, ProcessVideoAsset(t, u) \/ PutThumbnail(t, u)
    PROVE  AssetsInv'
<1>1. PICK row \in TaskRow : row = task[t]
  BY AssetTypes
<1>2. /\ session' = session /\ object' = object /\ upload' = upload /\ asset' = asset
      /\ quietEdit' = quietEdit /\ doubled' = doubled
      /\ mediaFaults' = mediaFaults /\ edits' = edits /\ lapses' = lapses
      /\ thumb' \in {thumb, thumb \cup {u}}
  BY DEF ProcessVideoAsset, PutThumbnail, history, counters
<1>3. /\ row.now # NoUpload => row.now \in row.has
      /\ row.put => row.now \in thumb
      /\ row.err => row.now # NoUpload
  BY <1>1 DEF AssetsInv, TasksKnow
<1>4. PICK q \in TaskRow : /\ task' = [task EXCEPT ![t] = q] /\ q.has = row.has /\ q.read = row.read
                           /\ q.now # NoUpload => q.now \in q.has
                           /\ q.put => q.now \in thumb'
                           /\ ~q.err /\ ~row.err
  <2>1. CASE ProcessVideoAsset(t, u)
    <3> DEFINE p == [row EXCEPT !.now = u]
    <3>1. p \in TaskRow /\ p.has = row.has /\ p.read = row.read /\ p.now = u /\ p.put = row.put /\ p.err = row.err
      BY DEF TaskRow
    <3>2. task' = [task EXCEPT ![t] = p] /\ u \in row.has /\ row.now = NoUpload /\ thumb' = thumb
      BY <1>1, <2>1 DEF ProcessVideoAsset
    <3> HIDE DEF p
    <3>3. ~row.put /\ ~row.err
      BY <1>3, <3>2, AssetNames, AssetTypes
    <3> QED
      BY <3>1, <3>2, <3>3
  <2>2. CASE PutThumbnail(t, u)
    <3> DEFINE p == [row EXCEPT !.put = TRUE]
    <3>1. p \in TaskRow /\ p.has = row.has /\ p.read = row.read /\ p.now = row.now /\ p.err = row.err
      BY DEF TaskRow
    <3>2. task' = [task EXCEPT ![t] = p] /\ row.now = u /\ ~row.err /\ thumb' = thumb \cup {u}
      BY <1>1, <2>2 DEF PutThumbnail
    <3> HIDE DEF p
    <3> QED
      BY <1>3, <3>1, <3>2
  <2> QED
    BY <2>1, <2>2
<1>5. ThumbnailsAreStored' /\ QuietEditsKept'
  BY <1>2 DEF AssetsInv, ThumbnailsAreStored, QuietEditsKept
<1>6. MediaPart'
  BY <1>1, <1>2, <1>4, <1>5, HandSound
<1>7. UploadsPart'
  <2>1. \A s \in Uploads : task'[s].has \subseteq task[s].has
    BY <1>1, <1>4, AssetTypes, AssetNames
  <2> QED
    BY <1>2, <2>1, UploadsFrame
<1>8. (task \in [MediaTasks -> TaskRow])' /\ (thumb \in SUBSET Uploads)'
  BY <1>2, <1>4, AssetTypes
<1>9. AssetsTypeOK'
  BY <1>2, <1>8 DEF AssetsInv, AssetsTypeOK
<1> QED
  BY <1>6, <1>7, <1>9, AssetsWhole

\* What putting back does to a task.
LEMMA PutBackRow ==
    ASSUME AssetsInv, NEW t \in MediaTasks, NEW u \in Uploads, task' = PutBack(t, u)
    PROVE  \E q \in TaskRow : /\ task' = [task EXCEPT ![t] = q] /\ q.has = task[t].has \ {u}
                              /\ q.now = NoUpload /\ ~q.put /\ ~q.err
                              /\ \A v \in q.has : q.read[v] = task[t].read[v]
<1>1. PICK row \in TaskRow : row = task[t]
  BY AssetTypes
<1> DEFINE rd == [row.read EXCEPT ![u] = NoMetadata]
<1> DEFINE q == [has |-> row.has \ {u}, now |-> NoUpload, put |-> FALSE, err |-> FALSE, read |-> rd]
<1>2. NoMetadata \in Metadata
  BY DEF NoMetadata, Metadata
<1>3. rd \in [Uploads -> Metadata] /\ \A v \in Uploads \ {u} : rd[v] = row.read[v]
  BY <1>2 DEF TaskRow
<1>4. task' = [task EXCEPT ![t] = q]
  BY <1>1, AssetTypes DEF PutBack
<1> HIDE DEF rd
<1>5. row.has \in SUBSET Uploads
  BY DEF TaskRow
<1>6. q \in TaskRow
  BY <1>3, <1>5 DEF TaskRow
<1>7. q.has = row.has \ {u} /\ q.now = NoUpload /\ ~q.put /\ ~q.err /\ q.read = rd
  OBVIOUS
<1> HIDE DEF q
<1> QED
  BY <1>1, <1>3, <1>4, <1>5, <1>6, <1>7

\* What a mark does to the row, or a mark that does not happen.
LEMMA MarkedRow ==
    ASSUME AssetsInv, NEW t \in MediaTasks, NEW u \in Uploads, task[t].now = u, thumb' = thumb, quietEdit' = quietEdit,
           \/ asset' = asset
           \/ task[t].put /\ asset' = MarkedReady(t, u)
           \/ asset' = [asset EXCEPT ![u].st = "failed", ![u].lapsed = FALSE]
    PROVE  /\ \E a \in AssetRow : asset' = [asset EXCEPT ![u] = a] /\ a.key = asset[u].key /\ a.st # "none"
           /\ ThumbnailsAreStored' /\ QuietEditsKept'
<1>1. u \in task[t].has /\ (task[t].put => u \in thumb)
  BY AssetNames DEF AssetsInv, TasksKnow
<1>2. asset[u].st # "none" /\ (u \in quietEdit => task[t].read[u].edit)
  BY <1>1 DEF AssetsInv, TasksKnow
<1>3. PICK row \in AssetRow : row = asset[u]
  BY AssetTypes
<1>4. PICK a \in AssetRow : /\ asset' = [asset EXCEPT ![u] = a] /\ a.key = row.key /\ a.st # "none" /\ a.video = row.video
                            /\ (a.meta.thumb = "own" => row.meta.thumb = "own" \/ u \in thumb)
                            /\ (u \in quietEdit => a.meta.edit)
                            /\ ((a.video /\ a.st = "ready") => (a.meta.thumb = "own" \/ a.meta.edit))
  <2>1. CASE asset' = asset
    <3>1. asset' = [asset EXCEPT ![u] = row]
      BY <1>3, <2>1, AssetTypes
    <3>2. u \in quietEdit => row.meta.edit
      BY <1>3 DEF AssetsInv, QuietEditsKept
    <3>3. (row.video /\ row.st = "ready") => (row.meta.thumb = "own" \/ row.meta.edit)
      BY <1>3 DEF AssetsInv, ThumbnailsAreStored
    <3> QED
      BY <1>2, <1>3, <3>1, <3>2, <3>3
  <2>2. CASE task[t].put /\ asset' = MarkedReady(t, u) /\ Markable(u)
    <3>1. PICK m \in Metadata : m = task[t].read[u]
      BY AssetTypes DEF TaskRow
    <3> DEFINE n == MergeMediaMetadata(m)
    <3>2. n \in Metadata /\ n.thumb = "own" /\ n.edit = m.edit
      BY DEF Metadata, MergeMediaMetadata
    <3>3. asset' = [asset EXCEPT ![u].st = "ready", ![u].lapsed = FALSE, ![u].meta = n]
      BY <2>2, <3>1 DEF MarkedReady
    <3> HIDE DEF n
    <3> DEFINE a == [row EXCEPT !.st = "ready", !.lapsed = FALSE, !.meta = n]
    <3>4. a \in AssetRow /\ a.key = row.key /\ a.st = "ready" /\ a.video = row.video /\ a.meta = n
      BY <3>2 DEF AssetRow
    <3>5. asset' = [asset EXCEPT ![u] = a]
      BY <1>3, <3>3, AssetTypes
    <3> HIDE DEF a
    <3> QED
      BY <1>1, <1>2, <2>2, <3>1, <3>2, <3>4, <3>5
  <2>3. CASE asset' = [asset EXCEPT ![u].st = "failed", ![u].lapsed = FALSE]
    <3> DEFINE a == [row EXCEPT !.st = "failed", !.lapsed = FALSE]
    <3>1. a \in AssetRow /\ a.key = row.key /\ a.st = "failed" /\ a.video = row.video /\ a.meta = row.meta
      BY DEF AssetRow
    <3>2. asset' = [asset EXCEPT ![u] = a]
      BY <1>3, <2>3, AssetTypes
    <3> HIDE DEF a
    <3>3. u \in quietEdit => row.meta.edit
      BY <1>3 DEF AssetsInv, QuietEditsKept
    <3> QED
      BY <3>1, <3>2, <3>3
  <2> QED
    BY <2>1, <2>2, <2>3 DEF MarkedReady
<1>5. asset'[u] = a /\ \A v \in Uploads \ {u} : asset'[v] = asset[v]
  BY <1>4, AssetTypes
<1>6. ThumbnailsAreStored'
  <2> SUFFICES ASSUME NEW v \in Uploads
               PROVE  /\ asset'[v].meta.thumb = "own" => v \in thumb
                      /\ (asset'[v].video /\ asset'[v].st = "ready") => (asset'[v].meta.thumb = "own" \/ asset'[v].meta.edit)
    BY DEF ThumbnailsAreStored
  <2>1. CASE v = u
    BY <1>3, <1>4, <1>5, <2>1 DEF AssetsInv, ThumbnailsAreStored
  <2>2. CASE v # u
    BY <1>5, <2>2 DEF AssetsInv, ThumbnailsAreStored
  <2> QED
    BY <2>1, <2>2
<1>7. QuietEditsKept'
  BY <1>4, <1>5, AssetTypes DEF AssetsInv, QuietEditsKept
<1> QED
  BY <1>3, <1>4, <1>6, <1>7

LEMMA MarkSound ==
    ASSUME AssetsInv, NEW t \in MediaTasks, NEW u \in Uploads,
           MarkVideoAssetReady(t, u) \/ MarkVideoAssetFailed(t, u) \/ MarkLost(t, u)
    PROVE  AssetsInv'
<1>1. /\ session' = session /\ object' = object /\ upload' = upload /\ thumb' = thumb
      /\ quietEdit' = quietEdit /\ doubled' = doubled
      /\ mediaFaults' = mediaFaults /\ edits' = edits /\ lapses' = lapses
      /\ task[t].now = u /\ task' = PutBack(t, u)
  BY DEF MarkVideoAssetReady, MarkVideoAssetFailed, MarkLost, history, counters
<1>2. PICK q \in TaskRow : /\ task' = [task EXCEPT ![t] = q] /\ q.has = task[t].has \ {u}
                           /\ q.now = NoUpload /\ ~q.put /\ ~q.err
                           /\ \A v \in q.has : q.read[v] = task[t].read[v]
  BY <1>1, PutBackRow
<1>3. u \in task[t].has
  BY <1>1, AssetNames DEF AssetsInv, TasksKnow
<1>4. asset[u].st # "none"
  BY <1>3 DEF AssetsInv, TasksKnow
<1>5. \/ asset' = asset
      \/ task[t].put /\ asset' = MarkedReady(t, u)
      \/ asset' = [asset EXCEPT ![u].st = "failed", ![u].lapsed = FALSE]
  BY DEF MarkVideoAssetReady, MarkVideoAssetFailed, MarkLost
<1>6. PICK a \in AssetRow : asset' = [asset EXCEPT ![u] = a] /\ a.key = asset[u].key /\ a.st # "none"
  BY <1>1, <1>5, MarkedRow
<1>7. asset'[u] = a /\ \A v \in Uploads \ {u} : asset'[v] = asset[v]
  BY <1>6, AssetTypes
<1>8. ThumbnailsAreStored' /\ QuietEditsKept'
  BY <1>1, <1>5, MarkedRow
<1>9. \A v \in Uploads : \/ asset'[v].st = asset[v].st
                         \/ v \in task[t].has \ q.has /\ asset'[v].st # "none"
  BY <1>2, <1>3, <1>6, <1>7
<1>10. MediaPart'
  BY <1>1, <1>2, <1>8, <1>9, HandSound
<1>11. (task \in [MediaTasks -> TaskRow])' /\ \A s \in Uploads : task'[s].has \subseteq task[s].has
  BY <1>2, AssetTypes, AssetNames
<1> QED
  BY <1>1, <1>4, <1>6, <1>10, <1>11, AssetTypes, EditSound

LEMMA ProcessingFailsSound ==
    ASSUME AssetsInv, NEW t \in MediaTasks, NEW u \in Uploads, ProcessingFails(t, u)
    PROVE  AssetsInv'
<1>1. /\ session' = session /\ object' = object /\ upload' = upload /\ thumb' = thumb
      /\ quietEdit' = quietEdit /\ doubled' = doubled /\ edits' = edits /\ lapses' = lapses
  BY DEF ProcessingFails, history
<1>2. (mediaFaults \in 0 .. MaxMediaFaults)'
  BY AssetTypes, AssetsAssumption DEF ProcessingFails
<1>3. PICK row \in TaskRow : row = task[t]
  BY AssetTypes
<1> DEFINE q == [row EXCEPT !.err = TRUE]
<1>4. q \in TaskRow /\ q.has = row.has /\ q.read = row.read /\ q.now = row.now /\ q.put = row.put /\ q.err = TRUE
  BY DEF TaskRow
<1>5. task' = [task EXCEPT ![t] = q] /\ row.now = u /\ ~row.err
  BY <1>3 DEF ProcessingFails
<1> HIDE DEF q
<1>6. u \in row.has /\ (row.put => u \in thumb) /\ u # NoUpload
  BY <1>3, <1>5, AssetNames DEF AssetsInv, TasksKnow
<1>7. asset[u].st # "none"
  BY <1>3, <1>6 DEF AssetsInv, TasksKnow
<1>8. asset' = asset \/ (task[t].put /\ asset' = MarkedReady(t, u))
  BY DEF ProcessingFails
<1>9. PICK a \in AssetRow : asset' = [asset EXCEPT ![u] = a] /\ a.key = asset[u].key /\ a.st # "none"
  BY <1>1, <1>3, <1>5, <1>8, MarkedRow
<1>10. asset'[u] = a /\ \A v \in Uploads \ {u} : asset'[v] = asset[v]
  BY <1>9, AssetTypes
<1>11. ThumbnailsAreStored' /\ QuietEditsKept'
  BY <1>1, <1>3, <1>5, <1>8, MarkedRow
<1>12. asset'[u].st = asset[u].st \/ (asset'[u].st = "ready" /\ row.put)
  BY <1>3, <1>8, AssetTypes DEF MarkedReady, AssetRow
<1>13. \A v \in Uploads : \/ asset'[v].st = asset[v].st
                          \/ v \in q.has /\ asset'[v].st = "ready" /\ q.now = v /\ q.put /\ q.err
  BY <1>4, <1>5, <1>6, <1>10, <1>12
<1>14. MediaPart'
  BY <1>1, <1>3, <1>4, <1>5, <1>6, <1>11, <1>13, HandSound
<1>15. (task \in [MediaTasks -> TaskRow])' /\ \A s \in Uploads : task'[s].has \subseteq task[s].has
  BY <1>3, <1>4, <1>5, AssetTypes, AssetNames
<1> QED
  BY <1>1, <1>2, <1>7, <1>9, <1>14, <1>15, AssetTypes, EditSound

LEMMA SpawnedTaskEndsSound ==
    ASSUME AssetsInv, NEW u \in Uploads, SpawnedTaskEnds(u)
    PROVE  AssetsInv'
<1>1. /\ session' = session /\ object' = object /\ asset' = asset /\ thumb' = thumb /\ task' = task
      /\ quietEdit' = quietEdit /\ doubled' = doubled /\ edits' = edits /\ lapses' = lapses
  BY DEF SpawnedTaskEnds, history
<1>2. (mediaFaults \in 0 .. MaxMediaFaults)'
  BY AssetTypes, AssetsAssumption DEF SpawnedTaskEnds
<1>3. PICK row \in UploadRow : row = upload[u]
  BY AssetTypes
<1> DEFINE q == [row EXCEPT !.pc = "done"]
<1>4. q \in UploadRow /\ q.pc = "done" /\ q.direct = row.direct
  BY DEF UploadRow
<1>5. upload' = [upload EXCEPT ![u] = q] /\ row.pc = "spawned"
  BY <1>3 DEF SpawnedTaskEnds
<1> HIDE DEF q
<1>6. (upload \in [Uploads -> UploadRow])' /\ upload'[u] = q /\ \A v \in Uploads \ {u} : upload'[v] = upload[v]
  BY <1>4, <1>5, AssetTypes
<1>7. UploadsStay
  BY <1>3, <1>4, <1>5, <1>6 DEF UploadsStay
<1>8. AssetsTypeOK'
  BY <1>1, <1>2, <1>6 DEF AssetsInv, AssetsTypeOK
<1> QED
  BY <1>1, <1>7, <1>8, UploadsFrame, MediaFrame, AssetsWhole

LEMMA CrashMediaSound ==
    ASSUME AssetsInv, CrashMedia
    PROVE  AssetsInv'
<1>1. /\ session' = session /\ object' = object /\ asset' = asset /\ thumb' = thumb
      /\ quietEdit' = quietEdit /\ doubled' = doubled /\ edits' = edits /\ lapses' = lapses
      /\ task' = [t \in MediaTasks |-> IdleTask]
  BY DEF CrashMedia, history
<1>2. (mediaFaults \in 0 .. MaxMediaFaults)'
  BY AssetTypes, AssetsAssumption DEF CrashMedia
<1>3. (upload \in [Uploads -> UploadRow])' /\ \A u \in Uploads : /\ upload'[u].direct = upload[u].direct
                           /\ upload'[u].pc = CASE upload[u].pc \in {"checked", "stored", "consumed"} -> "lost"
                                                 [] upload[u].pc = "spawned" -> "done"
                                                 [] OTHER -> upload[u].pc
  <2>1. ASSUME NEW u \in Uploads
        PROVE  /\ upload'[u] \in UploadRow /\ upload'[u].direct = upload[u].direct
               /\ upload'[u].pc = CASE upload[u].pc \in {"checked", "stored", "consumed"} -> "lost"
                                     [] upload[u].pc = "spawned" -> "done"
                                     [] OTHER -> upload[u].pc
    <3>1. PICK row \in UploadRow : row = upload[u]
      BY AssetTypes
    <3> DEFINE q == [row EXCEPT !.pc = "lost"]
    <3> DEFINE p == [row EXCEPT !.pc = "done"]
    <3>2. q \in UploadRow /\ q.pc = "lost" /\ q.direct = row.direct /\ p \in UploadRow /\ p.pc = "done" /\ p.direct = row.direct
      BY DEF UploadRow
    <3>3. upload'[u] = CASE row.pc \in {"checked", "stored", "consumed"} -> q
                         [] row.pc = "spawned" -> p
                         [] OTHER -> row
      BY <3>1 DEF CrashMedia
    <3> HIDE DEF q, p
    <3> QED
      BY <3>1, <3>2, <3>3
  <2>2. upload' = [u \in Uploads |-> upload'[u]]
    BY DEF CrashMedia
  <2> QED
    BY <2>1, <2>2
<1>4. OneConsumer'
  <2>1. \A u \in Uploads : Consumer(u)' => Consumer(u)
    BY <1>3 DEF Consumer
  <2> QED
    BY <1>1, <2>1 DEF AssetsInv, OneConsumer
<1>5. BytesAreStored'
  BY <1>1, <1>3 DEF AssetsInv, BytesAreStored
<1>6. MadeByUpload'
  BY <1>1, <1>3 DEF AssetsInv, MadeByUpload, StorageKey
<1>7. \A t \in MediaTasks : task'[t] \in TaskRow /\ task'[t].has = {} /\ task'[t].now = NoUpload /\ ~task'[t].put /\ ~task'[t].err
  BY <1>1, IdleTaskFields
<1>8. (task \in [MediaTasks -> TaskRow])'
  BY <1>1, IdleTaskFields
<1>9. AssetsTypeOK'
  BY <1>1, <1>2, <1>3, <1>8 DEF AssetsInv, AssetsTypeOK
<1>10. ThumbnailsAreStored' /\ QuietEditsKept'
  BY <1>1 DEF AssetsInv, ThumbnailsAreStored, QuietEditsKept
<1>11. TasksKnow' /\ OneHand'
  BY <1>7 DEF TasksKnow, OneHand
<1>12. TasksSpawned'
  BY <1>7, AssetNames DEF TasksSpawned
<1> QED
  BY <1>4, <1>5, <1>6, <1>9, <1>10, <1>11, <1>12, AssetsWhole DEF UploadsPart, MediaPart

LEMMA AssetsStep ==
    ASSUME AssetsInv, AssetsNext
    PROVE  AssetsInv'
<1>1. CASE CreateAssetUploadUrl \/ ExpireUpload \/ ClaimPendingVideoAssets \/ CrashMedia
  BY <1>1, SessionStepSound, ClaimSound, CrashMediaSound
<1>2. ASSUME NEW u \in Uploads,
             \/ StartUpload(u) \/ PutObject(u) \/ ConsumeUpload(u) \/ InsertCustomerAsset(u)
             \/ UpdateCustomerAsset(u) \/ DeleteCustomerAsset(u) \/ LeaseLapses(u)
             \/ ClaimVideoAssetById(u) \/ SpawnedTaskEnds(u)
      PROVE  AssetsInv'
  BY <1>2, StartUploadSound, PutObjectSound, ConsumeUploadSound, InsertCustomerAssetSound, UpdateCustomerAssetSound,
     DeleteCustomerAssetSound, LeaseLapsesSound, ClaimSound, SpawnedTaskEndsSound
<1>3. ASSUME NEW u \in Uploads, NEW t \in MediaTasks, MediaStep(t, u) PROVE AssetsInv'
  BY <1>3, ProcessVideoAssetSound, MarkSound, ProcessingFailsSound DEF MediaStep
<1> QED
  BY <1>1, <1>2, <1>3 DEF AssetsNext

LEMMA AssetsStutter ==
    ASSUME AssetsInv, UNCHANGED assetVars
    PROVE  AssetsInv'
<1>1. /\ session' = session /\ asset' = asset /\ object' = object /\ thumb' = thumb /\ upload' = upload /\ task' = task
      /\ quietEdit' = quietEdit /\ doubled' = doubled /\ mediaFaults' = mediaFaults /\ edits' = edits /\ lapses' = lapses
  BY DEF assetVars
<1>2. AssetsTypeOK'
  BY <1>1 DEF AssetsInv, AssetsTypeOK
<1> QED
  BY <1>1, <1>2, UploadsFrame, MediaFrame, AssetsWhole

\* What the invariant says to customers.
LEMMA AssetsSound == AssetsInv => AssetsKept
<1> SUFFICES ASSUME AssetsInv PROVE AssetsKept
  OBVIOUS
<1>1. SessionMakesOneAsset
  <2> DEFINE S == {u \in Uploads : asset[u].st # "none" /\ asset[u].key = "session"}
  <2>1. ASSUME NEW u \in S PROVE Consumer(u)
    <3>1. u \in Uploads /\ upload[u].pc \in {"spawned", "done"} /\ StorageKey(u) = "session"
      BY DEF AssetsInv, MadeByUpload
    <3> QED
      BY <3>1, AssetNames DEF StorageKey, Consumer
  <2>2. \A u, v \in S : u = v
    BY <2>1 DEF AssetsInv, OneConsumer
  <2>3. Cardinality(S) <= 1
    <3>1. CASE S = {}
      <4>1. Cardinality(S) = 0
        BY <3>1, FS_EmptySet
      <4> QED
        BY <4>1
    <3>2. ASSUME NEW u \in S PROVE Cardinality(S) <= 1
      <4>1. S = {u}
        BY <2>2
      <4>2. Cardinality({u}) = 1
        BY FS_Singleton
      <4> QED
        BY <4>1, <4>2
    <3> QED
      BY <3>1, <3>2
  <2> QED
    BY <2>3 DEF SessionMakesOneAsset
<1>2. ASSUME NEW u \in Uploads, asset[u].st # "none"
      PROVE  /\ object[asset[u].key] # NoUpload
             /\ object[asset[u].key] # u =>
                   asset[u].key = "session" /\ upload[object["session"]].pc \in {"stored", "refused", "lost"}
  <2>1. upload[u].pc \in {"spawned", "done"} /\ asset[u].key = StorageKey(u)
    BY <1>2 DEF AssetsInv, MadeByUpload
  <2>2. CASE upload[u].direct
    <3>1. asset[u].key = u /\ object[u] = u
      BY <2>1, <2>2 DEF AssetsInv, BytesAreStored, StorageKey
    <3> QED
      BY <3>1, AssetNames
  <2>3. CASE ~upload[u].direct
    <3>1. asset[u].key = "session" /\ object["session"] # NoUpload /\ Consumer(u)
      BY <2>1, <2>3 DEF AssetsInv, BytesAreStored, StorageKey, Consumer
    <3>2. PICK v \in Uploads : v = object["session"]
      BY <3>1, AssetNames, AssetTypes
    <3>3. ~upload[v].direct /\ upload[v].pc \in {"stored", "consumed", "refused", "lost", "spawned", "done"}
      BY <3>2 DEF AssetsInv, BytesAreStored
    <3>4. v # u => ~Consumer(v)
      BY <3>1 DEF AssetsInv, OneConsumer
    <3>5. v # u => upload[v].pc \in {"stored", "refused", "lost"}
      BY <3>3, <3>4 DEF Consumer
    <3> QED
      BY <3>1, <3>2, <3>5
  <2> QED
    BY <2>2, <2>3
<1>3. OverwrittenByRefused
  BY <1>2 DEF OverwrittenByRefused
<1>4. DownloadsExist
  BY <1>2 DEF AssetsInv, ThumbnailsAreStored, DownloadsExist, Downloadable, ThumbnailDownloadable
<1>5. QuietEditsSurvive
  BY DEF AssetsInv, QuietEditsKept, QuietEditsSurvive
<1> QED
  BY <1>1, <1>3, <1>4, <1>5 DEF AssetsInv, AssetsKept

\* What no step does to an asset that is deleted or marked.
OutcomesStay ==
    \A u \in Uploads :
       /\ asset[u].st = "deleted" => asset'[u].st = "deleted"
       /\ (asset[u].st = "failed" /\ u \notin doubled) => asset'[u].st \in {"failed", "deleted"}
       /\ (asset[u].st = "ready" /\ u \notin doubled) =>
             \/ asset'[u].st \in {"ready", "deleted"}
             \/ asset'[u].st = "failed" /\ \E t \in MediaTasks : task[t].now = u /\ task[t].put /\ task[t].err

\* One row is written at a time, apart from claims.
LEMMA OneOutcome ==
    ASSUME AssetsInv, NEW u \in Uploads, \A v \in Uploads \ {u} : asset'[v].st = asset[v].st,
           \/ asset[u].st = "none" \/ asset'[u].st \in {asset[u].st, "deleted"}
           \/ /\ asset[u].st # "deleted"
              /\ \E t \in MediaTasks : u \in task[t].has /\ (asset'[u].st = "failed" \/ ~task[t].err)
    PROVE  OutcomesStay
<1> SUFFICES ASSUME NEW v \in Uploads
             PROVE  /\ asset[v].st = "deleted" => asset'[v].st = "deleted"
                    /\ (asset[v].st = "failed" /\ v \notin doubled) => asset'[v].st \in {"failed", "deleted"}
                    /\ (asset[v].st = "ready" /\ v \notin doubled) =>
                          \/ asset'[v].st \in {"ready", "deleted"}
                          \/ asset'[v].st = "failed" /\ \E t \in MediaTasks : Unanswered(t, v)
  BY DEF OutcomesStay, Unanswered
<1>1. CASE v # u
  BY <1>1
<1>2. CASE v = u
  <2>1. \A t \in MediaTasks : (v \notin doubled /\ v \in task[t].has) =>
          \/ asset[v].st \in {"processing", "deleted"}
          \/ asset[v].st = "ready" /\ Unanswered(t, v)
    BY DEF AssetsInv, OneHand
  <2>2. \A t \in MediaTasks : Unanswered(t, v) => task[t].err
    BY DEF Unanswered
  <2> QED
    BY <1>2, <2>1, <2>2
<1> QED
  BY <1>1, <1>2

LEMMA OutcomesStep ==
    ASSUME AssetsInv, AssetsNext
    PROVE  OutcomesStay
<1>1. CASE asset' = asset
  BY <1>1 DEF OutcomesStay
<1>2. ASSUME NEW t \in MediaTasks, NEW us \in SUBSET Uploads, Claims(t, us) PROVE OutcomesStay
  <2>1. \A u \in Uploads : asset'[u].st = asset[u].st
    BY <1>2, StartedRow DEF Claims
  <2> QED
    BY <2>1 DEF OutcomesStay
<1>3. ASSUME NEW u \in Uploads, InsertCustomerAsset(u) PROVE OutcomesStay
  <2>1. asset[u].st = "none"
    BY <1>3 DEF AssetsInv, MadeByUpload, InsertCustomerAsset
  <2>2. \A v \in Uploads \ {u} : asset'[v].st = asset[v].st
    BY <1>3, AssetTypes DEF InsertCustomerAsset
  <2> QED
    BY <2>1, <2>2, OneOutcome
<1>4. ASSUME NEW u \in Uploads, UpdateCustomerAsset(u) \/ DeleteCustomerAsset(u) \/ LeaseLapses(u) PROVE OutcomesStay
  <2>1. CASE UpdateCustomerAsset(u)
    <3>1. PICK m \in ClientMetadata(TRUE) \cup {asset[u].meta} :
             asset' = [asset EXCEPT ![u].meta = m, ![u].lapsed = FALSE]
      BY <2>1 DEF UpdateCustomerAsset
    <3>2. asset'[u].st = asset[u].st /\ \A v \in Uploads \ {u} : asset'[v].st = asset[v].st
      BY <3>1, AssetTypes DEF AssetRow
    <3> QED
      BY <3>2, OneOutcome
  <2>2. CASE DeleteCustomerAsset(u) \/ LeaseLapses(u)
    <3>1. asset'[u].st \in {asset[u].st, "deleted"} /\ \A v \in Uploads \ {u} : asset'[v].st = asset[v].st
      BY <2>2, AssetTypes DEF DeleteCustomerAsset, LeaseLapses, AssetRow
    <3> QED
      BY <3>1, OneOutcome
  <2> QED
    BY <1>4, <2>1, <2>2
<1>5. ASSUME NEW u \in Uploads, NEW t \in MediaTasks,
             MarkVideoAssetReady(t, u) \/ MarkVideoAssetFailed(t, u) \/ ProcessingFails(t, u)
      PROVE  OutcomesStay
  <2>1. u \in task[t].has
    BY <1>5, AssetNames DEF AssetsInv, TasksKnow, MarkVideoAssetReady, MarkVideoAssetFailed, ProcessingFails
  <2>2. \/ asset' = asset
        \/ asset[u].st # "deleted" /\ ~task[t].err /\ \A v \in Uploads \ {u} : asset'[v] = asset[v]
        \/ /\ asset[u].st # "deleted" /\ asset' = [asset EXCEPT ![u].st = "failed", ![u].lapsed = FALSE]
    BY <1>5, AssetTypes DEF MarkVideoAssetReady, MarkVideoAssetFailed, ProcessingFails, MarkedReady, Markable
  <2>3. ASSUME asset' = [asset EXCEPT ![u].st = "failed", ![u].lapsed = FALSE]
        PROVE  asset'[u].st = "failed" /\ \A v \in Uploads \ {u} : asset'[v] = asset[v]
    BY <2>3, AssetTypes DEF AssetRow
  <2> QED
    BY <1>1, <2>1, <2>2, <2>3, OneOutcome
<1>6. CASE ClaimPendingVideoAssets
  BY <1>2, <1>6, AssetNames DEF ClaimPendingVideoAssets
<1>7. ASSUME NEW u \in Uploads, ClaimVideoAssetById(u) PROVE OutcomesStay
  BY <1>2, <1>7, AssetNames DEF ClaimVideoAssetById
<1>8. CASE CreateAssetUploadUrl \/ ExpireUpload \/ CrashMedia
  BY <1>1, <1>8 DEF CreateAssetUploadUrl, ExpireUpload, CrashMedia
<1>9. ASSUME NEW u \in Uploads, StartUpload(u) \/ PutObject(u) \/ ConsumeUpload(u) \/ SpawnedTaskEnds(u)
      PROVE  OutcomesStay
  BY <1>1, <1>9 DEF StartUpload, PutObject, ConsumeUpload, SpawnedTaskEnds
<1>10. ASSUME NEW u \in Uploads, NEW t \in MediaTasks, ProcessVideoAsset(t, u) \/ PutThumbnail(t, u) \/ MarkLost(t, u)
       PROVE  OutcomesStay
  BY <1>1, <1>10 DEF ProcessVideoAsset, PutThumbnail, MarkLost
<1> QED
  BY <1>3, <1>4, <1>5, <1>6, <1>7, <1>8, <1>9, <1>10 DEF AssetsNext, MediaStep

-----------------------------------------------------------------------------
(* Works. *)

LEMMA WorkTypes ==
    ASSUME WorksInv
    PROVE  /\ work \in [Works -> WorkRow] /\ made \in [Works -> SUBSET Traces]
           /\ pub \in [Works -> {"none", "published", "unpublished"}]
           /\ favorite \in SUBSET (Works \X Viewers \X WorkRequests)
           /\ downloads \in [Works \X Viewers -> 0 .. Cardinality(WorkRequests)]
           /\ workReq \in [WorkRequests -> WorkRequest]
           /\ workRaced \in BOOLEAN /\ workStops \in 0 .. MaxWorkStops
  BY DEF WorksInv, WorksTypeOK

LEMMA WorksInitSound == WorksInit => WorksInv
<1> SUFFICES ASSUME WorksInit PROVE WorksInv
  OBVIOUS
<1> DEFINE idle == [pc |-> "idle", op |-> "none", w |-> CHOOSE w \in Works : TRUE, c |-> Owner]
<1>1. idle \in WorkRequest /\ idle.pc = "idle" /\ idle.op = "none"
  <2>1. (CHOOSE w \in Works : TRUE) \in Works
    BY WorksAssumption
  <2> QED
    BY <2>1 DEF WorkRequest, Viewers
<1>2. workReq = [r \in WorkRequests |-> idle]
  BY DEF WorksInit
<1> HIDE DEF idle
<1>3. \A r \in WorkRequests : workReq[r].pc = "idle" /\ workReq[r].op = "none"
  BY <1>1, <1>2
<1>4. Cardinality(WorkRequests) \in Nat
  BY WorksAssumption, FS_CardinalityType
<1>5. WorksTypeOK
  <2>1. work \in [Works -> WorkRow]
    BY DEF WorksInit, WorkRow
  <2>2. workReq \in [WorkRequests -> WorkRequest]
    BY <1>1, <1>2
  <2>3. downloads \in [Works \X Viewers -> 0 .. Cardinality(WorkRequests)] /\ workStops \in 0 .. MaxWorkStops
    BY <1>4, WorksAssumption DEF WorksInit
  <2>4. favorite \in SUBSET (Works \X Viewers \X WorkRequests)
    BY DEF WorksInit
  <2> QED
    BY <2>1, <2>2, <2>3, <2>4 DEF WorksInit, WorksTypeOK
<1>6. \A w \in Works : work[w].st = "none" /\ work[w].vis = "private" /\ pub[w] = "none" /\ made[w] = {}
  BY DEF WorksInit
<1>7. WorksAreMadeOnce /\ TracesInOrder /\ WorkTurns /\ WorkIsBacked
  BY <1>3, <1>6 DEF WorksAreMadeOnce, TracesInOrder, WorkTurns, WorkIsBacked, At, Agrees
<1>8. OneFavoriteRow
  BY DEF WorksInit, OneFavoriteRow
<1>9. DownloadsCounted
  <2> SUFFICES ASSUME NEW w \in Works, NEW c \in Viewers
               PROVE  downloads[<<w, c>>] = Cardinality({r \in WorkRequests :
                          workReq[r].op = "download" /\ workReq[r].pc = "done" /\ workReq[r].w = w /\ workReq[r].c = c})
    BY DEF DownloadsCounted
  <2>1. {r \in WorkRequests : workReq[r].op = "download" /\ workReq[r].pc = "done" /\ workReq[r].w = w /\ workReq[r].c = c} = {}
    BY <1>3
  <2>2. downloads[<<w, c>>] = 0
    BY DEF WorksInit
  <2> QED
    BY <2>1, <2>2, FS_EmptySet
<1> QED
  BY <1>5, <1>7, <1>8, <1>9 DEF WorksInv

\* The requests that have been counted.
Downloaded(req, w, c) ==
    {r \in WorkRequests : req[r].op = "download" /\ req[r].pc = "done" /\ req[r].w = w /\ req[r].c = c}

\* A step of a request that is not the end of a download.
LEMMA DownloadsFrame ==
    ASSUME WorksInv, NEW r \in WorkRequests, NEW q \in WorkRequest, workReq' = [workReq EXCEPT ![r] = q],
           downloads' = downloads, workReq[r].pc # "done", q.pc = "done" => q.op # "download"
    PROVE  DownloadsCounted' /\ (downloads \in [Works \X Viewers -> 0 .. Cardinality(WorkRequests)])'
<1>1. workReq'[r] = q /\ \A p \in WorkRequests \ {r} : workReq'[p] = workReq[p]
  BY WorkTypes
<1>2. \A w \in Works, c \in Viewers : Downloaded(workReq', w, c) = Downloaded(workReq, w, c)
  BY <1>1 DEF Downloaded
<1>3. DownloadsCounted'
  <2> SUFFICES ASSUME NEW w \in Works, NEW c \in Viewers
               PROVE  downloads'[<<w, c>>] = Cardinality(Downloaded(workReq', w, c))
    BY DEF DownloadsCounted, Downloaded
  <2>1. downloads[<<w, c>>] = Cardinality(Downloaded(workReq, w, c))
    BY DEF WorksInv, DownloadsCounted, Downloaded
  <2> QED
    BY <1>2, <2>1
<1> QED
  BY <1>3, WorkTypes

LEMMA CountIsBounded ==
    ASSUME (workReq \in [WorkRequests -> WorkRequest])', DownloadsCounted',
           downloads' = [x \in Works \X Viewers |-> downloads'[x]]
    PROVE  (downloads \in [Works \X Viewers -> 0 .. Cardinality(WorkRequests)])'
<1>1. ASSUME NEW w \in Works, NEW c \in Viewers PROVE downloads'[<<w, c>>] \in 0 .. Cardinality(WorkRequests)
  <2>1. downloads'[<<w, c>>] = Cardinality(Downloaded(workReq', w, c))
    BY DEF DownloadsCounted, Downloaded
  <2>2. Downloaded(workReq', w, c) \subseteq WorkRequests
    BY DEF Downloaded
  <2>3. /\ Cardinality(Downloaded(workReq', w, c)) \in Nat /\ Cardinality(WorkRequests) \in Nat
        /\ Cardinality(Downloaded(workReq', w, c)) <= Cardinality(WorkRequests)
    BY <2>2, WorksAssumption, FS_Subset, FS_CardinalityType
  <2> QED
    BY <2>1, <2>3
<1>2. \A x \in Works \X Viewers : downloads'[x] \in 0 .. Cardinality(WorkRequests)
  BY <1>1
<1> QED
  BY <1>2

LEMMA DownloadIsCounted ==
    ASSUME WorksInv, NEW r \in WorkRequests, NEW q \in WorkRequest, workReq' = [workReq EXCEPT ![r] = q],
           workReq[r].pc # "done", q.op = "download", q.pc = "done",
           downloads' = [downloads EXCEPT ![<<q.w, q.c>>] = @ + 1]
    PROVE  DownloadsCounted' /\ (downloads \in [Works \X Viewers -> 0 .. Cardinality(WorkRequests)])'
<1>1. workReq'[r] = q /\ (\A p \in WorkRequests \ {r} : workReq'[p] = workReq[p]) /\ (workReq \in [WorkRequests -> WorkRequest])'
  BY WorkTypes
<1>2. q.w \in Works /\ q.c \in Viewers /\ <<q.w, q.c>> \in Works \X Viewers
  BY DEF WorkRequest
<1>3. DownloadsCounted'
  <2> SUFFICES ASSUME NEW w \in Works, NEW c \in Viewers
               PROVE  downloads'[<<w, c>>] = Cardinality(Downloaded(workReq', w, c))
    BY DEF DownloadsCounted, Downloaded
  <2>1. downloads[<<w, c>>] = Cardinality(Downloaded(workReq, w, c))
    BY DEF WorksInv, DownloadsCounted, Downloaded
  <2>2. CASE w = q.w /\ c = q.c
    <3>1. Downloaded(workReq', w, c) = Downloaded(workReq, w, c) \cup {r} /\ r \notin Downloaded(workReq, w, c)
      BY <1>1, <2>2 DEF Downloaded
    <3>2. IsFiniteSet(Downloaded(workReq, w, c))
      BY WorksAssumption, FS_Subset DEF Downloaded
    <3>3. Cardinality(Downloaded(workReq', w, c)) = Cardinality(Downloaded(workReq, w, c)) + 1
      BY <3>1, <3>2, FS_AddElement
    <3>4. downloads'[<<w, c>>] = downloads[<<w, c>>] + 1
      BY <1>2, <2>2, WorkTypes
    <3> QED
      BY <2>1, <3>3, <3>4
  <2>3. CASE ~(w = q.w /\ c = q.c)
    <3>1. Downloaded(workReq', w, c) = Downloaded(workReq, w, c)
      BY <1>1, <2>3 DEF Downloaded
    <3>2. <<w, c>> # <<q.w, q.c>>
      BY <2>3
    <3>3. downloads'[<<w, c>>] = downloads[<<w, c>>]
      BY <3>2, WorkTypes
    <3> QED
      BY <2>1, <3>1, <3>3
  <2> QED
    BY <2>2, <2>3
<1>4. downloads' = [x \in Works \X Viewers |-> downloads'[x]]
  BY WorkTypes
<1> QED
  BY <1>1, <1>3, <1>4, CountIsBounded

\* A statement of the request r, about its work w, leads to pc.
LEMMA SentRow ==
    ASSUME WorksInv, NEW r \in WorkRequests, NEW pc \in {"half", "done"}, Sent(r, pc)
    PROVE  \E q \in WorkRequest :
              /\ workReq' = [workReq EXCEPT ![r] = q] /\ q.pc = pc
              /\ q.op = workReq[r].op /\ q.w = workReq[r].w /\ q.c = workReq[r].c
              /\ workRaced' \in BOOLEAN /\ workStops' = workStops
              /\ ~workRaced' => /\ ~workRaced
                                /\ \A p \in WorkRequests \ {r} :
                                      workReq[p].pc \in {"read", "half"} => workReq[p].w # q.w
<1>1. PICK row \in WorkRequest : row = workReq[r]
  BY WorkTypes
<1> DEFINE q == [row EXCEPT !.pc = pc]
<1>2. q \in WorkRequest /\ q.pc = pc /\ q.op = row.op /\ q.w = row.w /\ q.c = row.c
  BY DEF WorkRequest
<1>3. workReq' = [workReq EXCEPT ![r] = q]
  BY <1>1 DEF Sent
<1> HIDE DEF q
<1>4. workRaced' \in BOOLEAN /\ workStops' = workStops
  BY DEF Sent
<1>5. ~workRaced' => /\ ~workRaced
                     /\ \A p \in WorkRequests \ {r} : workReq[p].pc \in {"read", "half"} => workReq[p].w # row.w
  BY <1>1 DEF Sent
<1> QED
  BY <1>1, <1>2, <1>3, <1>4, <1>5

LEMMA StatementSound ==
    ASSUME WorksInv, NEW r \in WorkRequests, NEW q \in WorkRequest, workReq' = [workReq EXCEPT ![r] = q],
           workReq[r].pc \in {"read", "half"}, q.pc \in {"half", "done"},
           q.op = workReq[r].op, q.w = workReq[r].w, workRaced' \in BOOLEAN, workStops' = workStops,
           ~workRaced' => /\ ~workRaced
                          /\ \A p \in WorkRequests \ {r} : workReq[p].pc \in {"read", "half"} => workReq[p].w # q.w,
           (work \in [Works -> WorkRow])', (made \in [Works -> SUBSET Traces])',
           (pub \in [Works -> {"none", "published", "unpublished"}])',
           (favorite \in SUBSET (Works \X Viewers \X WorkRequests))', OneFavoriteRow',
           (downloads \in [Works \X Viewers -> 0 .. Cardinality(WorkRequests)])', DownloadsCounted',
           \A v \in Works \ {q.w} : work'[v] = work[v] /\ pub'[v] = pub[v] /\ made'[v] = made[v],
           made[q.w] \subseteq made'[q.w], "asset" \in made'[q.w] => "asset" \in made[q.w],
           work'[q.w].st = "none" => work[q.w].st = "none" /\ work'[q.w].vis = work[q.w].vis /\ pub'[q.w] = pub[q.w],
           work[q.w].st # "none" \/ work'[q.w].st = "none"
             \/ (q.op = "create" /\ q.pc = "half" /\ "asset" \in made[q.w]),
           q.op = "create" => q.pc = "half" \/ "link" \in made'[q.w],
           (~workRaced' /\ workStops = 0) =>
              /\ (q.op = "publish" /\ q.pc = "half") => work'[q.w].vis = "public"
              /\ (q.op \in {"unpublish", "delete"} /\ q.pc = "half") => work'[q.w].vis = "private"
              /\ (q.op \in Publishing /\ q.pc = "half") \/ (work'[q.w].vis = "public" <=> pub'[q.w] = "published")
    PROVE  WorksInv'
<1>1. workReq'[r] = q /\ (\A p \in WorkRequests \ {r} : workReq'[p] = workReq[p]) /\ (workReq \in [WorkRequests -> WorkRequest])'
  BY WorkTypes
<1>2. q.w \in Works /\ \A p \in WorkRequests : workReq[p].w \in Works
  BY WorkTypes DEF WorkRequest
<1>3. WorksTypeOK'
  BY <1>1 DEF WorksInv, WorksTypeOK
<1>4. \A v \in Works : work'[v].st = "none" => work[v].st = "none"
  BY <1>2
<1>5. WorksAreMadeOnce'
  <2>1. \A v \in Works : work'[v].st = "none" => work'[v].vis = "private" /\ pub'[v] = "none"
    BY <1>2, <1>4 DEF WorksInv, WorksAreMadeOnce
  <2>2. ASSUME NEW p \in WorkRequests, workReq'[p].op = "create", workReq'[p].pc = "read"
        PROVE  work'[workReq'[p].w].st = "none"
    <3>1. p # r /\ workReq'[p] = workReq[p]
      BY <1>1, <2>2
    <3>2. work[workReq[p].w].st = "none"
      BY <2>2, <3>1 DEF WorksInv, WorksAreMadeOnce, At
    <3>3. CASE workReq[p].w = q.w
      BY <2>2, <3>1, <3>2, <3>3 DEF WorksInv, WorksAreMadeOnce
    <3>4. CASE workReq[p].w # q.w
      BY <1>2, <3>1, <3>2, <3>4
    <3> QED
      BY <3>3, <3>4
  <2>3. \A p, s \in WorkRequests : (p # s /\ workReq'[p].op = "create" /\ workReq'[s].op = "create") => workReq'[p].w # workReq'[s].w
    BY <1>1 DEF WorksInv, WorksAreMadeOnce
  <2>4. ASSUME NEW p \in WorkRequests, workReq'[p].op \in Publishing, workReq'[p].pc \in {"read", "half"}
        PROVE  work'[workReq'[p].w].st # "none"
    <3>1. workReq'[p].w = workReq[p].w /\ workReq[p].op \in Publishing /\ workReq[p].pc \in {"read", "half"}
      BY <1>1, <2>4
    <3>2. work[workReq[p].w].st # "none"
      BY <3>1 DEF WorksInv, WorksAreMadeOnce
    <3> QED
      BY <1>2, <1>4, <3>1, <3>2
  <2> QED
    BY <2>1, <2>2, <2>3, <2>4 DEF WorksAreMadeOnce, At
<1>6. TracesInOrder'
  <2> SUFFICES ASSUME NEW v \in Works, "asset" \in made'[v] PROVE "ai_asset" \in made'[v] /\ "object" \in made'[v]
    BY DEF TracesInOrder
  <2>1. made[v] \subseteq made'[v] /\ "asset" \in made[v]
    BY <1>2
  <2> QED
    BY <2>1 DEF WorksInv, TracesInOrder
<1>7. WorkIsBacked'
  <2> SUFFICES ASSUME NEW v \in Works, work'[v].st # "none"
               PROVE  /\ Traces \ {"link"} \subseteq made'[v]
                      /\ "link" \notin made'[v] => \E p \in WorkRequests :
                            workReq'[p].op = "create" /\ workReq'[p].w = v /\ workReq'[p].pc \in {"half", "stopped"}
    BY DEF WorkIsBacked
  <2>1. made[v] \subseteq made'[v]
    BY <1>2
  <2>2. CASE work[v].st # "none"
    <3>1. /\ Traces \ {"link"} \subseteq made[v]
          /\ "link" \notin made[v] => \E p \in WorkRequests :
                workReq[p].op = "create" /\ workReq[p].w = v /\ workReq[p].pc \in {"half", "stopped"}
      BY <2>2 DEF WorksInv, WorkIsBacked
    <3>2. ASSUME "link" \notin made'[v]
          PROVE  \E p \in WorkRequests : workReq'[p].op = "create" /\ workReq'[p].w = v /\ workReq'[p].pc \in {"half", "stopped"}
      <4>1. PICK p \in WorkRequests : workReq[p].op = "create" /\ workReq[p].w = v /\ workReq[p].pc \in {"half", "stopped"}
        BY <2>1, <3>1, <3>2
      <4>2. workReq'[p].op = "create" /\ workReq'[p].w = v /\ workReq'[p].pc \in {"half", "stopped"}
        BY <1>1, <3>2, <4>1
      <4> QED
        BY <4>2
    <3> QED
      BY <2>1, <3>1, <3>2
  <2>3. CASE work[v].st = "none"
    <3>1. v = q.w /\ q.op = "create" /\ q.pc = "half" /\ "asset" \in made[v]
      BY <2>3
    <3>2. Traces \ {"link"} \subseteq made[v]
      BY <3>1 DEF WorksInv, TracesInOrder, Traces
    <3> QED
      BY <1>1, <2>1, <3>1, <3>2
  <2> QED
    BY <2>2, <2>3
<1>8. WorkTurns'
  <2> SUFFICES ASSUME ~workRaced', workStops' = 0
               PROVE  /\ \A p \in WorkRequests : (workReq'[p].op \in Publishing /\ workReq'[p].pc = "read") =>
                            work'[workReq'[p].w].st = "active"
                      /\ \A p \in WorkRequests : At(p, "publish", "half")' => work'[workReq'[p].w].vis = "public"
                      /\ \A p \in WorkRequests : (At(p, "unpublish", "half")' \/ At(p, "delete", "half")') =>
                            work'[workReq'[p].w].vis = "private"
                      /\ \A p, s \in WorkRequests :
                            (p # s /\ workReq'[p].pc = "half" /\ workReq'[s].pc = "half") => workReq'[p].w # workReq'[s].w
                      /\ \A v \in Works : ~HalfOn(v)' => Agrees(v)'
    BY DEF WorkTurns
  <2>1. /\ \A p \in WorkRequests : (workReq[p].op \in Publishing /\ workReq[p].pc = "read") =>
             work[workReq[p].w].st = "active"
        /\ \A p \in WorkRequests : At(p, "publish", "half") => work[workReq[p].w].vis = "public"
        /\ \A p \in WorkRequests : (At(p, "unpublish", "half") \/ At(p, "delete", "half")) =>
             work[workReq[p].w].vis = "private"
        /\ \A p, s \in WorkRequests :
             (p # s /\ workReq[p].pc = "half" /\ workReq[s].pc = "half") => workReq[p].w # workReq[s].w
        /\ \A v \in Works : ~HalfOn(v) => Agrees(v)
    BY DEF WorksInv, WorkTurns
  <2>2. ASSUME NEW p \in WorkRequests, p # r, workReq'[p].pc \in {"read", "half"}
        PROVE  /\ workReq'[p] = workReq[p] /\ workReq'[p].w # q.w
               /\ work'[workReq'[p].w] = work[workReq[p].w]
    BY <1>1, <1>2, <2>2
  <2>3. \A p \in WorkRequests : (workReq'[p].op \in Publishing /\ workReq'[p].pc = "read") =>
           work'[workReq'[p].w].st = "active"
    BY <1>1, <2>1, <2>2
  <2>4. \A p \in WorkRequests : At(p, "publish", "half")' => work'[workReq'[p].w].vis = "public"
    BY <1>1, <2>1, <2>2 DEF At
  <2>5. \A p \in WorkRequests : (At(p, "unpublish", "half")' \/ At(p, "delete", "half")') =>
           work'[workReq'[p].w].vis = "private"
    BY <1>1, <2>1, <2>2 DEF At
  <2>6. \A p, s \in WorkRequests :
           (p # s /\ workReq'[p].pc = "half" /\ workReq'[s].pc = "half") => workReq'[p].w # workReq'[s].w
    BY <1>1, <2>1, <2>2
  <2>7. ASSUME NEW v \in Works, ~HalfOn(v)' PROVE Agrees(v)'
    <3>1. CASE v = q.w
      BY <1>1, <2>7, <3>1 DEF HalfOn, Agrees
    <3>2. CASE v # q.w
      <4>1. ~HalfOn(v)
        BY <1>1, <2>7, <3>2 DEF HalfOn
      <4>2. Agrees(v)
        BY <2>1, <4>1
      <4> QED
        BY <3>2, <4>2 DEF Agrees
    <3> QED
      BY <3>1, <3>2
  <2> QED
    BY <2>3, <2>4, <2>5, <2>6, <2>7
<1> QED
  BY <1>3, <1>5, <1>6, <1>7, <1>8 DEF WorksInv

\* Before a request that runs alone has written anything, nothing is half done.
LEMMA AgreesBefore ==
    ASSUME WorksInv, NEW r \in WorkRequests, ~workRaced, workStops = 0,
           \A p \in WorkRequests \ {r} : workReq[p].pc \in {"read", "half"} => workReq[p].w # workReq[r].w,
           workReq[r].op \notin Publishing \/ workReq[r].pc = "read"
    PROVE  work[workReq[r].w].vis = "public" <=> pub[workReq[r].w] = "published"
<1>1. ~HalfOn(workReq[r].w)
  BY DEF HalfOn
<1>2. workReq[r].w \in Works
  BY WorkTypes DEF WorkRequest
<1> QED
  BY <1>1, <1>2 DEF WorksInv, WorkTurns, Agrees

LEMMA WorkReadSound ==
    ASSUME WorksInv, NEW r \in WorkRequests, WorkRead(r)
    PROVE  WorksInv'
<1>1. PICK op \in WorkOps, w \in Works, c \in Viewers :
         /\ op = "create" => NewWork(w)
         /\ op \in Publishing => FindOwnerWork(w, c)
         /\ workReq' = [workReq EXCEPT ![r] = [pc |-> "read", op |-> op, w |-> w, c |-> c]]
  <2>1. PICK op \in WorkOps, w \in Works, c \in Viewers :
           /\ CASE op = "create"     -> c = Owner /\ NewWork(w)
                [] op = "unfavorite" -> TRUE
                [] op \in {"favorite", "download"} -> FindVisibleWork(w, c)
                [] OTHER             -> FindOwnerWork(w, c)
           /\ workReq' = [workReq EXCEPT ![r] = [pc |-> "read", op |-> op, w |-> w, c |-> c]]
    BY DEF WorkRead
  <2>2. op = "create" => NewWork(w)
    BY <2>1
  <2>3. op \in Publishing => FindOwnerWork(w, c)
    BY <2>1 DEF Publishing
  <2> QED
    BY <2>1, <2>2, <2>3
<1> DEFINE q == [pc |-> "read", op |-> op, w |-> w, c |-> c]
<1>2. q \in WorkRequest /\ q.pc = "read" /\ q.op = op /\ q.w = w
  BY DEF WorkRequest
<1>3. workReq' = [workReq EXCEPT ![r] = q]
  BY <1>1
<1> HIDE DEF q
<1>4. workReq'[r] = q /\ (\A p \in WorkRequests \ {r} : workReq'[p] = workReq[p]) /\ (workReq \in [WorkRequests -> WorkRequest])'
  BY <1>2, <1>3, WorkTypes
<1>5. /\ workReq[r].pc = "idle" /\ work' = work /\ made' = made /\ pub' = pub /\ favorite' = favorite
      /\ downloads' = downloads /\ workRaced' = workRaced /\ workStops' = workStops
  BY DEF WorkRead
<1>6. WorksTypeOK'
  BY <1>4, <1>5 DEF WorksInv, WorksTypeOK
<1>7. DownloadsCounted'
  BY <1>2, <1>3, <1>5, DownloadsFrame
<1>8. TracesInOrder' /\ OneFavoriteRow'
  BY <1>5 DEF WorksInv, TracesInOrder, OneFavoriteRow
<1>9. WorksAreMadeOnce'
  <2>1. \A v \in Works : work'[v].st = "none" => work'[v].vis = "private" /\ pub'[v] = "none"
    BY <1>5 DEF WorksInv, WorksAreMadeOnce
  <2>2. \A p \in WorkRequests : (workReq'[p].op = "create" /\ workReq'[p].pc = "read") => work'[workReq'[p].w].st = "none"
    BY <1>1, <1>2, <1>4, <1>5 DEF WorksInv, WorksAreMadeOnce, At, NewWork
  <2>3. \A p, s \in WorkRequests : (p # s /\ workReq'[p].op = "create" /\ workReq'[s].op = "create") => workReq'[p].w # workReq'[s].w
    BY <1>1, <1>2, <1>4 DEF WorksInv, WorksAreMadeOnce, NewWork
  <2>4. \A p \in WorkRequests : (workReq'[p].op \in Publishing /\ workReq'[p].pc \in {"read", "half"}) => work'[workReq'[p].w].st # "none"
    BY <1>1, <1>2, <1>4, <1>5 DEF WorksInv, WorksAreMadeOnce, FindOwnerWork
  <2> QED
    BY <2>1, <2>2, <2>3, <2>4 DEF WorksAreMadeOnce, At
<1>10. WorkIsBacked'
  <2> SUFFICES ASSUME NEW v \in Works, work[v].st # "none"
               PROVE  /\ Traces \ {"link"} \subseteq made[v]
                      /\ "link" \notin made[v] => \E p \in WorkRequests :
                            workReq'[p].op = "create" /\ workReq'[p].w = v /\ workReq'[p].pc \in {"half", "stopped"}
    BY <1>5 DEF WorkIsBacked
  <2>1. /\ Traces \ {"link"} \subseteq made[v]
        /\ "link" \notin made[v] => \E p \in WorkRequests :
              workReq[p].op = "create" /\ workReq[p].w = v /\ workReq[p].pc \in {"half", "stopped"}
    BY DEF WorksInv, WorkIsBacked
  <2>2. \A p \in WorkRequests : workReq[p].pc \in {"half", "stopped"} => workReq'[p] = workReq[p]
    BY <1>4, <1>5
  <2> QED
    BY <2>1, <2>2
<1>11. WorkTurns'
  <2> SUFFICES ASSUME ~workRaced, workStops = 0
               PROVE  /\ \A p \in WorkRequests : (workReq'[p].op \in Publishing /\ workReq'[p].pc = "read") =>
                            work'[workReq'[p].w].st = "active"
                      /\ \A p \in WorkRequests : At(p, "publish", "half")' => work'[workReq'[p].w].vis = "public"
                      /\ \A p \in WorkRequests : (At(p, "unpublish", "half")' \/ At(p, "delete", "half")') =>
                            work'[workReq'[p].w].vis = "private"
                      /\ \A p, s \in WorkRequests :
                            (p # s /\ workReq'[p].pc = "half" /\ workReq'[s].pc = "half") => workReq'[p].w # workReq'[s].w
                      /\ \A v \in Works : ~HalfOn(v)' => Agrees(v)'
    BY <1>5 DEF WorkTurns
  <2>1. \A p \in WorkRequests : (workReq'[p].op \in Publishing /\ workReq'[p].pc = "read") =>
           work'[workReq'[p].w].st = "active"
    BY <1>1, <1>2, <1>4, <1>5 DEF WorksInv, WorkTurns, FindOwnerWork
  <2>2. \A p \in WorkRequests : (workReq'[p].pc = "half" \/ workReq[p].pc = "half") => workReq'[p] = workReq[p]
    BY <1>2, <1>4, <1>5
  <2>3. /\ \A p \in WorkRequests : At(p, "publish", "half")' => work'[workReq'[p].w].vis = "public"
        /\ \A p \in WorkRequests : (At(p, "unpublish", "half")' \/ At(p, "delete", "half")') =>
              work'[workReq'[p].w].vis = "private"
        /\ \A p, s \in WorkRequests :
              (p # s /\ workReq'[p].pc = "half" /\ workReq'[s].pc = "half") => workReq'[p].w # workReq'[s].w
    BY <1>5, <2>2 DEF WorksInv, WorkTurns, At
  <2>4. \A v \in Works : ~HalfOn(v)' => Agrees(v)'
    <3> SUFFICES ASSUME NEW v \in Works, ~HalfOn(v)' PROVE Agrees(v)'
      OBVIOUS
    <3>1. ~HalfOn(v)
      BY <2>2 DEF HalfOn
    <3>2. Agrees(v)
      BY <3>1 DEF WorksInv, WorkTurns
    <3> QED
      BY <1>5, <3>2 DEF Agrees
  <2> QED
    BY <2>1, <2>3, <2>4
<1> QED
  BY <1>6, <1>7, <1>8, <1>9, <1>10, <1>11 DEF WorksInv

LEMMA StoreAiAssetSound ==
    ASSUME WorksInv, NEW r \in WorkRequests, StoreAiAsset(r)
    PROVE  WorksInv'
<1>1. PICK x \in Traces \ {"link"} :
         /\ x = "ai_asset" => made[workReq[r].w] = {"object"}
         /\ x = "asset" => made[workReq[r].w] = {"object", "ai_asset"}
         /\ made' = [made EXCEPT ![workReq[r].w] = @ \cup {x}]
  BY DEF StoreAiAsset, Traces
<1>2. PICK w \in Works : w = workReq[r].w
  BY WorkTypes DEF WorkRequest
<1>3. /\ work' = work /\ pub' = pub /\ favorite' = favorite /\ downloads' = downloads
      /\ workReq' = workReq /\ workRaced' = workRaced /\ workStops' = workStops
  BY DEF StoreAiAsset
<1>4. /\ (made \in [Works -> SUBSET Traces])' /\ made'[w] = made[w] \cup {x} /\ \A v \in Works \ {w} : made'[v] = made[v]
  BY <1>1, <1>2, WorkTypes
<1>5. WorksTypeOK'
  BY <1>3, <1>4 DEF WorksInv, WorksTypeOK
<1>6. TracesInOrder'
  BY <1>1, <1>2, <1>4 DEF WorksInv, TracesInOrder
<1>7. WorkIsBacked'
  <2>1. \A v \in Works : made[v] \subseteq made'[v]
    BY <1>4
  <2> QED
    BY <1>3, <2>1 DEF WorksInv, WorkIsBacked
<1>8. WorksAreMadeOnce' /\ WorkTurns' /\ OneFavoriteRow' /\ DownloadsCounted'
  BY <1>3 DEF WorksInv, WorksAreMadeOnce, WorkTurns, OneFavoriteRow, DownloadsCounted, At, HalfOn, Agrees
<1> QED
  BY <1>5, <1>6, <1>7, <1>8 DEF WorksInv

LEMMA StopWorkRequestSound ==
    ASSUME WorksInv, NEW r \in WorkRequests, StopWorkRequest(r)
    PROVE  WorksInv'
<1>1. PICK row \in WorkRequest : row = workReq[r]
  BY WorkTypes
<1> DEFINE q == [row EXCEPT !.pc = "stopped"]
<1>2. q \in WorkRequest /\ q.pc = "stopped" /\ q.op = row.op /\ q.w = row.w
  BY DEF WorkRequest
<1>3. workReq' = [workReq EXCEPT ![r] = q]
  BY <1>1 DEF StopWorkRequest
<1> HIDE DEF q
<1>4. workReq'[r] = q /\ (\A p \in WorkRequests \ {r} : workReq'[p] = workReq[p]) /\ (workReq \in [WorkRequests -> WorkRequest])'
  BY <1>2, <1>3, WorkTypes
<1>5. /\ work' = work /\ made' = made /\ pub' = pub /\ favorite' = favorite
      /\ downloads' = downloads /\ workRaced' = workRaced
      /\ row.pc \in {"read", "half"}
  BY <1>1 DEF StopWorkRequest, At
<1>6. workStops' \in 1 .. MaxWorkStops
  BY WorkTypes, WorksAssumption DEF StopWorkRequest
<1>7. WorksTypeOK'
  BY <1>4, <1>5, <1>6 DEF WorksInv, WorksTypeOK
<1>8. DownloadsCounted'
  BY <1>1, <1>2, <1>3, <1>5, DownloadsFrame
<1>9. WorkTurns'
  BY <1>6 DEF WorkTurns
<1>10. TracesInOrder' /\ OneFavoriteRow'
  BY <1>5 DEF WorksInv, TracesInOrder, OneFavoriteRow
<1>11. WorksAreMadeOnce'
  BY <1>1, <1>2, <1>4, <1>5 DEF WorksInv, WorksAreMadeOnce, At
<1>12. WorkIsBacked'
  <2>1. \A p \in WorkRequests : /\ workReq'[p].op = workReq[p].op /\ workReq'[p].w = workReq[p].w
                                /\ workReq[p].pc \in {"half", "stopped"} => workReq'[p].pc \in {"half", "stopped"}
    BY <1>1, <1>2, <1>4
  <2> QED
    BY <1>5, <2>1 DEF WorksInv, WorkIsBacked
<1> QED
  BY <1>7, <1>8, <1>9, <1>10, <1>11, <1>12 DEF WorksInv

\* What the statement of request r, about w, may rely on.
LEMMA SentAlone ==
    ASSUME WorksInv, NEW r \in WorkRequests, NEW pc \in {"half", "done"}, Sent(r, pc)
    PROVE  /\ workReq[r].w \in Works /\ workReq[r].c \in Viewers
           /\ (~workRaced' /\ workStops = 0) =>
                 /\ (workReq[r].op \in Publishing /\ workReq[r].pc = "read") => work[workReq[r].w].st = "active"
                 /\ (workReq[r].op = "publish" /\ workReq[r].pc = "half") => work[workReq[r].w].vis = "public"
                 /\ (workReq[r].op \in {"unpublish", "delete"} /\ workReq[r].pc = "half") => work[workReq[r].w].vis = "private"
                 /\ workReq[r].op \notin Publishing =>
                       (work[workReq[r].w].vis = "public" <=> pub[workReq[r].w] = "published")
<1>1. workReq[r].w \in Works /\ workReq[r].c \in Viewers
  BY WorkTypes DEF WorkRequest
<1>2. ASSUME ~workRaced', workStops = 0
      PROVE  /\ (workReq[r].op \in Publishing /\ workReq[r].pc = "read") => work[workReq[r].w].st = "active"
             /\ (workReq[r].op = "publish" /\ workReq[r].pc = "half") => work[workReq[r].w].vis = "public"
             /\ (workReq[r].op \in {"unpublish", "delete"} /\ workReq[r].pc = "half") => work[workReq[r].w].vis = "private"
             /\ workReq[r].op \notin Publishing =>
                   (work[workReq[r].w].vis = "public" <=> pub[workReq[r].w] = "published")
  <2>1. ~workRaced /\ \A p \in WorkRequests \ {r} : workReq[p].pc \in {"read", "half"} => workReq[p].w # workReq[r].w
    BY <1>2, SentRow
  <2>2. workReq[r].op \notin Publishing => (work[workReq[r].w].vis = "public" <=> pub[workReq[r].w] = "published")
    BY <1>2, <2>1, AgreesBefore
  <2> QED
    BY <1>2, <2>1, <2>2 DEF WorksInv, WorkTurns, At
<1> QED
  BY <1>1, <1>2

LEMMA CreationSound ==
    ASSUME WorksInv, NEW r \in WorkRequests, CreateWork(r) \/ LinkAsset(r)
    PROVE  WorksInv'
<1>1. PICK pc \in {"half", "done"} : Sent(r, pc) /\ ((CreateWork(r) /\ pc = "half") \/ (LinkAsset(r) /\ pc = "done"))
  BY DEF CreateWork, LinkAsset
<1>2. PICK q \in WorkRequest :
         /\ workReq' = [workReq EXCEPT ![r] = q] /\ q.pc = pc
         /\ q.op = workReq[r].op /\ q.w = workReq[r].w /\ q.c = workReq[r].c
         /\ workRaced' \in BOOLEAN /\ workStops' = workStops
         /\ ~workRaced' => /\ ~workRaced
                           /\ \A p \in WorkRequests \ {r} : workReq[p].pc \in {"read", "half"} => workReq[p].w # q.w
  BY <1>1, SentRow
<1>3. q.op = "create" /\ workReq[r].pc \in {"read", "half"} /\ q.op \notin Publishing /\ q.w \in Works
  BY <1>2 DEF CreateWork, LinkAsset, At, Publishing, WorkRequest
<1>4. pub' = pub /\ favorite' = favorite /\ downloads' = downloads
  BY DEF CreateWork, LinkAsset
<1>5. DownloadsCounted' /\ (downloads \in [Works \X Viewers -> 0 .. Cardinality(WorkRequests)])'
  BY <1>2, <1>3, <1>4, DownloadsFrame
<1>6. OneFavoriteRow' /\ (favorite \in SUBSET (Works \X Viewers \X WorkRequests))'
      /\ (pub \in [Works -> {"none", "published", "unpublished"}])'
  BY <1>4, WorkTypes DEF WorksInv, OneFavoriteRow
<1>7. (~workRaced' /\ workStops = 0) => (work[q.w].vis = "public" <=> pub[q.w] = "published")
  BY <1>1, <1>2, <1>3, SentAlone
<1>8. CASE CreateWork(r) /\ pc = "half"
  <2>1. PICK row \in WorkRow : row = work[q.w]
    BY <1>3, WorkTypes
  <2> DEFINE n == [row EXCEPT !.st = "active"]
  <2>2. n \in WorkRow /\ n.st = "active" /\ n.vis = row.vis
    BY DEF WorkRow
  <2>3. work' = [work EXCEPT ![q.w] = n] /\ made' = made /\ "asset" \in made[q.w]
    BY <1>2, <1>8, <2>1 DEF CreateWork
  <2> HIDE DEF n
  <2>4. (work \in [Works -> WorkRow])' /\ work'[q.w] = n /\ \A v \in Works \ {q.w} : work'[v] = work[v]
    BY <1>3, <2>2, <2>3, WorkTypes
  <2>5. (made \in [Works -> SUBSET Traces])'
    BY <2>3, WorkTypes
  <2> QED
    BY <1>2, <1>3, <1>4, <1>5, <1>6, <1>7, <1>8, <2>1, <2>2, <2>3, <2>4, <2>5, StatementSound
<1>9. CASE LinkAsset(r) /\ pc = "done"
  <2>1. work' = work /\ made' = [made EXCEPT ![q.w] = @ \cup {"link"}]
    BY <1>2, <1>9 DEF LinkAsset
  <2>2. /\ (made \in [Works -> SUBSET Traces])' /\ made'[q.w] = made[q.w] \cup {"link"}
        /\ \A v \in Works \ {q.w} : made'[v] = made[v]
    BY <1>3, <2>1, WorkTypes DEF Traces
  <2>3. (work \in [Works -> WorkRow])'
    BY <2>1, WorkTypes
  <2>4. work[q.w].st # "none" \/ work'[q.w].st = "none"
    BY <2>1
  <2> QED
    BY <1>2, <1>3, <1>4, <1>5, <1>6, <1>7, <1>9, <2>1, <2>2, <2>3, <2>4, StatementSound
<1> QED
  BY <1>1, <1>8, <1>9

\* The first statements of publish_work, unpublish_work and delete_work.
LEMMA VisibilitySound ==
    ASSUME WorksInv, NEW r \in WorkRequests, PublishWork(r) \/ UnpublishWork(r) \/ DeleteWork(r)
    PROVE  WorksInv'
<1>1. /\ Sent(r, "half") /\ workReq[r].pc = "read" /\ workReq[r].op \in Publishing
      /\ made' = made /\ pub' = pub /\ favorite' = favorite /\ downloads' = downloads
  BY DEF PublishWork, UnpublishWork, DeleteWork, At, Publishing
<1>2. PICK q \in WorkRequest :
         /\ workReq' = [workReq EXCEPT ![r] = q] /\ q.pc = "half"
         /\ q.op = workReq[r].op /\ q.w = workReq[r].w /\ q.c = workReq[r].c
         /\ workRaced' \in BOOLEAN /\ workStops' = workStops
         /\ ~workRaced' => /\ ~workRaced
                           /\ \A p \in WorkRequests \ {r} : workReq[p].pc \in {"read", "half"} => workReq[p].w # q.w
  BY <1>1, SentRow
<1>3. PICK row \in WorkRow : row = work[q.w] /\ q.w \in Works
  BY WorkTypes DEF WorkRequest
<1>4. row.st # "none" /\ ((~workRaced' /\ workStops = 0) => row.st = "active")
  <2>1. row.st # "none"
    BY <1>1, <1>2, <1>3 DEF WorksInv, WorksAreMadeOnce
  <2> QED
    BY <1>1, <1>2, <1>3, <2>1, SentAlone
<1>5. PICK n \in WorkRow : /\ work' = [work EXCEPT ![q.w] = n] /\ n.st # "none"
                           /\ row.st = "active" => n.vis = IF q.op = "publish" THEN "public" ELSE "private"
  <2>1. ASSUME NEW v \in {"public", "private"}, SetVisibility(q.w, v), v = IF q.op = "publish" THEN "public" ELSE "private"
        PROVE  \E n \in WorkRow : /\ work' = [work EXCEPT ![q.w] = n] /\ n.st # "none"
                                  /\ row.st = "active" => n.vis = IF q.op = "publish" THEN "public" ELSE "private"
    <3> DEFINE n == [row EXCEPT !.vis = IF row.st = "active" THEN v ELSE row.vis]
    <3>1. n \in WorkRow /\ n.st = row.st /\ (row.st = "active" => n.vis = v)
      BY DEF WorkRow
    <3>2. work' = [work EXCEPT ![q.w] = n]
      BY <1>3, <2>1, WorkTypes DEF SetVisibility, WorkRow
    <3> HIDE DEF n
    <3> QED
      BY <1>4, <2>1, <3>1, <3>2
  <2>2. CASE PublishWork(r)
    <3>1. SetVisibility(q.w, "public") /\ q.op = "publish"
      BY <1>2, <2>2 DEF PublishWork, At
    <3> QED
      BY <2>1, <3>1
  <2>3. CASE UnpublishWork(r)
    <3>1. SetVisibility(q.w, "private") /\ q.op = "unpublish"
      BY <1>2, <2>3 DEF UnpublishWork, At
    <3> QED
      BY <2>1, <3>1
  <2>4. CASE DeleteWork(r)
    <3> DEFINE n == IF row.st = "active" THEN [row EXCEPT !.st = "deleted", !.vis = "private"] ELSE row
    <3>1. n \in WorkRow /\ n.st # "none" /\ (row.st = "active" => n.vis = "private") /\ q.op = "delete"
      BY <1>2, <1>4, <2>4 DEF WorkRow, DeleteWork, At
    <3>2. work' = [work EXCEPT ![q.w] = n]
      BY <1>2, <1>3, <2>4, WorkTypes DEF DeleteWork
    <3> HIDE DEF n
    <3> QED
      BY <3>1, <3>2
  <2> QED
    BY <2>2, <2>3, <2>4
<1>6. (work \in [Works -> WorkRow])' /\ work'[q.w] = n /\ \A v \in Works \ {q.w} : work'[v] = work[v]
  BY <1>3, <1>5, WorkTypes
<1>7. DownloadsCounted' /\ (downloads \in [Works \X Viewers -> 0 .. Cardinality(WorkRequests)])'
  BY <1>1, <1>2, DownloadsFrame
<1>8. OneFavoriteRow' /\ (favorite \in SUBSET (Works \X Viewers \X WorkRequests))'
      /\ (pub \in [Works -> {"none", "published", "unpublished"}])' /\ (made \in [Works -> SUBSET Traces])'
  BY <1>1, WorkTypes DEF WorksInv, OneFavoriteRow
<1>9. q.op # "create" /\ q.op \in Publishing
  BY <1>1, <1>2 DEF Publishing
<1>10. (~workRaced' /\ workStops = 0) => /\ (q.op = "publish" => n.vis = "public")
                                         /\ (q.op \in {"unpublish", "delete"} => n.vis = "private")
  BY <1>4, <1>5
<1> QED
  BY <1>1, <1>2, <1>3, <1>4, <1>5, <1>6, <1>7, <1>8, <1>9, <1>10, StatementSound

\* The second statements: the row of work_publications.
LEMMA PublicationSound ==
    ASSUME WorksInv, NEW r \in WorkRequests, PublishUpsert(r) \/ UnpublishRow(r) \/ DeletePublication(r)
    PROVE  WorksInv'
<1>1. /\ Sent(r, "done") /\ workReq[r].pc = "half" /\ workReq[r].op \in Publishing
      /\ made' = made /\ work' = work /\ favorite' = favorite /\ downloads' = downloads
  BY DEF PublishUpsert, UnpublishRow, DeletePublication, At, Publishing
<1>2. PICK q \in WorkRequest :
         /\ workReq' = [workReq EXCEPT ![r] = q] /\ q.pc = "done"
         /\ q.op = workReq[r].op /\ q.w = workReq[r].w /\ q.c = workReq[r].c
         /\ workRaced' \in BOOLEAN /\ workStops' = workStops
         /\ ~workRaced' => /\ ~workRaced
                           /\ \A p \in WorkRequests \ {r} : workReq[p].pc \in {"read", "half"} => workReq[p].w # q.w
  BY <1>1, SentRow
<1>3. q.w \in Works /\ q.op # "create" /\ q.op # "download"
  BY <1>1, <1>2 DEF WorkRequest, Publishing
<1>4. PICK n \in {"none", "published", "unpublished"} :
         pub' = [pub EXCEPT ![q.w] = n] /\ (n = "published" <=> q.op = "publish")
  <2>1. pub[q.w] \in {"none", "published", "unpublished"}
    BY <1>3, WorkTypes
  <2>2. CASE PublishUpsert(r)
    BY <1>2, <2>2 DEF PublishUpsert, At
  <2>3. CASE UnpublishRow(r)
    <3>1. pub' = [pub EXCEPT ![q.w] = IF pub[q.w] = "none" THEN pub[q.w] ELSE "unpublished"] /\ q.op # "publish"
      BY <1>2, <2>3 DEF UnpublishRow, At
    <3> QED
      BY <2>1, <3>1
  <2>4. CASE DeletePublication(r)
    <3>1. pub' = [pub EXCEPT ![q.w] = IF pub[q.w] = "published" THEN "unpublished" ELSE pub[q.w]] /\ q.op # "publish"
      BY <1>2, <2>4 DEF DeletePublication, At
    <3> QED
      BY <2>1, <3>1
  <2> QED
    BY <2>2, <2>3, <2>4
<1>5. (pub \in [Works -> {"none", "published", "unpublished"}])' /\ pub'[q.w] = n /\ \A v \in Works \ {q.w} : pub'[v] = pub[v]
  BY <1>3, <1>4, WorkTypes
<1>6. work[q.w].st # "none"
  BY <1>1, <1>2 DEF WorksInv, WorksAreMadeOnce
<1>7. (~workRaced' /\ workStops = 0) => (work[q.w].vis = "public" <=> n = "published")
  <2>1. q.op \in {"publish", "unpublish", "delete"}
    BY <1>1, <1>2 DEF Publishing
  <2>2. (~workRaced' /\ workStops = 0) => /\ q.op = "publish" => work[q.w].vis = "public"
                                          /\ q.op \in {"unpublish", "delete"} => work[q.w].vis = "private"
    BY <1>1, <1>2, SentAlone
  <2> QED
    BY <1>4, <2>1, <2>2
<1>8. DownloadsCounted' /\ (downloads \in [Works \X Viewers -> 0 .. Cardinality(WorkRequests)])'
  BY <1>1, <1>2, <1>3, DownloadsFrame
<1>9. OneFavoriteRow' /\ (favorite \in SUBSET (Works \X Viewers \X WorkRequests))'
      /\ (work \in [Works -> WorkRow])' /\ (made \in [Works -> SUBSET Traces])'
  BY <1>1, WorkTypes DEF WorksInv, OneFavoriteRow
<1> QED
  BY <1>1, <1>2, <1>3, <1>5, <1>6, <1>7, <1>8, <1>9, StatementSound

LEMMA OthersSound ==
    ASSUME WorksInv, NEW r \in WorkRequests, FavoriteWork(r) \/ UnfavoriteWork(r) \/ DownloadWork(r)
    PROVE  WorksInv'
<1>1. /\ Sent(r, "done") /\ workReq[r].pc = "read" /\ workReq[r].op \in {"favorite", "unfavorite", "download"}
      /\ made' = made /\ work' = work /\ pub' = pub
  BY DEF FavoriteWork, UnfavoriteWork, DownloadWork, At
<1>2. PICK q \in WorkRequest :
         /\ workReq' = [workReq EXCEPT ![r] = q] /\ q.pc = "done"
         /\ q.op = workReq[r].op /\ q.w = workReq[r].w /\ q.c = workReq[r].c
         /\ workRaced' \in BOOLEAN /\ workStops' = workStops
         /\ ~workRaced' => /\ ~workRaced
                           /\ \A p \in WorkRequests \ {r} : workReq[p].pc \in {"read", "half"} => workReq[p].w # q.w
  BY <1>1, SentRow
<1>3. q.w \in Works /\ q.c \in Viewers /\ q.op # "create" /\ q.op \notin Publishing
  BY <1>1, <1>2 DEF WorkRequest, Publishing
<1>4. (~workRaced' /\ workStops = 0) => (work[q.w].vis = "public" <=> pub[q.w] = "published")
  BY <1>1, <1>2, <1>3, SentAlone
<1>5. DownloadsCounted' /\ (downloads \in [Works \X Viewers -> 0 .. Cardinality(WorkRequests)])'
  <2>1. CASE DownloadWork(r)
    <3>1. q.op = "download" /\ downloads' = [downloads EXCEPT ![<<q.w, q.c>>] = @ + 1]
      BY <1>2, <2>1 DEF DownloadWork, At
    <3> QED
      BY <1>1, <1>2, <3>1, DownloadIsCounted
  <2>2. CASE FavoriteWork(r) \/ UnfavoriteWork(r)
    <3>1. q.op # "download" /\ downloads' = downloads
      BY <1>2, <2>2 DEF FavoriteWork, UnfavoriteWork, At
    <3> QED
      BY <1>1, <1>2, <3>1, DownloadsFrame
  <2> QED
    BY <2>1, <2>2
<1>6. OneFavoriteRow' /\ (favorite \in SUBSET (Works \X Viewers \X WorkRequests))'
  <2>1. CASE favorite' \subseteq favorite
    BY <2>1, WorkTypes DEF WorksInv, OneFavoriteRow
  <2>2. CASE ~(favorite' \subseteq favorite)
    <3>1. /\ favorite' = favorite \cup {<<q.w, q.c, r>>}
          /\ \A p \in WorkRequests : <<q.w, q.c, p>> \notin favorite
      BY <1>2, <2>2 DEF FavoriteWork, UnfavoriteWork, DownloadWork
    <3>2. (favorite \in SUBSET (Works \X Viewers \X WorkRequests))'
      BY <1>3, <3>1, WorkTypes
    <3>3. ASSUME NEW x \in favorite, x[1] = q.w, x[2] = q.c PROVE FALSE
      <4>1. x \in Works \X Viewers \X WorkRequests
        BY WorkTypes
      <4>2. PICK p \in WorkRequests : x = <<q.w, q.c, p>>
        BY <3>3, <4>1
      <4> QED
        BY <3>1, <4>2
    <3>4. <<q.w, q.c, r>>[1] = q.w /\ <<q.w, q.c, r>>[2] = q.c
      OBVIOUS
    <3>5. OneFavoriteRow'
      BY <3>1, <3>3, <3>4 DEF WorksInv, OneFavoriteRow
    <3> QED
      BY <3>2, <3>5
  <2> QED
    BY <2>1, <2>2
<1>7. /\ (work \in [Works -> WorkRow])' /\ (made \in [Works -> SUBSET Traces])'
      /\ (pub \in [Works -> {"none", "published", "unpublished"}])'
  BY <1>1, WorkTypes
<1>8. work[q.w].st # "none" \/ work'[q.w].st = "none"
  BY <1>1
<1> QED
  BY <1>1, <1>2, <1>3, <1>4, <1>5, <1>6, <1>7, <1>8, StatementSound

LEMMA WorksStep ==
    ASSUME WorksInv, WorksNext
    PROVE  WorksInv'
  BY WorkReadSound, StoreAiAssetSound, CreationSound, VisibilitySound, PublicationSound, OthersSound,
     StopWorkRequestSound DEF WorksNext

LEMMA WorksStutter ==
    ASSUME WorksInv, UNCHANGED workVars
    PROVE  WorksInv'
<1>1. /\ work' = work /\ made' = made /\ pub' = pub /\ favorite' = favorite /\ downloads' = downloads
      /\ workReq' = workReq /\ workRaced' = workRaced /\ workStops' = workStops
  BY DEF workVars
<1>2. WorksTypeOK' /\ TracesInOrder' /\ WorkIsBacked'
  BY <1>1 DEF WorksInv, WorksTypeOK, TracesInOrder, WorkIsBacked
<1>3. WorksAreMadeOnce' /\ WorkTurns' /\ OneFavoriteRow' /\ DownloadsCounted'
  BY <1>1 DEF WorksInv, WorksAreMadeOnce, WorkTurns, OneFavoriteRow, DownloadsCounted, At, HalfOn, Agrees
<1> QED
  BY <1>2, <1>3 DEF WorksInv

LEMMA WorksSound == WorksInv => WorksKept
<1> SUFFICES ASSUME WorksInv PROVE WorksKept
  OBVIOUS
<1>1. DeletedIsNotShown
  BY DEF DeletedIsNotShown, InGallery, FindVisibleWork
<1>2. PublicationAgreesByTurns
  <2> SUFFICES ASSUME ~workRaced, workStops = 0, \A r \in WorkRequests : workReq[r].pc # "half", NEW w \in Works
               PROVE  work[w].vis = "public" <=> pub[w] = "published"
    BY DEF PublicationAgreesByTurns
  <2>1. ~HalfOn(w)
    BY DEF HalfOn
  <2> QED
    BY <2>1 DEF WorksInv, WorkTurns, Agrees
<1> QED
  BY <1>1, <1>2 DEF WorksInv, WorksKept

-----------------------------------------------------------------------------
(* The web product. *)

WebInv == FoldersInv /\ AssetsInv /\ WorksInv

LEMMA WebStep ==
    ASSUME WebInv, [WebNext]_webVars
    PROVE  WebInv'
<1>1. FoldersInv /\ AssetsInv /\ WorksInv
  BY DEF WebInv
<1>2. /\ FoldersNext \/ UNCHANGED folderVars
      /\ AssetsNext \/ UNCHANGED assetVars
      /\ WorksNext \/ UNCHANGED workVars
  BY DEF WebNext, webVars
<1>3. FoldersInv'
  BY <1>1, <1>2, FoldersStep, FoldersStutter
<1>4. AssetsInv'
  BY <1>1, <1>2, AssetsStep, AssetsStutter
<1>5. WorksInv'
  BY <1>1, <1>2, WorksStep, WorksStutter
<1> QED
  BY <1>3, <1>4, <1>5 DEF WebInv

LEMMA WebInvariant == WebSpec => []WebInv
<1>1. WebInit => WebInv
  BY FoldersInitSound, AssetsInitSound, WorksInitSound DEF WebInit, WebInv
<1>2. WebInv /\ [WebNext]_webVars => WebInv'
  BY WebStep
<1> QED
  BY <1>1, <1>2, PTL DEF WebSpec

\* Folders (web_assets.rs): requests that do not overlap hide no folder and no
\* asset, but for the upload whose folder was deleted while its session was open,
\* and only moves that overlap close a cycle, for any number of folders and of
\* requests and whatever else they do at the same time.
THEOREM FoldersAreKept == WebSpec => []FoldersKept
<1>1. WebInv => FoldersKept
  BY DEF WebInv, FoldersInv, FoldersKept
<1> QED
  BY <1>1, WebInvariant, PTL

\* Uploads and the media worker (web_assets.rs, media.rs): a session makes one
\* asset, only a refused request with its token overwrites the bytes, what can be
\* downloaded is stored, and processing keeps the metadata it found, whatever
\* metadata customers write, for any number of uploads, crashes and leases that
\* run out.
THEOREM AssetsAreKept == WebSpec => []AssetsKept
<1>1. WebInv => AssetsKept
  BY AssetsSound DEF WebInv
<1> QED
  BY <1>1, WebInvariant, PTL

\* Works (web_works.rs): what is deleted is not shown, visibility and publication
\* agree after requests that take turns, a favourite is one row, every download is
\* counted and a work is backed by its file, for any number of works and requests.
THEOREM WorksAreKept == WebSpec => []WorksKept
<1>1. WebInv => WorksKept
  BY WorksSound DEF WebInv
<1> QED
  BY <1>1, WebInvariant, PTL

\* A deleted asset stays deleted.  A video that failed stays so unless two tasks
\* had it in hand, and one that is ready stays so unless two tasks had it or the
\* task that made it ready had no answer (mark_video_asset_ready,
\* mark_video_asset_failed, claim_pending_video_assets).
THEOREM AssetOutcomesStay == WebSpec => AssetOutcomesKept
<1>1. WebInv /\ [WebNext]_webVars => [OutcomesStay]_assetVars
  <2>1. SUFFICES ASSUME WebInv, [WebNext]_webVars, ~UNCHANGED assetVars PROVE OutcomesStay
    OBVIOUS
  <2>2. AssetsNext
    BY <2>1 DEF WebNext, webVars
  <2> QED
    BY <2>1, <2>2, OutcomesStep DEF WebInv
<1> QED
  BY <1>1, WebInvariant, PTL DEF WebSpec, AssetOutcomesKept, OutcomesStay
=============================================================================
