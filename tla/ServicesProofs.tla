--------------------------- MODULE ServicesProofs ---------------------------
(***************************************************************************)
(* Proofs about the services around the core (MCServices): the guards of   *)
(* requests, the accounts of customers, the outbox and the notifications,  *)
(* for any numbers of requests, calls, mails, workers and channels.        *)
(*                                                                         *)
(* Each part has an inductive invariant of its own.  Where a property      *)
(* counts, the invariant counts what may still happen as well: the workers *)
(* that may yet send a mail, the calls that are done with a channel.       *)
(***************************************************************************)
EXTENDS MCServices, FiniteSetTheorems, TLAPS

-----------------------------------------------------------------------------
(* Signatures and windows. *)

\* A copy that has passed the check of the timestamp did so within the tolerance.
CheckedInTime ==
    \A c \in Copies :
        copy[c].pc \in {"checked", "stored", "accepted"} =>
            /\ stamp # NotSigned
            /\ Second(copy[c].checkedAt) - stamp <= Tolerance

\* Copies that have written the nonce, whether it has an expiry yet or not.
Written(c) == copy[c].pc \in {"stored", "accepted"}

\* The nonce is there until its time is over, and a copy that has written it and
\* has yet to set the expiry finds it without one.
NonceStays ==
    \A c \in Copies :
        /\ copy[c].pc = "stored" => nonce.value = 1 /\ nonce.expires = NoExpiry
        /\ Written(c) => /\ copy[c].storedAt <= clock
                         /\ \/ copy[c].storedAt + 2 * NonceTtl <= clock
                            \/ /\ nonce.value = 1
                               /\ copy[c].storedAt + 2 * NonceTtl <= nonce.expires

\* Two copies that have both written it did so a life of the nonce apart.
WritersApart ==
    \A c, d \in Copies :
        c # d /\ Written(c) /\ Written(d) =>
            /\ ~(copy[c].pc = "stored" /\ copy[d].pc = "stored")
            /\ \/ copy[c].storedAt + 2 * NonceTtl <= copy[d].storedAt
               \/ copy[d].storedAt + 2 * NonceTtl <= copy[c].storedAt

SignaturesInv == CheckedInTime /\ NonceStays /\ WritersApart

\* The calls of one window have been counted one by one, and nobody has been
\* counted in a window that is yet to come.
CountsApart ==
    /\ \A a \in Attempts : attempt[a].pc # "idle" =>
           /\ attempt[a].count >= 1 /\ attempt[a].window <= windowsSeen
           /\ (attempt[a].window = windowsSeen /\ window.value > 0) => attempt[a].count <= window.value
    /\ \A a, b \in Attempts :
           (a # b /\ attempt[a].pc # "idle" /\ attempt[b].pc # "idle" /\ attempt[a].window = attempt[b].window) =>
               attempt[a].count # attempt[b].count

\* The second half of WindowsEnd.
EndIsComing ==
    (window.value > 0 /\ window.expires = NoExpiry) =>
       \/ expiryLost
       \/ \E a \in Attempts : attempt[a].pc = "counted" /\ attempt[a].count = 1

GuardsInv == GuardsTypeOK /\ SignaturesInv /\ CountsApart /\ EndIsComing

-----------------------------------------------------------------------------
(* The account of a customer. *)

\* A login that is under way or has a session has read what is still true of the
\* customer, unless it has been overtaken.
LoginsKnow ==
    \A l \in CustomerLogins :
        (login[l].pc \in {"read", "inserted"} \/ login[l].sess = "live") =>
            overtaken[l] \/ (customer.st = "active" /\ login[l].pw = customer.pw)

SessionsOfTheDone == \A l \in CustomerLogins : login[l].sess = "live" => login[l].pc = "done"

\* Between the revocation of the sessions and the commit of disable_customer no
\* login counts any more.
RevocationIsComplete ==
    (\E d \in Disables : disabling[d] = "sessions") =>
        \A l \in CustomerLogins :
            (login[l].pc \in {"read", "inserted"} \/ login[l].sess = "live") => overtaken[l]

\* A disabling that is under way has found a customer.
DisabledExist ==
    \A d \in Disables : disabling[d] \in {"updated", "tokens", "sessions"} => customer.st # "none"

UsedOnce == \A t \in OneTimeTokens : confirmed[t] > 0 => confirmed[t] = 1 /\ oneTime[t] = "consumed"

CreatedOnce == IF customer.st = "none" THEN created = 0 ELSE created = 1

CustomersInv ==
    /\ CustomersTypeOK /\ LoginsKnow /\ SessionsOfTheDone /\ RevocationIsComplete
    /\ DisabledExist /\ UsedOnce /\ CreatedOnce

-----------------------------------------------------------------------------
(* The outbox. *)

\* A batch has an event once.
BatchesApart ==
    \A w \in Workers : \A i, j \in DOMAIN worker[w].jobs :
        i # j => worker[w].jobs[i].event # worker[w].jobs[j].event

\* A worker that has e and may still send it, or has it sent again by marking it
\* failed.
Tickets(e) == {w \in Workers : Holds(w, e) /\ ~(worker[w].pc = "sent" /\ Current(w) = e)}

\* The row may be claimed without anything going wrong first.
Open(e) ==
    \/ event[e].status \in {"none", "failed"}
    \/ /\ event[e].status \in {"pending", "processing"}
       /\ event[e].due \/ \A w \in Workers : ~Holds(w, e)

\* Mails that were sent and mails that may still be sent have a cause each, but
\* for one.
Accounted ==
    \A e \in Events :
        sent[e] + Cardinality(Tickets(e)) + (IF Open(e) THEN 1 ELSE 0) <= 1 + causes[e]

BusyWorkers == {w \in Workers : worker[w].pc # "idle"}

Rows == {e \in Events : event[e].status # "none"}

SentIsSent == \A w \in Workers : worker[w].pc = "sent" => sent[Current(w)] > 0

OutboxInv ==
    /\ OutboxTypeOK /\ IsFiniteSet(BusyWorkers) /\ IsFiniteSet(Rows) /\ BatchesApart /\ Accounted
    /\ SentIsSent /\ ProcessedWasSent

-----------------------------------------------------------------------------
(* Notifications. *)

\* An update holds the lock of one row, which still is the one it read.
UpdatesKnow ==
    /\ \A u \in Updates : update[u].pc = "locked" =>
           \A c \in update[u].ch : channel[c] = update[u].before /\ channel[c].exists
    /\ \A u, v \in Updates :
           u # v /\ update[u].pc = "locked" /\ update[v].pc = "locked" => update[u].ch \cap update[v].ch = {}

\* Services of PagerDuty have no summary of an address.
WebhooksOnly == \A c \in Channels \ Webhooks : channel[c].summary = 0

TestsHaveOneChannel == \A t \in Tests : \A c, d \in test[t].ch : c = d

\* A call that has told the alert to a channel is done with it, and the channel has it.
DeliveriesKnow ==
    \A d \in Deliveries :
        /\ delivery[d].todo \subseteq delivery[d].listed /\ delivery[d].delivered \subseteq delivery[d].listed
        /\ \A c \in delivery[d].delivered : got[c] > 0

Begun == {d \in Deliveries : delivery[d].pc # "idle"}

\* The calls that are done with a channel.
Past(c) == {d \in Begun : c \notin delivery[d].todo}

GotOncePerCall == \A c \in Channels : got[c] <= Cardinality(Past(c))

\* Alertmanager waits for one call at most.
OneAwaited ==
    \A d, e \in Begun :
        (delivery[d].pc \notin {"lost", "error"} /\ delivery[e].pc \notin {"lost", "error"}) => d = e

AnsweredArrived ==
    \A d \in Deliveries :
        delivery[d].pc = "answered" => delivery[d].listed = {} \/ \E c \in delivery[d].listed : got[c] > 0

ChannelsInv ==
    /\ channel \in [Channels -> ChannelRow] /\ said \in [Channels -> SaidRow]
    /\ update \in [Updates -> UpdateRow]
    /\ UpdatesKept /\ UpdatesKnow /\ WebhooksOnly

TestsInv ==
    /\ test \in [Tests -> TestRow] /\ incident \in [Channels -> BOOLEAN]
    /\ TestIncidentsResolved /\ TestsHaveOneChannel

AlertsInv ==
    /\ delivery \in [Deliveries -> DeliveryRow] /\ got \in [Channels -> Nat]
    /\ DeliveriesKnow /\ IsFiniteSet(Begun) /\ GotOncePerCall /\ OneAwaited /\ AnsweredArrived

NotificationsInv == ChannelsInv /\ TestsInv /\ AlertsInv

-----------------------------------------------------------------------------
(***************************************************************************)
(* Signatures and windows, step by step.                                   *)
(***************************************************************************)

LEMMA SecondsGrow ==
    ASSUME NEW s \in Nat, NEW t \in Nat, NEW n \in Nat, s + 2 * n <= t
    PROVE  Second(s) \in Nat /\ Second(s) + n <= Second(t)
  BY DEF Second

\* The nonce outlives the tolerance, so two copies that both got in were not
\* both in time.
LEMMA NonceSound ==
    ASSUME GuardsInv
    PROVE  NonceStopsReplay
<1> SUFFICES ASSUME NEW c \in Copies, NEW d \in Copies, c # d,
                    copy[c].pc = "accepted", copy[d].pc = "accepted",
                    copy[c].storedAt <= copy[d].storedAt,
                    ~(copy[d].storedAt > copy[d].checkedAt)
             PROVE  stamp >= Second(copy[c].storedAt)
  BY DEF NonceStopsReplay
<1>1. PICK p \in CopyRow : p = copy[c]
  BY DEF GuardsInv, GuardsTypeOK
<1>2. PICK q \in CopyRow : q = copy[d]
  BY DEF GuardsInv, GuardsTypeOK
<1>3. /\ p.storedAt \in Nat /\ q.storedAt \in Nat /\ q.checkedAt \in Nat
      /\ p.storedAt <= q.storedAt /\ q.storedAt <= q.checkedAt
      /\ NonceTtl \in Nat /\ Tolerance \in Nat /\ Tolerance <= NonceTtl
  BY <1>1, <1>2, GuardsAssumption DEF CopyRow
<1>4. p.storedAt + 2 * NonceTtl <= q.storedAt
  BY <1>1, <1>2, <1>3 DEF GuardsInv, SignaturesInv, WritersApart, Written
<1>5. p.storedAt + 2 * NonceTtl <= q.checkedAt
  BY <1>3, <1>4
<1>6. Second(p.storedAt) \in Nat /\ Second(p.storedAt) + NonceTtl <= Second(q.checkedAt)
  BY <1>3, <1>5, SecondsGrow
<1>7. Second(q.checkedAt) - stamp <= Tolerance /\ stamp # NotSigned
  BY <1>2 DEF GuardsInv, SignaturesInv, CheckedInTime
<1>8. stamp \in Int /\ Second(q.checkedAt) \in Int
  BY <1>3, <1>7, GuardsAssumption DEF GuardsInv, GuardsTypeOK, Second
<1> HIDE DEF Second
<1> QED
  BY <1>1, <1>3, <1>6, <1>7, <1>8

LEMMA GuardsInitSound ==
    ASSUME GuardsInit
    PROVE  GuardsInv
<1>1. NoExpiry \in Nat
  BY GuardsAssumption DEF NoExpiry
<1>2. GuardsTypeOK
  <2>1. NoRedisKey \in RedisKey
    BY <1>1 DEF NoRedisKey, RedisKey
  <2>2. copy \in [Copies -> CopyRow] /\ attempt \in [Attempts -> AttemptRow]
    BY GuardsAssumption DEF GuardsInit, CopyRow, AttemptRow
  <2>3. deviceKey \in BOOLEAN /\ expiryLost \in BOOLEAN
    BY DEF GuardsInit
  <2>4. clock \in 0 .. MaxClock /\ windowsSeen \in Nat /\ redisFaults \in 0 .. MaxRedisFaults
    BY GuardsAssumption DEF GuardsInit
  <2>5. nonce \in RedisKey /\ window \in RedisKey /\ stamp = NotSigned
    BY <2>1 DEF GuardsInit
  <2> QED
    BY <2>2, <2>3, <2>4, <2>5 DEF GuardsTypeOK
<1>3. SignaturesInv
  BY DEF GuardsInit, SignaturesInv, CheckedInTime, NonceStays, WritersApart, Written
<1>4. CountsApart /\ EndIsComing
  BY DEF GuardsInit, CountsApart, EndIsComing, NoRedisKey
<1> QED
  BY <1>2, <1>3, <1>4 DEF GuardsInv

\* What is said of the one half of the keys when only the other half changes.
LEMMA WindowUntouched ==
    ASSUME GuardsInv, UNCHANGED windowVars
    PROVE  CountsApart' /\ EndIsComing'
  BY DEF GuardsInv, windowVars, CountsApart, EndIsComing

LEMMA SignatureUntouched ==
    ASSUME GuardsInv, UNCHANGED <<clock, nonceVars>>
    PROVE  SignaturesInv'
  BY DEF GuardsInv, nonceVars, SignaturesInv, CheckedInTime, NonceStays, WritersApart, Written

LEMMA ClockTickSound ==
    ASSUME GuardsInv, ClockTick
    PROVE  GuardsInv'
<1>1. /\ clock \in Nat /\ clock < MaxClock /\ MaxClock \in Nat /\ clock' = clock + 1
      /\ NoExpiry \in Nat /\ MaxClock < NoExpiry /\ NonceTtl \in Nat
  BY GuardsAssumption DEF GuardsInv, GuardsTypeOK, ClockTick, NoExpiry
<1>2. PICK n \in RedisKey : n = nonce
  BY DEF GuardsInv, GuardsTypeOK
<1>3. PICK w \in RedisKey : w = window
  BY DEF GuardsInv, GuardsTypeOK
<1>4. NoRedisKey \in RedisKey /\ NoRedisKey.value = 0
  BY <1>1 DEF NoRedisKey, RedisKey
<1>5. /\ nonce' \in RedisKey
      /\ n.expires <= clock' => nonce'.value = 0
      /\ ~(n.expires <= clock') => nonce' = n
  BY <1>1, <1>2, <1>4 DEF ClockTick, Expired
<1>6. /\ window' \in RedisKey
      /\ window' = w \/ window'.value = 0
  BY <1>1, <1>3, <1>4 DEF ClockTick, Expired
<1>7. GuardsTypeOK'
  BY <1>1, <1>5, <1>6 DEF GuardsInv, GuardsTypeOK, ClockTick
<1>8. CheckedInTime'
  BY DEF GuardsInv, SignaturesInv, CheckedInTime, ClockTick
<1>9. NonceStays'
  <2> SUFFICES ASSUME NEW c \in Copies
               PROVE  /\ copy[c].pc = "stored" => nonce'.value = 1 /\ nonce'.expires = NoExpiry
                      /\ Written(c) => /\ copy[c].storedAt <= clock'
                                       /\ \/ copy[c].storedAt + 2 * NonceTtl <= clock'
                                          \/ /\ nonce'.value = 1
                                             /\ copy[c].storedAt + 2 * NonceTtl <= nonce'.expires
    BY DEF NonceStays, Written, ClockTick
  <2>1. PICK p \in CopyRow : p = copy[c]
    BY DEF GuardsInv, GuardsTypeOK
  <2>2. /\ p.pc = "stored" => n.value = 1 /\ n.expires = NoExpiry
        /\ Written(c) => /\ p.storedAt <= clock
                         /\ \/ p.storedAt + 2 * NonceTtl <= clock
                            \/ /\ n.value = 1
                               /\ p.storedAt + 2 * NonceTtl <= n.expires
    BY <1>2, <2>1 DEF GuardsInv, SignaturesInv, NonceStays
  <2>3. p.storedAt \in Nat /\ n.expires \in Nat
    BY <2>1 DEF CopyRow, RedisKey
  <2> QED
    BY <1>1, <1>5, <2>1, <2>2, <2>3
<1>10. WritersApart'
  BY DEF GuardsInv, SignaturesInv, WritersApart, Written, ClockTick
<1>11. CountsApart' /\ EndIsComing'
  BY <1>3, <1>6 DEF GuardsInv, CountsApart, EndIsComing, ClockTick
<1> QED
  BY <1>7, <1>8, <1>9, <1>10, <1>11 DEF GuardsInv, SignaturesInv

LEMMA SignRequestSound ==
    ASSUME GuardsInv, NEW s \in 0 .. Second(MaxClock), SignRequest(s)
    PROVE  GuardsInv'
<1>1. GuardsTypeOK'
  BY DEF GuardsInv, GuardsTypeOK, SignRequest, windowVars
<1>2. SignaturesInv'
  BY DEF GuardsInv, SignRequest, SignaturesInv, CheckedInTime, NonceStays, WritersApart, Written
<1>3. CountsApart' /\ EndIsComing'
  BY WindowUntouched DEF SignRequest
<1> QED
  BY <1>1, <1>2, <1>3 DEF GuardsInv

LEMMA RevokeDeviceKeySound ==
    ASSUME GuardsInv, RevokeDeviceKey
    PROVE  GuardsInv'
<1>1. GuardsTypeOK'
  BY DEF GuardsInv, GuardsTypeOK, RevokeDeviceKey, windowVars
<1>2. SignaturesInv'
  BY DEF GuardsInv, RevokeDeviceKey, SignaturesInv, CheckedInTime, NonceStays, WritersApart, Written
<1>3. CountsApart' /\ EndIsComing'
  BY WindowUntouched DEF RevokeDeviceKey
<1> QED
  BY <1>1, <1>2, <1>3 DEF GuardsInv


LEMMA CheckSignatureSound ==
    ASSUME GuardsInv, NEW c \in Copies, CheckSignature(c)
    PROVE  GuardsInv'
<1>1. PICK p \in CopyRow : p = copy[c]
  BY DEF GuardsInv, GuardsTypeOK
<1> DEFINE q == [p EXCEPT !.pc = IF WithinTolerance /\ deviceKey THEN "checked" ELSE "refused",
                          !.checkedAt = clock]
<1>2. /\ q \in CopyRow /\ q.pc \in {"checked", "refused"} /\ q.checkedAt = clock
      /\ q.pc = "checked" => WithinTolerance
  BY <1>1 DEF GuardsInv, GuardsTypeOK, CopyRow
<1>3. copy' = [copy EXCEPT ![c] = q]
  BY <1>1 DEF CheckSignature, GuardsInv, GuardsTypeOK, CopyRow
<1> HIDE DEF q
<1>4. GuardsTypeOK'
  BY <1>2, <1>3 DEF GuardsInv, GuardsTypeOK, CheckSignature, windowVars
<1>5. q.pc = "checked" => Second(clock) - stamp <= Tolerance
  BY <1>2, GuardsAssumption DEF WithinTolerance
<1>6. CheckedInTime'
  BY <1>2, <1>3, <1>5 DEF GuardsInv, GuardsTypeOK, SignaturesInv, CheckedInTime, CheckSignature
<1>7. NonceStays' /\ WritersApart'
  BY <1>2, <1>3 DEF GuardsInv, GuardsTypeOK, SignaturesInv, NonceStays, WritersApart, Written, CheckSignature
<1>8. CountsApart' /\ EndIsComing'
  BY WindowUntouched DEF CheckSignature
<1> QED
  BY <1>4, <1>6, <1>7, <1>8 DEF GuardsInv, SignaturesInv

LEMMA SetNonceSound ==
    ASSUME GuardsInv, NEW c \in Copies, SetNonce(c)
    PROVE  GuardsInv'
<1>1. PICK p \in CopyRow : p = copy[c]
  BY DEF GuardsInv, GuardsTypeOK
<1> DEFINE q == [p EXCEPT !.pc = "stored", !.storedAt = clock]
<1> DEFINE x == [p EXCEPT !.pc = "refused"]
<1>2. /\ q \in CopyRow /\ q.pc = "stored" /\ q.storedAt = clock /\ q.checkedAt = p.checkedAt
      /\ x \in CopyRow /\ x.pc = "refused"
  BY <1>1 DEF GuardsInv, GuardsTypeOK, CopyRow
<1>3. \/ /\ nonce.value = 0
         /\ nonce' = [value |-> 1, expires |-> NoExpiry] /\ copy' = [copy EXCEPT ![c] = q]
      \/ nonce' = nonce /\ copy' = [copy EXCEPT ![c] = x]
  BY <1>1 DEF SetNonce, NonceFree, GuardsInv, GuardsTypeOK, CopyRow
<1> HIDE DEF q, x
<1>4. /\ clock \in Nat /\ MaxClock \in Nat /\ NonceTtl \in Nat /\ NoExpiry \in Nat
      /\ clock + 2 * NonceTtl <= NoExpiry
  BY GuardsAssumption DEF GuardsInv, GuardsTypeOK, NoExpiry
<1>5. GuardsTypeOK'
  <2>1. nonce' \in RedisKey
    BY <1>3, <1>4 DEF RedisKey, GuardsInv, GuardsTypeOK
  <2> QED
    BY <1>2, <1>3, <2>1 DEF GuardsInv, GuardsTypeOK, SetNonce, windowVars
<1>6. p.pc = "checked" /\ UNCHANGED <<clock, stamp>>
  BY <1>1 DEF SetNonce
<1>7. CheckedInTime'
  BY <1>1, <1>2, <1>3, <1>6 DEF GuardsInv, GuardsTypeOK, SignaturesInv, CheckedInTime
<1>8. CASE nonce.value = 0 /\ nonce' = [value |-> 1, expires |-> NoExpiry] /\ copy' = [copy EXCEPT ![c] = q]
  <2>1. \A d \in Copies : /\ copy[d].storedAt \in Nat /\ copy[d].pc # "stored"
                          /\ Written(d) => copy[d].storedAt + 2 * NonceTtl <= clock
    BY <1>8 DEF GuardsInv, GuardsTypeOK, CopyRow, SignaturesInv, NonceStays
  <2>2. copy' \in [Copies -> CopyRow] /\ copy'[c] = q /\ \A d \in Copies \ {c} : copy'[d] = copy[d]
    BY <1>2, <1>8 DEF GuardsInv, GuardsTypeOK
  <2>3. NonceStays'
    <3>1. nonce'.value = 1 /\ nonce'.expires = NoExpiry
      BY <1>8
    <3>2. copy'[c].pc = "stored" /\ copy'[c].storedAt = clock
      BY <1>2, <2>2
    <3>3. \A d \in Copies \ {c} : copy'[d].pc # "stored" /\ (Written(d)' => Written(d))
      BY <2>1, <2>2 DEF Written
    <3> QED
      BY <1>4, <1>6, <2>1, <2>2, <3>1, <3>2, <3>3 DEF NonceStays
  <2>4. WritersApart'
    <3>1. copy'[c].storedAt = clock /\ copy[c].pc = "checked"
      BY <1>1, <1>2, <1>6, <2>2
    <3>2. \A d \in Copies \ {c} :
              /\ copy'[d].pc = copy[d].pc /\ copy'[d].storedAt = copy[d].storedAt /\ copy[d].pc # "stored"
              /\ Written(d)' <=> Written(d)
      BY <2>1, <2>2 DEF Written
    <3>3. ASSUME NEW a \in Copies, NEW b \in Copies, a # b, Written(a)', Written(b)'
          PROVE  /\ ~(copy'[a].pc = "stored" /\ copy'[b].pc = "stored")
                 /\ \/ copy'[a].storedAt + 2 * NonceTtl <= copy'[b].storedAt
                    \/ copy'[b].storedAt + 2 * NonceTtl <= copy'[a].storedAt
      <4>1. CASE a = c
        BY <2>1, <3>1, <3>2, <3>3, <4>1
      <4>2. CASE b = c
        BY <2>1, <3>1, <3>2, <3>3, <4>2
      <4>3. CASE a # c /\ b # c
        BY <3>2, <3>3, <4>3 DEF GuardsInv, SignaturesInv, WritersApart
      <4> QED
        BY <4>1, <4>2, <4>3
    <3> QED
      BY <3>3 DEF WritersApart
  <2> QED
    BY <1>5, <1>7, <2>3, <2>4, WindowUntouched DEF GuardsInv, SignaturesInv, SetNonce
<1>9. CASE nonce' = nonce /\ copy' = [copy EXCEPT ![c] = x]
  <2>1. NonceStays' /\ WritersApart'
    BY <1>2, <1>6, <1>9 DEF GuardsInv, GuardsTypeOK, SignaturesInv, NonceStays, WritersApart, Written
  <2> QED
    BY <1>5, <1>7, <2>1, WindowUntouched DEF GuardsInv, SignaturesInv, SetNonce
<1> QED
  BY <1>3, <1>8, <1>9

LEMMA ExpireNonceSound ==
    ASSUME GuardsInv, NEW c \in Copies, ExpireNonce(c)
    PROVE  GuardsInv'
<1>1. PICK p \in CopyRow : p = copy[c]
  BY DEF GuardsInv, GuardsTypeOK
<1>2. PICK n \in RedisKey : n = nonce
  BY DEF GuardsInv, GuardsTypeOK
<1> DEFINE q == [p EXCEPT !.pc = "accepted"]
<1> DEFINE m == [n EXCEPT !.expires = clock + 2 * NonceTtl]
<1>3. /\ q \in CopyRow /\ q.pc = "accepted" /\ q.storedAt = p.storedAt /\ q.checkedAt = p.checkedAt
      /\ m.value = n.value /\ m.expires = clock + 2 * NonceTtl
  BY <1>1, <1>2 DEF CopyRow, RedisKey
<1>4. copy' = [copy EXCEPT ![c] = q]
  BY <1>1 DEF ExpireNonce, GuardsInv, GuardsTypeOK, CopyRow
<1>5. /\ clock \in Nat /\ MaxClock \in Nat /\ NonceTtl \in Nat /\ NoExpiry \in Nat
      /\ clock + 2 * NonceTtl <= NoExpiry
  BY GuardsAssumption DEF GuardsInv, GuardsTypeOK, NoExpiry
<1>6. p.pc = "stored" /\ UNCHANGED <<clock, stamp>>
  BY <1>1 DEF ExpireNonce
<1>7. n.value = 1 /\ nonce' = m
  BY <1>1, <1>2, <1>6 DEF ExpireNonce, GuardsInv, SignaturesInv, NonceStays
<1>8. m \in RedisKey
  BY <1>2, <1>5 DEF RedisKey
<1> HIDE DEF q, m
<1>9. GuardsTypeOK'
  BY <1>3, <1>4, <1>7, <1>8 DEF GuardsInv, GuardsTypeOK, ExpireNonce, windowVars
<1>10. CheckedInTime'
  BY <1>1, <1>3, <1>4, <1>6 DEF GuardsInv, GuardsTypeOK, SignaturesInv, CheckedInTime
<1>11. \A d \in Copies : copy[d].storedAt \in Nat /\ (Written(d) => copy[d].storedAt <= clock)
  BY DEF GuardsInv, GuardsTypeOK, CopyRow, SignaturesInv, NonceStays
<1>12. \A d \in Copies \ {c} : copy[d].pc # "stored"
  BY <1>1, <1>6 DEF GuardsInv, SignaturesInv, WritersApart, Written
<1>13. copy'[c] = q /\ \A d \in Copies \ {c} : copy'[d] = copy[d]
  BY <1>3, <1>4 DEF GuardsInv, GuardsTypeOK
<1>14. Written(c) /\ (\A d \in Copies : Written(d)' <=> Written(d))
  BY <1>1, <1>3, <1>6, <1>13 DEF Written
<1>15. NonceStays'
  BY <1>1, <1>3, <1>5, <1>6, <1>7, <1>11, <1>12, <1>13, <1>14 DEF NonceStays
<1>16. WritersApart'
  BY <1>1, <1>3, <1>6, <1>12, <1>13, <1>14 DEF WritersApart, GuardsInv, SignaturesInv
<1> QED
  BY <1>9, <1>10, <1>15, <1>16, WindowUntouched DEF GuardsInv, SignaturesInv, ExpireNonce

LEMMA ExpireNonceFailsSound ==
    ASSUME GuardsInv, NEW c \in Copies, ExpireNonceFails(c)
    PROVE  GuardsInv'
<1>1. PICK p \in CopyRow : p = copy[c]
  BY DEF GuardsInv, GuardsTypeOK
<1> DEFINE q == [p EXCEPT !.pc = "refused"]
<1>2. q \in CopyRow /\ q.pc = "refused"
  BY <1>1 DEF CopyRow
<1>3. copy' = [copy EXCEPT ![c] = q]
  BY <1>1 DEF ExpireNonceFails, GuardsInv, GuardsTypeOK, CopyRow
<1> HIDE DEF q
<1>4. GuardsTypeOK'
  BY <1>2, <1>3, GuardsAssumption DEF GuardsInv, GuardsTypeOK, ExpireNonceFails, RedisFault, windowVars
<1>5. SignaturesInv'
  BY <1>2, <1>3 DEF GuardsInv, GuardsTypeOK, SignaturesInv, CheckedInTime, NonceStays, WritersApart, Written,
                    ExpireNonceFails
<1> QED
  BY <1>4, <1>5, WindowUntouched DEF GuardsInv, ExpireNonceFails

LEMMA CountAttemptSound ==
    ASSUME GuardsInv, NEW a \in Attempts, CountAttempt(a)
    PROVE  GuardsInv'
<1>1. PICK w \in RedisKey : w = window
  BY DEF GuardsInv, GuardsTypeOK
<1>2. w.value \in Nat /\ windowsSeen \in Nat
  BY <1>1 DEF RedisKey, GuardsInv, GuardsTypeOK
<1>3. PICK n \in Nat : n = windowsSeen'
  BY <1>1, <1>2 DEF CountAttempt
<1> DEFINE p == [pc |-> "counted", count |-> w.value + 1, window |-> n]
<1> DEFINE v == [w EXCEPT !.value = w.value + 1]
<1>4. /\ p \in AttemptRow /\ p.pc = "counted" /\ p.count = w.value + 1 /\ p.window = n
      /\ v \in RedisKey /\ v.value = w.value + 1 /\ v.expires = w.expires
  BY <1>1, <1>2, <1>3 DEF AttemptRow, RedisKey
<1>5. window' = v /\ attempt' = [attempt EXCEPT ![a] = p]
  BY <1>1, <1>3 DEF CountAttempt, RedisKey
<1>6. /\ IF w.value = 0 THEN n = windowsSeen + 1 ELSE n = windowsSeen
      /\ expiryLost' \in BOOLEAN
      /\ w.value # 0 => expiryLost' = expiryLost
  BY <1>1, <1>3 DEF CountAttempt, GuardsInv, GuardsTypeOK
<1> HIDE DEF p, v
<1>7. attempt'[a] = p /\ \A b \in Attempts \ {a} : attempt'[b] = attempt[b]
  BY <1>4, <1>5 DEF GuardsInv, GuardsTypeOK
<1>8. GuardsTypeOK'
  BY <1>3, <1>4, <1>5, <1>6 DEF GuardsInv, GuardsTypeOK, CountAttempt, nonceVars
<1>9. \A b \in Attempts : attempt[b].pc # "idle" =>
          /\ attempt[b].count \in Nat /\ attempt[b].window \in Nat
          /\ attempt[b].count >= 1 /\ attempt[b].window <= windowsSeen
          /\ (attempt[b].window = windowsSeen /\ w.value > 0) => attempt[b].count <= w.value
  BY <1>1 DEF GuardsInv, GuardsTypeOK, AttemptRow, CountsApart
<1>10. CountsApart'
  <2>1. ASSUME NEW b \in Attempts, attempt'[b].pc # "idle"
        PROVE  /\ attempt'[b].count >= 1 /\ attempt'[b].window <= windowsSeen'
               /\ (attempt'[b].window = windowsSeen' /\ window'.value > 0) => attempt'[b].count <= window'.value
    <3>1. CASE b = a
      BY <1>2, <1>3, <1>4, <1>5, <1>7, <3>1
    <3>2. CASE b # a
      BY <1>2, <1>3, <1>4, <1>5, <1>6, <1>7, <1>9, <2>1, <3>2
    <3> QED
      BY <3>1, <3>2
  <2>2. ASSUME NEW b \in Attempts \ {a}, attempt[b].pc # "idle", attempt[b].window = n
        PROVE  attempt[b].count # w.value + 1
    BY <1>2, <1>3, <1>6, <1>9, <2>2
  <2>3. ASSUME NEW b \in Attempts, NEW d \in Attempts, b # d,
               attempt'[b].pc # "idle", attempt'[d].pc # "idle", attempt'[b].window = attempt'[d].window
        PROVE  attempt'[b].count # attempt'[d].count
    <3>1. CASE b = a
      BY <1>4, <1>7, <2>2, <2>3, <3>1
    <3>2. CASE d = a
      BY <1>4, <1>7, <2>2, <2>3, <3>2
    <3>3. CASE b # a /\ d # a
      BY <1>7, <2>3, <3>3 DEF GuardsInv, CountsApart
    <3> QED
      BY <3>1, <3>2, <3>3
  <2> QED
    BY <2>1, <2>3 DEF CountsApart
<1>11. EndIsComing'
  <2>1. CASE w.value = 0
    BY <1>4, <1>7, <2>1 DEF EndIsComing
  <2>2. CASE w.value # 0
    <3>1. ASSUME NEW b \in Attempts, attempt[b].pc = "counted", attempt[b].count = 1
          PROVE  attempt'[b].pc = "counted" /\ attempt'[b].count = 1
      BY <1>7, <3>1 DEF CountAttempt
    <3> QED
      BY <1>1, <1>2, <1>4, <1>5, <1>6, <2>2, <3>1 DEF GuardsInv, EndIsComing
  <2> QED
    BY <2>1, <2>2
<1> QED
  BY <1>8, <1>10, <1>11, SignatureUntouched DEF GuardsInv, CountAttempt

\* The end of an attempt changes neither its count nor its window.
LEMMA EndedCounts ==
    ASSUME GuardsInv, NEW a \in Attempts, attempt[a].pc = "counted",
           attempt' = [attempt EXCEPT ![a].pc = "done"]
    PROVE  /\ attempt' \in [Attempts -> AttemptRow]
           /\ \A b \in Attempts : /\ attempt'[b].count = attempt[b].count
                                  /\ attempt'[b].window = attempt[b].window
                                  /\ attempt'[b].pc = "idle" <=> attempt[b].pc = "idle"
                                  /\ b # a => attempt'[b].pc = attempt[b].pc
<1>1. PICK p \in AttemptRow : p = attempt[a]
  BY DEF GuardsInv, GuardsTypeOK
<1> DEFINE q == [p EXCEPT !.pc = "done"]
<1>2. q \in AttemptRow /\ q.pc = "done" /\ q.count = p.count /\ q.window = p.window
  BY <1>1 DEF AttemptRow
<1>3. attempt' = [attempt EXCEPT ![a] = q]
  BY <1>1 DEF GuardsInv, GuardsTypeOK, AttemptRow
<1> HIDE DEF q
<1> QED
  BY <1>1, <1>2, <1>3 DEF GuardsInv, GuardsTypeOK

LEMMA EndAttemptSound ==
    ASSUME GuardsInv, NEW a \in Attempts, EndAttempt(a)
    PROVE  GuardsInv'
<1>1. PICK w \in RedisKey : w = window
  BY DEF GuardsInv, GuardsTypeOK
<1>2. /\ clock \in Nat /\ MaxClock \in Nat /\ WindowSeconds \in Nat /\ NoExpiry \in Nat
      /\ clock + 2 * WindowSeconds < NoExpiry
  BY GuardsAssumption DEF GuardsInv, GuardsTypeOK, NoExpiry
<1> DEFINE v == [w EXCEPT !.expires = clock + 2 * WindowSeconds]
<1>3. v \in RedisKey /\ v.value = w.value /\ v.expires = clock + 2 * WindowSeconds
  BY <1>1, <1>2 DEF RedisKey
<1>4. window' = IF SetsExpiry(a) /\ w.value > 0 THEN v ELSE w
  BY <1>1 DEF EndAttempt
<1> HIDE DEF v
<1>5. window' \in RedisKey /\ window'.value = w.value
  BY <1>3, <1>4
<1>6. /\ attempt[a].pc = "counted" /\ attempt' = [attempt EXCEPT ![a].pc = "done"]
      /\ windowsSeen' = windowsSeen /\ expiryLost' = expiryLost
  BY DEF EndAttempt
<1>7. /\ attempt' \in [Attempts -> AttemptRow]
      /\ \A b \in Attempts : /\ attempt'[b].count = attempt[b].count
                             /\ attempt'[b].window = attempt[b].window
                             /\ attempt'[b].pc = "idle" <=> attempt[b].pc = "idle"
                             /\ b # a => attempt'[b].pc = attempt[b].pc
  BY <1>6, EndedCounts
<1>8. GuardsTypeOK'
  BY <1>5, <1>7 DEF GuardsInv, GuardsTypeOK, EndAttempt, nonceVars
<1>9. CountsApart'
  BY <1>1, <1>5, <1>6, <1>7 DEF GuardsInv, CountsApart
<1>10. EndIsComing'
  <2>1. CASE SetsExpiry(a) /\ w.value > 0
    BY <1>2, <1>3, <1>4, <2>1 DEF EndIsComing
  <2>2. CASE ~(w.value > 0)
    BY <1>5, <2>2 DEF EndIsComing
  <2>3. CASE ~SetsExpiry(a)
    BY <1>1, <1>4, <1>6, <1>7, <2>3 DEF GuardsInv, EndIsComing, SetsExpiry
  <2> QED
    BY <2>1, <2>2, <2>3
<1> QED
  BY <1>8, <1>9, <1>10, SignatureUntouched DEF GuardsInv, EndAttempt

LEMMA ExpireWindowFailsSound ==
    ASSUME GuardsInv, NEW a \in Attempts, ExpireWindowFails(a)
    PROVE  GuardsInv'
<1>1. attempt[a].pc = "counted" /\ attempt' = [attempt EXCEPT ![a].pc = "done"]
  BY DEF ExpireWindowFails
<1>2. /\ attempt' \in [Attempts -> AttemptRow]
      /\ \A b \in Attempts : /\ attempt'[b].count = attempt[b].count
                             /\ attempt'[b].window = attempt[b].window
                             /\ attempt'[b].pc = "idle" <=> attempt[b].pc = "idle"
                             /\ b # a => attempt'[b].pc = attempt[b].pc
  BY <1>1, EndedCounts
<1>3. expiryLost' = TRUE /\ redisFaults' \in 0 .. MaxRedisFaults
  BY GuardsAssumption DEF ExpireWindowFails, RedisFault, GuardsInv, GuardsTypeOK
<1>4. expiryLost' \in BOOLEAN
  BY <1>3
<1>5. GuardsTypeOK'
  BY <1>2, <1>3, <1>4 DEF GuardsInv, GuardsTypeOK, ExpireWindowFails, nonceVars
<1>6. CountsApart'
  BY <1>2 DEF GuardsInv, CountsApart, ExpireWindowFails
<1>7. EndIsComing'
  BY <1>3 DEF EndIsComing
<1> QED
  BY <1>5, <1>6, <1>7, SignatureUntouched DEF GuardsInv, ExpireWindowFails

\* The calls a window lets through have counts of their own, none above the limit.
LEMMA WindowsSound ==
    ASSUME GuardsInv
    PROVE  WindowsEnd
<1> SUFFICES ASSUME NEW n \in 1 .. windowsSeen
             PROVE  Cardinality({a \in Attempts : Passes(a) /\ attempt[a].window = n}) <= MaxAttemptsPerWindow
  BY DEF WindowsEnd, GuardsInv, EndIsComing
<1> DEFINE S == {a \in Attempts : Passes(a) /\ attempt[a].window = n}
           T == 1 .. MaxAttemptsPerWindow
           f == [a \in S |-> attempt[a].count]
<1>1. \A a \in S : attempt[a].count \in T
  BY GuardsAssumption DEF Passes, GuardsInv, GuardsTypeOK, AttemptRow, CountsApart
<1>2. \A a, b \in S : attempt[a].count = attempt[b].count => a = b
  BY DEF Passes, GuardsInv, CountsApart
<1>3. f \in Injection(S, T)
  BY <1>1, <1>2 DEF Injection, IsInjective
<1>4. IsFiniteSet(T) /\ Cardinality(T) = MaxAttemptsPerWindow
  BY GuardsAssumption, FS_Interval
<1> HIDE DEF S, T, f
<1>5. Cardinality(S) <= Cardinality(T)
  BY <1>3, <1>4, FS_Injection
<1> QED
  BY <1>4, <1>5 DEF S

LEMMA SignatureStep ==
    ASSUME GuardsInv, SignatureNext
    PROVE  GuardsInv'
  BY ClockTickSound, RevokeDeviceKeySound, SignRequestSound, CheckSignatureSound, SetNonceSound,
     ExpireNonceSound, ExpireNonceFailsSound DEF SignatureNext

LEMMA WindowStep ==
    ASSUME GuardsInv, WindowNext
    PROVE  GuardsInv'
  BY ClockTickSound, CountAttemptSound, EndAttemptSound, ExpireWindowFailsSound DEF WindowNext

LEMMA GuardsStutter ==
    ASSUME GuardsInv, UNCHANGED guardVars
    PROVE  GuardsInv'
<1>1. GuardsTypeOK'
  BY DEF GuardsInv, GuardsTypeOK, guardVars
<1> QED
  BY <1>1, WindowUntouched, SignatureUntouched DEF GuardsInv, guardVars, windowVars, nonceVars

-----------------------------------------------------------------------------
(***************************************************************************)
(* The account of a customer, step by step.                                *)
(***************************************************************************)

\* A login that counts: it is under way or has a session.
Counts(r) == r.pc \in {"read", "inserted"} \/ r.sess = "live"

Agrees(c, r) == c.st = "active" /\ r.pw = c.pw

LEMMA PasswordsAre == Passwords \in SUBSET Nat /\ Absent \in Passwords /\ 1 \in Passwords
<1>1. Cardinality(ResetTokens) \in Nat
  BY CustomersAssumption, FS_CardinalityType
<1> QED
  BY <1>1 DEF Passwords, Absent

\* A reset that is still open has not been counted yet, so its password is one of
\* the model's.
LEMMA NewPasswordIs ==
    ASSUME CustomersInv, NEW t \in ResetTokens, StillOpen(t)
    PROVE  NewPassword \in Passwords
<1> DEFINE U == {x \in ResetTokens : confirmed[x] > 0}
<1>1. U \in SUBSET ResetTokens /\ U # ResetTokens
  BY DEF CustomersInv, UsedOnce, StillOpen, OneTimeTokens
<1> HIDE DEF U
<1>2. /\ Cardinality(ResetTokens) \in Nat /\ Cardinality(U) \in Nat
      /\ Cardinality(U) <= Cardinality(ResetTokens) /\ Cardinality(ResetTokens) # Cardinality(U)
  BY <1>1, CustomersAssumption, FS_Subset, FS_CardinalityType
<1>3. 1 + Cardinality(U) + 1 \in 0 .. Cardinality(ResetTokens) + 1
  BY <1>2
<1> QED
  BY <1>3 DEF NewPassword, Passwords, U

LEMMA CustomersInitSound ==
    ASSUME CustomersInit
    PROVE  CustomersInv
<1>1. CustomersTypeOK
  <2>1. customer \in CustomerRow
    BY PasswordsAre DEF CustomersInit, CustomerRow
  <2>2. login \in [CustomerLogins -> LoginRow] /\ confirmation \in [Confirmations -> ConfirmationRow]
    BY PasswordsAre DEF CustomersInit, LoginRow, ConfirmationRow
  <2> QED
    BY <2>1, <2>2 DEF CustomersInit, CustomersTypeOK
<1>2. LoginsKnow /\ SessionsOfTheDone /\ RevocationIsComplete /\ DisabledExist /\ UsedOnce /\ CreatedOnce
  BY DEF CustomersInit, LoginsKnow, SessionsOfTheDone, RevocationIsComplete, DisabledExist, UsedOnce, CreatedOnce
<1> QED
  BY <1>1, <1>2 DEF CustomersInv

LEMMA CreateCheckSound ==
    ASSUME CustomersInv, NEW c \in Creations, CreateCheck(c)
    PROVE  CustomersInv'
<1>1. CustomersTypeOK'
  BY DEF CustomersInv, CustomersTypeOK, CreateCheck
<1>2. (LoginsKnow /\ SessionsOfTheDone /\ RevocationIsComplete /\ DisabledExist /\ UsedOnce /\ CreatedOnce)'
  BY DEF CustomersInv, CreateCheck, LoginsKnow, SessionsOfTheDone, RevocationIsComplete, DisabledExist, UsedOnce, CreatedOnce
<1> QED
  BY <1>1, <1>2 DEF CustomersInv

LEMMA CreateInsertSound ==
    ASSUME CustomersInv, NEW c \in Creations, NEW p \in {Absent, 1}, CreateInsert(c, p)
    PROVE  CustomersInv'
<1>1. UNCHANGED <<login, oneTime, confirmation, disabling, confirmed, overtaken>>
  BY DEF CreateInsert
<1>2. CASE customer.st = "none"
  <2>1. customer' = NewCustomer(p) /\ created' = created + 1
    BY <1>2 DEF CreateInsert, EmailFree
  <2>2. NewCustomer(p) \in CustomerRow /\ NewCustomer(p).st = "active"
    BY PasswordsAre DEF NewCustomer, CustomerRow
  <2>3. CustomersTypeOK'
    BY <2>1, <2>2 DEF CustomersInv, CustomersTypeOK, CreateInsert
  <2>4. \A l \in CustomerLogins : Counts(login[l]) => overtaken[l]
    BY <1>2 DEF CustomersInv, LoginsKnow, Counts
  <2>5. (LoginsKnow /\ SessionsOfTheDone /\ RevocationIsComplete)'
    BY <1>1, <2>4 DEF CustomersInv, LoginsKnow, SessionsOfTheDone, RevocationIsComplete, Counts
  <2>6. (DisabledExist /\ UsedOnce /\ CreatedOnce)'
    BY <1>1, <1>2, <2>1, <2>2 DEF CustomersInv, DisabledExist, UsedOnce, CreatedOnce
  <2> QED
    BY <2>3, <2>5, <2>6 DEF CustomersInv
<1>3. CASE customer.st # "none"
  <2>1. UNCHANGED <<customer, created>>
    BY <1>3 DEF CreateInsert, EmailFree
  <2>2. CustomersTypeOK'
    BY <2>1 DEF CustomersInv, CustomersTypeOK, CreateInsert
  <2>3. (LoginsKnow /\ SessionsOfTheDone /\ RevocationIsComplete /\ DisabledExist /\ UsedOnce /\ CreatedOnce)'
    BY <1>1, <2>1 DEF CustomersInv, LoginsKnow, SessionsOfTheDone, RevocationIsComplete, DisabledExist, UsedOnce, CreatedOnce
  <2> QED
    BY <2>2, <2>3 DEF CustomersInv
<1> QED
  BY <1>2, <1>3

\* A write of the customer's row that keeps its status and its password.
LEMMA ProfileWriteSound ==
    ASSUME CustomersInv, NEW q \in CustomerRow, customer' = q,
           q.st = customer.st, q.pw = customer.pw,
           UNCHANGED <<created, login, disabling, overtaken>>
    PROVE  (LoginsKnow /\ SessionsOfTheDone /\ RevocationIsComplete /\ DisabledExist /\ CreatedOnce)'
  BY DEF CustomersInv, LoginsKnow, SessionsOfTheDone, RevocationIsComplete, DisabledExist, CreatedOnce

LEMMA UpdateCustomerSound ==
    ASSUME CustomersInv, UpdateCustomer
    PROVE  CustomersInv'
<1>1. PICK c \in CustomerRow : c = customer
  BY DEF CustomersInv, CustomersTypeOK
<1> DEFINE q == [c EXCEPT !.profile = TRUE]
<1>2. q \in CustomerRow /\ q.st = c.st /\ q.pw = c.pw
  BY <1>1 DEF CustomerRow
<1>3. customer' = q
  BY <1>1 DEF UpdateCustomer
<1> HIDE DEF q
<1>4. CustomersTypeOK'
  BY <1>2, <1>3 DEF CustomersInv, CustomersTypeOK, UpdateCustomer
<1>5. (LoginsKnow /\ SessionsOfTheDone /\ RevocationIsComplete /\ DisabledExist /\ CreatedOnce)'
  BY <1>1, <1>2, <1>3, ProfileWriteSound DEF UpdateCustomer
<1>6. UsedOnce'
  BY DEF CustomersInv, UsedOnce, UpdateCustomer
<1> QED
  BY <1>4, <1>5, <1>6 DEF CustomersInv

LEMMA LoginReadSound ==
    ASSUME CustomersInv, NEW l \in CustomerLogins, LoginRead(l)
    PROVE  CustomersInv'
<1>1. PICK r \in LoginRow : r = login[l]
  BY DEF CustomersInv, CustomersTypeOK
<1>2. PICK c \in CustomerRow : c = customer
  BY DEF CustomersInv, CustomersTypeOK
<1> DEFINE ok == c.st = "active" /\ c.pw # Absent
           q == [r EXCEPT !.pc = IF ok THEN "read" ELSE "refused", !.pw = IF ok THEN c.pw ELSE Absent]
           o == \E d \in Disables : disabling[d] = "sessions"
<1>3. /\ q \in LoginRow /\ q.sess = r.sess
      /\ q.pc = IF ok THEN "read" ELSE "refused"
      /\ q.pw = IF ok THEN c.pw ELSE Absent
  BY <1>1, <1>2, PasswordsAre DEF LoginRow, CustomerRow
<1>4. login' = [login EXCEPT ![l] = q] /\ overtaken' = [overtaken EXCEPT ![l] = o]
  BY <1>1, <1>2 DEF LoginRead, CustomersInv, CustomersTypeOK, LoginRow
<1>5. q.sess # "live"
  BY <1>1, <1>3 DEF CustomersInv, SessionsOfTheDone, LoginRead
<1>6. Counts(q) => Agrees(c, q)
  BY <1>3, <1>5 DEF Counts, Agrees
<1> HIDE DEF q, ok
<1>7. CustomersTypeOK'
  <2>1. o \in BOOLEAN
    OBVIOUS
  <2> HIDE DEF o
  <2>2. overtaken' \in [CustomerLogins -> BOOLEAN]
    BY <1>4, <2>1, Zenon DEF CustomersInv, CustomersTypeOK
  <2>3. login' \in [CustomerLogins -> LoginRow]
    BY <1>3, <1>4 DEF CustomersInv, CustomersTypeOK
  <2> QED
    BY <2>2, <2>3 DEF CustomersInv, CustomersTypeOK, LoginRead
<1>8. /\ login'[l] = q /\ overtaken'[l] = o
      /\ \A k \in CustomerLogins \ {l} : login'[k] = login[k] /\ overtaken'[k] = overtaken[k]
  BY <1>4 DEF CustomersInv, CustomersTypeOK
<1>9. customer' = customer /\ disabling' = disabling
  BY DEF LoginRead
<1>10. LoginsKnow'
  BY <1>2, <1>6, <1>8, <1>9 DEF CustomersInv, LoginsKnow, Counts, Agrees
<1>11. SessionsOfTheDone'
  BY <1>5, <1>8 DEF CustomersInv, SessionsOfTheDone
<1>12. RevocationIsComplete'
  BY <1>8, <1>9 DEF CustomersInv, RevocationIsComplete
<1>13. (DisabledExist /\ UsedOnce /\ CreatedOnce)'
  BY DEF LoginRead, CustomersInv, DisabledExist, UsedOnce, CreatedOnce
<1> QED
  BY <1>7, <1>10, <1>11, <1>12, <1>13 DEF CustomersInv

LEMMA LoginInsertSound ==
    ASSUME CustomersInv, NEW l \in CustomerLogins, LoginInsert(l)
    PROVE  CustomersInv'
<1>1. PICK r \in LoginRow : r = login[l]
  BY DEF CustomersInv, CustomersTypeOK
<1> DEFINE q == [r EXCEPT !.pc = "inserted"]
<1>2. q \in LoginRow /\ q.sess = r.sess /\ q.pw = r.pw /\ q.pc = "inserted"
  BY <1>1 DEF LoginRow
<1>3. login' = [login EXCEPT ![l] = q] /\ r.pc = "read" /\ r.sess # "live"
  BY <1>1 DEF LoginInsert, CustomersInv, CustomersTypeOK, LoginRow, SessionsOfTheDone
<1> HIDE DEF q
<1>4. CustomersTypeOK'
  BY <1>2, <1>3 DEF CustomersInv, CustomersTypeOK, LoginInsert
<1>5. login'[l] = q /\ \A k \in CustomerLogins \ {l} : login'[k] = login[k]
  BY <1>3 DEF CustomersInv, CustomersTypeOK
<1>6. (LoginsKnow /\ SessionsOfTheDone)'
  BY <1>1, <1>2, <1>3, <1>5 DEF CustomersInv, LoginsKnow, SessionsOfTheDone, LoginInsert
<1>7. RevocationIsComplete'
  BY <1>1, <1>3, <1>5 DEF CustomersInv, RevocationIsComplete, LoginInsert
<1>8. (DisabledExist /\ UsedOnce /\ CreatedOnce)'
  BY DEF LoginInsert, CustomersInv, DisabledExist, UsedOnce, CreatedOnce
<1> QED
  BY <1>4, <1>6, <1>7, <1>8 DEF CustomersInv

LEMMA LoginCommitSound ==
    ASSUME CustomersInv, NEW l \in CustomerLogins, LoginCommit(l)
    PROVE  CustomersInv'
<1>1. PICK r \in LoginRow : r = login[l]
  BY DEF CustomersInv, CustomersTypeOK
<1> DEFINE q == [r EXCEPT !.pc = "done", !.sess = "live", !.refresh = "live"]
<1>2. q \in LoginRow /\ q.pw = r.pw /\ q.pc = "done"
  BY <1>1 DEF LoginRow
<1>3. login' = [login EXCEPT ![l] = q] /\ r.pc = "inserted"
  BY <1>1 DEF LoginCommit, CustomersInv, CustomersTypeOK, LoginRow
<1> HIDE DEF q
<1>4. CustomersTypeOK'
  BY <1>2, <1>3 DEF CustomersInv, CustomersTypeOK, LoginCommit
<1>5. login'[l] = q /\ \A k \in CustomerLogins \ {l} : login'[k] = login[k]
  BY <1>3 DEF CustomersInv, CustomersTypeOK
<1>6. (LoginsKnow /\ SessionsOfTheDone)'
  BY <1>1, <1>2, <1>3, <1>5 DEF CustomersInv, LoginsKnow, SessionsOfTheDone, LoginCommit
<1>7. RevocationIsComplete'
  BY <1>1, <1>3, <1>5 DEF CustomersInv, RevocationIsComplete, LoginCommit
<1>8. (DisabledExist /\ UsedOnce /\ CreatedOnce)'
  BY DEF LoginCommit, CustomersInv, DisabledExist, UsedOnce, CreatedOnce
<1> QED
  BY <1>4, <1>6, <1>7, <1>8 DEF CustomersInv

\* One-time tokens come and go without the rest of the account.
LEMMA OneTimeSound ==
    ASSUME CustomersInv, NEW t \in OneTimeTokens, NEW s \in {"requested", "open", "expired"},
           oneTime[t] # "consumed", oneTime' = [oneTime EXCEPT ![t] = s],
           UNCHANGED <<customer, creation, created, login, confirmation, disabling, confirmed, overtaken>>
    PROVE  CustomersInv'
<1>1. CustomersTypeOK'
  BY DEF CustomersInv, CustomersTypeOK
<1>2. (LoginsKnow /\ SessionsOfTheDone /\ RevocationIsComplete /\ DisabledExist /\ CreatedOnce)'
  BY DEF CustomersInv, LoginsKnow, SessionsOfTheDone, RevocationIsComplete, DisabledExist, CreatedOnce
<1>3. UsedOnce'
  BY DEF CustomersInv, CustomersTypeOK, UsedOnce
<1> QED
  BY <1>1, <1>2, <1>3 DEF CustomersInv

LEMMA OneTimeSteps ==
    ASSUME CustomersInv, NEW t \in OneTimeTokens,
           CreateReset(t) \/ RequestVerify(t) \/ CreateVerify(t) \/ ExpireOneTime(t)
    PROVE  CustomersInv'
<1>1. CASE CreateReset(t)
  BY <1>1, OneTimeSound DEF CreateReset
<1>2. CASE RequestVerify(t)
  BY <1>2, OneTimeSound DEF RequestVerify
<1>3. CASE CreateVerify(t)
  BY <1>3, OneTimeSound DEF CreateVerify
<1>4. CASE ExpireOneTime(t)
  BY <1>4, OneTimeSound DEF ExpireOneTime
<1> QED
  BY <1>1, <1>2, <1>3, <1>4

\* So do the calls that confirm, until they commit.
LEMMA ConfirmationSound ==
    ASSUME CustomersInv, confirmation' \in [Confirmations -> ConfirmationRow],
           UNCHANGED <<customer, creation, created, login, oneTime, disabling, confirmed, overtaken>>
    PROVE  CustomersInv'
<1>1. CustomersTypeOK'
  BY DEF CustomersInv, CustomersTypeOK
<1>2. (LoginsKnow /\ SessionsOfTheDone /\ RevocationIsComplete /\ DisabledExist /\ UsedOnce /\ CreatedOnce)'
  BY DEF CustomersInv, LoginsKnow, SessionsOfTheDone, RevocationIsComplete, DisabledExist, UsedOnce, CreatedOnce
<1> QED
  BY <1>1, <1>2 DEF CustomersInv

\* A call that confirms moves to another place.
LEMMA ConfirmationMoves ==
    ASSUME CustomersInv, NEW k \in Confirmations, NEW p \in {"customer", "done", "refused"},
           confirmation' = [confirmation EXCEPT ![k].pc = p]
    PROVE  confirmation' \in [Confirmations -> ConfirmationRow]
<1>1. PICK r \in ConfirmationRow : r = confirmation[k]
  BY DEF CustomersInv, CustomersTypeOK
<1>2. [r EXCEPT !.pc = p] \in ConfirmationRow
  BY <1>1 DEF ConfirmationRow
<1>3. confirmation' = [confirmation EXCEPT ![k] = [r EXCEPT !.pc = p]]
  BY <1>1 DEF CustomersInv, CustomersTypeOK
<1> QED
  BY <1>2, <1>3 DEF CustomersInv, CustomersTypeOK

LEMMA ConfirmationSteps ==
    ASSUME CustomersInv, NEW k \in Confirmations,
           (\E t \in OneTimeTokens : LockToken(k, t)) \/ LockCustomer(k) \/ ConfirmFails(k)
    PROVE  CustomersInv'
<1>1. ASSUME NEW t \in OneTimeTokens, LockToken(k, t)
      PROVE  CustomersInv'
  <2>1. [pc |-> IF oneTime[t] = "open" THEN "token" ELSE "refused", token |-> {t}] \in ConfirmationRow
    BY DEF ConfirmationRow
  <2>2. confirmation' \in [Confirmations -> ConfirmationRow]
    BY <1>1, <2>1 DEF LockToken, CustomersInv, CustomersTypeOK
  <2> QED
    BY <1>1, <2>2, ConfirmationSound DEF LockToken
<1>2. CASE LockCustomer(k)
  BY <1>2, ConfirmationMoves, ConfirmationSound DEF LockCustomer
<1>3. CASE ConfirmFails(k)
  BY <1>3, ConfirmationMoves, ConfirmationSound DEF ConfirmFails
<1> QED
  BY <1>1, <1>2, <1>3

\* What a revocation does to the row of a login: it keeps the place and the password
\* and leaves no session.
LEMMA RevokedRow ==
    ASSUME NEW r \in LoginRow
    PROVE  /\ RefreshRevoked(r) \in LoginRow /\ RefreshRevoked(r).pc = r.pc
           /\ RefreshRevoked(r).pw = r.pw /\ RefreshRevoked(r).sess = r.sess
           /\ SessionRevoked(r) \in LoginRow /\ SessionRevoked(r).pc = r.pc
           /\ SessionRevoked(r).pw = r.pw /\ SessionRevoked(r).sess # "live"
  BY DEF LoginRow, RefreshRevoked, SessionRevoked

LEMMA UnderWayIs ==
    ASSUME CustomersInv
    PROVE  /\ UnderWay \in [CustomerLogins -> BOOLEAN]
           /\ \A l \in CustomerLogins : (overtaken[l] => UnderWay[l])
           /\ \A l \in CustomerLogins : (login[l].pc \in {"read", "inserted"} => UnderWay[l])
<1>1. \A l \in CustomerLogins : overtaken[l] \in BOOLEAN
  BY DEF CustomersInv, CustomersTypeOK
<1> QED
  BY <1>1 DEF UnderWay

LEMMA ConfirmResetSound ==
    ASSUME CustomersInv, NEW k \in Confirmations, ConfirmReset(k)
    PROVE  CustomersInv'
<1>1. PICK t \in confirmation[k].token \cap ResetTokens :
          /\ StillOpen(t)
          /\ customer' = [customer EXCEPT !.pw = NewPassword]
          /\ oneTime' = [oneTime EXCEPT ![t] = "consumed"]
          /\ confirmed' = [confirmed EXCEPT ![t] = @ + 1]
  BY DEF ConfirmReset
<1>2. t \in OneTimeTokens /\ t \in ResetTokens /\ confirmed[t] = 0
  BY <1>1 DEF OneTimeTokens, CustomersInv, CustomersTypeOK, UsedOnce, StillOpen
<1>3. PICK c \in CustomerRow : c = customer
  BY DEF CustomersInv, CustomersTypeOK
<1>4. PICK p \in Passwords : p = NewPassword
  BY <1>1, <1>2, NewPasswordIs
<1>5. customer' \in CustomerRow /\ customer'.st = customer.st
  BY <1>1, <1>3, <1>4 DEF CustomerRow
<1>6. \A l \in CustomerLogins : login[l] \in LoginRow
  BY DEF CustomersInv, CustomersTypeOK
<1>7. \A l \in CustomerLogins : /\ login'[l] \in LoginRow /\ login'[l].pc = login[l].pc
                                /\ login'[l].sess # "live"
  BY <1>6, RevokedRow DEF ConfirmReset
<1>8. /\ confirmation' \in [Confirmations -> ConfirmationRow]
      /\ creation' = creation /\ created' = created /\ disabling' = disabling
      /\ overtaken' = UnderWay
      /\ login' = [l \in CustomerLogins |-> login'[l]]
  BY ConfirmationMoves DEF ConfirmReset
<1>9. CustomersTypeOK'
  <2>1. login' \in [CustomerLogins -> LoginRow]
    BY <1>7, <1>8
  <2>2. overtaken' \in [CustomerLogins -> BOOLEAN]
    BY <1>8, UnderWayIs
  <2> QED
    BY <1>1, <1>2, <1>5, <1>8, <2>1, <2>2 DEF CustomersInv, CustomersTypeOK
<1>10. \A l \in CustomerLogins : Counts(login'[l]) => overtaken'[l]
  BY <1>7, <1>8, UnderWayIs DEF Counts
<1>11. (LoginsKnow /\ SessionsOfTheDone /\ RevocationIsComplete)'
  BY <1>7, <1>10 DEF LoginsKnow, SessionsOfTheDone, RevocationIsComplete, Counts
<1>12. (DisabledExist /\ CreatedOnce)'
  BY <1>5, <1>8 DEF CustomersInv, DisabledExist, CreatedOnce
<1>13. UsedOnce'
  BY <1>1, <1>2 DEF CustomersInv, CustomersTypeOK, UsedOnce
<1> QED
  BY <1>9, <1>11, <1>12, <1>13 DEF CustomersInv

LEMMA ConfirmVerifySound ==
    ASSUME CustomersInv, NEW k \in Confirmations, ConfirmVerify(k)
    PROVE  CustomersInv'
<1>1. PICK t \in confirmation[k].token \cap VerifyTokens :
          /\ StillOpen(t)
          /\ oneTime' = [oneTime EXCEPT ![t] = "consumed"]
          /\ confirmed' = [confirmed EXCEPT ![t] = @ + 1]
  BY DEF ConfirmVerify
<1>2. t \in OneTimeTokens /\ confirmed[t] = 0
  BY <1>1 DEF OneTimeTokens, CustomersInv, CustomersTypeOK, UsedOnce, StillOpen
<1>3. PICK c \in CustomerRow : c = customer
  BY DEF CustomersInv, CustomersTypeOK
<1> DEFINE q == [c EXCEPT !.verified = TRUE]
<1>4. q \in CustomerRow /\ q.st = c.st /\ q.pw = c.pw
  BY <1>3 DEF CustomerRow
<1>5. customer' = q
  BY <1>3 DEF ConfirmVerify
<1> HIDE DEF q
<1>6. /\ confirmation' \in [Confirmations -> ConfirmationRow]
      /\ UNCHANGED <<creation, created, login, disabling, overtaken>>
  BY ConfirmationMoves DEF ConfirmVerify
<1>7. CustomersTypeOK'
  BY <1>1, <1>2, <1>4, <1>5, <1>6 DEF CustomersInv, CustomersTypeOK
<1>8. (LoginsKnow /\ SessionsOfTheDone /\ RevocationIsComplete /\ DisabledExist /\ CreatedOnce)'
  BY <1>3, <1>4, <1>5, <1>6, ProfileWriteSound
<1>9. UsedOnce'
  BY <1>1, <1>2 DEF CustomersInv, CustomersTypeOK, UsedOnce
<1> QED
  BY <1>7, <1>8, <1>9 DEF CustomersInv

LEMMA DisableUpdateSound ==
    ASSUME CustomersInv, NEW d \in Disables, DisableUpdate(d)
    PROVE  CustomersInv'
<1>1. PICK s \in {"updated", "refused"} : disabling' = [disabling EXCEPT ![d] = s]
  BY DEF DisableUpdate
<1>2. customer.st # "none" /\ UNCHANGED <<customer, creation, created, login, oneTime, confirmation, confirmed, overtaken>>
  BY DEF DisableUpdate
<1>3. CustomersTypeOK'
  BY <1>1, <1>2 DEF CustomersInv, CustomersTypeOK
<1>4. (LoginsKnow /\ SessionsOfTheDone /\ UsedOnce /\ CreatedOnce)'
  BY <1>2 DEF CustomersInv, LoginsKnow, SessionsOfTheDone, UsedOnce, CreatedOnce
<1>5. (RevocationIsComplete /\ DisabledExist)'
  BY <1>1, <1>2 DEF CustomersInv, CustomersTypeOK, RevocationIsComplete, DisabledExist
<1> QED
  BY <1>3, <1>4, <1>5 DEF CustomersInv

LEMMA DisableTokensSound ==
    ASSUME CustomersInv, NEW d \in Disables, DisableTokens(d)
    PROVE  CustomersInv'
<1>1. \A l \in CustomerLogins : login[l] \in LoginRow
  BY DEF CustomersInv, CustomersTypeOK
<1>2. /\ login' \in [CustomerLogins -> LoginRow]
      /\ \A l \in CustomerLogins : /\ login'[l].pc = login[l].pc /\ login'[l].sess = login[l].sess
                                   /\ login'[l].pw = login[l].pw
  BY <1>1, RevokedRow DEF DisableTokens
<1>3. /\ disabling[d] = "updated" /\ disabling' = [disabling EXCEPT ![d] = "tokens"]
      /\ UNCHANGED <<customer, creation, created, oneTime, confirmation, confirmed, overtaken>>
  BY DEF DisableTokens
<1>4. CustomersTypeOK'
  BY <1>2, <1>3 DEF CustomersInv, CustomersTypeOK
<1>5. (LoginsKnow /\ SessionsOfTheDone /\ UsedOnce /\ CreatedOnce)'
  BY <1>2, <1>3 DEF CustomersInv, LoginsKnow, SessionsOfTheDone, UsedOnce, CreatedOnce
<1>6. (RevocationIsComplete /\ DisabledExist)'
  BY <1>2, <1>3 DEF CustomersInv, CustomersTypeOK, RevocationIsComplete, DisabledExist
<1> QED
  BY <1>4, <1>5, <1>6 DEF CustomersInv

LEMMA DisableSessionsSound ==
    ASSUME CustomersInv, NEW d \in Disables, DisableSessions(d)
    PROVE  CustomersInv'
<1>1. \A l \in CustomerLogins : login[l] \in LoginRow
  BY DEF CustomersInv, CustomersTypeOK
<1>2. /\ login' \in [CustomerLogins -> LoginRow]
      /\ \A l \in CustomerLogins : login'[l].pc = login[l].pc /\ login'[l].sess # "live"
  BY <1>1, RevokedRow DEF DisableSessions, DisabledSession
<1>3. /\ disabling[d] = "tokens" /\ disabling' = [disabling EXCEPT ![d] = "sessions"]
      /\ overtaken' = UnderWay
      /\ UNCHANGED <<customer, creation, created, oneTime, confirmation, confirmed>>
  BY DEF DisableSessions
<1>4. CustomersTypeOK'
  <2>1. overtaken' \in [CustomerLogins -> BOOLEAN]
    BY <1>3, UnderWayIs
  <2> QED
    BY <1>2, <1>3, <2>1 DEF CustomersInv, CustomersTypeOK
<1>5. \A l \in CustomerLogins : Counts(login'[l]) => overtaken'[l]
  BY <1>2, <1>3, UnderWayIs DEF Counts
<1>6. (LoginsKnow /\ SessionsOfTheDone /\ RevocationIsComplete)'
  BY <1>2, <1>5 DEF LoginsKnow, SessionsOfTheDone, RevocationIsComplete, Counts
<1>7. (DisabledExist /\ UsedOnce /\ CreatedOnce)'
  BY <1>3 DEF CustomersInv, CustomersTypeOK, DisabledExist, UsedOnce, CreatedOnce
<1> QED
  BY <1>4, <1>6, <1>7 DEF CustomersInv

LEMMA DisableCommitSound ==
    ASSUME CustomersInv, NEW d \in Disables, DisableCommit(d)
    PROVE  CustomersInv'
<1>1. PICK c \in CustomerRow : c = customer
  BY DEF CustomersInv, CustomersTypeOK
<1> DEFINE q == [c EXCEPT !.st = "disabled"]
<1>2. q \in CustomerRow /\ q.st = "disabled"
  BY <1>1 DEF CustomerRow
<1>3. /\ disabling[d] = "sessions" /\ disabling' = [disabling EXCEPT ![d] = "done"] /\ customer' = q
      /\ UNCHANGED <<creation, created, login, oneTime, confirmation, confirmed, overtaken>>
  BY <1>1 DEF DisableCommit
<1> HIDE DEF q
<1>4. CustomersTypeOK'
  BY <1>2, <1>3 DEF CustomersInv, CustomersTypeOK
<1>5. \A l \in CustomerLogins : Counts(login[l]) => overtaken[l]
  BY <1>3 DEF CustomersInv, RevocationIsComplete, Counts
<1>6. (LoginsKnow /\ SessionsOfTheDone /\ RevocationIsComplete)'
  BY <1>3, <1>5 DEF CustomersInv, LoginsKnow, SessionsOfTheDone, RevocationIsComplete, Counts
<1>7. customer.st # "none"
  BY <1>3 DEF CustomersInv, DisabledExist
<1>8. (DisabledExist /\ UsedOnce /\ CreatedOnce)'
  BY <1>2, <1>3, <1>7 DEF CustomersInv, CustomersTypeOK, DisabledExist, UsedOnce, CreatedOnce
<1> QED
  BY <1>4, <1>6, <1>8 DEF CustomersInv

LEMMA CustomersStep ==
    ASSUME CustomersInv, CustomersNext
    PROVE  CustomersInv'
<1>1. CASE UpdateCustomer \/ \E c \in Creations : CreateCheck(c) \/ \E p \in {Absent, 1} : CreateInsert(c, p)
  BY <1>1, UpdateCustomerSound, CreateCheckSound, CreateInsertSound
<1>2. CASE \E l \in CustomerLogins : LoginRead(l) \/ LoginInsert(l) \/ LoginCommit(l)
  BY <1>2, LoginReadSound, LoginInsertSound, LoginCommitSound
<1>3. CASE \/ \E t \in ResetTokens : CreateReset(t)
           \/ \E t \in VerifyTokens : RequestVerify(t) \/ CreateVerify(t)
           \/ \E t \in OneTimeTokens : ExpireOneTime(t)
  BY <1>3, OneTimeSteps DEF OneTimeTokens
<1>4. CASE \/ \E t \in OneTimeTokens, k \in Confirmations : LockToken(k, t)
           \/ \E k \in Confirmations : LockCustomer(k) \/ ConfirmReset(k) \/ ConfirmVerify(k) \/ ConfirmFails(k)
  BY <1>4, ConfirmationSteps, ConfirmResetSound, ConfirmVerifySound
<1>5. CASE \E d \in Disables : DisableUpdate(d) \/ DisableTokens(d) \/ DisableSessions(d) \/ DisableCommit(d)
  BY <1>5, DisableUpdateSound, DisableTokensSound, DisableSessionsSound, DisableCommitSound
<1> QED
  BY <1>1, <1>2, <1>3, <1>4, <1>5 DEF CustomersNext

LEMMA CustomersStutter ==
    ASSUME CustomersInv, UNCHANGED customerVars
    PROVE  CustomersInv'
<1>1. CustomersTypeOK'
  BY DEF CustomersInv, CustomersTypeOK, customerVars
<1>2. (LoginsKnow /\ SessionsOfTheDone /\ RevocationIsComplete /\ DisabledExist /\ UsedOnce /\ CreatedOnce)'
  BY DEF CustomersInv, customerVars, LoginsKnow, SessionsOfTheDone, RevocationIsComplete, DisabledExist, UsedOnce,
         CreatedOnce
<1> QED
  BY <1>1, <1>2 DEF CustomersInv

LEMMA CustomersSound ==
    ASSUME CustomersInv
    PROVE  CustomersKept
<1>1. AccountsAreOne
  BY DEF CustomersInv, CustomersTypeOK, AccountsAreOne, UsedOnce, CreatedOnce
<1>2. SessionsFollowTheCustomer
  BY DEF CustomersInv, SessionsFollowTheCustomer, LoginsKnow
<1> QED
  BY <1>1, <1>2 DEF CustomersInv, CustomersKept

-----------------------------------------------------------------------------
(***************************************************************************)
(* The outbox, step by step.                                               *)
(***************************************************************************)

\* The state of a worker in a reachable state.
Batch(s) ==
    /\ s \in WorkerState /\ Len(s.jobs) <= BatchSize
    /\ s.pc = "idle" <=> s.jobs = <<>>
    /\ \A i, j \in DOMAIN s.jobs : i # j => s.jobs[i].event # s.jobs[j].event

\* Holds, Current and Tickets for the state of a worker.
Has(s, e) == \E i \in DOMAIN s.jobs : s.jobs[i].event = e

First(s) == Head(s.jobs).event

Ticket(s, e) == Has(s, e) /\ ~(s.pc = "sent" /\ First(s) = e)

One(P) == IF P THEN 1 ELSE 0

LEMMA BatchIs ==
    ASSUME OutboxInv, NEW w \in Workers
    PROVE  /\ Batch(worker[w])
           /\ \A e : Holds(w, e) <=> Has(worker[w], e)
           /\ Current(w) = First(worker[w])
  BY DEF OutboxInv, OutboxTypeOK, BatchesApart, Batch, Holds, Has, Current, First

LEMMA FirstIs ==
    ASSUME NEW s, Batch(s), s.pc # "idle"
    PROVE  First(s) \in Events /\ Has(s, First(s)) /\ Head(s.jobs) \in Job
<1>1. s.jobs \in Seq(Job) /\ s.jobs # <<>>
  BY DEF Batch, WorkerState
<1>2. PICK j \in Seq(Job) : j = s.jobs
  BY <1>1
<1>3. 1 \in DOMAIN j /\ Head(j) = j[1] /\ j[1] \in Job
  BY <1>1, <1>2
<1> QED
  BY <1>2, <1>3 DEF First, Has, Job

\* What is left when the first job is done.
Rest(s) == IF Len(s.jobs) = 1 THEN IdleWorker ELSE [pc |-> "sending", jobs |-> Tail(s.jobs)]

LEMMA IdleIs == Batch(IdleWorker) /\ \A e : ~Has(IdleWorker, e)
  BY OutboxAssumption DEF Batch, IdleWorker, WorkerState, Has

LEMMA RestIs ==
    ASSUME NEW s, Batch(s), s.pc # "idle"
    PROVE  /\ Batch(Rest(s)) /\ Rest(s).pc \in {"idle", "sending"}
           /\ \A e : Has(Rest(s), e) <=> Has(s, e) /\ e # First(s)
<1>1. s.jobs \in Seq(Job) /\ s.jobs # <<>>
  BY DEF Batch, WorkerState
<1>2. PICK j \in Seq(Job) : j = s.jobs
  BY <1>1
<1>3. Len(j) \in Nat /\ Len(j) >= 1 /\ DOMAIN j = 1 .. Len(j) /\ Head(j) = j[1]
  BY <1>1, <1>2
<1>4. \A x, y \in 1 .. Len(j) : x # y => j[x].event # j[y].event
  BY <1>2, <1>3 DEF Batch
<1>5. CASE Len(j) = 1
  <2>1. Rest(s) = IdleWorker
    BY <1>2, <1>5 DEF Rest
  <2>2. \A e : ~(Has(s, e) /\ e # First(s))
    BY <1>2, <1>3, <1>5 DEF Has, First
  <2> QED
    BY <2>1, <2>2, IdleIs DEF IdleWorker
<1>6. CASE Len(j) # 1
  <2>0. Tail(j) \in Seq(Job)
    BY <1>1, <1>2
  <2>1. PICK k \in Seq(Job) : k = Tail(j)
    BY <2>0
  <2>2. /\ Len(k) = Len(j) - 1 /\ DOMAIN k = 1 .. Len(j) - 1
        /\ \A x \in 1 .. Len(j) - 1 : k[x] = j[x + 1]
    BY <1>1, <1>2, <1>3, <2>1
  <2>3. Rest(s) = [pc |-> "sending", jobs |-> k]
    BY <1>2, <1>6, <2>1 DEF Rest
  <2>4. Rest(s) \in WorkerState /\ Rest(s).pc = "sending" /\ Rest(s).jobs = k
    BY <2>1, <2>3 DEF WorkerState
  <2>5. k # <<>>
    BY <1>3, <1>6, <2>2
  <2>6. Len(k) <= BatchSize
    BY <1>2, <1>3, <2>2, OutboxAssumption DEF Batch
  <2>7. \A x, y \in DOMAIN k : x # y => k[x].event # k[y].event
    BY <1>3, <1>4, <2>2
  <2>8. Batch(Rest(s))
    BY <2>4, <2>5, <2>6, <2>7 DEF Batch
  <2>9. ASSUME NEW e
        PROVE  Has(Rest(s), e) <=> Has(s, e) /\ e # First(s)
    <3>1. ASSUME Has(Rest(s), e)
          PROVE  Has(s, e) /\ e # First(s)
      <4>1. PICK x \in 1 .. Len(j) - 1 : k[x].event = e
        BY <2>2, <2>4, <3>1 DEF Has
      <4>2. x + 1 \in 1 .. Len(j) /\ x + 1 # 1 /\ 1 \in 1 .. Len(j) /\ j[x + 1].event = e
        BY <1>3, <2>2, <4>1
      <4>3. j[1].event # e
        BY <1>4, <4>2
      <4> QED
        BY <1>2, <1>3, <4>2, <4>3 DEF Has, First
    <3>2. ASSUME Has(s, e), e # First(s)
          PROVE  Has(Rest(s), e)
      <4>1. PICK x \in 1 .. Len(j) : j[x].event = e
        BY <1>2, <1>3, <3>2 DEF Has
      <4>2. x # 1
        BY <1>2, <1>3, <3>2, <4>1 DEF First
      <4>3. x - 1 \in 1 .. Len(j) - 1 /\ (x - 1) + 1 = x
        BY <1>3, <4>1, <4>2
      <4>4. k[x - 1].event = e
        BY <2>2, <4>1, <4>3
      <4> QED
        BY <2>2, <2>4, <4>3, <4>4 DEF Has
    <3> QED
      BY <3>1, <3>2
  <2> QED
    BY <2>4, <2>8, <2>9
<1> QED
  BY <1>5, <1>6

\* A worker at the same batch, in another place.
LEMMA GotoIs ==
    ASSUME OutboxInv, NEW w \in Workers, worker[w].pc # "idle", NEW p \in {"sent", "failing"}, Goto(w, p)
    PROVE  \E n : /\ worker' = [worker EXCEPT ![w] = n] /\ Batch(n) /\ n.pc = p
                  /\ First(n) = First(worker[w])
                  /\ \A e : Has(n, e) <=> Has(worker[w], e)
<1>1. PICK s \in WorkerState : s = worker[w]
  BY DEF OutboxInv, OutboxTypeOK
<1>2. Batch(s)
  BY <1>1, BatchIs
<1> DEFINE n == [s EXCEPT !.pc = p]
<1>3. n \in WorkerState /\ n.pc = p /\ n.jobs = s.jobs
  BY <1>1 DEF WorkerState
<1>4. worker' = [worker EXCEPT ![w] = n]
  BY <1>1 DEF Goto, OutboxInv, OutboxTypeOK
<1> HIDE DEF n
<1>5. Batch(n)
  BY <1>1, <1>2, <1>3 DEF Batch
<1>6. First(n) = First(s) /\ \A e : Has(n, e) <=> Has(s, e)
  BY <1>3 DEF First, Has
<1> QED
  BY <1>1, <1>3, <1>4, <1>5, <1>6

\* A step of one worker changes at most its own ticket.
LEMMA TicketsChange ==
    ASSUME OutboxInv, NEW w \in Workers, NEW n, worker' = [worker EXCEPT ![w] = n], NEW e
    PROVE  /\ IsFiniteSet(Tickets(e)) /\ Cardinality(Tickets(e)) \in Nat
           /\ Cardinality(Tickets(e)') + One(Ticket(worker[w], e)) = Cardinality(Tickets(e)) + One(Ticket(n, e))
<1>1. \A v \in Workers : v \in Tickets(e) <=> Ticket(worker[v], e)
  BY BatchIs DEF Tickets, Ticket
<1>2. \A v \in Workers : v \in Tickets(e)' <=> Ticket(worker'[v], e)
  BY DEF Tickets, Ticket, Holds, Has, Current, First
<1>3. worker'[w] = n /\ \A v \in Workers \ {w} : worker'[v] = worker[v]
  BY DEF OutboxInv, OutboxTypeOK
<1>4. Tickets(e) \in SUBSET BusyWorkers
  <2>1. \A v \in Workers : worker[v].pc = "idle" => ~Has(worker[v], e)
    BY BatchIs DEF Batch, Has
  <2> QED
    BY <1>1, <2>1 DEF Tickets, BusyWorkers, Ticket
<1>5. IsFiniteSet(Tickets(e)) /\ Cardinality(Tickets(e)) \in Nat
  BY <1>4, FS_Subset, FS_CardinalityType DEF OutboxInv
<1>6. Tickets(e) \subseteq Workers /\ Tickets(e)' \subseteq Workers
  BY DEF Tickets
<1>7. CASE Ticket(n, e)
  <2>1. Tickets(e)' = Tickets(e) \cup {w}
    BY <1>1, <1>2, <1>3, <1>6, <1>7
  <2>2. Cardinality(Tickets(e)') = IF w \in Tickets(e) THEN Cardinality(Tickets(e)) ELSE Cardinality(Tickets(e)) + 1
    BY <1>5, <2>1, FS_AddElement
  <2>3. One(Ticket(n, e)) = 1 /\ (One(Ticket(worker[w], e)) = IF w \in Tickets(e) THEN 1 ELSE 0)
    BY <1>1, <1>7 DEF One
  <2> QED
    BY <1>5, <2>2, <2>3
<1>8. CASE ~Ticket(n, e)
  <2>1. Tickets(e)' = Tickets(e) \ {w}
    BY <1>1, <1>2, <1>3, <1>6, <1>8
  <2>2. Cardinality(Tickets(e)') = IF w \in Tickets(e) THEN Cardinality(Tickets(e)) - 1 ELSE Cardinality(Tickets(e))
    BY <1>5, <2>1, FS_RemoveElement
  <2>3. One(Ticket(n, e)) = 0 /\ (One(Ticket(worker[w], e)) = IF w \in Tickets(e) THEN 1 ELSE 0)
    BY <1>1, <1>8 DEF One
  <2> QED
    BY <1>5, <2>2, <2>3
<1> QED
  BY <1>5, <1>7, <1>8

\* Rows are inserted one by one.
LEMMA RowsFinite ==
    ASSUME OutboxInv, NEW e, \A x \in Events \ {e} : event'[x] = event[x]
    PROVE  IsFiniteSet(Rows')
<1>1. Rows' \in SUBSET (Rows \cup {e})
  BY DEF Rows
<1>2. IsFiniteSet(Rows \cup {e})
  BY FS_AddElement DEF OutboxInv
<1> QED
  BY <1>1, <1>2, FS_Subset

\* What a step of one worker has to show.
LEMMA WorkerSound ==
    ASSUME OutboxInv, NEW w \in Workers, NEW n, worker' = [worker EXCEPT ![w] = n], Batch(n),
           event' \in [Events -> EventRow], sent' \in [Events -> Nat], causes' \in [Events -> Nat],
           faults' \in Nat, retries' \in Nat,
           IsFiniteSet(Rows'),
           \A e \in Events : sent[e] <= sent'[e],
           n.pc = "sent" => sent'[First(n)] > 0,
           \A e \in Events : event'[e].status = "processed" => event[e].status = "processed" \/ sent[e] > 0,
           \A e \in Events :
               sent'[e] + One(Ticket(n, e)) + One(Open(e)') + causes[e]
                 <= sent[e] + One(Ticket(worker[w], e)) + One(Open(e)) + causes'[e]
    PROVE  OutboxInv'
<1>1. worker'[w] = n /\ \A v \in Workers \ {w} : worker'[v] = worker[v]
  BY DEF OutboxInv, OutboxTypeOK
<1>2. \A v \in Workers : Batch(worker'[v])
  BY <1>1, BatchIs
<1>3. OutboxTypeOK' /\ BatchesApart'
  <2>1. worker' \in [Workers -> WorkerState]
    BY DEF Batch, OutboxInv, OutboxTypeOK
  <2>2. \A v \in Workers : /\ Len(worker'[v].jobs) <= BatchSize
                           /\ worker'[v].pc = "idle" <=> worker'[v].jobs = <<>>
    BY <1>2 DEF Batch
  <2>3. BatchesApart'
    BY <1>2 DEF Batch, BatchesApart
  <2> QED
    BY <2>1, <2>2, <2>3 DEF OutboxTypeOK
<1>4. IsFiniteSet(BusyWorkers)'
  <2>1. BusyWorkers' \in SUBSET (BusyWorkers \cup {w})
    BY <1>1 DEF BusyWorkers
  <2>2. IsFiniteSet(BusyWorkers \cup {w})
    BY FS_AddElement DEF OutboxInv
  <2> QED
    BY <2>1, <2>2, FS_Subset
<1>5. IsFiniteSet(Rows)'
  OBVIOUS
<1>6. Accounted'
  <2> SUFFICES ASSUME NEW e \in Events
               PROVE  sent'[e] + Cardinality(Tickets(e)') + One(Open(e)') <= 1 + causes'[e]
    BY DEF Accounted, One
  <2>1. sent[e] + Cardinality(Tickets(e)) + One(Open(e)) <= 1 + causes[e]
    BY DEF OutboxInv, Accounted, One
  <2>2. /\ IsFiniteSet(Tickets(e)) /\ Cardinality(Tickets(e)) \in Nat
        /\ Cardinality(Tickets(e)') + One(Ticket(worker[w], e)) = Cardinality(Tickets(e)) + One(Ticket(n, e))
    BY TicketsChange
  <2>3. Cardinality(Tickets(e)') \in Nat
    <3>1. Tickets(e)' \in SUBSET BusyWorkers'
      <4>1. \A v \in Workers : worker'[v].pc = "idle" => worker'[v].jobs = <<>>
        BY <1>2 DEF Batch
      <4> QED
        BY <4>1 DEF Tickets, BusyWorkers, Holds
    <3> QED
      BY <1>4, <3>1, FS_Subset, FS_CardinalityType
  <2>4. /\ One(Ticket(worker[w], e)) \in Nat /\ One(Ticket(n, e)) \in Nat
        /\ One(Open(e)) \in Nat /\ One(Open(e)') \in Nat
    BY DEF One
  <2>5. sent[e] \in Nat /\ sent'[e] \in Nat /\ causes[e] \in Nat /\ causes'[e] \in Nat
    BY DEF OutboxInv, OutboxTypeOK
  <2>6. sent'[e] + One(Ticket(n, e)) + One(Open(e)') + causes[e]
          <= sent[e] + One(Ticket(worker[w], e)) + One(Open(e)) + causes'[e]
    OBVIOUS
  <2> QED
    BY <2>1, <2>2, <2>3, <2>4, <2>5, <2>6
<1>7. \A e \in Events : sent[e] \in Nat /\ sent'[e] \in Nat
  BY DEF OutboxInv, OutboxTypeOK
<1>8. SentIsSent'
  <2> SUFFICES ASSUME NEW v \in Workers, worker'[v].pc = "sent"
               PROVE  sent'[First(worker'[v])] > 0
    BY DEF SentIsSent, Current, First
  <2>1. CASE v = w
    BY <1>1, <2>1
  <2>2. CASE v # w
    <3>1. worker[v].pc = "sent" /\ worker'[v] = worker[v]
      BY <1>1, <2>2
    <3>2. First(worker[v]) \in Events /\ sent[First(worker[v])] > 0
      BY <3>1, BatchIs, FirstIs DEF OutboxInv, SentIsSent
    <3> QED
      BY <1>7, <3>1, <3>2
  <2> QED
    BY <2>1, <2>2
<1>9. ProcessedWasSent'
  BY <1>7 DEF OutboxInv, ProcessedWasSent
<1> QED
  BY <1>3, <1>4, <1>5, <1>6, <1>8, <1>9 DEF OutboxInv

\* Whether a row is open depends on the row and on who holds it.
LEMMA OpenSame ==
    ASSUME OutboxInv, NEW w \in Workers, NEW n, worker' = [worker EXCEPT ![w] = n],
           NEW e \in Events, event'[e] = event[e], Has(n, e) <=> Has(worker[w], e)
    PROVE  Open(e)' <=> Open(e)
<1>1. worker'[w] = n /\ \A v \in Workers \ {w} : worker'[v] = worker[v]
  BY DEF OutboxInv, OutboxTypeOK
<1>2. \A v \in Workers : Holds(v, e)' <=> Has(worker'[v], e)
  BY DEF Holds, Has
<1>3. \A v \in Workers : Holds(v, e)' <=> Holds(v, e)
  BY <1>1, <1>2, BatchIs
<1> QED
  BY <1>3 DEF Open

LEMMA EventOf ==
    ASSUME OutboxInv, NEW w \in Workers, worker[w].pc # "idle"
    PROVE  /\ Current(w) \in Events /\ First(worker[w]) = Current(w) /\ Has(worker[w], Current(w))
           /\ Batch(worker[w])
  BY BatchIs, FirstIs

LEMMA SendOkSound ==
    ASSUME OutboxInv, NEW w \in Workers, SendOk(w)
    PROVE  OutboxInv'
<1>1. PICK s : s = worker[w]
  OBVIOUS
<1>2. PICK e \in Events : e = Current(w)
  BY EventOf DEF SendOk
<1>3. First(s) = e /\ Has(s, e) /\ Batch(s) /\ s.pc = "sending"
  BY <1>1, <1>2, EventOf DEF SendOk
<1>4. PICK n : /\ worker' = [worker EXCEPT ![w] = n] /\ Batch(n) /\ n.pc = "sent"
               /\ First(n) = First(s) /\ \A x : Has(n, x) <=> Has(s, x)
  BY <1>1, GotoIs DEF SendOk
<1>5. sent' = [sent EXCEPT ![e] = @ + 1] /\ UNCHANGED <<event, causes, faults, retries>>
  BY <1>2 DEF SendOk
<1>6. /\ event \in [Events -> EventRow] /\ sent \in [Events -> Nat] /\ causes \in [Events -> Nat]
      /\ faults \in Nat /\ retries \in Nat
  BY DEF OutboxInv, OutboxTypeOK
<1>7. \A x \in Events : sent'[x] = sent[x] + One(x = e)
  BY <1>5, <1>6 DEF One
<1>8. \A x \in Events : Open(x)' <=> Open(x)
  BY <1>1, <1>4, <1>5, OpenSame
<1>9. \A x \in Events : One(Ticket(n, x)) + One(x = e) = One(Ticket(s, x))
  BY <1>3, <1>4 DEF Ticket, One
<1>10. ASSUME NEW x \in Events
       PROVE  sent'[x] + One(Ticket(n, x)) + One(Open(x)') + causes[x]
                <= sent[x] + One(Ticket(worker[w], x)) + One(Open(x)) + causes'[x]
  <2>1. One(Open(x)') = One(Open(x)) /\ One(Open(x)) \in Nat /\ One(Ticket(n, x)) \in Nat /\ One(x = e) \in Nat
    BY <1>8 DEF One
  <2> QED
    BY <1>1, <1>5, <1>6, <1>7, <1>9, <2>1
<1>11. sent' \in [Events -> Nat] /\ \A x \in Events : sent[x] <= sent'[x]
  BY <1>5, <1>6
<1>12. sent'[First(n)] > 0
  BY <1>3, <1>4, <1>5, <1>6
<1>13. IsFiniteSet(Rows')
  BY <1>5, RowsFinite
<1> QED
  BY <1>1, <1>4, <1>5, <1>6, <1>10, <1>11, <1>12, <1>13, WorkerSound

LEMMA Excused ==
    ASSUME OutboxInv, NEW E, Excuse(E)
    PROVE  causes' \in [Events -> Nat] /\ \A x \in Events : causes'[x] = causes[x] + One(x \in E)
  BY DEF Excuse, OutboxInv, OutboxTypeOK, One

LEMMA Faulty ==
    ASSUME OutboxInv, Fault
    PROVE  faults' \in Nat
  BY DEF Fault, OutboxInv, OutboxTypeOK

LEMMA SendFailsSound ==
    ASSUME OutboxInv, NEW w \in Workers, SendFails(w)
    PROVE  OutboxInv'
<1>1. PICK s : s = worker[w]
  OBVIOUS
<1>2. PICK e \in Events : e = Current(w)
  BY EventOf DEF SendFails
<1>3. First(s) = e /\ Has(s, e) /\ Batch(s) /\ s.pc = "sending"
  BY <1>1, <1>2, EventOf DEF SendFails
<1>4. PICK n : /\ worker' = [worker EXCEPT ![w] = n] /\ Batch(n) /\ n.pc = "failing"
               /\ First(n) = First(s) /\ \A x : Has(n, x) <=> Has(s, x)
  BY <1>1, GotoIs DEF SendFails
<1>5. /\ UNCHANGED <<event, retries>>
      /\ \/ UNCHANGED <<sent, causes>>
         \/ sent' = [sent EXCEPT ![e] = @ + 1] /\ Excuse({e})
  BY <1>2 DEF SendFails
<1>6. /\ event \in [Events -> EventRow] /\ sent \in [Events -> Nat] /\ causes \in [Events -> Nat]
      /\ faults' \in Nat /\ retries \in Nat
  BY Faulty DEF OutboxInv, OutboxTypeOK, SendFails
<1>7. /\ sent' \in [Events -> Nat] /\ causes' \in [Events -> Nat]
      /\ \A x \in Events : sent[x] <= sent'[x] /\ sent'[x] - sent[x] <= causes'[x] - causes[x]
  <2>1. CASE UNCHANGED <<sent, causes>>
    BY <1>6, <2>1
  <2>2. CASE sent' = [sent EXCEPT ![e] = @ + 1] /\ Excuse({e})
    <3>1. causes' \in [Events -> Nat] /\ \A x \in Events : causes'[x] = causes[x] + One(x \in {e})
      BY <2>2, Excused
    <3>2. sent' \in [Events -> Nat] /\ \A x \in Events : sent'[x] = sent[x] + One(x \in {e})
      BY <1>6, <2>2 DEF One
    <3>3. \A x \in Events : One(x \in {e}) \in Nat
      BY DEF One
    <3> QED
      BY <1>6, <3>1, <3>2, <3>3
  <2> QED
    BY <1>5, <2>1, <2>2
<1>8. \A x \in Events : Open(x)' <=> Open(x)
  BY <1>1, <1>4, <1>5, OpenSame
<1>9. \A x \in Events : Ticket(n, x) <=> Ticket(s, x)
  BY <1>3, <1>4 DEF Ticket
<1>10. ASSUME NEW x \in Events
       PROVE  sent'[x] + One(Ticket(n, x)) + One(Open(x)') + causes[x]
                <= sent[x] + One(Ticket(worker[w], x)) + One(Open(x)) + causes'[x]
  <2>1. /\ One(Open(x)') = One(Open(x)) /\ One(Open(x)) \in Nat
        /\ One(Ticket(n, x)) = One(Ticket(worker[w], x)) /\ One(Ticket(n, x)) \in Nat
    BY <1>1, <1>8, <1>9 DEF One
  <2>2. sent[x] \in Nat /\ sent'[x] \in Nat /\ causes[x] \in Nat /\ causes'[x] \in Nat
    BY <1>6, <1>7
  <2> QED
    BY <1>7, <2>1, <2>2
<1>11. IsFiniteSet(Rows')
  BY <1>5, RowsFinite
<1> QED
  BY <1>1, <1>4, <1>5, <1>6, <1>7, <1>10, <1>11, WorkerSound

LEMMA MarkProcessedFailsSound ==
    ASSUME OutboxInv, NEW w \in Workers, MarkProcessedFails(w)
    PROVE  OutboxInv'
<1>1. PICK s : s = worker[w]
  OBVIOUS
<1>2. PICK e \in Events : e = Current(w)
  BY EventOf DEF MarkProcessedFails
<1>3. First(s) = e /\ Has(s, e) /\ Batch(s) /\ s.pc = "sent"
  BY <1>1, <1>2, EventOf DEF MarkProcessedFails
<1>4. PICK n : /\ worker' = [worker EXCEPT ![w] = n] /\ Batch(n) /\ n.pc = "failing"
               /\ First(n) = First(s) /\ \A x : Has(n, x) <=> Has(s, x)
  BY <1>1, GotoIs DEF MarkProcessedFails
<1>5. UNCHANGED <<event, sent, retries>> /\ Excuse({e})
  BY <1>2 DEF MarkProcessedFails
<1>6. /\ event \in [Events -> EventRow] /\ sent \in [Events -> Nat] /\ causes \in [Events -> Nat]
      /\ faults' \in Nat /\ retries \in Nat
  BY Faulty DEF OutboxInv, OutboxTypeOK, MarkProcessedFails
<1>7. causes' \in [Events -> Nat] /\ \A x \in Events : causes'[x] = causes[x] + One(x \in {e})
  BY <1>5, Excused
<1>8. \A x \in Events : Open(x)' <=> Open(x)
  BY <1>1, <1>4, <1>5, OpenSame
<1>9. \A x \in Events : One(Ticket(n, x)) = One(Ticket(s, x)) + One(x \in {e})
  BY <1>3, <1>4 DEF Ticket, One
<1>10. ASSUME NEW x \in Events
       PROVE  sent'[x] + One(Ticket(n, x)) + One(Open(x)') + causes[x]
                <= sent[x] + One(Ticket(worker[w], x)) + One(Open(x)) + causes'[x]
  <2>1. /\ One(Open(x)') = One(Open(x)) /\ One(Open(x)) \in Nat
        /\ One(Ticket(worker[w], x)) \in Nat /\ One(x \in {e}) \in Nat
    BY <1>1, <1>8 DEF One
  <2> QED
    BY <1>1, <1>5, <1>6, <1>7, <1>9, <2>1
<1>11. \A x \in Events : sent[x] <= sent'[x]
  BY <1>5, <1>6
<1>12. IsFiniteSet(Rows')
  BY <1>5, RowsFinite
<1> QED
  BY <1>1, <1>4, <1>5, <1>6, <1>7, <1>10, <1>11, <1>12, WorkerSound

\* A worker is done with its first job: its ticket, if it still has one, is returned,
\* and everything else is as it was.
LEMMA JobDone ==
    ASSUME OutboxInv, NEW w \in Workers, NEW e \in Events, e = Current(w),
           worker[w].pc \in {"sent", "failing"}, NextJob(w), faults' \in Nat,
           event' \in [Events -> EventRow], \A x \in Events \ {e} : event'[x] = event[x],
           event'[e].status = "processed" => event[e].status = "processed" \/ sent[e] > 0,
           worker[w].pc = "sent" => event'[e].status = "processed",
           UNCHANGED <<sent, causes, retries>>
    PROVE  OutboxInv'
<1>1. PICK s : s = worker[w]
  OBVIOUS
<1>2. First(s) = e /\ Has(s, e) /\ Batch(s) /\ s.pc \in {"sent", "failing"}
  BY <1>1, EventOf
<1>3. PICK n : n = Rest(s)
  OBVIOUS
<1>4. Batch(n) /\ n.pc \in {"idle", "sending"} /\ \A x : Has(n, x) <=> Has(s, x) /\ x # e
  BY <1>2, <1>3, RestIs
<1>5. worker' = [worker EXCEPT ![w] = n]
  BY <1>1, <1>3 DEF NextJob, Rest
<1>6. /\ event \in [Events -> EventRow] /\ sent \in [Events -> Nat] /\ causes \in [Events -> Nat]
      /\ retries \in Nat
  BY DEF OutboxInv, OutboxTypeOK
<1>7. ASSUME NEW x \in Events
      PROVE  sent'[x] + One(Ticket(n, x)) + One(Open(x)') + causes[x]
               <= sent[x] + One(Ticket(worker[w], x)) + One(Open(x)) + causes'[x]
  <2>1. CASE x # e
    <3>1. Open(x)' <=> Open(x)
      BY <1>1, <1>4, <1>5, <2>1, OpenSame
    <3>2. Ticket(n, x) <=> Ticket(s, x)
      BY <1>2, <1>4, <2>1 DEF Ticket
    <3>3. /\ One(Open(x)') = One(Open(x)) /\ One(Open(x)) \in Nat
          /\ One(Ticket(n, x)) = One(Ticket(worker[w], x)) /\ One(Ticket(n, x)) \in Nat
      BY <1>1, <3>1, <3>2 DEF One
    <3> QED
      BY <1>6, <3>3
  <2>2. CASE x = e
    <3>1. One(Ticket(n, x)) = 0
      BY <1>4, <2>2 DEF Ticket, One
    <3>2. One(Open(x)') <= One(Ticket(worker[w], x))
      <4>1. CASE s.pc = "sent"
        <5>1. ~Open(x)'
          BY <1>1, <2>2, <4>1 DEF Open
        <5> QED
          BY <5>1 DEF One
      <4>2. CASE s.pc = "failing"
        <5>1. Ticket(s, x)
          BY <1>2, <2>2, <4>2 DEF Ticket
        <5> QED
          BY <1>1, <5>1 DEF One
      <4> QED
        BY <1>2, <4>1, <4>2
    <3>3. One(Open(x)) \in Nat /\ One(Open(x)') \in Nat /\ One(Ticket(worker[w], x)) \in Nat
      BY DEF One
    <3> QED
      BY <1>6, <3>1, <3>2, <3>3
  <2> QED
    BY <2>1, <2>2
<1>8. IsFiniteSet(Rows')
  BY RowsFinite
<1>9. \A x \in Events : event'[x].status = "processed" => event[x].status = "processed" \/ sent[x] > 0
  OBVIOUS
<1>10. /\ sent' \in [Events -> Nat] /\ causes' \in [Events -> Nat] /\ retries' \in Nat
       /\ \A x \in Events : sent[x] <= sent'[x]
  BY <1>6
<1> QED
  BY <1>1, <1>4, <1>5, <1>7, <1>8, <1>9, <1>10, WorkerSound

LEMMA MarkJobProcessedSound ==
    ASSUME OutboxInv, NEW w \in Workers, MarkJobProcessed(w)
    PROVE  OutboxInv'
<1>1. PICK e \in Events : e = Current(w)
  BY EventOf DEF MarkJobProcessed
<1>2. PICK r \in EventRow : r = event[e]
  BY DEF OutboxInv, OutboxTypeOK
<1> DEFINE q == [r EXCEPT !.status = "processed"]
<1>3. q \in EventRow /\ q.status = "processed"
  BY <1>2 DEF EventRow
<1>4. event' = [event EXCEPT ![e] = q]
  BY <1>1, <1>2 DEF MarkJobProcessed, OutboxInv, OutboxTypeOK
<1> HIDE DEF q
<1>5. event' \in [Events -> EventRow] /\ event'[e] = q /\ \A x \in Events \ {e} : event'[x] = event[x]
  BY <1>3, <1>4 DEF OutboxInv, OutboxTypeOK
<1>6. worker[w].pc = "sent" /\ NextJob(w) /\ UNCHANGED <<sent, causes, retries, faults>>
  BY DEF MarkJobProcessed
<1>7. sent[e] > 0 /\ faults' \in Nat
  BY <1>1, <1>6 DEF OutboxInv, OutboxTypeOK, SentIsSent
<1> QED
  BY <1>1, <1>3, <1>5, <1>6, <1>7, JobDone

LEMMA MarkJobFailedSound ==
    ASSUME OutboxInv, NEW w \in Workers, MarkJobFailed(w)
    PROVE  OutboxInv'
<1>1. PICK e \in Events : e = Current(w)
  BY EventOf DEF MarkJobFailed
<1>2. PICK r \in EventRow : r = event[e]
  BY DEF OutboxInv, OutboxTypeOK
<1> DEFINE f == [r EXCEPT !.status = "failed"]
           p == [r EXCEPT !.status = "pending", !.due = FALSE]
<1>3. f \in EventRow /\ f.status = "failed" /\ p \in EventRow /\ p.status = "pending"
  BY <1>2 DEF EventRow
<1>4. event' = [event EXCEPT ![e] = f] \/ event' = [event EXCEPT ![e] = p]
  BY <1>1, <1>2 DEF MarkJobFailed, OutboxInv, OutboxTypeOK
<1> HIDE DEF f, p
<1>5. PICK q \in {f, p} : event' = [event EXCEPT ![e] = q]
  BY <1>4
<1>6. event' \in [Events -> EventRow] /\ event'[e] = q /\ \A x \in Events \ {e} : event'[x] = event[x]
  BY <1>3, <1>5 DEF OutboxInv, OutboxTypeOK
<1>7. worker[w].pc = "failing" /\ NextJob(w) /\ UNCHANGED <<sent, causes, retries, faults>>
  BY DEF MarkJobFailed
<1>8. faults' \in Nat
  BY <1>7 DEF OutboxInv, OutboxTypeOK
<1> QED
  BY <1>1, <1>3, <1>6, <1>7, <1>8, JobDone

LEMMA MarkFailedFailsSound ==
    ASSUME OutboxInv, NEW w \in Workers, MarkFailedFails(w)
    PROVE  OutboxInv'
<1>1. PICK e \in Events : e = Current(w)
  BY EventOf DEF MarkFailedFails
<1>2. worker[w].pc = "failing" /\ NextJob(w) /\ UNCHANGED <<event, sent, causes, retries>>
  BY DEF MarkFailedFails
<1>3. faults' \in Nat /\ event' \in [Events -> EventRow]
  BY <1>2, Faulty DEF OutboxInv, OutboxTypeOK, MarkFailedFails
<1> QED
  BY <1>1, <1>2, <1>3, JobDone

LEMMA CrashSound ==
    ASSUME OutboxInv, NEW w \in Workers, Crash(w)
    PROVE  OutboxInv'
<1>1. PICK s : s = worker[w]
  OBVIOUS
<1>2. PICK e \in Events : e = Current(w)
  BY EventOf DEF Crash
<1>3. First(s) = e /\ Has(s, e) /\ Batch(s) /\ s.pc # "idle"
  BY <1>1, <1>2, EventOf DEF Crash
<1>4. PICK E : E = IF s.pc = "sent" THEN {e} ELSE {}
  OBVIOUS
<1>5. worker' = [worker EXCEPT ![w] = IdleWorker] /\ UNCHANGED <<event, sent, retries>> /\ Excuse(E)
  BY <1>1, <1>2, <1>4 DEF Crash
<1>6. /\ event \in [Events -> EventRow] /\ sent \in [Events -> Nat] /\ causes \in [Events -> Nat]
      /\ faults' \in Nat /\ retries \in Nat
  BY Faulty DEF OutboxInv, OutboxTypeOK, Crash
<1>7. causes' \in [Events -> Nat] /\ \A x \in Events : causes'[x] = causes[x] + One(x \in E)
  BY <1>5, Excused
<1>8. ASSUME NEW x \in Events
      PROVE  sent'[x] + One(Ticket(IdleWorker, x)) + One(Open(x)') + causes[x]
               <= sent[x] + One(Ticket(worker[w], x)) + One(Open(x)) + causes'[x]
  <2>1. One(Ticket(IdleWorker, x)) = 0
    BY IdleIs DEF Ticket, One
  <2>2. /\ One(Open(x)) \in Nat /\ One(Open(x)') \in Nat /\ One(Open(x)') <= 1
        /\ One(Ticket(worker[w], x)) \in Nat /\ One(x \in E) \in Nat
    BY DEF One
  <2>3. CASE Has(s, x)
    <3>1. Ticket(s, x) \/ x \in E
      BY <1>3, <1>4, <2>3 DEF Ticket
    <3>2. One(Ticket(worker[w], x)) + One(x \in E) >= 1
      BY <1>1, <2>2, <3>1 DEF One
    <3> QED
      BY <1>5, <1>6, <1>7, <2>1, <2>2, <3>2
  <2>4. CASE ~Has(s, x)
    <3>1. Open(x)' <=> Open(x)
      BY <1>1, <1>5, <2>4, IdleIs, OpenSame
    <3>2. One(Open(x)') = One(Open(x))
      BY <3>1 DEF One
    <3> QED
      BY <1>5, <1>6, <1>7, <2>1, <2>2, <3>2
  <2> QED
    BY <2>3, <2>4
<1>9. IsFiniteSet(Rows') /\ IdleWorker.pc # "sent"
  BY <1>5, RowsFinite DEF IdleWorker
<1>10. \A x \in Events : sent[x] <= sent'[x]
  BY <1>5, <1>6
<1> QED
  BY <1>5, <1>6, <1>7, <1>8, <1>9, <1>10, IdleIs, WorkerSound

\* What is claimed: each event once, and none but those of E.
LEMMA ClaimedBatch ==
    ASSUME NEW E \in SUBSET Events, IsFiniteSet(E), E # {}, Cardinality(E) <= BatchSize,
           NEW order \in SetToSeqs(E), NEW a \in [Events -> 0 .. MaxAttempts]
    PROVE  LET n == [pc |-> "sending", jobs |-> [i \in DOMAIN order |-> [event |-> order[i], attempts |-> a[order[i]]]]]
           IN  Batch(n) /\ n.pc = "sending" /\ \A x : Has(n, x) <=> x \in E
<1>1. PICK k \in Nat : k = Cardinality(E)
  BY FS_CardinalityType
<1>2. k # 0 /\ k <= BatchSize
  BY <1>1, FS_EmptySet
<1>3. order \in [1 .. k -> E] /\ \A i, j \in 1 .. k : i # j => order[i] # order[j]
  BY <1>1 DEF SetToSeqs
<1>4. order \in Injection(1 .. k, E)
  BY <1>3 DEF Injection, IsInjective
<1>5. Cardinality(1 .. k) = Cardinality(E)
  BY <1>1, FS_Interval
<1>6. order \in Surjection(1 .. k, E)
  BY <1>4, <1>5, FS_Injection
<1>7. \A x \in E : \E i \in 1 .. k : order[i] = x
  BY <1>6 DEF Surjection
<1> DEFINE j == [i \in 1 .. k |-> [event |-> order[i], attempts |-> a[order[i]]]]
           n == [pc |-> "sending", jobs |-> j]
<1>8. \A i \in 1 .. k : [event |-> order[i], attempts |-> a[order[i]]] \in Job
  BY <1>3 DEF Job
<1>9. j \in Seq(Job) /\ Len(j) = k /\ DOMAIN j = 1 .. k /\ \A i \in 1 .. k : j[i].event = order[i]
  BY <1>8
<1> HIDE DEF j
<1>10. j # <<>>
  BY <1>2, <1>9
<1>11. n \in WorkerState /\ n.pc = "sending" /\ n.jobs = j
  BY <1>9 DEF WorkerState
<1>12. Batch(n)
  BY <1>2, <1>3, <1>9, <1>10, <1>11 DEF Batch
<1>13. \A x : Has(n, x) <=> x \in E
  BY <1>3, <1>7, <1>9, <1>11 DEF Has
<1>14. DOMAIN order = 1 .. k
  BY <1>3
<1> QED
  BY <1>11, <1>12, <1>13, <1>14 DEF j

LEMMA ClaimSound ==
    ASSUME OutboxInv, NEW w \in Workers, ClaimPendingEmailJobs(w)
    PROVE  OutboxInv'
<1>1. PICK E \in SUBSET {e \in Events : Claimable(e)} :
          /\ E /= {} /\ Cardinality(E) <= BatchSize
          /\ event' = [e \in Events |-> IF e \in E THEN ClaimedRow(event[e]) ELSE event[e]]
          /\ \E order \in SetToSeqs(E) :
               worker' = [worker EXCEPT ![w] =
                 [pc |-> "sending",
                  jobs |-> [i \in DOMAIN order |->
                              [event |-> order[i],
                               attempts |-> ClaimedRow(event[order[i]]).attempts]]]]
  BY DEF ClaimPendingEmailJobs
<1>2. PICK order \in SetToSeqs(E) :
          worker' = [worker EXCEPT ![w] =
            [pc |-> "sending",
             jobs |-> [i \in DOMAIN order |->
                         [event |-> order[i],
                          attempts |-> ClaimedRow(event[order[i]]).attempts]]]]
  BY <1>1
<1>3. worker[w].pc = "idle" /\ UNCHANGED <<sent, causes, faults, retries>>
  BY DEF ClaimPendingEmailJobs
<1>4. /\ event \in [Events -> EventRow] /\ sent \in [Events -> Nat] /\ causes \in [Events -> Nat]
      /\ faults \in Nat /\ retries \in Nat
  BY DEF OutboxInv, OutboxTypeOK
<1>5. E \in SUBSET Events /\ IsFiniteSet(E)
  <2>1. E \in SUBSET Rows
    BY <1>1 DEF Rows, Claimable
  <2> QED
    BY <2>1, FS_Subset DEF OutboxInv, Rows
<1>6. \A r \in EventRow : /\ ClaimedRow(r) \in EventRow /\ ClaimedRow(r).status = "processing"
                          /\ ClaimedRow(r).due = FALSE /\ ClaimedRow(r).attempts \in 0 .. MaxAttempts
  BY OutboxAssumption DEF ClaimedRow, EventRow
<1> DEFINE a == [e \in Events |-> ClaimedRow(event[e]).attempts]
           n == [pc |-> "sending", jobs |-> [i \in DOMAIN order |-> [event |-> order[i], attempts |-> a[order[i]]]]]
<1>7. a \in [Events -> 0 .. MaxAttempts]
  BY <1>4, <1>6
<1>8. Batch(n) /\ n.pc = "sending" /\ \A x : Has(n, x) <=> x \in E
  <2>1. E \in SUBSET Events /\ IsFiniteSet(E) /\ E # {} /\ Cardinality(E) <= BatchSize
    BY <1>1, <1>5
  <2>2. order \in SetToSeqs(E)
    BY <1>2
  <2>3. a \in [Events -> 0 .. MaxAttempts]
    BY <1>7
  <2> HIDE DEF a
  <2> QED
    BY <2>1, <2>2, <2>3, ClaimedBatch
<1>9. worker' = [worker EXCEPT ![w] = n]
  <2>1. \A i \in DOMAIN order : order[i] \in Events
    BY <1>5 DEF SetToSeqs
  <2>2. \A i \in DOMAIN order : a[order[i]] = ClaimedRow(event[order[i]]).attempts
    BY <2>1
  <2> QED
    BY <1>2, <2>2
<1> HIDE DEF n, a
<1>10. event' \in [Events -> EventRow] /\ \A x \in Events : event'[x] = IF x \in E THEN ClaimedRow(event[x]) ELSE event[x]
  BY <1>1, <1>4, <1>6
<1>11. \A x : ~Has(worker[w], x)
  BY <1>3, BatchIs DEF Batch, Has
<1>12. ASSUME NEW x \in Events
       PROVE  sent'[x] + One(Ticket(n, x)) + One(Open(x)') + causes[x]
                <= sent[x] + One(Ticket(worker[w], x)) + One(Open(x)) + causes'[x]
  <2>1. CASE x \in E
    <3>1. Open(x)
      BY <1>1, <2>1 DEF Open, Claimable
    <3>2. ~Open(x)'
      <4>1. event'[x].status = "processing" /\ event'[x].due = FALSE
        BY <1>4, <1>6, <1>10, <2>1
      <4>2. Holds(w, x)'
        <5>1. worker'[w] = n
          BY <1>9 DEF OutboxInv, OutboxTypeOK
        <5> QED
          BY <1>8, <2>1, <5>1 DEF Holds, Has
      <4> QED
        BY <4>1, <4>2 DEF Open
    <3>3. One(Open(x)) = 1 /\ One(Open(x)') = 0 /\ One(Ticket(n, x)) \in 0 .. 1 /\ One(Ticket(worker[w], x)) \in Nat
      BY <3>1, <3>2 DEF One
    <3> QED
      BY <1>3, <1>4, <3>3
  <2>2. CASE x \notin E
    <3>1. Open(x)' <=> Open(x)
      BY <1>8, <1>9, <1>10, <1>11, <2>2, OpenSame
    <3>2. One(Open(x)') = One(Open(x)) /\ One(Open(x)) \in Nat
      BY <3>1 DEF One
    <3>3. One(Ticket(n, x)) = 0 /\ One(Ticket(worker[w], x)) = 0
      BY <1>8, <1>11, <2>2 DEF Ticket, One
    <3> QED
      BY <1>3, <1>4, <3>2, <3>3
  <2> QED
    BY <2>1, <2>2
<1>13. Rows' = Rows
  BY <1>1, <1>4, <1>6, <1>10 DEF Rows, Claimable
<1>14. IsFiniteSet(Rows')
  BY <1>13 DEF OutboxInv
<1>15. \A x \in Events : event'[x].status = "processed" => event[x].status = "processed" \/ sent[x] > 0
  BY <1>4, <1>6, <1>10
<1>16. \A x \in Events : sent[x] <= sent'[x]
  BY <1>3, <1>4
<1> QED
  BY <1>3, <1>4, <1>8, <1>9, <1>10, <1>12, <1>14, <1>15, <1>16, WorkerSound

\* What a step that writes one row, and no worker takes, has to show.
LEMMA RowSound ==
    ASSUME OutboxInv, NEW e \in Events, NEW q \in EventRow, event' = [event EXCEPT ![e] = q],
           worker' = worker, sent' = sent, causes' \in [Events -> Nat], faults' \in Nat, retries' \in Nat,
           \A x \in Events \ {e} : causes[x] <= causes'[x],
           q.status # "processed",
           causes[e] + 1 <= causes'[e] + One(Open(e))
    PROVE  OutboxInv'
<1>1. /\ event \in [Events -> EventRow] /\ sent \in [Events -> Nat] /\ causes \in [Events -> Nat]
  BY DEF OutboxInv, OutboxTypeOK
<1>2. event' \in [Events -> EventRow] /\ event'[e] = q /\ \A x \in Events \ {e} : event'[x] = event[x]
  BY <1>1
<1>3. (OutboxTypeOK /\ BatchesApart /\ SentIsSent)'
  BY <1>2 DEF OutboxInv, OutboxTypeOK, BatchesApart, SentIsSent, Current
<1>4. BusyWorkers' = BusyWorkers /\ \A x : Tickets(x)' = Tickets(x)
  BY DEF BusyWorkers, Tickets, Holds, Current
<1>5. IsFiniteSet(Rows')
  BY <1>2, RowsFinite
<1>6. ProcessedWasSent'
  BY <1>2 DEF OutboxInv, ProcessedWasSent
<1>7. Accounted'
  <2> SUFFICES ASSUME NEW x \in Events
               PROVE  sent[x] + Cardinality(Tickets(x)) + One(Open(x)') <= 1 + causes'[x]
    BY <1>4 DEF Accounted, One
  <2>1. sent[x] + Cardinality(Tickets(x)) + One(Open(x)) <= 1 + causes[x]
    BY DEF OutboxInv, Accounted, One
  <2>2. Cardinality(Tickets(x)) \in Nat
    <3>1. Tickets(x) \in SUBSET BusyWorkers
      BY DEF OutboxInv, OutboxTypeOK, Tickets, BusyWorkers, Holds
    <3> QED
      BY <3>1, FS_Subset, FS_CardinalityType DEF OutboxInv
  <2>3. One(Open(x)) \in Nat /\ One(Open(x)') \in 0 .. 1
    BY DEF One
  <2>4. CASE x = e
    BY <1>1, <2>1, <2>2, <2>3, <2>4
  <2>5. CASE x # e
    <3>1. Open(x)' <=> Open(x)
      BY <1>2, <2>5 DEF Open, Holds
    <3>2. One(Open(x)') = One(Open(x))
      BY <3>1 DEF One
    <3> QED
      BY <1>1, <2>1, <2>2, <2>3, <2>5, <3>2
  <2> QED
    BY <2>4, <2>5
<1> QED
  BY <1>3, <1>4, <1>5, <1>6, <1>7 DEF OutboxInv

LEMMA EnqueueSound ==
    ASSUME OutboxInv, NEW e \in Events, Enqueue(e)
    PROVE  OutboxInv'
<1> DEFINE q == [status |-> "pending", attempts |-> 0, due |-> TRUE]
<1>1. q \in EventRow /\ q.status = "pending"
  BY OutboxAssumption DEF EventRow
<1>2. event' = [event EXCEPT ![e] = q] /\ UNCHANGED <<worker, sent, causes, faults, retries>> /\ Open(e)
  BY DEF Enqueue, Open
<1> HIDE DEF q
<1>3. causes \in [Events -> Nat] /\ faults \in Nat /\ retries \in Nat
  BY DEF OutboxInv, OutboxTypeOK
<1>4. One(Open(e)) = 1
  BY <1>2 DEF One
<1>5. causes' \in [Events -> Nat] /\ causes[e] + 1 <= causes'[e] + One(Open(e)) /\ \A x \in Events : causes[x] <= causes'[x]
  <2>1. causes' = causes
    BY <1>2
  <2>2. causes[e] + 1 <= causes[e] + One(Open(e))
    BY <1>3, <1>4
  <2>3. \A x \in Events : causes[x] <= causes[x]
    BY <1>3
  <2> QED
    BY <1>3, <2>1, <2>2, <2>3
<1> QED
  BY <1>1, <1>2, <1>3, <1>5, RowSound

LEMMA RetrySound ==
    ASSUME OutboxInv, NEW e \in Events, RetryOutboxEvent(e)
    PROVE  OutboxInv'
<1> DEFINE q == [status |-> "pending", attempts |-> 0, due |-> TRUE]
<1>1. q \in EventRow /\ q.status = "pending"
  BY OutboxAssumption DEF EventRow
<1>2. /\ event' = [event EXCEPT ![e] = q] /\ UNCHANGED <<worker, sent, causes, faults>> /\ Open(e)
      /\ retries' = retries + 1
  BY DEF RetryOutboxEvent, Open
<1> HIDE DEF q
<1>3. causes \in [Events -> Nat] /\ faults \in Nat /\ retries' \in Nat
  BY <1>2 DEF OutboxInv, OutboxTypeOK
<1>4. One(Open(e)) = 1
  BY <1>2 DEF One
<1>5. causes' \in [Events -> Nat] /\ causes[e] + 1 <= causes'[e] + One(Open(e)) /\ \A x \in Events : causes[x] <= causes'[x]
  <2>1. causes' = causes
    BY <1>2
  <2>2. causes[e] + 1 <= causes[e] + One(Open(e))
    BY <1>3, <1>4
  <2>3. \A x \in Events : causes[x] <= causes[x]
    BY <1>3
  <2> QED
    BY <1>3, <2>1, <2>2, <2>3
<1> QED
  BY <1>1, <1>2, <1>3, <1>5, RowSound

LEMMA BecomeDueSound ==
    ASSUME OutboxInv, NEW e \in Events, BecomeDue(e)
    PROVE  OutboxInv'
<1>1. PICK r \in EventRow : r = event[e]
  BY DEF OutboxInv, OutboxTypeOK
<1> DEFINE q == [r EXCEPT !.due = TRUE]
<1>2. q \in EventRow /\ q.status = r.status
  BY <1>1 DEF EventRow
<1>3. /\ event' = [event EXCEPT ![e] = q] /\ UNCHANGED <<worker, sent, faults, retries>>
      /\ r.status \in {"pending", "processing"}
  BY <1>1 DEF BecomeDue, OutboxInv, OutboxTypeOK
<1> HIDE DEF q
<1>4. causes \in [Events -> Nat] /\ faults \in Nat /\ retries \in Nat
  BY DEF OutboxInv, OutboxTypeOK
<1>5. PICK E : E = IF \E w \in Workers : Holds(w, e) THEN {e} ELSE {}
  OBVIOUS
<1>6. causes' \in [Events -> Nat] /\ \A x \in Events : causes'[x] = causes[x] + One(x \in E)
  BY <1>5, Excused DEF BecomeDue
<1>7. \A x \in Events : One(x \in E) \in Nat
  BY DEF One
<1>8. One(e \in E) + One(Open(e)) >= 1
  <2>1. e \in E \/ Open(e)
    BY <1>1, <1>3, <1>5 DEF Open
  <2> QED
    BY <2>1 DEF One
<1>9. One(Open(e)) \in Nat
  BY DEF One
<1>10. causes[e] + 1 <= causes'[e] + One(Open(e)) /\ \A x \in Events : causes[x] <= causes'[x]
  BY <1>4, <1>6, <1>7, <1>8, <1>9
<1> QED
  BY <1>2, <1>3, <1>4, <1>6, <1>10, RowSound

LEMMA OutboxInitSound ==
    ASSUME OutboxInit
    PROVE  OutboxInv
<1>1. OutboxTypeOK
  <2>1. event \in [Events -> EventRow]
    BY OutboxAssumption DEF OutboxInit, EventRow
  <2>2. IdleWorker \in WorkerState /\ IdleWorker.pc = "idle" /\ IdleWorker.jobs = <<>>
    BY DEF IdleWorker, WorkerState
  <2>3. worker \in [Workers -> WorkerState] /\ \A w \in Workers : worker[w] = IdleWorker
    BY <2>2 DEF OutboxInit
  <2>4. Len(<<>>) <= BatchSize
    BY OutboxAssumption
  <2> QED
    BY <2>1, <2>2, <2>3, <2>4 DEF OutboxInit, OutboxTypeOK
<1>2. BusyWorkers = {} /\ Rows = {} /\ \A e \in Events : Tickets(e) = {}
  BY DEF OutboxInit, BusyWorkers, Rows, Tickets, Holds, IdleWorker
<1>3. IsFiniteSet(BusyWorkers) /\ IsFiniteSet(Rows)
  BY <1>2, FS_EmptySet
<1>4. Accounted
  <2>1. \A e \in Events : Cardinality(Tickets(e)) = 0 /\ sent[e] = 0 /\ causes[e] = 0
    BY <1>2, FS_EmptySet DEF OutboxInit
  <2> QED
    BY <2>1 DEF Accounted
<1>5. BatchesApart /\ SentIsSent /\ ProcessedWasSent
  BY DEF OutboxInit, IdleWorker, BatchesApart, SentIsSent, ProcessedWasSent
<1> QED
  BY <1>1, <1>3, <1>4, <1>5 DEF OutboxInv

LEMMA OutboxStep ==
    ASSUME OutboxInv, OutboxNext
    PROVE  OutboxInv'
<1>1. CASE \E e \in Events : Enqueue(e) \/ BecomeDue(e) \/ RetryOutboxEvent(e)
  BY <1>1, EnqueueSound, BecomeDueSound, RetrySound
<1>2. CASE \E w \in Workers : WorkerStep(w)
  BY <1>2, ClaimSound, SendOkSound, MarkJobProcessedSound, MarkJobFailedSound DEF WorkerStep
<1>3. CASE \E w \in Workers : SendFails(w) \/ MarkProcessedFails(w) \/ MarkFailedFails(w) \/ Crash(w)
  BY <1>3, SendFailsSound, MarkProcessedFailsSound, MarkFailedFailsSound, CrashSound
<1> QED
  BY <1>1, <1>2, <1>3 DEF OutboxNext

LEMMA OutboxStutter ==
    ASSUME OutboxInv, UNCHANGED outboxVars
    PROVE  OutboxInv'
<1>1. /\ BusyWorkers' = BusyWorkers /\ Rows' = Rows
      /\ \A e \in Events : Tickets(e)' = Tickets(e) /\ (Open(e)' <=> Open(e))
  BY DEF outboxVars, BusyWorkers, Rows, Tickets, Open, Holds, Current
<1>2. (OutboxTypeOK /\ BatchesApart /\ SentIsSent /\ ProcessedWasSent)'
  BY DEF OutboxInv, outboxVars, OutboxTypeOK, BatchesApart, SentIsSent, Current, ProcessedWasSent
<1>3. Accounted'
  BY <1>1 DEF OutboxInv, outboxVars, Accounted
<1> QED
  BY <1>1, <1>2, <1>3 DEF OutboxInv

LEMMA OutboxSound ==
    ASSUME OutboxInv
    PROVE  OutboxTypeOK /\ DuplicatesHaveACause /\ ProcessedWasSent
<1>1. ASSUME NEW e \in Events
      PROVE  sent[e] <= 1 + causes[e]
  <2>1. sent[e] + Cardinality(Tickets(e)) + One(Open(e)) <= 1 + causes[e]
    BY DEF OutboxInv, Accounted, One
  <2>2. Cardinality(Tickets(e)) \in Nat
    <3>1. Tickets(e) \in SUBSET BusyWorkers
      BY DEF OutboxInv, OutboxTypeOK, Tickets, BusyWorkers, Holds
    <3> QED
      BY <3>1, FS_Subset, FS_CardinalityType DEF OutboxInv
  <2>3. One(Open(e)) \in Nat /\ sent[e] \in Nat /\ causes[e] \in Nat
    BY DEF One, OutboxInv, OutboxTypeOK
  <2> QED
    BY <2>1, <2>2, <2>3
<1> QED
  BY <1>1 DEF OutboxInv, DuplicatesHaveACause

-----------------------------------------------------------------------------
(***************************************************************************)
(* Notifications, step by step.                                            *)
(***************************************************************************)

LEMMA NotificationsInitSound ==
    ASSUME NotificationsInit
    PROVE  NotificationsInv
<1>1. NoChannel \in ChannelRow /\ KeepAll \in Payload
  BY DEF NoChannel, ChannelRow, Secrets, Summaries, Addresses, KeepAll, Payload
<1>2. ChannelsInv
  <2>1. channel \in [Channels -> ChannelRow] /\ said \in [Channels -> SaidRow]
    BY <1>1 DEF NotificationsInit, SaidRow, Secrets
  <2>2. update \in [Updates -> UpdateRow]
    BY <1>1 DEF NotificationsInit, UpdateRow
  <2>3. UpdatesKept /\ UpdatesKnow /\ WebhooksOnly
    BY DEF NotificationsInit, NoChannel, UpdatesKept, UpdatesKnow, WebhooksOnly
  <2> QED
    BY <2>1, <2>2, <2>3 DEF ChannelsInv
<1>3. TestsInv
  <2>1. test \in [Tests -> TestRow] /\ incident \in [Channels -> BOOLEAN]
    BY DEF NotificationsInit, TestRow
  <2>2. TestIncidentsResolved /\ TestsHaveOneChannel
    BY DEF NotificationsInit, TestIncidentsResolved, TestsHaveOneChannel
  <2> QED
    BY <2>1, <2>2 DEF TestsInv
<1>4. AlertsInv
  <2>1. delivery \in [Deliveries -> DeliveryRow] /\ got \in [Channels -> Nat]
    BY DEF NotificationsInit, DeliveryRow
  <2>2. DeliveriesKnow /\ OneAwaited /\ AnsweredArrived
    BY DEF NotificationsInit, DeliveriesKnow, OneAwaited, AnsweredArrived, Begun
  <2>3. Begun = {} /\ \A c \in Channels : Past(c) = {} /\ got[c] = 0
    BY DEF NotificationsInit, Begun, Past
  <2>4. IsFiniteSet(Begun) /\ GotOncePerCall
    BY <2>3, FS_EmptySet DEF GotOncePerCall
  <2> QED
    BY <2>1, <2>2, <2>4 DEF AlertsInv
<1> QED
  BY <1>2, <1>3, <1>4 DEF NotificationsInv

LEMMA ChannelsStutter ==
    ASSUME ChannelsInv, UNCHANGED <<channel, said, update>>
    PROVE  ChannelsInv'
  BY DEF ChannelsInv, UpdatesKept, UpdatesKnow, WebhooksOnly

LEMMA TestsStutter ==
    ASSUME TestsInv, UNCHANGED <<test, incident>>
    PROVE  TestsInv'
  BY DEF TestsInv, TestIncidentsResolved, TestsHaveOneChannel

LEMMA AlertsStutter ==
    ASSUME AlertsInv, UNCHANGED <<delivery, got>>
    PROVE  AlertsInv'
<1>1. Begun' = Begun /\ \A c \in Channels : Past(c)' = Past(c)
  BY DEF Begun, Past
<1>2. (DeliveriesKnow /\ OneAwaited /\ AnsweredArrived)'
  BY <1>1 DEF AlertsInv, DeliveriesKnow, OneAwaited, AnsweredArrived
<1>3. (IsFiniteSet(Begun) /\ GotOncePerCall)'
  BY <1>1 DEF AlertsInv, GotOncePerCall
<1> QED
  BY <1>2, <1>3 DEF AlertsInv

\* The summary of a webhook is that of the address it is given, its own or none.
LEMMA SummaryFits ==
    ASSUME NEW c \in Channels, NEW shown \in Summaries, NEW secret \in Secrets
    PROVE  /\ Summary(c, shown, secret) \in Summaries
           /\ c \notin Webhooks => Summary(c, shown, secret) = 0
           /\ c \in Webhooks /\ secret \in Addresses => Summary(c, shown, secret) = secret
           /\ c \in Webhooks /\ secret \notin Addresses => Summary(c, shown, secret) = shown
  BY DEF Summary, Summaries, Addresses

LEMMA ShownFits ==
    ASSUME NEW old \in Summaries, NEW config \in {"keep", "plain", "summary"}
    PROVE  /\ Shown(config, old) \in Summaries
           /\ config # "summary" => Shown(config, old) \in {0, old}
  BY DEF Shown, Summaries

LEMMA CreateChannelSound ==
    ASSUME ChannelsInv, NEW c \in Channels, NEW s \in Secrets, NEW g \in {"plain", "summary"},
           NEW on \in BOOLEAN, CreateChannel(c, s, g, on)
    PROVE  ChannelsInv'
<1> DEFINE m == Summary(c, Shown(g, 0), s)
           o == OwnAfter(g, s, FALSE)
           q == [exists |-> TRUE, enabled |-> on, secret |-> s, summary |-> m, tested |-> "none"]
           a == [enabled |-> on, secret |-> s, own |-> o]
<1>1. /\ m \in Summaries /\ o \in BOOLEAN /\ (c \notin Webhooks => m = 0)
      /\ (m # 0 /\ s # 0 /\ ~o) => m = s
  <2>1. 0 \in Summaries
    BY DEF Summaries
  <2>2. Shown(g, 0) \in Summaries /\ (g # "summary" => Shown(g, 0) = 0)
    BY <2>1, ShownFits
  <2>3. o \in BOOLEAN /\ (s \notin Addresses /\ ~o => g # "summary")
    BY DEF OwnAfter
  <2> QED
    BY <2>2, <2>3, SummaryFits
<1> HIDE DEF m, o
<1>2. /\ q \in ChannelRow /\ q.enabled = on /\ q.secret = s /\ q.summary = m
      /\ a \in SaidRow /\ a.enabled = on /\ a.secret = s /\ a.own = o
  BY <1>1 DEF ChannelRow, SaidRow
<1>3. /\ channel' = [channel EXCEPT ![c] = q] /\ said' = [said EXCEPT ![c] = a] /\ update' = update
      /\ channel[c].exists = FALSE
  BY DEF CreateChannel, NewChannel, ChannelsInv, ChannelRow, m, o
<1> HIDE DEF q, a
<1>4. /\ channel' \in [Channels -> ChannelRow] /\ said' \in [Channels -> SaidRow]
      /\ update' \in [Updates -> UpdateRow]
  BY <1>2, <1>3 DEF ChannelsInv
<1>5. UpdatesKept'
  BY <1>1, <1>2, <1>3 DEF ChannelsInv, UpdatesKept
<1>6. UpdatesKnow'
  BY <1>3 DEF ChannelsInv, UpdatesKnow, UpdateRow
<1>7. WebhooksOnly'
  BY <1>1, <1>2, <1>3 DEF ChannelsInv, WebhooksOnly
<1> QED
  BY <1>4, <1>5, <1>6, <1>7 DEF ChannelsInv

LEMMA PayloadsAre == PayloadIn \subseteq Payload /\ Switches \subseteq Payload
<1>0. KeepAll \in Payload
  BY DEF KeepAll, Payload, Secrets, Addresses
<1>1. PICK k \in Payload : k = KeepAll
  BY <1>0
<1>2. \A e \in {"on", "off"} : [k EXCEPT !.enabled = e] \in Payload
  BY DEF Payload
<1>3. \A j \in Payload : \A s \in {1, 2, NoAddress} : [j EXCEPT !.secret = s] \in Payload
  BY DEF Payload, Secrets, Addresses
<1>4. [k EXCEPT !.clear = TRUE] \in Payload /\ \A g \in {"plain", "summary"} : [k EXCEPT !.config = g] \in Payload
  BY DEF Payload
<1>5. [k EXCEPT !.clear = TRUE, !.secret = 1] \in Payload /\ [k EXCEPT !.config = "summary", !.secret = 2] \in Payload
  <2>1. PICK j \in Payload : j = [k EXCEPT !.clear = TRUE]
    BY <1>4
  <2>2. PICK i \in Payload : i = [k EXCEPT !.config = "summary"]
    BY <1>4
  <2>3. [j EXCEPT !.secret = 1] \in Payload /\ [i EXCEPT !.secret = 2] \in Payload
    BY <1>3
  <2>4. [j EXCEPT !.secret = 1] = [k EXCEPT !.clear = TRUE, !.secret = 1]
    BY <2>1 DEF Payload
  <2>5. [i EXCEPT !.secret = 2] = [k EXCEPT !.config = "summary", !.secret = 2]
    BY <2>2 DEF Payload
  <2> QED
    BY <2>3, <2>4, <2>5
<1>6. PayloadIn \subseteq Payload
  BY <1>1, <1>2, <1>3, <1>4, <1>5 DEF PayloadIn
<1>7. Switches \subseteq Payload
  BY <1>1, <1>2 DEF Switches
<1> QED
  BY <1>6, <1>7

LEMMA UpdateReadSound ==
    ASSUME ChannelsInv, NEW u \in Updates, NEW c \in Channels, NEW p \in Payload, UpdateRead(u, c, p)
    PROVE  ChannelsInv'
<1>1. PICK b \in ChannelRow : b = channel[c]
  BY DEF ChannelsInv
<1> DEFINE q == [pc |-> "locked", ch |-> {c}, payload |-> p, before |-> b]
<1>2. q \in UpdateRow /\ q.pc = "locked" /\ q.ch = {c} /\ q.before = b
  BY <1>1 DEF UpdateRow
<1>3. /\ update' = [update EXCEPT ![u] = q] /\ channel' = channel /\ said' = said
      /\ channel[c].exists /\ RowFree(c)
  BY <1>1 DEF UpdateRead
<1> HIDE DEF q
<1>4. update' \in [Updates -> UpdateRow] /\ update'[u] = q /\ \A v \in Updates \ {u} : update'[v] = update[v]
  BY <1>2, <1>3 DEF ChannelsInv
<1>5. \A v \in Updates : update[v].pc = "locked" => c \notin update[v].ch
  BY <1>3 DEF RowFree
<1>6. UpdatesKnow'
  <2>1. ASSUME NEW v \in Updates, update'[v].pc = "locked"
        PROVE  \A x \in update'[v].ch : channel'[x] = update'[v].before /\ channel'[x].exists
    BY <1>1, <1>2, <1>3, <1>4, <2>1 DEF ChannelsInv, UpdatesKnow
  <2>2. ASSUME NEW v \in Updates, NEW w \in Updates, v # w, update'[v].pc = "locked", update'[w].pc = "locked"
        PROVE  update'[v].ch \cap update'[w].ch = {}
    BY <1>2, <1>4, <1>5, <2>2 DEF ChannelsInv, UpdatesKnow
  <2> QED
    BY <2>1, <2>2 DEF UpdatesKnow
<1> QED
  BY <1>3, <1>4, <1>6 DEF ChannelsInv, UpdatesKept, WebhooksOnly

\* What an update makes of the row it read: the fields it was given, and a summary
\* that is that of the secret when both are there and it is not the administrator's own.
LEMMA NormalizedRow ==
    ASSUME NEW c \in Channels, NEW p \in Payload, NEW b \in ChannelRow, NEW own \in BOOLEAN,
           (b.summary # 0 /\ b.secret # 0 /\ ~own) => b.summary = b.secret
    PROVE  LET n == NormalizedUpdate(c, p, b)
           IN  /\ n \in ChannelRow /\ n.exists = b.exists
               /\ n.enabled = Enabled(p, b.enabled) /\ n.secret = SecretAfter(p, b.secret)
               /\ (n.summary # 0 /\ n.secret # 0 /\ ~OwnAfter(p.config, p.secret, own)) => n.summary = n.secret
               /\ c \notin Webhooks => n.summary = 0
<1> DEFINE e == Enabled(p, b.enabled)
           s == SecretAfter(p, b.secret)
           h == Shown(p.config, b.summary)
           o == OwnAfter(p.config, p.secret, own)
           m == Summary(c, h, p.secret)
           n == [b EXCEPT !.enabled = e, !.secret = s, !.summary = m]
<1>1. e \in BOOLEAN
  BY DEF Enabled, ChannelRow
<1>2. s \in Secrets /\ m \in Summaries /\ (c \notin Webhooks => m = 0)
  <2>1. s \in Secrets /\ p.secret \in Secrets /\ h \in Summaries
    BY ShownFits DEF SecretAfter, Payload, ChannelRow, Secrets
  <2> QED
    BY <2>1, SummaryFits
<1>3. (m # 0 /\ s # 0 /\ ~o) => m = s
  <2> SUFFICES ASSUME m # 0, s # 0, ~o, c \in Webhooks
               PROVE  m = s
    BY <1>2
  <2>1. p.secret \in Secrets /\ h \in Summaries /\ (p.config # "summary" => h \in {0, b.summary})
    BY ShownFits DEF Payload, ChannelRow
  <2>2. ~p.clear /\ s = IF p.secret # 0 THEN p.secret ELSE b.secret
    BY DEF SecretAfter
  <2>3. CASE p.secret \in Addresses
    BY <2>1, <2>2, <2>3, SummaryFits DEF Addresses
  <2>4. CASE p.secret \notin Addresses
    <3>1. ~own /\ p.config # "summary" /\ p.secret # NoAddress
      BY <2>4 DEF OwnAfter
    <3>2. p.secret = 0 /\ m = h
      BY <2>1, <2>4, <3>1, SummaryFits DEF Secrets
    <3> QED
      BY <2>1, <2>2, <3>1, <3>2
  <2> QED
    BY <2>3, <2>4
<1>4. NormalizedUpdate(c, p, b) = n
  BY DEF NormalizedUpdate
<1> HIDE DEF e, s, m, h
<1>5. n \in ChannelRow /\ n.exists = b.exists /\ n.enabled = e /\ n.secret = s /\ n.summary = m
  BY <1>1, <1>2 DEF ChannelRow
<1> HIDE DEF n
<1> QED
  BY <1>2, <1>3, <1>4, <1>5 DEF e, s

LEMMA UpdateCommitSound ==
    ASSUME ChannelsInv, NEW u \in Updates, NEW c \in Channels, UpdateCommit(u, c)
    PROVE  ChannelsInv'
<1>1. PICK r \in UpdateRow : r = update[u]
  BY DEF ChannelsInv
<1>2. PICK b \in ChannelRow : b = channel[c]
  BY DEF ChannelsInv
<1>3. PICK a \in SaidRow : a = said[c]
  BY DEF ChannelsInv
<1>4. r.pc = "locked" /\ c \in r.ch /\ r.before = b /\ r.payload \in Payload
  BY <1>1, <1>2 DEF UpdateCommit, ChannelsInv, UpdatesKnow, UpdateRow
<1>5. /\ b.enabled = a.enabled /\ b.secret = a.secret
      /\ (b.summary # 0 /\ b.secret # 0 /\ ~a.own) => b.summary = b.secret
      /\ a.own \in BOOLEAN
  BY <1>2, <1>3 DEF ChannelsInv, UpdatesKept, SaidRow
<1>6. PICK p \in Payload : p = r.payload
  BY <1>4
<1> DEFINE n == NormalizedUpdate(c, p, b)
           q == [n EXCEPT !.tested = b.tested]
           o == OwnAfter(p.config, p.secret, a.own)
           t == [enabled |-> Enabled(p, a.enabled), secret |-> SecretAfter(p, a.secret), own |-> o]
           z == [pc |-> "done", ch |-> {}, payload |-> KeepAll, before |-> NoChannel]
<1>7. /\ n \in ChannelRow /\ n.exists = b.exists
      /\ n.enabled = Enabled(p, b.enabled) /\ n.secret = SecretAfter(p, b.secret)
      /\ (n.summary # 0 /\ n.secret # 0 /\ ~o) => n.summary = n.secret
      /\ c \notin Webhooks => n.summary = 0
  BY <1>5, NormalizedRow
<1>8. /\ channel' = [channel EXCEPT ![c] = q] /\ said' = [said EXCEPT ![c] = t]
      /\ update' = [update EXCEPT ![u] = z]
  BY <1>1, <1>2, <1>3, <1>4, <1>6 DEF UpdateCommit
<1>9. z \in UpdateRow /\ z.pc = "done"
  BY DEF UpdateRow, KeepAll, Payload, NoChannel, ChannelRow, Secrets, Summaries
<1>10. o \in BOOLEAN
  BY DEF OwnAfter
<1> HIDE DEF n, o, z
<1>11. t.enabled = n.enabled /\ t.secret = n.secret /\ t.own = o /\ t \in SaidRow
  BY <1>5, <1>7, <1>10 DEF SaidRow, ChannelRow
<1> HIDE DEF t
<1>12. /\ q \in ChannelRow /\ q.enabled = n.enabled /\ q.secret = n.secret /\ q.summary = n.summary
  BY <1>2, <1>7 DEF ChannelRow
<1> HIDE DEF q
<1>13. /\ channel' \in [Channels -> ChannelRow] /\ said' \in [Channels -> SaidRow]
       /\ update' \in [Updates -> UpdateRow]
  BY <1>8, <1>9, <1>11, <1>12 DEF ChannelsInv
<1>14. UpdatesKept' /\ WebhooksOnly'
  BY <1>7, <1>8, <1>11, <1>12 DEF ChannelsInv, UpdatesKept, WebhooksOnly
<1>15. UpdatesKnow'
  <2>1. \A v \in Updates \ {u} : update'[v] = update[v] /\ (update[v].pc = "locked" => c \notin update[v].ch)
    BY <1>1, <1>4, <1>8 DEF ChannelsInv, UpdatesKnow
  <2>2. update'[u].pc = "done" /\ \A d \in Channels \ {c} : channel'[d] = channel[d]
    BY <1>8, <1>9 DEF ChannelsInv
  <2>3. \A v \in Updates : update[v].ch \subseteq Channels
    BY DEF ChannelsInv, UpdateRow
  <2> QED
    BY <2>1, <2>2, <2>3 DEF ChannelsInv, UpdatesKnow
<1> QED
  BY <1>13, <1>14, <1>15 DEF ChannelsInv

LEMMA ChannelStep ==
    ASSUME NotificationsInv, NEW S, S \subseteq Secrets, NEW G, G \subseteq {"plain", "summary"},
           NEW P, P \subseteq Payload, ChannelNext(S, G, P)
    PROVE  NotificationsInv'
<1>1. CASE \E c \in Channels, s \in S, g \in G, on \in BOOLEAN : CreateChannel(c, s, g, on)
  <2>1. ChannelsInv'
    BY <1>1, CreateChannelSound DEF NotificationsInv
  <2> QED
    BY <1>1, <2>1, TestsStutter, AlertsStutter DEF NotificationsInv, CreateChannel
<1>2. CASE \E u \in Updates, c \in Channels : UpdateCommit(u, c)
  <2>1. ChannelsInv'
    BY <1>2, UpdateCommitSound DEF NotificationsInv
  <2> QED
    BY <1>2, <2>1, TestsStutter, AlertsStutter DEF NotificationsInv, UpdateCommit
<1>3. CASE \E u \in Updates, c \in Channels : \E p \in P : UpdateRead(u, c, p)
  <2>1. ChannelsInv'
    BY <1>3, UpdateReadSound DEF NotificationsInv
  <2> QED
    BY <1>3, <2>1, TestsStutter, AlertsStutter DEF NotificationsInv, UpdateRead
<1> QED
  BY <1>1, <1>2, <1>3 DEF ChannelNext

LEMMA SwitchStep ==
    ASSUME NotificationsInv, SwitchNext
    PROVE  NotificationsInv'
<1>1. {0, 1} \subseteq Secrets /\ {"plain"} \subseteq {"plain", "summary"}
  BY DEF Secrets, Addresses
<1> QED
  BY <1>1, ChannelStep, PayloadsAre DEF SwitchNext

\* A test moves on.  Whatever incident it does not close keeps its test.
LEMMA TestMoves ==
    ASSUME TestsInv, NEW t \in Tests, NEW p, test[t].pc # "idle",
           p \in {"success", "failed", "triggered", "dropped"},
           test' = [test EXCEPT ![t].pc = p]
    PROVE  /\ test' \in [Tests -> TestRow]
           /\ \A s \in Tests : /\ test'[s].ch = test[s].ch
                               /\ test'[s].pc = IF s = t THEN p ELSE test[s].pc
           /\ TestsHaveOneChannel'
<1>1. PICK r \in TestRow : r = test[t]
  BY DEF TestsInv
<1> DEFINE q == [r EXCEPT !.pc = p]
<1>2. q \in TestRow /\ q.pc = p /\ q.ch = r.ch
  BY <1>1 DEF TestRow
<1>3. test' = [test EXCEPT ![t] = q]
  BY <1>1 DEF TestsInv
<1> HIDE DEF q
<1>4. /\ test' \in [Tests -> TestRow]
      /\ \A s \in Tests : /\ test'[s].ch = test[s].ch
                          /\ test'[s].pc = IF s = t THEN p ELSE test[s].pc
  BY <1>1, <1>2, <1>3 DEF TestsInv
<1>5. TestsHaveOneChannel'
  BY <1>4 DEF TestsInv, TestsHaveOneChannel
<1> QED
  BY <1>4, <1>5

LEMMA TestReadSound ==
    ASSUME TestsInv, NEW t \in Tests, NEW c \in Channels, TestRead(t, c), channel \in [Channels -> ChannelRow]
    PROVE  TestsInv'
<1> DEFINE q == [pc |-> "read", ch |-> {c}, testable |-> Testable(channel[c]), stored |-> FALSE]
<1>1. q \in TestRow /\ q.ch = {c}
  <2>1. Testable(channel[c]) \in BOOLEAN
    BY DEF Testable
  <2> QED
    BY <2>1 DEF TestRow
<1>2. test' = [test EXCEPT ![t] = q] /\ test[t].pc = "idle" /\ incident' = incident
  BY DEF TestRead
<1> HIDE DEF q
<1>3. test' \in [Tests -> TestRow] /\ incident' \in [Channels -> BOOLEAN]
  BY <1>1, <1>2 DEF TestsInv
<1>4. TestsHaveOneChannel'
  BY <1>1, <1>2 DEF TestsInv, TestsHaveOneChannel
<1>5. TestIncidentsResolved'
  BY <1>2 DEF TestsInv, TestIncidentsResolved
<1> QED
  BY <1>3, <1>4, <1>5 DEF TestsInv

LEMMA TestWebhookSound ==
    ASSUME TestsInv, NEW t \in Tests, NEW c \in Channels, NEW ok \in BOOLEAN, TestWebhook(t, c, ok)
    PROVE  TestsInv'
<1>1. PICK p \in {"success", "failed"} : test' = [test EXCEPT ![t].pc = p]
  BY DEF TestWebhook
<1>2. test[t].pc = "read" /\ incident' = incident
  BY DEF TestWebhook
<1>3. /\ test' \in [Tests -> TestRow]
      /\ \A s \in Tests : /\ test'[s].ch = test[s].ch
                          /\ test'[s].pc = IF s = t THEN p ELSE test[s].pc
      /\ TestsHaveOneChannel'
  BY <1>1, <1>2, TestMoves
<1>4. TestIncidentsResolved'
  BY <1>2, <1>3 DEF TestsInv, TestIncidentsResolved
<1> QED
  BY <1>2, <1>3, <1>4 DEF TestsInv

LEMMA TestDroppedSound ==
    ASSUME TestsInv, NEW t \in Tests, TestDropped(t)
    PROVE  TestsInv'
<1>1. /\ test' = [test EXCEPT ![t].pc = "dropped"]
      /\ test[t].pc \in {"read", "triggered"} /\ incident' = incident
  BY DEF TestDropped
<1>2. /\ test' \in [Tests -> TestRow]
      /\ \A s \in Tests : /\ test'[s].ch = test[s].ch
                          /\ test'[s].pc = IF s = t THEN "dropped" ELSE test[s].pc
      /\ TestsHaveOneChannel'
  BY <1>1, TestMoves
<1>3. TestIncidentsResolved'
  BY <1>1, <1>2 DEF TestsInv, TestIncidentsResolved
<1> QED
  BY <1>1, <1>2, <1>3 DEF TestsInv

LEMMA TestTriggerSound ==
    ASSUME TestsInv, NEW t \in Tests, NEW c \in Channels, NEW arrives \in BOOLEAN, NEW ok \in BOOLEAN,
           TestTrigger(t, c, arrives, ok)
    PROVE  TestsInv'
<1>1. PICK p \in {"triggered", "failed"} : test' = [test EXCEPT ![t].pc = p]
  BY DEF TestTrigger
<1>2. test[t].pc = "read" /\ c \in test[t].ch
  BY DEF TestTrigger
<1>3. /\ incident' \in [Channels -> BOOLEAN]
      /\ \A d \in Channels \ {c} : incident'[d] = incident[d]
  BY DEF TestTrigger, TestsInv
<1>4. /\ test' \in [Tests -> TestRow]
      /\ \A s \in Tests : /\ test'[s].ch = test[s].ch
                          /\ test'[s].pc = IF s = t THEN p ELSE test[s].pc
      /\ TestsHaveOneChannel'
  BY <1>1, <1>2, TestMoves
<1>5. TestIncidentsResolved'
  <2> SUFFICES ASSUME NEW d \in Channels, incident'[d]
               PROVE  \E s \in Tests : d \in test'[s].ch /\ test'[s].pc \in {"triggered", "failed", "dropped"}
    BY DEF TestIncidentsResolved
  <2>1. CASE d = c
    BY <1>2, <1>4, <2>1
  <2>2. CASE d # c
    BY <1>2, <1>3, <1>4, <2>2 DEF TestsInv, TestIncidentsResolved
  <2> QED
    BY <2>1, <2>2
<1> QED
  BY <1>3, <1>4, <1>5 DEF TestsInv

LEMMA TestResolveSound ==
    ASSUME TestsInv, NEW t \in Tests, NEW c \in Channels, NEW arrives \in BOOLEAN, NEW ok \in BOOLEAN,
           TestResolve(t, c, arrives, ok)
    PROVE  TestsInv'
<1>1. PICK p \in {"success", "failed"} : test' = [test EXCEPT ![t].pc = p] /\ (p = "success" => arrives)
  BY DEF TestResolve, ResolveSucceeds
<1>2. test[t].pc = "triggered" /\ c \in test[t].ch
  BY DEF TestResolve
<1>3. /\ incident' \in [Channels -> BOOLEAN]
      /\ \A d \in Channels : incident'[d] => incident[d]
      /\ incident'[c] => ~arrives
  BY DEF TestResolve, TestsInv
<1>4. /\ test' \in [Tests -> TestRow]
      /\ \A s \in Tests : /\ test'[s].ch = test[s].ch
                          /\ test'[s].pc = IF s = t THEN p ELSE test[s].pc
      /\ TestsHaveOneChannel'
  BY <1>1, <1>2, TestMoves
<1>5. TestIncidentsResolved'
  <2> SUFFICES ASSUME NEW d \in Channels, incident'[d]
               PROVE  \E s \in Tests : d \in test'[s].ch /\ test'[s].pc \in {"triggered", "failed", "dropped"}
    BY DEF TestIncidentsResolved
  <2>1. CASE d = c
    BY <1>1, <1>2, <1>3, <1>4, <2>1
  <2>2. CASE d # c
    <3>1. d \notin test[t].ch
      BY <1>2, <2>2 DEF TestsInv, TestsHaveOneChannel
    <3> QED
      BY <1>3, <1>4, <3>1 DEF TestsInv, TestIncidentsResolved
  <2> QED
    BY <2>1, <2>2
<1> QED
  BY <1>3, <1>4, <1>5 DEF TestsInv

\* The result of a test is stored while no update holds the row.
LEMMA TestStoreSound ==
    ASSUME ChannelsInv, TestsInv, NEW t \in Tests, NEW c \in Channels, TestStore(t, c)
    PROVE  ChannelsInv' /\ TestsInv'
<1>1. PICK b \in ChannelRow : b = channel[c]
  BY DEF ChannelsInv
<1>2. PICK r \in TestRow : r = test[t]
  BY DEF TestsInv
<1> DEFINE q == [b EXCEPT !.tested = r.pc]
           p == [r EXCEPT !.stored = TRUE]
<1>3. /\ q \in ChannelRow /\ q.exists = b.exists /\ q.enabled = b.enabled
      /\ q.secret = b.secret /\ q.summary = b.summary
      /\ p \in TestRow /\ p.pc = r.pc /\ p.ch = r.ch
  BY <1>1, <1>2 DEF TestStore, ChannelRow, TestRow
<1>4. /\ channel' = [channel EXCEPT ![c] = q] /\ test' = [test EXCEPT ![t] = p]
      /\ UNCHANGED <<said, update, incident>>
  BY <1>1, <1>2 DEF TestStore, ChannelsInv, TestsInv
<1> HIDE DEF p, q
<1>5. ChannelsInv'
  <2>1. \A v \in Updates : update[v].pc = "locked" => c \notin update[v].ch
    BY DEF TestStore, RowFree
  <2>2. channel' \in [Channels -> ChannelRow] /\ channel'[c] = q /\ \A d \in Channels \ {c} : channel'[d] = channel[d]
    BY <1>3, <1>4 DEF ChannelsInv
  <2>3. \A v \in Updates : update[v].ch \subseteq Channels
    BY DEF ChannelsInv, UpdateRow
  <2>4. UpdatesKept' /\ WebhooksOnly'
    BY <1>1, <1>3, <1>4, <2>2 DEF ChannelsInv, UpdatesKept, WebhooksOnly
  <2>5. UpdatesKnow'
    BY <1>4, <2>1, <2>2, <2>3 DEF ChannelsInv, UpdatesKnow
  <2> QED
    BY <1>4, <2>2, <2>4, <2>5 DEF ChannelsInv
<1>6. TestsInv'
  <2>1. test' \in [Tests -> TestRow] /\ \A s \in Tests : test'[s].pc = test[s].pc /\ test'[s].ch = test[s].ch
    BY <1>2, <1>3, <1>4 DEF TestsInv
  <2> QED
    BY <1>4, <2>1 DEF TestsInv, TestIncidentsResolved, TestsHaveOneChannel
<1> QED
  BY <1>5, <1>6

LEMMA TestStep ==
    ASSUME NotificationsInv, TestNext
    PROVE  NotificationsInv'
<1>1. CASE SwitchNext
  BY <1>1, SwitchStep
<1>2. CASE \E t \in Tests, c \in Channels : TestStore(t, c)
  <2>1. ChannelsInv' /\ TestsInv'
    BY <1>2, TestStoreSound DEF NotificationsInv
  <2> QED
    BY <1>2, <2>1, AlertsStutter DEF NotificationsInv, TestStore
<1>3. ASSUME NEW t \in Tests, TestDropped(t)
      PROVE  NotificationsInv'
  <2>1. TestsInv'
    BY <1>3, TestDroppedSound DEF NotificationsInv
  <2> QED
    BY <1>3, <2>1, ChannelsStutter, AlertsStutter DEF NotificationsInv, TestDropped
<1>4. ASSUME NEW t \in Tests, NEW c \in Channels, TestRead(t, c)
      PROVE  NotificationsInv'
  <2>1. TestsInv'
    BY <1>4, TestReadSound DEF NotificationsInv, ChannelsInv
  <2> QED
    BY <1>4, <2>1, ChannelsStutter, AlertsStutter DEF NotificationsInv, TestRead
<1>5. ASSUME NEW t \in Tests, NEW c \in Channels, NEW ok \in BOOLEAN, TestWebhook(t, c, ok)
      PROVE  NotificationsInv'
  <2>1. TestsInv'
    BY <1>5, TestWebhookSound DEF NotificationsInv
  <2> QED
    BY <1>5, <2>1, ChannelsStutter, AlertsStutter DEF NotificationsInv, TestWebhook
<1>6. ASSUME NEW t \in Tests, NEW c \in Channels, NEW ok \in BOOLEAN, NEW arrives \in BOOLEAN,
             TestTrigger(t, c, arrives, ok)
      PROVE  NotificationsInv'
  <2>1. TestsInv'
    BY <1>6, TestTriggerSound DEF NotificationsInv
  <2> QED
    BY <1>6, <2>1, ChannelsStutter, AlertsStutter DEF NotificationsInv, TestTrigger
<1>7. ASSUME NEW t \in Tests, NEW c \in Channels, NEW ok \in BOOLEAN, NEW arrives \in BOOLEAN,
             TestResolve(t, c, arrives, ok)
      PROVE  NotificationsInv'
  <2>1. TestsInv'
    BY <1>7, TestResolveSound DEF NotificationsInv
  <2> QED
    BY <1>7, <2>1, ChannelsStutter, AlertsStutter DEF NotificationsInv, TestResolve
<1> QED
  BY <1>1, <1>2, <1>3, <1>4, <1>5, <1>6, <1>7 DEF TestNext

LEMMA PastFinite ==
    ASSUME AlertsInv, NEW c \in Channels
    PROVE  IsFiniteSet(Past(c)) /\ Cardinality(Past(c)) \in Nat
<1>1. Past(c) \in SUBSET Begun
  BY DEF Past
<1> QED
  BY <1>1, FS_Subset, FS_CardinalityType DEF AlertsInv

\* A call moves on, to another place of its own.
LEMMA DeliveryMoves ==
    ASSUME AlertsInv, NEW d \in Deliveries, delivery[d].pc = "sending",
           NEW p \in {"answered", "error", "lost"},
           p = "answered" => delivery[d].listed = {} \/ \E c \in delivery[d].listed : got[c] > 0,
           delivery' = [delivery EXCEPT ![d].pc = p], got' = got
    PROVE  AlertsInv'
<1>1. PICK r \in DeliveryRow : r = delivery[d]
  BY DEF AlertsInv
<1> DEFINE q == [r EXCEPT !.pc = p]
<1>2. q \in DeliveryRow /\ q.pc = p /\ q.listed = r.listed /\ q.todo = r.todo /\ q.delivered = r.delivered
  BY <1>1 DEF DeliveryRow
<1>3. delivery' = [delivery EXCEPT ![d] = q]
  BY <1>1 DEF AlertsInv
<1> HIDE DEF q
<1>4. /\ delivery' \in [Deliveries -> DeliveryRow] /\ got' \in [Channels -> Nat]
      /\ \A e \in Deliveries : /\ delivery'[e].listed = delivery[e].listed
                               /\ delivery'[e].todo = delivery[e].todo
                               /\ delivery'[e].delivered = delivery[e].delivered
                               /\ delivery'[e].pc = IF e = d THEN p ELSE delivery[e].pc
  BY <1>1, <1>2, <1>3 DEF AlertsInv
<1>5. Begun' = Begun /\ d \in Begun
  BY <1>4 DEF Begun
<1>6. \A c \in Channels : Past(c)' = Past(c)
  BY <1>4, <1>5 DEF Past, Begun
<1>7. DeliveriesKnow'
  BY <1>4 DEF AlertsInv, DeliveriesKnow
<1>8. IsFiniteSet(Begun)' /\ GotOncePerCall'
  BY <1>5, <1>6 DEF AlertsInv, GotOncePerCall
<1>9. OneAwaited'
  BY <1>4, <1>5 DEF AlertsInv, OneAwaited, Begun
<1>10. AnsweredArrived'
  BY <1>4 DEF AlertsInv, AnsweredArrived
<1> QED
  BY <1>4, <1>7, <1>8, <1>9, <1>10 DEF AlertsInv

LEMMA AnswerSound ==
    ASSUME AlertsInv, NEW d \in Deliveries, Answer(d)
    PROVE  AlertsInv'
<1>1. PICK p \in {"answered", "error"} : p = IF AllFailed(d) THEN "error" ELSE "answered"
  OBVIOUS
<1>2. delivery[d].pc = "sending" /\ delivery' = [delivery EXCEPT ![d].pc = p] /\ got' = got
  BY <1>1 DEF Answer
<1>3. p = "answered" => delivery[d].listed = {} \/ \E c \in delivery[d].listed : got[c] > 0
  BY <1>1 DEF AllFailed, AlertsInv, DeliveriesKnow
<1> QED
  BY <1>2, <1>3, DeliveryMoves

LEMMA GiveUpSound ==
    ASSUME AlertsInv, NEW d \in Deliveries, GiveUp(d)
    PROVE  AlertsInv'
  BY DeliveryMoves DEF GiveUp

LEMMA ListChannelsSound ==
    ASSUME AlertsInv, NEW d \in Deliveries, ListChannels(d)
    PROVE  AlertsInv'
<1> DEFINE on == {c \in Channels : channel[c].enabled /\ channel[c].secret # 0}
           q == [pc |-> "sending", listed |-> on, todo |-> on, delivered |-> {}]
<1>1. q \in DeliveryRow /\ q.pc = "sending" /\ q.todo = q.listed /\ q.delivered = {}
  BY DEF DeliveryRow
<1>2. /\ delivery' = [delivery EXCEPT ![d] = q] /\ got' = got /\ delivery[d].pc = "idle"
      /\ \A e \in Deliveries : delivery[e].pc \in {"idle", "lost", "error"}
  BY DEF ListChannels
<1> HIDE DEF q
<1>3. /\ delivery' \in [Deliveries -> DeliveryRow] /\ got' \in [Channels -> Nat]
      /\ delivery'[d] = q /\ \A e \in Deliveries \ {d} : delivery'[e] = delivery[e]
  BY <1>1, <1>2 DEF AlertsInv
<1>4. Begun' = Begun \cup {d}
  BY <1>1, <1>3 DEF Begun
<1>5. IsFiniteSet(Begun')
  BY <1>4, FS_AddElement DEF AlertsInv
<1>6. DeliveriesKnow'
  BY <1>1, <1>2, <1>3 DEF AlertsInv, DeliveriesKnow
<1>7. GotOncePerCall'
  <2> SUFFICES ASSUME NEW c \in Channels
               PROVE  got[c] <= Cardinality(Past(c)')
    BY <1>2 DEF GotOncePerCall
  <2>1. Past(c) \in SUBSET Past(c)' /\ Past(c)' \in SUBSET Begun'
    BY <1>2, <1>3, <1>4 DEF Past, Begun
  <2>2. IsFiniteSet(Past(c)')
    BY <1>5, <2>1, FS_Subset
  <2>3. Cardinality(Past(c)) <= Cardinality(Past(c)') /\ Cardinality(Past(c)') \in Nat
    BY <2>1, <2>2, FS_Subset, FS_CardinalityType
  <2> QED
    BY <2>3, PastFinite DEF AlertsInv, GotOncePerCall
<1>8. OneAwaited'
  BY <1>2, <1>3, <1>4 DEF OneAwaited, Begun
<1>9. AnsweredArrived'
  BY <1>1, <1>2, <1>3 DEF AlertsInv, AnsweredArrived
<1> QED
  BY <1>3, <1>5, <1>6, <1>7, <1>8, <1>9 DEF AlertsInv

LEMMA DeliverChannelSound ==
    ASSUME AlertsInv, NEW d \in Deliveries, NEW c \in Channels, NEW arrives \in BOOLEAN, NEW ok \in BOOLEAN,
           DeliverChannel(d, c, arrives, ok)
    PROVE  AlertsInv'
<1>1. PICK r \in DeliveryRow : r = delivery[d]
  BY DEF AlertsInv
<1>2. r.pc \in {"sending", "lost"} /\ c \in r.todo
  BY <1>1 DEF DeliverChannel
<1> DEFINE q == [r EXCEPT !.todo = r.todo \ {c}, !.delivered = IF ok THEN r.delivered \cup {c} ELSE r.delivered]
<1>3. /\ q \in DeliveryRow /\ q.pc = r.pc /\ q.listed = r.listed /\ q.todo = r.todo \ {c}
      /\ q.delivered = IF ok THEN r.delivered \cup {c} ELSE r.delivered
  BY <1>1 DEF DeliveryRow
<1>4. delivery' = [delivery EXCEPT ![d] = q]
  BY <1>1 DEF DeliverChannel, AlertsInv, DeliveryRow
<1> HIDE DEF q
<1>5. /\ got' \in [Channels -> Nat] /\ \A e \in Channels \ {c} : got'[e] = got[e]
      /\ got[c] <= got'[c] /\ got'[c] <= got[c] + 1
      /\ ok => got'[c] > 0
  BY DEF DeliverChannel, AlertsInv
<1>6. /\ delivery' \in [Deliveries -> DeliveryRow]
      /\ delivery'[d] = q /\ \A e \in Deliveries \ {d} : delivery'[e] = delivery[e]
  BY <1>3, <1>4 DEF AlertsInv
<1>7. Begun' = Begun /\ d \in Begun
  BY <1>1, <1>2, <1>3, <1>6 DEF Begun
<1>8. \A e \in Channels : got[e] \in Nat /\ got'[e] \in Nat /\ got[e] <= got'[e]
  BY <1>5 DEF AlertsInv
<1>9. DeliveriesKnow'
  <2>1. r.todo \subseteq r.listed /\ r.delivered \subseteq r.listed /\ \A e \in r.delivered : got[e] > 0
    BY <1>1 DEF AlertsInv, DeliveriesKnow
  <2>2. q.todo \subseteq q.listed /\ q.delivered \subseteq q.listed
    BY <1>2, <1>3, <2>1
  <2>3. \A e \in q.delivered : got'[e] > 0
    BY <1>3, <1>5, <1>8, <2>1 DEF DeliveryRow
  <2>4. \A e \in Deliveries \ {d} : \A x \in delivery[e].delivered : got'[x] > 0
    BY <1>8 DEF AlertsInv, DeliveriesKnow, DeliveryRow
  <2> QED
    BY <1>6, <2>2, <2>3, <2>4 DEF AlertsInv, DeliveriesKnow
<1>10. GotOncePerCall'
  <2> SUFFICES ASSUME NEW e \in Channels
               PROVE  got'[e] <= Cardinality(Past(e)')
    BY DEF GotOncePerCall
  <2>1. got[e] <= Cardinality(Past(e)) /\ IsFiniteSet(Past(e)) /\ Cardinality(Past(e)) \in Nat
    BY PastFinite DEF AlertsInv, GotOncePerCall
  <2>2. CASE e = c
    <3>1. Past(c)' = Past(c) \cup {d} /\ d \notin Past(c)
      BY <1>1, <1>2, <1>3, <1>6, <1>7 DEF Past, Begun
    <3>2. Cardinality(Past(c)') = Cardinality(Past(c)) + 1
      BY <2>1, <2>2, <3>1, FS_AddElement
    <3> QED
      BY <1>5, <1>8, <2>1, <2>2, <3>2
  <2>3. CASE e # c
    <3>1. Past(e)' = Past(e)
      BY <1>1, <1>3, <1>6, <1>7, <2>3 DEF Past, Begun
    <3> QED
      BY <1>5, <2>1, <2>3, <3>1
  <2> QED
    BY <2>2, <2>3
<1>11. OneAwaited'
  BY <1>1, <1>3, <1>6, <1>7 DEF AlertsInv, OneAwaited, Begun
<1>12. AnsweredArrived'
  <2>1. \A e \in Deliveries : delivery'[e].pc = delivery[e].pc /\ delivery'[e].listed = delivery[e].listed
    BY <1>1, <1>3, <1>6
  <2>2. \A e \in Deliveries : delivery[e].listed \subseteq Channels
    BY DEF AlertsInv, DeliveryRow
  <2> QED
    BY <1>8, <2>1, <2>2 DEF AlertsInv, AnsweredArrived
<1> QED
  BY <1>5, <1>6, <1>7, <1>9, <1>10, <1>11, <1>12 DEF AlertsInv

LEMMA AlertStep ==
    ASSUME NotificationsInv, AlertNext
    PROVE  NotificationsInv'
<1>1. CASE SwitchNext
  BY <1>1, SwitchStep
<1>2. ASSUME NEW d \in Deliveries, ListChannels(d) \/ Answer(d) \/ GiveUp(d)
      PROVE  NotificationsInv'
  <2>1. AlertsInv'
    BY <1>2, ListChannelsSound, AnswerSound, GiveUpSound DEF NotificationsInv
  <2>2. UNCHANGED <<channel, said, update, test, incident>>
    BY <1>2 DEF ListChannels, Answer, GiveUp
  <2> QED
    BY <2>1, <2>2, ChannelsStutter, TestsStutter DEF NotificationsInv
<1>3. ASSUME NEW d \in Deliveries, NEW c \in Channels, NEW ok \in BOOLEAN, NEW arrives \in BOOLEAN,
             DeliverChannel(d, c, arrives, ok)
      PROVE  NotificationsInv'
  <2>1. AlertsInv'
    BY <1>3, DeliverChannelSound DEF NotificationsInv
  <2>2. UNCHANGED <<channel, said, update, test, incident>>
    BY <1>3 DEF DeliverChannel
  <2> QED
    BY <2>1, <2>2, ChannelsStutter, TestsStutter DEF NotificationsInv
<1> QED
  BY <1>1, <1>2, <1>3 DEF AlertNext

LEMMA NotificationsStutter ==
    ASSUME NotificationsInv, UNCHANGED notificationVars
    PROVE  NotificationsInv'
  BY ChannelsStutter, TestsStutter, AlertsStutter DEF NotificationsInv, notificationVars

\* The calls that are done with a channel are those that were given up or failed,
\* and one more.
LEMMA NotificationsSound ==
    ASSUME NotificationsInv
    PROVE  NotificationsKept
<1>1. NotificationsTypeOK /\ UpdatesKept /\ TestIncidentsResolved
  BY DEF NotificationsInv, ChannelsInv, TestsInv, AlertsInv, NotificationsTypeOK
<1>2. ASSUME NEW c \in Channels, got[c] > 1
      PROVE  got[c] - 1 <= Cardinality({d \in Deliveries : delivery[d].pc \in {"lost", "error"}})
  <2> DEFINE F == {d \in Deliveries : delivery[d].pc \in {"lost", "error"}}
  <2>1. F \in SUBSET Begun
    BY DEF Begun
  <2>2. \A d, e \in Past(c) : d \notin F /\ e \notin F => d = e
    BY DEF Past, Begun, NotificationsInv, AlertsInv, OneAwaited
  <2>3. got[c] \in Nat /\ got[c] <= Cardinality(Past(c)) /\ IsFiniteSet(Past(c)) /\ Cardinality(Past(c)) \in Nat
    BY PastFinite DEF NotificationsInv, AlertsInv, GotOncePerCall
  <2> HIDE DEF F
  <2>4. IsFiniteSet(F) /\ Cardinality(F) \in Nat
    BY <2>1, FS_Subset, FS_CardinalityType DEF NotificationsInv, AlertsInv
  <2>5. Cardinality(Past(c)) <= Cardinality(F) + 1
    <3>1. CASE Past(c) \subseteq F
      <4>1. Past(c) \in SUBSET F
        BY <3>1
      <4>2. Cardinality(Past(c)) <= Cardinality(F)
        BY <2>4, <4>1, FS_Subset
      <4> QED
        BY <2>3, <2>4, <4>2
    <3>2. CASE ~(Past(c) \subseteq F)
      <4>1. PICK x \in Past(c) : x \notin F
        BY <3>2
      <4>2. Past(c) \in SUBSET (F \cup {x})
        BY <2>2, <4>1
      <4>3. IsFiniteSet(F \cup {x}) /\ Cardinality(F \cup {x}) = Cardinality(F) + 1
        BY <2>4, <4>1, FS_AddElement
      <4> QED
        BY <4>2, <4>3, FS_Subset
    <3> QED
      BY <3>1, <3>2
  <2> QED
    BY <2>3, <2>4, <2>5 DEF F
<1>3. AlertsArrive
  BY <1>2 DEF AlertsArrive, NotificationsInv, AlertsInv, AnsweredArrived
<1> QED
  BY <1>1, <1>3 DEF NotificationsKept

-----------------------------------------------------------------------------
(* The services together. *)

ServicesInv == GuardsInv /\ CustomersInv /\ OutboxInv /\ NotificationsInv

LEMMA UpdateStep ==
    ASSUME NotificationsInv, UpdateNext
    PROVE  NotificationsInv'
<1>1. {0, 1, NoAddress} \subseteq Secrets /\ {"plain", "summary"} \subseteq {"plain", "summary"}
  BY DEF Secrets, Addresses
<1> QED
  BY <1>1, ChannelStep, PayloadsAre DEF UpdateNext

LEMMA ServicesInit ==
    ASSUME Init
    PROVE  ServicesInv
<1>1. OutboxInit /\ GuardsInit /\ CustomersInit /\ NotificationsInit
  BY DEF Init
<1> QED
  BY <1>1, OutboxInitSound, GuardsInitSound, CustomersInitSound, NotificationsInitSound DEF ServicesInv

\* Each step is one of a single part and leaves the others alone.
LEMMA ServicesStep ==
    ASSUME ServicesInv, [Next]_mcVars
    PROVE  ServicesInv'
<1>1. CASE OutboxNext /\ UNCHANGED <<guardVars, customerVars, notificationVars>>
  BY <1>1, OutboxStep, GuardsStutter, CustomersStutter, NotificationsStutter DEF ServicesInv
<1>2. CASE (SignatureNext \/ WindowNext) /\ UNCHANGED <<outboxVars, customerVars, notificationVars>>
  BY <1>2, SignatureStep, WindowStep, OutboxStutter, CustomersStutter, NotificationsStutter DEF ServicesInv
<1>3. CASE CustomersNext /\ UNCHANGED <<outboxVars, guardVars, notificationVars>>
  BY <1>3, CustomersStep, OutboxStutter, GuardsStutter, NotificationsStutter DEF ServicesInv
<1>4. CASE (UpdateNext \/ TestNext \/ AlertNext) /\ UNCHANGED <<outboxVars, guardVars, customerVars>>
  <2>1. NotificationsInv'
    BY <1>4, UpdateStep, TestStep, AlertStep DEF ServicesInv
  <2> QED
    BY <1>4, <2>1, OutboxStutter, GuardsStutter, CustomersStutter DEF ServicesInv
<1>5. CASE UNCHANGED mcVars
  BY <1>5, OutboxStutter, GuardsStutter, CustomersStutter, NotificationsStutter DEF ServicesInv, mcVars
<1> QED
  BY <1>1, <1>2, <1>3, <1>4, <1>5 DEF Next

LEMMA ServicesInvariant == Spec => []ServicesInv
<1>1. Init => ServicesInv
  BY ServicesInit
<1>2. ServicesInv /\ [Next]_mcVars => ServicesInv'
  BY ServicesStep
<1> QED
  BY <1>1, <1>2, PTL DEF Spec

\* The guards of requests (require_device_signature, check_fixed_window): a signed
\* request is let in once but for the two cases NonceStopsReplay names, no window
\* lets through more calls than its limit, and one without an end has lost its
\* EXPIRE, for any number of copies and calls and any tolerance, life and limit.
THEOREM GuardsAreKept == Spec => []GuardsKept
<1>1. ServicesInv => GuardsKept
  BY NonceSound, WindowsSound DEF ServicesInv, GuardsInv, GuardsKept
<1> QED
  BY <1>1, ServicesInvariant, PTL

\* Customers (disable_customer, confirm_password_reset): one account for an
\* address, one use of a token, and no session outlives a password or a disabling
\* unless its login was overtaken, for any number of requests of each kind.
THEOREM CustomersAreKept == Spec => []CustomersKept
<1>1. ServicesInv => CustomersKept
  BY CustomersSound DEF ServicesInv
<1> QED
  BY <1>1, ServicesInvariant, PTL

\* Mails and alerts (process_pending_email_batch, notification/): each mail beyond the first has a
\* cause of its own, a processed mail was sent, no update of a channel is lost,
\* and an acknowledged alert has arrived, for any number of workers, mails,
\* channels and calls.
THEOREM MessagesAreKept == Spec => []MessagesKept
<1>1. ServicesInv => MessagesKept
  BY OutboxSound, NotificationsSound DEF ServicesInv, MessagesKept
<1> QED
  BY <1>1, ServicesInvariant, PTL
=============================================================================
