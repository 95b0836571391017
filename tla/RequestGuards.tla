---------------------------- MODULE RequestGuards ---------------------------
(***************************************************************************)
(* What stands in front of the handlers: the signature of a device with    *)
(* its nonce (client_auth/signature.rs) and the fixed windows of the rate  *)
(* limiter (rate_limit.rs).  Both keep their state in Redis, where the     *)
(* write of a key and its expiry are two commands.                         *)
(*                                                                         *)
(* One signed request reaches the server several times.  Time runs in half *)
(* seconds: Redis expires to the millisecond, timestamps are whole seconds.*)
(***************************************************************************)
EXTENDS Integers, FiniteSets

CONSTANTS
    Copies,         \* arrivals of the one signed request
    Tolerance,      \* TIMESTAMP_TOLERANCE_SECONDS
    NonceTtl,       \* NONCE_TTL_SECONDS
    Attempts,       \* calls of check_fixed_window for one key
    MaxAttemptsPerWindow,
    WindowSeconds,
    MaxClock,       \* bound of the clock, in half seconds
    MaxRedisFaults  \* bound of the failed commands

\* The nonce outlives the tolerance, and a window is not empty.
ASSUME GuardsAssumption ==
    /\ Tolerance \in Nat /\ NonceTtl \in Nat /\ NonceTtl >= Tolerance
    /\ MaxAttemptsPerWindow \in Nat \ {0} /\ WindowSeconds \in Nat \ {0}
    /\ MaxClock \in Nat /\ MaxRedisFaults \in Nat

VARIABLES
    clock,
    stamp,          \* X-Timestamp of the request
    deviceKey,      \* the device key it is signed with is active
    nonce,          \* the key of the nonce in Redis
    copy,           \* the handlers of the arrivals
    window,         \* the key of the window in Redis
    attempt,        \* the calls of check_fixed_window
    windowsSeen,    \* how many windows there have been
    redisFaults,
    expiryLost      \* the EXPIRE of the present window failed

guardVars == <<clock, stamp, deviceKey, nonce, copy, window, attempt, windowsSeen, redisFaults, expiryLost>>

Second(t) == t \div 2

NoExpiry == MaxClock + 2 * (NonceTtl + WindowSeconds) + 1

NotSigned == -1

RedisKey == [value : Nat, expires : 0 .. NoExpiry]

NoRedisKey == [value |-> 0, expires |-> NoExpiry]

CopyRow == [pc : {"idle", "checked", "stored", "accepted", "refused"}, checkedAt : 0 .. MaxClock,
            storedAt : 0 .. MaxClock]

AttemptRow == [pc : {"idle", "counted", "done"}, count : Nat, window : Nat]

GuardsTypeOK ==
    /\ clock \in 0 .. MaxClock /\ stamp \in {NotSigned} \cup 0 .. Second(MaxClock)
    /\ deviceKey \in BOOLEAN /\ expiryLost \in BOOLEAN
    /\ nonce \in RedisKey /\ window \in RedisKey
    /\ copy \in [Copies -> CopyRow] /\ attempt \in [Attempts -> AttemptRow]
    /\ windowsSeen \in Nat /\ redisFaults \in 0 .. MaxRedisFaults

GuardsInit ==
    /\ clock = 0 /\ stamp = NotSigned /\ deviceKey = TRUE
    /\ nonce = NoRedisKey /\ window = NoRedisKey
    /\ copy = [c \in Copies |-> [pc |-> "idle", checkedAt |-> 0, storedAt |-> 0]]
    /\ attempt = [a \in Attempts |-> [pc |-> "idle", count |-> 0, window |-> 0]]
    /\ windowsSeen = 0 /\ redisFaults = 0 /\ expiryLost = FALSE

nonceVars == <<stamp, deviceKey, nonce, copy>>

windowVars == <<window, attempt, windowsSeen, expiryLost>>

Expired(k, t) == IF k.expires <= t THEN NoRedisKey ELSE k

\* Time passes and Redis drops the keys whose time has come.
ClockTick ==
    /\ clock < MaxClock
    /\ clock' = clock + 1
    /\ nonce' = Expired(nonce, clock + 1) /\ window' = Expired(window, clock + 1)
    /\ UNCHANGED <<stamp, deviceKey, copy, attempt, windowsSeen, redisFaults, expiryLost>>

RedisFault == redisFaults < MaxRedisFaults /\ redisFaults' = redisFaults + 1

-----------------------------------------------------------------------------
(* Device signatures. *)

\* signature_message: the client's clock may be behind or ahead.
SignRequest(s) ==
    /\ stamp = NotSigned
    /\ stamp' = s
    /\ UNCHANGED <<clock, deviceKey, nonce, copy, windowVars, redisFaults>>

\* The device key is rotated or the device is unbound.
RevokeDeviceKey ==
    /\ deviceKey
    /\ deviceKey' = FALSE
    /\ UNCHANGED <<clock, stamp, nonce, copy, windowVars, redisFaults>>

WithinTolerance == Second(clock) - stamp \in -Tolerance .. Tolerance

\* require_device_signature up to verify_ed25519_signature.
CheckSignature(c) ==
    /\ copy[c].pc = "idle" /\ stamp # NotSigned
    /\ copy' = [copy EXCEPT ![c].pc = IF WithinTolerance /\ deviceKey THEN "checked" ELSE "refused",
                            ![c].checkedAt = clock]
    /\ UNCHANGED <<clock, stamp, deviceKey, nonce, windowVars, redisFaults>>

\* Mutant: the nonce is written whether it is there or not.
NonceFreeAlways == TRUE

\* The answer of set_nx.
NonceFree == nonce.value = 0

\* The first command of store_nonce.
SetNonce(c) ==
    /\ copy[c].pc = "checked"
    /\ IF NonceFree
       THEN /\ nonce' = [value |-> 1, expires |-> NoExpiry]
            /\ copy' = [copy EXCEPT ![c].pc = "stored", ![c].storedAt = clock]
       ELSE copy' = [copy EXCEPT ![c].pc = "refused"] /\ UNCHANGED nonce
    /\ UNCHANGED <<clock, stamp, deviceKey, windowVars, redisFaults>>

\* Its second command, and the request goes on to its handler.
ExpireNonce(c) ==
    /\ copy[c].pc = "stored"
    /\ nonce' = IF nonce.value = 0 THEN nonce ELSE [nonce EXCEPT !.expires = clock + 2 * NonceTtl]
    /\ copy' = [copy EXCEPT ![c].pc = "accepted"]
    /\ UNCHANGED <<clock, stamp, deviceKey, windowVars, redisFaults>>

\* EXPIRE fails: the request is refused and its nonce stays for ever.
ExpireNonceFails(c) ==
    /\ copy[c].pc = "stored" /\ RedisFault
    /\ copy' = [copy EXCEPT ![c].pc = "refused"]
    /\ UNCHANGED <<clock, stamp, deviceKey, nonce, windowVars>>

-----------------------------------------------------------------------------
(* Fixed windows. *)

\* INCR.
CountAttempt(a) ==
    /\ attempt[a].pc = "idle"
    /\ window' = [window EXCEPT !.value = @ + 1]
    /\ windowsSeen' = IF window.value = 0 THEN windowsSeen + 1 ELSE windowsSeen
    /\ expiryLost' = (expiryLost /\ window.value # 0)
    /\ attempt' = [attempt EXCEPT ![a] = [pc |-> "counted", count |-> window.value + 1,
                                          window |-> windowsSeen']]
    /\ UNCHANGED <<clock, nonceVars, redisFaults>>

\* The first one gives the window its end.
SetsExpiry(a) == attempt[a].count = 1

\* EXPIRE of a key that has gone meanwhile changes nothing.
EndAttempt(a) ==
    /\ attempt[a].pc = "counted"
    /\ window' = IF SetsExpiry(a) /\ window.value > 0
                 THEN [window EXCEPT !.expires = clock + 2 * WindowSeconds] ELSE window
    /\ attempt' = [attempt EXCEPT ![a].pc = "done"]
    /\ UNCHANGED <<clock, nonceVars, windowsSeen, redisFaults, expiryLost>>

\* EXPIRE fails, or the process stops between the two commands.
ExpireWindowFails(a) ==
    /\ attempt[a].pc = "counted" /\ SetsExpiry(a) /\ RedisFault
    /\ expiryLost' = TRUE
    /\ attempt' = [attempt EXCEPT ![a].pc = "done"]
    /\ UNCHANGED <<clock, nonceVars, window, windowsSeen>>

\* A call that is let through.
Passes(a) == attempt[a].pc # "idle" /\ attempt[a].count <= MaxAttemptsPerWindow

\* Nonces and windows are different keys and never meet.
SignatureNext ==
    \/ ClockTick \/ RevokeDeviceKey
    \/ \E s \in 0 .. Second(MaxClock) : SignRequest(s)
    \/ \E c \in Copies : CheckSignature(c) \/ SetNonce(c) \/ ExpireNonce(c) \/ ExpireNonceFails(c)

WindowNext ==
    \/ ClockTick
    \/ \E a \in Attempts : CountAttempt(a) \/ EndAttempt(a) \/ ExpireWindowFails(a)

-----------------------------------------------------------------------------
\* A signed request is let in once, however often it arrives, with two
\* exceptions: its timestamp was not before the server's second when it came
\* first, so that it is still good when the nonce is gone; or its handler was
\* held up between the check of the timestamp and the nonce
\* (require_device_signature, store_nonce).
NonceStopsReplay ==
    \A c, d \in Copies :
        (c # d /\ copy[c].pc = "accepted" /\ copy[d].pc = "accepted"
           /\ copy[c].storedAt <= copy[d].storedAt) =>
            \/ stamp >= Second(copy[c].storedAt)
            \/ copy[d].storedAt > copy[d].checkedAt

\* A window lets as many calls through as it is meant to, and one that will
\* never end, so that its subject stays locked out, is one whose EXPIRE failed
\* or is about to be sent (check_fixed_window).
WindowsEnd ==
    /\ \A n \in 1 .. windowsSeen :
          Cardinality({a \in Attempts : Passes(a) /\ attempt[a].window = n}) <= MaxAttemptsPerWindow
    /\ (window.value > 0 /\ window.expires = NoExpiry) =>
          \/ expiryLost
          \/ \E a \in Attempts : attempt[a].pc = "counted" /\ attempt[a].count = 1

\* Signatures and windows together.
GuardsKept == GuardsTypeOK /\ NonceStopsReplay /\ WindowsEnd
=============================================================================
