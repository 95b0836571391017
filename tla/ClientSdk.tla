------------------------------ MODULE ClientSdk -----------------------------
(***************************************************************************)
(* The session a client keeps (client-sdk: session.rs, cache.rs,           *)
(* request.rs, auth.rs, device.rs) against the server that rotates its     *)
(* refresh token and its device key.                                       *)
(*                                                                         *)
(* Threads of one process share a SessionManager, whose mutex is held      *)
(* while the refresh callback talks to the server.  What survives the      *)
(* process is the envelope the application saved last: the manager works   *)
(* on a copy of its session.  A request the client no longer waits for,    *)
(* because it gave up or ended, may still reach the server.                *)
(***************************************************************************)
EXTENDS Integers

CONSTANTS
    Threads,
    MaxLogins,        \* sessions the server opens
    MaxRefreshes,     \* refresh tokens of a session
    MaxKeys,          \* device keys
    MaxRestarts

VARIABLES
    server,       \* per session: the token it exchanges, whether it is alive, whether it saw a reuse
    serverKey,    \* the active row of device_keys
    logins,
    mem,          \* the session in the SessionManager
    envelope,     \* the device key of the envelope in memory
    disk,         \* the envelope the application saved
    due,          \* sessions whose access token is about to expire
    mutex,        \* who holds the mutex of the manager
    call,         \* the requests being built
    sent,         \* refresh requests nobody waits for, on their way to the server
    rotating,     \* the rotation of the device key
    sentKeys,     \* the keys that sign rotations nobody waits for, on their way too
    restarts,
    fromOldDisk,  \* sessions taken from an envelope whose token had been sent before
    keyLost       \* a rotation of the device key whose answer the client lost

sdkVars == <<server, serverKey, logins, mem, envelope, disk, due, mutex, call, sent, rotating, sentKeys,
             restarts, fromOldDisk, keyLost>>

Sessions == 1 .. MaxLogins

NoSession == [s |-> 0, n |-> 0]

SessionState == [s : 0 .. MaxLogins, n : 0 .. MaxRefreshes]

Nobody == "nobody"

ASSUME SdkAssumption ==
    /\ MaxLogins \in Nat /\ MaxRefreshes \in Nat \ {0} /\ MaxKeys \in Nat \ {0} /\ MaxRestarts \in Nat
    /\ Nobody \notin Threads

CallRow == [pc : {"idle", "refreshing", "accepted", "refused", "built", "failed"}, tok : SessionState]

SdkTypeOK ==
    /\ server \in [Sessions -> [cur : 0 .. MaxRefreshes, alive : BOOLEAN, reused : BOOLEAN]]
    /\ serverKey \in 1 .. MaxKeys /\ envelope \in 1 .. MaxKeys
    /\ logins \in 0 .. MaxLogins /\ restarts \in 0 .. MaxRestarts
    /\ mem \in SessionState
    /\ disk \in [session : SessionState, key : 1 .. MaxKeys]
    /\ due \in BOOLEAN
    /\ mutex \in Threads \cup {Nobody}
    /\ call \in [Threads -> CallRow]
    /\ sent \in SUBSET SessionState
    /\ rotating \in {"idle", "sent", "answered"} /\ sentKeys \in SUBSET (1 .. MaxKeys)
    /\ fromOldDisk \in SUBSET Sessions /\ keyLost \in BOOLEAN

IdleCall == [pc |-> "idle", tok |-> NoSession]

SdkInit ==
    /\ server = [s \in Sessions |-> [cur |-> 0, alive |-> FALSE, reused |-> FALSE]]
    /\ serverKey = 1 /\ envelope = 1 /\ logins = 0 /\ restarts = 0
    /\ mem = NoSession /\ disk = [session |-> NoSession, key |-> 1]
    /\ due = FALSE /\ mutex = Nobody
    /\ call = [t \in Threads |-> IdleCall]
    /\ sent = {} /\ rotating = "idle" /\ sentKeys = {} /\ fromOldDisk = {} /\ keyLost = FALSE

keyState == <<serverKey, envelope, rotating, sentKeys, keyLost>>

sessionState == <<logins, mem, disk, due, mutex, call, sent, restarts, fromOldDisk>>

\* apply_auth_response: activation or login, and set_session under the mutex.
ApplyAuthResponse ==
    /\ mutex = Nobody /\ mem = NoSession /\ logins < MaxLogins
    /\ logins' = logins + 1
    /\ server' = [server EXCEPT ![logins + 1] = [cur |-> 1, alive |-> TRUE, reused |-> FALSE]]
    /\ mem' = [s |-> logins + 1, n |-> 1] /\ due' = FALSE
    /\ UNCHANGED <<keyState, disk, mutex, call, sent, restarts, fromOldDisk>>

\* needs_access_token_refresh becomes true.
TokenDue ==
    /\ mem # NoSession /\ ~due
    /\ due' = TRUE
    /\ UNCHANGED <<server, keyState, logins, mem, disk, mutex, call, sent, restarts, fromOldDisk>>

\* Mutant: the mutex is let go while the callback runs.
RefreshMutexReleased(t) == Nobody

\* The mutex during the refresh callback.
RefreshMutex(t) == t

\* build_authorized_device_request: the request carries the token and is signed.
Built(tok) == [pc |-> "built", tok |-> tok]

\* session_after_refresh_if_needed: no session, a token that is good enough, an
\* expired refresh token, or a refresh.
BuildRequest(t) ==
    /\ call[t].pc \in {"idle", "built", "failed"} /\ mutex = Nobody
    /\ \/ /\ mem = NoSession /\ call[t].pc # "failed"
          /\ call' = [call EXCEPT ![t] = [pc |-> "failed", tok |-> NoSession]]
          /\ UNCHANGED <<mem, mutex>>
       \/ /\ mem # NoSession /\ ~due
          /\ call' = [call EXCEPT ![t] = Built(mem)]
          /\ UNCHANGED <<mem, mutex>>
       \/ /\ mem # NoSession /\ due
          /\ mem' = NoSession
          /\ call' = [call EXCEPT ![t] = [pc |-> "failed", tok |-> NoSession]]
          /\ UNCHANGED mutex
       \/ /\ mem # NoSession /\ due
          /\ mutex' = RefreshMutex(t)
          /\ call' = [call EXCEPT ![t] = [pc |-> "refreshing", tok |-> mem]]
          /\ UNCHANGED mem
    /\ UNCHANGED <<server, keyState, logins, disk, due, sent, restarts, fromOldDisk>>

\* What the server does with token tok: exchange it once, end the session when
\* it comes again.
Exchanged(tok) ==
    LET row == server[tok.s] IN
    CASE row.alive /\ row.cur = tok.n -> [row EXCEPT !.cur = @ + 1]
      [] row.cur > tok.n -> [row EXCEPT !.alive = FALSE, !.reused = TRUE]
      [] OTHER -> row

ServerRefresh(t) ==
    LET tok == call[t].tok IN
    /\ call[t].pc = "refreshing"
    /\ server[tok.s].cur < MaxRefreshes
    /\ server' = [server EXCEPT ![tok.s] = Exchanged(tok)]
    /\ call' = [call EXCEPT ![t].pc =
                  IF server[tok.s].alive /\ server[tok.s].cur = tok.n THEN "accepted" ELSE "refused"]
    /\ UNCHANGED <<keyState, logins, mem, disk, due, mutex, sent, restarts, fromOldDisk>>

\* The server gets to a refresh request that nobody waits for any more.
ServerRefreshLate(tok) ==
    /\ tok \in sent /\ server[tok.s].cur < MaxRefreshes
    /\ server' = [server EXCEPT ![tok.s] = Exchanged(tok)]
    /\ sent' = sent \ {tok}
    /\ UNCHANGED <<keyState, logins, mem, disk, due, mutex, call, restarts, fromOldDisk>>

\* apply_refresh, and the request is built with the new token.
ApplyRefresh(t) ==
    /\ call[t].pc = "accepted"
    /\ mem' = [call[t].tok EXCEPT !.n = @ + 1] /\ due' = FALSE /\ mutex' = Nobody
    /\ call' = [call EXCEPT ![t] = Built(mem')]
    /\ UNCHANGED <<server, keyState, logins, disk, sent, restarts, fromOldDisk>>

\* Any error of the callback clears the session.
AfterFailedRefresh(t) == NoSession

\* The requests the threads ts wait for and the server has not seen.
OnTheirWay(ts) == {call[t].tok : t \in {u \in ts : call[u].pc = "refreshing"}}

\* The request, the answer or the exchange fails.
RefreshFails(t) ==
    /\ call[t].pc \in {"refreshing", "accepted", "refused"}
    /\ mem' = AfterFailedRefresh(t) /\ mutex' = Nobody
    /\ call' = [call EXCEPT ![t] = [pc |-> "failed", tok |-> NoSession]]
    /\ sent' = sent \cup OnTheirWay({t})
    /\ UNCHANGED <<server, keyState, logins, disk, due, restarts, fromOldDisk>>

\* logout_request and into_logout_cache.
Logout ==
    /\ mutex = Nobody /\ mem # NoSession
    /\ server' = [server EXCEPT ![mem.s].alive = FALSE]
    /\ mem' = NoSession /\ due' = FALSE
    /\ disk' = [disk EXCEPT !.session = NoSession]
    /\ UNCHANGED <<keyState, logins, mutex, call, sent, restarts, fromOldDisk>>

\* The application makes an envelope of the current session and saves it.
SaveCache ==
    /\ mutex = Nobody
    /\ disk' = [session |-> mem, key |-> envelope]
    /\ UNCHANGED <<server, keyState, logins, mem, due, mutex, call, sent, restarts, fromOldDisk>>

\* The process ends and starts again from the envelope on disk: session_manager.
Restart ==
    /\ restarts < MaxRestarts
    /\ restarts' = restarts + 1
    /\ mem' = disk.session /\ due' = TRUE /\ envelope' = disk.key
    /\ mutex' = Nobody /\ call' = [t \in Threads |-> IdleCall] /\ rotating' = "idle"
    /\ sent' = sent \cup OnTheirWay(Threads)
    /\ sentKeys' = IF rotating = "sent" THEN sentKeys \cup {envelope} ELSE sentKeys
    /\ fromOldDisk' = fromOldDisk \cup
          {s \in Sessions : disk.session.s = s /\ (disk.session.n # server[s].cur \/ disk.session \in sent')}
    /\ keyLost' = (keyLost \/ disk.key # serverKey)
    /\ UNCHANGED <<server, serverKey, logins, disk>>

\* rotate_device_key_in_transaction: the old key ends and the new one is active.
ServerRotatedKey == serverKey + 1

\* rotate_device_key_request, signed with the key of the envelope.
SendKeyRotation ==
    /\ mem # NoSession /\ rotating = "idle"
    /\ rotating' = "sent"
    /\ UNCHANGED <<server, serverKey, envelope, sentKeys, keyLost, sessionState>>

\* rotate_self_key of the server: the key named in the header must be active.
RotateDeviceKey ==
    /\ rotating = "sent" /\ envelope = serverKey /\ serverKey < MaxKeys
    /\ serverKey' = ServerRotatedKey /\ rotating' = "answered"
    /\ UNCHANGED <<server, envelope, sentKeys, keyLost, sessionState>>

\* The same for a request nobody waits for: the answer is lost.
RotateDeviceKeyLate ==
    /\ serverKey \in sentKeys /\ serverKey < MaxKeys
    /\ serverKey' = ServerRotatedKey /\ keyLost' = TRUE
    /\ sentKeys' = sentKeys \ {serverKey}
    /\ UNCHANGED <<server, envelope, rotating, sessionState>>

\* apply_device_key_rotation.
RotatedEnvelope == serverKey

ApplyDeviceKeyRotation ==
    /\ rotating = "answered"
    /\ envelope' = RotatedEnvelope /\ rotating' = "idle"
    /\ UNCHANGED <<server, serverKey, sentKeys, keyLost, sessionState>>

\* The request or its answer is lost, or the server refuses.
KeyRotationFails ==
    /\ rotating \in {"sent", "answered"}
    /\ rotating' = "idle"
    /\ keyLost' = (keyLost \/ rotating = "answered")
    /\ sentKeys' = IF rotating = "sent" THEN sentKeys \cup {envelope} ELSE sentKeys
    /\ UNCHANGED <<server, serverKey, envelope, sessionState>>

SdkNext ==
    \/ ApplyAuthResponse \/ TokenDue \/ Logout \/ SaveCache \/ Restart
    \/ SendKeyRotation \/ RotateDeviceKey \/ RotateDeviceKeyLate \/ ApplyDeviceKeyRotation \/ KeyRotationFails
    \/ \E t \in Threads : BuildRequest(t) \/ ServerRefresh(t) \/ ApplyRefresh(t) \/ RefreshFails(t)
    \/ \E tok \in sent : ServerRefreshLate(tok)

-----------------------------------------------------------------------------
\* The server takes a client for a thief only when its process came back from an
\* envelope whose refresh token it had sent before, be it that the server had seen
\* it by then or that it was still on its way.  As long as the process lives, or
\* comes back from an envelope it saved after the last refresh, concurrent
\* requests, failed refreshes, lost answers and requests that arrive late never
\* present a token twice (session_after_refresh_if_needed, client_auth/refresh.rs).
ReuseOnlyFromOldDisk == \A s \in Sessions : server[s].reused => s \in fromOldDisk

\* Client and server agree on the device key unless the answer to a rotation or
\* the envelope saved after it was lost, after which the client can sign nothing
\* any more
\* (apply_device_key_rotation, rotate_self_key).
DeviceKeyAgrees == envelope # serverKey => (rotating = "answered" \/ keyLost)
=============================================================================
