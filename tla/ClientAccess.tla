---------------------------- MODULE ClientAccess ----------------------------
(***************************************************************************)
(* How an application instance gets and keeps access: licences and         *)
(* subscriptions (license/, subscription/), the devices bound to them and  *)
(* the device blacklist (device/), client sessions and their rotating      *)
(* refresh tokens (client_auth/).                                          *)
(*                                                                         *)
(* activate and login validate the licence or subscription, then check and *)
(* bind the device, open a session and issue its first refresh token in    *)
(* one transaction.  refresh checks the token and its session, then marks  *)
(* the token used and issues the next one in one transaction.  No          *)
(* transaction locks what it has only read (READ COMMITTED), so requests   *)
(* act on what may have changed; a back-office transaction revokes the     *)
(* tokens and the sessions it saw when the statement for them began, waits *)
(* for the row locks of refreshes under way, and commits later, after its  *)
(* entry in the audit log.                                                 *)
(*                                                                         *)
(* One application and one customer.  A session and a refresh token are    *)
(* identified by the request that created them, a device by its machine.   *)
(***************************************************************************)
EXTENDS Integers, FiniteSets

CONSTANTS
    Licenses, Subscriptions,
    MaxDevices,  \* max_devices of a licence or subscription
    Machines,    \* machine ids
    Requests,    \* client requests: activations, logins and refreshes
    NoGrant,     \* license_id and subscription_id are both null
    Admins,      \* back-office requests in flight at the same time
    MaxAdmin     \* bound on the number of back-office operations

Grants == Licenses \cup Subscriptions

ASSUME AccessAssumption ==
    /\ Licenses \cap Subscriptions = {} /\ NoGrant \notin Grants
    /\ Machines /= {} /\ Grants /= {}
    /\ MaxDevices \in [Grants -> Nat]
    /\ MaxAdmin \in Nat

VARIABLES
    grant,      \* licenses and subscriptions
    device,     \* devices, by machine
    blacklist,  \* machines in device_blacklist
    session,    \* client_sessions
    token,      \* client_refresh_tokens
    request,    \* the locals of a client request
    admin,      \* the locals of a back-office request
    adminOps    \* how many such operations have begun

vars == <<grant, device, blacklist, session, token, request, admin, adminOps>>

\* closed is revoked_at or cancelled_at, expired is expires_at <= now().
GrantRow == [status : {"active", "suspended", "revoked", "cancelled"},
             closed : BOOLEAN, expired : BOOLEAN]

DeviceRow == [status : {"none", "active", "unbound", "blacklisted"},
              grant : Grants \cup {NoGrant}]

\* overtaken (history): the login raced with the loss of its device, see Overtaken.
SessionRow == [open : BOOLEAN, device : Machines, revoked : BOOLEAN, overtaken : BOOLEAN]

TokenRow == [issued : BOOLEAN, session : Requests, used : BOOLEAN, revoked : BOOLEAN]

RequestState ==
    [pc : {"new", "binding", "writing", "rotating", "marked", "revoking",
           "ended", "rotated", "reused"},
     machine : Machines, grant : Grants \cup {NoGrant}, token : Requests,
     plan : {"none", "keep", "rebind", "create"}]

DeviceOps == {"unbind", "blacklist", "unblacklist"}
StatusOps == {"revoke", "suspend", "cancel", "resume", "renew"}

\* pc is the statement under way: begun the update of the licence, the
\* subscription or the devices, tokens and sessions the revocations, audit the
\* entry in the audit log and the commit.  hit: the delete from
\* device_blacklist found a row; rows: the devices the transaction has written;
\* saw, ended: the tokens and the sessions it revokes.
AdminState ==
    [pc : {"idle", "begun", "tokens", "sessions", "audit"},
     op : DeviceOps \cup StatusOps \cup {"none", "reset"},
     machine : Machines, grant : Grants, hit : BOOLEAN,
     rows : SUBSET Machines, saw : SUBSET Requests, ended : SUBSET Requests]

\* The types, and the foreign keys of client_sessions and client_refresh_tokens.
TypeOK ==
    /\ grant \in [Grants -> GrantRow]
    /\ device \in [Machines -> DeviceRow]
    /\ blacklist \subseteq Machines
    /\ session \in [Requests -> SessionRow]
    /\ token \in [Requests -> TokenRow]
    /\ request \in [Requests -> RequestState]
    /\ admin \in [Admins -> AdminState]
    /\ adminOps \in Nat
    /\ \A s \in Requests : session[s].open => device[session[s].device].status /= "none"
    /\ \A t \in Requests : token[t].issued => session[token[t].session].open

AnyMachine == CHOOSE m \in Machines : TRUE

AnyGrant == CHOOSE g \in Grants : TRUE

NoAdmin == [pc |-> "idle", op |-> "none", machine |-> AnyMachine, grant |-> AnyGrant,
            hit |-> FALSE, rows |-> {}, saw |-> {}, ended |-> {}]

Init ==
    /\ grant = [g \in Grants |-> [status |-> "active", closed |-> FALSE, expired |-> FALSE]]
    /\ device = [m \in Machines |-> [status |-> "none", grant |-> NoGrant]]
    /\ blacklist = {}
    /\ session = [r \in Requests |-> [open |-> FALSE, device |-> AnyMachine, revoked |-> FALSE,
                                      overtaken |-> FALSE]]
    /\ token = [r \in Requests |-> [issued |-> FALSE, session |-> r, used |-> FALSE,
                                    revoked |-> FALSE]]
    /\ request = [r \in Requests |-> [pc |-> "new", machine |-> AnyMachine, grant |-> NoGrant,
                                      token |-> r, plan |-> "none"]]
    /\ admin = [a \in Admins |-> NoAdmin]
    /\ adminOps = 0

-----------------------------------------------------------------------------
\* validate_license_record, validate_subscription_record.
Valid(g) == grant[g].status = "active" /\ ~grant[g].closed /\ ~grant[g].expired

\* active_device_count_for_license, active_device_count_for_subscription.
ActiveDevices(g) == {m \in Machines : device[m].grant = g /\ device[m].status = "active"}

\* ensure_device_limit_available, ensure_subscription_device_limit_available.
LimitAvailable(g) == Cardinality(ActiveDevices(g)) < MaxDevices[g]

Live(t) == token[t].issued /\ ~token[t].used /\ ~token[t].revoked

\* What require_client_session asks of a session on every request.
Authorized(s) ==
    session[s].open /\ ~session[s].revoked /\ device[session[s].device].status = "active"

Goto(r, pc) == request' = [request EXCEPT ![r].pc = pc]

\* The row locks of the back-office transactions that have yet to commit: on
\* devices, on the tokens and on the sessions they have revoked.
DeviceLocked(m) ==
    \E a \in Admins : admin[a].pc \in {"tokens", "sessions", "audit"} /\ m \in admin[a].rows

TokenLocked(t) ==
    \E a \in Admins : admin[a].pc \in {"sessions", "audit"} /\ t \in admin[a].saw

SessionLocked(s) == \E a \in Admins : admin[a].pc = "audit" /\ s \in admin[a].ended

-----------------------------------------------------------------------------
(***************************************************************************)
(* activate and login.                                                     *)
(***************************************************************************)

\* The licence key is valid, or the customer's password is right and their
\* valid subscription, if there is one, has been found.
BeginBind(r) ==
    /\ request[r].pc = "new"
    /\ \E m \in Machines, g \in Grants \cup {NoGrant} :
         /\ g \in Grants => Valid(g)
         /\ g = NoGrant => \A s \in Subscriptions : ~Valid(s)
         /\ request' = [request EXCEPT ![r] = [pc |-> "binding", machine |-> m, grant |-> g,
                                               token |-> r, plan |-> "none"]]
    /\ UNCHANGED <<grant, device, blacklist, session, token, admin, adminOps>>

\* bind_for_license_in_transaction, bind_for_subscription_in_transaction,
\* bind_for_customer_session_in_transaction: what their reads decide.
BindPlan(m, g) ==
    CASE m \in blacklist                                   -> "none"
      [] device[m].status \in {"unbound", "blacklisted"}   -> "none"
      [] device[m].status = "active" /\ (g \notin Subscriptions \/ device[m].grant = g)
                                                           -> "keep"
      [] g /= NoGrant /\ ~LimitAvailable(g)                -> "none"
      [] device[m].status = "active"                       -> "rebind"
      [] OTHER                                             -> "create"

BindCheck(r) ==
    LET plan == BindPlan(request[r].machine, request[r].grant) IN
    /\ request[r].pc = "binding"
    /\ request' = [request EXCEPT ![r].pc = IF plan = "none" THEN "ended" ELSE "writing",
                                  ![r].plan = plan]
    /\ UNCHANGED <<grant, device, blacklist, session, token, admin, adminOps>>

\* The transaction takes devices away; and one that is about to take this one
\* away has already looked for its sessions.
TakesDevices(a) ==
    \/ admin[a].op \in {"unbind", "blacklist"}
    \/ admin[a].op = "reset" /\ admin[a].grant \in Licenses

Looked(m) ==
    \E a \in Admins : /\ admin[a].pc \in {"sessions", "audit"}
                      /\ TakesDevices(a) /\ m \in admin[a].rows

\* A login is overtaken if such a transaction does not see its session, or if
\* the device has been taken away since the checks.
Overtaken(m) == Looked(m) \/ device[m].status \in {"unbound", "blacklisted"}

OpenSession(r, m) ==
    /\ session' = [session EXCEPT ![r] = [open |-> TRUE, device |-> m, revoked |-> FALSE,
                                          overtaken |-> Overtaken(m)]]
    /\ token' = [token EXCEPT ![r] = [issued |-> TRUE, session |-> r, used |-> FALSE,
                                      revoked |-> FALSE]]

\* The writes and the commit.  A device that appeared meanwhile is refused by
\* the unique index idx_devices_app_machine.
BindCommit(r) ==
    LET m == request[r].machine
        g == request[r].grant
    IN
    /\ request[r].pc = "writing"
    /\ \/ /\ request[r].plan = "keep"
          /\ OpenSession(r, m)
          /\ UNCHANGED device
       \/ /\ request[r].plan = "rebind" /\ ~DeviceLocked(m)
          /\ device' = [device EXCEPT ![m].grant = g]
          /\ OpenSession(r, m)
       \/ /\ request[r].plan = "create" /\ device[m].status = "none"
          /\ device' = [device EXCEPT ![m] = [status |-> "active", grant |-> g]]
          /\ OpenSession(r, m)
       \/ /\ request[r].plan = "create" /\ device[m].status /= "none"
          /\ UNCHANGED <<device, session, token>>
    /\ Goto(r, "ended")
    /\ UNCHANGED <<grant, blacklist, admin, adminOps>>

-----------------------------------------------------------------------------
(***************************************************************************)
(* refresh.                                                                *)
(***************************************************************************)

\* The reads: a used or revoked token ends the session, a live token of a live
\* session on an active device is exchanged, anything else is turned away.
RefreshRead(r) ==
    /\ request[r].pc = "new"
    /\ \E t \in Requests :
         /\ token[t].issued
         /\ request' = [request EXCEPT
              ![r].token = t,
              ![r].pc = CASE token[t].used \/ token[t].revoked -> "revoking"
                          [] Authorized(token[t].session)      -> "rotating"
                          [] OTHER                             -> "ended"]
    /\ UNCHANGED <<grant, device, blacklist, session, token, admin, adminOps>>

Marked(t) == \E r \in Requests : request[r].pc = "marked" /\ request[r].token = t

\* Mutant of RefreshMark: the update has no condition on used_at.
RefreshMarkUnchecked(r) ==
    /\ request[r].pc = "rotating"
    /\ Goto(r, "marked")
    /\ UNCHANGED <<grant, device, blacklist, session, token, admin, adminOps>>

\* mark_refresh_token_used_in_transaction: waits for the row lock, then marks
\* the token or finds out that it is used or revoked by now.
RefreshMark(r) ==
    /\ request[r].pc = "rotating"
    /\ ~Marked(request[r].token)
    /\ Live(request[r].token) => ~TokenLocked(request[r].token)
    /\ Goto(r, IF Live(request[r].token) THEN "marked" ELSE "revoking")
    /\ UNCHANGED <<grant, device, blacklist, session, token, admin, adminOps>>

\* Mutant of RefreshCommit: the next token is issued for a session of its own.
RefreshCommitOwnSession(r) ==
    /\ request[r].pc = "marked"
    /\ token' = [token EXCEPT ![request[r].token].used = TRUE,
                              ![r] = [issued |-> TRUE, session |-> r, used |-> FALSE,
                                      revoked |-> FALSE]]
    /\ Goto(r, "rotated")
    /\ UNCHANGED <<grant, device, blacklist, session, admin, adminOps>>

\* create_client_refresh_token_in_transaction and the commit.
RefreshCommit(r) ==
    LET t == request[r].token IN
    /\ request[r].pc = "marked"
    /\ token' = [token EXCEPT ![t].used = TRUE,
                              ![r] = [issued |-> TRUE, session |-> token[t].session,
                                      used |-> FALSE, revoked |-> FALSE]]
    /\ Goto(r, "rotated")
    /\ UNCHANGED <<grant, device, blacklist, session, admin, adminOps>>

\* Mutant of RefreshRevoke: only the reused token is revoked.
RefreshRevokeToken(r) ==
    /\ request[r].pc = "revoking"
    /\ token' = [token EXCEPT ![request[r].token].revoked = TRUE]
    /\ Goto(r, "reused")
    /\ UNCHANGED <<grant, device, blacklist, session, admin, adminOps>>

\* revoke_session, which waits for the row lock unless the session is revoked.
RevokeSession(s) ==
    /\ SessionLocked(s) => session[s].revoked
    /\ session' = [session EXCEPT ![s].revoked = TRUE]

\* A reuse was detected.
RefreshRevoke(r) ==
    /\ request[r].pc = "revoking"
    /\ RevokeSession(token[request[r].token].session)
    /\ Goto(r, "reused")
    /\ UNCHANGED <<grant, device, blacklist, token, admin, adminOps>>

\* The request stops; an open transaction is rolled back.
Stop(r) ==
    /\ request[r].pc \in {"binding", "writing", "rotating", "marked", "revoking"}
    /\ Goto(r, "ended")
    /\ UNCHANGED <<grant, device, blacklist, session, token, admin, adminOps>>

\* logout: revoke_session for an authorized session.
Logout(s) ==
    /\ Authorized(s)
    /\ RevokeSession(s)
    /\ UNCHANGED <<grant, device, blacklist, token, request, admin, adminOps>>

-----------------------------------------------------------------------------
(***************************************************************************)
(* The back office.  A request reads the row and checks it, then starts a  *)
(* transaction that writes the licence, the subscription or the devices    *)
(* and revokes the tokens, then the sessions, of the devices concerned.    *)
(***************************************************************************)

\* An uncommitted blacklisting of m, an uncommitted transaction that holds
\* the row of m in device_blacklist.
Blacklisting(m) ==
    \E a \in Admins :
        admin[a].pc /= "idle" /\ admin[a].op = "blacklist" /\ admin[a].machine = m

ListingLocked(m) ==
    Blacklisting(m) \/ \E a \in Admins : admin[a].hit /\ admin[a].machine = m

AdminBegin(a, op, m, g, hit) ==
    /\ admin[a].pc = "idle" /\ adminOps < MaxAdmin
    /\ admin' = [admin EXCEPT ![a] = [pc |-> "begun", op |-> op, machine |-> m, grant |-> g,
                                      hit |-> hit, rows |-> {}, saw |-> {}, ended |-> {}]]
    /\ adminOps' = adminOps + 1
    /\ UNCHANGED <<grant, device, blacklist, session, token, request>>

\* unbind_device, and unbind_self by a client with a session on the device.
UnbindDevice(a, m) ==
    /\ device[m].status /= "none"
    /\ AdminBegin(a, "unbind", m, AnyGrant, FALSE)

\* Up to add_device_blacklist_in_transaction.
BlacklistDevice(a, m) ==
    /\ device[m].status /= "none" /\ ~ListingLocked(m)
    /\ AdminBegin(a, "blacklist", m, AnyGrant, FALSE)

\* Up to remove_device_blacklist_in_transaction, which does not see an entry
\* that another transaction has yet to commit, be it a new one or one that
\* replaces the entry that is there.
UnblacklistDevice(a, m) ==
    /\ device[m].status /= "none"
    /\ \/ /\ m \in blacklist /\ ~ListingLocked(m)
          /\ AdminBegin(a, "unblacklist", m, AnyGrant, TRUE)
       \/ /\ m \notin blacklist \/ Blacklisting(m)
          /\ AdminBegin(a, "unblacklist", m, AnyGrant, FALSE)

\* The handlers of a licence check nothing before the transaction.
RevokeLicense(a, l)       == AdminBegin(a, "revoke", AnyMachine, l, FALSE)
SuspendLicense(a, l)      == AdminBegin(a, "suspend", AnyMachine, l, FALSE)
RenewLicense(a, l)        == AdminBegin(a, "renew", AnyMachine, l, FALSE)
ResetLicenseDevices(a, l) == AdminBegin(a, "reset", AnyMachine, l, FALSE)

CancelSubscription(a, s) == AdminBegin(a, "cancel", AnyMachine, s, FALSE)

\* suspend_subscription and resume_subscription.
SuspendOrResumeSubscription(a, op, s) ==
    /\ op = "suspend" => grant[s].status \notin {"cancelled", "suspended"}
    /\ op = "resume"  => grant[s].status = "suspended" /\ ~grant[s].expired
    /\ AdminBegin(a, op, AnyMachine, s, FALSE)

RenewSubscription(a, s) ==
    /\ grant[s].status /= "cancelled"
    /\ AdminBegin(a, "renew", AnyMachine, s, FALSE)

ResetSubscriptionDevices(a, s) == AdminBegin(a, "reset", AnyMachine, s, FALSE)

StatusOf(op) ==
    CASE op = "revoke"               -> "revoked"
      [] op = "suspend"              -> "suspended"
      [] op = "cancel"               -> "cancelled"
      [] op \in {"resume", "renew"}  -> "active"

\* Mutant of StatusMatches: a subscription is only protected by the check made
\* before the transaction.
StatusMatchesUnguarded(op, g) ==
    /\ op /= "renew" => grant[g].status /= StatusOf(op)
    /\ op = "renew" => grant[g].status /= "revoked"

\* The where clauses of set_license_status_in_transaction,
\* renew_license_in_transaction and their counterparts for subscriptions.
StatusMatches(op, g) ==
    /\ op /= "renew" => grant[g].status /= StatusOf(op)
    /\ op = "renew" => grant[g].status /= "revoked"
    /\ g \in Subscriptions => grant[g].status /= "cancelled"

\* check constraint subscriptions_status_check: unlike licenses_status_check,
\* it does not list suspended, so the update fails.
StatusAllowed(op, g) == g \in Subscriptions => StatusOf(op) /= "suspended"

\* The columns those updates set.
NewGrantRow(op, g) ==
    [status  |-> StatusOf(op),
     closed  |-> op \in {"revoke", "cancel"} \/ (op /= "renew" /\ grant[g].closed),
     expired |-> op /= "renew" /\ grant[g].expired]

\* Mutant of NewDeviceRow: lifting the blacklisting leaves the device as it is.
NewDeviceRowKept(op, g, m) ==
    CASE op = "unbind"                    -> [device[m] EXCEPT !.status = "unbound"]
      [] op = "blacklist"                 -> [device[m] EXCEPT !.status = "blacklisted"]
      [] op = "unblacklist"               -> device[m]
      [] op = "reset" /\ g \in Licenses    -> [device[m] EXCEPT !.status = "unbound"]
      [] op = "reset" /\ g \notin Licenses -> [device[m] EXCEPT !.grant = NoGrant]

\* set_device_status_in_transaction, reset_license_devices_in_transaction,
\* reset_subscription_devices_in_transaction.
NewDeviceRow(op, g, m) ==
    CASE op = "unbind"                      -> [device[m] EXCEPT !.status = "unbound"]
      [] op = "blacklist"                   -> [device[m] EXCEPT !.status = "blacklisted"]
      [] op = "unblacklist"                 -> [device[m] EXCEPT !.status = "active"]
      [] op = "reset" /\ g \in Licenses     -> [device[m] EXCEPT !.status = "unbound"]
      [] op = "reset" /\ g \in Subscriptions -> [device[m] EXCEPT !.grant = NoGrant]

Written(op, g, rows) ==
    [m \in Machines |-> IF m \in rows THEN NewDeviceRow(op, g, m) ELSE device[m]]

\* The devices whose tokens and sessions a statement revokes, selected when it
\* begins, after the transaction's own writes.
RevokedDevices(op, g, m, written) ==
    CASE op \in {"unbind", "blacklist"}                      -> {m}
      [] op \in {"revoke", "suspend", "cancel", "reset"}     ->
            {x \in Machines : written[x].grant = g}
      [] OTHER                                               -> {}

Revoking == {"unbind", "blacklist", "revoke", "suspend", "cancel", "reset"}

\* The update of the licence, the subscription or the devices, and the start
\* of the statement that revokes the tokens.
AdminWrite(a) ==
    LET op   == admin[a].op
        g    == admin[a].grant
        m    == admin[a].machine
        rows == IF op \in DeviceOps THEN {m}
                ELSE {x \in Machines : /\ op = "reset" /\ device[x].grant = g
                                       /\ g \in Licenses => device[x].status /= "unbound"}
        hits == RevokedDevices(op, g, m, Written(op, g, rows))
    IN
    /\ admin[a].pc = "begun"
    /\ \A x \in rows : ~DeviceLocked(x)
    /\ op \in StatusOps => \A b \in Admins :
         ~(/\ admin[b].pc \in {"tokens", "sessions", "audit"}
           /\ admin[b].op \in StatusOps /\ admin[b].grant = g)
    /\ \/ /\ op \in StatusOps /\ ~(StatusMatches(op, g) /\ StatusAllowed(op, g))
          /\ admin' = [admin EXCEPT ![a] = NoAdmin]
       \/ /\ op \in StatusOps => StatusMatches(op, g) /\ StatusAllowed(op, g)
          /\ admin' = [admin EXCEPT ![a] =
                [@ EXCEPT !.pc = IF op \in Revoking THEN "tokens" ELSE "audit", !.rows = rows,
                          !.saw = {t \in Requests :
                                     /\ token[t].issued /\ ~token[t].revoked
                                     /\ session[token[t].session].device \in hits}]]
    /\ UNCHANGED <<grant, device, blacklist, session, token, request, adminOps>>

\* Mutant of AdminRevokeTokens: the sessions of the revoked tokens are revoked,
\* instead of all those of the devices.
AdminRevokeTokensTheirs(a) ==
    /\ admin[a].pc = "tokens"
    /\ \A t \in admin[a].saw : ~Marked(t) /\ ~TokenLocked(t)
    /\ admin' = [admin EXCEPT ![a].pc = "sessions",
           ![a].ended = {token[t].session : t \in admin[a].saw}]
    /\ UNCHANGED <<grant, device, blacklist, session, token, request, adminOps>>

\* The tokens are revoked, waiting for the refreshes and the transactions that
\* hold one of them; the statement that revokes the sessions begins.
AdminRevokeTokens(a) ==
    LET hits == RevokedDevices(admin[a].op, admin[a].grant, admin[a].machine,
                               Written(admin[a].op, admin[a].grant, admin[a].rows))
    IN
    /\ admin[a].pc = "tokens"
    /\ \A t \in admin[a].saw : ~Marked(t) /\ ~TokenLocked(t)
    /\ admin' = [admin EXCEPT ![a] =
          [@ EXCEPT !.pc = "sessions",
                    !.ended = {s \in Requests : /\ session[s].open /\ ~session[s].revoked
                                                /\ session[s].device \in hits}]]
    /\ UNCHANGED <<grant, device, blacklist, session, token, request, adminOps>>

\* The sessions are revoked, waiting for the transactions that hold one of them.
AdminRevokeSessions(a) ==
    /\ admin[a].pc = "sessions"
    /\ \A s \in admin[a].ended : ~SessionLocked(s)
    /\ admin' = [admin EXCEPT ![a].pc = "audit"]
    /\ UNCHANGED <<grant, device, blacklist, session, token, request, adminOps>>

\* The entry in the audit log and the commit.
AdminCommit(a) ==
    LET op == admin[a].op
        g  == admin[a].grant
        m  == admin[a].machine
    IN
    /\ admin[a].pc = "audit"
    /\ grant' = IF op \in StatusOps THEN [grant EXCEPT ![g] = NewGrantRow(op, g)] ELSE grant
    /\ device' = Written(op, g, admin[a].rows)
    /\ blacklist' = CASE op = "blacklist"                     -> blacklist \cup {m}
                      [] op = "unblacklist" /\ admin[a].hit   -> blacklist \ {m}
                      [] OTHER                                -> blacklist
    /\ token' = [t \in Requests |-> IF t \in admin[a].saw
                                    THEN [token[t] EXCEPT !.revoked = TRUE] ELSE token[t]]
    /\ session' = [s \in Requests |-> IF s \in admin[a].ended
                                      THEN [session[s] EXCEPT !.revoked = TRUE] ELSE session[s]]
    /\ admin' = [admin EXCEPT ![a] = NoAdmin]
    /\ UNCHANGED <<request, adminOps>>

\* The request fails or its process stops: the transaction is rolled back.
AdminStop(a) ==
    /\ admin[a].pc /= "idle"
    /\ admin' = [admin EXCEPT ![a] = NoAdmin]
    /\ UNCHANGED <<grant, device, blacklist, session, token, request, adminOps>>

\* expires_at passes.
Expire(g) ==
    /\ ~grant[g].expired
    /\ grant' = [grant EXCEPT ![g].expired = TRUE]
    /\ UNCHANGED <<device, blacklist, session, token, request, admin, adminOps>>

-----------------------------------------------------------------------------
RequestNext(r) ==
    \/ BeginBind(r) \/ BindCheck(r) \/ BindCommit(r)
    \/ RefreshRead(r) \/ RefreshMark(r) \/ RefreshCommit(r) \/ RefreshRevoke(r)
    \/ Stop(r) \/ Logout(r)

AdminNext(a) ==
    \/ \E m \in Machines : UnbindDevice(a, m) \/ BlacklistDevice(a, m) \/ UnblacklistDevice(a, m)
    \/ \E l \in Licenses : \/ RevokeLicense(a, l) \/ SuspendLicense(a, l)
                           \/ RenewLicense(a, l)  \/ ResetLicenseDevices(a, l)
    \/ \E s \in Subscriptions :
         \/ CancelSubscription(a, s) \/ RenewSubscription(a, s)
         \/ \E op \in {"suspend", "resume"} : SuspendOrResumeSubscription(a, op, s)
         \/ ResetSubscriptionDevices(a, s)
    \/ AdminWrite(a) \/ AdminRevokeTokens(a) \/ AdminRevokeSessions(a)
    \/ AdminCommit(a) \/ AdminStop(a)

Next ==
    \/ \E r \in Requests : RequestNext(r)
    \/ \E a \in Admins : AdminNext(a)
    \/ \E g \in Grants : Expire(g)

Spec == Init /\ [][Next]_vars

-----------------------------------------------------------------------------
(***************************************************************************)
(* Properties.                                                             *)
(***************************************************************************)

\* A session never has two refresh tokens that can still be exchanged, however
\* concurrent refreshes and revocations interleave: the rotation of refresh.rs
\* rests on the conditional update of mark_refresh_token_used_in_transaction.
OneLiveToken ==
    \A t, u \in Requests :
        Live(t) /\ Live(u) /\ token[t].session = token[u].session => t = u

\* Of all the presentations of one refresh token at most one is exchanged, and
\* when another one has been answered the session is revoked: a stolen token
\* costs its user the session and never yields a second chain of tokens.
ReuseEndsSession ==
    \A r, q \in Requests :
        /\ r /= q /\ request[r].token = request[q].token
        /\ request[r].pc = "rotated" /\ request[q].pc \in {"rotated", "reused"}
        => /\ request[q].pc = "reused"
           /\ session[token[request[r].token].session].revoked

\* A device whose status is blacklisted is listed in device_blacklist, so that
\* both tests of an activation refuse it, whatever transactions of the back
\* office overlap.
BlacklistedIsListed ==
    \A m \in Machines : device[m].status = "blacklisted" => m \in blacklist

\* A session that has lost its access, by an unbinding, a blacklisting, a reset
\* of the licence, a logout or a detected reuse, never gets it back, whatever
\* later reactivates the device (unblacklist_device), and however the statements
\* of the back office interleave with logins and refreshes.  Only a session
\* whose login was overtaken may: login.rs and activate.rs lock nothing, so it
\* escaped the statement that revokes the sessions.
LostAccessIsFinal ==
    [][\A s \in Requests :
         session[s].open /\ ~session[s].overtaken /\ ~Authorized(s) => ~Authorized(s)']_vars

\* A cancelled subscription is never active again, although cancel_subscription
\* may commit between the check and the update of a renewal.
CancelledIsFinal ==
    [][\A s \in Subscriptions : grant[s].status = "cancelled"
                                => grant'[s].status = "cancelled"]_vars

\* Stated by the documentation of the interface and not kept by the code: the
\* transaction that blacklists a device revokes all its sessions (a login may
\* commit while the transaction writes its entry in the audit log).
BlacklistEndsSessions ==
    [][\A a \in Admins, s \in Requests :
         /\ admin[a].op = "blacklist" /\ AdminCommit(a)
         /\ session[s].open /\ session[s].device = admin[a].machine
         => session'[s].revoked]_vars

\* Stated by the documentation and not kept by the code: a licence or
\* subscription never has more devices than max_devices allows.
DeviceLimit ==
    \A g \in Grants : Cardinality(ActiveDevices(g)) <= MaxDevices[g]

\* Stated by an error message and not kept by the code: a licence that has been
\* revoked is never valid again, "revoked license cannot be renewed".
RevokedIsFinal ==
    [][\A l \in Licenses : grant[l].closed => ~Valid(l)']_vars

\* Stated by the back office and not kept by the code: resetting the devices of
\* a subscription revokes the sessions of the devices that were bound to it.
ResetEndsSessions ==
    [][\A a \in Admins, s \in Requests :
         /\ admin[a].op = "reset" /\ AdminCommit(a)
         /\ session[s].open /\ session[s].device \in admin[a].rows
         => session'[s].revoked]_vars

=============================================================================
