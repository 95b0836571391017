--------------------------- MODULE AdminSessions ---------------------------
(***************************************************************************)
(* Sessions, refresh tokens, passwords and one-time tokens of the          *)
(* administrators: the handlers of auth/ and the transactions of team/ and *)
(* tenant/ that end sessions.                                              *)
(*                                                                         *)
(* A request runs one handler.  Transactions run at READ COMMITTED: what a *)
(* handler reads before its transaction may be old when it writes, and an  *)
(* update holds the locks of its rows until the commit.  A refresh locks   *)
(* its token and then its session, a revocation locks sessions and then    *)
(* tokens, so the two can block each other; PostgreSQL then rolls one of   *)
(* them back (DeadlockVictim).                                             *)
(*                                                                         *)
(* A row is named after the request that inserts it.  Every member starts  *)
(* with a session, its token and, perhaps, a one-time token, all of them   *)
(* named after the member.                                                 *)
(***************************************************************************)
EXTENDS Integers, FiniteSets

CONSTANTS
    Members,    \* team_members of one tenant
    Requests,   \* HTTP requests and runs of reset-admin-password
    MaxExpiries \* bound on rows whose time runs out

\* A tenant has its owner.
ASSUME AdminSessionsAssumption ==
    Members # {} /\ Members \cap Requests = {} /\ MaxExpiries \in Nat

VARIABLES
    member,    \* team_members
    tenant,    \* whether the tenant is active
    session,   \* admin_sessions
    token,     \* admin_refresh_tokens
    otp,       \* one_time_tokens of members
    req,       \* the handlers
    expiries   \* how many rows have expired

vars == <<member, tenant, session, token, otp, req, expiries>>

Ids == Members \cup Requests

\* A password is named after whoever set it.
MemberRow == [active : BOOLEAN, pw : Ids, verified : BOOLEAN]

\* pw is the password a login has verified and late says that it had been replaced,
\* or was being replaced, when the login committed.  A token and its session
\* get the same expires_at, so one flag stands for both.
SessionRow == [st : {"none", "live", "revoked"}, m : Members, pw : Ids,
               late : BOOLEAN, expired : BOOLEAN]

TokenRow == [st : {"none", "live", "used", "revoked"}, s : Ids]

\* uses counts the commits that rest on the token.
OneTimeToken == [st : {"none", "live", "expired", "consumed"}, m : Members,
                 purpose : {"reset", "verify"}, uses : Nat]

\* id is the row the request is about, m the member, own the session that sends
\* it, pw the password it has read, seen the rows its first update has found.
Request == [pc : {"idle", "verified", "read", "marked", "reuse", "revoking",
                  "begun", "token", "written", "done", "refused"},
            op : {"none", "login", "refresh", "logout", "change_password",
                  "confirm_reset", "cli_reset", "disable_member",
                  "revoke_session", "delete_tenant"},
            id : Ids, m : Members, own : Ids, pw : Ids, seen : SUBSET Ids]

TypeOK ==
    /\ member \in [Members -> MemberRow] /\ tenant \in BOOLEAN
    /\ session \in [Ids -> SessionRow] /\ token \in [Ids -> TokenRow]
    /\ otp \in [Ids -> OneTimeToken] /\ req \in [Requests -> Request]
    /\ expiries \in 0 .. MaxExpiries

AnyMember == CHOOSE m \in Members : TRUE

Init ==
    /\ member = [m \in Members |-> [active |-> TRUE, pw |-> m, verified |-> FALSE]]
    /\ tenant = TRUE
    /\ session = [i \in Ids |-> [st |-> IF i \in Members THEN "live" ELSE "none",
                                 m |-> IF i \in Members THEN i ELSE AnyMember,
                                 pw |-> i, late |-> FALSE, expired |-> FALSE]]
    /\ token = [i \in Ids |-> [st |-> IF i \in Members THEN "live" ELSE "none", s |-> i]]
    /\ \E p \in {"reset", "verify"}, st \in {"none", "live"} :
          otp = [i \in Ids |-> [st |-> IF i \in Members THEN st ELSE "none",
                                m |-> IF i \in Members THEN i ELSE AnyMember,
                                purpose |-> p, uses |-> 0]]
    /\ req = [r \in Requests |-> [pc |-> "idle", op |-> "none", id |-> AnyMember,
                m |-> AnyMember, own |-> AnyMember, pw |-> AnyMember, seen |-> {}]]
    /\ expiries = 0

-----------------------------------------------------------------------------
(* Rows and their locks. *)

\* require_admin_session: who may send a request with a session.
SessionActive(s) ==
    /\ session[s].st = "live" /\ ~session[s].expired
    /\ member[session[s].m].active /\ tenant

\* The tokens an update "where used_at is null and revoked_at is null" finds.
LiveTokensOf(ss) == {t \in Ids : token[t].st = "live" /\ token[t].s \in ss}

\* Mutant: sessions that have expired are not worth an update.
UnexpiredSessionsToRevoke(m, spared) ==
    {s \in Ids : /\ session[s].st = "live" /\ ~session[s].expired
                /\ session[s].m = m /\ s \notin spared}

\* revoke_admin_sessions_in_transaction, with the session that is spared.
SessionsToRevoke(m, spared) ==
    {s \in Ids : session[s].st = "live" /\ session[s].m = m /\ s \notin spared}

\* revoke_admin_refresh_tokens_in_transaction: also the tokens of sessions that
\* the update of the sessions has not found.
TokensToRevoke(m, spared) ==
    LiveTokensOf({s \in Ids : session[s].st # "none" /\ session[s].m = m} \ spared)

\* A refresh that has marked its token holds the row.
TokenLocked(t) == \E r \in Requests : req[r].pc = "marked" /\ req[r].id = t

\* The revocations that hold rows, and the session they spare.
Revoker(r) == req[r].pc = "written"
Spared(r) == IF req[r].op = "change_password" THEN {req[r].own} ELSE {}

MemberLocked(m) ==
    \E r \in Requests : Revoker(r) /\ req[r].m = m
                        /\ req[r].op \notin {"revoke_session", "delete_tenant"}
SessionLocked(s) ==
    \E r \in Requests : Revoker(r) /\ req[r].op # "delete_tenant" /\ s \in req[r].seen
OtpLocked(o) ==
    \E r \in Requests : req[r].op = "confirm_reset" /\ req[r].id = o
                        /\ req[r].pc \in {"token", "written"}
TokenUpdated(t) ==
    \E r \in Requests : Revoker(r) /\ req[r].op = "delete_tenant" /\ t \in req[r].seen

\* The tokens the last statement of a revocation wants.
Wanted(r) ==
    IF req[r].op = "revoke_session" THEN LiveTokensOf({req[r].id})
    ELSE IF req[r].op = "delete_tenant" THEN {}
    ELSE TokensToRevoke(req[r].m, Spared(r))

RevokeSessions(ss) ==
    [s \in Ids |-> IF s \in ss THEN [session[s] EXCEPT !.st = "revoked"] ELSE session[s]]

RevokeTokens(ts) ==
    [t \in Ids |-> IF t \in ts THEN [token[t] EXCEPT !.st = "revoked"] ELSE token[t]]

Goto(r, pc) == req' = [req EXCEPT ![r].pc = pc]

-----------------------------------------------------------------------------
(* Login. *)

\* find_login_candidates, and the checks of status.
LoginCandidate(m) == member[m].active /\ tenant

\* login up to its transaction: one active candidate and the right password.
LoginRead(r, m) ==
    /\ req[r].pc = "idle"
    /\ LoginCandidate(m)
    /\ req' = [req EXCEPT ![r] = [@ EXCEPT !.pc = "verified", !.op = "login",
                                           !.m = m, !.pw = member[m].pw]]
    /\ UNCHANGED <<member, tenant, session, token, otp, expiries>>

\* The transaction inserts a session and a token and checks nothing again.
LoginCommit(r) ==
    /\ req[r].pc = "verified"
    /\ session' = [session EXCEPT ![r] =
          [st |-> "live", m |-> req[r].m, pw |-> req[r].pw,
           late |-> req[r].pw # member[req[r].m].pw \/ MemberLocked(req[r].m), expired |-> FALSE]]
    /\ token' = [token EXCEPT ![r] = [st |-> "live", s |-> r]]
    /\ Goto(r, "done")
    /\ UNCHANGED <<member, tenant, otp, expiries>>

-----------------------------------------------------------------------------
(* Refresh, and the two statements that end a session. *)

\* refresh up to its transaction.
RefreshRead(r, t) ==
    LET s == token[t].s
    IN /\ req[r].pc = "idle"
       /\ token[t].st # "none"
       /\ req' = [req EXCEPT ![r] = [@ EXCEPT !.op = "refresh", !.id = t, !.own = s, !.pc =
              IF token[t].st # "live" THEN "reuse"
              ELSE IF SessionActive(s) THEN "read" ELSE "done"]]
       /\ UNCHANGED <<member, tenant, session, token, otp, expiries>>

\* mark_admin_refresh_token_used_in_transaction waits for the row.  When it finds
\* the token used or revoked, the transaction is rolled back.
RefreshMark(r) ==
    /\ req[r].pc = "read"
    /\ ~TokenLocked(req[r].id) /\ ~TokenUpdated(req[r].id)
    /\ Goto(r, IF token[req[r].id].st = "live" THEN "marked" ELSE "reuse")
    /\ UNCHANGED <<member, tenant, session, token, otp, expiries>>

\* Mutant: the presented token is not marked.
RotatedUnmarked(r) == [token EXCEPT ![r] = [st |-> "live", s |-> req[r].own]]

\* The presented token is used and the next one inserted.
Rotated(r) == [token EXCEPT ![req[r].id].st = "used", ![r] = [st |-> "live", s |-> req[r].own]]

\* Mutant: the session is extended whatever its state.
ExtendsAlways(s) == session[s].st # "none"

\* extend_admin_session_in_transaction finds the row only when it is not revoked.
Extends(s) == session[s].st = "live"

\* Mutant: nothing ends the request when the session is gone.
RolledBackNever(r) == FALSE

\* No row: the transaction is rolled back and the handler answers with an error.
RolledBack(r) == ~Extends(req[r].own) /\ UNCHANGED <<session, token>>

\* The last statements wait for the row of the session, and the commit.
RefreshCommit(r) ==
    /\ req[r].pc = "marked"
    /\ ~SessionLocked(req[r].own)
    /\ \/ /\ Extends(req[r].own)
          /\ token' = Rotated(r)
          /\ session' = [session EXCEPT ![req[r].own].expired = FALSE]
       \/ RolledBack(r)
    /\ Goto(r, "done")
    /\ UNCHANGED <<member, tenant, otp, expiries>>

\* logout goes straight to the statements.
Logout(r, s) ==
    /\ req[r].pc = "idle" /\ SessionActive(s)
    /\ req' = [req EXCEPT ![r] = [@ EXCEPT !.pc = "reuse", !.op = "logout", !.own = s]]
    /\ UNCHANGED <<member, tenant, session, token, otp, expiries>>

\* AdminSessionRepository.revoke, a transaction of its own.
ReuseRevokeSession(r) ==
    LET s == req[r].own
    IN /\ req[r].pc = "reuse" /\ ~SessionLocked(s)
       /\ session' = RevokeSessions({s} \cap SessionsToRevoke(session[s].m, {}))
       /\ Goto(r, "revoking")
       /\ UNCHANGED <<member, tenant, token, otp, expiries>>

\* AdminSessionRepository.revoke_refresh_tokens_for_session.  A refresh it waits
\* for cannot commit any more, since the session is revoked.
ReuseRevokeTokens(r) ==
    LET ts == LiveTokensOf({req[r].own})
    IN /\ req[r].pc = "revoking"
       /\ \A t \in ts : ~TokenLocked(t) /\ ~TokenUpdated(t)
       /\ token' = RevokeTokens(ts)
       /\ Goto(r, "refused")
       /\ UNCHANGED <<member, tenant, session, otp, expiries>>

-----------------------------------------------------------------------------
(* Transactions that end sessions. *)

\* change_password before its transaction: the old password is verified.
ChangePassword(r, s) ==
    /\ req[r].pc = "idle" /\ SessionActive(s)
    /\ req' = [req EXCEPT ![r] = [@ EXCEPT !.pc = "begun", !.op = "change_password",
                                           !.own = s, !.m = session[s].m]]
    /\ UNCHANGED <<member, tenant, session, token, otp, expiries>>

\* find_admin_password_reset_cli_candidates.
CliCandidate(m) == member[m].active /\ tenant

\* reset_admin_password_cli finds its one active candidate.
ResetAdminPasswordCli(r, m) ==
    /\ req[r].pc = "idle" /\ CliCandidate(m)
    /\ req' = [req EXCEPT ![r] = [@ EXCEPT !.pc = "begun", !.op = "cli_reset", !.m = m]]
    /\ UNCHANGED <<member, tenant, session, token, otp, expiries>>

\* disable_member of team/admin.rs, sent by somebody who may.
DisableMember(r, m) ==
    /\ req[r].pc = "idle" /\ member[m].active
    /\ req' = [req EXCEPT ![r] = [@ EXCEPT !.pc = "begun", !.op = "disable_member", !.m = m]]
    /\ UNCHANGED <<member, tenant, session, token, otp, expiries>>

\* confirm_password_reset: the token is looked up and its row locked.
ConfirmPasswordReset(r, o) ==
    /\ req[r].pc = "idle"
    /\ otp[o].purpose = "reset" /\ otp[o].st = "live" /\ ~OtpLocked(o)
    /\ req' = [req EXCEPT ![r] = [@ EXCEPT !.pc = "token", !.op = "confirm_reset",
                                           !.id = o, !.m = otp[o].m]]
    /\ UNCHANGED <<member, tenant, session, token, otp, expiries>>

\* revoke_session: another session of the same member, locked and not revoked.
RevokeSession(r, own, s) ==
    /\ req[r].pc = "idle" /\ SessionActive(own) /\ s # own
    /\ session[s].st = "live" /\ session[s].m = session[own].m
    /\ ~SessionLocked(s)
    /\ req' = [req EXCEPT ![r] = [@ EXCEPT !.pc = "written", !.op = "revoke_session",
                                           !.own = own, !.id = s, !.seen = {s}]]
    /\ UNCHANGED <<member, tenant, session, token, otp, expiries>>

\* The update of the member and of the sessions; each waits for its rows.
RevokeWrite(r) ==
    LET ss == SessionsToRevoke(req[r].m, Spared(r))
    IN /\ \/ req[r].pc = "begun" /\ req[r].op # "delete_tenant"
          \/ req[r].pc = "token"
       /\ ~MemberLocked(req[r].m)
       /\ \A s \in ss : ~SessionLocked(s)
       /\ req' = [req EXCEPT ![r] = [@ EXCEPT !.pc = "written", !.seen = ss]]
       /\ UNCHANGED <<member, tenant, session, token, otp, expiries>>

\* consume_reset_token: the token may have run out since it was found.
ResetConsumed(r) ==
    IF req[r].op = "confirm_reset"
    THEN otp' = [otp EXCEPT ![req[r].id].st = "consumed", ![req[r].id].uses = @ + 1]
    ELSE UNCHANGED otp

\* What the transaction has done to the row of the member.
MemberWritten(r) ==
    CASE req[r].op \in {"change_password", "confirm_reset", "cli_reset"}
           -> [member EXCEPT ![req[r].m].pw = r]
      [] req[r].op = "disable_member" -> [member EXCEPT ![req[r].m].active = FALSE]
      [] OTHER -> member

\* The update of the tokens, which waits for refreshes, and the commit.  The
\* session that changed the password goes on with the new one.
RevokeCommit(r) ==
    LET fails == req[r].op = "confirm_reset" /\ otp[req[r].id].st # "live"
        revoked == RevokeSessions(req[r].seen)
    IN /\ Revoker(r) /\ req[r].op # "delete_tenant"
       /\ \A t \in Wanted(r) : ~TokenLocked(t) /\ ~TokenUpdated(t)
       /\ \/ /\ fails
             /\ UNCHANGED <<member, session, token, otp>>
          \/ /\ ~fails
             /\ member' = MemberWritten(r)
             /\ session' = [s \in Ids |-> IF s \in Spared(r)
                                          THEN [revoked[s] EXCEPT !.pw = r] ELSE revoked[s]]
             /\ token' = RevokeTokens(Wanted(r))
             /\ ResetConsumed(r)
       /\ Goto(r, "done")
       /\ UNCHANGED <<tenant, expiries>>

\* delete_tenant updates the tenant, then the tokens its statement finds, ...
DeleteTenant(r) ==
    /\ req[r].pc = "idle" /\ tenant
    /\ \A q \in Requests : req[q].op # "delete_tenant"
    /\ req' = [req EXCEPT ![r] = [@ EXCEPT !.pc = "begun", !.op = "delete_tenant",
                                           !.seen = LiveTokensOf(Ids)]]
    /\ UNCHANGED <<member, tenant, session, token, otp, expiries>>

\* ... waiting for the refreshes that hold some of them, ...
DeleteTenantTokens(r) ==
    /\ req[r].pc = "begun" /\ req[r].op = "delete_tenant"
    /\ \A t \in req[r].seen : ~TokenLocked(t)
    /\ req' = [req EXCEPT ![r].pc = "written", ![r].seen = {t \in @ : token[t].st = "live"}]
    /\ UNCHANGED <<member, tenant, session, token, otp, expiries>>

\* ... and last the sessions.
DeleteTenantCommit(r) ==
    /\ Revoker(r) /\ req[r].op = "delete_tenant"
    /\ \A s \in Ids : ~SessionLocked(s)
    /\ tenant' = FALSE
    /\ token' = RevokeTokens(req[r].seen)
    /\ session' = RevokeSessions({s \in Ids : session[s].st = "live"})
    /\ Goto(r, "done")
    /\ UNCHANGED <<member, otp, expiries>>

\* A refresh, or the deletion of the tenant, waits for a session that a revocation
\* holds, and the revocation waits for a token that it holds: the database rolls
\* one of the two back, and its handler answers with an error.
DeadlockVictim(r, q) ==
    /\ Revoker(q) /\ req[q].op # "delete_tenant"
    /\ \/ req[r].pc = "marked" /\ req[r].own \in req[q].seen /\ req[r].id \in Wanted(q)
       \/ /\ Revoker(r) /\ req[r].op = "delete_tenant"
          /\ req[q].seen # {} /\ req[r].seen \cap Wanted(q) # {}
    /\ \E v \in {r, q} : Goto(v, "done")
    /\ UNCHANGED <<member, tenant, session, token, otp, expiries>>

-----------------------------------------------------------------------------
(* One-time tokens, and time. *)

\* create_password_reset_for_candidate, create_email_verify_token: earlier tokens
\* stay valid.
TokenIssued(r, m, p) ==
    [otp EXCEPT ![r] = [st |-> "live", m |-> m, purpose |-> p, uses |-> 0]]

\* find_reset_candidates: one active member of an active tenant.
ResetCandidate(m) == member[m].active /\ tenant

\* request_password_reset.
RequestPasswordReset(r, m) ==
    /\ req[r].pc = "idle" /\ ResetCandidate(m)
    /\ otp' = TokenIssued(r, m, "reset")
    /\ Goto(r, "done")
    /\ UNCHANGED <<member, tenant, session, token, expiries>>

\* request_email_verify.
RequestEmailVerify(r, s) ==
    LET m == session[s].m
    IN /\ req[r].pc = "idle" /\ SessionActive(s) /\ ~member[m].verified
       /\ otp' = TokenIssued(r, m, "verify")
       /\ Goto(r, "done")
       /\ UNCHANGED <<member, tenant, session, token, expiries>>

\* mark_member_email_verified and consume_token.
EmailVerified(o) ==
    /\ member' = [member EXCEPT ![otp[o].m].verified = TRUE]
    /\ otp' = [otp EXCEPT ![o].st = "consumed", ![o].uses = @ + 1]

\* confirm_email_verify: token and member are locked, then written.
ConfirmEmailVerify(r, o) ==
    /\ req[r].pc = "idle"
    /\ otp[o].purpose = "verify" /\ otp[o].st = "live" /\ ~MemberLocked(otp[o].m)
    /\ EmailVerified(o)
    /\ Goto(r, "done")
    /\ UNCHANGED <<tenant, session, token, expiries>>

ExpireSession(s) ==
    /\ session[s].st # "none" /\ ~session[s].expired /\ expiries < MaxExpiries
    /\ session' = [session EXCEPT ![s].expired = TRUE]
    /\ expiries' = expiries + 1
    /\ UNCHANGED <<member, tenant, token, otp, req>>

ExpireOneTimeToken(o) ==
    /\ otp[o].st = "live" /\ expiries < MaxExpiries
    /\ otp' = [otp EXCEPT ![o].st = "expired"]
    /\ expiries' = expiries + 1
    /\ UNCHANGED <<member, tenant, session, token, req>>

\* cleanup_admin_sessions, thirty days after a session expired or was revoked:
\* requests of that time have long ended.
CleanupAdminSessions(s) ==
    /\ session[s].st = "revoked" \/ (session[s].st = "live" /\ session[s].expired)
    /\ \A r \in Requests : req[r].pc \in {"idle", "done", "refused"}
    /\ session' = [session EXCEPT ![s].st = "none"]
    /\ token' = [t \in Ids |-> IF token[t].s = s THEN [token[t] EXCEPT !.st = "none"]
                               ELSE token[t]]
    /\ UNCHANGED <<member, tenant, otp, req, expiries>>

-----------------------------------------------------------------------------
Begin(r) ==
    \/ \E m \in Members : \/ LoginRead(r, m) \/ ResetAdminPasswordCli(r, m)
                          \/ DisableMember(r, m) \/ RequestPasswordReset(r, m)
    \/ \E i \in Ids : \/ RefreshRead(r, i) \/ Logout(r, i) \/ ChangePassword(r, i)
                      \/ ConfirmPasswordReset(r, i) \/ RequestEmailVerify(r, i)
                      \/ ConfirmEmailVerify(r, i)
    \/ \E own, s \in Ids : RevokeSession(r, own, s)
    \/ DeleteTenant(r)

Continue(r) ==
    \/ LoginCommit(r) \/ RefreshMark(r) \/ RefreshCommit(r)
    \/ ReuseRevokeSession(r) \/ ReuseRevokeTokens(r)
    \/ RevokeWrite(r) \/ RevokeCommit(r)
    \/ DeleteTenantTokens(r) \/ DeleteTenantCommit(r)
    \/ \E q \in Requests : DeadlockVictim(r, q)

Next ==
    \/ \E r \in Requests : Begin(r) \/ Continue(r)
    \/ \E i \in Ids : ExpireSession(i) \/ ExpireOneTimeToken(i) \/ CleanupAdminSessions(i)

Spec == Init /\ [][Next]_vars

\* A handler that has begun is polled, the database grants row locks in turn and
\* looks for deadlocks (deadlock_timeout).
FairSpec == Spec /\ \A r \in Requests : WF_vars(Continue(r))

-----------------------------------------------------------------------------
(* Properties. *)

\* A live session never has two refresh tokens that can be exchanged: tabs that
\* refresh at the same moment cannot split a session in two (refresh.rs).
OneLiveToken ==
    \A s \in Ids : session[s].st = "live" => Cardinality(LiveTokensOf({s})) <= 1

\* Once a refresh has been refused for reuse, the session is over and none of its
\* tokens is left, the one that a concurrent refresh has just issued included.
ReuseEndsSession ==
    \A r \in Requests : req[r].pc = "refused" =>
        session[req[r].own].st # "live" /\ LiveTokensOf({req[r].own}) = {}

\* Both, for any interleaving of refreshes, logouts and revocations (refresh.rs).
TokensKept == TypeOK /\ OneLiveToken /\ ReuseEndsSession

\* A session that has survived a change or reset of the password is one whose
\* login or change was under way at that moment: the revocation of password.rs
\* misses no session, whatever refreshes run beside it.
OldPasswordEndsSessions ==
    \A s \in Ids : session[s].st = "live" =>
        session[s].late \/ session[s].pw = member[session[s].m].pw

\* A one-time token of a password reset or an e-mail verification has its effect
\* once, however many requests present it and whether or not it expires meanwhile.
OneTimeTokenUsedOnce == \A o \in Ids : otp[o].uses <= 1

\* Both (password.rs, email_verify.rs).
PasswordsKept == OldPasswordEndsSessions /\ OneTimeTokenUsedOnce

\* No refresh token is issued for a session that has been revoked: the extension
\* in refresh.rs closes the gap between its reads and its commit.
NoTokenForRevokedSession ==
    [][\A t \in Ids : token[t].st = "none" /\ token'[t].st = "live" =>
          session'[token'[t].s].st = "live"]_vars

\* Every request that has begun ends: revocations and refreshes, which lock rows
\* in opposite orders, never block each other for good.
RequestsEnd ==
    \A r \in Requests : (req[r].pc # "idle") ~> (req[r].pc \in {"done", "refused"})

=============================================================================
