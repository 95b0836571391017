------------------------ MODULE AdminSessionsProofs ------------------------
(***************************************************************************)
(* Proofs about the sessions of administrators, for any number of members, *)
(* sessions and requests: a session has one refresh token, a refused       *)
(* refresh ends the session, a new password ends the sessions of the old   *)
(* one, a one-time token has its effect once, and no token is issued for a *)
(* session that was revoked.                                               *)
(*                                                                         *)
(* The invariant below says what the row locks are worth.  A refresh that  *)
(* has marked its token still finds it live and its own at the commit; a   *)
(* revocation that has updated the sessions of a member has seen them all, *)
(* but for the session it spares and those whose login came late; and a    *)
(* request that names a session names one whose request has ended, so that *)
(* nothing writes that row anew.                                           *)
(***************************************************************************)
EXTENDS AdminSessions, FiniteSetTheorems, TLAPS

TokensHaveSessions == \A t \in Ids : token[t].st # "none" => session[token[t].s].st # "none"

\* A request inserts its rows when it ends.
RowsOfTheDone ==
    \A r \in Requests : req[r].pc # "done" => session[r].st = "none" /\ token[r].st = "none"

\* A session, live or not, has one live token.
SingleToken ==
    \A t, u \in Ids :
        token[t].st = "live" /\ token[u].st = "live" /\ token[t].s = token[u].s => t = u

\* A refresh and the row it has read or locked.
RefreshHolds ==
    \A r \in Requests :
        /\ req[r].pc \in {"read", "marked"} =>
             token[req[r].id].st # "none" /\ token[req[r].id].s = req[r].own
        /\ req[r].pc = "marked" =>
             /\ token[req[r].id].st = "live"
             /\ \A q \in Requests : req[q].pc = "marked" /\ req[q].id = req[r].id => q = r
             /\ \A q \in Requests : req[q].pc = "written" /\ req[q].op = "delete_tenant" =>
                  req[r].id \notin req[q].seen

\* The session a request is sent with, or is about, was inserted by a request
\* that has ended.
OwnersAreDone ==
    \A r \in Requests :
        /\ req[r].op \in {"refresh", "logout", "change_password"} /\ req[r].own \in Requests =>
             req[req[r].own].pc = "done"
        /\ req[r].pc \in {"read", "marked", "reuse", "revoking", "refused"} =>
             req[r].op \in {"refresh", "logout"}
        /\ req[r].pc = "token" => req[r].op = "confirm_reset"
        /\ req[r].op = "change_password" => session[req[r].own].m = req[r].m

\* What the two statements that end a session have done so far.
EndedSessions ==
    \A r \in Requests :
        /\ req[r].pc \in {"revoking", "refused"} => session[req[r].own].st # "live"
        /\ req[r].pc = "refused" =>
             \A t \in Ids : token[t].s = req[r].own => token[t].st # "live"

\* A revocation has found every session of its member.
RevocationsSeeAll ==
    \A r \in Requests :
        req[r].pc = "written" /\ req[r].op \notin {"revoke_session", "delete_tenant"} =>
            \A s \in Ids : session[s].st = "live" /\ session[s].m = req[r].m =>
                session[s].late \/ s \in req[r].seen \/ s \in Spared(r)

\* The rows that a revocation, or the deletion of the tenant, has updated are there.
SeenExist ==
    \A r \in Requests : req[r].pc = "written" =>
        \A i \in req[r].seen : IF req[r].op = "delete_tenant" THEN token[i].st # "none"
                               ELSE session[i].st # "none"

\* Only a one-time token that is consumed has been used.
UsedIsConsumed ==
    \A o \in Ids : otp[o].uses = IF otp[o].st = "consumed" THEN 1 ELSE 0

IInv ==
    /\ TypeOK
    /\ TokensHaveSessions
    /\ RowsOfTheDone
    /\ SingleToken
    /\ RefreshHolds
    /\ OwnersAreDone
    /\ EndedSessions
    /\ RevocationsSeeAll
    /\ SeenExist
    /\ OldPasswordEndsSessions
    /\ UsedIsConsumed

-----------------------------------------------------------------------------
(***************************************************************************)
(* Steps that change nothing but the locals of one handler.                *)
(***************************************************************************)

\* What the locals of a request must satisfy when no table is written.
FitsTables(row) ==
    /\ row.pc \in {"read", "marked"} =>
         token[row.id].st # "none" /\ token[row.id].s = row.own
    /\ row.pc = "marked" => /\ token[row.id].st = "live"
                            /\ ~TokenLocked(row.id) /\ ~TokenUpdated(row.id)
    /\ row.pc = "written" /\ row.op = "delete_tenant" => \A t \in row.seen : ~TokenLocked(t)
    /\ row.op \in {"refresh", "logout", "change_password"} /\ row.own \in Requests =>
         req[row.own].pc = "done"
    /\ row.pc \in {"read", "marked", "reuse"} => row.op \in {"refresh", "logout"}
    /\ row.pc = "token" => row.op = "confirm_reset"
    /\ row.pc \notin {"revoking", "refused"}
    /\ row.op = "change_password" => session[row.own].m = row.m
    /\ row.pc = "written" /\ row.op \notin {"revoke_session", "delete_tenant"} =>
         \A s \in Ids : session[s].st = "live" /\ session[s].m = row.m =>
            session[s].late \/ s \in row.seen \/ (row.op = "change_password" /\ s = row.own)
    /\ row.pc = "written" =>
         \A i \in row.seen : IF row.op = "delete_tenant" THEN token[i].st # "none"
                             ELSE session[i].st # "none"

LEMMA LocalStep ==
    ASSUME IInv, UNCHANGED <<member, tenant, session, token, otp, expiries>>,
           NEW r \in Requests, NEW row \in Request, req' = [req EXCEPT ![r] = row],
           req[r].pc # "done", FitsTables(row)
    PROVE  IInv'
<1>1. req'[r] = row /\ \A q \in Requests \ {r} : req'[q] = req[q]
  BY DEF IInv, TypeOK
<1>2. /\ session' = session /\ token' = token /\ otp' = otp /\ member' = member
      /\ tenant' = tenant /\ expiries' = expiries
  OBVIOUS
<1>3. TypeOK'
  BY <1>2 DEF IInv, TypeOK
<1>4. TokensHaveSessions' /\ SingleToken' /\ OldPasswordEndsSessions' /\ UsedIsConsumed'
  BY <1>2 DEF IInv, TokensHaveSessions, SingleToken, OldPasswordEndsSessions, UsedIsConsumed
<1>5. RowsOfTheDone'
  BY <1>1, <1>2 DEF IInv, RowsOfTheDone
<1>6. RefreshHolds'
  <2>1. ASSUME NEW q \in Requests, req'[q].pc \in {"read", "marked"}
        PROVE  token[req'[q].id].st # "none" /\ token[req'[q].id].s = req'[q].own
    BY <1>1, <2>1 DEF IInv, RefreshHolds, FitsTables
  <2>2. ASSUME NEW q \in Requests, req'[q].pc = "marked"
        PROVE  token[req'[q].id].st = "live"
    BY <1>1, <2>2 DEF IInv, RefreshHolds, FitsTables
  <2>3. ASSUME NEW q \in Requests, req'[q].pc = "marked",
               NEW p \in Requests, req'[p].pc = "marked", req'[p].id = req'[q].id
        PROVE  p = q
    BY <1>1, <2>3 DEF IInv, RefreshHolds, FitsTables, TokenLocked
  <2>4. ASSUME NEW q \in Requests, req'[q].pc = "marked",
               NEW p \in Requests, req'[p].pc = "written", req'[p].op = "delete_tenant"
        PROVE  req'[q].id \notin req'[p].seen
    <3>1. CASE p = r
      BY <1>1, <2>4, <3>1 DEF FitsTables, TokenLocked
    <3>2. CASE q = r
      BY <1>1, <2>4, <3>2 DEF FitsTables, TokenUpdated, Revoker
    <3>3. CASE p # r /\ q # r
      BY <1>1, <2>4, <3>3 DEF IInv, RefreshHolds
    <3> QED
      BY <3>1, <3>2, <3>3
  <2> QED
    BY <1>2, <2>1, <2>2, <2>3, <2>4 DEF RefreshHolds
<1>7. OwnersAreDone'
  BY <1>1, <1>2 DEF IInv, OwnersAreDone, FitsTables
<1>8. EndedSessions'
  BY <1>1, <1>2 DEF IInv, EndedSessions, FitsTables
<1>9. RevocationsSeeAll'
  BY <1>1, <1>2 DEF IInv, RevocationsSeeAll, FitsTables, Spared
<1>10. SeenExist'
  BY <1>1, <1>2 DEF IInv, SeenExist, FitsTables
<1> QED
  BY <1>3, <1>4, <1>5, <1>6, <1>7, <1>8, <1>9, <1>10 DEF IInv

\* A session that exists was inserted by a request that has ended.
LEMMA SessionDone ==
    ASSUME IInv, NEW s \in Ids, session[s].st # "none"
    PROVE  s \in Requests => req[s].pc = "done"
  BY DEF IInv, RowsOfTheDone

\* A handler that only goes on, or gives up.
LEMMA GotoStep ==
    ASSUME IInv, UNCHANGED <<member, tenant, session, token, otp, expiries>>,
           NEW r \in Requests, Goto(r, "done"), req[r].pc # "done"
    PROVE  IInv'
<1>1. PICK old \in Request : old = req[r]
  BY DEF IInv, TypeOK
<1> DEFINE row == [old EXCEPT !.pc = "done"]
<1>2. /\ row \in Request /\ row.pc = "done" /\ row.op = old.op /\ row.own = old.own /\ row.m = old.m
      /\ row.id = old.id /\ row.seen = old.seen
  BY DEF Request
<1>3. req' = [req EXCEPT ![r] = row]
  BY <1>1 DEF Goto
<1> HIDE DEF row
<1>4. FitsTables(row)
  BY <1>1, <1>2 DEF FitsTables, IInv, OwnersAreDone
<1> QED
  BY <1>2, <1>3, <1>4, LocalStep

\* Requests that begin with the password, the account or the token of a member,
\* or delete the tenant: they name no session.
LEMMA BeginStep ==
    ASSUME IInv, UNCHANGED <<member, tenant, session, token, otp, expiries>>,
           NEW r \in Requests, NEW row \in Request, req' = [req EXCEPT ![r] = row],
           req[r].pc = "idle", row.pc \in {"verified", "begun", "token"},
           row.op \in {"login", "cli_reset", "disable_member", "confirm_reset", "delete_tenant"},
           row.pc = "token" => row.op = "confirm_reset"
    PROVE  IInv'
<1>1. FitsTables(row)
  BY DEF FitsTables
<1> QED
  BY <1>1, LocalStep

LEMMA LoginReadKeeps ==
    ASSUME IInv, NEW r \in Requests, NEW m \in Members, LoginRead(r, m)
    PROVE  IInv'
<1>1. PICK old \in Request : old = req[r]
  BY DEF IInv, TypeOK
<1>2. member[m].pw \in Ids
  BY DEF IInv, TypeOK, MemberRow, OneTimeToken, LiveTokensOf
<1> DEFINE row == [old EXCEPT !.pc = "verified", !.op = "login", !.m = m, !.pw = member[m].pw]
<1>3. row \in Request /\ row.pc = "verified" /\ row.op = "login"
  BY <1>2 DEF Request
<1>4. /\ req' = [req EXCEPT ![r] = row] /\ req[r].pc = "idle"
      /\ UNCHANGED <<member, tenant, session, token, otp, expiries>>
  BY <1>1 DEF LoginRead
<1> HIDE DEF row
<1> QED
  BY <1>3, <1>4, BeginStep

LEMMA ResetAdminPasswordCliKeeps ==
    ASSUME IInv, NEW r \in Requests, NEW m \in Members, ResetAdminPasswordCli(r, m)
    PROVE  IInv'
<1>1. PICK old \in Request : old = req[r]
  BY DEF IInv, TypeOK
<1> DEFINE row == [old EXCEPT !.pc = "begun", !.op = "cli_reset", !.m = m]
<1>3. row \in Request /\ row.pc = "begun" /\ row.op = "cli_reset"
  BY DEF Request
<1>4. /\ req' = [req EXCEPT ![r] = row] /\ req[r].pc = "idle"
      /\ UNCHANGED <<member, tenant, session, token, otp, expiries>>
  BY <1>1 DEF ResetAdminPasswordCli
<1> HIDE DEF row
<1> QED
  BY <1>3, <1>4, BeginStep

LEMMA DisableMemberKeeps ==
    ASSUME IInv, NEW r \in Requests, NEW m \in Members, DisableMember(r, m)
    PROVE  IInv'
<1>1. PICK old \in Request : old = req[r]
  BY DEF IInv, TypeOK
<1> DEFINE row == [old EXCEPT !.pc = "begun", !.op = "disable_member", !.m = m]
<1>3. row \in Request /\ row.pc = "begun" /\ row.op = "disable_member"
  BY DEF Request
<1>4. /\ req' = [req EXCEPT ![r] = row] /\ req[r].pc = "idle"
      /\ UNCHANGED <<member, tenant, session, token, otp, expiries>>
  BY <1>1 DEF DisableMember
<1> HIDE DEF row
<1> QED
  BY <1>3, <1>4, BeginStep

LEMMA ConfirmPasswordResetKeeps ==
    ASSUME IInv, NEW r \in Requests, NEW o \in Ids, ConfirmPasswordReset(r, o)
    PROVE  IInv'
<1>1. PICK old \in Request : old = req[r]
  BY DEF IInv, TypeOK
<1>2. otp[o].m \in Members
  BY DEF IInv, TypeOK, MemberRow, OneTimeToken, LiveTokensOf
<1> DEFINE row == [old EXCEPT !.pc = "token", !.op = "confirm_reset", !.id = o, !.m = otp[o].m]
<1>3. row \in Request /\ row.pc = "token" /\ row.op = "confirm_reset"
  BY <1>2 DEF Request
<1>4. /\ req' = [req EXCEPT ![r] = row] /\ req[r].pc = "idle"
      /\ UNCHANGED <<member, tenant, session, token, otp, expiries>>
  BY <1>1 DEF ConfirmPasswordReset
<1> HIDE DEF row
<1> QED
  BY <1>3, <1>4, BeginStep

LEMMA DeleteTenantKeeps ==
    ASSUME IInv, NEW r \in Requests, DeleteTenant(r)
    PROVE  IInv'
<1>1. PICK old \in Request : old = req[r]
  BY DEF IInv, TypeOK
<1>2. LiveTokensOf(Ids) \subseteq Ids
  BY DEF IInv, TypeOK, MemberRow, OneTimeToken, LiveTokensOf
<1> DEFINE row == [old EXCEPT !.pc = "begun", !.op = "delete_tenant", !.seen = LiveTokensOf(Ids)]
<1>3. row \in Request /\ row.pc = "begun" /\ row.op = "delete_tenant"
  BY <1>2 DEF Request
<1>4. /\ req' = [req EXCEPT ![r] = row] /\ req[r].pc = "idle"
      /\ UNCHANGED <<member, tenant, session, token, otp, expiries>>
  BY <1>1 DEF DeleteTenant
<1> HIDE DEF row
<1> QED
  BY <1>3, <1>4, BeginStep

\* A refresh reads a token, which has its session.
LEMMA RefreshReadKeeps ==
    ASSUME IInv, NEW r \in Requests, NEW t \in Ids, RefreshRead(r, t)
    PROVE  IInv'
<1>1. PICK old \in Request : old = req[r]
  BY DEF IInv, TypeOK
<1>2. PICK s \in Ids : s = token[t].s
  BY DEF IInv, TypeOK, TokenRow
<1>3. PICK pc \in {"reuse", "read", "done"} :
        /\ pc = IF token[t].st # "live" THEN "reuse" ELSE IF SessionActive(s) THEN "read" ELSE "done"
  OBVIOUS
<1> DEFINE row == [old EXCEPT !.op = "refresh", !.id = t, !.own = s, !.pc = pc]
<1>4. row \in Request /\ row.pc = pc /\ row.op = "refresh" /\ row.id = t /\ row.own = s
  BY DEF Request
<1>5. /\ req' = [req EXCEPT ![r] = row] /\ req[r].pc = "idle" /\ token[t].st # "none"
      /\ UNCHANGED <<member, tenant, session, token, otp, expiries>>
  BY <1>1, <1>2, <1>3 DEF RefreshRead
<1> HIDE DEF row
<1>6. s \in Requests => req[s].pc = "done"
  BY <1>2, <1>5, SessionDone DEF IInv, TokensHaveSessions
<1>7. FitsTables(row)
  BY <1>2, <1>3, <1>4, <1>5, <1>6 DEF FitsTables
<1> QED
  BY <1>4, <1>5, <1>7, LocalStep

\* The mark is made on a live token that nobody holds.
LEMMA RefreshMarkKeeps ==
    ASSUME IInv, NEW r \in Requests, RefreshMark(r)
    PROVE  IInv'
<1>1. PICK old \in Request : old = req[r]
  BY DEF IInv, TypeOK
<1>2. PICK pc \in {"reuse", "marked"} : pc = IF token[old.id].st = "live" THEN "marked" ELSE "reuse"
  OBVIOUS
<1> DEFINE row == [old EXCEPT !.pc = pc]
<1>3. row \in Request /\ row.pc = pc /\ row.op = old.op /\ row.id = old.id /\ row.own = old.own
  BY DEF Request
<1>4. /\ req' = [req EXCEPT ![r] = row] /\ old.pc = "read"
      /\ ~TokenLocked(old.id) /\ ~TokenUpdated(old.id)
      /\ UNCHANGED <<member, tenant, session, token, otp, expiries>>
  BY <1>1, <1>2 DEF RefreshMark, Goto
<1> HIDE DEF row
<1>5. /\ token[old.id].st # "none" /\ token[old.id].s = old.own
      /\ old.op \in {"refresh", "logout"}
      /\ old.own \in Requests => req[old.own].pc = "done"
  BY <1>1, <1>4 DEF IInv, RefreshHolds, OwnersAreDone
<1>6. FitsTables(row)
  BY <1>2, <1>3, <1>4, <1>5 DEF FitsTables
<1> QED
  BY <1>1, <1>3, <1>4, <1>6, LocalStep

\* Requests sent with a session.
LEMMA LogoutKeeps ==
    ASSUME IInv, NEW r \in Requests, NEW s \in Ids, Logout(r, s)
    PROVE  IInv'
<1>1. PICK old \in Request : old = req[r]
  BY DEF IInv, TypeOK
<1> DEFINE row == [old EXCEPT !.pc = "reuse", !.op = "logout", !.own = s]
<1>2. row \in Request /\ row.pc = "reuse" /\ row.op = "logout" /\ row.own = s
  BY DEF Request
<1>3. /\ req' = [req EXCEPT ![r] = row] /\ req[r].pc = "idle" /\ session[s].st = "live"
      /\ UNCHANGED <<member, tenant, session, token, otp, expiries>>
  BY <1>1 DEF Logout, SessionActive
<1> HIDE DEF row
<1>4. FitsTables(row)
  BY <1>2, <1>3, SessionDone DEF FitsTables
<1> QED
  BY <1>2, <1>3, <1>4, LocalStep

LEMMA ChangePasswordKeeps ==
    ASSUME IInv, NEW r \in Requests, NEW s \in Ids, ChangePassword(r, s)
    PROVE  IInv'
<1>1. PICK old \in Request : old = req[r]
  BY DEF IInv, TypeOK
<1>2. PICK m \in Members : m = session[s].m
  BY DEF IInv, TypeOK, SessionRow
<1> DEFINE row == [old EXCEPT !.pc = "begun", !.op = "change_password", !.own = s, !.m = m]
<1>3. row \in Request /\ row.pc = "begun" /\ row.op = "change_password" /\ row.own = s /\ row.m = m
  BY DEF Request
<1>4. /\ req' = [req EXCEPT ![r] = row] /\ req[r].pc = "idle" /\ session[s].st = "live"
      /\ UNCHANGED <<member, tenant, session, token, otp, expiries>>
  BY <1>1, <1>2 DEF ChangePassword, SessionActive
<1> HIDE DEF row
<1>5. FitsTables(row)
  BY <1>2, <1>3, <1>4, SessionDone DEF FitsTables
<1> QED
  BY <1>3, <1>4, <1>5, LocalStep

LEMMA RevokeSessionKeeps ==
    ASSUME IInv, NEW r \in Requests, NEW own \in Ids, NEW s \in Ids, RevokeSession(r, own, s)
    PROVE  IInv'
<1>1. PICK old \in Request : old = req[r]
  BY DEF IInv, TypeOK
<1> DEFINE row == [old EXCEPT !.pc = "written", !.op = "revoke_session", !.own = own, !.id = s,
                              !.seen = {s}]
<1>2. row \in Request /\ row.pc = "written" /\ row.op = "revoke_session" /\ row.seen = {s}
  BY DEF Request
<1>3. /\ req' = [req EXCEPT ![r] = row] /\ req[r].pc = "idle" /\ session[s].st = "live"
      /\ UNCHANGED <<member, tenant, session, token, otp, expiries>>
  BY <1>1 DEF RevokeSession
<1> HIDE DEF row
<1>4. FitsTables(row)
  BY <1>2, <1>3 DEF FitsTables
<1> QED
  BY <1>2, <1>3, <1>4, LocalStep

\* A revocation updates every session of its member but the one it spares.
LEMMA RevokeWriteKeeps ==
    ASSUME IInv, NEW r \in Requests, RevokeWrite(r)
    PROVE  IInv'
<1>1. PICK old \in Request : old = req[r]
  BY DEF IInv, TypeOK
<1>2. PICK ss \in SUBSET Ids : ss = SessionsToRevoke(old.m, Spared(r))
  BY DEF SessionsToRevoke
<1> DEFINE row == [old EXCEPT !.pc = "written", !.seen = ss]
<1>3. /\ row \in Request /\ row.pc = "written" /\ row.op = old.op /\ row.own = old.own
      /\ row.m = old.m /\ row.seen = ss
  BY DEF Request
<1>4. /\ req' = [req EXCEPT ![r] = row] /\ old.pc \in {"begun", "token"}
      /\ UNCHANGED <<member, tenant, session, token, otp, expiries>>
  BY <1>1, <1>2 DEF RevokeWrite
<1>5. old.op # "delete_tenant"
  BY <1>1 DEF RevokeWrite, IInv, OwnersAreDone
<1> HIDE DEF row
<1>6. /\ \A s \in Ids : session[s].st = "live" /\ session[s].m = old.m =>
           s \in ss \/ (old.op = "change_password" /\ s = old.own)
      /\ \A s \in ss : session[s].st = "live"
  BY <1>1, <1>2 DEF SessionsToRevoke, Spared
<1>7. FitsTables(row)
  BY <1>1, <1>3, <1>5, <1>6 DEF FitsTables, IInv, OwnersAreDone
<1> QED
  BY <1>1, <1>3, <1>4, <1>7, LocalStep

\* The deletion of the tenant updates tokens no refresh holds.
LEMMA DeleteTenantTokensKeeps ==
    ASSUME IInv, NEW r \in Requests, DeleteTenantTokens(r)
    PROVE  IInv'
<1>1. PICK old \in Request : old = req[r]
  BY DEF IInv, TypeOK
<1>2. PICK ts \in SUBSET Ids : ts = {t \in old.seen : token[t].st = "live"}
  BY DEF Request
<1> DEFINE row == [old EXCEPT !.pc = "written", !.seen = ts]
<1>3. /\ row \in Request /\ row.pc = "written" /\ row.op = old.op /\ row.seen = ts
  BY DEF Request
<1>4. /\ req' = [req EXCEPT ![r] = row] /\ old.pc = "begun" /\ old.op = "delete_tenant"
      /\ \A t \in old.seen : ~TokenLocked(t)
      /\ UNCHANGED <<member, tenant, session, token, otp, expiries>>
  BY <1>1, <1>2 DEF DeleteTenantTokens
<1> HIDE DEF row
<1>5. FitsTables(row)
  BY <1>2, <1>3, <1>4 DEF FitsTables
<1> QED
  BY <1>1, <1>3, <1>4, <1>5, LocalStep

\* The handler whose transaction the database gave up.
LEMMA DeadlockVictimKeeps ==
    ASSUME IInv, NEW r \in Requests, NEW q \in Requests, DeadlockVictim(r, q)
    PROVE  IInv'
  BY GotoStep DEF DeadlockVictim, Revoker

-----------------------------------------------------------------------------
(***************************************************************************)
(* Steps that end sessions and tokens, or write other tables.              *)
(***************************************************************************)

\* A request stays where it is, ends, or goes through the statements of a reuse.
GoesOn(q) ==
    /\ req'[q].op = req[q].op /\ req'[q].own = req[q].own /\ req'[q].id = req[q].id
    /\ req'[q].m = req[q].m /\ req'[q].seen = req[q].seen
    /\ \/ req'[q].pc = req[q].pc
       \/ req'[q].pc = "done"
       \/ req[q].pc \in {"reuse", "revoking"} /\ req'[q].pc \in {"revoking", "refused"}
    /\ req[q].pc = "done" => req'[q].pc = "done"
    /\ req'[q].pc # req[q].pc =>
         /\ req'[q].pc \in {"revoking", "refused"} => session'[req[q].own].st # "live"
         /\ req'[q].pc = "refused" =>
              \A t \in Ids : token'[t].s = req[q].own => token'[t].st # "live"

\* Rows keep what they belong to and no row becomes live.
Shrinks ==
    /\ \A s \in Ids : /\ session'[s].m = session[s].m /\ session'[s].late = session[s].late
                      /\ session'[s].st = "live" => session[s].st = "live"
                      /\ session[s].st = "none" => session'[s].st = "none"
    /\ \A t \in Ids : /\ token'[t].s = token[t].s
                      /\ token'[t].st = "live" => token[t].st = "live"
                      /\ token[t].st = "none" => token'[t].st = "none"
                      /\ session[token[t].s].st # "none" /\ session'[token[t].s].st = "none" =>
                           token'[t].st = "none"

\* A token that a refresh has read stays, one that it has marked stays live, and
\* no row goes while a revocation is under way.
SparesRequests ==
    \A q \in Requests :
        /\ req'[q].pc \in {"read", "marked"} => token'[req[q].id].st # "none"
        /\ req'[q].pc = "marked" => token'[req[q].id].st = "live"
        /\ req'[q].pc = "written" =>
             \A i \in Ids : /\ session[i].st # "none" => session'[i].st # "none"
                            /\ token[i].st # "none" => token'[i].st # "none"

LEMMA ShrinkStep ==
    ASSUME IInv, TypeOK', OldPasswordEndsSessions', UsedIsConsumed',
           Shrinks, SparesRequests, \A q \in Requests : GoesOn(q)
    PROVE  IInv'
<1>0. /\ \A r \in Requests : req[r].own \in Ids /\ req[r].id \in Ids
      /\ \A t \in Ids : token[t].s \in Ids
      /\ \A r \in Requests : r \in Ids
  BY DEF IInv, TypeOK, Request, TokenRow, Ids
<1>1. TokensHaveSessions'
  <2>1. ASSUME NEW t \in Ids, token'[t].st # "none" PROVE session'[token'[t].s].st # "none"
    BY <2>1 DEF IInv, TokensHaveSessions, Shrinks
  <2> QED
    BY <2>1 DEF TokensHaveSessions
<1>2. RowsOfTheDone'
  BY <1>0 DEF IInv, RowsOfTheDone, Shrinks, GoesOn
<1>3. SingleToken'
  <2>1. ASSUME NEW t \in Ids, NEW u \in Ids, token'[t].st = "live", token'[u].st = "live",
               token'[t].s = token'[u].s
        PROVE  t = u
    BY <2>1 DEF IInv, SingleToken, Shrinks
  <2> QED
    BY <2>1 DEF SingleToken
<1>4. RefreshHolds'
  <2>1. ASSUME NEW r \in Requests, req'[r].pc \in {"read", "marked"}
        PROVE  /\ req'[r].pc = req[r].pc
               /\ token'[req'[r].id].st # "none" /\ token'[req'[r].id].s = req'[r].own
    <3>1. req'[r].pc = req[r].pc
      BY <2>1 DEF GoesOn
    <3> QED
      BY <1>0, <2>1, <3>1 DEF IInv, RefreshHolds, Shrinks, SparesRequests, GoesOn
  <2>2. ASSUME NEW r \in Requests, req'[r].pc = "marked"
        PROVE  /\ token'[req'[r].id].st = "live"
               /\ \A q \in Requests : req'[q].pc = "marked" /\ req'[q].id = req'[r].id => q = r
               /\ \A q \in Requests : req'[q].pc = "written" /\ req'[q].op = "delete_tenant" =>
                    req'[r].id \notin req'[q].seen
    <3>1. \A q \in Requests : req'[q].pc \in {"marked", "written"} => req[q].pc = req'[q].pc
      BY DEF GoesOn
    <3>2. \A q \in Requests : /\ req'[q].op = req[q].op /\ req'[q].id = req[q].id
                              /\ req'[q].seen = req[q].seen
      BY DEF GoesOn
    <3> QED
      BY <2>2, <3>1, <3>2 DEF IInv, RefreshHolds, SparesRequests
  <2> QED
    BY <2>1, <2>2 DEF RefreshHolds
<1>5. OwnersAreDone'
  <2>1. ASSUME NEW r \in Requests
        PROVE  /\ req'[r].op \in {"refresh", "logout", "change_password"}
                    /\ req'[r].own \in Requests => req'[req'[r].own].pc = "done"
               /\ req'[r].pc \in {"read", "marked", "reuse", "revoking", "refused"} =>
                    req'[r].op \in {"refresh", "logout"}
               /\ req'[r].pc = "token" => req'[r].op = "confirm_reset"
               /\ req'[r].op = "change_password" => session'[req'[r].own].m = req'[r].m
    BY <1>0 DEF IInv, OwnersAreDone, Shrinks, GoesOn
  <2> QED
    BY <2>1 DEF OwnersAreDone
<1>6. EndedSessions'
  <2>1. ASSUME NEW r \in Requests, req'[r].pc = req[r].pc, req[r].pc \in {"revoking", "refused"}
        PROVE  /\ session'[req'[r].own].st # "live"
               /\ req[r].pc = "refused" =>
                    \A t \in Ids : token'[t].s = req'[r].own => token'[t].st # "live"
    BY <1>0, <2>1 DEF IInv, EndedSessions, Shrinks, GoesOn
  <2>2. ASSUME NEW r \in Requests, req'[r].pc # req[r].pc
        PROVE  /\ req'[r].pc \in {"revoking", "refused"} => session'[req'[r].own].st # "live"
               /\ req'[r].pc = "refused" =>
                    \A t \in Ids : token'[t].s = req'[r].own => token'[t].st # "live"
    BY <2>2 DEF GoesOn
  <2> QED
    BY <2>1, <2>2 DEF EndedSessions
<1>7. RevocationsSeeAll'
  <2>1. ASSUME NEW r \in Requests, req'[r].pc = "written",
               req'[r].op \notin {"revoke_session", "delete_tenant"},
               NEW s \in Ids, session'[s].st = "live", session'[s].m = req'[r].m
        PROVE  session'[s].late \/ s \in req'[r].seen \/ s \in Spared(r)'
    <3>1. req[r].pc = "written" /\ req'[r].op = req[r].op
      BY <2>1 DEF GoesOn
    <3>2. session[s].st = "live" /\ session[s].m = req[r].m /\ session'[s].late = session[s].late
      BY <2>1 DEF Shrinks, GoesOn
    <3>3. Spared(r)' = Spared(r) /\ req'[r].seen = req[r].seen
      BY DEF Spared, GoesOn
    <3> QED
      BY <2>1, <3>1, <3>2, <3>3 DEF IInv, RevocationsSeeAll
  <2> QED
    BY <2>1 DEF RevocationsSeeAll
<1>8. SeenExist'
  <2>1. ASSUME NEW r \in Requests, req'[r].pc = "written", NEW i \in req'[r].seen
        PROVE  IF req'[r].op = "delete_tenant" THEN token'[i].st # "none"
               ELSE session'[i].st # "none"
    <3>1. req[r].pc = "written" /\ req'[r].op = req[r].op /\ i \in req[r].seen
      BY <2>1 DEF GoesOn
    <3>2. i \in Ids
      BY <3>1 DEF IInv, TypeOK, Request
    <3> QED
      BY <2>1, <3>1, <3>2 DEF IInv, SeenExist, SparesRequests
  <2> QED
    BY <2>1 DEF SeenExist
<1> QED
  BY <1>1, <1>2, <1>3, <1>4, <1>5, <1>6, <1>7, <1>8 DEF IInv

\* Goto changes where a handler is and nothing else.
LEMMA GotoKeeps ==
    ASSUME TypeOK, NEW r \in Requests,
           NEW p \in {"done", "revoking", "refused"}, Goto(r, p)
    PROVE  /\ req' \in [Requests -> Request] /\ req'[r].pc = p
           /\ req'[r].op = req[r].op /\ req'[r].own = req[r].own /\ req'[r].id = req[r].id
           /\ req'[r].m = req[r].m /\ req'[r].seen = req[r].seen
           /\ \A q \in Requests \ {r} : req'[q] = req[q]
<1>1. PICK old \in Request : old = req[r]
  BY DEF TypeOK
<1> DEFINE row == [old EXCEPT !.pc = p]
<1>2. /\ row \in Request /\ row.pc = p /\ row.op = old.op /\ row.own = old.own /\ row.m = old.m
      /\ row.id = old.id /\ row.seen = old.seen
  BY DEF Request
<1>3. req' = [req EXCEPT ![r] = row]
  BY <1>1 DEF Goto
<1> HIDE DEF row
<1> QED
  BY <1>1, <1>2, <1>3 DEF TypeOK

\* A handler that ends goes on, in the sense above, and so do the others.
LEMMA EndGoesOn ==
    ASSUME IInv, NEW r \in Requests, Goto(r, "done")
    PROVE  /\ \A q \in Requests : GoesOn(q)
           /\ \A q \in Requests : req'[q].pc \in {"read", "marked"} =>
                q # r /\ req'[q].pc = req[q].pc
<1>1. /\ req'[r].pc = "done"
      /\ req'[r].op = req[r].op /\ req'[r].own = req[r].own /\ req'[r].id = req[r].id
      /\ req'[r].m = req[r].m /\ req'[r].seen = req[r].seen
      /\ \A q \in Requests \ {r} : req'[q] = req[q]
  BY GotoKeeps DEF IInv
<1> QED
  BY <1>1 DEF GoesOn

\* Steps that leave sessions and tokens alone.
LEMMA OtherTables ==
    ASSUME IInv, TypeOK', OldPasswordEndsSessions', UsedIsConsumed', UNCHANGED <<session, token>>,
           (\E r \in Requests : Goto(r, "done")) \/ UNCHANGED req
    PROVE  IInv'
<1>1. Shrinks
  BY DEF Shrinks
<1>2. \A q \in Requests : /\ GoesOn(q)
                          /\ req'[q].pc \in {"read", "marked"} => req'[q].pc = req[q].pc
  <2>1. CASE UNCHANGED req
    BY <2>1 DEF GoesOn
  <2>2. CASE \E r \in Requests : Goto(r, "done")
    BY <2>2, EndGoesOn
  <2> QED
    BY <2>1, <2>2
<1>3. SparesRequests
  BY <1>2 DEF SparesRequests, IInv, RefreshHolds
<1> QED
  BY <1>1, <1>2, <1>3, ShrinkStep

\* A one-time token is issued to a member.
LEMMA IssueKeeps ==
    ASSUME IInv, NEW r \in Requests, NEW m \in Members, NEW p \in {"reset", "verify"},
           otp' = TokenIssued(r, m, p), Goto(r, "done"),
           UNCHANGED <<member, tenant, session, token, expiries>>
    PROVE  IInv'
<1> DEFINE new == [st |-> "live", m |-> m, purpose |-> p, uses |-> 0]
<1>1. new \in OneTimeToken /\ new.uses = 0 /\ new.st = "live"
  BY DEF OneTimeToken
<1>2. otp' = [otp EXCEPT ![r] = new] /\ r \in Ids
  BY DEF TokenIssued, Ids
<1> HIDE DEF new
<1>3. otp' \in [Ids -> OneTimeToken] /\ otp'[r] = new /\ \A o \in Ids \ {r} : otp'[o] = otp[o]
  BY <1>1, <1>2 DEF IInv, TypeOK
<1>4. req' \in [Requests -> Request]
  BY GotoKeeps DEF IInv
<1>5. TypeOK'
  BY <1>3, <1>4 DEF IInv, TypeOK
<1>6. OldPasswordEndsSessions'
  BY DEF IInv, OldPasswordEndsSessions
<1>7. UsedIsConsumed'
  BY <1>1, <1>3 DEF IInv, UsedIsConsumed
<1> QED
  BY <1>5, <1>6, <1>7, OtherTables

LEMMA RequestPasswordResetKeeps ==
    ASSUME IInv, NEW r \in Requests, NEW m \in Members, RequestPasswordReset(r, m)
    PROVE  IInv'
  BY IssueKeeps DEF RequestPasswordReset

LEMMA RequestEmailVerifyKeeps ==
    ASSUME IInv, NEW r \in Requests, NEW s \in Ids, RequestEmailVerify(r, s)
    PROVE  IInv'
<1>1. session[s].m \in Members
  BY DEF IInv, TypeOK, SessionRow
<1> QED
  BY <1>1, IssueKeeps DEF RequestEmailVerify

\* A live one-time token is consumed.
LEMMA ConsumeRow ==
    ASSUME IInv, NEW o \in Ids, otp[o].st = "live",
           otp' = [otp EXCEPT ![o].st = "consumed", ![o].uses = @ + 1]
    PROVE  otp' \in [Ids -> OneTimeToken] /\ UsedIsConsumed'
<1>1. PICK old \in OneTimeToken : old = otp[o]
  BY DEF IInv, TypeOK
<1>2. old.uses = 0
  BY <1>1 DEF IInv, UsedIsConsumed
<1>3. PICK n \in Nat : n = otp[o].uses + 1 /\ n = 1
  BY <1>1, <1>2
<1> DEFINE new == [old EXCEPT !.st = "consumed", !.uses = n]
<1>4. new \in OneTimeToken /\ new.st = "consumed" /\ new.uses = n
  BY DEF OneTimeToken
<1>5. otp' = [otp EXCEPT ![o] = new]
  BY <1>1, <1>3
<1> HIDE DEF new
<1>6. otp' \in [Ids -> OneTimeToken] /\ otp'[o] = new /\ \A u \in Ids \ {o} : otp'[u] = otp[u]
  BY <1>4, <1>5 DEF IInv, TypeOK
<1>7. otp'[o].st = "consumed" /\ otp'[o].uses = 1
  BY <1>3, <1>4, <1>6
<1> QED
  BY <1>6, <1>7 DEF IInv, UsedIsConsumed

LEMMA ConfirmEmailVerifyKeeps ==
    ASSUME IInv, NEW r \in Requests, NEW o \in Ids, ConfirmEmailVerify(r, o)
    PROVE  IInv'
<1>1. otp' \in [Ids -> OneTimeToken] /\ UsedIsConsumed'
  BY ConsumeRow DEF ConfirmEmailVerify, EmailVerified
<1>2. PICK m \in Members : m = otp[o].m
  BY DEF IInv, TypeOK, OneTimeToken
<1>3. PICK old \in MemberRow : old = member[m]
  BY DEF IInv, TypeOK
<1> DEFINE new == [old EXCEPT !.verified = TRUE]
<1>4. new \in MemberRow /\ new.pw = old.pw
  BY DEF MemberRow
<1>5. member' = [member EXCEPT ![m] = new]
  BY <1>2, <1>3 DEF ConfirmEmailVerify, EmailVerified
<1> HIDE DEF new
<1>6. member' \in [Members -> MemberRow] /\ \A n \in Members : member'[n].pw = member[n].pw
  BY <1>3, <1>4, <1>5 DEF IInv, TypeOK
<1>7. Goto(r, "done") /\ UNCHANGED <<tenant, session, token, expiries>>
  BY DEF ConfirmEmailVerify
<1>8. req' \in [Requests -> Request]
  BY <1>7, GotoKeeps DEF IInv
<1>9. TypeOK'
  BY <1>1, <1>6, <1>7, <1>8 DEF IInv, TypeOK
<1>10. OldPasswordEndsSessions'
  BY <1>6, <1>7 DEF IInv, OldPasswordEndsSessions, TypeOK, SessionRow
<1> QED
  BY <1>1, <1>7, <1>9, <1>10, OtherTables

LEMMA ExpireOneTimeTokenKeeps ==
    ASSUME IInv, NEW o \in Ids, ExpireOneTimeToken(o)
    PROVE  IInv'
<1>1. PICK old \in OneTimeToken : old = otp[o]
  BY DEF IInv, TypeOK
<1> DEFINE new == [old EXCEPT !.st = "expired"]
<1>2. new \in OneTimeToken /\ new.st = "expired" /\ new.uses = old.uses
  BY DEF OneTimeToken
<1>3. /\ otp' = [otp EXCEPT ![o] = new] /\ old.st = "live"
      /\ UNCHANGED <<member, tenant, session, token, req>>
  BY <1>1 DEF ExpireOneTimeToken
<1> HIDE DEF new
<1>4. otp' \in [Ids -> OneTimeToken] /\ otp'[o] = new /\ \A u \in Ids \ {o} : otp'[u] = otp[u]
  BY <1>2, <1>3 DEF IInv, TypeOK
<1>5. expiries' \in 0 .. MaxExpiries
  BY AdminSessionsAssumption DEF ExpireOneTimeToken, IInv, TypeOK
<1>6. TypeOK'
  BY <1>3, <1>4, <1>5 DEF IInv, TypeOK
<1>7. OldPasswordEndsSessions' /\ UsedIsConsumed'
  BY <1>1, <1>2, <1>3, <1>4 DEF IInv, OldPasswordEndsSessions, UsedIsConsumed
<1> QED
  BY <1>3, <1>6, <1>7, OtherTables

\* The rows an update leaves.
LEMMA RevokedSessions ==
    ASSUME TypeOK, NEW ss
    PROVE  /\ RevokeSessions(ss) \in [Ids -> SessionRow]
           /\ \A s \in Ids : LET row == RevokeSessions(ss)[s] IN
                /\ row.m = session[s].m /\ row.late = session[s].late
                /\ row.pw = session[s].pw /\ row.expired = session[s].expired
                /\ row.st = IF s \in ss THEN "revoked" ELSE session[s].st
<1>1. ASSUME NEW s \in Ids
      PROVE  LET row == IF s \in ss THEN [session[s] EXCEPT !.st = "revoked"] ELSE session[s] IN
             /\ row \in SessionRow
             /\ row.m = session[s].m /\ row.late = session[s].late
             /\ row.pw = session[s].pw /\ row.expired = session[s].expired
             /\ row.st = IF s \in ss THEN "revoked" ELSE session[s].st
  <2>1. PICK old \in SessionRow : old = session[s]
    BY DEF TypeOK
  <2> DEFINE new == [old EXCEPT !.st = "revoked"]
  <2>2. /\ new \in SessionRow /\ new.m = old.m /\ new.late = old.late /\ new.pw = old.pw
        /\ new.expired = old.expired /\ new.st = "revoked"
    BY DEF SessionRow
  <2> HIDE DEF new
  <2>3. new = [session[s] EXCEPT !.st = "revoked"]
    BY <2>1 DEF new
  <2> QED
    BY <2>1, <2>2, <2>3
<1> QED
  BY <1>1 DEF RevokeSessions

LEMMA RevokedTokens ==
    ASSUME TypeOK, NEW ts
    PROVE  /\ RevokeTokens(ts) \in [Ids -> TokenRow]
           /\ \A t \in Ids : LET row == RevokeTokens(ts)[t] IN
                /\ row.s = token[t].s
                /\ row.st = IF t \in ts THEN "revoked" ELSE token[t].st
<1>1. ASSUME NEW t \in Ids
      PROVE  LET row == IF t \in ts THEN [token[t] EXCEPT !.st = "revoked"] ELSE token[t] IN
             /\ row \in TokenRow /\ row.s = token[t].s
             /\ row.st = IF t \in ts THEN "revoked" ELSE token[t].st
  <2>1. PICK old \in TokenRow : old = token[t]
    BY DEF TypeOK
  <2> DEFINE new == [old EXCEPT !.st = "revoked"]
  <2>2. new \in TokenRow /\ new.s = old.s /\ new.st = "revoked"
    BY DEF TokenRow
  <2> HIDE DEF new
  <2>3. new = [token[t] EXCEPT !.st = "revoked"]
    BY <2>1 DEF new
  <2> QED
    BY <2>1, <2>2, <2>3
<1> QED
  BY <1>1 DEF RevokeTokens

\* The first statement of a reuse: the session is over.
LEMMA ReuseRevokeSessionKeeps ==
    ASSUME IInv, NEW r \in Requests, ReuseRevokeSession(r)
    PROVE  IInv'
<1>1. PICK own \in Ids : own = req[r].own
  BY DEF IInv, TypeOK, Request
<1>2. PICK ss : ss = {own} \cap SessionsToRevoke(session[own].m, {})
  OBVIOUS
<1>3. /\ session' = RevokeSessions(ss) /\ Goto(r, "revoking") /\ req[r].pc = "reuse"
      /\ UNCHANGED <<member, tenant, token, otp, expiries>>
  BY <1>1, <1>2 DEF ReuseRevokeSession
<1>4. /\ session' \in [Ids -> SessionRow]
      /\ \A s \in Ids : /\ session'[s].m = session[s].m /\ session'[s].late = session[s].late
                        /\ session'[s].pw = session[s].pw
                        /\ session'[s].st = IF s \in ss THEN "revoked" ELSE session[s].st
  BY <1>3, RevokedSessions DEF IInv
<1>5. session[own].st = "live" => own \in ss
  BY <1>2 DEF SessionsToRevoke
<1>6. \A s \in ss : s \in Ids /\ session[s].st = "live"
  BY <1>2 DEF SessionsToRevoke
<1>7. /\ req' \in [Requests -> Request] /\ req'[r].pc = "revoking"
      /\ req'[r].op = req[r].op /\ req'[r].own = req[r].own /\ req'[r].id = req[r].id
      /\ req'[r].m = req[r].m /\ req'[r].seen = req[r].seen
      /\ \A q \in Requests \ {r} : req'[q] = req[q]
  BY <1>3, GotoKeeps DEF IInv
<1>8. TypeOK'
  BY <1>3, <1>4, <1>7 DEF IInv, TypeOK
<1>9. OldPasswordEndsSessions' /\ UsedIsConsumed'
  BY <1>3, <1>4 DEF IInv, OldPasswordEndsSessions, UsedIsConsumed
<1>10. Shrinks
  BY <1>3, <1>4, <1>6 DEF Shrinks, IInv, TypeOK, TokenRow
<1>11. \A q \in Requests : GoesOn(q)
  BY <1>1, <1>3, <1>4, <1>5, <1>7 DEF GoesOn
<1>12. SparesRequests
  <2>1. \A q \in Requests : req'[q].pc \in {"read", "marked", "written"} => req[q].pc = req'[q].pc
    BY <1>7
  <2> QED
    BY <1>3, <1>4, <2>1 DEF SparesRequests, IInv, RefreshHolds
<1> QED
  BY <1>8, <1>9, <1>10, <1>11, <1>12, ShrinkStep

\* The second statement: the tokens of the session are over too.
LEMMA ReuseRevokeTokensKeeps ==
    ASSUME IInv, NEW r \in Requests, ReuseRevokeTokens(r)
    PROVE  IInv'
<1>1. PICK ts : ts = LiveTokensOf({req[r].own})
  OBVIOUS
<1>2. /\ token' = RevokeTokens(ts) /\ Goto(r, "refused") /\ req[r].pc = "revoking"
      /\ \A t \in ts : ~TokenLocked(t)
      /\ UNCHANGED <<member, tenant, session, otp, expiries>>
  BY <1>1 DEF ReuseRevokeTokens
<1>3. /\ token' \in [Ids -> TokenRow]
      /\ \A t \in Ids : /\ token'[t].s = token[t].s
                        /\ token'[t].st = IF t \in ts THEN "revoked" ELSE token[t].st
  BY <1>2, RevokedTokens DEF IInv
<1>4. /\ \A t \in ts : t \in Ids /\ token[t].st = "live"
      /\ \A t \in Ids : token[t].s = req[r].own /\ token[t].st = "live" => t \in ts
  BY <1>1 DEF LiveTokensOf
<1>5. /\ req' \in [Requests -> Request] /\ req'[r].pc = "refused"
      /\ req'[r].op = req[r].op /\ req'[r].own = req[r].own /\ req'[r].id = req[r].id
      /\ req'[r].m = req[r].m /\ req'[r].seen = req[r].seen
      /\ \A q \in Requests \ {r} : req'[q] = req[q]
  BY <1>2, GotoKeeps DEF IInv
<1>6. TypeOK'
  BY <1>2, <1>3, <1>5 DEF IInv, TypeOK
<1>7. OldPasswordEndsSessions' /\ UsedIsConsumed'
  BY <1>2 DEF IInv, OldPasswordEndsSessions, UsedIsConsumed
<1>8. Shrinks
  BY <1>2, <1>3, <1>4 DEF Shrinks
<1>9. \A q \in Requests : GoesOn(q)
  <2>1. session[req[r].own].st # "live"
    BY <1>2 DEF IInv, EndedSessions
  <2>2. \A t \in Ids : token'[t].s = req[r].own => token'[t].st # "live"
    BY <1>3, <1>4
  <2> QED
    BY <1>2, <1>5, <2>1, <2>2 DEF GoesOn
<1>10. SparesRequests
  <2>1. \A q \in Requests : req'[q].pc \in {"read", "marked", "written"} =>
          req[q].pc = req'[q].pc /\ req[q].id \in Ids
    BY <1>5 DEF IInv, TypeOK, Request
  <2>2. \A q \in Requests : req[q].pc = "marked" => req[q].id \notin ts
    BY <1>2 DEF TokenLocked
  <2> QED
    BY <1>2, <1>3, <1>4, <2>1, <2>2 DEF SparesRequests, IInv, RefreshHolds
<1> QED
  BY <1>6, <1>7, <1>8, <1>9, <1>10, ShrinkStep

\* Time.
LEMMA ExpireSessionKeeps ==
    ASSUME IInv, NEW s \in Ids, ExpireSession(s)
    PROVE  IInv'
<1>1. PICK old \in SessionRow : old = session[s]
  BY DEF IInv, TypeOK
<1> DEFINE new == [old EXCEPT !.expired = TRUE]
<1>2. /\ new \in SessionRow /\ new.m = old.m /\ new.late = old.late /\ new.pw = old.pw
      /\ new.st = old.st
  BY DEF SessionRow
<1>3. session' = [session EXCEPT ![s] = new] /\ UNCHANGED <<member, tenant, token, otp, req>>
  BY <1>1 DEF ExpireSession
<1> HIDE DEF new
<1>4. /\ session' \in [Ids -> SessionRow]
      /\ \A i \in Ids : /\ session'[i].m = session[i].m /\ session'[i].late = session[i].late
                        /\ session'[i].pw = session[i].pw /\ session'[i].st = session[i].st
  BY <1>1, <1>2, <1>3 DEF IInv, TypeOK
<1>5. expiries' \in 0 .. MaxExpiries
  BY AdminSessionsAssumption DEF ExpireSession, IInv, TypeOK
<1>6. TypeOK'
  BY <1>3, <1>4, <1>5 DEF IInv, TypeOK
<1>7. OldPasswordEndsSessions' /\ UsedIsConsumed'
  BY <1>3, <1>4 DEF IInv, OldPasswordEndsSessions, UsedIsConsumed
<1>8. Shrinks
  BY <1>3, <1>4 DEF Shrinks, IInv, TypeOK, TokenRow
<1>9. \A q \in Requests : GoesOn(q)
  BY <1>3 DEF GoesOn
<1>10. SparesRequests
  BY <1>3, <1>4 DEF SparesRequests, IInv, RefreshHolds
<1> QED
  BY <1>6, <1>7, <1>8, <1>9, <1>10, ShrinkStep

\* A session is cleaned up with its tokens, when no request is under way.
LEMMA CleanupKeeps ==
    ASSUME IInv, NEW s \in Ids, CleanupAdminSessions(s)
    PROVE  IInv'
<1>1. PICK old \in SessionRow : old = session[s]
  BY DEF IInv, TypeOK
<1> DEFINE new == [old EXCEPT !.st = "none"]
<1>2. new \in SessionRow /\ new.m = old.m /\ new.late = old.late /\ new.st = "none"
  BY DEF SessionRow
<1>3. /\ session' = [session EXCEPT ![s] = new] /\ UNCHANGED <<member, tenant, otp, req, expiries>>
      /\ \A r \in Requests : req[r].pc \in {"idle", "done", "refused"}
  BY <1>1 DEF CleanupAdminSessions
<1> HIDE DEF new
<1>4. /\ session' \in [Ids -> SessionRow] /\ session'[s] = new
      /\ \A i \in Ids \ {s} : session'[i] = session[i]
  BY <1>1, <1>2, <1>3 DEF IInv, TypeOK
<1>5. ASSUME NEW t \in Ids
      PROVE  /\ token'[t] \in TokenRow /\ token'[t].s = token[t].s
             /\ token'[t].st = IF token[t].s = s THEN "none" ELSE token[t].st
  <2>1. PICK row \in TokenRow : row = token[t]
    BY DEF IInv, TypeOK
  <2> DEFINE gone == [row EXCEPT !.st = "none"]
  <2>2. gone \in TokenRow /\ gone.s = row.s /\ gone.st = "none"
    BY DEF TokenRow
  <2>3. token'[t] = IF row.s = s THEN gone ELSE row
    BY <2>1 DEF CleanupAdminSessions
  <2> HIDE DEF gone
  <2> QED
    BY <2>1, <2>2, <2>3
<1>6. token' \in [Ids -> TokenRow]
  <2>1. token' = [t \in Ids |-> token'[t]]
    BY DEF CleanupAdminSessions
  <2> QED
    BY <1>5, <2>1
<1>7. TypeOK'
  BY <1>3, <1>4, <1>6 DEF IInv, TypeOK
<1>8. OldPasswordEndsSessions' /\ UsedIsConsumed'
  BY <1>2, <1>3, <1>4 DEF IInv, OldPasswordEndsSessions, UsedIsConsumed
<1>9. Shrinks
  BY <1>1, <1>2, <1>4, <1>5 DEF Shrinks, IInv, TypeOK, TokenRow
<1>10. (\A q \in Requests : GoesOn(q)) /\ SparesRequests
  BY <1>3 DEF GoesOn, SparesRequests
<1> QED
  BY <1>7, <1>8, <1>9, <1>10, ShrinkStep

\* What a revocation writes into the row of its member.
LEMMA WrittenMember ==
    ASSUME IInv, NEW r \in Requests
    PROVE  /\ MemberWritten(r) \in [Members -> MemberRow]
           /\ \A m \in Members : MemberWritten(r)[m].pw =
                IF m = req[r].m /\ req[r].op \in {"change_password", "confirm_reset", "cli_reset"}
                THEN r ELSE member[m].pw
<1>1. PICK n \in Members : n = req[r].m
  BY DEF IInv, TypeOK, Request
<1>2. PICK old \in MemberRow : old = member[n]
  BY DEF IInv, TypeOK
<1> DEFINE a == [old EXCEPT !.pw = r]
           b == [old EXCEPT !.active = FALSE]
<1>3. /\ a \in MemberRow /\ a.pw = r /\ b \in MemberRow /\ b.pw = old.pw
  BY DEF MemberRow, Ids
<1>4. /\ [member EXCEPT ![n].pw = r] = [member EXCEPT ![n] = a]
      /\ [member EXCEPT ![n].active = FALSE] = [member EXCEPT ![n] = b]
  BY <1>2
<1> HIDE DEF a, b
<1>5. member \in [Members -> MemberRow]
  BY DEF IInv, TypeOK
<1>6. CASE req[r].op \in {"change_password", "confirm_reset", "cli_reset"}
  <2>1. MemberWritten(r) = [member EXCEPT ![n] = a]
    BY <1>1, <1>4, <1>6 DEF MemberWritten
  <2> QED
    BY <1>1, <1>3, <1>5, <1>6, <2>1
<1>7. CASE req[r].op = "disable_member"
  <2>1. MemberWritten(r) = [member EXCEPT ![n] = b]
    BY <1>1, <1>4, <1>7 DEF MemberWritten
  <2> QED
    BY <1>1, <1>2, <1>3, <1>5, <1>7, <2>1
<1>8. CASE req[r].op \notin {"change_password", "confirm_reset", "cli_reset", "disable_member"}
  <2>1. MemberWritten(r) = member
    BY <1>8 DEF MemberWritten
  <2> QED
    BY <1>5, <1>8, <2>1
<1> QED
  BY <1>6, <1>7, <1>8

\* What it writes into the rows of the sessions.
LEMMA WrittenSessions ==
    ASSUME IInv, NEW r \in Requests, NEW revoked, revoked = RevokeSessions(req[r].seen),
           session' = [s \in Ids |-> IF s \in Spared(r)
                                     THEN [revoked[s] EXCEPT !.pw = r] ELSE revoked[s]]
    PROVE  /\ session' \in [Ids -> SessionRow]
           /\ \A s \in Ids :
                /\ session'[s].m = session[s].m /\ session'[s].late = session[s].late
                /\ session'[s].st = IF s \in req[r].seen THEN "revoked" ELSE session[s].st
                /\ session'[s].pw = IF s \in Spared(r) THEN r ELSE session[s].pw
<1>1. ASSUME NEW s \in Ids
      PROVE  /\ session'[s] \in SessionRow
             /\ session'[s].m = session[s].m /\ session'[s].late = session[s].late
             /\ session'[s].st = IF s \in req[r].seen THEN "revoked" ELSE session[s].st
             /\ session'[s].pw = IF s \in Spared(r) THEN r ELSE session[s].pw
  <2>1. PICK row \in SessionRow : row = revoked[s]
    BY RevokedSessions DEF IInv
  <2>2. /\ row.m = session[s].m /\ row.late = session[s].late /\ row.pw = session[s].pw
        /\ row.st = IF s \in req[r].seen THEN "revoked" ELSE session[s].st
    BY <2>1, RevokedSessions DEF IInv
  <2> DEFINE new == [row EXCEPT !.pw = r]
  <2>3. /\ new \in SessionRow /\ new.m = row.m /\ new.late = row.late /\ new.st = row.st
        /\ new.pw = r
    BY DEF SessionRow, Ids
  <2>4. session'[s] = IF s \in Spared(r) THEN new ELSE row
    BY <2>1
  <2> HIDE DEF new
  <2> QED
    BY <2>1, <2>2, <2>3, <2>4
<1>2. session' = [s \in Ids |-> session'[s]]
  OBVIOUS
<1> QED
  BY <1>1, <1>2

\* The tokens a revocation wants are live.
LEMMA WantedLive ==
    ASSUME NEW r \in Requests
    PROVE  \A t \in Wanted(r) : t \in Ids /\ token[t].st = "live"
  BY DEF Wanted, LiveTokensOf, TokensToRevoke

\* The commit of a revocation: no live session of the member keeps the old
\* password, unless its login came late.
LEMMA RevokeCommitKeeps ==
    ASSUME IInv, NEW r \in Requests, RevokeCommit(r)
    PROVE  IInv'
<1>1. PICK m \in Members : m = req[r].m
  BY DEF IInv, TypeOK, Request
<1>2. /\ req[r].pc = "written" /\ req[r].op # "delete_tenant" /\ req[r].seen \in SUBSET Ids
      /\ req[r].id \in Ids /\ Goto(r, "done") /\ UNCHANGED <<tenant, expiries>>
      /\ \A t \in Wanted(r) : ~TokenLocked(t)
  BY DEF RevokeCommit, Revoker, IInv, TypeOK, Request
<1>3. CASE UNCHANGED <<member, session, token, otp>>
  BY <1>2, <1>3, GotoStep
<1>4. CASE /\ ~(req[r].op = "confirm_reset" /\ otp[req[r].id].st # "live")
           /\ member' = MemberWritten(r)
           /\ session' = [s \in Ids |-> IF s \in Spared(r)
                                        THEN [RevokeSessions(req[r].seen)[s] EXCEPT !.pw = r]
                                        ELSE RevokeSessions(req[r].seen)[s]]
           /\ token' = RevokeTokens(Wanted(r))
           /\ ResetConsumed(r)
  <2>1. /\ member' \in [Members -> MemberRow]
        /\ \A n \in Members : member'[n].pw =
             IF n = m /\ req[r].op \in {"change_password", "confirm_reset", "cli_reset"}
             THEN r ELSE member[n].pw
    BY <1>1, <1>4, WrittenMember
  <2>2. /\ session' \in [Ids -> SessionRow]
        /\ \A s \in Ids :
             /\ session'[s].m = session[s].m /\ session'[s].late = session[s].late
             /\ session'[s].st = IF s \in req[r].seen THEN "revoked" ELSE session[s].st
             /\ session'[s].pw = IF s \in Spared(r) THEN r ELSE session[s].pw
    <3>1. PICK revoked : revoked = RevokeSessions(req[r].seen)
      OBVIOUS
    <3>2. session' = [s \in Ids |-> IF s \in Spared(r)
                                    THEN [revoked[s] EXCEPT !.pw = r] ELSE revoked[s]]
      BY <1>4, <3>1
    <3> QED
      BY <3>1, <3>2, WrittenSessions
  <2>3. /\ token' \in [Ids -> TokenRow]
        /\ \A t \in Ids : /\ token'[t].s = token[t].s
                          /\ token'[t].st = IF t \in Wanted(r) THEN "revoked" ELSE token[t].st
    <3>1. PICK ts : ts = Wanted(r)
      OBVIOUS
    <3>2. token' = RevokeTokens(ts)
      BY <1>4, <3>1
    <3> QED
      BY <3>1, <3>2, RevokedTokens DEF IInv
  <2>4. otp' \in [Ids -> OneTimeToken] /\ UsedIsConsumed'
    <3>1. CASE req[r].op = "confirm_reset"
      BY <1>2, <1>4, <3>1, ConsumeRow DEF ResetConsumed
    <3>2. CASE req[r].op # "confirm_reset"
      BY <1>4, <3>2 DEF ResetConsumed, IInv, TypeOK, UsedIsConsumed
    <3> QED
      BY <3>1, <3>2
  <2>5. TypeOK'
    <3>1. req' \in [Requests -> Request]
      BY <1>2, GotoKeeps DEF IInv
    <3> QED
      BY <1>2, <2>1, <2>2, <2>3, <2>4, <3>1 DEF IInv, TypeOK
  <2>6. OldPasswordEndsSessions'
    <3>1. ASSUME NEW s \in Ids, session'[s].st = "live", ~session'[s].late
          PROVE  session'[s].pw = member'[session'[s].m].pw
      <4>1. PICK n \in Members : n = session[s].m
        BY DEF IInv, TypeOK, SessionRow
      <4>2. /\ session[s].st = "live" /\ s \notin req[r].seen /\ ~session[s].late
            /\ session'[s].m = n /\ session[s].pw = member[n].pw
        BY <2>2, <3>1, <4>1 DEF IInv, OldPasswordEndsSessions
      <4>3. s \in Spared(r) => n = m /\ req[r].op = "change_password"
        BY <1>1, <4>1 DEF Spared, IInv, OwnersAreDone
      <4>4. CASE n = m /\ req[r].op \in {"change_password", "confirm_reset", "cli_reset"}
        <5>1. s \in Spared(r)
          BY <1>1, <1>2, <4>1, <4>2, <4>4 DEF IInv, RevocationsSeeAll
        <5> QED
          BY <2>1, <2>2, <4>2, <4>4, <5>1
      <4>5. CASE ~(n = m /\ req[r].op \in {"change_password", "confirm_reset", "cli_reset"})
        BY <2>1, <2>2, <4>2, <4>3, <4>5
      <4> QED
        BY <4>4, <4>5
    <3> QED
      BY <3>1 DEF OldPasswordEndsSessions
  <2>7. Shrinks
    <3>1. /\ \A s \in req[r].seen : session[s].st # "none"
          /\ \A t \in Wanted(r) : token[t].st = "live"
          /\ \A t \in Ids : token[t].s \in Ids
      BY <1>2, WantedLive DEF IInv, SeenExist, TypeOK, TokenRow
    <3> QED
      BY <2>2, <2>3, <3>1 DEF Shrinks
  <2>8. SparesRequests
    <3>1. \A q \in Requests : req'[q].pc \in {"read", "marked"} =>
            req'[q].pc = req[q].pc /\ req[q].id \in Ids
      BY <1>2, EndGoesOn DEF IInv, TypeOK, Request
    <3>2. \A q \in Requests : req[q].pc = "marked" => req[q].id \notin Wanted(r)
      BY <1>2 DEF TokenLocked
    <3>3. /\ \A q \in Requests : req[q].pc \in {"read", "marked"} => token[req[q].id].st # "none"
          /\ \A q \in Requests : req[q].pc = "marked" => token[req[q].id].st = "live"
      BY DEF IInv, RefreshHolds
    <3> QED
      BY <2>2, <2>3, <3>1, <3>2, <3>3 DEF SparesRequests
  <2> QED
    BY <1>2, <2>4, <2>5, <2>6, <2>7, <2>8, EndGoesOn, ShrinkStep
<1> QED
  BY <1>3, <1>4 DEF RevokeCommit

\* The commit of the deletion of the tenant.
LEMMA DeleteTenantCommitKeeps ==
    ASSUME IInv, NEW r \in Requests, DeleteTenantCommit(r)
    PROVE  IInv'
<1>1. PICK ss, ts : ss = {s \in Ids : session[s].st = "live"} /\ ts = req[r].seen
  OBVIOUS
<1>2. /\ req[r].pc = "written" /\ req[r].op = "delete_tenant" /\ Goto(r, "done")
      /\ token' = RevokeTokens(ts) /\ session' = RevokeSessions(ss)
      /\ tenant' = FALSE /\ UNCHANGED <<member, otp, expiries>>
  BY <1>1 DEF DeleteTenantCommit, Revoker
<1>3. /\ session' \in [Ids -> SessionRow]
      /\ \A s \in Ids : /\ session'[s].m = session[s].m /\ session'[s].late = session[s].late
                        /\ session'[s].pw = session[s].pw
                        /\ session'[s].st = IF s \in ss THEN "revoked" ELSE session[s].st
  BY <1>2, RevokedSessions DEF IInv
<1>4. /\ token' \in [Ids -> TokenRow]
      /\ \A t \in Ids : /\ token'[t].s = token[t].s
                        /\ token'[t].st = IF t \in ts THEN "revoked" ELSE token[t].st
  BY <1>2, RevokedTokens DEF IInv
<1>5. req' \in [Requests -> Request]
  BY <1>2, GotoKeeps DEF IInv
<1>6. TypeOK'
  BY <1>2, <1>3, <1>4, <1>5 DEF IInv, TypeOK
<1>7. OldPasswordEndsSessions' /\ UsedIsConsumed'
  BY <1>2, <1>3 DEF IInv, OldPasswordEndsSessions, UsedIsConsumed
<1>8. Shrinks
  <2>1. /\ \A s \in ss : session[s].st = "live"
        /\ \A t \in ts : token[t].st # "none"
        /\ \A t \in Ids : token[t].s \in Ids
    BY <1>1, <1>2 DEF IInv, SeenExist, TypeOK, TokenRow
  <2> QED
    BY <1>3, <1>4, <2>1 DEF Shrinks
<1>9. SparesRequests
  <2>1. \A q \in Requests : req'[q].pc \in {"read", "marked"} =>
          req'[q].pc = req[q].pc /\ req[q].id \in Ids
    BY <1>2, EndGoesOn DEF IInv, TypeOK, Request
  <2>2. \A q \in Requests : req[q].pc = "marked" => req[q].id \notin ts
    BY <1>1, <1>2 DEF IInv, RefreshHolds
  <2>3. /\ \A q \in Requests : req[q].pc \in {"read", "marked"} => token[req[q].id].st # "none"
        /\ \A q \in Requests : req[q].pc = "marked" => token[req[q].id].st = "live"
    BY DEF IInv, RefreshHolds
  <2> QED
    BY <1>3, <1>4, <2>1, <2>2, <2>3 DEF SparesRequests
<1> QED
  BY <1>2, <1>6, <1>7, <1>8, <1>9, EndGoesOn, ShrinkStep

-----------------------------------------------------------------------------
(***************************************************************************)
(* Steps that issue tokens.                                                *)
(***************************************************************************)

\* A login inserts a session and its token.  A revocation that has updated the
\* sessions of the member makes the login a late one.
LEMMA LoginCommitKeeps ==
    ASSUME IInv, NEW r \in Requests, LoginCommit(r)
    PROVE  IInv'
<1>1. PICK m \in Members, pw \in Ids : m = req[r].m /\ pw = req[r].pw
  BY DEF IInv, TypeOK, Request
<1>2. PICK late \in BOOLEAN : late = (pw # member[m].pw \/ MemberLocked(m))
  OBVIOUS
<1> DEFINE row == [st |-> "live", m |-> m, pw |-> pw, late |-> late, expired |-> FALSE]
           tok == [st |-> "live", s |-> r]
<1>3. /\ row \in SessionRow /\ row.st = "live" /\ row.m = m /\ row.pw = pw /\ row.late = late
      /\ tok \in TokenRow /\ tok.st = "live" /\ tok.s = r
  BY DEF SessionRow, TokenRow, Ids
<1>4. /\ session' = [session EXCEPT ![r] = row] /\ token' = [token EXCEPT ![r] = tok]
      /\ req[r].pc = "verified" /\ Goto(r, "done") /\ UNCHANGED <<member, tenant, otp, expiries>>
  BY <1>1, <1>2 DEF LoginCommit
<1> HIDE DEF row, tok
<1>5. r \in Ids
  BY DEF Ids
<1>6. /\ session' \in [Ids -> SessionRow] /\ session'[r] = row
      /\ \A s \in Ids \ {r} : session'[s] = session[s]
      /\ token' \in [Ids -> TokenRow] /\ token'[r] = tok
      /\ \A t \in Ids \ {r} : token'[t] = token[t]
  BY <1>3, <1>4, <1>5 DEF IInv, TypeOK
<1>7. /\ req' \in [Requests -> Request] /\ req'[r].pc = "done"
      /\ req'[r].op = req[r].op /\ req'[r].own = req[r].own /\ req'[r].id = req[r].id
      /\ req'[r].m = req[r].m /\ req'[r].seen = req[r].seen
      /\ \A q \in Requests \ {r} : req'[q] = req[q]
  BY <1>4, GotoKeeps DEF IInv
<1>8. session[r].st = "none" /\ token[r].st = "none"
  BY <1>4 DEF IInv, RowsOfTheDone
<1>9. \A t \in Ids : token[t].st # "none" => token[t].s # r /\ token[t].s \in Ids
  BY <1>8 DEF IInv, TokensHaveSessions, TypeOK, TokenRow
<1>10. \A q \in Requests : req[q].op \in {"refresh", "logout", "change_password"} => req[q].own # r
  BY <1>4 DEF IInv, OwnersAreDone
<1>11. \A q \in Requests : req[q].own \in Ids /\ req[q].id \in Ids /\ req[q].seen \subseteq Ids
  BY DEF IInv, TypeOK, Request
<1>12. TypeOK'
  BY <1>4, <1>6, <1>7 DEF IInv, TypeOK
<1>13. TokensHaveSessions'
  <2>1. ASSUME NEW t \in Ids, token'[t].st # "none" PROVE session'[token'[t].s].st # "none"
    BY <1>3, <1>6, <1>9, <2>1 DEF IInv, TokensHaveSessions
  <2> QED
    BY <2>1 DEF TokensHaveSessions
<1>14. RowsOfTheDone'
  BY <1>5, <1>6, <1>7 DEF IInv, RowsOfTheDone, Ids
<1>15. SingleToken'
  <2>1. ASSUME NEW t \in Ids, NEW u \in Ids, token'[t].st = "live", token'[u].st = "live",
               token'[t].s = token'[u].s
        PROVE  t = u
    BY <1>3, <1>6, <1>9, <2>1 DEF IInv, SingleToken
  <2> QED
    BY <2>1 DEF SingleToken
<1>16. RefreshHolds'
  <2>1. \A q \in Requests : req'[q].pc \in {"read", "marked", "written"} =>
          q # r /\ req'[q] = req[q]
    BY <1>7
  <2>2. \A q \in Requests : req[q].pc \in {"read", "marked"} => req[q].id # r
    BY <1>8 DEF IInv, RefreshHolds
  <2> QED
    BY <1>6, <1>11, <2>1, <2>2 DEF IInv, RefreshHolds
<1>17. OwnersAreDone'
  <2>1. ASSUME NEW q \in Requests
        PROVE  /\ req'[q].op = req[q].op /\ req'[q].own = req[q].own /\ req'[q].m = req[q].m
               /\ req'[q].pc = req[q].pc \/ req'[q].pc = "done"
               /\ req[q].pc = "done" => req'[q].pc = "done"
    BY <1>7
  <2>2. ASSUME NEW q \in Requests
        PROVE  /\ req'[q].op \in {"refresh", "logout", "change_password"}
                    /\ req'[q].own \in Requests => req'[req'[q].own].pc = "done"
               /\ req'[q].pc \in {"read", "marked", "reuse", "revoking", "refused"} =>
                    req'[q].op \in {"refresh", "logout"}
               /\ req'[q].pc = "token" => req'[q].op = "confirm_reset"
               /\ req'[q].op = "change_password" => session'[req'[q].own].m = req'[q].m
    BY <1>6, <1>10, <1>11, <2>1 DEF IInv, OwnersAreDone
  <2> QED
    BY <2>2 DEF OwnersAreDone
<1>18. EndedSessions'
  <2>1. \A q \in Requests : req'[q].pc \in {"revoking", "refused"} =>
          q # r /\ req'[q] = req[q] /\ req[q].own # r
    BY <1>7, <1>10 DEF IInv, OwnersAreDone
  <2>2. ASSUME NEW q \in Requests, req'[q].pc = "refused", NEW t \in Ids, token'[t].s = req'[q].own
        PROVE  token'[t].st # "live"
    BY <1>3, <1>6, <2>1, <2>2 DEF IInv, EndedSessions
  <2>3. ASSUME NEW q \in Requests, req'[q].pc \in {"revoking", "refused"}
        PROVE  session'[req'[q].own].st # "live"
    BY <1>6, <1>11, <2>1, <2>3 DEF IInv, EndedSessions
  <2> QED
    BY <2>2, <2>3 DEF EndedSessions
<1>19. RevocationsSeeAll'
  <2>1. ASSUME NEW q \in Requests, req'[q].pc = "written",
               req'[q].op \notin {"revoke_session", "delete_tenant"},
               NEW s \in Ids, session'[s].st = "live", session'[s].m = req'[q].m
        PROVE  session'[s].late \/ s \in req'[q].seen \/ s \in Spared(q)'
    <3>1. req'[q] = req[q]
      BY <1>7, <2>1
    <3>2. Spared(q)' = Spared(q)
      BY <3>1 DEF Spared
    <3>3. CASE s = r
      <4>1. MemberLocked(m)
        BY <1>3, <1>6, <2>1, <3>1, <3>3 DEF MemberLocked, Revoker
      <4> QED
        BY <1>2, <1>3, <1>6, <3>3, <4>1
    <3>4. CASE s # r
      BY <1>6, <2>1, <3>1, <3>2, <3>4 DEF IInv, RevocationsSeeAll
    <3> QED
      BY <3>3, <3>4
  <2> QED
    BY <2>1 DEF RevocationsSeeAll
<1>20. SeenExist'
  <2>1. ASSUME NEW q \in Requests, req'[q].pc = "written", NEW i \in req'[q].seen
        PROVE  IF req'[q].op = "delete_tenant" THEN token'[i].st # "none"
               ELSE session'[i].st # "none"
    <3>1. req'[q] = req[q] /\ i \in Ids
      BY <1>7, <1>11, <2>1
    <3> QED
      BY <1>3, <1>6, <2>1, <3>1 DEF IInv, SeenExist
  <2> QED
    BY <2>1 DEF SeenExist
<1>21. OldPasswordEndsSessions' /\ UsedIsConsumed'
  BY <1>2, <1>3, <1>4, <1>6 DEF IInv, OldPasswordEndsSessions, UsedIsConsumed
<1> QED
  BY <1>12, <1>13, <1>14, <1>15, <1>16, <1>17, <1>18, <1>19, <1>20, <1>21 DEF IInv

\* A refresh exchanges its token for the next one of the same session, which is
\* still live: no request that ends this session has got that far.
LEMMA RefreshCommitKeeps ==
    ASSUME IInv, NEW r \in Requests, RefreshCommit(r)
    PROVE  IInv'
<1>1. PICK t0, own \in Ids : t0 = req[r].id /\ own = req[r].own
  BY DEF IInv, TypeOK, Request
<1>2. CASE RolledBack(r)
  BY <1>2, GotoStep DEF RefreshCommit, RolledBack
<1>3. CASE /\ Extends(own) /\ token' = Rotated(r)
           /\ session' = [session EXCEPT ![own].expired = FALSE]
  <2>1. /\ req[r].pc = "marked" /\ session[own].st = "live" /\ Goto(r, "done")
        /\ UNCHANGED <<member, tenant, otp, expiries>>
    BY <1>3 DEF RefreshCommit, Extends
  <2>2. /\ token[t0].st = "live" /\ token[t0].s = own
        /\ session[r].st = "none" /\ token[r].st = "none"
    BY <1>1, <2>1 DEF IInv, RefreshHolds, RowsOfTheDone
  <2>3. r \in Ids /\ own # r /\ t0 # r
    BY <2>1, <2>2 DEF Ids
  <2>4. PICK old \in TokenRow, srow \in SessionRow : old = token[t0] /\ srow = session[own]
    BY DEF IInv, TypeOK
  <2> DEFINE used == [old EXCEPT !.st = "used"]
             tok == [st |-> "live", s |-> own]
             ses == [srow EXCEPT !.expired = FALSE]
  <2>5. /\ used \in TokenRow /\ used.st = "used" /\ used.s = own
        /\ tok \in TokenRow /\ tok.st = "live" /\ tok.s = own
        /\ ses \in SessionRow /\ ses.st = "live" /\ ses.m = srow.m /\ ses.pw = srow.pw
        /\ ses.late = srow.late
    BY <2>1, <2>2, <2>4 DEF SessionRow, TokenRow
  <2>6. /\ session' = [session EXCEPT ![own] = ses]
        /\ token' = [token EXCEPT ![t0] = used, ![r] = tok]
    BY <1>1, <1>3, <2>4 DEF Rotated
  <2> HIDE DEF used, tok, ses
  <2>7. /\ session' \in [Ids -> SessionRow] /\ session'[own] = ses
        /\ \A s \in Ids \ {own} : session'[s] = session[s]
        /\ token' \in [Ids -> TokenRow] /\ token'[r] = tok /\ token'[t0] = used
        /\ \A t \in Ids \ {r, t0} : token'[t] = token[t]
    BY <2>3, <2>5, <2>6 DEF IInv, TypeOK
  <2>8. /\ req' \in [Requests -> Request] /\ req'[r].pc = "done"
        /\ req'[r].op = req[r].op /\ req'[r].own = req[r].own /\ req'[r].id = req[r].id
        /\ req'[r].m = req[r].m /\ req'[r].seen = req[r].seen
        /\ \A q \in Requests \ {r} : req'[q] = req[q]
    BY <2>1, GotoKeeps DEF IInv
  <2>9. \A s \in Ids : /\ session'[s].st = session[s].st /\ session'[s].m = session[s].m
                       /\ session'[s].pw = session[s].pw /\ session'[s].late = session[s].late
    BY <2>1, <2>4, <2>5, <2>7
  <2>10. \A t \in Ids : /\ t # r => token'[t].s = token[t].s
                        /\ t # r /\ t # t0 => token'[t].st = token[t].st
                        /\ token[t].s \in Ids
    BY <2>2, <2>5, <2>7 DEF IInv, TypeOK, TokenRow
  <2>11. \A q \in Requests : req[q].own \in Ids /\ req[q].id \in Ids /\ req[q].seen \subseteq Ids
    BY DEF IInv, TypeOK, Request
  <2>12. TypeOK'
    BY <2>1, <2>7, <2>8 DEF IInv, TypeOK
  <2>13. TokensHaveSessions'
    <3>1. ASSUME NEW t \in Ids, token'[t].st # "none" PROVE session'[token'[t].s].st # "none"
      BY <2>1, <2>2, <2>5, <2>7, <2>9, <2>10, <3>1 DEF IInv, TokensHaveSessions
    <3> QED
      BY <3>1 DEF TokensHaveSessions
  <2>14. RowsOfTheDone'
    <3>1. ASSUME NEW q \in Requests, req'[q].pc # "done"
          PROVE  session'[q].st = "none" /\ token'[q].st = "none"
      <4>1. q # r /\ q \in Ids /\ req'[q] = req[q]
        BY <2>8, <3>1 DEF Ids
      <4>2. token[q].st = "none" /\ session[q].st = "none"
        BY <3>1, <4>1 DEF IInv, RowsOfTheDone
      <4> QED
        BY <2>2, <2>9, <2>10, <4>1, <4>2
    <3> QED
      BY <3>1 DEF RowsOfTheDone
  <2>15. SingleToken'
    <3>1. ASSUME NEW t \in Ids, token'[t].st = "live", t # r
          PROVE  t # t0 /\ token[t].st = "live" /\ token[t].s = token'[t].s /\ token[t].s # own
      BY <2>2, <2>5, <2>7, <2>10, <3>1 DEF IInv, SingleToken
    <3>2. ASSUME NEW t \in Ids, NEW u \in Ids, token'[t].st = "live", token'[u].st = "live",
                 token'[t].s = token'[u].s
          PROVE  t = u
      BY <2>5, <2>7, <3>1, <3>2 DEF IInv, SingleToken
    <3> QED
      BY <3>2 DEF SingleToken
  <2>16. RefreshHolds'
    <3>1. \A q \in Requests : req'[q].pc \in {"read", "marked", "written"} =>
            q # r /\ req'[q] = req[q]
      BY <2>8
    <3>2. \A q \in Requests : req[q].pc \in {"read", "marked"} => req[q].id # r
      BY <2>2 DEF IInv, RefreshHolds
    <3>3. \A q \in Requests \ {r} : req[q].pc = "marked" => req[q].id # t0
      BY <1>1, <2>1 DEF IInv, RefreshHolds
    <3>4. ASSUME NEW q \in Requests, req'[q].pc \in {"read", "marked"}
          PROVE  token'[req'[q].id].st # "none" /\ token'[req'[q].id].s = req'[q].own
      BY <2>5, <2>7, <2>10, <2>11, <3>1, <3>2, <3>4 DEF IInv, RefreshHolds
    <3>5. ASSUME NEW q \in Requests, req'[q].pc = "marked" PROVE token'[req'[q].id].st = "live"
      BY <2>10, <2>11, <3>1, <3>2, <3>3, <3>5 DEF IInv, RefreshHolds
    <3> QED
      BY <3>1, <3>4, <3>5 DEF IInv, RefreshHolds
  <2>17. OwnersAreDone'
    <3>1. ASSUME NEW q \in Requests
          PROVE  /\ req'[q].op = req[q].op /\ req'[q].own = req[q].own /\ req'[q].m = req[q].m
                 /\ req'[q].pc = req[q].pc \/ req'[q].pc = "done"
                 /\ req[q].pc = "done" => req'[q].pc = "done"
      BY <2>8
    <3>2. ASSUME NEW q \in Requests
          PROVE  /\ req'[q].op \in {"refresh", "logout", "change_password"}
                      /\ req'[q].own \in Requests => req'[req'[q].own].pc = "done"
                 /\ req'[q].pc \in {"read", "marked", "reuse", "revoking", "refused"} =>
                      req'[q].op \in {"refresh", "logout"}
                 /\ req'[q].pc = "token" => req'[q].op = "confirm_reset"
                 /\ req'[q].op = "change_password" => session'[req'[q].own].m = req'[q].m
      BY <2>9, <2>11, <3>1 DEF IInv, OwnersAreDone
    <3> QED
      BY <3>2 DEF OwnersAreDone
  <2>18. EndedSessions'
    <3>1. \A q \in Requests : req'[q].pc \in {"revoking", "refused"} =>
            /\ req'[q] = req[q] /\ session[req[q].own].st # "live" /\ req[q].own # own
      BY <2>1, <2>8 DEF IInv, EndedSessions
    <3>2. ASSUME NEW q \in Requests, req'[q].pc = "refused", NEW t \in Ids, token'[t].s = req'[q].own
          PROVE  token'[t].st # "live"
      BY <2>5, <2>7, <2>10, <3>1, <3>2 DEF IInv, EndedSessions
    <3>3. ASSUME NEW q \in Requests, req'[q].pc \in {"revoking", "refused"}
          PROVE  session'[req'[q].own].st # "live"
      BY <2>9, <2>11, <3>1, <3>3
    <3> QED
      BY <3>2, <3>3 DEF EndedSessions
  <2>19. RevocationsSeeAll'
    <3>1. ASSUME NEW q \in Requests, req'[q].pc = "written",
                 req'[q].op \notin {"revoke_session", "delete_tenant"},
                 NEW s \in Ids, session'[s].st = "live", session'[s].m = req'[q].m
          PROVE  session'[s].late \/ s \in req'[q].seen \/ s \in Spared(q)'
      <4>1. req'[q] = req[q]
        BY <2>8, <3>1
      <4>2. Spared(q)' = Spared(q)
        BY <4>1 DEF Spared
      <4> QED
        BY <2>9, <3>1, <4>1, <4>2 DEF IInv, RevocationsSeeAll
    <3> QED
      BY <3>1 DEF RevocationsSeeAll
  <2>20. SeenExist'
    <3>1. ASSUME NEW q \in Requests, req'[q].pc = "written", NEW i \in req'[q].seen
          PROVE  IF req'[q].op = "delete_tenant" THEN token'[i].st # "none"
                 ELSE session'[i].st # "none"
      <4>1. req'[q] = req[q] /\ i \in Ids
        BY <2>8, <2>11, <3>1
      <4> QED
        BY <2>5, <2>7, <2>9, <2>10, <3>1, <4>1 DEF IInv, SeenExist
    <3> QED
      BY <3>1 DEF SeenExist
  <2>21. OldPasswordEndsSessions' /\ UsedIsConsumed'
    BY <2>1, <2>9 DEF IInv, OldPasswordEndsSessions, UsedIsConsumed
  <2> QED
    BY <2>12, <2>13, <2>14, <2>15, <2>16, <2>17, <2>18, <2>19, <2>20, <2>21 DEF IInv
<1> QED
  BY <1>1, <1>2, <1>3 DEF RefreshCommit

-----------------------------------------------------------------------------
(***************************************************************************)
(* The theorems.                                                           *)
(***************************************************************************)

LEMMA InitIInv ==
    ASSUME Init PROVE IInv
<1>1. /\ AnyMember \in Members /\ AnyMember \notin Requests
      /\ \A r \in Requests : r \in Ids /\ r \notin Members
      /\ \A m \in Members : m \in Ids /\ m \notin Requests
  BY AdminSessionsAssumption DEF AnyMember, Ids
<1>2. PICK p \in {"reset", "verify"}, st \in {"none", "live"} :
        otp = [i \in Ids |-> [st |-> IF i \in Members THEN st ELSE "none",
                              m |-> IF i \in Members THEN i ELSE AnyMember,
                              purpose |-> p, uses |-> 0]]
  BY DEF Init
<1>3. TypeOK
  <2>1. member \in [Members -> MemberRow] /\ tenant \in BOOLEAN
    BY <1>1 DEF Init, MemberRow
  <2>2. session \in [Ids -> SessionRow]
    BY <1>1 DEF Init, SessionRow
  <2>3. token \in [Ids -> TokenRow]
    BY DEF Init, TokenRow
  <2>4. otp \in [Ids -> OneTimeToken]
    BY <1>1, <1>2 DEF OneTimeToken
  <2>5. req \in [Requests -> Request]
    BY <1>1 DEF Init, Request
  <2>6. expiries \in 0 .. MaxExpiries
    BY AdminSessionsAssumption DEF Init
  <2> QED
    BY <2>1, <2>2, <2>3, <2>4, <2>5, <2>6 DEF TypeOK
<1>4. /\ \A r \in Requests : /\ req[r].pc = "idle" /\ req[r].op = "none"
      /\ \A t \in Ids : token[t].s = t /\ token[t].st = IF t \in Members THEN "live" ELSE "none"
      /\ \A s \in Ids : /\ session[s].st = IF s \in Members THEN "live" ELSE "none"
                        /\ session[s].pw = s /\ (s \in Members => session[s].m = s)
      /\ \A m \in Members : member[m].pw = m
      /\ \A o \in Ids : otp[o].uses = 0 /\ otp[o].st # "consumed"
  BY <1>2 DEF Init
<1>5. TokensHaveSessions /\ SingleToken /\ RowsOfTheDone
  BY <1>1, <1>4 DEF TokensHaveSessions, SingleToken, RowsOfTheDone
<1>6. RefreshHolds /\ OwnersAreDone /\ EndedSessions /\ RevocationsSeeAll /\ SeenExist
  BY <1>4 DEF RefreshHolds, OwnersAreDone, EndedSessions, RevocationsSeeAll, SeenExist
<1>7. OldPasswordEndsSessions /\ UsedIsConsumed
  BY <1>4 DEF OldPasswordEndsSessions, UsedIsConsumed
<1> QED
  BY <1>3, <1>5, <1>6, <1>7 DEF IInv

LEMMA BeginKeeps ==
    ASSUME IInv, NEW r \in Requests, Begin(r)
    PROVE  IInv'
<1>1. ASSUME NEW m \in Members, \/ LoginRead(r, m) \/ ResetAdminPasswordCli(r, m)
                                \/ DisableMember(r, m) \/ RequestPasswordReset(r, m)
      PROVE  IInv'
  BY <1>1, LoginReadKeeps, ResetAdminPasswordCliKeeps, DisableMemberKeeps, RequestPasswordResetKeeps
<1>2. ASSUME NEW i \in Ids, \/ RefreshRead(r, i) \/ Logout(r, i) \/ ChangePassword(r, i)
                            \/ ConfirmPasswordReset(r, i) \/ RequestEmailVerify(r, i)
                            \/ ConfirmEmailVerify(r, i)
      PROVE  IInv'
  BY <1>2, RefreshReadKeeps, LogoutKeeps, ChangePasswordKeeps, ConfirmPasswordResetKeeps,
     RequestEmailVerifyKeeps, ConfirmEmailVerifyKeeps
<1>3. ASSUME NEW own \in Ids, NEW s \in Ids, RevokeSession(r, own, s) PROVE IInv'
  BY <1>3, RevokeSessionKeeps
<1>4. CASE DeleteTenant(r)
  BY <1>4, DeleteTenantKeeps
<1> QED
  BY <1>1, <1>2, <1>3, <1>4 DEF Begin

LEMMA ContinueKeeps ==
    ASSUME IInv, NEW r \in Requests, Continue(r)
    PROVE  IInv'
  BY LoginCommitKeeps, RefreshMarkKeeps, RefreshCommitKeeps, ReuseRevokeSessionKeeps,
     ReuseRevokeTokensKeeps, RevokeWriteKeeps, RevokeCommitKeeps, DeleteTenantTokensKeeps,
     DeleteTenantCommitKeeps, DeadlockVictimKeeps DEF Continue

LEMMA NextIInv ==
    ASSUME IInv, [Next]_vars PROVE IInv'
<1>1. CASE \E r \in Requests : Begin(r) \/ Continue(r)
  BY <1>1, BeginKeeps, ContinueKeeps
<1>2. CASE \E i \in Ids : ExpireSession(i) \/ ExpireOneTimeToken(i) \/ CleanupAdminSessions(i)
  BY <1>2, ExpireSessionKeeps, ExpireOneTimeTokenKeeps, CleanupKeeps
<1>3. CASE UNCHANGED vars
  <2>1. /\ session' = session /\ token' = token /\ otp' = otp /\ member' = member
        /\ tenant' = tenant /\ expiries' = expiries /\ req' = req
    BY <1>3 DEF vars
  <2>2. /\ TypeOK' /\ TokensHaveSessions' /\ SingleToken' /\ RowsOfTheDone'
        /\ OldPasswordEndsSessions' /\ UsedIsConsumed'
    BY <2>1 DEF IInv, TypeOK, TokensHaveSessions, SingleToken, RowsOfTheDone,
                OldPasswordEndsSessions, UsedIsConsumed
  <2>3. RefreshHolds' /\ OwnersAreDone' /\ EndedSessions' /\ RevocationsSeeAll' /\ SeenExist'
    BY <2>1 DEF IInv, RefreshHolds, OwnersAreDone, EndedSessions, RevocationsSeeAll, SeenExist, Spared
  <2> QED
    BY <2>2, <2>3 DEF IInv
<1> QED
  BY <1>1, <1>2, <1>3 DEF Next

LEMMA Invariance == Spec => []IInv
  BY InitIInv, NextIInv, PTL DEF Spec

\* Tokens are kept (refresh.rs): no interleaving of refreshes, logouts and
\* revocations leaves a live session with two tokens, and a refresh refused for
\* reuse, or a logout, has ended its session and every token of it.
THEOREM SessionsHaveOneToken == Spec => []TokensKept
<1>1. ASSUME IInv PROVE OneLiveToken
  <2>1. ASSUME NEW s \in Ids PROVE Cardinality(LiveTokensOf({s})) <= 1
    <3>1. CASE LiveTokensOf({s}) = {}
      BY <3>1, FS_EmptySet
    <3>2. ASSUME NEW t \in LiveTokensOf({s}) PROVE Cardinality(LiveTokensOf({s})) <= 1
      <4>1. LiveTokensOf({s}) = {t}
        BY <1>1, <3>2 DEF LiveTokensOf, IInv, SingleToken
      <4> QED
        BY <4>1, FS_Singleton
    <3> QED
      BY <3>1, <3>2
  <2> QED
    BY <2>1 DEF OneLiveToken
<1>2. ASSUME IInv PROVE ReuseEndsSession
  BY <1>2 DEF IInv, EndedSessions, ReuseEndsSession, LiveTokensOf
<1>3. IInv => TokensKept
  BY <1>1, <1>2 DEF TokensKept, IInv
<1> QED
  BY <1>3, Invariance, PTL

\* Passwords are kept (password.rs, email_verify.rs): a session that outlives a
\* change or reset of its member's password is one whose login or change ran at
\* that very moment, and a one-time token has its effect at most once.
THEOREM NewPasswordEndsSessions == Spec => []PasswordsKept
<1>1. IInv => PasswordsKept
  BY DEF IInv, PasswordsKept, UsedIsConsumed, OneTimeTokenUsedOnce
<1> QED
  BY <1>1, Invariance, PTL

\* Only a login and a refresh make a token live.
LEMMA OtherStepsIssueNothing ==
    ASSUME IInv, Next, NEW t \in Ids, token[t].st = "none", token'[t].st = "live"
    PROVE  \E r \in Requests : LoginCommit(r) \/ RefreshCommit(r)
<1>1. ASSUME NEW r \in Requests, Begin(r) PROVE token' = token
  <2>1. \A m \in Members : /\ LoginRead(r, m) => token' = token
                           /\ ResetAdminPasswordCli(r, m) => token' = token
                           /\ DisableMember(r, m) => token' = token
                           /\ RequestPasswordReset(r, m) => token' = token
    BY DEF LoginRead, ResetAdminPasswordCli, DisableMember, RequestPasswordReset
  <2>2. \A i \in Ids : /\ RefreshRead(r, i) => token' = token
                       /\ Logout(r, i) => token' = token
                       /\ ChangePassword(r, i) => token' = token
    BY DEF RefreshRead, Logout, ChangePassword
  <2>3. \A i \in Ids : /\ ConfirmPasswordReset(r, i) => token' = token
                       /\ RequestEmailVerify(r, i) => token' = token
                       /\ ConfirmEmailVerify(r, i) => token' = token
    BY DEF ConfirmPasswordReset, RequestEmailVerify, ConfirmEmailVerify
  <2>4. /\ \A own, s \in Ids : RevokeSession(r, own, s) => token' = token
        /\ DeleteTenant(r) => token' = token
    BY DEF RevokeSession, DeleteTenant
  <2> QED
    BY <1>1, <2>1, <2>2, <2>3, <2>4 DEF Begin
<1>2. ASSUME NEW ts, token' = RevokeTokens(ts) PROVE FALSE
  BY <1>2, RevokedTokens DEF IInv
<1>3. ASSUME NEW r \in Requests, Continue(r), ~LoginCommit(r), ~RefreshCommit(r) PROVE FALSE
  <2>1. token' # token
    OBVIOUS
  <2>2. ~RefreshMark(r) /\ ~ReuseRevokeSession(r) /\ ~RevokeWrite(r) /\ ~DeleteTenantTokens(r)
        /\ \A q \in Requests : ~DeadlockVictim(r, q)
    BY <2>1 DEF RefreshMark, ReuseRevokeSession, RevokeWrite, DeleteTenantTokens, DeadlockVictim
  <2>3. CASE ReuseRevokeTokens(r)
    BY <1>2, <2>3 DEF ReuseRevokeTokens
  <2>4. CASE RevokeCommit(r)
    BY <1>2, <2>1, <2>4 DEF RevokeCommit
  <2>5. CASE DeleteTenantCommit(r)
    BY <1>2, <2>5 DEF DeleteTenantCommit
  <2> QED
    BY <1>3, <2>2, <2>3, <2>4, <2>5 DEF Continue
<1>4. \A i \in Ids : ~ExpireSession(i) /\ ~ExpireOneTimeToken(i)
  BY DEF ExpireSession, ExpireOneTimeToken
<1>5. ASSUME NEW s \in Ids, CleanupAdminSessions(s) PROVE FALSE
  <2>1. PICK row \in TokenRow : row = token[t]
    BY DEF IInv, TypeOK
  <2>2. token'[t] = IF row.s = s THEN [row EXCEPT !.st = "none"] ELSE row
    BY <1>5, <2>1 DEF CleanupAdminSessions
  <2> QED
    BY <2>1, <2>2 DEF TokenRow
<1> QED
  BY <1>1, <1>3, <1>4, <1>5 DEF Next

\* No token is issued for a session that has been revoked (refresh.rs,
\* extend_admin_session_in_transaction): between the reads of a refresh and its
\* commit any request may have ended the session, and the commit finds out.
THEOREM RevokedSessionsGetNoToken == Spec => NoTokenForRevokedSession
<1> DEFINE Issue == \A t \in Ids : token[t].st = "none" /\ token'[t].st = "live" =>
                       session'[token'[t].s].st = "live"
<1>1. ASSUME IInv, [Next]_vars PROVE [Issue]_vars
  <2>1. SUFFICES ASSUME NEW t \in Ids, token[t].st = "none", token'[t].st = "live", Next
                 PROVE  session'[token'[t].s].st = "live"
    BY <1>1
  <2>2. PICK r \in Requests : LoginCommit(r) \/ RefreshCommit(r)
    BY <1>1, <2>1, OtherStepsIssueNothing
  <2>3. r \in Ids
    BY DEF Ids
  <2>4. CASE LoginCommit(r)
    <3>1. /\ token' = [token EXCEPT ![r] = [st |-> "live", s |-> r]]
          /\ session'[r].st = "live"
      BY <1>1, <2>3, <2>4 DEF LoginCommit, IInv, TypeOK
    <3>2. t = r
      BY <1>1, <2>1, <3>1 DEF IInv, TypeOK
    <3> QED
      BY <1>1, <2>3, <3>1, <3>2 DEF IInv, TypeOK
  <2>5. CASE RefreshCommit(r)
    <3>1. PICK own, t0 \in Ids : own = req[r].own /\ t0 = req[r].id
      BY <1>1 DEF IInv, TypeOK, Request
    <3>2. /\ Extends(own) /\ token' = Rotated(r)
          /\ session' = [session EXCEPT ![own].expired = FALSE]
      BY <2>1, <2>5, <3>1 DEF RefreshCommit, RolledBack
    <3>3. PICK row \in TokenRow, srow \in SessionRow : row = token[t0] /\ srow = session[own]
      BY <1>1 DEF IInv, TypeOK
    <3>4. session'[own].st = "live"
      BY <1>1, <3>2, <3>3 DEF Extends, IInv, TypeOK, SessionRow
    <3>5. /\ token'[r].s = own
          /\ \A u \in Ids \ {r, t0} : token'[u] = token[u]
          /\ t0 # r => token'[t0].st = "used"
      BY <1>1, <2>3, <3>1, <3>2, <3>3 DEF Rotated, IInv, TypeOK, TokenRow
    <3> QED
      BY <2>1, <3>4, <3>5
  <2> QED
    BY <2>2, <2>4, <2>5
<1>2. Spec => [][Issue]_vars
  BY <1>1, Invariance, PTL DEF Spec
<1> QED
  BY <1>2 DEF NoTokenForRevokedSession
=============================================================================
