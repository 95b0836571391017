--------------------------- MODULE AdminAccounts ---------------------------
(***************************************************************************)
(* The accounts of a tenant: members, invitations and roles (team/, iam/,  *)
(* bootstrap.rs), and the second factor of a member (auth/mfa.rs).         *)
(*                                                                         *)
(* Handlers check members, roles and the number of owners with plain reads *)
(* and write in a transaction afterwards, so requests that overlap act on  *)
(* what is no longer true.  overlap records whether that has happened, and *)
(* tells the rules that hold for requests one after the other from those   *)
(* that hold always.                                                       *)
(*                                                                         *)
(* The two halves share no rows.                                           *)
(***************************************************************************)
EXTENDS Integers, FiniteSets

CONSTANTS
    Members,   \* rows of team_members, the first one created by init-owner
    Requests   \* HTTP requests

ASSUME AdminAccountsAssumption == Members # {} /\ Members \cap Requests = {}

VARIABLES
    member,    \* team_members with team_member_roles
    role,      \* the one role that is not built in
    mfa,       \* mfa_enabled and mfa_secret_encrypted of one member
    codes,     \* admin_mfa_recovery_codes, as the set that a request inserts
    req,       \* the handlers
    overlap,   \* whether a request has written what another had read
    stripped   \* whether somebody without the role has taken an owner away

accountVars == <<member, role, mfa, codes, req, overlap, stripped>>

None == "none"

\* Secrets and sets of codes are named after the request that made them.
Sets == Requests \cup {"first"}

RoleCodes == {"owner", "admin", "custom"}

MemberRow == [st : {"none", "invited", "active", "disabled"}, roles : SUBSET RoleCodes]

\* Roles carry permissions; here all that matters is whether they let a member
\* manage members and roles.
RoleRow == [st : {"none", "live", "deleted"}, manages : BOOLEAN]

\* checked is the secret whose code has been verified last.
MfaRow == [enabled : BOOLEAN, secret : Sets \cup {None}, checked : Sets \cup {None}]

\* One code stands for the ten of a set.
CodeRow == [st : {"none", "live", "used", "revoked"}, uses : Nat]

\* owner is whether the sender is an owner, roles the roles asked for, seen the
\* rows the first statement of the transaction finds, secret the secret read.
Request == [pc : {"idle", "read", "written", "done"},
            op : {"none", "invite", "roles", "disable", "delete_role", "setup",
                  "enable", "disable_mfa", "regenerate"},
            m : Members, owner : BOOLEAN, roles : SUBSET RoleCodes,
            seen : SUBSET (RoleCodes \cup Sets),
            secret : Sets \cup {None}]

AccountsTypeOK ==
    /\ member \in [Members -> MemberRow] /\ role \in RoleRow
    /\ mfa \in MfaRow /\ codes \in [Sets -> CodeRow]
    /\ req \in [Requests -> Request]
    /\ overlap \in BOOLEAN /\ stripped \in BOOLEAN

First == CHOOSE m \in Members : TRUE

\* initialize_owner: the first member has the role of an owner.
InitOwner == [st |-> "active", roles |-> {"owner"}]

NoMember == [st |-> "none", roles |-> {}]

NoCodes == [c \in Sets |-> [st |-> "none", uses |-> 0]]

QuietInit ==
    /\ req = [r \in Requests |-> [pc |-> "idle", op |-> "none", m |-> First,
                owner |-> FALSE, roles |-> {}, seen |-> {}, secret |-> None]]
    /\ overlap = FALSE /\ stripped = FALSE

\* A tenant some time after init-owner: another member may have joined and
\* somebody may have created a role.
TeamInit ==
    /\ \E other \in Members \ {First},
          row \in [st : {"active", "invited"}, roles : {{"owner"}, {"admin"}}] :
          member = [m \in Members |-> IF m = First THEN InitOwner ELSE
                                      IF m = other THEN row ELSE NoMember]
    /\ role \in [st : {"none", "live"}, manages : {FALSE}]
    /\ mfa = [enabled |-> FALSE, secret |-> None, checked |-> None] /\ codes = NoCodes
    /\ QuietInit

\* A member whose second factor may be set up.
MfaInit ==
    /\ member = [m \in Members |-> IF m = First THEN InitOwner ELSE NoMember]
    /\ role = [st |-> "none", manages |-> FALSE]
    /\ \E f \in {None, "first"} :
          /\ mfa = [enabled |-> f # None, secret |-> f, checked |-> f]
          /\ codes = IF f = None THEN NoCodes ELSE [NoCodes EXCEPT ![f].st = "live"]
    /\ QuietInit

-----------------------------------------------------------------------------
(* Roles and permissions. *)

RoleLive(c) == c # "custom" \/ role.st = "live"

\* list_codes_for_member: roles that are deleted do not count.
RoleCodesOf(m) == {c \in member[m].roles : RoleLive(c)}

\* The permission sets of bootstrap.rs and the permissions of a role.
Manages(c) == c \in {"owner", "admin"} \/ (c = "custom" /\ role.manages)

\* require_admin_session and ensure_admin_permission, for "member:*", "role:*".
MayManage(a) == member[a].st = "active" /\ \E c \in RoleCodesOf(a) : Manages(c)

IsOwner(m) == "owner" \in RoleCodesOf(m)

\* active_owner_count.
ActiveOwners == {m \in Members : member[m].st = "active" /\ IsOwner(m)}

\* Mutant: one owner is enough to let an owner go.
SomeOwner == Cardinality(ActiveOwners) > 0

\* ensure_owner_count_above_one.
OwnerCountAboveOne == Cardinality(ActiveOwners) > 1

\* resolve_roles after normalize_role_codes.
Resolves(rs) == rs # {} /\ \A c \in rs : RoleLive(c)

Quiet(r) == \A q \in Requests \ {r} : req[q].pc \in {"idle", "done"}

TeamUnchanged == UNCHANGED <<mfa, codes>>
MfaUnchanged == UNCHANGED <<member, role, stripped>>

-----------------------------------------------------------------------------
(* Members. *)

\* invite_member before its transaction.
InviteRead(r, a, m, rs) ==
    /\ req[r].pc = "idle"
    /\ MayManage(a) /\ Resolves(rs) /\ member[m].st = "none"
    /\ req' = [req EXCEPT ![r] = [@ EXCEPT !.pc = "read", !.op = "invite", !.m = m,
                                           !.roles = rs]]
    /\ UNCHANGED <<member, role, overlap, stripped>> /\ TeamUnchanged

\* The member, the roles that still exist, the invitation.  The unique index on
\* the address refuses the second of two invitations.
InviteCommit(r) ==
    LET m == req[r].m
    IN /\ req[r].pc = "read" /\ req[r].op = "invite"
       /\ IF member[m].st = "none"
          THEN member' = [member EXCEPT ![m] =
                  [st |-> "invited", roles |-> {c \in req[r].roles : RoleLive(c)}]]
          ELSE UNCHANGED member
       /\ req' = [req EXCEPT ![r].pc = "done"]
       /\ overlap' = (overlap \/ ~Quiet(r))
       /\ UNCHANGED <<role, stripped>> /\ TeamUnchanged

\* Mutant: whoever is not active yet, or no longer, becomes active.
ActivateInactive(m) ==
    /\ member[m].st \in {"invited", "disabled"}
    /\ member' = [member EXCEPT ![m].st = "active"]

\* find_invited_member_for_update and activate_invited_member.
ActivateInvited(m) ==
    /\ member[m].st = "invited"
    /\ member' = [member EXCEPT ![m].st = "active"]

\* accept_invitation: token and member are locked, written and committed.
AcceptInvitation(r, m) ==
    /\ req[r].pc = "idle"
    /\ ActivateInvited(m)
    /\ req' = [req EXCEPT ![r].pc = "done"]
    /\ overlap' = (overlap \/ ~Quiet(r))
    /\ UNCHANGED <<role, stripped>> /\ TeamUnchanged

\* The changes of ensure_owner_role_change_allowed that need an owner.
OwnerTouched(current, next) == "owner" \in current \cup next

\* update_member_roles before its transaction.
UpdateRolesRead(r, a, m, rs) ==
    LET current == RoleCodesOf(m)
    IN /\ req[r].pc = "idle"
       /\ MayManage(a) /\ Resolves(rs) /\ member[m].st # "none"
       /\ OwnerTouched(current, rs) => IsOwner(a)
       /\ "owner" \in current \ rs => OwnerCountAboveOne
       /\ req' = [req EXCEPT ![r] = [@ EXCEPT !.pc = "read", !.op = "roles", !.m = m,
                                              !.owner = IsOwner(a), !.roles = rs]]
       /\ UNCHANGED <<member, role, overlap, stripped>> /\ TeamUnchanged

\* replace_member_roles: the rows to delete, and the roles that exist when they
\* are inserted.
UpdateRolesWrite(r) ==
    /\ req[r].pc = "read" /\ req[r].op = "roles"
    /\ req' = [req EXCEPT ![r] = [@ EXCEPT !.pc = "written", !.seen = member[req[r].m].roles,
                                           !.roles = {c \in req[r].roles : RoleLive(c)}]]
    /\ UNCHANGED <<member, role, overlap, stripped>> /\ TeamUnchanged

\* A role that is being deleted keeps the insert waiting; rows that somebody else
\* has inserted meanwhile stay, or break the primary key.
UpdateRolesCommit(r) ==
    LET m == req[r].m
        left == member[m].roles \ req[r].seen
    IN /\ req[r].pc = "written" /\ req[r].op = "roles"
       /\ "custom" \in req[r].roles =>
             \A q \in Requests : ~(req[q].op = "delete_role" /\ req[q].pc = "written")
       /\ IF left \cap req[r].roles = {}
          THEN /\ member' = [member EXCEPT ![m].roles = left \cup req[r].roles]
               /\ stripped' = (stripped \/ ("owner" \in member[m].roles \ member'[m].roles
                                            /\ ~req[r].owner))
          ELSE UNCHANGED <<member, stripped>>
       /\ req' = [req EXCEPT ![r].pc = "done"]
       /\ overlap' = (overlap \/ ~Quiet(r))
       /\ UNCHANGED role /\ TeamUnchanged

\* disable_member before its transaction.
DisableRead(r, a, m) ==
    /\ req[r].pc = "idle"
    /\ MayManage(a) /\ member[m].st # "none"
    /\ IsOwner(m) => IsOwner(a)
    /\ member[m].st = "active" /\ IsOwner(m) => OwnerCountAboveOne
    /\ req' = [req EXCEPT ![r] = [@ EXCEPT !.pc = "read", !.op = "disable", !.m = m,
                                           !.owner = IsOwner(a)]]
    /\ UNCHANGED <<member, role, overlap, stripped>> /\ TeamUnchanged

\* disable_member_in_transaction; the sessions are in AdminSessions.
DisableCommit(r) ==
    LET m == req[r].m
    IN /\ req[r].pc = "read" /\ req[r].op = "disable"
       /\ member' = [member EXCEPT ![m].st = "disabled"]
       /\ stripped' = (stripped \/ (member[m].st = "active" /\ IsOwner(m) /\ ~req[r].owner))
       /\ req' = [req EXCEPT ![r].pc = "done"]
       /\ overlap' = (overlap \/ ~Quiet(r))
       /\ UNCHANGED role /\ TeamUnchanged

-----------------------------------------------------------------------------
(* Roles that are not built in (ensure_custom_role). *)

\* create_role and update_role, each one transaction under the lock of the role.
SaveRole(r, a, manages) ==
    /\ req[r].pc = "idle" /\ MayManage(a)
    /\ role.st # "deleted"
    /\ role' = [st |-> "live", manages |-> manages]
    /\ req' = [req EXCEPT ![r].pc = "done"]
    /\ overlap' = (overlap \/ ~Quiet(r))
    /\ UNCHANGED <<member, stripped>> /\ TeamUnchanged

\* ensure_role_unassigned.
RoleUnassigned == \A m \in Members : "custom" \notin member[m].roles

\* delete_role locks the role, which waits for inserts that refer to it, and
\* finds that no member has it.
DeleteRoleLock(r, a) ==
    /\ req[r].pc = "idle" /\ MayManage(a)
    /\ role.st = "live" /\ RoleUnassigned
    /\ \A q \in Requests : req[q].pc = "written" =>
          req[q].op # "delete_role" /\ ~(req[q].op = "roles" /\ "custom" \in req[q].roles)
    /\ req' = [req EXCEPT ![r] = [@ EXCEPT !.pc = "written", !.op = "delete_role"]]
    /\ UNCHANGED <<member, role, overlap, stripped>> /\ TeamUnchanged

\* soft_delete_role.
DeleteRoleCommit(r) ==
    /\ req[r].pc = "written" /\ req[r].op = "delete_role"
    /\ role' = [role EXCEPT !.st = "deleted"]
    /\ req' = [req EXCEPT ![r].pc = "done"]
    /\ overlap' = (overlap \/ ~Quiet(r))
    /\ UNCHANGED <<member, stripped>> /\ TeamUnchanged

-----------------------------------------------------------------------------
(* The second factor of one member. *)

LiveCodes == {c \in Sets : codes[c].st = "live"}

\* Mutant: old codes stay valid when new ones are inserted.
CodesAdded(r, seen) == [codes EXCEPT ![r] = [st |-> "live", uses |-> 0]]

\* replace_recovery_codes_in_transaction: what the update has found is revoked
\* unless it has been used meanwhile, and a new set inserted.
CodesReplaced(r, seen) ==
    [c \in Sets |-> IF c = r THEN [st |-> "live", uses |-> 0]
                        ELSE IF c \in seen /\ codes[c].st = "live"
                        THEN [codes[c] EXCEPT !.st = "revoked"] ELSE codes[c]]

\* revoke_recovery_codes_in_transaction.
CodesRevoked(seen) ==
    [c \in Sets |-> IF c \in seen /\ codes[c].st = "live"
                        THEN [codes[c] EXCEPT !.st = "revoked"] ELSE codes[c]]

\* What setup, enable, disable and regenerate read before their transactions.
MfaRead(r, op) ==
    /\ req[r].pc = "idle"
    /\ mfa.enabled = (op \in {"disable_mfa", "regenerate"})
    /\ op # "setup" => mfa.secret # None
    /\ req' = [req EXCEPT ![r] = [@ EXCEPT !.pc = "read", !.op = op, !.secret = mfa.secret]]
    /\ UNCHANGED <<mfa, codes, overlap>> /\ MfaUnchanged

\* setup locks the member, then replaces the codes.
SetupCommit(r) ==
    /\ req[r].pc = "read" /\ req[r].op = "setup"
    /\ mfa' = [mfa EXCEPT !.enabled = FALSE, !.secret = r]
    /\ codes' = CodesReplaced(r, LiveCodes)
    /\ req' = [req EXCEPT ![r].pc = "done"]
    /\ overlap' = (overlap \/ ~Quiet(r))
    /\ MfaUnchanged

\* enable has verified a code of the secret it read; the update has no condition.
EnableCommit(r) ==
    /\ req[r].pc = "read" /\ req[r].op = "enable"
    /\ mfa' = [mfa EXCEPT !.enabled = TRUE, !.checked = req[r].secret]
    /\ req' = [req EXCEPT ![r].pc = "done"]
    /\ overlap' = (overlap \/ ~Quiet(r))
    /\ UNCHANGED codes /\ MfaUnchanged

\* consume_recovery_code_in_transaction, and the update of verify_member_mfa_code.
CodeConsumed(c) == codes' = [codes EXCEPT ![c] = [st |-> "used", uses |-> @.uses + 1]]

\* verify_member_mfa_code of a login; TOTP changes nothing.
LoginCode(r, c) ==
    /\ req[r].pc = "idle"
    /\ mfa.enabled /\ mfa.secret # None
    /\ codes[c].st = "live" /\ CodeConsumed(c)
    /\ req' = [req EXCEPT ![r].pc = "done"]
    /\ overlap' = (overlap \/ ~Quiet(r))
    /\ UNCHANGED mfa /\ MfaUnchanged

\* verify_mfa_code_in_transaction by TOTP, or by a code, which is then consumed;
\* either transaction goes on with the update of the codes it finds.
VerifyInTransaction(r) ==
    /\ req[r].pc = "read" /\ req[r].op \in {"disable_mfa", "regenerate"}
    /\ \/ UNCHANGED codes
       \/ \E c \in LiveCodes : CodeConsumed(c)
    /\ req' = [req EXCEPT ![r] = [@ EXCEPT !.pc = "written", !.seen = LiveCodes]]
    /\ UNCHANGED <<mfa, overlap>> /\ MfaUnchanged

\* disable_member_mfa_in_transaction.
MfaCleared == [mfa EXCEPT !.enabled = FALSE, !.secret = None]

DisableMfaCommit(r) ==
    /\ req[r].pc = "written" /\ req[r].op = "disable_mfa"
    /\ mfa' = MfaCleared
    /\ codes' = CodesRevoked(req[r].seen)
    /\ req' = [req EXCEPT ![r].pc = "done"]
    /\ overlap' = (overlap \/ ~Quiet(r))
    /\ MfaUnchanged

RegenerateCommit(r) ==
    /\ req[r].pc = "written" /\ req[r].op = "regenerate"
    /\ codes' = CodesReplaced(r, req[r].seen)
    /\ req' = [req EXCEPT ![r].pc = "done"]
    /\ overlap' = (overlap \/ ~Quiet(r))
    /\ UNCHANGED mfa /\ MfaUnchanged

\* reset-admin-password with RESET_ADMIN_DISABLE_MFA leaves the codes alone.
CliDisableMfa(r) ==
    /\ req[r].pc = "idle" /\ mfa.enabled
    /\ mfa' = MfaCleared
    /\ req' = [req EXCEPT ![r].pc = "done"]
    /\ overlap' = (overlap \/ ~Quiet(r))
    /\ UNCHANGED codes /\ MfaUnchanged

-----------------------------------------------------------------------------
TeamStep(r) ==
    \/ \E a, m \in Members : \/ \E c \in RoleCodes : \/ InviteRead(r, a, m, {c})
                                                     \/ UpdateRolesRead(r, a, m, {c})
                             \/ DisableRead(r, a, m)
    \/ \E a \in Members : \/ \E b \in BOOLEAN : SaveRole(r, a, b)
                          \/ DeleteRoleLock(r, a)
    \/ \E m \in Members : AcceptInvitation(r, m)
    \/ InviteCommit(r) \/ UpdateRolesWrite(r) \/ UpdateRolesCommit(r)
    \/ DisableCommit(r) \/ DeleteRoleCommit(r)

MfaStep(r) ==
    \/ \E op \in {"setup", "enable", "disable_mfa", "regenerate"} : MfaRead(r, op)
    \/ \E c \in Sets : LoginCode(r, c)
    \/ SetupCommit(r) \/ EnableCommit(r) \/ VerifyInTransaction(r)
    \/ DisableMfaCommit(r) \/ RegenerateCommit(r) \/ CliDisableMfa(r)

TeamNext == \E r \in Requests : TeamStep(r)

MfaNext == \E r \in Requests : MfaStep(r)

-----------------------------------------------------------------------------
(* Properties. *)

\* A member who is disabled stays so: an invitation that is accepted while its
\* member is disabled (invitation.rs) does not bring the member back.
DisabledIsFinal ==
    [][\A m \in Members : member[m].st = "disabled" => member'[m].st = "disabled"]_accountVars

\* The tenant has an active owner (ensure_owner_count_above_one), as long as no
\* two requests of the team overlap.
OwnerKeptByTurns == ~overlap => ActiveOwners # {}

\* Stated by the API document and not kept by the code when requests overlap: the
\* last owner cannot be disabled.
LastOwnerKept == ActiveOwners # {}

\* An owner is disabled or loses the role only through an owner
\* (ensure_owner_target_allowed, ensure_owner_role_change_allowed), by turns.
OwnersTakenByOwners == ~overlap => ~stripped

\* Every member who can work has a role that exists: a role in use is not deleted
\* and replacing roles never leaves none (iam/admin.rs, team/admin.rs), by turns.
MembersKeepARole ==
    ~overlap => \A m \in Members : member[m].st \in {"invited", "active"} => RoleCodesOf(m) # {}

\* The three, for any requests of three administrators.
TeamKept == AccountsTypeOK /\ OwnerKeptByTurns /\ OwnersTakenByOwners /\ MembersKeepARole

\* A recovery code lets one request in, however many present it and whatever
\* becomes of its set meanwhile (mfa.rs).
RecoveryCodeUsedOnce == \A c \in Sets : codes[c].uses <= 1

\* By turns, a second factor that is enabled has the secret whose code has been
\* verified, so that logins cannot fail for want of it.
MfaConfigured == ~overlap /\ mfa.enabled => mfa.secret # None /\ mfa.checked = mfa.secret

\* By turns, at most one set of recovery codes is valid.
OneSetOfCodes == ~overlap => Cardinality(LiveCodes) <= 1

\* The three, for any requests about one second factor (mfa.rs).
MfaKept == RecoveryCodeUsedOnce /\ MfaConfigured /\ OneSetOfCodes
=============================================================================
