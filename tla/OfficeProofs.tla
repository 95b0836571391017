---------------------------- MODULE OfficeProofs ----------------------------
(***************************************************************************)
(* Proofs about the back office (MCOffice): members, roles and second      *)
(* factors, API keys, settings and the AI catalogue, for any numbers of    *)
(* members, requests, keys, edits and providers.                           *)
(*                                                                         *)
(* Each part has an inductive invariant of its own.  What they add to the  *)
(* properties is what a handler knows between its read and its commit:     *)
(* that the row it has locked is still the one it read or, where nothing   *)
(* is locked, that it is unless requests overlapped.                       *)
(***************************************************************************)
EXTENDS MCOffice, FiniteSetTheorems, TLAPS

-----------------------------------------------------------------------------
(* Members, roles and second factors. *)

\* What a request that is between its read and its commit relies on.
InviteKnows(r) ==
    req[r].op = "invite" => Resolves(req[r].roles)

RolesKnow(r) ==
    req[r].op = "roles" =>
        /\ Resolves(req[r].roles)
        /\ OwnerTouched(RoleCodesOf(req[r].m), req[r].roles) => req[r].owner
        /\ "owner" \in RoleCodesOf(req[r].m) \ req[r].roles => OwnerCountAboveOne
        /\ req[r].pc = "written" => req[r].seen = member[req[r].m].roles

DisableKnows(r) ==
    req[r].op = "disable" =>
        /\ IsOwner(req[r].m) => req[r].owner
        /\ member[req[r].m].st = "active" /\ IsOwner(req[r].m) => OwnerCountAboveOne

DeleteRoleKnows(r) ==
    req[r].op = "delete_role" => RoleUnassigned

EnableKnows(r) ==
    req[r].op = "enable" => req[r].secret # None /\ mfa.secret = req[r].secret

CodesKnown(r) ==
    req[r].op \in {"disable_mfa", "regenerate"} /\ req[r].pc = "written" => LiveCodes \subseteq req[r].seen

Knows(r) ==
    /\ InviteKnows(r) /\ RolesKnow(r) /\ DisableKnows(r) /\ DeleteRoleKnows(r)
    /\ EnableKnows(r) /\ CodesKnown(r)

\* By turns, what a request has read is still true.
RequestsKnow ==
    ~overlap => \A r \in Requests : req[r].pc \in {"read", "written"} => Knows(r)

\* A code that is live has let nobody in.
LiveIsUnused == \A c \in Sets : codes[c].uses <= 1 /\ (codes[c].st = "live" => codes[c].uses = 0)

\* OneSetOfCodes without cardinalities.
OneLiveSet == ~overlap => \A c, d \in LiveCodes : c = d

TeamRules == OwnerKeptByTurns /\ OwnersTakenByOwners /\ MembersKeepARole

MfaRules == LiveIsUnused /\ MfaConfigured /\ OneLiveSet

AccountsInv == AccountsTypeOK /\ TeamRules /\ MfaRules /\ RequestsKnow

-----------------------------------------------------------------------------
(* API keys. *)

\* A key that does not exist has no history; the log of another ends with its row.
TrailEndsWithRow ==
    \A k \in KeyIds :
        IF apiKey[k].exists
        THEN Len(keyTrail[k]) > 0 /\ keyTrail[k][Len(keyTrail[k])].after = apiKey[k]
        ELSE keyTrail[k] = <<>>

\* A call of the back office works on one key; it has checked that the key is
\* new or has its row locked, as it read it.
EditsKnow ==
    \A e \in KeyEdits :
        /\ keyEdit[e].pc \in {"idle", "done"} => keyEdit[e].id = {}
        /\ keyEdit[e].pc = "checked" => \E k \in KeyIds : keyEdit[e].id = {k} /\ ~apiKey[k].exists
        /\ keyEdit[e].pc = "locked" =>
              /\ \E k \in KeyIds :
                    keyEdit[e].id = {k} /\ apiKey[k].exists /\ keyEdit[e].before = apiKey[k]
              /\ keyEdit[e].payload.op \in {"limit", "expires", "revoke"}

\* No two of them work on the same key.
EditsApart ==
    \A e, f \in KeyEdits : e # f => keyEdit[e].id \cap keyEdit[f].id = {}

\* A request that came too late is for a key that stays out of use.
LostStaysLost ==
    \A c \in KeyCalls : keyCall[c].lost =>
        /\ keyCall[c].pc \in {"begun", "refused"}
        /\ \A k \in keyCall[c].id : apiKey[k].exists /\ AccessLost(k)

\* The types of the calls, and of the entries of the log.
KeyEditRow ==
    [pc : {"idle", "checked", "locked", "done"}, id : SUBSET KeyIds,
     payload : (UNION {KeyPayload(k) : k \in KeyIds}) \cup {NoPayload}, before : KeyRow]

KeyCallRow ==
    [pc : {"idle", "begun", "found", "in", "served", "refused"}, id : SUBSET KeyIds, lost : BOOLEAN]

KeyEntry == [before : KeyRow, after : KeyRow]

\* What the invariant says of rows and log, of edits, and of requests.
KeyRowsSound ==
    /\ apiKey \in [KeyIds -> KeyRow] /\ keySaid \in [KeyIds -> KeyRow]
    /\ keyTrail \in [KeyIds -> Seq(KeyEntry)]
    /\ KeyEditsKept /\ TrailEndsWithRow

KeyEditsSound == keyEdit \in [KeyEdits -> KeyEditRow] /\ EditsKnow /\ EditsApart

KeyCallsSound ==
    /\ active \subseteq Parties /\ keyCall \in [KeyCalls -> KeyCallRow]
    /\ keyClock \in 1 .. MaxKeyClock
    /\ LostStaysLost

KeysInv == KeyRowsSound /\ KeyEditsSound /\ KeyCallsSound

-----------------------------------------------------------------------------
(* Settings. *)

\* The log ends with the value stored.
TrailEndsWithSetting ==
    settingTrail # <<>> => settingTrail[Len(settingTrail)].after = setting

\* Who has read a row has it locked, alone and as it is stored.
SettingLocked ==
    \A e \in SettingEdits : settingEdit[e].pc = "locked" /\ settingEdit[e].before # 0 =>
        /\ settingEdit[e].before = setting
        /\ \A f \in SettingEdits \ {e} : ~(settingEdit[f].pc = "locked" /\ settingEdit[f].before # 0)

EmailLocked ==
    \A e \in EmailEdits : emailEdit[e].pc = "locked" =>
        IF emailEdit[e].before.exists
        THEN /\ emailEdit[e].before.password = email.password /\ email.exists
             /\ \A f \in EmailEdits \ {e} : ~(emailEdit[f].pc = "locked" /\ emailEdit[f].before.exists)
        ELSE emailEdit[e].before.password = 0

\* Some update found no row and inserted it.
FirstEmailInserts ==
    IF email.exists THEN firstEmails > 0 ELSE email.password = 0 /\ emailSaid = 0

\* The types of the calls, and of the entries of the log.
SettingEditRow == [pc : {"idle", "locked", "done"}, value : Values, before : Values]

SettingEntry == [before : Values, after : Values]

EmailEditRow == [pc : {"idle", "locked", "done"}, payload : EmailPayload, before : EmailRow]

EmailTestRow == [pc : {"idle", "sending", "success", "failed", "done"}]

\* What the invariant says of system_settings and of email_settings.
SettingSound ==
    /\ setting \in Values /\ settingEdit \in [SettingEdits -> SettingEditRow]
    /\ settingTrail \in Seq(SettingEntry)
    /\ SettingsTold /\ TrailEndsWithSetting /\ SettingLocked

EmailSound ==
    /\ email \in EmailRow /\ emailEdit \in [EmailEdits -> EmailEditRow]
    /\ emailTest \in [EmailTests -> EmailTestRow]
    /\ emailSaid \in Values /\ firstEmails \in Nat
    /\ EmailUsable /\ EmailPasswordKept /\ EmailLocked /\ FirstEmailInserts

SettingsInv == SettingSound /\ EmailSound

-----------------------------------------------------------------------------
(* The catalogue. *)

\* An update has its row locked, alone and as it is stored.
ProviderLocked ==
    \A e \in CatalogueEdits : edit[e].pc = "provider" =>
        /\ \E i \in Providers : edit[e].id = {i} /\ provider[i].exists /\ edit[e].seen = provider[i]
        /\ edit[e].payload \in ProviderPayload
        /\ \A f \in CatalogueEdits \ {e} : edit[f].pc = "provider" => edit[f].id \cap edit[e].id = {}

ModelLocked ==
    \A e \in CatalogueEdits : edit[e].pc = "model" =>
        /\ aiModel.exists /\ edit[e].read = aiModel
        /\ edit[e].payload \in ModelPayload
        /\ \A f \in CatalogueEdits \ {e} : edit[f].pc # "model"

\* The types of the updates and of what was asked for.
CatalogueEditRow ==
    [pc : {"idle", "provider", "model", "done"}, id : SUBSET Providers,
     payload : ProviderPayload \cup ModelPayload \cup {NoRequest}, seen : ProviderRow, read : ModelRow]

AskedRow == [provider : [Providers -> ProviderRow], request : 0 .. 1, second : 0 .. 1]

CatalogueInv == CatalogueKept /\ ProviderLocked /\ ModelLocked

-----------------------------------------------------------------------------
(* Proofs: members, roles and second factors. *)

\* First is a member: init-owner has created one.
LEMMA FirstIsMember == First \in Members
BY AdminAccountsAssumption DEF First

\* initialize_owner leaves a tenant with an owner, whoever else has joined.
LEMMA AccountsInitSound ==
    ASSUME TeamInit \/ MfaInit
    PROVE  AccountsInv
<1>1. First \in Members
  BY FirstIsMember
<1>2. /\ req \in [Requests -> Request] /\ overlap = FALSE /\ stripped = FALSE
      /\ \A r \in Requests : req[r].pc = "idle"
  <2>1. QuietInit
    BY DEF TeamInit, MfaInit
  <2> QED
    BY <1>1, <2>1 DEF QuietInit, Request
<1>3. /\ member \in [Members -> MemberRow] /\ role \in RoleRow
      /\ member[First] = InitOwner
      /\ \A m \in Members : member[m].st # "none" => member[m].roles \in {{"owner"}, {"admin"}}
  <2>1. CASE TeamInit
    <3>1. PICK other \in Members \ {First},
               row \in [st : {"active", "invited"}, roles : {{"owner"}, {"admin"}}] :
             member = [m \in Members |-> IF m = First THEN InitOwner ELSE
                         IF m = other THEN row ELSE NoMember]
      BY <2>1 DEF TeamInit
    <3>2. row \in MemberRow /\ InitOwner \in MemberRow /\ NoMember \in MemberRow
      BY DEF MemberRow, InitOwner, NoMember, RoleCodes
    <3>3. role \in RoleRow
      BY <2>1 DEF TeamInit, RoleRow
    <3> QED
      BY <1>1, <3>1, <3>2, <3>3 DEF InitOwner, NoMember
  <2>2. CASE MfaInit
    <3>1. InitOwner \in MemberRow /\ NoMember \in MemberRow
      BY DEF MemberRow, InitOwner, NoMember, RoleCodes
    <3> QED
      BY <1>1, <2>2, <3>1 DEF MfaInit, RoleRow, InitOwner, NoMember
  <2> QED
    BY <2>1, <2>2
<1>4. /\ mfa \in MfaRow /\ codes \in [Sets -> CodeRow]
      /\ mfa.enabled => mfa.secret # None /\ mfa.checked = mfa.secret
      /\ \A c \in Sets : codes[c].uses = 0
      /\ \A c, d \in LiveCodes : c = d
  <2>1. CASE TeamInit
    BY <2>1 DEF TeamInit, MfaRow, NoCodes, CodeRow, LiveCodes
  <2>2. CASE MfaInit
    <3>1. PICK f \in {None, "first"} :
             /\ mfa = [enabled |-> f # None, secret |-> f, checked |-> f]
             /\ codes = IF f = None THEN NoCodes ELSE [NoCodes EXCEPT ![f].st = "live"]
      BY <2>2 DEF MfaInit
    <3>2. mfa \in MfaRow /\ (mfa.enabled => mfa.secret # None /\ mfa.checked = mfa.secret)
      BY <3>1 DEF MfaRow, Sets
    <3>3. CASE f = None
      BY <3>1, <3>2, <3>3 DEF NoCodes, CodeRow, LiveCodes
    <3>4. CASE f = "first"
      <4>1. codes = [NoCodes EXCEPT !["first"].st = "live"]
        BY <3>1, <3>4 DEF None
      <4>2. [NoCodes["first"] EXCEPT !.st = "live"] = [st |-> "live", uses |-> 0]
        BY DEF NoCodes, Sets
      <4>3. codes = [NoCodes EXCEPT !["first"] = [st |-> "live", uses |-> 0]]
        BY <4>1, <4>2
      <4> QED
        BY <3>2, <4>3 DEF NoCodes, CodeRow, LiveCodes
    <3> QED
      BY <3>3, <3>4
  <2> QED
    BY <2>1, <2>2
<1>5. TeamRules
  <2>1. First \in ActiveOwners
    BY <1>1, <1>3 DEF ActiveOwners, InitOwner, IsOwner, RoleCodesOf, RoleLive
  <2>2. MembersKeepARole
    BY <1>3 DEF MembersKeepARole, RoleCodesOf, RoleLive
  <2> QED
    BY <1>2, <2>1, <2>2 DEF TeamRules, OwnerKeptByTurns, OwnersTakenByOwners
<1>6. MfaRules
  BY <1>4 DEF MfaRules, LiveIsUnused, MfaConfigured, OneLiveSet
<1>7. RequestsKnow
  BY <1>2 DEF RequestsKnow
<1> QED
  BY <1>2, <1>3, <1>4, <1>5, <1>6, <1>7 DEF AccountsInv, AccountsTypeOK

-----------------------------------------------------------------------------
(* The two kinds of steps. *)

\* What the rules of the team say depends on nothing else.
LEMMA TeamUntouched ==
    ASSUME TeamRules, UNCHANGED <<member, role, stripped>>, ~overlap' => ~overlap
    PROVE  TeamRules'
BY DEF TeamRules, OwnerKeptByTurns, OwnersTakenByOwners, MembersKeepARole, ActiveOwners,
       IsOwner, RoleCodesOf, RoleLive

\* Nor do those of the second factor.
LEMMA MfaUntouched ==
    ASSUME MfaRules, UNCHANGED <<mfa, codes>>, ~overlap' => ~overlap
    PROVE  MfaRules'
BY DEF MfaRules, LiveIsUnused, MfaConfigured, OneLiveSet, LiveCodes

\* What a request knows depends on its own state and on the tables.
LEMMA KnowledgeUntouched ==
    ASSUME NEW r \in Requests, Knows(r), UNCHANGED <<member, role, mfa, codes>>, req'[r] = req[r]
    PROVE  Knows(r)'
BY DEF Knows, InviteKnows, RolesKnow, DisableKnows, DeleteRoleKnows, EnableKnows, CodesKnown,
       Resolves, RoleLive, RoleCodesOf, OwnerTouched, OwnerCountAboveOne, ActiveOwners, IsOwner,
       RoleUnassigned, LiveCodes

\* A step that only reads: the request must know what it has read.
LEMMA ReadSound ==
    ASSUME AccountsInv, NEW r \in Requests, NEW q \in Request,
           req' = [req EXCEPT ![r] = q], UNCHANGED <<member, role, mfa, codes, overlap, stripped>>,
           ~overlap => Knows(r)'
    PROVE  AccountsInv'
<1>1. req' \in [Requests -> Request] /\ req'[r] = q
      /\ \A s \in Requests : s # r => req'[s] = req[s]
  BY DEF AccountsInv, AccountsTypeOK
<1>2. AccountsTypeOK'
  BY <1>1 DEF AccountsInv, AccountsTypeOK
<1>3. TeamRules'
  BY TeamUntouched DEF AccountsInv
<1>4. MfaRules'
  BY MfaUntouched DEF AccountsInv
<1>5. ASSUME ~overlap', NEW s \in Requests, req'[s].pc \in {"read", "written"}
      PROVE  Knows(s)'
  <2>1. CASE s = r
    BY <1>5, <2>1
  <2>2. CASE s # r
    <3>1. Knows(s)
      BY <1>1, <1>5, <2>2 DEF AccountsInv, RequestsKnow
    <3> QED
      BY <1>1, <2>2, <3>1, KnowledgeUntouched
  <2> QED
    BY <2>1, <2>2
<1>6. RequestsKnow'
  BY <1>5 DEF RequestsKnow
<1> QED
  BY <1>2, <1>3, <1>4, <1>6 DEF AccountsInv

\* A step that ends a request: as long as no two overlap there is no other.
LEMMA CommitKnows ==
    ASSUME AccountsInv, NEW r \in Requests,
           req' = [req EXCEPT ![r].pc = "done"], overlap' = (overlap \/ ~Quiet(r))
    PROVE  /\ req' \in [Requests -> Request] /\ overlap' \in BOOLEAN
           /\ ~overlap' => ~overlap
           /\ RequestsKnow'
<1>1. PICK row \in Request : row = req[r]
  BY DEF AccountsInv, AccountsTypeOK
<1> DEFINE q == [row EXCEPT !.pc = "done"]
<1>2. q \in Request /\ q.pc = "done"
  BY DEF Request
<1>3. req' = [req EXCEPT ![r] = q]
  BY <1>1
<1> HIDE DEF q
<1>4. req' \in [Requests -> Request] /\ req'[r].pc = "done"
      /\ \A s \in Requests : s # r => req'[s] = req[s]
  BY <1>2, <1>3 DEF AccountsInv, AccountsTypeOK
<1>5. ~overlap' => \A s \in Requests : req'[s].pc \in {"idle", "done"}
  BY <1>4 DEF Quiet
<1> QED
  BY <1>4, <1>5 DEF RequestsKnow, AccountsInv, AccountsTypeOK

\* A step of the team that ends a request.
LEMMA TeamCommitSound ==
    ASSUME AccountsInv, NEW r \in Requests,
           req' = [req EXCEPT ![r].pc = "done"], overlap' = (overlap \/ ~Quiet(r)),
           UNCHANGED <<mfa, codes>>,
           member' \in [Members -> MemberRow], role' \in RoleRow, stripped' \in BOOLEAN,
           ~overlap => TeamRules'
    PROVE  AccountsInv'
<1>1. /\ req' \in [Requests -> Request] /\ overlap' \in BOOLEAN
      /\ ~overlap' => ~overlap
      /\ RequestsKnow'
  BY CommitKnows
<1>2. AccountsTypeOK'
  BY <1>1 DEF AccountsInv, AccountsTypeOK
<1>3. TeamRules'
  BY <1>1 DEF TeamRules, OwnerKeptByTurns, OwnersTakenByOwners, MembersKeepARole
<1>4. MfaRules'
  BY <1>1, MfaUntouched DEF AccountsInv
<1> QED
  BY <1>1, <1>2, <1>3, <1>4 DEF AccountsInv

\* One about the second factor.
LEMMA MfaCommitSound ==
    ASSUME AccountsInv, NEW r \in Requests,
           req' = [req EXCEPT ![r].pc = "done"], overlap' = (overlap \/ ~Quiet(r)),
           UNCHANGED <<member, role, stripped>>,
           mfa' \in MfaRow, codes' \in [Sets -> CodeRow], LiveIsUnused',
           ~overlap => MfaConfigured' /\ OneLiveSet'
    PROVE  AccountsInv'
<1>1. /\ req' \in [Requests -> Request] /\ overlap' \in BOOLEAN
      /\ ~overlap' => ~overlap
      /\ RequestsKnow'
  BY CommitKnows
<1>2. AccountsTypeOK'
  BY <1>1 DEF AccountsInv, AccountsTypeOK
<1>3. TeamRules'
  BY <1>1, TeamUntouched DEF AccountsInv
<1>4. MfaRules'
  BY <1>1 DEF MfaRules, MfaConfigured, OneLiveSet
<1> QED
  BY <1>1, <1>2, <1>3, <1>4 DEF AccountsInv

-----------------------------------------------------------------------------
(* Members and roles. *)

\* active_owner_count above one leaves an owner besides any member.
LEMMA AnotherOwner ==
    ASSUME OwnerCountAboveOne, NEW m \in Members
    PROVE  \E o \in ActiveOwners : o # m
<1>1. SUFFICES ASSUME ActiveOwners \subseteq {m} PROVE FALSE
  OBVIOUS
<1>2. IsFiniteSet({m}) /\ Cardinality({m}) = 1
  BY FS_Singleton
<1>3. Cardinality(ActiveOwners) <= 1 /\ Cardinality(ActiveOwners) \in Nat
  BY <1>1, <1>2, FS_Subset, FS_CardinalityType
<1> QED
  BY <1>3 DEF OwnerCountAboveOne

\* invite_member: the roles asked for exist, and go on existing until the insert
\* unless requests overlap.
LEMMA InviteReadSound ==
    ASSUME AccountsInv, NEW r \in Requests, NEW a \in Members, NEW m \in Members,
           NEW rs \in SUBSET RoleCodes, InviteRead(r, a, m, rs)
    PROVE  AccountsInv'
<1>1. PICK row \in Request : row = req[r]
  BY DEF AccountsInv, AccountsTypeOK
<1> DEFINE q == [row EXCEPT !.pc = "read", !.op = "invite", !.m = m, !.roles = rs]
<1>2. q \in Request /\ q.op = "invite" /\ q.roles = rs
  BY DEF Request
<1>3. req' = [req EXCEPT ![r] = q]
  BY <1>1 DEF InviteRead
<1> HIDE DEF q
<1>4. req'[r] = q
  BY <1>3 DEF AccountsInv, AccountsTypeOK
<1>5. UNCHANGED <<member, role, mfa, codes, overlap, stripped>>
  BY DEF InviteRead, TeamUnchanged
<1>6. Knows(r)'
  BY <1>2, <1>4, <1>5 DEF InviteRead, Knows, InviteKnows, RolesKnow, DisableKnows, DeleteRoleKnows,
                          EnableKnows, CodesKnown, Resolves, RoleLive
<1> QED
  BY <1>2, <1>3, <1>5, <1>6, ReadSound

LEMMA InviteCommitSound ==
    ASSUME AccountsInv, NEW r \in Requests, InviteCommit(r)
    PROVE  AccountsInv'
<1>1. PICK m \in Members : m = req[r].m /\ req[r] \in Request /\ member \in [Members -> MemberRow]
  BY DEF AccountsInv, AccountsTypeOK, Request
<1>2. PICK row \in MemberRow : row = [st |-> "invited", roles |-> {c \in req[r].roles : RoleLive(c)}]
  BY <1>1 DEF MemberRow, Request
<1>3. UNCHANGED <<mfa, codes, role, stripped>>
  BY DEF InviteCommit, TeamUnchanged
<1>4. CASE member[m].st = "none"
  <2>1. member' = [member EXCEPT ![m] = row]
    BY <1>1, <1>2, <1>4 DEF InviteCommit
  <2>2. member' \in [Members -> MemberRow]
    BY <1>1, <1>2, <2>1
  <2>3. ASSUME ~overlap PROVE TeamRules'
    <3>1. row.st = "invited" /\ row.roles # {}
          /\ \A c \in row.roles : RoleLive(c)
      <4>1. Resolves(req[r].roles)
        BY <2>3 DEF AccountsInv, RequestsKnow, Knows, InviteKnows, InviteCommit
      <4> QED
        BY <1>2, <4>1 DEF Resolves
    <3>2. \A n \in Members : n # m => member'[n] = member[n]
      BY <1>1, <2>1
    <3>3. member'[m] = row
      BY <1>1, <2>1
    <3>4. \A c : RoleLive(c)' <=> RoleLive(c)
      BY <1>3 DEF RoleLive
    <3>5. ActiveOwners \subseteq ActiveOwners'
      BY <1>1, <1>3, <1>4, <3>2 DEF ActiveOwners, IsOwner, RoleCodesOf, RoleLive
    <3>6. \A n \in Members : member'[n].st \in {"invited", "active"} => RoleCodesOf(n)' # {}
      <4>1. RoleCodesOf(m)' # {}
        BY <1>1, <3>1, <3>3, <3>4 DEF RoleCodesOf
      <4>2. ASSUME NEW n \in Members, n # m, member'[n].st \in {"invited", "active"}
            PROVE  RoleCodesOf(n)' # {}
        <5>1. RoleCodesOf(n) # {}
          BY <2>3, <3>2, <4>2 DEF AccountsInv, TeamRules, MembersKeepARole
        <5> QED
          BY <3>2, <3>4, <4>2, <5>1 DEF RoleCodesOf
      <4> QED
        BY <4>1, <4>2
    <3> QED
      BY <1>3, <2>3, <3>5, <3>6 DEF AccountsInv, TeamRules, OwnerKeptByTurns, OwnersTakenByOwners,
                                    MembersKeepARole
  <2> QED
    BY <1>3, <2>2, <2>3, TeamCommitSound DEF InviteCommit, AccountsInv, AccountsTypeOK
<1>5. CASE member[m].st # "none"
  <2>1. UNCHANGED member
    BY <1>1, <1>5 DEF InviteCommit
  <2>2. ~overlap => TeamRules'
    BY <1>3, <2>1 DEF AccountsInv, TeamRules, OwnerKeptByTurns, OwnersTakenByOwners, MembersKeepARole,
                      ActiveOwners, IsOwner, RoleCodesOf, RoleLive
  <2> QED
    BY <1>3, <2>1, <2>2, TeamCommitSound DEF InviteCommit, AccountsInv, AccountsTypeOK
<1> QED
  BY <1>4, <1>5

\* accept_invitation: an active member has the roles the invited one had.
LEMMA AcceptInvitationSound ==
    ASSUME AccountsInv, NEW r \in Requests, NEW m \in Members, AcceptInvitation(r, m)
    PROVE  AccountsInv'
<1>1. member \in [Members -> MemberRow]
  BY DEF AccountsInv, AccountsTypeOK
<1>2. PICK row \in MemberRow : row = member[m]
  BY <1>1
<1> DEFINE q == [row EXCEPT !.st = "active"]
<1>3. q \in MemberRow /\ q.st = "active" /\ q.roles = row.roles
  BY DEF MemberRow
<1>4. member' = [member EXCEPT ![m] = q]
  BY <1>2 DEF AcceptInvitation, ActivateInvited
<1> HIDE DEF q
<1>5. UNCHANGED <<mfa, codes, role, stripped>>
  BY DEF AcceptInvitation, TeamUnchanged
<1>6. member' \in [Members -> MemberRow] /\ member'[m] = q
      /\ \A n \in Members : n # m => member'[n] = member[n]
  BY <1>1, <1>3, <1>4
<1>7. ASSUME ~overlap PROVE TeamRules'
  <2>1. \A n \in Members : RoleCodesOf(n)' = RoleCodesOf(n)
    BY <1>2, <1>3, <1>5, <1>6 DEF RoleCodesOf, RoleLive
  <2>2. ActiveOwners \subseteq ActiveOwners'
    BY <1>3, <1>6, <2>1 DEF ActiveOwners, IsOwner
  <2>3. \A n \in Members : member'[n].st \in {"invited", "active"} => RoleCodesOf(n)' # {}
    BY <1>2, <1>6, <1>7, <2>1 DEF AccountsInv, TeamRules, MembersKeepARole, AcceptInvitation,
                                  ActivateInvited
  <2> QED
    BY <1>5, <1>7, <2>2, <2>3 DEF AccountsInv, TeamRules, OwnerKeptByTurns, OwnersTakenByOwners,
                                  MembersKeepARole
<1> QED
  BY <1>5, <1>6, <1>7, TeamCommitSound DEF AcceptInvitation, AccountsInv, AccountsTypeOK

\* What the checks of a handler look at.
LEMMA ChecksUntouched ==
    ASSUME UNCHANGED <<member, role>>
    PROVE  /\ \A n \in Members : RoleCodesOf(n)' = RoleCodesOf(n) /\ (IsOwner(n)' <=> IsOwner(n))
           /\ \A c : RoleLive(c)' <=> RoleLive(c)
           /\ ActiveOwners' = ActiveOwners
           /\ OwnerCountAboveOne' <=> OwnerCountAboveOne
           /\ RoleUnassigned' <=> RoleUnassigned
<1>1. \A n : RoleCodesOf(n)' = RoleCodesOf(n) /\ (IsOwner(n)' <=> IsOwner(n))
  BY DEF RoleCodesOf, RoleLive, IsOwner
<1>2. ActiveOwners' = ActiveOwners
  BY <1>1 DEF ActiveOwners
<1>3. RoleUnassigned' <=> RoleUnassigned
  BY DEF RoleUnassigned
<1>4. \A c : RoleLive(c)' <=> RoleLive(c)
  BY DEF RoleLive
<1> QED
  BY <1>1, <1>2, <1>3, <1>4 DEF OwnerCountAboveOne

\* What a request notes of its sender.
LEMMA OwnerOrNot ==
    ASSUME NEW a \in Members
    PROVE  \E o \in BOOLEAN : o = IsOwner(a)
<1>1. CASE IsOwner(a)
  BY <1>1 DEF IsOwner
<1>2. CASE ~IsOwner(a)
  <2>1. IsOwner(a) = FALSE
    BY <1>2 DEF IsOwner
  <2> QED
    BY <2>1
<1> QED
  BY <1>1, <1>2

\* update_member_roles before its transaction.
LEMMA UpdateRolesReadSound ==
    ASSUME AccountsInv, NEW r \in Requests, NEW a \in Members, NEW m \in Members,
           NEW rs \in SUBSET RoleCodes, UpdateRolesRead(r, a, m, rs)
    PROVE  AccountsInv'
<1>1. PICK row \in Request : row = req[r]
  BY DEF AccountsInv, AccountsTypeOK
<1>o. PICK o \in BOOLEAN : o = IsOwner(a)
  BY OwnerOrNot
<1> DEFINE q == [row EXCEPT !.pc = "read", !.op = "roles", !.m = m, !.owner = o, !.roles = rs]
<1>2. /\ q \in Request /\ q.op = "roles" /\ q.roles = rs /\ q.m = m /\ q.pc = "read"
      /\ q.owner = o
  BY DEF Request
<1>3. req' = [req EXCEPT ![r] = q]
  BY <1>1, <1>o DEF UpdateRolesRead
<1> HIDE DEF q
<1>4. req'[r] = q
  BY <1>3 DEF AccountsInv, AccountsTypeOK
<1>5. UNCHANGED <<member, role, mfa, codes, overlap, stripped>>
  BY DEF UpdateRolesRead, TeamUnchanged
<1>6. RolesKnow(r)'
  BY <1>2, <1>o, <1>4, <1>5, ChecksUntouched DEF UpdateRolesRead, RolesKnow, Resolves, OwnerTouched
<1>7. Knows(r)'
  BY <1>2, <1>4, <1>6 DEF Knows, InviteKnows, DisableKnows, DeleteRoleKnows, EnableKnows, CodesKnown
<1> QED
  BY <1>2, <1>3, <1>5, <1>7, ReadSound

\* The first statements of replace_member_roles.
LEMMA UpdateRolesWriteSound ==
    ASSUME AccountsInv, NEW r \in Requests, UpdateRolesWrite(r)
    PROVE  AccountsInv'
<1>1. PICK row \in Request : row = req[r]
  BY DEF AccountsInv, AccountsTypeOK
<1>s. PICK s \in SUBSET RoleCodes, rs \in SUBSET RoleCodes :
         s = member[req[r].m].roles /\ rs = {c \in row.roles : RoleLive(c)}
  BY <1>1 DEF AccountsInv, AccountsTypeOK, Request, MemberRow
<1> DEFINE q == [row EXCEPT !.pc = "written", !.seen = s, !.roles = rs]
<1>2. /\ q \in Request /\ q.op = row.op /\ q.roles = rs /\ q.m = row.m /\ q.pc = "written"
      /\ q.owner = row.owner /\ q.seen = s
  BY DEF Request
<1>3. req' = [req EXCEPT ![r] = q]
  BY <1>1, <1>s DEF UpdateRolesWrite
<1> HIDE DEF q
<1>4. req'[r] = q
  BY <1>3 DEF AccountsInv, AccountsTypeOK
<1>5. UNCHANGED <<member, role, mfa, codes, overlap, stripped>>
  BY DEF UpdateRolesWrite, TeamUnchanged
<1>6. ASSUME ~overlap PROVE Knows(r)'
  <2>1. RolesKnow(r) /\ row.op = "roles" /\ row.m \in Members
    BY <1>1, <1>6 DEF AccountsInv, RequestsKnow, Knows, UpdateRolesWrite, Request
  <2>2. rs = row.roles
    BY <1>1, <1>s, <2>1 DEF RolesKnow, Resolves
  <2>3. RolesKnow(r)'
    BY <1>1, <1>s, <1>2, <1>4, <1>5, <2>1, <2>2, ChecksUntouched DEF RolesKnow, Resolves
  <2> QED
    BY <1>2, <1>4, <2>1, <2>3 DEF Knows, InviteKnows, DisableKnows, DeleteRoleKnows, EnableKnows,
                                  CodesKnown
<1> QED
  BY <1>2, <1>3, <1>5, <1>6, ReadSound

\* The rows that replace_member_roles leaves are those it inserted, unless
\* requests overlap: the member has a role, and an owner goes only if there is
\* another one and an owner asked for it.
LEMMA UpdateRolesCommitSound ==
    ASSUME AccountsInv, NEW r \in Requests, UpdateRolesCommit(r)
    PROVE  AccountsInv'
<1>1. PICK m \in Members : m = req[r].m
  BY DEF AccountsInv, AccountsTypeOK, Request
<1>2. req[r] \in Request /\ member \in [Members -> MemberRow]
  BY DEF AccountsInv, AccountsTypeOK
<1>3. PICK rs \in SUBSET RoleCodes, left \in SUBSET RoleCodes :
         rs = req[r].roles /\ left = member[m].roles \ req[r].seen
  BY <1>1, <1>2 DEF Request, MemberRow
<1>4. UNCHANGED <<mfa, codes, role>>
  BY DEF UpdateRolesCommit, TeamUnchanged
<1>5. CASE left \cap rs = {}
  <2>1. PICK row \in MemberRow : row = member[m]
    BY <1>2
  <2>2. PICK new \in SUBSET RoleCodes : new = left \cup rs
    OBVIOUS
  <2> DEFINE q == [row EXCEPT !.roles = new]
  <2>3. q \in MemberRow /\ q.st = row.st /\ q.roles = new
    BY DEF MemberRow
  <2>4. member' = [member EXCEPT ![m] = q]
    BY <1>1, <1>3, <1>5, <2>1, <2>2 DEF UpdateRolesCommit
  <2> HIDE DEF q
  <2>5. member' \in [Members -> MemberRow] /\ member'[m] = q
        /\ \A n \in Members : n # m => member'[n] = member[n]
    BY <1>2, <2>3, <2>4
  <2>6. stripped' = (stripped \/ ("owner" \in row.roles \ new /\ ~req[r].owner))
    BY <1>1, <1>3, <1>5, <2>1, <2>3, <2>5 DEF UpdateRolesCommit
  <2>7. stripped' \in BOOLEAN
    BY <2>6 DEF AccountsInv, AccountsTypeOK
  <2>8. ASSUME ~overlap PROVE TeamRules'
    <3>1. /\ rs # {} /\ \A c \in rs : RoleLive(c)
          /\ OwnerTouched(RoleCodesOf(m), rs) => req[r].owner
          /\ "owner" \in RoleCodesOf(m) \ rs => OwnerCountAboveOne
          /\ new = rs
      <4>1. RolesKnow(r) /\ req[r].op = "roles" /\ req[r].pc = "written"
        BY <2>8 DEF AccountsInv, RequestsKnow, Knows, UpdateRolesCommit
      <4>2. left = {}
        BY <1>1, <1>3, <4>1 DEF RolesKnow
      <4> QED
        BY <1>1, <1>3, <2>2, <4>1, <4>2 DEF RolesKnow, Resolves
    <3>2. \A c : RoleLive(c)' <=> RoleLive(c)
      BY <1>4 DEF RoleLive
    <3>3. /\ RoleCodesOf(m)' = rs
          /\ \A n \in Members : n # m => RoleCodesOf(n)' = RoleCodesOf(n)
      BY <2>3, <2>5, <3>1, <3>2 DEF RoleCodesOf
    <3>4. ActiveOwners' # {}
      <4>1. CASE "owner" \in RoleCodesOf(m) \ rs
        <5>1. PICK o \in ActiveOwners : o # m
          BY <3>1, <4>1, AnotherOwner
        <5>2. o \in ActiveOwners'
          BY <2>5, <3>3, <5>1 DEF ActiveOwners, IsOwner
        <5> QED
          BY <5>2
      <4>2. CASE ~("owner" \in RoleCodesOf(m) \ rs)
        <5>1. ActiveOwners \subseteq ActiveOwners'
          BY <2>1, <2>3, <2>5, <3>3, <4>2 DEF ActiveOwners, IsOwner
        <5> QED
          BY <2>8, <5>1 DEF AccountsInv, TeamRules, OwnerKeptByTurns
      <4> QED
        BY <4>1, <4>2
    <3>5. ~stripped'
      <4>1. "owner" \in row.roles => "owner" \in RoleCodesOf(m)
        BY <2>1 DEF RoleCodesOf, RoleLive
      <4> QED
        BY <2>6, <2>8, <3>1, <4>1 DEF AccountsInv, TeamRules, OwnersTakenByOwners, OwnerTouched
    <3>6. \A n \in Members : member'[n].st \in {"invited", "active"} => RoleCodesOf(n)' # {}
      BY <2>5, <2>8, <3>1, <3>3 DEF AccountsInv, TeamRules, MembersKeepARole
    <3> QED
      BY <3>4, <3>5, <3>6 DEF TeamRules, OwnerKeptByTurns, OwnersTakenByOwners, MembersKeepARole
  <2> QED
    BY <1>4, <2>5, <2>7, <2>8, TeamCommitSound DEF UpdateRolesCommit, AccountsInv, AccountsTypeOK
<1>6. CASE left \cap rs # {}
  <2>1. UNCHANGED <<member, stripped>>
    BY <1>1, <1>3, <1>6 DEF UpdateRolesCommit
  <2>2. ~overlap => TeamRules'
    BY <1>4, <2>1 DEF AccountsInv, TeamRules, OwnerKeptByTurns, OwnersTakenByOwners, MembersKeepARole,
                      ActiveOwners, IsOwner, RoleCodesOf, RoleLive
  <2> QED
    BY <1>4, <2>1, <2>2, TeamCommitSound DEF UpdateRolesCommit, AccountsInv, AccountsTypeOK
<1> QED
  BY <1>5, <1>6

\* disable_member before its transaction.
LEMMA DisableReadSound ==
    ASSUME AccountsInv, NEW r \in Requests, NEW a \in Members, NEW m \in Members,
           DisableRead(r, a, m)
    PROVE  AccountsInv'
<1>1. PICK row \in Request : row = req[r]
  BY DEF AccountsInv, AccountsTypeOK
<1>o. PICK o \in BOOLEAN : o = IsOwner(a)
  BY OwnerOrNot
<1> DEFINE q == [row EXCEPT !.pc = "read", !.op = "disable", !.m = m, !.owner = o]
<1>2. q \in Request /\ q.op = "disable" /\ q.m = m /\ q.pc = "read" /\ q.owner = o
  BY DEF Request
<1>3. req' = [req EXCEPT ![r] = q]
  BY <1>1, <1>o DEF DisableRead
<1> HIDE DEF q
<1>4. req'[r] = q
  BY <1>3 DEF AccountsInv, AccountsTypeOK
<1>5. UNCHANGED <<member, role, mfa, codes, overlap, stripped>>
  BY DEF DisableRead, TeamUnchanged
<1>6. DisableKnows(r)'
  BY <1>2, <1>o, <1>4, <1>5, ChecksUntouched DEF DisableRead, DisableKnows
<1>7. Knows(r)'
  BY <1>2, <1>4, <1>6 DEF Knows, InviteKnows, RolesKnow, DeleteRoleKnows, EnableKnows, CodesKnown
<1> QED
  BY <1>2, <1>3, <1>5, <1>7, ReadSound

\* disable_member_in_transaction: an owner who goes leaves another one.
LEMMA DisableCommitSound ==
    ASSUME AccountsInv, NEW r \in Requests, DisableCommit(r)
    PROVE  AccountsInv'
<1>1. PICK m \in Members : m = req[r].m
  BY DEF AccountsInv, AccountsTypeOK, Request
<1>2. req[r] \in Request /\ member \in [Members -> MemberRow]
  BY DEF AccountsInv, AccountsTypeOK
<1>3. PICK row \in MemberRow : row = member[m]
  BY <1>2
<1> DEFINE q == [row EXCEPT !.st = "disabled"]
<1>4. q \in MemberRow /\ q.st = "disabled" /\ q.roles = row.roles
  BY DEF MemberRow
<1>5. member' = [member EXCEPT ![m] = q]
  BY <1>1, <1>3 DEF DisableCommit
<1> HIDE DEF q
<1>6. member' \in [Members -> MemberRow] /\ member'[m] = q
      /\ \A n \in Members : n # m => member'[n] = member[n]
  BY <1>2, <1>4, <1>5
<1>7. UNCHANGED <<mfa, codes, role>>
  BY DEF DisableCommit, TeamUnchanged
<1>8. stripped' = (stripped \/ (row.st = "active" /\ IsOwner(m) /\ ~req[r].owner))
  BY <1>1, <1>3 DEF DisableCommit
<1>9. stripped' \in BOOLEAN
  BY <1>8 DEF AccountsInv, AccountsTypeOK
<1>10. ASSUME ~overlap PROVE TeamRules'
  <2>1. /\ IsOwner(m) => req[r].owner
        /\ row.st = "active" /\ IsOwner(m) => OwnerCountAboveOne
    BY <1>1, <1>3, <1>10 DEF AccountsInv, RequestsKnow, Knows, DisableKnows, DisableCommit
  <2>2. \A n \in Members : RoleCodesOf(n)' = RoleCodesOf(n)
    BY <1>3, <1>4, <1>6, <1>7 DEF RoleCodesOf, RoleLive
  <2>3. ActiveOwners' # {}
    <3>1. CASE m \in ActiveOwners
      <4>1. PICK o \in ActiveOwners : o # m
        BY <1>3, <2>1, <3>1, AnotherOwner DEF ActiveOwners
      <4>2. o \in ActiveOwners'
        BY <1>6, <2>2, <4>1 DEF ActiveOwners, IsOwner
      <4> QED
        BY <4>2
    <3>2. CASE m \notin ActiveOwners
      <4>1. ActiveOwners \subseteq ActiveOwners'
        BY <1>6, <2>2, <3>2 DEF ActiveOwners, IsOwner
      <4> QED
        BY <1>10, <4>1 DEF AccountsInv, TeamRules, OwnerKeptByTurns
    <3> QED
      BY <3>1, <3>2
  <2>4. ~stripped'
    BY <1>8, <1>10, <2>1 DEF AccountsInv, TeamRules, OwnersTakenByOwners
  <2>5. \A n \in Members : member'[n].st \in {"invited", "active"} => RoleCodesOf(n)' # {}
    BY <1>4, <1>6, <1>10, <2>2 DEF AccountsInv, TeamRules, MembersKeepARole
  <2> QED
    BY <2>3, <2>4, <2>5 DEF TeamRules, OwnerKeptByTurns, OwnersTakenByOwners, MembersKeepARole
<1> QED
  BY <1>6, <1>7, <1>9, <1>10, TeamCommitSound DEF DisableCommit, AccountsInv, AccountsTypeOK

\* A role that appears or changes takes none away.
LEMMA SaveRoleSound ==
    ASSUME AccountsInv, NEW r \in Requests, NEW a \in Members, NEW b \in BOOLEAN, SaveRole(r, a, b)
    PROVE  AccountsInv'
<1>1. role' \in RoleRow /\ role'.st = "live" /\ UNCHANGED <<member, stripped, mfa, codes>>
  BY DEF SaveRole, RoleRow, TeamUnchanged
<1>2. \A n \in Members : RoleCodesOf(n) \subseteq RoleCodesOf(n)'
  BY <1>1 DEF RoleCodesOf, RoleLive
<1>3. ASSUME ~overlap PROVE TeamRules'
  <2>1. ActiveOwners \subseteq ActiveOwners'
    BY <1>1, <1>2 DEF ActiveOwners, IsOwner
  <2> QED
    BY <1>1, <1>2, <1>3, <2>1 DEF AccountsInv, TeamRules, OwnerKeptByTurns, OwnersTakenByOwners,
                                  MembersKeepARole
<1> QED
  BY <1>1, <1>3, TeamCommitSound DEF SaveRole, AccountsInv, AccountsTypeOK

\* delete_role up to ensure_role_unassigned.
LEMMA DeleteRoleLockSound ==
    ASSUME AccountsInv, NEW r \in Requests, NEW a \in Members, DeleteRoleLock(r, a)
    PROVE  AccountsInv'
<1>1. PICK row \in Request : row = req[r]
  BY DEF AccountsInv, AccountsTypeOK
<1> DEFINE q == [row EXCEPT !.pc = "written", !.op = "delete_role"]
<1>2. q \in Request /\ q.op = "delete_role"
  BY DEF Request
<1>3. req' = [req EXCEPT ![r] = q]
  BY <1>1 DEF DeleteRoleLock
<1> HIDE DEF q
<1>4. req'[r] = q
  BY <1>3 DEF AccountsInv, AccountsTypeOK
<1>5. UNCHANGED <<member, role, mfa, codes, overlap, stripped>>
  BY DEF DeleteRoleLock, TeamUnchanged
<1>6. Knows(r)'
  BY <1>2, <1>4, <1>5 DEF DeleteRoleLock, Knows, InviteKnows, RolesKnow, DisableKnows, DeleteRoleKnows,
                          EnableKnows, CodesKnown, RoleUnassigned
<1> QED
  BY <1>2, <1>3, <1>5, <1>6, ReadSound

\* soft_delete_role: nobody has it, unless requests overlap.
LEMMA DeleteRoleCommitSound ==
    ASSUME AccountsInv, NEW r \in Requests, DeleteRoleCommit(r)
    PROVE  AccountsInv'
<1>1. role' \in RoleRow /\ UNCHANGED <<member, stripped, mfa, codes>>
  BY DEF DeleteRoleCommit, RoleRow, TeamUnchanged, AccountsInv, AccountsTypeOK
<1>2. ASSUME ~overlap PROVE TeamRules'
  <2>1. RoleUnassigned
    BY <1>2 DEF AccountsInv, RequestsKnow, Knows, DeleteRoleKnows, DeleteRoleCommit
  <2>2. \A n \in Members : RoleCodesOf(n) \subseteq RoleCodesOf(n)'
    BY <1>1, <2>1 DEF RoleCodesOf, RoleLive, RoleUnassigned
  <2>3. ActiveOwners \subseteq ActiveOwners'
    BY <1>1, <2>2 DEF ActiveOwners, IsOwner
  <2> QED
    BY <1>1, <1>2, <2>2, <2>3 DEF AccountsInv, TeamRules, OwnerKeptByTurns, OwnersTakenByOwners,
                                  MembersKeepARole
<1> QED
  BY <1>1, <1>2, TeamCommitSound DEF DeleteRoleCommit, AccountsInv, AccountsTypeOK

\* Every step of a request of the team keeps the invariant.
LEMMA TeamStepSound ==
    ASSUME AccountsInv, NEW r \in Requests, TeamStep(r)
    PROVE  AccountsInv'
<1>1. ASSUME NEW a \in Members, NEW m \in Members, NEW c \in RoleCodes, InviteRead(r, a, m, {c})
      PROVE  AccountsInv'
  BY <1>1, InviteReadSound
<1>2. ASSUME NEW a \in Members, NEW m \in Members, NEW c \in RoleCodes, UpdateRolesRead(r, a, m, {c})
      PROVE  AccountsInv'
  BY <1>2, UpdateRolesReadSound
<1>3. ASSUME NEW a \in Members, NEW m \in Members, DisableRead(r, a, m)
      PROVE  AccountsInv'
  BY <1>3, DisableReadSound
<1>4. ASSUME NEW a \in Members, NEW b \in BOOLEAN, SaveRole(r, a, b)
      PROVE  AccountsInv'
  BY <1>4, SaveRoleSound
<1>5. ASSUME NEW a \in Members, DeleteRoleLock(r, a)
      PROVE  AccountsInv'
  BY <1>5, DeleteRoleLockSound
<1>6. ASSUME NEW m \in Members, AcceptInvitation(r, m)
      PROVE  AccountsInv'
  BY <1>6, AcceptInvitationSound
<1> QED
  BY <1>1, <1>2, <1>3, <1>4, <1>5, <1>6, InviteCommitSound, UpdateRolesWriteSound,
     UpdateRolesCommitSound, DisableCommitSound, DeleteRoleCommitSound DEF TeamStep

-----------------------------------------------------------------------------
(* The second factor. *)

\* consume_recovery_code_in_transaction: the code was live and is used once.
LEMMA CodeConsumedSound ==
    ASSUME AccountsInv, NEW c \in Sets, codes[c].st = "live", CodeConsumed(c)
    PROVE  codes' \in [Sets -> CodeRow] /\ LiveIsUnused' /\ LiveCodes' \subseteq LiveCodes
<1>1. codes \in [Sets -> CodeRow] /\ codes[c].uses = 0
  BY DEF AccountsInv, AccountsTypeOK, MfaRules, LiveIsUnused
<1>2. codes' = [codes EXCEPT ![c] = [st |-> "used", uses |-> 1]]
  BY <1>1 DEF CodeConsumed
<1>3. codes' \in [Sets -> CodeRow]
  BY <1>1, <1>2 DEF CodeRow
<1> QED
  BY <1>1, <1>2, <1>3 DEF AccountsInv, MfaRules, LiveIsUnused, LiveCodes

\* revoke_recovery_codes_in_transaction: what was found is over, the rest is as
\* it was.
LEMMA CodesRevokedSound ==
    ASSUME AccountsInv, NEW seen, codes' = CodesRevoked(seen)
    PROVE  /\ codes' \in [Sets -> CodeRow] /\ LiveIsUnused'
           /\ LiveCodes' = LiveCodes \ seen
<1>1. codes \in [Sets -> CodeRow]
  BY DEF AccountsInv, AccountsTypeOK
<1>2. \A c \in Sets : [codes[c] EXCEPT !.st = "revoked"] \in CodeRow
                      /\ [codes[c] EXCEPT !.st = "revoked"].st = "revoked"
                      /\ [codes[c] EXCEPT !.st = "revoked"].uses = codes[c].uses
  BY <1>1 DEF CodeRow
<1>3. codes' \in [Sets -> CodeRow]
  BY <1>1, <1>2 DEF CodesRevoked
<1> QED
  BY <1>1, <1>2, <1>3 DEF AccountsInv, MfaRules, LiveIsUnused, LiveCodes, CodesRevoked

\* replace_recovery_codes_in_transaction: the same, and a new set.
LEMMA CodesReplacedSound ==
    ASSUME AccountsInv, NEW r \in Requests, NEW seen, codes' = CodesReplaced(r, seen)
    PROVE  /\ codes' \in [Sets -> CodeRow] /\ LiveIsUnused'
           /\ LiveCodes' \subseteq (LiveCodes \ seen) \cup {r}
<1>1. codes \in [Sets -> CodeRow] /\ r \in Sets
  BY DEF AccountsInv, AccountsTypeOK, Sets
<1>2. \A c \in Sets : [codes[c] EXCEPT !.st = "revoked"] \in CodeRow
                      /\ [codes[c] EXCEPT !.st = "revoked"].st = "revoked"
                      /\ [codes[c] EXCEPT !.st = "revoked"].uses = codes[c].uses
  BY <1>1 DEF CodeRow
<1>3. [st |-> "live", uses |-> 0] \in CodeRow
  BY DEF CodeRow
<1>4. codes' \in [Sets -> CodeRow]
  BY <1>1, <1>2, <1>3 DEF CodesReplaced
<1> QED
  BY <1>1, <1>2, <1>3, <1>4 DEF AccountsInv, MfaRules, LiveIsUnused, LiveCodes, CodesReplaced

\* What the handlers read before their transactions.
LEMMA MfaReadSound ==
    ASSUME AccountsInv, NEW r \in Requests,
           NEW op \in {"setup", "enable", "disable_mfa", "regenerate"}, MfaRead(r, op)
    PROVE  AccountsInv'
<1>1. PICK row \in Request : row = req[r]
  BY DEF AccountsInv, AccountsTypeOK
<1>s. PICK s \in Sets \cup {None} : s = mfa.secret
  BY DEF AccountsInv, AccountsTypeOK, MfaRow
<1> DEFINE q == [row EXCEPT !.pc = "read", !.op = op, !.secret = s]
<1>2. q \in Request /\ q.op = op /\ q.pc = "read" /\ q.secret = s
  BY DEF Request
<1>3. req' = [req EXCEPT ![r] = q]
  BY <1>1, <1>s DEF MfaRead
<1> HIDE DEF q
<1>4. req'[r] = q
  BY <1>3 DEF AccountsInv, AccountsTypeOK
<1>5. UNCHANGED <<member, role, mfa, codes, overlap, stripped>>
  BY DEF MfaRead, MfaUnchanged
<1>6. Knows(r)'
  BY <1>s, <1>2, <1>4, <1>5 DEF MfaRead, Knows, InviteKnows, RolesKnow, DisableKnows, DeleteRoleKnows,
                               EnableKnows, CodesKnown
<1> QED
  BY <1>2, <1>3, <1>5, <1>6, ReadSound

\* setup: the factor is off until its secret is verified, and all codes but the
\* new ones are over.
LEMMA SetupCommitSound ==
    ASSUME AccountsInv, NEW r \in Requests, SetupCommit(r)
    PROVE  AccountsInv'
<1>1. mfa' \in MfaRow /\ ~mfa'.enabled
  BY DEF AccountsInv, AccountsTypeOK, SetupCommit, MfaRow, Sets
<1>2. /\ codes' \in [Sets -> CodeRow] /\ LiveIsUnused'
      /\ LiveCodes' \subseteq (LiveCodes \ LiveCodes) \cup {r}
  BY CodesReplacedSound DEF SetupCommit
<1>3. MfaConfigured' /\ OneLiveSet'
  BY <1>1, <1>2 DEF MfaConfigured, OneLiveSet
<1> QED
  BY <1>1, <1>2, <1>3, MfaCommitSound DEF SetupCommit, MfaUnchanged

\* enable: by turns the secret it has verified is the one that is stored.
LEMMA EnableCommitSound ==
    ASSUME AccountsInv, NEW r \in Requests, EnableCommit(r)
    PROVE  AccountsInv'
<1>1. PICK row \in MfaRow : row = mfa
  BY DEF AccountsInv, AccountsTypeOK
<1>2. PICK s \in Sets \cup {None} : s = req[r].secret
  BY DEF AccountsInv, AccountsTypeOK, Request
<1> DEFINE q == [row EXCEPT !.enabled = TRUE, !.checked = s]
<1>3. q \in MfaRow /\ q.secret = row.secret /\ q.checked = s
  BY DEF MfaRow
<1>4. mfa' = q
  BY <1>1, <1>2 DEF EnableCommit
<1> HIDE DEF q
<1>5. codes' \in [Sets -> CodeRow] /\ LiveIsUnused'
  BY DEF EnableCommit, AccountsInv, AccountsTypeOK, MfaRules, LiveIsUnused
<1>6. ASSUME ~overlap PROVE MfaConfigured' /\ OneLiveSet'
  <2>1. s # None /\ row.secret = s
    BY <1>1, <1>2, <1>6 DEF AccountsInv, RequestsKnow, Knows, EnableKnows, EnableCommit
  <2> QED
    BY <1>3, <1>4, <1>6, <2>1 DEF EnableCommit, AccountsInv, MfaRules, MfaConfigured, OneLiveSet, LiveCodes
<1> QED
  BY <1>3, <1>4, <1>5, <1>6, MfaCommitSound DEF EnableCommit, MfaUnchanged

\* A login with a recovery code.
LEMMA LoginCodeSound ==
    ASSUME AccountsInv, NEW r \in Requests, NEW c \in Sets, LoginCode(r, c)
    PROVE  AccountsInv'
<1>1. codes' \in [Sets -> CodeRow] /\ LiveIsUnused' /\ LiveCodes' \subseteq LiveCodes
  BY CodeConsumedSound DEF LoginCode
<1>2. ~overlap => MfaConfigured' /\ OneLiveSet'
  BY <1>1 DEF LoginCode, AccountsInv, MfaRules, MfaConfigured, OneLiveSet
<1> QED
  BY <1>1, <1>2, MfaCommitSound DEF LoginCode, MfaUnchanged, AccountsInv, AccountsTypeOK

\* verify_mfa_code_in_transaction: a code that is consumed was one of those the
\* transaction goes on to revoke.
LEMMA VerifySound ==
    ASSUME AccountsInv, NEW r \in Requests, VerifyInTransaction(r)
    PROVE  AccountsInv'
<1>1. PICK row \in Request : row = req[r]
  BY DEF AccountsInv, AccountsTypeOK
<1>s. PICK s \in SUBSET Sets : s = LiveCodes
  BY DEF LiveCodes
<1> DEFINE q == [row EXCEPT !.pc = "written", !.seen = s]
<1>2. q \in Request /\ q.op = row.op /\ q.pc = "written" /\ q.seen = s
  BY DEF Request
<1>3. req' = [req EXCEPT ![r] = q]
  BY <1>1, <1>s DEF VerifyInTransaction
<1> HIDE DEF q
<1>4. req' \in [Requests -> Request] /\ req'[r] = q
      /\ \A t \in Requests : t # r => req'[t] = req[t]
  BY <1>2, <1>3 DEF AccountsInv, AccountsTypeOK
<1>5. UNCHANGED <<member, role, mfa, overlap, stripped>>
  BY DEF VerifyInTransaction, MfaUnchanged
<1>6. codes' \in [Sets -> CodeRow] /\ LiveIsUnused' /\ LiveCodes' \subseteq LiveCodes
  <2>1. CASE UNCHANGED codes
    BY <2>1 DEF AccountsInv, AccountsTypeOK, MfaRules, LiveIsUnused, LiveCodes
  <2>2. ASSUME NEW c \in LiveCodes, CodeConsumed(c)
        PROVE  codes' \in [Sets -> CodeRow] /\ LiveIsUnused' /\ LiveCodes' \subseteq LiveCodes
    BY <2>2, CodeConsumedSound DEF LiveCodes
  <2> QED
    BY <2>1, <2>2 DEF VerifyInTransaction
<1>7. AccountsTypeOK'
  BY <1>4, <1>5, <1>6 DEF AccountsInv, AccountsTypeOK
<1>8. TeamRules'
  BY <1>5, TeamUntouched DEF AccountsInv
<1>9. MfaRules'
  BY <1>5, <1>6 DEF AccountsInv, MfaRules, MfaConfigured, OneLiveSet
<1>10. ASSUME ~overlap', NEW t \in Requests, req'[t].pc \in {"read", "written"}
       PROVE  Knows(t)'
  <2>1. CASE t = r
    BY <1>1, <1>s, <1>2, <1>4, <1>6, <2>1 DEF VerifyInTransaction, Knows, InviteKnows, RolesKnow,
          DisableKnows, DeleteRoleKnows, EnableKnows, CodesKnown
  <2>2. CASE t # r
    <3>1. Knows(t) /\ req'[t] = req[t] /\ req[t] \in Request
      BY <1>4, <1>5, <1>10, <2>2 DEF AccountsInv, AccountsTypeOK, RequestsKnow
    <3>2. CodesKnown(t)' /\ EnableKnows(t)'
      BY <1>5, <1>6, <3>1 DEF Knows, CodesKnown, EnableKnows
    <3>3. InviteKnows(t)' /\ RolesKnow(t)' /\ DisableKnows(t)' /\ DeleteRoleKnows(t)'
      BY <1>5, <3>1, ChecksUntouched DEF Knows, InviteKnows, RolesKnow, DisableKnows, DeleteRoleKnows,
                                         Resolves, OwnerTouched, Request
    <3> QED
      BY <3>2, <3>3 DEF Knows
  <2> QED
    BY <2>1, <2>2
<1>11. RequestsKnow'
  BY <1>10 DEF RequestsKnow
<1> QED
  BY <1>7, <1>8, <1>9, <1>11 DEF AccountsInv

\* disable_member_mfa_in_transaction clears flag and secret.
LEMMA MfaClearedRow ==
    ASSUME AccountsInv
    PROVE  MfaCleared \in MfaRow /\ ~MfaCleared.enabled
BY DEF AccountsInv, AccountsTypeOK, MfaCleared, MfaRow

LEMMA DisableMfaCommitSound ==
    ASSUME AccountsInv, NEW r \in Requests, DisableMfaCommit(r)
    PROVE  AccountsInv'
<1>1. mfa' \in MfaRow /\ ~mfa'.enabled
  BY MfaClearedRow DEF DisableMfaCommit
<1>2. PICK seen : seen = req[r].seen
  OBVIOUS
<1>3. codes' \in [Sets -> CodeRow] /\ LiveIsUnused' /\ LiveCodes' = LiveCodes \ seen
  BY <1>2, CodesRevokedSound DEF DisableMfaCommit
<1>4. ~overlap => MfaConfigured' /\ OneLiveSet'
  BY <1>1, <1>3 DEF AccountsInv, MfaRules, MfaConfigured, OneLiveSet
<1> QED
  BY <1>1, <1>3, <1>4, MfaCommitSound DEF DisableMfaCommit, MfaUnchanged

LEMMA RegenerateCommitSound ==
    ASSUME AccountsInv, NEW r \in Requests, RegenerateCommit(r)
    PROVE  AccountsInv'
<1>1. PICK seen : seen = req[r].seen
  OBVIOUS
<1>2. /\ codes' \in [Sets -> CodeRow] /\ LiveIsUnused'
      /\ LiveCodes' \subseteq (LiveCodes \ seen) \cup {r}
  BY <1>1, CodesReplacedSound DEF RegenerateCommit
<1>3. ASSUME ~overlap PROVE MfaConfigured' /\ OneLiveSet'
  <2>1. LiveCodes \subseteq seen
    BY <1>1, <1>3 DEF RegenerateCommit, AccountsInv, RequestsKnow, Knows, CodesKnown
  <2> QED
    BY <1>2, <1>3, <2>1 DEF RegenerateCommit, AccountsInv, MfaRules, MfaConfigured, OneLiveSet
<1> QED
  BY <1>2, <1>3, MfaCommitSound DEF RegenerateCommit, MfaUnchanged, AccountsInv, AccountsTypeOK

LEMMA CliDisableMfaSound ==
    ASSUME AccountsInv, NEW r \in Requests, CliDisableMfa(r)
    PROVE  AccountsInv'
<1>1. mfa' \in MfaRow /\ ~mfa'.enabled
  BY MfaClearedRow DEF CliDisableMfa
<1>2. codes' \in [Sets -> CodeRow] /\ LiveIsUnused'
  BY DEF CliDisableMfa, AccountsInv, AccountsTypeOK, MfaRules, LiveIsUnused
<1>3. ~overlap => MfaConfigured' /\ OneLiveSet'
  BY <1>1 DEF CliDisableMfa, AccountsInv, MfaRules, MfaConfigured, OneLiveSet, LiveCodes
<1> QED
  BY <1>1, <1>2, <1>3, MfaCommitSound DEF CliDisableMfa, MfaUnchanged

\* Every step of a request about the second factor keeps the invariant.
LEMMA MfaStepSound ==
    ASSUME AccountsInv, NEW r \in Requests, MfaStep(r)
    PROVE  AccountsInv'
<1>1. ASSUME NEW op \in {"setup", "enable", "disable_mfa", "regenerate"}, MfaRead(r, op)
      PROVE  AccountsInv'
  BY <1>1, MfaReadSound
<1>2. ASSUME NEW c \in Sets, LoginCode(r, c)
      PROVE  AccountsInv'
  BY <1>2, LoginCodeSound
<1> QED
  BY <1>1, <1>2, SetupCommitSound, EnableCommitSound, VerifySound, DisableMfaCommitSound,
     RegenerateCommitSound, CliDisableMfaSound DEF MfaStep

\* Nothing of it depends on other tables.
LEMMA AccountsStutter ==
    ASSUME AccountsInv, UNCHANGED accountVars
    PROVE  AccountsInv'
<1>1. UNCHANGED <<member, role, mfa, codes, req, overlap, stripped>>
  BY DEF accountVars
<1>2. TeamRules'
  BY <1>1, TeamUntouched DEF AccountsInv
<1>3. MfaRules'
  BY <1>1, MfaUntouched DEF AccountsInv
<1>4. ASSUME ~overlap', NEW r \in Requests, req'[r].pc \in {"read", "written"}
      PROVE  Knows(r)'
  BY <1>1, <1>4, KnowledgeUntouched DEF AccountsInv, RequestsKnow
<1>5. RequestsKnow'
  BY <1>4 DEF RequestsKnow
<1> QED
  BY <1>1, <1>2, <1>3, <1>5 DEF AccountsInv, AccountsTypeOK

\* The invariant has the properties that the runs check.
LEMMA AccountsKept ==
    ASSUME AccountsInv
    PROVE  TeamKept /\ MfaKept
<1>1. OneSetOfCodes
  <2>1. SUFFICES ASSUME ~overlap PROVE Cardinality(LiveCodes) <= 1
    BY DEF OneSetOfCodes
  <2>2. CASE LiveCodes = {}
    BY <2>2, FS_EmptySet
  <2>3. CASE LiveCodes # {}
    <3>1. PICK c : LiveCodes = {c}
      BY <2>1, <2>3 DEF AccountsInv, MfaRules, OneLiveSet
    <3> QED
      BY <3>1, FS_Singleton
  <2> QED
    BY <2>2, <2>3
<1> QED
  BY <1>1 DEF AccountsInv, TeamRules, MfaRules, LiveIsUnused, TeamKept, MfaKept, RecoveryCodeUsedOnce

\* Of the statements that write a status, the invitation's waits for one that
\* is invited and the insert for none at all.
LEMMA DisabledStays ==
    ASSUME AccountsInv, NEW r \in Requests, TeamStep(r), NEW d \in Members, member[d].st = "disabled"
    PROVE  member'[d].st = "disabled"
<1>1. member \in [Members -> MemberRow] /\ req[r].m \in Members
  BY DEF AccountsInv, AccountsTypeOK, Request
<1>2. CASE InviteCommit(r)
  BY <1>1, <1>2 DEF InviteCommit
<1>3. CASE UpdateRolesCommit(r)
  <2>1. PICK row \in MemberRow : row = member[req[r].m]
    BY <1>1
  <2>2. CASE UNCHANGED member
    BY <2>2
  <2>3. CASE ~UNCHANGED member
    <3>1. PICK new : member' = [member EXCEPT ![req[r].m].roles = new]
      BY <1>3, <2>3 DEF UpdateRolesCommit
    <3> DEFINE q == [row EXCEPT !.roles = new]
    <3>2. q.st = row.st
      BY DEF MemberRow
    <3>3. member' = [member EXCEPT ![req[r].m] = q]
      BY <2>1, <3>1
    <3> HIDE DEF q
    <3> QED
      BY <1>1, <2>1, <3>2, <3>3
  <2> QED
    BY <2>2, <2>3
<1>4. CASE DisableCommit(r)
  <2>1. PICK row \in MemberRow : row = member[req[r].m]
    BY <1>1
  <2>2. [row EXCEPT !.st = "disabled"].st = "disabled"
    BY DEF MemberRow
  <2> QED
    BY <1>1, <1>4, <2>1, <2>2 DEF DisableCommit
<1>5. ASSUME NEW m \in Members, AcceptInvitation(r, m)
      PROVE  member'[d].st = "disabled"
  BY <1>1, <1>5 DEF AcceptInvitation, ActivateInvited
<1>6. CASE UNCHANGED member
  BY <1>6
<1> QED
  BY <1>2, <1>3, <1>4, <1>5, <1>6 DEF TeamStep, InviteRead, UpdateRolesRead, DisableRead, SaveRole,
     DeleteRoleLock, UpdateRolesWrite, DeleteRoleCommit

-----------------------------------------------------------------------------
(* Proofs: API keys. *)

\* The states in which a call has nothing to do with a key.
LEMMA EditOver ==
    ASSUME NEW pc \in {"idle", "done"}, NoKey \in KeyRow
    PROVE  [pc |-> pc, id |-> {}, payload |-> NoPayload, before |-> NoKey] \in KeyEditRow
<1>1. NoPayload \in (UNION {KeyPayload(k) : k \in KeyIds}) \cup {NoPayload}
  OBVIOUS
<1> QED
  BY <1>1 DEF KeyEditRow

LEMMA KeysInitSound ==
    ASSUME ApiKeysInit
    PROVE  KeysInv
<1>1. Never \in ExpiresAt /\ 1 \in 1 .. MaxKeyClock
  BY ApiKeysAssumption DEF Never, ExpiresAt
<1>2. NoKey \in KeyRow /\ ~NoKey.exists
  BY <1>1 DEF NoKey, KeyRow
<1>3. KeyRowsSound
  BY <1>2 DEF ApiKeysInit, KeyRowsSound, KeyEditsKept, TrailEndsWithRow
<1>4. KeyEditsSound
  <2>1. \A e \in KeyEdits : keyEdit[e].pc = "idle" /\ keyEdit[e].id = {}
    BY DEF ApiKeysInit
  <2>2. keyEdit \in [KeyEdits -> KeyEditRow]
    BY <1>2, EditOver DEF ApiKeysInit
  <2> QED
    BY <2>1, <2>2 DEF KeyEditsSound, EditsKnow, EditsApart
<1>5. KeyCallsSound
  BY <1>1 DEF ApiKeysInit, KeyCallsSound, KeyCallRow, LostStaysLost
<1> QED
  BY <1>3, <1>4, <1>5 DEF KeysInv

\* The invariant has the property that the run checks.
LEMMA KeysKeptByInvariant ==
    ASSUME KeysInv
    PROVE  ApiKeysKept
<1>1. ApiKeysTypeOK
  BY DEF KeysInv, KeyRowsSound, KeyEditsSound, KeyCallsSound, ApiKeysTypeOK, KeyEditRow, KeyCallRow, KeyEntry
<1>2. LostAccessEnds
  BY DEF KeysInv, KeyCallsSound, LostStaysLost, LostAccessEnds
<1> QED
  BY <1>1, <1>2 DEF KeysInv, KeyRowsSound, ApiKeysKept

\* What an administrator may ask for.
LEMMA PayloadFields ==
    ASSUME NEW k \in KeyIds, NEW p \in KeyPayload(k)
    PROVE  p.op \in {"limit", "expires", "revoke"} /\ p.limit \in 0 .. 2 /\ p.expires \in ExpiresAt
BY ApiKeysAssumption DEF KeyPayload, Limits, Never, ExpiresAt

\* update_ai_api_key and revoke_ai_api_key on the row that was read: what is
\* written is what was asked for, and a revoked key stays revoked.
LEMMA AskedSound ==
    ASSUME NEW row \in KeyRow, NEW p, p.op \in {"limit", "expires", "revoke"}, p.limit \in 0 .. 2,
           p.expires \in ExpiresAt
    PROVE  /\ Asked(p, row) \in KeyRow /\ Asked(p, row).exists = row.exists
           /\ row.status = "revoked" => Asked(p, row).status = "revoked"
           /\ WrittenKey(p, row, row) = Asked(p, row)
<1>1. CASE p.op = "limit"
  BY <1>1 DEF KeyRow, Asked, WrittenKey
<1>2. CASE p.op = "expires"
  BY <1>2 DEF KeyRow, Asked, WrittenKey
<1>3. CASE p.op = "revoke"
  BY <1>3 DEF KeyRow, Asked, WrittenKey
<1> QED
  BY <1>1, <1>2, <1>3

-----------------------------------------------------------------------------
(* What each part of the invariant depends on. *)

LEMMA KeyRowsUntouched ==
    ASSUME KeyRowsSound, UNCHANGED <<apiKey, keySaid, keyTrail>>
    PROVE  KeyRowsSound'
BY DEF KeyRowsSound, KeyEditsKept, TrailEndsWithRow

LEMMA KeyEditsUntouched ==
    ASSUME KeyEditsSound, UNCHANGED <<apiKey, keyEdit>>
    PROVE  KeyEditsSound'
BY DEF KeyEditsSound, EditsKnow, EditsApart

LEMMA KeyCallsUntouched ==
    ASSUME KeyCallsSound, UNCHANGED <<apiKey, active, keyCall, keyClock>>
    PROVE  KeyCallsSound'
BY DEF KeyCallsSound, LostStaysLost, AccessLost

LEMMA NoKeyTyped == NoKey \in KeyRow /\ ~NoKey.exists
BY ApiKeysAssumption DEF NoKey, KeyRow, Never, ExpiresAt

\* An edit that ends with its key as it is.
LEMMA EditEnds ==
    ASSUME KeyEditsSound, NEW e \in KeyEdits, UNCHANGED apiKey,
           keyEdit' = [keyEdit EXCEPT ![e] = [pc |-> "done", id |-> {}, payload |-> NoPayload, before |-> NoKey]]
    PROVE  KeyEditsSound'
<1> DEFINE q == [pc |-> "done", id |-> {}, payload |-> NoPayload, before |-> NoKey]
<1>1. q \in KeyEditRow /\ q.pc = "done" /\ q.id = {}
  BY EditOver, NoKeyTyped
<1> HIDE DEF q
<1>2. keyEdit' \in [KeyEdits -> KeyEditRow] /\ keyEdit'[e] = q
      /\ \A f \in KeyEdits : f # e => keyEdit'[f] = keyEdit[f]
  BY <1>1 DEF KeyEditsSound, q
<1> QED
  BY <1>1, <1>2 DEF KeyEditsSound, EditsKnow, EditsApart

\* The id of a new key is nobody else's.
LEMMA CreateKeyCheckSound ==
    ASSUME KeysInv, NEW e \in KeyEdits, NEW k \in KeyIds, CreateKeyCheck(e, k)
    PROVE  KeysInv'
<1>1. PICK row \in KeyEditRow : row = keyEdit[e]
  BY DEF KeysInv, KeyEditsSound
<1>2. PICK ids \in SUBSET KeyIds : ids = {k}
  OBVIOUS
<1> DEFINE q == [row EXCEPT !.pc = "checked", !.id = ids]
<1>3. q \in KeyEditRow /\ q.pc = "checked" /\ q.id = {k}
  BY <1>2 DEF KeyEditRow
<1>4. keyEdit' = [keyEdit EXCEPT ![e] = q]
  BY <1>1, <1>2 DEF CreateKeyCheck
<1> HIDE DEF q
<1>5. keyEdit' \in [KeyEdits -> KeyEditRow] /\ keyEdit'[e] = q
      /\ \A f \in KeyEdits : f # e => keyEdit'[f] = keyEdit[f]
  BY <1>3, <1>4 DEF KeysInv, KeyEditsSound
<1>6. EditsKnow'
  BY <1>3, <1>5 DEF KeysInv, KeyEditsSound, EditsKnow, CreateKeyCheck
<1>7. EditsApart'
  BY <1>3, <1>5 DEF KeysInv, KeyEditsSound, EditsApart, CreateKeyCheck
<1> QED
  BY <1>5, <1>6, <1>7, KeyRowsUntouched, KeyCallsUntouched DEF KeysInv, KeyEditsSound, CreateKeyCheck

\* The lock that find_api_key_for_update takes is nobody else's.
LEMMA EditKeyLockSound ==
    ASSUME KeysInv, NEW e \in KeyEdits, NEW k \in KeyIds, NEW p \in KeyPayload(k), EditKeyLock(e, k, p)
    PROVE  KeysInv'
<1>1. UNCHANGED <<apiKey, active, keyCall, keyClock, keySaid, keyTrail>>
  BY DEF EditKeyLock
<1>2. CASE p.op = "revoke" /\ apiKey[k].status = "revoked"
  <2>1. KeyEditsSound'
    BY <1>1, <1>2, EditEnds DEF KeysInv, EditKeyLock
  <2> QED
    BY <1>1, <2>1, KeyRowsUntouched, KeyCallsUntouched DEF KeysInv
<1>3. CASE ~(p.op = "revoke" /\ apiKey[k].status = "revoked")
  <2> DEFINE q == [pc |-> "locked", id |-> {k}, payload |-> p, before |-> apiKey[k]]
  <2>1. q \in KeyEditRow
    <3>1. p \in (UNION {KeyPayload(j) : j \in KeyIds}) \cup {NoPayload}
      OBVIOUS
    <3>2. apiKey[k] \in KeyRow
      BY DEF KeysInv, KeyRowsSound
    <3> QED
      BY <3>1, <3>2 DEF KeyEditRow
  <2>2. q.pc = "locked" /\ q.id = {k} /\ q.payload = p /\ q.before = apiKey[k]
    OBVIOUS
  <2>3. keyEdit' = [keyEdit EXCEPT ![e] = q]
    BY <1>3 DEF EditKeyLock
  <2> HIDE DEF q
  <2>4. keyEdit' \in [KeyEdits -> KeyEditRow] /\ keyEdit'[e] = q
        /\ \A f \in KeyEdits : f # e => keyEdit'[f] = keyEdit[f]
    BY <2>1, <2>3 DEF KeysInv, KeyEditsSound
  <2>5. EditsKnow'
    <3>1. \A f \in KeyEdits : f # e =>
             /\ keyEdit'[f].pc \in {"idle", "done"} => keyEdit'[f].id = {}
             /\ keyEdit'[f].pc = "checked" => \E j \in KeyIds : keyEdit'[f].id = {j} /\ ~apiKey'[j].exists
             /\ keyEdit'[f].pc = "locked" =>
                   /\ \E j \in KeyIds :
                         keyEdit'[f].id = {j} /\ apiKey'[j].exists /\ keyEdit'[f].before = apiKey'[j]
                   /\ keyEdit'[f].payload.op \in {"limit", "expires", "revoke"}
      BY <1>1, <2>4 DEF KeysInv, KeyEditsSound, EditsKnow
    <3>2. p.op \in {"limit", "expires", "revoke"}
      BY PayloadFields
    <3>3. keyEdit'[e].id = {k} /\ apiKey'[k].exists /\ keyEdit'[e].before = apiKey'[k]
          /\ keyEdit'[e].pc = "locked" /\ keyEdit'[e].payload.op \in {"limit", "expires", "revoke"}
      BY <1>1, <2>2, <2>4, <3>2 DEF EditKeyLock
    <3> QED
      BY <3>1, <3>3 DEF EditsKnow
  <2>6. \A f \in KeyEdits : k \notin keyEdit[f].id
    BY DEF KeysInv, KeyEditsSound, KeyEditRow, EditsKnow, EditKeyLock, KeyFree
  <2>7. EditsApart'
    BY <2>2, <2>4, <2>6 DEF KeysInv, KeyEditsSound, EditsApart
  <2>8. KeyEditsSound'
    BY <2>4, <2>5, <2>7 DEF KeyEditsSound
  <2> QED
    BY <1>1, <2>8, KeyRowsUntouched, KeyCallsUntouched DEF KeysInv
<1> QED
  BY <1>2, <1>3

\* A commit concerns no key that another call works on.
LEMMA EditCommits ==
    ASSUME KeyEditsSound, NEW e \in KeyEdits, NEW k \in KeyIds, k \in keyEdit[e].id,
           \A j \in KeyIds : j # k => apiKey'[j] = apiKey[j],
           keyEdit' = [keyEdit EXCEPT ![e] = [pc |-> "done", id |-> {}, payload |-> NoPayload, before |-> NoKey]]
    PROVE  KeyEditsSound'
<1> DEFINE q == [pc |-> "done", id |-> {}, payload |-> NoPayload, before |-> NoKey]
<1>1. q \in KeyEditRow /\ q.pc = "done" /\ q.id = {}
  BY EditOver, NoKeyTyped
<1> HIDE DEF q
<1>2. keyEdit' \in [KeyEdits -> KeyEditRow] /\ keyEdit'[e] = q
      /\ \A f \in KeyEdits : f # e => keyEdit'[f] = keyEdit[f]
  BY <1>1 DEF KeyEditsSound, q
<1>3. \A f \in KeyEdits : f # e => k \notin keyEdit[f].id
  BY DEF KeyEditsSound, EditsApart
<1>4. EditsKnow'
  BY <1>1, <1>2, <1>3 DEF KeyEditsSound, EditsKnow
<1>5. EditsApart'
  BY <1>1, <1>2 DEF KeyEditsSound, EditsApart
<1> QED
  BY <1>2, <1>4, <1>5 DEF KeyEditsSound

\* create_ai_api_key: the key is new, its log has one entry.
LEMMA CreateKeyInsertSound ==
    ASSUME KeysInv, NEW e \in KeyEdits, NEW k \in KeyIds, NEW l \in Limits(k), CreateKeyInsert(e, k, l)
    PROVE  KeysInv'
<1>1. ~apiKey[k].exists
  BY DEF KeysInv, KeyEditsSound, EditsKnow, CreateKeyInsert
<1>2. PICK new \in KeyRow : new = NewKey(l) /\ new.exists
  <2>1. l \in 0 .. 2 /\ Never \in ExpiresAt
    BY ApiKeysAssumption DEF Limits, Never, ExpiresAt
  <2>2. NewKey(l) \in KeyRow /\ NewKey(l).exists
    BY <2>1 DEF NewKey, KeyRow
  <2> QED
    BY <2>2
<1>3. /\ apiKey' = [apiKey EXCEPT ![k] = new]
      /\ keySaid' = [keySaid EXCEPT ![k] = new]
      /\ keyTrail' = [keyTrail EXCEPT ![k] = <<[before |-> NoKey, after |-> new]>>]
      /\ UNCHANGED <<active, keyCall, keyClock>>
  BY <1>2 DEF CreateKeyInsert
<1>4. PICK log \in Seq(KeyEntry) : /\ log = <<[before |-> NoKey, after |-> new]>>
                                   /\ Len(log) = 1 /\ log[1].after = new
  <2>1. PICK entry \in KeyEntry : entry = [before |-> NoKey, after |-> new] /\ entry.after = new
    <3>1. [before |-> NoKey, after |-> new] \in KeyEntry /\ [before |-> NoKey, after |-> new].after = new
      BY NoKeyTyped DEF KeyEntry
    <3> QED
      BY <3>1
  <2>2. <<entry>> \in Seq(KeyEntry) /\ Len(<<entry>>) = 1 /\ <<entry>>[1] = entry
    OBVIOUS
  <2> QED
    BY <2>1, <2>2
<1>5. /\ apiKey' \in [KeyIds -> KeyRow] /\ keySaid' \in [KeyIds -> KeyRow]
      /\ keyTrail' \in [KeyIds -> Seq(KeyEntry)]
      /\ apiKey'[k] = new /\ keySaid'[k] = new /\ keyTrail'[k] = log
      /\ \A j \in KeyIds : j # k =>
            apiKey'[j] = apiKey[j] /\ keySaid'[j] = keySaid[j] /\ keyTrail'[j] = keyTrail[j]
  BY <1>3, <1>4 DEF KeysInv, KeyRowsSound
<1>6. KeyEditsKept'
  <2>1. SUFFICES ASSUME NEW j \in KeyIds
                 PROVE  /\ apiKey'[j] = keySaid'[j]
                        /\ \A i \in 2 .. Len(keyTrail'[j]) : keyTrail'[j][i].before = keyTrail'[j][i - 1].after
    BY DEF KeyEditsKept
  <2>2. CASE j = k
    BY <1>4, <1>5, <2>2
  <2>3. CASE j # k
    BY <1>5, <2>3 DEF KeysInv, KeyRowsSound, KeyEditsKept
  <2> QED
    BY <2>2, <2>3
<1>7. TrailEndsWithRow'
  <2>1. Len(keyTrail'[k]) > 0 /\ keyTrail'[k][Len(keyTrail'[k])].after = apiKey'[k]
    BY <1>4, <1>5
  <2> QED
    BY <1>2, <1>5, <2>1 DEF KeysInv, KeyRowsSound, TrailEndsWithRow
<1>8. KeyRowsSound'
  BY <1>5, <1>6, <1>7 DEF KeyRowsSound
<1>9. KeyEditsSound'
  BY <1>5, EditCommits DEF KeysInv, CreateKeyInsert
<1>10. KeyCallsSound'
  BY <1>1, <1>3, <1>5 DEF KeysInv, KeyCallsSound, KeyCallRow, LostStaysLost, AccessLost
<1> QED
  BY <1>8, <1>9, <1>10 DEF KeysInv

\* update_ai_api_key and revoke_ai_api_key: the row is still the one that was
\* read, so nothing that others asked for is lost.
LEMMA EditKeyCommitSound ==
    ASSUME KeysInv, NEW e \in KeyEdits, NEW k \in KeyIds, EditKeyCommit(e, k)
    PROVE  KeysInv'
<1>1. PICK row \in KeyRow : row = apiKey[k] /\ row = keySaid[k]
  BY DEF KeysInv, KeyRowsSound, KeyEditsKept
<1>2. keyEdit[e].before = row /\ row.exists
  BY <1>1 DEF KeysInv, KeyEditsSound, EditsKnow, EditKeyCommit
<1>3. PICK p : /\ p = keyEdit[e].payload /\ p.op \in {"limit", "expires", "revoke"}
               /\ p.limit \in 0 .. 2 /\ p.expires \in ExpiresAt
  <2>1. keyEdit[e].payload \in (UNION {KeyPayload(j) : j \in KeyIds}) \cup {NoPayload}
    BY DEF KeysInv, KeyEditsSound, KeyEditRow
  <2>2. keyEdit[e].payload.op \in {"limit", "expires", "revoke"}
    BY DEF KeysInv, KeyEditsSound, EditsKnow, EditKeyCommit
  <2>3. PICK j \in KeyIds : keyEdit[e].payload \in KeyPayload(j)
    BY <2>1, <2>2 DEF NoPayload
  <2> QED
    BY <2>3, PayloadFields
<1>4. PICK new \in KeyRow : /\ new = Asked(p, row) /\ new = WrittenKey(p, row, row) /\ new.exists
                            /\ row.status = "revoked" => new.status = "revoked"
  BY <1>2, <1>3, AskedSound
<1>5. PICK entry \in KeyEntry : /\ entry = [before |-> row, after |-> new]
                                /\ entry.before = row /\ entry.after = new
  <2>1. LET n == [before |-> row, after |-> new] IN n \in KeyEntry /\ n.before = row /\ n.after = new
    BY DEF KeyEntry
  <2> QED
    BY <2>1
<1>6. PICK old \in Seq(KeyEntry) : old = keyTrail[k] /\ Len(old) > 0 /\ old[Len(old)].after = row
  BY <1>1, <1>2 DEF KeysInv, KeyRowsSound, TrailEndsWithRow
<1>7. PICK log \in Seq(KeyEntry) : /\ log = Append(old, entry) /\ Len(log) = Len(old) + 1
                                   /\ log[Len(log)] = entry
                                   /\ \A i \in 1 .. Len(old) : log[i] = old[i]
  <2>1. /\ Append(old, entry) \in Seq(KeyEntry) /\ Len(Append(old, entry)) = Len(old) + 1
        /\ Append(old, entry)[Len(old) + 1] = entry
        /\ \A i \in 1 .. Len(old) : Append(old, entry)[i] = old[i]
    OBVIOUS
  <2> QED
    BY <2>1
<1>8. /\ apiKey' = [apiKey EXCEPT ![k] = new]
      /\ keySaid' = [keySaid EXCEPT ![k] = new]
      /\ keyTrail' = [keyTrail EXCEPT ![k] = log]
      /\ UNCHANGED <<active, keyCall, keyClock>>
  <2>1. /\ apiKey' = [apiKey EXCEPT ![k] = WrittenKey(p, row, apiKey[k])]
        /\ keySaid' = [keySaid EXCEPT ![k] = Asked(p, keySaid[k])]
        /\ keyTrail' = [keyTrail EXCEPT ![k] = Append(keyTrail[k], [before |-> row, after |-> Asked(p, row)])]
        /\ UNCHANGED <<active, keyCall, keyClock>>
    BY <1>2, <1>3 DEF EditKeyCommit
  <2>2. WrittenKey(p, row, apiKey[k]) = new /\ Asked(p, keySaid[k]) = new
    BY <1>1, <1>4
  <2>3. Append(keyTrail[k], [before |-> row, after |-> Asked(p, row)]) = log
    BY <1>4, <1>5, <1>6, <1>7
  <2> QED
    BY <2>1, <2>2, <2>3
<1>9. /\ apiKey' \in [KeyIds -> KeyRow] /\ keySaid' \in [KeyIds -> KeyRow]
      /\ keyTrail' \in [KeyIds -> Seq(KeyEntry)]
      /\ apiKey'[k] = new /\ keySaid'[k] = new /\ keyTrail'[k] = log
      /\ \A j \in KeyIds : j # k =>
            apiKey'[j] = apiKey[j] /\ keySaid'[j] = keySaid[j] /\ keyTrail'[j] = keyTrail[j]
  BY <1>8 DEF KeysInv, KeyRowsSound
<1>10. KeyEditsKept'
  <2>1. SUFFICES ASSUME NEW j \in KeyIds
                 PROVE  /\ apiKey'[j] = keySaid'[j]
                        /\ \A i \in 2 .. Len(keyTrail'[j]) : keyTrail'[j][i].before = keyTrail'[j][i - 1].after
    BY DEF KeyEditsKept
  <2>2. CASE j = k
    <3>1. \A i \in 2 .. Len(old) : old[i].before = old[i - 1].after
      BY <1>6 DEF KeysInv, KeyRowsSound, KeyEditsKept
    <3>2. ASSUME NEW i \in 2 .. Len(log) PROVE log[i].before = log[i - 1].after
      <4>1. CASE i = Len(log)
        BY <1>5, <1>6, <1>7, <4>1
      <4>2. CASE i # Len(log)
        BY <1>7, <3>1, <4>2
      <4> QED
        BY <4>1, <4>2
    <3> QED
      BY <1>9, <2>2, <3>2
  <2>3. CASE j # k
    BY <1>9, <2>3 DEF KeysInv, KeyRowsSound, KeyEditsKept
  <2> QED
    BY <2>2, <2>3
<1>11. TrailEndsWithRow'
  <2>1. Len(keyTrail'[k]) > 0 /\ keyTrail'[k][Len(keyTrail'[k])].after = apiKey'[k]
    BY <1>5, <1>6, <1>7, <1>9
  <2>2. \A j \in KeyIds : j # k =>
           IF apiKey'[j].exists
           THEN Len(keyTrail'[j]) > 0 /\ keyTrail'[j][Len(keyTrail'[j])].after = apiKey'[j]
           ELSE keyTrail'[j] = <<>>
    BY <1>9 DEF KeysInv, KeyRowsSound, TrailEndsWithRow
  <2>3. apiKey'[k].exists
    BY <1>4, <1>9
  <2> QED
    BY <2>1, <2>2, <2>3 DEF TrailEndsWithRow
<1>12. KeyRowsSound'
  BY <1>9, <1>10, <1>11 DEF KeyRowsSound
<1>13. KeyEditsSound'
  BY <1>9, EditCommits DEF KeysInv, EditKeyCommit
<1>14. KeyCallsSound'
  <2>1. ASSUME NEW c \in KeyCalls, keyCall[c].lost, NEW j \in keyCall[c].id
        PROVE  apiKey'[j].exists /\ AccessLost(j)'
    <3>1. j \in KeyIds /\ apiKey[j].exists /\ AccessLost(j)
      BY <2>1 DEF KeysInv, KeyCallsSound, KeyCallRow, LostStaysLost
    <3>2. CASE j = k
      <4>1. apiKey'[k].exists /\ (row.status = "revoked" => apiKey'[k].status = "revoked")
        BY <1>4, <1>9
      <4> QED
        BY <1>1, <1>8, <3>1, <3>2, <4>1 DEF AccessLost
    <3>3. CASE j # k
      BY <1>8, <1>9, <3>1, <3>3 DEF AccessLost
    <3> QED
      BY <3>2, <3>3
  <2> QED
    BY <1>8, <2>1 DEF KeysInv, KeyCallsSound, LostStaysLost
<1> QED
  BY <1>12, <1>13, <1>14 DEF KeysInv

\* An owner, the tenant or the subscription goes: what is lost stays lost.
LEMMA DeactivateSound ==
    ASSUME KeysInv, NEW x, Deactivate(x)
    PROVE  KeysInv'
<1>1. KeyCallsSound'
  BY DEF KeysInv, KeyCallsSound, LostStaysLost, AccessLost, Deactivate
<1> QED
  BY <1>1, KeyRowsUntouched, KeyEditsUntouched DEF KeysInv, Deactivate

LEMMA TickKeyClockSound ==
    ASSUME KeysInv, TickKeyClock
    PROVE  KeysInv'
<1>1. keyClock' \in 1 .. MaxKeyClock
  BY ApiKeysAssumption DEF KeysInv, KeyCallsSound, TickKeyClock
<1>2. KeyCallsSound'
  BY <1>1 DEF KeysInv, KeyCallsSound, LostStaysLost, AccessLost, TickKeyClock
<1> QED
  BY <1>2, KeyRowsUntouched, KeyEditsUntouched DEF KeysInv, TickKeyClock

\* A request arrives, at a key that may be lost.
LEMMA CallBeginSound ==
    ASSUME KeysInv, NEW c \in KeyCalls, NEW k \in KeyIds, CallBegin(c, k)
    PROVE  KeysInv'
<1>1. PICK b \in BOOLEAN : b = AccessLost(k)
  <2>1. CASE AccessLost(k)
    BY <2>1 DEF AccessLost
  <2>2. CASE ~AccessLost(k)
    <3>1. AccessLost(k) = FALSE
      BY <2>2 DEF AccessLost
    <3> QED
      BY <3>1
  <2> QED
    BY <2>1, <2>2
<1> DEFINE q == [pc |-> "begun", id |-> {k}, lost |-> b]
<1>2. q \in KeyCallRow /\ q.pc = "begun" /\ q.id = {k} /\ q.lost = b
  BY DEF KeyCallRow
<1>3. keyCall' = [keyCall EXCEPT ![c] = q] /\ UNCHANGED <<apiKey, active, keyEdit, keyClock, keySaid, keyTrail>>
  BY <1>1 DEF CallBegin
<1> HIDE DEF q
<1>4. keyCall' \in [KeyCalls -> KeyCallRow] /\ keyCall'[c] = q
      /\ \A d \in KeyCalls : d # c => keyCall'[d] = keyCall[d]
  BY <1>2, <1>3 DEF KeysInv, KeyCallsSound
<1>5. LostStaysLost'
  <2>1. \A d \in KeyCalls : d # c /\ keyCall'[d].lost =>
           /\ keyCall'[d].pc \in {"begun", "refused"}
           /\ \A j \in keyCall'[d].id : apiKey'[j].exists /\ AccessLost(j)'
    BY <1>3, <1>4 DEF KeysInv, KeyCallsSound, LostStaysLost, AccessLost
  <2>2. b => AccessLost(k)'
    BY <1>1, <1>3 DEF AccessLost
  <2> QED
    BY <1>2, <1>3, <1>4, <2>1, <2>2 DEF LostStaysLost, CallBegin
<1>6. KeyCallsSound'
  BY <1>3, <1>4, <1>5 DEF KeysInv, KeyCallsSound
<1> QED
  BY <1>3, <1>6, KeyRowsUntouched, KeyEditsUntouched DEF KeysInv

\* The steps of a request that has begun only move it on; a lost one is refused.
LEMMA CallMovesSound ==
    ASSUME KeysInv, NEW c \in KeyCalls, NEW pc \in {"found", "in", "served", "refused"},
           keyCall' = [keyCall EXCEPT ![c].pc = pc], keyCall[c].lost => pc = "refused",
           UNCHANGED <<apiKey, active, keyEdit, keyClock, keySaid, keyTrail>>
    PROVE  KeysInv'
<1>1. PICK row \in KeyCallRow : row = keyCall[c]
  BY DEF KeysInv, KeyCallsSound
<1> DEFINE q == [row EXCEPT !.pc = pc]
<1>2. q \in KeyCallRow /\ q.pc = pc /\ q.id = row.id /\ q.lost = row.lost
  BY DEF KeyCallRow
<1>3. keyCall' = [keyCall EXCEPT ![c] = q]
  BY <1>1
<1> HIDE DEF q
<1>4. keyCall' \in [KeyCalls -> KeyCallRow] /\ keyCall'[c] = q
      /\ \A d \in KeyCalls : d # c => keyCall'[d] = keyCall[d]
  BY <1>2, <1>3 DEF KeysInv, KeyCallsSound
<1>5. LostStaysLost'
  BY <1>1, <1>2, <1>4 DEF KeysInv, KeyCallsSound, LostStaysLost, AccessLost
<1>6. KeyCallsSound'
  BY <1>4, <1>5 DEF KeysInv, KeyCallsSound
<1> QED
  BY <1>6, KeyRowsUntouched, KeyEditsUntouched DEF KeysInv

\* Every step about API keys keeps the invariant.
LEMMA KeysNextSound ==
    ASSUME KeysInv, NEW ks \in SUBSET KeyIds, ApiKeysNext(ks)
    PROVE  KeysInv'
<1>1. ASSUME NEW e \in KeyEdits, NEW k \in ks, CreateKeyCheck(e, k) PROVE KeysInv'
  BY <1>1, CreateKeyCheckSound
<1>2. ASSUME NEW e \in KeyEdits, NEW k \in ks, EditKeyCommit(e, k) PROVE KeysInv'
  BY <1>2, EditKeyCommitSound
<1>3. ASSUME NEW e \in KeyEdits, NEW k \in ks, NEW l \in Limits(k), CreateKeyInsert(e, k, l) PROVE KeysInv'
  BY <1>3, CreateKeyInsertSound
<1>4. ASSUME NEW e \in KeyEdits, NEW k \in ks, NEW p \in KeyPayload(k), EditKeyLock(e, k, p) PROVE KeysInv'
  BY <1>4, EditKeyLockSound
<1>5. ASSUME NEW c \in KeyCalls, NEW k \in ks, CallBegin(c, k) PROVE KeysInv'
  BY <1>5, CallBeginSound
<1>6. ASSUME NEW c \in KeyCalls, NEW k \in ks, CallFind(c, k) PROVE KeysInv'
  <2>1. k \in KeyIds /\ k \in keyCall[c].id
    BY <1>6 DEF CallFind
  <2>2. keyCall[c].lost => ~KeyUsable(k)
    BY <2>1 DEF KeysInv, KeyCallsSound, LostStaysLost, AccessLost, KeyUsable, OwnerActive
  <2> QED
    BY <1>6, <2>2, CallMovesSound DEF CallFind
<1>7. ASSUME NEW c \in KeyCalls, NEW k \in ks, CallTouch(c, k) PROVE KeysInv'
  <2>1. ~keyCall[c].lost
    BY <1>7 DEF KeysInv, KeyCallsSound, LostStaysLost, CallTouch
  <2> QED
    BY <1>7, <2>1, CallMovesSound DEF CallTouch
<1>8. ASSUME NEW c \in KeyCalls, NEW k \in ks, CallSubscription(c, k) PROVE KeysInv'
  <2>1. ~keyCall[c].lost
    BY <1>8 DEF KeysInv, KeyCallsSound, LostStaysLost, CallSubscription
  <2> QED
    BY <1>8, <2>1, CallMovesSound DEF CallSubscription
<1>9. ASSUME NEW x, Deactivate(x) PROVE KeysInv'
  BY <1>9, DeactivateSound
<1> QED
  BY <1>1, <1>2, <1>3, <1>4, <1>5, <1>6, <1>7, <1>8, <1>9, TickKeyClockSound DEF ApiKeysNext

LEMMA KeysStutter ==
    ASSUME KeysInv, UNCHANGED apiKeyVars
    PROVE  KeysInv'
BY KeyRowsUntouched, KeyEditsUntouched, KeyCallsUntouched DEF KeysInv, apiKeyVars

-----------------------------------------------------------------------------
(* Proofs: settings. *)

LEMMA SettingsInitSound ==
    ASSUME SettingsInit
    PROVE  SettingsInv
<1>1. SettingSound
  BY DEF SettingsInit, SettingSound, Values, SettingEditRow, SettingsTold, TrailEndsWithSetting, SettingLocked
<1>2. NoEmail \in EmailRow /\ ~NoEmail.exists /\ NoEmail.password = 0 /\ NoEmailPayload \in EmailPayload
  BY DEF NoEmail, EmailRow, Values, NoEmailPayload, EmailPayload
<1>3. EmailSound
  BY <1>2 DEF SettingsInit, EmailSound, Values, EmailEditRow, EmailTestRow, EmailUsable, EmailPasswordKept,
     EmailLocked, FirstEmailInserts, DeliveryConfig
<1> QED
  BY <1>1, <1>3 DEF SettingsInv

LEMMA SettingsKeptByInvariant ==
    ASSUME SettingsInv
    PROVE  SettingsKept
BY DEF SettingsInv, SettingSound, EmailSound, SettingsKept, SettingsTypeOK, SettingEditRow, SettingEntry,
       EmailEditRow, EmailTestRow

LEMMA SettingUntouched ==
    ASSUME SettingSound, UNCHANGED <<setting, settingEdit, settingTrail>>
    PROVE  SettingSound'
BY DEF SettingSound, SettingsTold, TrailEndsWithSetting, SettingLocked

LEMMA EmailUntouched ==
    ASSUME EmailSound, UNCHANGED <<email, emailEdit, emailTest, emailSaid, firstEmails>>
    PROVE  EmailSound'
BY DEF EmailSound, EmailUsable, EmailPasswordKept, EmailLocked, FirstEmailInserts, DeliveryConfig, Deliverable

\* find_setting_for_update: who finds a row is alone with it.
LEMMA SettingLockSound ==
    ASSUME SettingsInv, NEW e \in SettingEdits, NEW v \in {1, 2}, SettingLock(e, v)
    PROVE  SettingsInv'
<1>1. PICK old \in Values : old = setting
  BY DEF SettingsInv, SettingSound
<1> DEFINE q == [pc |-> "locked", value |-> v, before |-> old]
<1>2. q \in SettingEditRow /\ q.pc = "locked" /\ q.before = old
  BY DEF SettingEditRow, Values
<1>3. settingEdit' = [settingEdit EXCEPT ![e] = q]
      /\ UNCHANGED <<setting, settingTrail, email, emailEdit, emailTest, emailSaid, firstEmails>>
  BY <1>1 DEF SettingLock
<1> HIDE DEF q
<1>4. settingEdit' \in [SettingEdits -> SettingEditRow] /\ settingEdit'[e] = q
      /\ \A f \in SettingEdits : f # e => settingEdit'[f] = settingEdit[f]
  BY <1>2, <1>3 DEF SettingsInv, SettingSound
<1>5. SettingLocked'
  BY <1>1, <1>2, <1>3, <1>4 DEF SettingsInv, SettingSound, SettingLocked, SettingLock, SettingFree
<1>6. SettingSound'
  BY <1>3, <1>4, <1>5 DEF SettingsInv, SettingSound, SettingsTold, TrailEndsWithSetting
<1> QED
  BY <1>3, <1>6, EmailUntouched DEF SettingsInv

\* upsert_setting: the entry starts with the value stored, or with none.
LEMMA SettingCommitSound ==
    ASSUME SettingsInv, NEW e \in SettingEdits, SettingCommit(e)
    PROVE  SettingsInv'
<1>1. PICK old, new \in Values : old = settingEdit[e].before /\ new = settingEdit[e].value
  BY DEF SettingsInv, SettingSound, SettingEditRow
<1>2. PICK entry \in SettingEntry : /\ entry = [before |-> old, after |-> new]
                                    /\ entry.before = old /\ entry.after = new
  <2>1. LET n == [before |-> old, after |-> new] IN n \in SettingEntry /\ n.before = old /\ n.after = new
    BY DEF SettingEntry
  <2> QED
    BY <2>1
<1>3. PICK log \in Seq(SettingEntry) : log = settingTrail
  BY DEF SettingsInv, SettingSound
<1>4. /\ Append(log, entry) \in Seq(SettingEntry) /\ Len(Append(log, entry)) = Len(log) + 1
      /\ Append(log, entry)[Len(log) + 1] = entry /\ Len(log) \in Nat
      /\ \A i \in 1 .. Len(log) : Append(log, entry)[i] = log[i]
  OBVIOUS
<1> DEFINE q == [pc |-> "done", value |-> 0, before |-> 0]
<1>5. q \in SettingEditRow /\ q.pc = "done"
  BY DEF SettingEditRow, Values
<1>6. /\ setting' = new /\ settingTrail' = Append(log, entry)
      /\ settingEdit' = [settingEdit EXCEPT ![e] = q]
      /\ UNCHANGED <<email, emailEdit, emailTest, emailSaid, firstEmails>>
  BY <1>1, <1>2, <1>3 DEF SettingCommit
<1> HIDE DEF q
<1>7. settingEdit' \in [SettingEdits -> SettingEditRow] /\ settingEdit'[e] = q
      /\ \A f \in SettingEdits : f # e => settingEdit'[f] = settingEdit[f]
  BY <1>5, <1>6 DEF SettingsInv, SettingSound
<1>8. SettingLocked'
  BY <1>5, <1>7 DEF SettingLocked, SettingCommit, SettingFree
<1>9. TrailEndsWithSetting'
  BY <1>2, <1>4, <1>6 DEF TrailEndsWithSetting
<1>10. SettingsTold'
  <2>1. ASSUME NEW i \in 2 .. Len(log) + 1
        PROVE  Append(log, entry)[i].before = Append(log, entry)[i - 1].after \/ Append(log, entry)[i].before = 0
    <3>1. CASE i = Len(log) + 1
      <4>1. Append(log, entry)[i] = entry /\ Append(log, entry)[i - 1] = log[Len(log)]
        BY <1>4, <2>1, <3>1
      <4>2. log[Len(log)].after = setting
        BY <1>3, <1>4, <2>1, <3>1 DEF SettingsInv, SettingSound, TrailEndsWithSetting
      <4>3. old = 0 \/ old = setting
        BY <1>1 DEF SettingsInv, SettingSound, SettingLocked, SettingCommit
      <4> QED
        BY <1>2, <4>1, <4>2, <4>3
    <3>2. CASE i # Len(log) + 1
      <4>1. i \in 2 .. Len(log) /\ i - 1 \in 1 .. Len(log) /\ i \in 1 .. Len(log)
        BY <1>4, <3>2
      <4> QED
        BY <1>3, <1>4, <4>1 DEF SettingsInv, SettingSound, SettingsTold
    <3> QED
      BY <3>1, <3>2
  <2> QED
    BY <1>4, <1>6, <2>1 DEF SettingsTold
<1>11. SettingSound'
  BY <1>4, <1>6, <1>7, <1>8, <1>9, <1>10 DEF SettingSound
<1> QED
  BY <1>6, <1>11, EmailUntouched DEF SettingsInv

\* find_email_settings_for_update, the same for the single row of email_settings.
LEMMA EmailLockSound ==
    ASSUME SettingsInv, NEW e \in EmailEdits, NEW p \in EmailPayload, EmailLock(e, p)
    PROVE  SettingsInv'
<1>1. PICK old \in EmailRow : old = email
  BY DEF SettingsInv, EmailSound
<1> DEFINE q == [pc |-> "locked", payload |-> p, before |-> old]
<1>2. q \in EmailEditRow /\ q.pc = "locked" /\ q.before = old
  BY DEF EmailEditRow
<1>3. emailEdit' = [emailEdit EXCEPT ![e] = q]
      /\ UNCHANGED <<setting, settingEdit, settingTrail, email, emailTest, emailSaid, firstEmails>>
  BY <1>1 DEF EmailLock
<1> HIDE DEF q
<1>4. emailEdit' \in [EmailEdits -> EmailEditRow] /\ emailEdit'[e] = q
      /\ \A f \in EmailEdits : f # e => emailEdit'[f] = emailEdit[f]
  BY <1>2, <1>3 DEF SettingsInv, EmailSound
<1>5. EmailLocked'
  <2>1. \A f \in EmailEdits \ {e} : ~(emailEdit[f].pc = "locked" /\ emailEdit[f].before.exists)
    BY DEF EmailLock, EmailFree
  <2>2. ~old.exists => old.password = 0
    BY <1>1 DEF SettingsInv, EmailSound, FirstEmailInserts
  <2> QED
    BY <1>1, <1>2, <1>3, <1>4, <2>1, <2>2 DEF SettingsInv, EmailSound, EmailLocked
<1>6. EmailSound'
  BY <1>3, <1>4, <1>5 DEF SettingsInv, EmailSound, EmailUsable, EmailPasswordKept, FirstEmailInserts,
                          DeliveryConfig, Deliverable
<1> QED
  BY <1>3, <1>6, SettingUntouched DEF SettingsInv

\* What normalize_update_request accepts can be delivered.
LEMMA AcceptedIsUsable ==
    ASSUME NEW p \in EmailPayload, NEW before \in EmailRow, NEW row \in EmailRow, Accepted(p, before)
    PROVE  /\ EmailAfter(p, before, row) \in EmailRow
           /\ EmailAfter(p, before, row).exists
           /\ EmailAfter(p, before, row).password = PasswordAfter(p, before.password)
           /\ DeliveryConfig(EmailAfter(p, before, row)) # "error"
<1>1. PasswordAfter(p, before.password) \in Values /\ (~p.user => PasswordAfter(p, before.password) = 0)
  BY DEF PasswordAfter, EmailPayload, EmailRow, Values
<1>2. PICK pw \in Values : pw = PasswordAfter(p, before.password)
  BY <1>1
<1> DEFINE new == [exists |-> TRUE, enabled |-> p.enabled, address |-> p.address, user |-> p.user,
                   password |-> pw, tested |-> row.tested]
<1>3. new = EmailAfter(p, before, row)
  BY <1>2 DEF EmailAfter
<1>4. new \in EmailRow /\ new.exists /\ new.password = pw
  BY DEF EmailRow, EmailPayload
<1>5. DeliveryConfig(new) # "error"
  BY <1>1, <1>2 DEF DeliveryConfig, Deliverable, Accepted, EmailPayload
<1> QED
  BY <1>2, <1>3, <1>4, <1>5

\* update_email_settings: the row is still the one that was read, unless there
\* was none; then no other call finds one before it, or it counts as the second.
LEMMA EmailCommitSound ==
    ASSUME SettingsInv, NEW e \in EmailEdits, EmailCommit(e)
    PROVE  SettingsInv'
<1>1. PICK p \in EmailPayload : p = emailEdit[e].payload
  BY DEF SettingsInv, EmailSound, EmailEditRow
<1>2. PICK before \in EmailRow : before = emailEdit[e].before
  BY DEF SettingsInv, EmailSound, EmailEditRow
<1>3. PICK row \in EmailRow : row = email
  BY DEF SettingsInv, EmailSound
<1> DEFINE q == [pc |-> "done", payload |-> NoEmailPayload, before |-> NoEmail]
<1>4. q \in EmailEditRow /\ q.pc = "done"
  BY DEF EmailEditRow, NoEmail, EmailRow, Values, NoEmailPayload, EmailPayload
<1>5. emailEdit' = [emailEdit EXCEPT ![e] = q] /\ UNCHANGED <<setting, settingEdit, settingTrail, emailTest>>
  BY DEF EmailCommit
<1> HIDE DEF q
<1>6. emailEdit' \in [EmailEdits -> EmailEditRow] /\ emailEdit'[e] = q
      /\ \A f \in EmailEdits : f # e => emailEdit'[f] = emailEdit[f]
  BY <1>4, <1>5 DEF SettingsInv, EmailSound
<1>7. \A f \in EmailEdits \ {e} : ~(emailEdit[f].pc = "locked" /\ emailEdit[f].before.exists)
  BY DEF EmailCommit, EmailFree
<1>8. EmailLocked'
  BY <1>4, <1>6, <1>7 DEF SettingsInv, EmailSound, EmailLocked
<1>9. /\ email' \in EmailRow /\ emailSaid' \in Values /\ firstEmails' \in Nat
      /\ EmailUsable' /\ EmailPasswordKept' /\ FirstEmailInserts'
  <2>1. CASE Accepted(p, before)
    <3>1. /\ email' = EmailAfter(p, before, row) /\ emailSaid' = PasswordAfter(p, emailSaid)
          /\ firstEmails' = firstEmails + (IF before.exists THEN 0 ELSE 1)
      BY <1>1, <1>2, <1>3, <2>1 DEF EmailCommit
    <3>2. /\ email' \in EmailRow /\ email'.exists /\ DeliveryConfig(email') # "error"
          /\ email'.password = PasswordAfter(p, before.password)
      BY <2>1, <3>1, AcceptedIsUsable
    <3>3. emailSaid' \in Values /\ firstEmails' \in Nat
      BY <3>1 DEF SettingsInv, EmailSound, PasswordAfter, EmailPayload, Values
    <3>4. EmailUsable'
      BY <3>2 DEF EmailUsable, DeliveryConfig, Deliverable
    <3>5. CASE before.exists
      <4>1. before.password = row.password /\ row.exists
        BY <1>2, <1>3, <3>5 DEF SettingsInv, EmailSound, EmailLocked, EmailCommit
      <4>2. firstEmails' = firstEmails /\ firstEmails > 0
        BY <1>3, <3>1, <3>5, <4>1 DEF SettingsInv, EmailSound, FirstEmailInserts
      <4>3. EmailPasswordKept'
        BY <1>3, <3>1, <3>2, <4>1, <4>2 DEF SettingsInv, EmailSound, EmailPasswordKept
      <4>4. FirstEmailInserts'
        BY <3>2, <4>2 DEF FirstEmailInserts
      <4> QED
        BY <3>2, <3>3, <3>4, <4>3, <4>4
    <3>6. CASE ~before.exists
      <4>1. firstEmails' = firstEmails + 1 /\ firstEmails \in Nat
        BY <3>1, <3>6 DEF SettingsInv, EmailSound
      <4>2. before.password = 0
        BY <1>2, <3>6 DEF SettingsInv, EmailSound, EmailLocked, EmailCommit
      <4>3. firstEmails = 0 => emailSaid = 0
        BY DEF SettingsInv, EmailSound, FirstEmailInserts
      <4>4. EmailPasswordKept'
        BY <3>1, <3>2, <4>1, <4>2, <4>3 DEF EmailPasswordKept
      <4>5. FirstEmailInserts'
        BY <3>2, <4>1 DEF FirstEmailInserts
      <4> QED
        BY <3>2, <3>3, <3>4, <4>4, <4>5
    <3> QED
      BY <3>5, <3>6
  <2>2. CASE ~Accepted(p, before)
    <3>1. UNCHANGED <<email, emailSaid, firstEmails>>
      BY <1>1, <1>2, <2>2 DEF EmailCommit
    <3> QED
      BY <3>1 DEF SettingsInv, EmailSound, EmailUsable, EmailPasswordKept, FirstEmailInserts, DeliveryConfig,
                  Deliverable
  <2> QED
    BY <2>1, <2>2
<1>10. EmailSound'
  BY <1>5, <1>6, <1>8, <1>9 DEF SettingsInv, EmailSound
<1> QED
  BY <1>5, <1>10, SettingUntouched DEF SettingsInv

\* test_email_settings: whatever the test finds, only its result is written.
LEMMA EmailTestSound ==
    ASSUME SettingsInv, NEW t \in EmailTests,
           EmailTestRead(t) \/ EmailTestStore(t) \/ \E ok \in BOOLEAN : EmailTestSend(t, ok)
    PROVE  SettingsInv'
<1>1. UNCHANGED <<setting, settingEdit, settingTrail, emailEdit, emailSaid, firstEmails>>
  BY DEF EmailTestRead, EmailTestStore, EmailTestSend
<1>2. emailTest' \in [EmailTests -> EmailTestRow]
  <2>1. PICK pc \in {"sending", "success", "failed", "done"} : emailTest' = [emailTest EXCEPT ![t].pc = pc]
    BY DEF EmailTestRead, EmailTestStore, EmailTestSend
  <2>2. PICK row \in EmailTestRow : row = emailTest[t]
    BY DEF SettingsInv, EmailSound
  <2>3. [row EXCEPT !.pc = pc] \in EmailTestRow
    BY DEF EmailTestRow
  <2> QED
    BY <2>1, <2>2, <2>3 DEF SettingsInv, EmailSound
<1>3. PICK row \in EmailRow : row = email
  BY DEF SettingsInv, EmailSound
<1>4. /\ email' \in EmailRow
      /\ email'.exists = row.exists /\ email'.password = row.password
      /\ email'.enabled = row.enabled /\ email'.address = row.address /\ email'.user = row.user
  <2>1. CASE email' = email
    BY <1>3, <2>1
  <2>2. CASE email' # email
    <3>1. PICK res \in {"success", "failed"} : email' = [row EXCEPT !.tested = res]
      BY <1>3, <2>2 DEF EmailTestRead, EmailTestStore, EmailTestSend
    <3> QED
      BY <3>1 DEF EmailRow
  <2> QED
    BY <2>1, <2>2
<1>5. EmailUsable' /\ EmailPasswordKept' /\ FirstEmailInserts'
  BY <1>1, <1>3, <1>4 DEF SettingsInv, EmailSound, EmailUsable, EmailPasswordKept, FirstEmailInserts,
                          DeliveryConfig, Deliverable
<1>6. EmailLocked'
  BY <1>1, <1>3, <1>4 DEF SettingsInv, EmailSound, EmailLocked
<1>7. EmailSound'
  BY <1>1, <1>2, <1>4, <1>5, <1>6 DEF SettingsInv, EmailSound
<1> QED
  BY <1>1, <1>7, SettingUntouched DEF SettingsInv

\* Every step about settings keeps the invariant.
LEMMA SettingsNextSound ==
    ASSUME SettingsInv, SettingNext \/ EmailNext
    PROVE  SettingsInv'
<1>1. ASSUME NEW e \in SettingEdits, NEW v \in {1, 2}, SettingLock(e, v) PROVE SettingsInv'
  BY <1>1, SettingLockSound
<1>2. ASSUME NEW e \in EmailEdits, NEW p \in EmailPayloadIn, EmailLock(e, p) PROVE SettingsInv'
  BY <1>2, EmailLockSound DEF EmailPayloadIn
<1>3. ASSUME NEW t \in EmailTests,
             EmailTestRead(t) \/ EmailTestStore(t) \/ \E ok \in BOOLEAN : EmailTestSend(t, ok)
      PROVE  SettingsInv'
  BY <1>3, EmailTestSound
<1> QED
  BY <1>1, <1>2, <1>3, SettingCommitSound, EmailCommitSound DEF SettingNext, EmailNext

LEMMA SettingsStutter ==
    ASSUME SettingsInv, UNCHANGED settingVars
    PROVE  SettingsInv'
BY SettingUntouched, EmailUntouched DEF SettingsInv, settingVars

-----------------------------------------------------------------------------
(* Proofs: the catalogue. *)

LEMMA CatalogueTypes ==
    CatalogueTypeOK <=> /\ provider \in [Providers -> ProviderRow] /\ aiModel \in ModelRow
                        /\ edit \in [CatalogueEdits -> CatalogueEditRow] /\ asked \in AskedRow
BY DEF CatalogueTypeOK, CatalogueEditRow, AskedRow

\* The rows of an update that has nothing to do.
LEMMA NoRows ==
    /\ NoProvider \in ProviderRow /\ NoModel \in ModelRow
    /\ \A pc \in {"idle", "done"} :
          [pc |-> pc, id |-> {}, payload |-> NoRequest, seen |-> NoProvider, read |-> NoModel] \in CatalogueEditRow
<1>1. NoProvider \in ProviderRow
  BY DEF NoProvider, ProviderRow
<1>2. NoModel \in ModelRow
  BY DEF NoModel, ModelRow, Modalities, BillingModes
<1>3. NoRequest \in ProviderPayload \cup ModelPayload \cup {NoRequest}
  OBVIOUS
<1> QED
  BY <1>1, <1>2, <1>3 DEF CatalogueEditRow

LEMMA CatalogueInitSound ==
    ASSUME CatalogueInit
    PROVE  CatalogueInv
<1>1. provider \in [Providers -> ProviderRow] /\ aiModel \in ModelRow
  BY NoRows DEF CatalogueInit
<1>2. edit \in [CatalogueEdits -> CatalogueEditRow]
  BY NoRows DEF CatalogueInit
<1>3. asked \in AskedRow
  BY NoRows DEF CatalogueInit, AskedRow
<1>4. CatalogueTypeOK
  BY <1>1, <1>2, <1>3, CatalogueTypes
<1>5. \A e \in CatalogueEdits : edit[e].pc = "idle"
  BY DEF CatalogueInit
<1> QED
  BY <1>4, <1>5 DEF CatalogueInit, CatalogueInv, CatalogueKept, BillingModeFits, CatalogueUpdatesKept,
     ProviderLocked, ModelLocked, NoModel

\* What normalize_update_provider_input makes of a row.
LEMMA ProviderAfterSound ==
    ASSUME NEW p \in ProviderPayload, NEW row \in ProviderRow
    PROVE  ProviderAfter(p, row) \in ProviderRow /\ ProviderAfter(p, row).exists = row.exists
<1>1. Sent(p, "enabled", row.enabled) \in BOOLEAN /\ Sent(p, "secret", row.secret) \in 0 .. 2
  <2> DEFINE Fits == /\ "enabled" \in DOMAIN p => p["enabled"] \in BOOLEAN
                     /\ "secret" \in DOMAIN p => p["secret"] \in 0 .. 2
  <2>1. ASSUME NEW b \in BOOLEAN, p = [enabled |-> b] PROVE Fits
    BY <2>1
  <2>2. ASSUME NEW s \in 1 .. 2, p = [secret |-> s] PROVE Fits
    BY <2>2
  <2>3. ASSUME p = [clear |-> TRUE] PROVE Fits
    BY <2>3
  <2>4. ASSUME p = [clear |-> TRUE, secret |-> 1] PROVE Fits
    BY <2>4
  <2>5. Fits
    <3> HIDE DEF Fits
    <3> QED
      BY <2>1, <2>2, <2>3, <2>4 DEF ProviderPayload
  <2> QED
    BY <2>5 DEF Sent, ProviderRow
<1>2. PICK on \in BOOLEAN, s \in 0 .. 2 : /\ on = Sent(p, "enabled", row.enabled)
                                          /\ s = IF "clear" \in DOMAIN p THEN 0 ELSE Sent(p, "secret", row.secret)
  BY <1>1
<1>3. ProviderAfter(p, row) = [row EXCEPT !.enabled = on, !.secret = s]
  BY <1>2 DEF ProviderAfter, ProviderRow
<1> QED
  BY <1>3 DEF ProviderRow

\* A provider is written, by an insert or by whoever has it locked; a provider
\* that existed exists, and nobody else has read it.
LEMMA ProviderWritten ==
    ASSUME CatalogueInv, NEW i \in Providers, NEW new \in ProviderRow, new.exists,
           provider' = [provider EXCEPT ![i] = new], asked' = [asked EXCEPT !.provider[i] = new],
           UNCHANGED aiModel,
           edit' \in [CatalogueEdits -> CatalogueEditRow],
           \A e \in CatalogueEdits :
               \/ edit'[e].pc = "done"
               \/ edit'[e] = edit[e] /\ (edit[e].pc = "provider" => i \notin edit[e].id)
    PROVE  CatalogueInv'
<1>1. /\ provider \in [Providers -> ProviderRow] /\ aiModel \in ModelRow
      /\ edit \in [CatalogueEdits -> CatalogueEditRow] /\ asked \in AskedRow
      /\ provider = asked.provider
  BY CatalogueTypes DEF CatalogueInv, CatalogueKept, CatalogueUpdatesKept
<1>2. provider' \in [Providers -> ProviderRow] /\ provider'[i] = new
      /\ \A j \in Providers : j # i => provider'[j] = provider[j]
  BY <1>1
<1>3. asked' \in AskedRow /\ asked'.provider = provider' /\ asked'.request = asked.request
      /\ asked'.second = asked.second
  <2>1. asked' = [asked EXCEPT !.provider = [asked.provider EXCEPT ![i] = new]]
    OBVIOUS
  <2>2. asked' = [asked EXCEPT !.provider = provider']
    BY <1>1, <2>1
  <2>3. PICK np \in [Providers -> ProviderRow] : np = provider'
    BY <1>2
  <2>4. asked' = [asked EXCEPT !.provider = np]
    BY <2>2, <2>3
  <2> QED
    BY <1>1, <2>3, <2>4 DEF AskedRow
<1>4. CatalogueTypeOK'
  <2>1. aiModel' \in ModelRow
    BY <1>1
  <2> QED
    BY <1>2, <1>3, <2>1 DEF CatalogueTypeOK, CatalogueEditRow, AskedRow
<1>5. BillingModeFits'
  <2>1. \A j \in Providers : provider[j].exists => provider'[j].exists
    BY <1>2
  <2>2. aiModel.by \subseteq Providers
    BY <1>1 DEF ModelRow
  <2> QED
    BY <2>1, <2>2 DEF CatalogueInv, CatalogueKept, BillingModeFits, ProviderExists
<1>6. CatalogueUpdatesKept'
  BY <1>3 DEF CatalogueInv, CatalogueKept, CatalogueUpdatesKept
<1>7. ProviderLocked'
  <2>1. SUFFICES ASSUME NEW e \in CatalogueEdits, edit'[e].pc = "provider"
                 PROVE  /\ \E j \in Providers : /\ edit'[e].id = {j} /\ provider'[j].exists
                                                /\ edit'[e].seen = provider'[j]
                        /\ edit'[e].payload \in ProviderPayload
                        /\ \A f \in CatalogueEdits \ {e} :
                              edit'[f].pc = "provider" => edit'[f].id \cap edit'[e].id = {}
    BY DEF ProviderLocked
  <2>2. edit'[e] = edit[e] /\ edit[e].pc = "provider" /\ i \notin edit[e].id
    BY <2>1
  <2>3. PICK j \in Providers : edit[e].id = {j} /\ provider[j].exists /\ edit[e].seen = provider[j]
    BY <2>2 DEF CatalogueInv, ProviderLocked
  <2>4. edit[e].payload \in ProviderPayload
    BY <2>2 DEF CatalogueInv, ProviderLocked
  <2>5. \A f \in CatalogueEdits \ {e} : edit'[f].pc = "provider" => edit'[f].id \cap edit'[e].id = {}
    BY <2>2 DEF CatalogueInv, ProviderLocked
  <2> QED
    BY <1>2, <2>2, <2>3, <2>4, <2>5
<1>8. ModelLocked'
  BY DEF CatalogueInv, ModelLocked
<1> QED
  BY <1>4, <1>5, <1>6, <1>7, <1>8 DEF CatalogueInv, CatalogueKept

\* create_ai_provider: nobody has locked a row that is not there.
LEMMA CreateProviderSound ==
    ASSUME CatalogueInv, NEW i \in Providers, NEW on \in BOOLEAN, NEW s \in 0 .. 1, CreateProvider(i, on, s)
    PROVE  CatalogueInv'
<1>1. PICK new \in ProviderRow : new = NewProvider(on, s) /\ new.exists
  <2>1. NewProvider(on, s) \in ProviderRow /\ NewProvider(on, s).exists
    BY DEF NewProvider, ProviderRow
  <2> QED
    BY <2>1
<1>2. provider \in [Providers -> ProviderRow] /\ edit \in [CatalogueEdits -> CatalogueEditRow]
  BY CatalogueTypes DEF CatalogueInv, CatalogueKept
<1>3. provider' = [provider EXCEPT ![i] = new] /\ UNCHANGED <<aiModel, edit>> /\ ~provider[i].exists
  BY <1>1 DEF CreateProvider
<1>4. provider'[i] = new
  BY <1>2, <1>3
<1>5. asked' = [asked EXCEPT !.provider[i] = new]
  BY <1>4 DEF CreateProvider
<1>6. \A e \in CatalogueEdits : edit'[e] = edit[e] /\ (edit[e].pc = "provider" => i \notin edit[e].id)
  BY <1>3 DEF CatalogueInv, ProviderLocked
<1> QED
  BY <1>1, <1>2, <1>3, <1>5, <1>6, ProviderWritten

\* update_provider_in_transaction: the row is still the one that was read.
LEMMA UpdateProviderCommitSound ==
    ASSUME CatalogueInv, NEW e \in CatalogueEdits, NEW i \in Providers, UpdateProviderCommit(e, i)
    PROVE  CatalogueInv'
<1>1. /\ provider \in [Providers -> ProviderRow] /\ edit \in [CatalogueEdits -> CatalogueEditRow]
      /\ provider = asked.provider
  BY CatalogueTypes DEF CatalogueInv, CatalogueKept, CatalogueUpdatesKept
<1>2. PICK row \in ProviderRow : row = provider[i]
  BY <1>1
<1>3. edit[e].seen = row /\ row.exists /\ edit[e].pc = "provider" /\ i \in edit[e].id
  BY <1>2 DEF CatalogueInv, ProviderLocked, UpdateProviderCommit
<1>4. PICK p \in ProviderPayload : p = edit[e].payload
  BY <1>3 DEF CatalogueInv, ProviderLocked
<1>5. PICK new \in ProviderRow : new = ProviderAfter(p, row) /\ new.exists
  BY <1>3, ProviderAfterSound
<1> DEFINE q == [pc |-> "done", id |-> {}, payload |-> NoRequest, seen |-> NoProvider, read |-> NoModel]
<1>6. q \in CatalogueEditRow /\ q.pc = "done"
  BY NoRows
<1>7. /\ provider' = [provider EXCEPT ![i] = new]
      /\ edit' = [edit EXCEPT ![e] = q]
      /\ UNCHANGED aiModel
  BY <1>3, <1>4, <1>5 DEF UpdateProviderCommit
<1>8. asked' = [asked EXCEPT !.provider[i] = new]
  <2>1. asked' = [asked EXCEPT !.provider[i] = ProviderAfter(p, asked.provider[i])]
    BY <1>4 DEF UpdateProviderCommit
  <2>2. ProviderAfter(p, asked.provider[i]) = new
    BY <1>1, <1>2, <1>5
  <2> QED
    BY <2>1, <2>2
<1> HIDE DEF q
<1>9. edit' \in [CatalogueEdits -> CatalogueEditRow] /\ edit'[e].pc = "done"
      /\ \A f \in CatalogueEdits : f # e => edit'[f] = edit[f]
  BY <1>1, <1>6, <1>7
<1>10. \A f \in CatalogueEdits : f # e /\ edit[f].pc = "provider" => i \notin edit[f].id
  BY <1>3 DEF CatalogueInv, ProviderLocked
<1> QED
  BY <1>5, <1>7, <1>8, <1>9, <1>10, ProviderWritten

\* Nothing is written: what is left to show is that the locks are apart.
LEMMA CatalogueRead ==
    ASSUME CatalogueInv, UNCHANGED <<provider, aiModel, asked>>,
           edit' \in [CatalogueEdits -> CatalogueEditRow], ProviderLocked', ModelLocked'
    PROVE  CatalogueInv'
<1>1. CatalogueTypeOK'
  BY DEF CatalogueInv, CatalogueKept, CatalogueTypeOK, CatalogueEditRow
<1> QED
  BY <1>1 DEF CatalogueInv, CatalogueKept, BillingModeFits, ProviderExists, CatalogueUpdatesKept

\* find_provider_for_update.
LEMMA UpdateProviderLockSound ==
    ASSUME CatalogueInv, NEW e \in CatalogueEdits, NEW i \in Providers, NEW p \in ProviderPayload,
           UpdateProviderLock(e, i, p)
    PROVE  CatalogueInv'
<1>1. provider \in [Providers -> ProviderRow] /\ edit \in [CatalogueEdits -> CatalogueEditRow]
  BY CatalogueTypes DEF CatalogueInv, CatalogueKept
<1>2. PICK old \in CatalogueEditRow : old = edit[e]
  BY <1>1
<1>3. PICK row \in ProviderRow : row = provider[i]
  BY <1>1
<1>4. PICK ids \in SUBSET Providers : ids = {i}
  OBVIOUS
<1> DEFINE q == [old EXCEPT !.pc = "provider", !.id = ids, !.payload = p, !.seen = row]
<1>5. q \in CatalogueEditRow /\ q.pc = "provider" /\ q.id = {i} /\ q.payload = p /\ q.seen = row
  BY <1>4 DEF CatalogueEditRow
<1>6. edit' = [edit EXCEPT ![e] = q] /\ UNCHANGED <<provider, aiModel, asked>>
  BY <1>2, <1>3, <1>4 DEF UpdateProviderLock
<1> HIDE DEF q
<1>7. edit' \in [CatalogueEdits -> CatalogueEditRow] /\ edit'[e] = q
      /\ \A f \in CatalogueEdits : f # e => edit'[f] = edit[f]
  BY <1>1, <1>5, <1>6
<1>8. \A f \in CatalogueEdits : edit[f].pc = "provider" => i \notin edit[f].id
  BY DEF UpdateProviderLock, ProviderFree
<1>9. ProviderLocked'
  <2>1. SUFFICES ASSUME NEW f \in CatalogueEdits, edit'[f].pc = "provider"
                 PROVE  /\ \E j \in Providers : /\ edit'[f].id = {j} /\ provider'[j].exists
                                                /\ edit'[f].seen = provider'[j]
                        /\ edit'[f].payload \in ProviderPayload
                        /\ \A g \in CatalogueEdits \ {f} :
                              edit'[g].pc = "provider" => edit'[g].id \cap edit'[f].id = {}
    BY DEF ProviderLocked
  <2>2. CASE f = e
    <3>1. edit'[f].id = {i} /\ provider'[i].exists /\ edit'[f].seen = provider'[i]
          /\ edit'[f].payload \in ProviderPayload
      BY <1>3, <1>5, <1>6, <1>7, <2>2 DEF UpdateProviderLock
    <3>2. \A g \in CatalogueEdits \ {f} : edit'[g].pc = "provider" => edit'[g].id \cap edit'[f].id = {}
      BY <1>7, <1>8, <2>2, <3>1
    <3> QED
      BY <3>1, <3>2
  <2>3. CASE f # e
    <3>1. edit'[f] = edit[f]
      BY <1>7, <2>3
    <3>2. /\ \E j \in Providers : edit[f].id = {j} /\ provider[j].exists /\ edit[f].seen = provider[j]
          /\ edit[f].payload \in ProviderPayload
          /\ \A g \in CatalogueEdits \ {f} : edit[g].pc = "provider" => edit[g].id \cap edit[f].id = {}
      BY <2>1, <3>1 DEF CatalogueInv, ProviderLocked
    <3>3. edit'[e].id \cap edit'[f].id = {}
      BY <1>5, <1>7, <1>8, <2>1, <3>1
    <3> QED
      BY <1>6, <1>7, <3>1, <3>2, <3>3
  <2> QED
    BY <2>2, <2>3
<1>10. ModelLocked'
  BY <1>5, <1>6, <1>7 DEF CatalogueInv, ModelLocked
<1> QED
  BY <1>6, <1>7, <1>9, <1>10, CatalogueRead

\* find_model_for_update.
LEMMA UpdateModelLockSound ==
    ASSUME CatalogueInv, NEW e \in CatalogueEdits, NEW p \in ModelPayload, UpdateModelLock(e, p)
    PROVE  CatalogueInv'
<1>1. aiModel \in ModelRow /\ edit \in [CatalogueEdits -> CatalogueEditRow]
  BY CatalogueTypes DEF CatalogueInv, CatalogueKept
<1>2. PICK old \in CatalogueEditRow : old = edit[e]
  BY <1>1
<1>3. PICK row \in ModelRow : row = aiModel
  BY <1>1
<1> DEFINE q == [old EXCEPT !.pc = "model", !.payload = p, !.read = row]
<1>4. q \in CatalogueEditRow /\ q.pc = "model" /\ q.payload = p /\ q.read = row
  BY DEF CatalogueEditRow
<1>5. edit' = [edit EXCEPT ![e] = q] /\ UNCHANGED <<provider, aiModel, asked>>
  BY <1>2, <1>3 DEF UpdateModelLock
<1> HIDE DEF q
<1>6. edit' \in [CatalogueEdits -> CatalogueEditRow] /\ edit'[e] = q
      /\ \A f \in CatalogueEdits : f # e => edit'[f] = edit[f]
  BY <1>1, <1>4, <1>5
<1>7. ProviderLocked'
  BY <1>4, <1>5, <1>6 DEF CatalogueInv, ProviderLocked
<1>8. ModelLocked'
  BY <1>3, <1>4, <1>5, <1>6 DEF CatalogueInv, ModelLocked, UpdateModelLock, ModelFree
<1> QED
  BY <1>5, <1>6, <1>7, <1>8, CatalogueRead

\* default_billing_mode derives a mode that the modality has.
LEMMA DefaultFits ==
    ASSUME NEW m \in Modalities, NEW r \in 0 .. 1, NEW s \in 0 .. 1
    PROVE  /\ DefaultBillingMode(m, r, s) \in BillingModesOf(m)
           /\ BillingModesOf(m) \subseteq BillingModes
BY DEF Modalities, BillingModes, DefaultBillingMode, BillingModesOf

\* A model is written, by the insert or by whoever has it locked.
LEMMA ModelWritten ==
    ASSUME CatalogueInv, NEW new \in ModelRow, new.mode \in BillingModesOf(new.modality), ProviderExists(new.by),
           aiModel' = new, asked' = [asked EXCEPT !.request = new.request, !.second = new.second],
           UNCHANGED provider,
           edit' \in [CatalogueEdits -> CatalogueEditRow],
           \A e \in CatalogueEdits : edit'[e].pc = "done" \/ (edit'[e] = edit[e] /\ edit[e].pc # "model")
    PROVE  CatalogueInv'
<1>1. /\ provider \in [Providers -> ProviderRow] /\ asked \in AskedRow /\ provider = asked.provider
  BY CatalogueTypes DEF CatalogueInv, CatalogueKept, CatalogueUpdatesKept
<1>2. PICK r, s \in 0 .. 1 : r = new.request /\ s = new.second
  BY DEF ModelRow
<1>3. asked' = [asked EXCEPT !.request = r, !.second = s]
  BY <1>2
<1>4. asked' \in AskedRow /\ asked'.provider = asked.provider /\ asked'.request = r /\ asked'.second = s
  BY <1>1, <1>3 DEF AskedRow
<1>5. CatalogueTypeOK'
  BY <1>1, <1>4 DEF CatalogueTypeOK, CatalogueEditRow, AskedRow
<1>6. BillingModeFits'
  BY DEF BillingModeFits, ProviderExists
<1>7. CatalogueUpdatesKept'
  BY <1>1, <1>2, <1>4 DEF CatalogueUpdatesKept
<1>8. ProviderLocked'
  BY DEF CatalogueInv, ProviderLocked
<1>9. ModelLocked'
  BY DEF ModelLocked
<1> QED
  BY <1>5, <1>6, <1>7, <1>8, <1>9 DEF CatalogueInv, CatalogueKept

\* create_ai_model.
LEMMA CreateModelSound ==
    ASSUME CatalogueInv, NEW m \in Modalities, NEW mode \in BillingModes \cup {"none"},
           NEW r \in 0 .. 1, NEW s \in 0 .. 1, NEW by \in {{}} \cup {{i} : i \in Providers},
           CreateModel(m, mode, r, s, by)
    PROVE  CatalogueInv'
<1>1. PICK md \in BillingModes : /\ md = IF mode = "none" THEN DefaultBillingMode(m, r, s) ELSE mode
                                 /\ md \in BillingModesOf(m)
  <2>1. CASE mode = "none"
    BY <2>1, DefaultFits
  <2>2. CASE mode # "none"
    BY <2>2 DEF CreateModel
  <2> QED
    BY <2>1, <2>2
<1> DEFINE n == [exists |-> TRUE, modality |-> m, request |-> r, second |-> s, by |-> by, mode |-> md]
<1>2. PICK new \in ModelRow : /\ new = n /\ new.modality = m /\ new.mode = md /\ new.by = by
                              /\ new.request = r /\ new.second = s
  <2>1. n \in ModelRow
    BY DEF ModelRow
  <2> QED
    BY <2>1
<1>3. new = NewModel(m, mode, r, s, by)
  BY <1>1, <1>2 DEF NewModel
<1> HIDE DEF n
<1>4. /\ aiModel' = new /\ asked' = [asked EXCEPT !.request = new.request, !.second = new.second]
      /\ UNCHANGED <<provider, edit>> /\ ~aiModel.exists /\ ProviderExists(new.by)
  BY <1>2, <1>3 DEF CreateModel
<1>5. edit' \in [CatalogueEdits -> CatalogueEditRow]
  BY <1>4, CatalogueTypes DEF CatalogueInv, CatalogueKept
<1>6. \A e \in CatalogueEdits : edit'[e] = edit[e] /\ edit[e].pc # "model"
  BY <1>4 DEF CatalogueInv, ModelLocked
<1> QED
  BY <1>1, <1>2, <1>4, <1>5, <1>6, ModelWritten

\* What normalize_update_model_input makes of a row.
LEMMA ModelAfterSound ==
    ASSUME NEW p \in ModelPayload, NEW row \in ModelRow
    PROVE  /\ ModelAfter(p, row) \in ModelRow
           /\ ModelAfter(p, row).request = Sent(p, "request", row.request)
           /\ ModelAfter(p, row).second = Sent(p, "second", row.second)
           /\ "mode" \notin DOMAIN p /\ ModelAfter(p, row).modality # row.modality =>
                 ModelAfter(p, row).mode \in BillingModesOf(ModelAfter(p, row).modality)
<1> DEFINE Fits == /\ "modality" \in DOMAIN p => p["modality"] \in Modalities
                   /\ "mode" \in DOMAIN p => p["mode"] \in BillingModes /\ p.mode = p["mode"]
                   /\ "request" \in DOMAIN p => p["request"] \in 0 .. 1
                   /\ "second" \in DOMAIN p => p["second"] \in 0 .. 1
                   /\ "by" \in DOMAIN p => p["by"] \in {{}} \cup {{i} : i \in Providers}
<1>1. Fits
  <2>1. ASSUME p \in [modality : Modalities] PROVE Fits
    BY <2>1
  <2>2. ASSUME p \in [mode : BillingModes] PROVE Fits
    BY <2>2
  <2>3. ASSUME p \in [modality : Modalities, mode : BillingModes] PROVE Fits
    BY <2>3
  <2>4. ASSUME p \in [request : 0 .. 1] PROVE Fits
    BY <2>4
  <2>5. ASSUME p \in [second : 0 .. 1] PROVE Fits
    BY <2>5
  <2>6. ASSUME p \in [by : {{}} \cup {{i} : i \in Providers}] PROVE Fits
    BY <2>6
  <2> HIDE DEF Fits
  <2> QED
    BY <2>1, <2>2, <2>3, <2>4, <2>5, <2>6 DEF ModelPayload
<1>2. PICK modality \in Modalities : modality = Sent(p, "modality", row.modality)
  BY <1>1 DEF Sent, ModelRow
<1>3. PICK request \in 0 .. 1 : request = Sent(p, "request", row.request)
  BY <1>1 DEF Sent, ModelRow
<1>4. PICK second \in 0 .. 1 : second = Sent(p, "second", row.second)
  BY <1>1 DEF Sent, ModelRow
<1>5. PICK by \in {{}} \cup {{i} : i \in Providers} : by = Sent(p, "by", row.by)
  BY <1>1 DEF Sent, ModelRow
<1>6. PICK mode \in BillingModes :
         /\ mode = ModeAfter(p, row, modality, request, second)
         /\ "mode" \notin DOMAIN p /\ modality # row.modality => mode \in BillingModesOf(modality)
  BY <1>1, DefaultFits DEF ModeAfter, ModelRow
<1> HIDE DEF Fits
<1> DEFINE n == [exists |-> TRUE, modality |-> modality, request |-> request, second |-> second,
                 mode |-> mode, by |-> by]
<1>7. ModelAfter(p, row) = n
  BY <1>2, <1>3, <1>4, <1>5, <1>6 DEF ModelAfter
<1>8. n \in ModelRow /\ n.modality = modality /\ n.request = request /\ n.second = second /\ n.mode = mode
  BY DEF ModelRow
<1> HIDE DEF n
<1> QED
  BY <1>3, <1>4, <1>6, <1>7, <1>8

\* update_model_in_transaction: the row is still the one that was read, and what
\* is written is billed in a mode it has.
LEMMA UpdateModelCommitSound ==
    ASSUME CatalogueInv, NEW e \in CatalogueEdits, UpdateModelCommit(e)
    PROVE  CatalogueInv'
<1>1. /\ aiModel \in ModelRow /\ edit \in [CatalogueEdits -> CatalogueEditRow]
      /\ aiModel.request = asked.request /\ aiModel.second = asked.second
  BY CatalogueTypes DEF CatalogueInv, CatalogueKept, CatalogueUpdatesKept
<1>2. PICK row \in ModelRow : row = aiModel
  BY <1>1
<1>3. edit[e].read = row /\ edit[e].pc = "model"
  BY <1>2 DEF CatalogueInv, ModelLocked, UpdateModelCommit
<1>4. PICK p \in ModelPayload : p = edit[e].payload
  BY <1>3 DEF CatalogueInv, ModelLocked
<1>5. PICK new \in ModelRow :
         /\ new = ModelAfter(p, row)
         /\ new.request = Sent(p, "request", row.request) /\ new.second = Sent(p, "second", row.second)
         /\ "mode" \notin DOMAIN p /\ new.modality # row.modality => new.mode \in BillingModesOf(new.modality)
  BY ModelAfterSound
<1> DEFINE q == [pc |-> "done", id |-> {}, payload |-> NoRequest, seen |-> NoProvider, read |-> NoModel]
<1>6. q \in CatalogueEditRow /\ q.pc = "done"
  BY NoRows
<1>7. edit' = [edit EXCEPT ![e] = q] /\ UNCHANGED provider
  BY DEF UpdateModelCommit
<1> HIDE DEF q
<1>8. edit' \in [CatalogueEdits -> CatalogueEditRow] /\ edit'[e].pc = "done"
      /\ \A f \in CatalogueEdits : f # e => edit'[f] = edit[f] /\ edit[f].pc # "model"
  BY <1>1, <1>3, <1>6, <1>7 DEF CatalogueInv, ModelLocked
<1> DEFINE ok == /\ ("mode" \in DOMAIN p \/ new.modality = row.modality) => new.mode \in BillingModesOf(new.modality)
                 /\ ProviderExists(new.by)
<1>9. CASE ok
  <2>1. /\ aiModel' = new
        /\ asked' = [asked EXCEPT !.request = Sent(p, "request", asked.request),
                                  !.second = Sent(p, "second", asked.second)]
    BY <1>3, <1>4, <1>5, <1>9 DEF UpdateModelCommit
  <2>2. asked' = [asked EXCEPT !.request = new.request, !.second = new.second]
    BY <1>1, <1>2, <1>5, <2>1
  <2>3. new.mode \in BillingModesOf(new.modality) /\ ProviderExists(new.by)
    BY <1>5, <1>9
  <2> QED
    BY <1>7, <1>8, <2>1, <2>2, <2>3, ModelWritten
<1>10. CASE ~ok
  <2>1. UNCHANGED <<aiModel, asked, provider>>
    BY <1>3, <1>4, <1>5, <1>7, <1>10 DEF UpdateModelCommit
  <2>2. ProviderLocked'
    BY <1>8, <2>1 DEF CatalogueInv, ProviderLocked
  <2>3. ModelLocked'
    BY <1>8 DEF ModelLocked
  <2> QED
    BY <1>8, <2>1, <2>2, <2>3, CatalogueRead
<1> QED
  BY <1>9, <1>10

\* Every step about the catalogue keeps the invariant.
LEMMA CatalogueNextSound ==
    ASSUME CatalogueInv, ProviderNext \/ ModelNext
    PROVE  CatalogueInv'
<1>1. ASSUME NEW i \in Providers, NEW on \in BOOLEAN, NEW s \in 0 .. 1, CreateProvider(i, on, s)
      PROVE  CatalogueInv'
  BY <1>1, CreateProviderSound
<1>2. ASSUME NEW e \in CatalogueEdits, NEW i \in Providers, UpdateProviderCommit(e, i)
      PROVE  CatalogueInv'
  BY <1>2, UpdateProviderCommitSound
<1>3. ASSUME NEW e \in CatalogueEdits, NEW i \in Providers, NEW p \in ProviderPayload, UpdateProviderLock(e, i, p)
      PROVE  CatalogueInv'
  BY <1>3, UpdateProviderLockSound
<1>4. ASSUME NEW m \in Modalities, NEW mode \in BillingModes \cup {"none"}, NEW r \in 0 .. 1, NEW s \in 0 .. 1,
             NEW by \in {{}} \cup {{i} : i \in Providers}, CreateModel(m, mode, r, s, by)
      PROVE  CatalogueInv'
  BY <1>4, CreateModelSound
<1>5. ASSUME NEW e \in CatalogueEdits, NEW p \in ModelPayload, UpdateModelLock(e, p)
      PROVE  CatalogueInv'
  BY <1>5, UpdateModelLockSound
<1> QED
  BY <1>1, <1>2, <1>3, <1>4, <1>5, UpdateModelCommitSound DEF ProviderNext, ModelNext, CreateProviderNext

LEMMA CatalogueStutter ==
    ASSUME CatalogueInv, UNCHANGED catalogueVars
    PROVE  CatalogueInv'
<1>1. UNCHANGED <<provider, aiModel, edit, asked>>
  BY DEF catalogueVars
<1>2. edit' \in [CatalogueEdits -> CatalogueEditRow]
  BY <1>1, CatalogueTypes DEF CatalogueInv, CatalogueKept
<1>3. ProviderLocked' /\ ModelLocked'
  BY <1>1 DEF CatalogueInv, ProviderLocked, ModelLocked
<1> QED
  BY <1>1, <1>2, <1>3, CatalogueRead

-----------------------------------------------------------------------------
(* The back office. *)

OfficeInv == AccountsInv /\ KeysInv /\ SettingsInv /\ CatalogueInv

LEMMA OfficeInit ==
    ASSUME Init
    PROVE  OfficeInv
<1>1. (TeamInit \/ MfaInit) /\ ApiKeysInit /\ SettingsInit /\ CatalogueInit
  BY DEF Init
<1> QED
  BY <1>1, AccountsInitSound, KeysInitSound, SettingsInitSound, CatalogueInitSound DEF OfficeInv

\* Each step is one of a single part and leaves the others alone.
LEMMA OfficeStep ==
    ASSUME OfficeInv, [Next]_mcVars
    PROVE  OfficeInv'
<1>1. CASE AccountsCast
  <2>1. AccountsInv'
    BY <1>1, TeamStepSound, MfaStepSound DEF OfficeInv, AccountsCast, TeamNext, MfaNext
  <2> QED
    BY <1>1, <2>1, KeysStutter, SettingsStutter, CatalogueStutter DEF OfficeInv, AccountsCast
<1>2. CASE KeysCast
  <2>1. KeysInv'
    <3>1. (KeyIds \ ServerKeyIds) \in SUBSET KeyIds /\ ServerKeyIds \in SUBSET KeyIds
      BY ApiKeysAssumption
    <3> QED
      BY <1>2, <3>1, KeysNextSound DEF OfficeInv, KeysCast
  <2> QED
    BY <1>2, <2>1, AccountsStutter, SettingsStutter, CatalogueStutter DEF OfficeInv, KeysCast
<1>3. CASE SettingsCast
  <2>1. SettingsInv'
    BY <1>3, SettingsNextSound DEF OfficeInv, SettingsCast
  <2> QED
    BY <1>3, <2>1, AccountsStutter, KeysStutter, CatalogueStutter DEF OfficeInv, SettingsCast
<1>4. CASE CatalogueCast
  <2>1. CatalogueInv'
    BY <1>4, CatalogueNextSound DEF OfficeInv, CatalogueCast
  <2> QED
    BY <1>4, <2>1, AccountsStutter, KeysStutter, SettingsStutter DEF OfficeInv, CatalogueCast
<1>5. CASE UNCHANGED mcVars
  BY <1>5, AccountsStutter, KeysStutter, SettingsStutter, CatalogueStutter DEF OfficeInv, mcVars
<1> QED
  BY <1>1, <1>2, <1>3, <1>4, <1>5 DEF Next

LEMMA OfficeInvariant == Spec => []OfficeInv
<1>1. Init => OfficeInv
  BY OfficeInit
<1>2. OfficeInv /\ [Next]_mcVars => OfficeInv'
  BY OfficeStep
<1> QED
  BY <1>1, <1>2, PTL DEF Spec

\* Members and roles (team/admin.rs, iam/admin.rs): as long as no two requests
\* overlap there is an active owner, only owners take owners away and everybody
\* has a role, for any number of members and requests.
THEOREM TeamIsKept == Spec => []TeamKept
<1>1. OfficeInv => TeamKept
  BY AccountsKept DEF OfficeInv
<1> QED
  BY <1>1, OfficeInvariant, PTL

\* The second factor (mfa.rs): a recovery code lets one request in, whatever
\* overlaps; by turns an enabled factor has the secret that was verified, and at
\* most one set of codes is valid.
THEOREM SecondFactorIsKept == Spec => []MfaKept
<1>1. OfficeInv => MfaKept
  BY AccountsKept DEF OfficeInv
<1> QED
  BY <1>1, OfficeInvariant, PTL

\* API keys, settings and catalogue (api_keys.rs, server_api.rs, system/,
\* ai/admin.rs): no concurrent edit is lost, keys that are lost let nobody in,
\* mail that is on can be sent, and a model is billed in a mode that it has.
THEOREM OfficeIsKept == Spec => []OfficeKept
<1>1. OfficeInv => OfficeKept
  BY KeysKeptByInvariant, SettingsKeptByInvariant DEF OfficeInv, OfficeKept, CatalogueInv
<1> QED
  BY <1>1, OfficeInvariant, PTL

\* A member who is disabled stays so (invitation.rs), whatever overlaps.
THEOREM DisabledForGood == Spec => DisabledIsFinal
<1> DEFINE Stays == \A m \in Members : member[m].st = "disabled" => member'[m].st = "disabled"
<1>1. OfficeInv /\ [Next]_mcVars => [Stays]_accountVars
  <2>1. SUFFICES ASSUME OfficeInv, [Next]_mcVars, ~UNCHANGED accountVars PROVE Stays
    OBVIOUS
  <2>2. CASE \E r \in Requests : TeamStep(r)
    BY <2>1, <2>2, DisabledStays DEF OfficeInv
  <2>3. CASE \E r \in Requests : MfaStep(r)
    <3>1. UNCHANGED member
      BY <2>3 DEF MfaStep, MfaRead, LoginCode, SetupCommit, EnableCommit, VerifyInTransaction,
                  DisableMfaCommit, RegenerateCommit, CliDisableMfa, MfaUnchanged
    <3> QED
      BY <3>1
  <2> QED
    BY <2>1, <2>2, <2>3 DEF Next, mcVars, AccountsCast, KeysCast, SettingsCast, CatalogueCast, TeamNext, MfaNext
<1> QED
  BY <1>1, OfficeInvariant, PTL DEF Spec, DisabledIsFinal
=============================================================================
