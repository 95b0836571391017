------------------------------ MODULE Settings -------------------------------
(***************************************************************************)
(* The settings of the system (system/admin.rs), one row per key, and the  *)
(* single row with the SMTP settings (system/email.rs).                    *)
(*                                                                         *)
(* An update reads the row with FOR UPDATE and writes it with an insert    *)
(* that updates on conflict.  As long as there is no row nothing is        *)
(* locked, and first updates can overlap.  Hosts, ports and mailboxes are  *)
(* reduced to whether they are given.                                      *)
(***************************************************************************)
EXTENDS Integers, Sequences

CONSTANTS
    SettingEdits,   \* calls of update_system_setting, for one key
    EmailEdits,     \* calls of update_email_settings
    EmailTests      \* calls of test_email_settings

VARIABLES
    setting,        \* the value of the key in system_settings, 0 for no row
    settingEdit,    \* the calls of update_system_setting
    settingTrail,   \* their entries in audit_logs
    email,          \* the row of email_settings
    emailEdit,      \* the calls of update_email_settings
    emailTest,      \* the calls of test_email_settings
    emailSaid,      \* history: the password last asked for, 0 for none
    firstEmails     \* history: how many updates have found no row

settingVars == <<setting, settingEdit, settingTrail, email, emailEdit, emailTest, emailSaid, firstEmails>>

Values == 0 .. 2

\* EmailSettingsRecord; address is whether host and sender are given, password
\* 0 is none.
EmailRow == [exists : BOOLEAN, enabled : BOOLEAN, address : BOOLEAN, user : BOOLEAN, password : Values,
             tested : {"none", "success", "failed"}]

NoEmail == [exists |-> FALSE, enabled |-> FALSE, address |-> FALSE, user |-> FALSE, password |-> 0,
            tested |-> "none"]

\* UpdateEmailSettingsRequest: all but the password is always sent.
EmailPayload == [enabled : BOOLEAN, address : BOOLEAN, user : BOOLEAN, password : Values, clear : BOOLEAN]

NoEmailPayload == [enabled |-> FALSE, address |-> FALSE, user |-> FALSE, password |-> 0, clear |-> FALSE]

\* Those tried: an address is left out only by who has no mail server.
EmailPayloadIn ==
    {p \in EmailPayload :
        /\ ~p.address => ~p.user /\ p.password = 0
        /\ p.password = 2 => p.user
        /\ p.clear => p.user /\ p.password # 2}

SettingsTypeOK ==
    /\ setting \in Values
    /\ settingEdit \in [SettingEdits -> [pc : {"idle", "locked", "done"}, value : Values, before : Values]]
    /\ settingTrail \in Seq([before : Values, after : Values])
    /\ email \in EmailRow
    /\ emailEdit \in [EmailEdits -> [pc : {"idle", "locked", "done"}, payload : EmailPayload, before : EmailRow]]
    /\ emailTest \in [EmailTests -> [pc : {"idle", "sending", "success", "failed", "done"}]]
    /\ emailSaid \in Values
    /\ firstEmails \in Nat

SettingsInit ==
    /\ setting = 0
    /\ settingEdit = [e \in SettingEdits |-> [pc |-> "idle", value |-> 0, before |-> 0]]
    /\ settingTrail = <<>>
    /\ email = NoEmail
    /\ emailEdit = [e \in EmailEdits |-> [pc |-> "idle", payload |-> NoEmailPayload, before |-> NoEmail]]
    /\ emailTest = [t \in EmailTests |-> [pc |-> "idle"]]
    /\ emailSaid = 0
    /\ firstEmails = 0

-----------------------------------------------------------------------------
(* update_system_setting. *)

\* Nobody else has locked the row; without a row there is nothing to lock.
SettingFree(e) == \A f \in SettingEdits \ {e} : ~(settingEdit[f].pc = "locked" /\ settingEdit[f].before # 0)

\* find_setting_for_update.
SettingLock(e, v) ==
    /\ settingEdit[e].pc = "idle" /\ SettingFree(e)
    /\ settingEdit' = [settingEdit EXCEPT ![e] = [pc |-> "locked", value |-> v, before |-> setting]]
    /\ UNCHANGED <<setting, settingTrail, email, emailEdit, emailTest, emailSaid, firstEmails>>

\* upsert_setting, the audit entry and the commit.
SettingCommit(e) ==
    /\ settingEdit[e].pc = "locked" /\ SettingFree(e)
    /\ setting' = settingEdit[e].value
    /\ settingTrail' = Append(settingTrail, [before |-> settingEdit[e].before, after |-> settingEdit[e].value])
    /\ settingEdit' = [settingEdit EXCEPT ![e] = [pc |-> "done", value |-> 0, before |-> 0]]
    /\ UNCHANGED <<email, emailEdit, emailTest, emailSaid, firstEmails>>

-----------------------------------------------------------------------------
(* update_email_settings. *)

EmailFree(e) == \A f \in EmailEdits \ {e} : ~(emailEdit[f].pc = "locked" /\ emailEdit[f].before.exists)

\* find_email_settings_for_update.
EmailLock(e, p) ==
    /\ emailEdit[e].pc = "idle" /\ EmailFree(e)
    /\ emailEdit' = [emailEdit EXCEPT ![e] = [pc |-> "locked", payload |-> p, before |-> email]]
    /\ UNCHANGED <<setting, settingEdit, settingTrail, email, emailTest, emailSaid, firstEmails>>

\* The password after an update: none without a user name, and the old one when
\* none is sent.
PasswordAfter(p, old) ==
    IF ~p.user \/ p.clear THEN 0 ELSE IF p.password # 0 THEN p.password ELSE old

\* The refusals of normalize_update_request.
Accepted(p, before) ==
    /\ ~p.user => p.password = 0
    /\ p.enabled => p.address /\ (p.user => PasswordAfter(p, before.password) # 0)

\* normalize_update_request and upsert_email_settings: the result of the last
\* test is kept.
EmailAfter(p, before, row) ==
    [exists |-> TRUE, enabled |-> p.enabled, address |-> p.address, user |-> p.user,
     password |-> PasswordAfter(p, before.password), tested |-> row.tested]

EmailCommit(e) ==
    /\ emailEdit[e].pc = "locked" /\ EmailFree(e)
    /\ LET p == emailEdit[e].payload
           before == emailEdit[e].before
       IN  IF Accepted(p, before)
           THEN /\ email' = EmailAfter(p, before, email)
                /\ emailSaid' = PasswordAfter(p, emailSaid)
                /\ firstEmails' = firstEmails + (IF before.exists THEN 0 ELSE 1)
           ELSE UNCHANGED <<email, emailSaid, firstEmails>>
    /\ emailEdit' = [emailEdit EXCEPT ![e] = [pc |-> "done", payload |-> NoEmailPayload, before |-> NoEmail]]
    /\ UNCHANGED <<setting, settingEdit, settingTrail, emailTest>>

-----------------------------------------------------------------------------
(* Sending. *)

\* delivery_config_from_record: what validate_delivery_config lets pass.
Deliverable(row) == row.address /\ (row.user <=> row.password # 0)

\* load_email_delivery_config: a stored row decides, the environment only
\* without one; here it names a server.
DeliveryConfig(row) ==
    IF ~row.exists THEN "environment"
    ELSE IF ~row.enabled THEN "none"
    ELSE IF Deliverable(row) THEN "stored" ELSE "error"

\* test_email_settings up to the connection with the server.
EmailTestRead(t) ==
    /\ emailTest[t].pc = "idle"
    /\ emailTest' = [emailTest EXCEPT ![t].pc =
                         IF DeliveryConfig(email) \in {"stored", "environment"} THEN "sending" ELSE "done"]
    /\ UNCHANGED <<setting, settingEdit, settingTrail, email, emailEdit, emailSaid, firstEmails>>

\* send_email.
EmailTestSend(t, ok) ==
    /\ emailTest[t].pc = "sending"
    /\ emailTest' = [emailTest EXCEPT ![t].pc = IF ok THEN "success" ELSE "failed"]
    /\ UNCHANGED <<setting, settingEdit, settingTrail, email, emailEdit, emailSaid, firstEmails>>

\* update_email_settings_test_result: on whatever row there is by then, or none.
EmailTestStore(t) ==
    /\ emailTest[t].pc \in {"success", "failed"}
    /\ \A e \in EmailEdits : ~(emailEdit[e].pc = "locked" /\ emailEdit[e].before.exists)
    /\ email' = IF email.exists THEN [email EXCEPT !.tested = emailTest[t].pc] ELSE email
    /\ emailTest' = [emailTest EXCEPT ![t].pc = "done"]
    /\ UNCHANGED <<setting, settingEdit, settingTrail, emailEdit, emailSaid, firstEmails>>

-----------------------------------------------------------------------------
SettingNext == \E e \in SettingEdits : SettingCommit(e) \/ \E v \in {1, 2} : SettingLock(e, v)

EmailNext ==
    \/ \E e \in EmailEdits : EmailCommit(e) \/ \E p \in EmailPayloadIn : EmailLock(e, p)
    \/ \E t \in EmailTests : EmailTestRead(t) \/ EmailTestStore(t) \/ \E ok \in BOOLEAN : EmailTestSend(t, ok)

-----------------------------------------------------------------------------
\* The entries of the audit log of a setting follow from each other, except
\* those of updates that overlapped before there was a row
\* (find_setting_for_update).
SettingsTold ==
    \A i \in 2 .. Len(settingTrail) :
        settingTrail[i].before = settingTrail[i - 1].after \/ settingTrail[i].before = 0

\* Whatever overlaps, mail that is switched on can be sent: the stored settings
\* are never ones load_email_delivery_config answers with an error.
EmailUsable == DeliveryConfig(email) # "error"

\* The password last given is the one stored, unless two updates overlapped
\* before there was a row; then the later one has written the earlier one's
\* password over (find_email_settings_for_update).
EmailPasswordKept == email.password = emailSaid \/ firstEmails > 1

\* Settings and mail settings together (system/).
SettingsKept == SettingsTypeOK /\ SettingsTold /\ EmailUsable /\ EmailPasswordKept
=============================================================================
