---------------------------- MODULE SecureScripts ---------------------------
(***************************************************************************)
(* Scripts that are delivered to clients encrypted and signed              *)
(* (secure_script/admin.rs, secure_script/repository.rs,                   *)
(* secure_script/client.rs, and the check of the SDK in script.rs).        *)
(*                                                                         *)
(* An update of the content signs content and version code before its      *)
(* transaction, with the version code that it read when the request names  *)
(* none, and the statement keeps the version code of the row in that case. *)
(***************************************************************************)
EXTENDS Integers

CONSTANTS
    ScriptCalls,     \* concurrent requests of the back office on the script
    Contents,        \* contents the back office uploads
    VersionCodes

ASSUME ScriptsAssumption == VersionCodes # {} /\ VersionCodes \subseteq Nat \ {0}

VARIABLES
    script,          \* the row of secure_scripts
    scriptCall,      \* the handlers of the back office
    overtaken        \* the last update named no version code and met a changed one

scriptVars == <<script, scriptCall, overtaken>>

Keep == 0            \* the request names no version code

Empty == "empty"     \* the content of a new script

Signed == [content : Contents \cup {Empty}, code : VersionCodes]

ScriptRow == [st : {"none", "draft", "published", "deprecated"},
              content : Contents \cup {Empty}, code : VersionCodes, sig : Signed]

ScriptCallRow == [pc : {"idle", "checked"}, op : {"content", "publish", "deprecate"},
                  content : Contents \cup {Empty}, code : VersionCodes \cup {Keep}, before : ScriptRow]

NewScript(code) == [st |-> "draft", content |-> Empty, code |-> code,
                    sig |-> [content |-> Empty, code |-> code]]

NoScript == [NewScript(CHOOSE c \in VersionCodes : TRUE) EXCEPT !.st = "none"]

\* Between two requests.
IdleScriptCall == [pc |-> "idle", op |-> "content", content |-> Empty, code |-> Keep, before |-> NoScript]

ScriptsTypeOK ==
    /\ script \in ScriptRow
    /\ scriptCall \in [ScriptCalls -> ScriptCallRow]
    /\ overtaken \in BOOLEAN

ScriptsInit ==
    /\ script = NoScript
    /\ scriptCall = [o \in ScriptCalls |-> IdleScriptCall]
    /\ overtaken = FALSE

\* create_secure_script: a draft without content, signed as such.
CreateSecureScript(code) ==
    /\ script.st = "none"
    /\ script' = NewScript(code)
    /\ UNCHANGED <<scriptCall, overtaken>>

\* The reading half of update_secure_script_content: any status will do.
CheckContent(o, content, code) ==
    /\ scriptCall[o].pc = "idle" /\ script.st # "none"
    /\ scriptCall' = [scriptCall EXCEPT ![o] = [pc |-> "checked", op |-> "content",
                        content |-> content, code |-> code, before |-> script]]
    /\ UNCHANGED <<script, overtaken>>

\* payload.version_code.unwrap_or(before.version_code).
SignedContent(o) ==
    [content |-> scriptCall[o].content,
     code |-> IF scriptCall[o].code = Keep THEN scriptCall[o].before.code ELSE scriptCall[o].code]

\* update_secure_script_content_in_transaction: the script is a draft again.
UpdateContent(o) ==
    /\ scriptCall[o].pc = "checked" /\ scriptCall[o].op = "content"
    /\ script' = [st |-> "draft", content |-> scriptCall[o].content, sig |-> SignedContent(o),
                  code |-> IF scriptCall[o].code = Keep THEN script.code ELSE scriptCall[o].code]
    /\ overtaken' = (scriptCall[o].code = Keep /\ script.code # scriptCall[o].before.code)
    /\ scriptCall' = [scriptCall EXCEPT ![o] = IdleScriptCall]

ScriptStatusExpected(op) == IF op = "publish" THEN "draft" ELSE "published"

\* The reading half of mutate_script_status.
CheckScriptStatus(o, op) ==
    /\ scriptCall[o].pc = "idle" /\ script.st = ScriptStatusExpected(op)
    /\ scriptCall' = [scriptCall EXCEPT ![o] = [@ EXCEPT !.pc = "checked", !.op = op, !.before = script]]
    /\ UNCHANGED <<script, overtaken>>

\* set_secure_script_status_in_transaction.
MutateScriptStatus(o) ==
    LET op == scriptCall[o].op IN
    /\ scriptCall[o].pc = "checked" /\ op # "content"
    /\ script' = IF script.st # ScriptStatusExpected(op) THEN script
                  ELSE [script EXCEPT !.st = IF op = "publish" THEN "published" ELSE "deprecated"]
    /\ scriptCall' = [scriptCall EXCEPT ![o] = IdleScriptCall]
    /\ UNCHANGED overtaken

ScriptsNext ==
    \/ \E code \in VersionCodes : CreateSecureScript(code)
    \/ \E o \in ScriptCalls :
          \/ \E content \in Contents, code \in VersionCodes \cup {Keep} : CheckContent(o, content, code)
          \/ \E op \in {"publish", "deprecate"} : CheckScriptStatus(o, op)
          \/ UpdateContent(o) \/ MutateScriptStatus(o)

-----------------------------------------------------------------------------
\* validate_fetchable_script; features and expiry only refuse more.
Fetchable == script.st = "published"

\* verify_and_decode_script of the SDK.
VerifiesOnClient(row) == row.sig = [content |-> row.content, code |-> row.code]

\* A script that clients fetch, or that can be published for them, verifies on
\* the client, unless the update that wrote it named no version code and was
\* overtaken by one that changed it (update_secure_script_content signs before
\* its transaction).
ScriptSignatureFits ==
    (Fetchable \/ script.st = "draft") => (VerifiesOnClient(script) \/ overtaken)
=============================================================================
