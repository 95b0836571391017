------------------------------- MODULE ApiKeys -------------------------------
(***************************************************************************)
(* The API keys of customers (ai/api_keys.rs) and of applications          *)
(* (server_api.rs), and the requests that come with one.                   *)
(*                                                                         *)
(* Updates and revocations read the row under its lock; the statement that *)
(* authenticates a request takes no lock, and the one that notes its time  *)
(* waits for whoever has it.  A key is checked at the start of a request   *)
(* and never again.                                                        *)
(***************************************************************************)
EXTENDS Integers, Sequences

CONSTANTS
    KeyIds,         \* ids of keys
    ServerKeyIds,   \* those of applications, the others belong to customers
    KeyEdits,       \* calls that create, update or revoke a key
    KeyCalls,       \* requests that carry a key
    MaxKeyClock     \* bound of the clock

ASSUME ApiKeysAssumption ==
    /\ ServerKeyIds \subseteq KeyIds
    /\ MaxKeyClock \in Nat \ {0}

VARIABLES
    apiKey,         \* the rows of ai_api_keys and server_api_keys
    active,         \* tenant, owners of keys and subscription that are active
    keyEdit,        \* the calls of the back office
    keyCall,        \* the requests
    keyClock,       \* now() of the database
    keySaid,        \* history: what was last asked for, field by field
    keyTrail        \* audit_logs: the row before and after each change

apiKeyVars == <<apiKey, active, keyEdit, keyCall, keyClock, keySaid, keyTrail>>

\* expires_at; the last one stands for null, which the clock does not reach.
ExpiresAt == 1 .. MaxKeyClock + 1

Never == MaxKeyClock + 1

\* daily_spend_limit_minor; the keys of applications have none.
Limits(k) == IF k \in ServerKeyIds THEN {0} ELSE {1, 2}

KeyRow == [exists : BOOLEAN, status : {"active", "revoked"}, expires : ExpiresAt, limit : 0 .. 2]

NoKey == [exists |-> FALSE, status |-> "active", expires |-> Never, limit |-> 0]

\* What an administrator asks for; every field may be left out.
KeyPayload(k) ==
    [op : {"limit"}, limit : Limits(k), expires : {Never}] \cup [op : {"expires"}, limit : {0}, expires : ExpiresAt]
        \cup [op : {"revoke"}, limit : {0}, expires : {Never}]

NoPayload == [op |-> "none", limit |-> 0, expires |-> Never]

\* Whoever a key belongs to, the tenant and the subscription a server key needs.
Owners == KeyIds \X {"owner"}

Parties == Owners \cup {<<"tenant">>, <<"subscription">>}

ApiKeysTypeOK ==
    /\ apiKey \in [KeyIds -> KeyRow]
    /\ active \subseteq Parties
    /\ keyEdit \in [KeyEdits -> [pc : {"idle", "checked", "locked", "done"}, id : SUBSET KeyIds,
                                 payload : (UNION {KeyPayload(k) : k \in KeyIds}) \cup {NoPayload}, before : KeyRow]]
    /\ keyCall \in [KeyCalls -> [pc : {"idle", "begun", "found", "in", "served", "refused"}, id : SUBSET KeyIds,
                                 lost : BOOLEAN]]
    /\ keyClock \in 1 .. MaxKeyClock
    /\ keySaid \in [KeyIds -> KeyRow]
    /\ \A k \in KeyIds : keyTrail[k] \in Seq([before : KeyRow, after : KeyRow])

ApiKeysInit ==
    /\ apiKey = [k \in KeyIds |-> NoKey]
    /\ active = Parties
    /\ keyEdit = [e \in KeyEdits |-> [pc |-> "idle", id |-> {}, payload |-> NoPayload, before |-> NoKey]]
    /\ keyCall = [c \in KeyCalls |-> [pc |-> "idle", id |-> {}, lost |-> FALSE]]
    /\ keyClock = 1
    /\ keySaid = [k \in KeyIds |-> NoKey]
    /\ keyTrail = [k \in KeyIds |-> <<>>]

-----------------------------------------------------------------------------
(* The back office. *)

\* ensure_active_customer and ensure_active_application, before the
\* transaction; the id of a key is new.
CreateKeyCheck(e, k) ==
    /\ keyEdit[e].pc = "idle" /\ ~apiKey[k].exists /\ <<k, "owner">> \in active
    /\ \A f \in KeyEdits : k \notin keyEdit[f].id
    /\ keyEdit' = [keyEdit EXCEPT ![e].pc = "checked", ![e].id = {k}]
    /\ UNCHANGED <<apiKey, active, keyCall, keyClock, keySaid, keyTrail>>

\* The row create_ai_api_key inserts.
NewKey(l) == [exists |-> TRUE, status |-> "active", expires |-> Never, limit |-> l]

\* The insert of create_ai_api_key and create_server_api_key, whatever has
\* become of the owner by then.
CreateKeyInsert(e, k, l) ==
    /\ keyEdit[e].pc = "checked" /\ k \in keyEdit[e].id
    /\ apiKey' = [apiKey EXCEPT ![k] = NewKey(l)]
    /\ keySaid' = [keySaid EXCEPT ![k] = NewKey(l)]
    /\ keyTrail' = [keyTrail EXCEPT ![k] = <<[before |-> NoKey, after |-> NewKey(l)]>>]
    /\ keyEdit' = [keyEdit EXCEPT ![e] = [pc |-> "done", id |-> {}, payload |-> NoPayload, before |-> NoKey]]
    /\ UNCHANGED <<active, keyCall, keyClock>>

\* The lock of find_api_key_for_update and find_key_for_update.
KeyFree(k) == \A e \in KeyEdits : ~(keyEdit[e].pc = "locked" /\ k \in keyEdit[e].id)

\* The locked read; a second revocation ends here.
EditKeyLock(e, k, p) ==
    /\ keyEdit[e].pc = "idle" /\ apiKey[k].exists /\ KeyFree(k)
    /\ keyEdit' = [keyEdit EXCEPT ![e] =
                       IF p.op = "revoke" /\ apiKey[k].status = "revoked"
                       THEN [pc |-> "done", id |-> {}, payload |-> NoPayload, before |-> NoKey]
                       ELSE [pc |-> "locked", id |-> {k}, payload |-> p, before |-> apiKey[k]]]
    /\ UNCHANGED <<apiKey, active, keyCall, keyClock, keySaid, keyTrail>>

\* What one field of a payload does to a row.
Asked(p, row) ==
    CASE p.op = "limit"   -> [row EXCEPT !.limit = p.limit]
      [] p.op = "expires" -> [row EXCEPT !.expires = p.expires]
      [] p.op = "revoke"  -> [row EXCEPT !.status = "revoked"]

\* update_ai_api_key and update_server_api_key write the fields they may
\* change, from the payload or from the row read; a revocation the status only.
WrittenKey(p, before, row) ==
    IF p.op = "revoke" THEN Asked(p, row)
    ELSE [Asked(p, before) EXCEPT !.status = row.status]

EditKeyCommit(e, k) ==
    /\ keyEdit[e].pc = "locked" /\ k \in keyEdit[e].id
    /\ LET p == keyEdit[e].payload
           before == keyEdit[e].before
       IN  /\ apiKey' = [apiKey EXCEPT ![k] = WrittenKey(p, before, @)]
           /\ keySaid' = [keySaid EXCEPT ![k] = Asked(p, @)]
           /\ keyTrail' = [keyTrail EXCEPT ![k] = Append(@, [before |-> before, after |-> Asked(p, before)])]
    /\ keyEdit' = [keyEdit EXCEPT ![e] = [pc |-> "done", id |-> {}, payload |-> NoPayload, before |-> NoKey]]
    /\ UNCHANGED <<active, keyCall, keyClock>>

\* A customer or an application is disabled, the tenant suspended, the
\* subscription ended, by the other components.
Deactivate(x) ==
    /\ x \in active
    /\ active' = active \ {x}
    /\ UNCHANGED <<apiKey, keyEdit, keyCall, keyClock, keySaid, keyTrail>>

TickKeyClock ==
    /\ keyClock < MaxKeyClock
    /\ keyClock' = keyClock + 1
    /\ UNCHANGED <<apiKey, active, keyEdit, keyCall, keySaid, keyTrail>>

-----------------------------------------------------------------------------
(* Requests. *)

\* c.status = 'active' and a.status = 'active'.
OwnerActive(k) == <<k, "owner">> \in active

\* The where clause of authenticate_api_key and authenticate_server_key.
KeyUsable(k) ==
    /\ apiKey[k].exists /\ apiKey[k].status = "active" /\ apiKey[k].expires > keyClock
    /\ <<"tenant">> \in active /\ OwnerActive(k)

\* What does not come back: a revoked key, an owner or a tenant out of work.
AccessLost(k) ==
    apiKey[k].status = "revoked" \/ <<k, "owner">> \notin active \/ <<"tenant">> \notin active

\* A request arrives.
CallBegin(c, k) ==
    /\ keyCall[c].pc = "idle" /\ apiKey[k].exists
    /\ keyCall' = [keyCall EXCEPT ![c] = [pc |-> "begun", id |-> {k}, lost |-> AccessLost(k)]]
    /\ UNCHANGED <<apiKey, active, keyEdit, keyClock, keySaid, keyTrail>>

CallFind(c, k) ==
    /\ keyCall[c].pc = "begun" /\ k \in keyCall[c].id
    /\ keyCall' = [keyCall EXCEPT ![c].pc = IF KeyUsable(k) THEN "found" ELSE "refused"]
    /\ UNCHANGED <<apiKey, active, keyEdit, keyClock, keySaid, keyTrail>>

\* last_used_at, which waits for the lock of the row; the update has no
\* condition, so the request goes on even when the key was revoked meanwhile.
CallTouch(c, k) ==
    /\ keyCall[c].pc = "found" /\ k \in keyCall[c].id /\ KeyFree(k)
    /\ keyCall' = [keyCall EXCEPT ![c].pc = IF k \in ServerKeyIds THEN "in" ELSE "served"]
    /\ UNCHANGED <<apiKey, active, keyEdit, keyClock, keySaid, keyTrail>>

\* ensure_server_customer_subscription for the customer the header names.
CallSubscription(c, k) ==
    /\ keyCall[c].pc = "in" /\ k \in keyCall[c].id
    /\ keyCall' = [keyCall EXCEPT ![c].pc = IF <<"subscription">> \in active THEN "served" ELSE "refused"]
    /\ UNCHANGED <<apiKey, active, keyEdit, keyClock, keySaid, keyTrail>>

-----------------------------------------------------------------------------
\* What happens to the keys ks and their requests.
ApiKeysNext(ks) ==
    \/ \E e \in KeyEdits, k \in ks :
           \/ CreateKeyCheck(e, k) \/ EditKeyCommit(e, k)
           \/ \E l \in Limits(k) : CreateKeyInsert(e, k, l)
           \/ \E p \in KeyPayload(k) : EditKeyLock(e, k, p)
    \/ \E c \in KeyCalls, k \in ks :
           CallBegin(c, k) \/ CallFind(c, k) \/ CallTouch(c, k) \/ CallSubscription(c, k)
    \/ \E x \in (ks \X {"owner"}) \cup {<<"tenant">>, <<"subscription">>} : Deactivate(x)
    \/ TickKeyClock

-----------------------------------------------------------------------------
\* Concurrent updates and revocations of one key are all kept, so a key that
\* was revoked stays revoked whatever update overlapped, and the audit log
\* tells it without a gap: each entry starts with the row the one before it
\* has left (find_api_key_for_update).
KeyEditsKept ==
    \A k \in KeyIds :
        /\ apiKey[k] = keySaid[k]
        /\ \A i \in 2 .. Len(keyTrail[k]) : keyTrail[k][i].before = keyTrail[k][i - 1].after

\* A request that began after its key was revoked, or its owner or its tenant
\* lost, is not served, also when the key was created or extended in between
\* (authenticate_api_key, authenticate_server_key).
LostAccessEnds == \A c \in KeyCalls : keyCall[c].lost => keyCall[c].pc \notin {"in", "served"}

\* Edits and requests of API keys together (api_keys.rs, server_api.rs).
ApiKeysKept == ApiKeysTypeOK /\ KeyEditsKept /\ LostAccessEnds
=============================================================================
