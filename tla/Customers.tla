----------------------------- MODULE Customers -------------------------------
(***************************************************************************)
(* The account of one e-mail address of a tenant: its creation, its        *)
(* disabling and its reset token (customer/admin.rs), the confirmation of  *)
(* a reset (client_auth/password.rs) and of an e-mail address              *)
(* (client_auth/email_verify.rs), and the logins that run beside them      *)
(* (client_auth/login.rs).                                                 *)
(*                                                                         *)
(* The locks are those of PostgreSQL: the insert of a session takes a key  *)
(* share lock on its customer, which excludes the FOR UPDATE of a          *)
(* confirmation but not the UPDATE of disable_customer.                    *)
(***************************************************************************)
EXTENDS Integers, FiniteSets

CONSTANTS
    Creations,      \* calls of create_customer for the one address
    CustomerLogins, \* calls of login; each opens at most one session
    ResetTokens,    \* one-time tokens to reset the password
    VerifyTokens,   \* one-time tokens to verify the address
    Confirmations,  \* calls of confirm_password_reset and confirm_email_verify
    Disables        \* calls of disable_customer

\* A password of the model is the number of resets there have been.
ASSUME CustomersAssumption == IsFiniteSet(ResetTokens)

VARIABLES
    customer,       \* the row of customers
    creation,       \* the calls of create_customer
    created,        \* how many of them have inserted a row
    login,          \* the calls of login, with the session of each
    oneTime,        \* the rows of one_time_tokens
    confirmation,   \* the calls that confirm
    disabling,      \* the calls of disable_customer
    confirmed,      \* history: how often each one-time token has been used
    overtaken       \* history: logins that were under way when sessions were revoked

customerVars == <<customer, creation, created, login, oneTime, confirmation, disabling, confirmed, overtaken>>

OneTimeTokens == ResetTokens \cup VerifyTokens

Passwords == 0 .. Cardinality(ResetTokens) + 1

Absent == 0     \* a customer may have no password

\* The handlers write no other status; "none" is an address without a row.
CustomerRow == [st : {"none", "active", "disabled"}, pw : Passwords, verified : BOOLEAN, profile : BOOLEAN]

LoginRow == [pc : {"idle", "read", "inserted", "done", "refused"}, pw : Passwords,
             sess : {"none", "live", "revoked"}, refresh : {"none", "live", "revoked"}]

ConfirmationRow == [pc : {"idle", "token", "customer", "done", "refused"}, token : SUBSET OneTimeTokens]

CustomersTypeOK ==
    /\ customer \in CustomerRow
    /\ creation \in [Creations -> {"idle", "checked", "done"}]
    /\ created \in Nat
    /\ login \in [CustomerLogins -> LoginRow]
    /\ oneTime \in [OneTimeTokens -> {"none", "requested", "open", "consumed", "expired"}]
    /\ confirmation \in [Confirmations -> ConfirmationRow]
    /\ disabling \in [Disables -> {"idle", "updated", "tokens", "sessions", "done", "refused"}]
    /\ confirmed \in [OneTimeTokens -> Nat]
    /\ overtaken \in [CustomerLogins -> BOOLEAN]

CustomersInit ==
    /\ customer = [st |-> "none", pw |-> Absent, verified |-> FALSE, profile |-> FALSE]
    /\ creation = [c \in Creations |-> "idle"] /\ created = 0
    /\ login = [l \in CustomerLogins |-> [pc |-> "idle", pw |-> Absent, sess |-> "none", refresh |-> "none"]]
    /\ oneTime = [t \in OneTimeTokens |-> "none"]
    /\ confirmation = [k \in Confirmations |-> [pc |-> "idle", token |-> {}]]
    /\ disabling = [d \in Disables |-> "idle"]
    /\ confirmed = [t \in OneTimeTokens |-> 0]
    /\ overtaken = [l \in CustomerLogins |-> FALSE]

-----------------------------------------------------------------------------
(* Row locks. *)

\* FOR UPDATE of find_customer_for_update.
CustomerLockedForUpdate == \E k \in Confirmations : confirmation[k].pc = "customer"

\* The row lock of the UPDATE of disable_customer_in_transaction.
CustomerLockedByDisable == \E d \in Disables : disabling[d] \in {"updated", "tokens", "sessions"}

\* The key share lock of an insert that refers to the customer.
CustomerShared == \E l \in CustomerLogins : login[l].pc = "inserted"

TokenLocked(t) == \E k \in Confirmations : confirmation[k].pc \in {"token", "customer"} /\ t \in confirmation[k].token

-----------------------------------------------------------------------------
(* create_customer and update_customer. *)

CreateCheck(c) ==
    /\ creation[c] = "idle"
    /\ creation' = [creation EXCEPT ![c] = IF customer.st = "none" THEN "checked" ELSE "done"]
    /\ UNCHANGED <<customer, created, login, oneTime, confirmation, disabling, confirmed, overtaken>>

\* The unique index on the tenant and lower(email).
EmailFree == customer.st = "none"

\* The row of create_customer_in_transaction, with a password or without.
NewCustomer(p) == [st |-> "active", pw |-> p, verified |-> FALSE, profile |-> FALSE]

CreateInsert(c, p) ==
    /\ creation[c] = "checked"
    /\ creation' = [creation EXCEPT ![c] = "done"]
    /\ IF EmailFree
       THEN /\ customer' = NewCustomer(p)
            /\ created' = created + 1
       ELSE UNCHANGED <<customer, created>>
    /\ UNCHANGED <<login, oneTime, confirmation, disabling, confirmed, overtaken>>

\* One statement, which keeps with coalesce what it is not given.
UpdateCustomer ==
    /\ customer.st # "none" /\ ~customer.profile
    /\ ~CustomerLockedForUpdate /\ ~CustomerLockedByDisable
    /\ customer' = [customer EXCEPT !.profile = TRUE]
    /\ UNCHANGED <<creation, created, login, oneTime, confirmation, disabling, confirmed, overtaken>>

-----------------------------------------------------------------------------
(* login. *)

\* The status and the password are read before the transaction begins.
LoginRead(l) ==
    /\ login[l].pc = "idle" /\ customer.st # "none"
    /\ LET ok == customer.st = "active" /\ customer.pw # Absent
       IN  login' = [login EXCEPT ![l].pc = IF ok THEN "read" ELSE "refused",
                                  ![l].pw = IF ok THEN customer.pw ELSE Absent]
    /\ overtaken' = [overtaken EXCEPT ![l] = \E d \in Disables : disabling[d] = "sessions"]
    /\ UNCHANGED <<customer, creation, created, oneTime, confirmation, disabling, confirmed>>

\* The device, the session and its refresh token, not yet committed.
LoginInsert(l) ==
    /\ login[l].pc = "read" /\ ~CustomerLockedForUpdate
    /\ login' = [login EXCEPT ![l].pc = "inserted"]
    /\ UNCHANGED <<customer, creation, created, oneTime, confirmation, disabling, confirmed, overtaken>>

LoginCommit(l) ==
    /\ login[l].pc = "inserted"
    /\ login' = [login EXCEPT ![l].pc = "done", ![l].sess = "live", ![l].refresh = "live"]
    /\ UNCHANGED <<customer, creation, created, oneTime, confirmation, disabling, confirmed, overtaken>>

-----------------------------------------------------------------------------
(* One-time tokens. *)

\* reset_customer_password: whatever the status, and earlier tokens stay open.
CreateReset(t) ==
    /\ oneTime[t] = "none" /\ customer.st # "none"
    /\ oneTime' = [oneTime EXCEPT ![t] = "open"]
    /\ UNCHANGED <<customer, creation, created, login, confirmation, disabling, confirmed, overtaken>>

\* request_email_verify reads the customer, then inserts the token.
RequestVerify(t) ==
    /\ oneTime[t] = "none" /\ ~customer.verified
    /\ \E l \in CustomerLogins : login[l].sess = "live"
    /\ oneTime' = [oneTime EXCEPT ![t] = "requested"]
    /\ UNCHANGED <<customer, creation, created, login, confirmation, disabling, confirmed, overtaken>>

CreateVerify(t) ==
    /\ oneTime[t] = "requested"
    /\ oneTime' = [oneTime EXCEPT ![t] = "open"]
    /\ UNCHANGED <<customer, creation, created, login, confirmation, disabling, confirmed, overtaken>>

\* Its time is over; the row itself does not change and needs no lock.
ExpireOneTime(t) ==
    /\ oneTime[t] = "open"
    /\ oneTime' = [oneTime EXCEPT ![t] = "expired"]
    /\ UNCHANGED <<customer, creation, created, login, confirmation, disabling, confirmed, overtaken>>

\* find_active_..._token_for_update; one that is not open is refused.
LockToken(k, t) ==
    /\ confirmation[k].pc = "idle" /\ oneTime[t] \notin {"none", "requested"} /\ ~TokenLocked(t)
    /\ confirmation' = [confirmation EXCEPT ![k] = [pc |-> IF oneTime[t] = "open" THEN "token" ELSE "refused",
                                                    token |-> {t}]]
    /\ UNCHANGED <<customer, creation, created, login, oneTime, disabling, confirmed, overtaken>>

\* find_customer_for_update, also of a disabled customer.
LockCustomer(k) ==
    /\ confirmation[k].pc = "token"
    /\ ~CustomerLockedForUpdate /\ ~CustomerLockedByDisable /\ ~CustomerShared
    /\ confirmation' = [confirmation EXCEPT ![k].pc = "customer"]
    /\ UNCHANGED <<customer, creation, created, login, oneTime, disabling, confirmed, overtaken>>

\* Sessions whose insert is not committed are not seen.
SessionRevoked(r) == IF r.sess = "live" THEN [r EXCEPT !.sess = "revoked"] ELSE r

RefreshRevoked(r) == IF r.refresh = "live" THEN [r EXCEPT !.refresh = "revoked"] ELSE r

UnderWay == [l \in CustomerLogins |-> overtaken[l] \/ login[l].pc \in {"read", "inserted"}]

NewPassword == 1 + Cardinality({t \in ResetTokens : confirmed[t] > 0}) + 1

\* consume_token finds nothing when the time is over meanwhile.
StillOpen(t) == oneTime[t] = "open"

\* update_customer_password_in_transaction up to the commit.
ConfirmReset(k) ==
    /\ confirmation[k].pc = "customer"
    /\ \E t \in confirmation[k].token \cap ResetTokens :
           /\ StillOpen(t)
           /\ customer' = [customer EXCEPT !.pw = NewPassword]
           /\ oneTime' = [oneTime EXCEPT ![t] = "consumed"]
           /\ confirmed' = [confirmed EXCEPT ![t] = @ + 1]
    /\ login' = [l \in CustomerLogins |-> RefreshRevoked(SessionRevoked(login[l]))]
    /\ overtaken' = UnderWay
    /\ confirmation' = [confirmation EXCEPT ![k].pc = "done"]
    /\ UNCHANGED <<creation, created, disabling>>

\* mark_customer_email_verified up to the commit.
ConfirmVerify(k) ==
    /\ confirmation[k].pc = "customer"
    /\ \E t \in confirmation[k].token \cap VerifyTokens :
           /\ StillOpen(t)
           /\ oneTime' = [oneTime EXCEPT ![t] = "consumed"]
           /\ confirmed' = [confirmed EXCEPT ![t] = @ + 1]
    /\ customer' = [customer EXCEPT !.verified = TRUE]
    /\ confirmation' = [confirmation EXCEPT ![k].pc = "done"]
    /\ UNCHANGED <<creation, created, login, disabling, overtaken>>

\* consume_token fails, or the database does: everything is rolled back.
ConfirmFails(k) ==
    /\ confirmation[k].pc = "customer"
    /\ confirmation' = [confirmation EXCEPT ![k].pc = "refused"]
    /\ UNCHANGED <<customer, creation, created, login, oneTime, disabling, confirmed, overtaken>>

-----------------------------------------------------------------------------
(* disable_customer. *)

\* The UPDATE waits for the row and then looks at its status.
DisableUpdate(d) ==
    /\ disabling[d] = "idle" /\ customer.st # "none"
    /\ ~CustomerLockedForUpdate /\ ~CustomerLockedByDisable
    /\ disabling' = [disabling EXCEPT ![d] = IF customer.st = "disabled" THEN "refused" ELSE "updated"]
    /\ UNCHANGED <<customer, creation, created, login, oneTime, confirmation, confirmed, overtaken>>

\* revoke_customer_refresh_tokens_in_transaction.  Nothing but this
\* transaction reads the row before it is committed.
DisableTokens(d) ==
    /\ disabling[d] = "updated"
    /\ disabling' = [disabling EXCEPT ![d] = "tokens"]
    /\ login' = [l \in CustomerLogins |-> RefreshRevoked(login[l])]
    /\ UNCHANGED <<customer, creation, created, oneTime, confirmation, confirmed, overtaken>>

\* Mutant: only a session whose refresh token is still good is revoked.
DisabledSessionRefreshable(r) == IF r.refresh = "live" THEN SessionRevoked(r) ELSE r

\* revoke_customer_sessions_in_transaction.
DisabledSession(r) == SessionRevoked(r)

DisableSessions(d) ==
    /\ disabling[d] = "tokens"
    /\ disabling' = [disabling EXCEPT ![d] = "sessions"]
    /\ login' = [l \in CustomerLogins |-> DisabledSession(login[l])]
    /\ overtaken' = UnderWay
    /\ UNCHANGED <<customer, creation, created, oneTime, confirmation, confirmed>>

DisableCommit(d) ==
    /\ disabling[d] = "sessions"
    /\ disabling' = [disabling EXCEPT ![d] = "done"]
    /\ customer' = [customer EXCEPT !.st = "disabled"]
    /\ UNCHANGED <<creation, created, login, oneTime, confirmation, confirmed, overtaken>>

CustomersNext ==
    \/ UpdateCustomer
    \/ \E c \in Creations : CreateCheck(c) \/ \E p \in {Absent, 1} : CreateInsert(c, p)
    \/ \E l \in CustomerLogins : LoginRead(l) \/ LoginInsert(l) \/ LoginCommit(l)
    \/ \E t \in ResetTokens : CreateReset(t)
    \/ \E t \in VerifyTokens : RequestVerify(t) \/ CreateVerify(t)
    \/ \E t \in OneTimeTokens : ExpireOneTime(t) \/ \E k \in Confirmations : LockToken(k, t)
    \/ \E k \in Confirmations : LockCustomer(k) \/ ConfirmReset(k) \/ ConfirmVerify(k) \/ ConfirmFails(k)
    \/ \E d \in Disables : DisableUpdate(d) \/ DisableTokens(d) \/ DisableSessions(d) \/ DisableCommit(d)

-----------------------------------------------------------------------------
\* Two calls of create_customer that both find the address free make one
\* customer, and whatever confirmations race for a one-time token, it counts
\* once.
AccountsAreOne == created <= 1 /\ \A t \in OneTimeTokens : confirmed[t] <= 1

\* Neither require_client_session nor refresh looks at the customer again, so
\* a session that is not revoked is good: it was opened with the password the
\* customer has now and the customer is active, unless its login was under way
\* when disable_customer or confirm_password_reset revoked the others.
SessionsFollowTheCustomer ==
    \A l \in CustomerLogins :
        login[l].sess = "live" =>
            overtaken[l] \/ (customer.st = "active" /\ login[l].pw = customer.pw)

\* Accounts, one-time tokens and sessions of a customer together (customer/admin.rs,
\* client_auth/password.rs, client_auth/email_verify.rs).
CustomersKept == CustomersTypeOK /\ AccountsAreOne /\ SessionsFollowTheCustomer

=============================================================================
