----------------------------- MODULE AiGateway -----------------------------
(***************************************************************************)
(* The synchronous AI gateway, ai/gateway.rs: chat, image, video and       *)
(* embedding calls.  A handler looks its idempotency key up, reserves      *)
(* money in one transaction that locks the wallet row, calls the provider  *)
(* outside any transaction, and settles in a second transaction.  Handlers *)
(* run concurrently with one another and with the back office (ai/admin.rs *)
(* adjusts, limits and freezes wallets), and any of them may stop between  *)
(* two steps: the client disconnects, the process dies, the database       *)
(* answers with an error.                                                  *)
(*                                                                         *)
(* Requests rejected before the reservation for a reason of their own      *)
(* (rate limit, malformed body, unknown model, wrong currency) touch no    *)
(* table and are left out.                                                 *)
(***************************************************************************)
EXTENDS AiWallet

CONSTANTS
    Keys,        \* customer API keys
    NoKey,       \* the caller is a web session: api_key_id is null
    KeyOwner,    \* the customer an API key belongs to
    KeyLimit,    \* customer_api_keys.daily_spend_limit_minor
    IdemKeys,    \* pairs of an endpoint and an Idempotency-Key header
    NoIdem,      \* a request without the header
    Holds,       \* amounts estimate_*_hold_minor may return
    Charges,     \* amounts calculate_*_charge_minor may return
    Amounts,     \* amounts of manual adjustments
    Quotas,      \* values the back office gives to a wallet's daily limit
    MaxDay,      \* bound on the calendar
    MaxAbandon,  \* bound on the requests that stop half-way
    MaxAdmin     \* bound on the operations of the back office

VARIABLES
    req,        \* the handler's locals, per request (a request is a usage id)
    lock,       \* ai_wallets: the request whose transaction holds the row lock
    abandoned,  \* how many requests have stopped half-way
    adminOps    \* how many operations the back office has made

vars == <<walletVars, req, lock, abandoned, adminOps>>

Requests == Usages

\* No request holds the row lock.
Free == "free"

ASSUME GatewayAssumption ==
    /\ Customers /= {} /\ Models /= {}
    /\ NoKey \notin Keys /\ NoIdem \notin IdemKeys /\ Free \notin Requests
    /\ KeyOwner \in [Keys -> Customers]
    /\ KeyLimit \in [Keys -> Limit]
    /\ Holds \subseteq Nat /\ Charges \subseteq Nat
    /\ Amounts \subseteq Int /\ Quotas \subseteq Limit
    /\ MaxDay \in Nat /\ MaxAbandon \in Nat /\ MaxAdmin \in Nat

\* GatewayCaller: a web session of any customer, or the owner of an API key.
Callers == {<<c, NoKey>> : c \in Customers} \cup {<<KeyOwner[k], k>> : k \in Keys}

Progress == {"new", "reserving", "locked", "calling", "capturing", "releasing",
             "settled", "replayed", "rejected", "abandoned"}

RequestState ==
    [pc : Progress, customer : Customers, key : Keys \cup {NoKey}, model : Models,
     idem : IdemKeys \cup {NoIdem}, hold : Nat, charge : Nat, day : Nat,
     body : BOOLEAN]

TypeOK ==
    /\ WalletTypeOK
    /\ req \in [Requests -> RequestState]
    /\ lock \in [Customers -> Requests \cup {Free}]
    /\ abandoned \in Nat /\ adminOps \in Nat

NewRequest ==
    [pc |-> "new", customer |-> CHOOSE c \in Customers : TRUE, key |-> NoKey,
     model |-> CHOOSE m \in Models : TRUE, idem |-> NoIdem, hold |-> 0,
     charge |-> 0, day |-> 0, body |-> FALSE]

Init ==
    /\ WalletInit
    /\ req = [r \in Requests |-> NewRequest]
    /\ lock = [c \in Customers |-> Free]
    /\ abandoned = 0 /\ adminOps = 0

-----------------------------------------------------------------------------
(***************************************************************************)
(* Records by caller and key.  The columns that say whose a record is are  *)
(* those of the request that inserted it.                                  *)
(***************************************************************************)

Recorded == {u \in Usages : usage[u].status /= "none"}

\* The records the unique index
\* idx_ai_usage_idempotency and find_idempotent_response look at.
SameSlot(customer, key, idem) ==
    {u \in Recorded : /\ idem /= NoIdem
                      /\ req[u].customer = customer
                      /\ req[u].key = key
                      /\ req[u].idem = idem}

CustomerUsages(c) == {u \in Recorded : req[u].customer = c}
KeyUsages(k)      == {u \in Recorded : req[u].key = k}
ModelUsages(m)    == {u \in Recorded : req[u].model = m}

\* ensure_daily_spend_limits, in a transaction begun on day d.
WithinDailyLimits(r, d) ==
    LET q == req[r] IN
    /\ WithinDailyLimit(wallet[q.customer].limit,
                        DailySpend(CustomerUsages(q.customer), d), q.hold)
    /\ q.key /= NoKey =>
         WithinDailyLimit(KeyLimit[q.key], DailySpend(KeyUsages(q.key), d), q.hold)
    /\ WithinDailyLimit(ModelLimit[q.model], DailySpend(ModelUsages(q.model), d), q.hold)

\* What the reserving transaction requires of the wallet row it has locked.
MayReserve(r, d) ==
    LET w == wallet[req[r].customer] IN
    /\ w.enabled
    /\ w.balance - w.held >= req[r].hold
    /\ WithinDailyLimits(r, d)

-----------------------------------------------------------------------------
(***************************************************************************)
(* A request.                                                              *)
(***************************************************************************)

Goto(r, pc) == req' = [req EXCEPT ![r].pc = pc]

\* The request arrives and find_idempotent_response answers: a finished record
\* with a body is replayed, any other record is a conflict, no record lets the
\* request go on.
Begin(r) ==
    /\ req[r].pc = "new"
    /\ \E caller \in Callers, m \in Models, i \in IdemKeys \cup {NoIdem}, h \in Holds :
         LET found == SameSlot(caller[1], caller[2], i)
             next  == CASE found = {} -> "reserving"
                        [] \E u \in found : usage[u].status /= "running" /\ usage[u].body
                                      -> "replayed"
                        [] OTHER      -> "rejected"
         IN  req' = [req EXCEPT ![r] =
                      [pc |-> next, customer |-> caller[1], key |-> caller[2],
                       model |-> m, idem |-> i, hold |-> h, charge |-> 0,
                       day |-> day, body |-> FALSE]]
    /\ UNCHANGED <<walletVars, lock, abandoned, adminOps>>

\* Mutant: the wallet row is read without the lock.
ReserveLockUnlocked(r) ==
    /\ req[r].pc = "reserving"
    /\ \E d \in req[r].day .. day :
         /\ MayReserve(r, d)
         /\ req' = [req EXCEPT ![r].pc = "locked", ![r].day = d]
    /\ UNCHANGED <<walletVars, lock, abandoned, adminOps>>

\* The transaction, begun on some day since the look-up, gets the row lock
\* (find_wallet_for_update) and reads what the checks need.
ReserveLock(r) ==
    /\ req[r].pc = "reserving"
    /\ lock[req[r].customer] = Free
    /\ \E d \in req[r].day .. day :
         \/ /\ MayReserve(r, d)
            /\ req' = [req EXCEPT ![r].pc = "locked", ![r].day = d]
            /\ lock' = [lock EXCEPT ![req[r].customer] = r]
         \/ /\ ~MayReserve(r, d)
            /\ Goto(r, "rejected")
            /\ UNCHANGED lock
    /\ UNCHANGED <<walletVars, abandoned, adminOps>>

\* Mutant: there is no unique index on the idempotency key.
ReserveCommitNoIndex(r) ==
    /\ req[r].pc = "locked"
    /\ lock' = [lock EXCEPT ![req[r].customer] = Free]
    /\ Reserve(req[r].customer, r, req[r].hold, req[r].day)
    /\ Goto(r, "calling")
    /\ UNCHANGED <<abandoned, adminOps>>

\* The writes and the commit, or the rollback when the unique index refuses
\* the record.
ReserveCommit(r) ==
    LET q == req[r] IN
    /\ q.pc = "locked"
    /\ lock' = [lock EXCEPT ![q.customer] = Free]
    /\ \/ /\ SameSlot(q.customer, q.key, q.idem) = {}
          /\ Reserve(q.customer, r, q.hold, q.day)
          /\ Goto(r, "calling")
       \/ /\ SameSlot(q.customer, q.key, q.idem) /= {}
          /\ Goto(r, "rejected")
          /\ UNCHANGED walletVars
    /\ UNCHANGED <<abandoned, adminOps>>

\* The provider answers 2xx and the assets, if any, are cached.  The charge is
\* computed from the answer: it may be less or more than what is held.
ProviderOk(r) ==
    /\ req[r].pc = "calling"
    /\ \E charge \in Charges :
         req' = [req EXCEPT ![r].pc = "capturing", ![r].charge = charge]
    /\ UNCHANGED <<walletVars, lock, abandoned, adminOps>>

\* Mutant: an error of the provider call is returned at once.
ProviderFailReturns(r) ==
    /\ req[r].pc = "calling"
    /\ Goto(r, "rejected")
    /\ UNCHANGED <<walletVars, lock, abandoned, adminOps>>

\* The provider answers with another status or the assets cannot be cached
\* (there is a body), or the call itself fails (there is none).
ProviderFail(r) ==
    /\ req[r].pc = "calling"
    /\ \E body \in BOOLEAN :
         req' = [req EXCEPT ![r].pc = "releasing", ![r].body = body]
    /\ UNCHANGED <<walletVars, lock, abandoned, adminOps>>

\* capture_usage, one transaction on the locked row.
CaptureUsage(r) ==
    /\ req[r].pc = "capturing"
    /\ lock[req[r].customer] = Free
    /\ Capture(req[r].customer, r, req[r].charge)
    /\ Goto(r, "settled")
    /\ UNCHANGED <<lock, abandoned, adminOps>>

\* release_usage, one transaction on the locked row.
ReleaseUsage(r) ==
    /\ req[r].pc = "releasing"
    /\ lock[req[r].customer] = Free
    /\ Release(req[r].customer, r, req[r].body)
    /\ Goto(r, "settled")
    /\ UNCHANGED <<lock, abandoned, adminOps>>

\* The handler stops where it is; an open transaction is rolled back and
\* nothing else is undone.
Abandon(r) ==
    /\ abandoned < MaxAbandon
    /\ req[r].pc \in {"reserving", "locked", "calling", "capturing", "releasing"}
    /\ Goto(r, "abandoned")
    /\ lock' = [c \in Customers |-> IF lock[c] = r THEN Free ELSE lock[c]]
    /\ abandoned' = abandoned + 1
    /\ UNCHANGED <<walletVars, adminOps>>

-----------------------------------------------------------------------------
(***************************************************************************)
(* The back office: each operation is one transaction on the locked row.   *)
(***************************************************************************)

AdminStep(c) ==
    /\ adminOps < MaxAdmin
    /\ adminOps' = adminOps + 1
    /\ lock[c] = Free
    /\ UNCHANGED <<req, lock, abandoned>>

AdjustAiWallet(c) ==
    /\ AdminStep(c)
    /\ \E amount \in Amounts : AdjustWallet(c, amount)

UpdateAiWalletQuota(c) ==
    /\ AdminStep(c)
    /\ \E limit \in Quotas : UpdateWalletQuota(c, limit)

UpdateAiWalletAccess(c) ==
    /\ AdminStep(c)
    /\ \E enabled \in BOOLEAN : UpdateWalletAccess(c, enabled)

Midnight ==
    /\ day < MaxDay
    /\ NextDay
    /\ UNCHANGED <<req, lock, abandoned, adminOps>>

-----------------------------------------------------------------------------
RequestStep(r) ==
    \/ ReserveLock(r) \/ ReserveCommit(r)
    \/ ProviderOk(r)  \/ ProviderFail(r)
    \/ CaptureUsage(r) \/ ReleaseUsage(r)

BackOffice(c) ==
    \/ AdjustAiWallet(c) \/ UpdateAiWalletQuota(c) \/ UpdateAiWalletAccess(c)

Next ==
    \/ \E r \in Requests : Begin(r) \/ RequestStep(r) \/ Abandon(r)
    \/ \E c \in Customers : BackOffice(c)
    \/ Midnight

Spec == Init /\ [][Next]_vars

\* A handler that has started keeps running (the provider call has a timeout
\* and row locks are granted in order); nobody has to send a request.
FairSpec == Spec /\ \A r \in Requests : WF_vars(RequestStep(r))

-----------------------------------------------------------------------------
(***************************************************************************)
(* Properties.                                                             *)
(***************************************************************************)

RunningHolds(c) == HoldsOf(usage, CustomerUsages(c))

\* What a wallet has on hold is what its running calls hold, whatever the
\* interleaving of reservations, settlements and stopped handlers: nothing is
\* released twice, forgotten by a settlement or taken from another call.
HeldIsRunningHolds == \A c \in Customers : wallet[c].held = RunningHolds(c)

\* When a handler comes back from the provider to settle, the update it makes
\* passes the check constraint of ai_wallets, although other calls were
\* settled and the back office debited the wallet since the reservation.
SettlementFits ==
    \A r \in Requests :
        /\ req[r].pc \in {"calling", "capturing"} =>
             \A charge \in Charges : RowAllowed(CapturedRow(req[r].customer, r, charge))
        /\ req[r].pc \in {"calling", "releasing"} =>
             RowAllowed(ReleasedRow(req[r].customer, r))

\* At most one of the requests that carry the same Idempotency-Key ever
\* reaches the provider, even when they look the key up at the same time.
OneCallPerIdempotencyKey ==
    \A r, s \in Requests :
        /\ r /= s
        /\ req[r].idem = req[s].idem /\ req[r].idem /= NoIdem
        /\ req[r].customer = req[s].customer /\ req[r].key = req[s].key
        => usage[r].status = "none" \/ usage[s].status = "none"

Inserted(u) == usage[u].status = "none" /\ usage'[u].status /= "none"

\* When a call gets its hold, the wallet as it then is is enabled and the
\* day's spending of the customer and of the API key, the new hold included,
\* is within the limit: neither a concurrent call nor the back office got
\* between the check and the hold.
ReservationRespectsLimits ==
    [][\A u \in Usages : Inserted(u) =>
         LET q == req[u]
             w == wallet'[q.customer]
         IN  /\ w.enabled
             /\ q.hold > 0 /\ w.limit /= NoLimit =>
                  DailySpend(CustomerUsages(q.customer), q.day)' <= w.limit
             /\ q.hold > 0 /\ q.key /= NoKey /\ KeyLimit[q.key] /= NoLimit =>
                  DailySpend(KeyUsages(q.key), q.day)' <= KeyLimit[q.key]]_vars

\* A call that got its hold is settled: the hold is captured or released.
ReservedIsSettled ==
    \A r \in Requests : (req[r].pc = "calling") ~> (req[r].pc = "settled")
=============================================================================
