------------------------------ MODULE AiWallet ------------------------------
(***************************************************************************)
(* The billing tables that every AI call goes through: ai_wallets (one row *)
(* per customer), ai_usage_records (one row per billed call) and           *)
(* ai_wallet_ledger_entries, with the statements the gateway               *)
(* (ai/gateway.rs), the asynchronous jobs (ai/jobs.rs) and the back office *)
(* (ai/admin.rs) run on them.  An operator here is the effect of one       *)
(* statement or of one committed transaction; the modules that extend this *)
(* one decide who runs it, when, and what happens when it fails.           *)
(*                                                                         *)
(* Amounts are minor currency units.  A usage record is identified by the  *)
(* call that creates it, so Usages is also the set of calls.               *)
(***************************************************************************)
EXTENDS Integers, FiniteSets, FiniteSetsExt

CONSTANTS
    Customers,       \* the owners of the wallets
    Usages,          \* identifiers of usage records (each inserted at most once)
    Models,          \* AI models
    NoLimit,         \* a limit column that is null
    ModelLimit,      \* ai_models.daily_spend_limit_minor, a function on Models
    OpeningBalance   \* what every wallet was credited before the first call

VARIABLES
    wallet,   \* ai_wallets
    usage,    \* ai_usage_records
    ledger,   \* what ai_wallet_ledger_entries adds up to, per wallet
    day       \* the calendar day of the database clock

walletVars == <<wallet, usage, ledger, day>>

ASSUME WalletAssumption ==
    /\ NoLimit \notin Int
    /\ OpeningBalance \in Nat
    /\ ModelLimit \in [Models -> Nat \cup {NoLimit}]

Limit == Nat \cup {NoLimit}

WalletRow == [balance : Nat, held : Nat, enabled : BOOLEAN, limit : Limit]

UsageStatus == {"none", "running", "succeeded", "failed", "refunded"}

\* The columns of ai_usage_records the statements read: held_minor sits in
\* price_snapshot_json, day is the day of created_at, body tells whether
\* provider_raw_response is there to be replayed.
UsageRow == [status : UsageStatus, held : Nat, charged : Nat, refunded : Nat,
             day : Nat, body : BOOLEAN]

\* net is the sum of the amounts that move the balance (credit, debit, capture,
\* refund); balance and held are the *_after_minor columns of the newest entry.
LedgerSummary == [net : Int, balance : Nat, held : Nat]

WalletTypeOK ==
    /\ wallet \in [Customers -> WalletRow]
    /\ usage  \in [Usages -> UsageRow]
    /\ ledger \in [Customers -> LedgerSummary]
    /\ day \in Nat

NoUsage == [status |-> "none", held |-> 0, charged |-> 0, refunded |-> 0,
            day |-> 0, body |-> FALSE]

\* Every wallet has received one credit entry from the back office.
WalletInit ==
    /\ wallet = [c \in Customers |-> [balance |-> OpeningBalance, held |-> 0,
                                      enabled |-> TRUE, limit |-> NoLimit]]
    /\ usage  = [u \in Usages |-> NoUsage]
    /\ ledger = [c \in Customers |-> [net |-> OpeningBalance,
                                      balance |-> OpeningBalance, held |-> 0]]
    /\ day = 0

-----------------------------------------------------------------------------
(***************************************************************************)
(* Statements on one wallet row.                                           *)
(***************************************************************************)

\* check constraint ai_wallets_balance_nonnegative_check: a statement that
\* would break it fails and its transaction rolls back.
RowAllowed(w) == w.balance >= 0 /\ w.held >= 0 /\ w.held <= w.balance

\* Mutant: the delta is applied with the wrong sign.
UpdateWalletHoldNegated(w, delta) == [w EXCEPT !.held = @ - delta]

UpdateWalletHold(w, delta) == [w EXCEPT !.held = @ + delta]

\* Mutant: the two amounts are bound to each other's parameter.
UpdateWalletCaptureSwapped(w, held, charge) ==
    [w EXCEPT !.balance = @ - held, !.held = @ - charge]

UpdateWalletCapture(w, held, charge) ==
    [w EXCEPT !.balance = @ - charge, !.held = @ - held]

UpdateWalletBalance(w, delta) == [w EXCEPT !.balance = @ + delta]

Larger(a, b) == IF a >= b THEN a ELSE b

Smaller(a, b) == IF a <= b THEN a ELSE b

\* Mutant: the whole balance may be captured.
SettleChargeFromBalance(requested, held, w) ==
    Smaller(Larger(requested, 0), w.balance)

\* settle_charge: what is captured of the requested charge.  The call's own
\* hold may be used up, and beyond it only money no other call has on hold.
SettleCharge(requested, held, w) ==
    LET available == Larger(w.balance - w.held, 0)
    IN  Smaller(Larger(requested, 0), Larger(held, 0) + available)

\* Mutant: the entry shows the row as it was read, not as it was updated.
InsertLedgerEntryStale(c, w, delta) ==
    [ledger EXCEPT ![c] = [net |-> @.net + delta, balance |-> wallet[c].balance,
                           held |-> wallet[c].held]]

\* insert_wallet_ledger_entry: an entry that moves the balance by delta, written
\* after the row became w.
InsertLedgerEntry(c, w, delta) ==
    [ledger EXCEPT ![c] = [net |-> @.net + delta, balance |-> w.balance,
                           held |-> w.held]]

-----------------------------------------------------------------------------
(***************************************************************************)
(* Daily spend.                                                            *)
(***************************************************************************)

\* What one record contributes to daily_spend_minor in a transaction that began
\* on day d (now() is the time the transaction began).
Spent(row, d) ==
    CASE row.day < d              -> 0
      [] row.status = "succeeded" -> row.charged
      [] row.status = "running"   -> row.held
      [] OTHER                    -> 0

DailySpend(U, d) == SumFunctionOnSet([u \in U |-> Spent(usage[u], d)], U)

\* ensure_daily_limit_available; a call that holds nothing is not checked.
WithinDailyLimit(limit, used, hold) ==
    hold > 0 /\ limit /= NoLimit => used + hold <= limit

-----------------------------------------------------------------------------
(***************************************************************************)
(* Transactions.                                                           *)
(***************************************************************************)

\* The writes of reserve_wallet_and_create_usage in a transaction begun on day d.
Reserve(c, u, hold, d) ==
    LET w == UpdateWalletHold(wallet[c], hold)
    IN  /\ wallet' = [wallet EXCEPT ![c] = w]
        /\ ledger' = IF hold > 0 THEN InsertLedgerEntry(c, w, 0) ELSE ledger
        /\ usage'  = [usage EXCEPT ![u] = [status |-> "running", held |-> hold,
                                           charged |-> 0, refunded |-> 0,
                                           day |-> d, body |-> FALSE]]
        /\ UNCHANGED day

\* The wallet row capture_usage writes, and the transaction when it is allowed.
CapturedRow(c, u, charge) ==
    UpdateWalletCapture(wallet[c], usage[u].held,
                        SettleCharge(charge, usage[u].held, wallet[c]))

Capture(c, u, charge) ==
    LET captured == SettleCharge(charge, usage[u].held, wallet[c])
        w        == CapturedRow(c, u, charge)
    IN  /\ RowAllowed(w)
        /\ wallet' = [wallet EXCEPT ![c] = w]
        /\ ledger' = IF captured > 0 \/ usage[u].held > 0
                     THEN InsertLedgerEntry(c, w, -captured) ELSE ledger
        /\ usage'  = [usage EXCEPT ![u].status = "succeeded",
                                   ![u].charged = captured,
                                   ![u].body = TRUE]
        /\ UNCHANGED day

\* The wallet row release_usage writes, and the transaction when it is allowed.
ReleasedRow(c, u) == UpdateWalletHold(wallet[c], -usage[u].held)

Release(c, u, body) ==
    LET w == ReleasedRow(c, u)
    IN  /\ RowAllowed(w)
        /\ wallet' = [wallet EXCEPT ![c] = w]
        /\ ledger' = IF usage[u].held > 0 THEN InsertLedgerEntry(c, w, 0) ELSE ledger
        /\ usage'  = [usage EXCEPT ![u].status = "failed",
                                   ![u].refunded = usage[u].held,
                                   ![u].body = body]
        /\ UNCHANGED day

\* adjust_ai_wallet: a manual credit or debit of at least one minor unit.
AdjustWallet(c, amount) ==
    LET w == UpdateWalletBalance(wallet[c], amount)
    IN  /\ amount /= 0
        /\ w.balance >= w.held
        /\ wallet' = [wallet EXCEPT ![c] = w]
        /\ ledger' = InsertLedgerEntry(c, w, amount)
        /\ UNCHANGED <<usage, day>>

UpdateWalletQuota(c, limit) ==
    /\ wallet' = [wallet EXCEPT ![c].limit = limit]
    /\ UNCHANGED <<usage, ledger, day>>

UpdateWalletAccess(c, enabled) ==
    /\ wallet' = [wallet EXCEPT ![c].enabled = enabled]
    /\ UNCHANGED <<usage, ledger, day>>

\* Midnight on the database clock.
NextDay ==
    /\ day' = day + 1
    /\ UNCHANGED <<wallet, usage, ledger>>

-----------------------------------------------------------------------------
\* What the running ones among the records of U have on hold, in a table of usage
\* records.
HoldsOf(table, U) ==
    SumFunctionOnSet([u \in U |-> table[u].held], {u \in U : table[u].status = "running"})

\* The ledger explains the wallet: its amounts add up to the balance and its
\* newest entry shows the current balance and hold (ai_wallet_ledger_entries'
\* balance_after_minor and held_after_minor), through every reservation,
\* capture, release, refund and adjustment.
LedgerReconciles ==
    \A c \in Customers :
        /\ ledger[c].net = wallet[c].balance
        /\ ledger[c].balance = wallet[c].balance
        /\ ledger[c].held = wallet[c].held
=============================================================================
