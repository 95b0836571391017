------------------------- MODULE AiGatewayAccounts -------------------------
(***************************************************************************)
(* The gateway implements PrepaidAccounts.  The gateway never adds up what *)
(* open calls keep aside: it keeps a counter, ai_wallets.held_minor, that  *)
(* reservations raise and settlements lower, and the steps here show that  *)
(* the counter does the work of the sum.                                   *)
(***************************************************************************)
EXTENDS AiGateway

\* A usage record as the customer sees it.
SeenCall(u) ==
    LET st == CASE usage[u].status = "none"      -> "none"
                [] usage[u].status = "running"   -> "open"
                [] usage[u].status = "succeeded" -> "paid"
                [] OTHER                         -> "let_go"
    IN  [st     |-> st,
         by     |-> IF st = "none" THEN {} ELSE {req[u].customer},
         amount |-> CASE st = "open" -> usage[u].held
                      [] st = "paid" -> usage[u].charged
                      [] OTHER       -> 0]

Accounts ==
    INSTANCE PrepaidAccounts WITH
        Calls   <- Usages,
        Opening <- OpeningBalance,
        money   <- [c \in Customers |-> wallet[c].balance],
        call    <- [u \in Usages |-> SeenCall(u)]

\* Every behaviour of the gateway, with handlers that stop and a back office at
\* work, is one of the accounts: no call spends what another one has on hold and
\* no debit takes it (reserve_wallet_and_create_usage, capture_usage,
\* release_usage, adjust_ai_wallet).
ImplementsAccounts == Accounts!AccountsSpec
=============================================================================
