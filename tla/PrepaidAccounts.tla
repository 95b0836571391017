-------------------------- MODULE PrepaidAccounts --------------------------
(***************************************************************************)
(* What the AI gateway promises its customers, without wallets, holds,     *)
(* locks and ledgers: a customer has money, a call that is let through     *)
(* keeps some of it aside, and is later paid for or let go.  Money that is *)
(* aside for one call pays for no other, and the back office does not take *)
(* it away.                                                                *)
(***************************************************************************)
EXTENDS Integers, FiniteSetsExt

CONSTANTS
    Customers,
    Calls,
    Opening     \* what every customer starts with

VARIABLES
    money,      \* the money of a customer
    call        \* the calls: whose they are, and what is aside or was paid

accountVars == <<money, call>>

NoCall == [st |-> "none", by |-> {}, amount |-> 0]

\* What the open calls of a customer keep aside.
Aside(c) ==
    SumFunctionOnSet([u \in Calls |-> call[u].amount],
                     {u \in Calls : call[u].st = "open" /\ c \in call[u].by})

AccountsInit ==
    /\ money = [c \in Customers |-> Opening]
    /\ call = [u \in Calls |-> NoCall]

\* A call is let through when its amount can be put aside.
Open(u, c) ==
    /\ call[u] = NoCall
    /\ call'[u].st = "open"
    /\ call'[u].amount \in 0 .. money[c] - Aside(c)
    /\ call' = [call EXCEPT ![u] = [st |-> "open", by |-> {c}, amount |-> call'[u].amount]]
    /\ UNCHANGED money

\* It is paid for with what it kept aside and money nobody else keeps aside.
Pay(u, c) ==
    /\ call[u].st = "open"
    /\ call'[u].st = "paid"
    /\ c \in call[u].by
    /\ call'[u].amount \in 0 .. money[c] - Aside(c) + call[u].amount
    /\ call' = [call EXCEPT ![u].st = "paid", ![u].amount = call'[u].amount]
    /\ money' = [money EXCEPT ![c] = @ - call'[u].amount]

LetGo(u) ==
    /\ call[u].st = "open"
    /\ call'[u].st = "let_go"
    /\ call' = [call EXCEPT ![u].st = "let_go", ![u].amount = 0]
    /\ UNCHANGED money

\* The back office gives money, or takes money nobody keeps aside.
Adjust(c) ==
    /\ money'[c] /= money[c]
    /\ UNCHANGED call
    /\ money'[c] >= Aside(c)
    /\ money' = [money EXCEPT ![c] = money'[c]]

AccountsNext ==
    \/ \E u \in Calls, c \in Customers : Open(u, c) \/ Pay(u, c)
    \/ \E u \in Calls : LetGo(u)
    \/ \E c \in Customers : Adjust(c)

AccountsSpec == AccountsInit /\ [][AccountsNext]_accountVars
=============================================================================
