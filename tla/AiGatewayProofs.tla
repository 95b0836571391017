-------------------------- MODULE AiGatewayProofs --------------------------
(***************************************************************************)
(* Proofs about the synchronous gateway, for any number of customers,      *)
(* keys and calls and any amounts: its types, the agreement of the ledger  *)
(* with the wallets and the single call per Idempotency-Key; then its      *)
(* money: what a wallet has on hold is the sum of what its running calls   *)
(* hold, every settlement passes the check constraint, limits are          *)
(* respected at the moment of a reservation, and the gateway implements    *)
(* PrepaidAccounts.                                                        *)
(*                                                                         *)
(* The single call is not inductive as it stands.  It needs to be known    *)
(* that a request has no record before its reservation commits (so that    *)
(* its key may still be chosen) and a running one until it settles (so     *)
(* that settling it adds no record).                                       *)
(***************************************************************************)
EXTENDS AiGatewayAccounts, AiWalletProofs

\* The record of a request follows the handler.
RecordFollowsHandler ==
    \A r \in Requests :
        /\ req[r].pc \in {"new", "reserving", "locked"} => usage[r].status = "none"
        /\ req[r].pc \in {"calling", "capturing", "releasing"} => usage[r].status = "running"

IInv ==
    /\ TypeOK
    /\ LedgerReconciles
    /\ RecordFollowsHandler
    /\ OneCallPerIdempotencyKey

\* What a step of a request's handler does to the locals: r goes to p and
\* every request stays the call it is.
Moves(r, p) ==
    /\ req' \in [Requests -> RequestState]
    /\ \A s \in Requests :
         /\ req'[s].customer = req[s].customer
         /\ req'[s].key = req[s].key
         /\ req'[s].idem = req[s].idem
         /\ req'[s].pc = IF s = r THEN p ELSE req[s].pc

\* A new value of r's locals that keeps what identifies the call.
LEMMA MovesByRow ==
    ASSUME TypeOK, NEW r \in Requests, NEW q \in RequestState,
           req' = [req EXCEPT ![r] = q],
           q.customer = req[r].customer, q.key = req[r].key, q.idem = req[r].idem
    PROVE  Moves(r, q.pc)
  BY DEF Moves, TypeOK

\* Goto changes where the handler is and nothing else.
LEMMA MovesByGoto ==
    ASSUME TypeOK, NEW r \in Requests, NEW p \in Progress, Goto(r, p)
    PROVE  Moves(r, p)
<1>1. PICK row \in RequestState : row = req[r]
  BY DEF TypeOK
<1> DEFINE q == [row EXCEPT !.pc = p]
<1>2. /\ q \in RequestState /\ q.pc = p /\ q.customer = row.customer
      /\ q.key = row.key /\ q.idem = row.idem
  BY DEF RequestState
<1>3. req' = [req EXCEPT ![r] = q]
  BY <1>1 DEF Goto
<1> HIDE DEF q
<1> QED
  BY <1>1, <1>2, <1>3, MovesByRow

\* A step that neither changes whose call a request is nor adds a record keeps
\* the single call per key.
LEMMA KeysKept ==
    ASSUME IInv, NEW r \in Requests, NEW p \in Progress, Moves(r, p),
           \A s \in Requests : usage[s].status = "none" => usage'[s].status = "none"
    PROVE  OneCallPerIdempotencyKey'
  BY DEF IInv, OneCallPerIdempotencyKey, Moves

\* A handler's step that leaves the tables alone and goes where the record it
\* has, or has not, allows.
LEMMA LocalStep ==
    ASSUME IInv, NEW r \in Requests, NEW p \in Progress, Moves(r, p),
           UNCHANGED walletVars,
           lock' \in [Customers -> Requests \cup {Free}],
           abandoned' \in Nat, adminOps' \in Nat,
           p \in {"new", "reserving", "locked"} =>
               req[r].pc \in {"new", "reserving", "locked"},
           p \in {"calling", "capturing", "releasing"} =>
               req[r].pc \in {"calling", "capturing", "releasing"}
    PROVE  IInv'
<1>1. /\ wallet' = wallet /\ usage' = usage /\ ledger' = ledger /\ day' = day
  BY DEF walletVars
<1>2. TypeOK' /\ LedgerReconciles'
  BY <1>1 DEF IInv, TypeOK, WalletTypeOK, LedgerReconciles, Moves
<1>3. RecordFollowsHandler'
  BY <1>1 DEF IInv, RecordFollowsHandler, Moves
<1>4. OneCallPerIdempotencyKey'
  BY <1>1, KeysKept
<1> QED
  BY <1>2, <1>3, <1>4 DEF IInv

\* Begin: the request may become any caller's, with any key; it has no record.
LEMMA BeginIInv ==
    ASSUME IInv, NEW r \in Requests, Begin(r)
    PROVE  IInv'
<1> DEFINE next(caller, i) ==
             CASE SameSlot(caller[1], caller[2], i) = {} -> "reserving"
               [] \E u \in SameSlot(caller[1], caller[2], i) :
                    usage[u].status /= "running" /\ usage[u].body -> "replayed"
               [] OTHER -> "rejected"
<1>a. PICK caller \in Callers, m \in Models, i \in IdemKeys \cup {NoIdem}, h \in Holds :
         req' = [req EXCEPT ![r] =
                   [pc |-> next(caller, i), customer |-> caller[1], key |-> caller[2],
                    model |-> m, idem |-> i, hold |-> h, charge |-> 0,
                    day |-> day, body |-> FALSE]]
  BY DEF Begin
<1>b. next(caller, i) \in {"reserving", "replayed", "rejected"}
  OBVIOUS
<1> HIDE DEF next
<1>1. PICK p \in {"reserving", "replayed", "rejected"} : p = next(caller, i)
  BY <1>b
<1> DEFINE q == [pc |-> p, customer |-> caller[1], key |-> caller[2], model |-> m,
                 idem |-> i, hold |-> h, charge |-> 0, day |-> day, body |-> FALSE]
<1>2. caller[1] \in Customers /\ caller[2] \in Keys \cup {NoKey}
  BY GatewayAssumption DEF Callers
<1>3. q \in RequestState /\ q.pc = p
  BY <1>2, GatewayAssumption DEF IInv, TypeOK, WalletTypeOK, RequestState, Progress
<1>4. req' = [req EXCEPT ![r] = q] /\ req[r].pc = "new" /\ usage[r].status = "none"
  BY <1>a, <1>1 DEF Begin, IInv, RecordFollowsHandler
<1> HIDE DEF q
<1>5. UNCHANGED <<wallet, usage, ledger, day, lock, abandoned, adminOps>>
  BY DEF Begin, walletVars
<1>6. TypeOK' /\ LedgerReconciles'
  BY <1>3, <1>4, <1>5 DEF IInv, TypeOK, WalletTypeOK, LedgerReconciles
<1>7. /\ req'[r] = q
      /\ \A s \in Requests \ {r} : req'[s] = req[s]
  BY <1>4 DEF IInv, TypeOK
<1>8. RecordFollowsHandler'
  BY <1>3, <1>4, <1>5, <1>7 DEF IInv, RecordFollowsHandler
<1>9. OneCallPerIdempotencyKey'
  BY <1>4, <1>5, <1>7 DEF IInv, OneCallPerIdempotencyKey
<1> QED
  BY <1>6, <1>8, <1>9 DEF IInv

\* ReserveLock takes the row lock or rejects the request.
LEMMA ReserveLockIInv ==
    ASSUME IInv, NEW r \in Requests, ReserveLock(r)
    PROVE  IInv'
<1>1. /\ UNCHANGED walletVars /\ abandoned' \in Nat /\ adminOps' \in Nat
      /\ req[r].pc = "reserving" /\ TypeOK /\ req[r].customer \in Customers
  BY DEF ReserveLock, IInv, TypeOK, RequestState
<1>2. PICK d \in req[r].day .. day :
        \/ /\ req' = [req EXCEPT ![r].pc = "locked", ![r].day = d]
           /\ lock' = [lock EXCEPT ![req[r].customer] = r]
        \/ /\ Goto(r, "rejected")
           /\ UNCHANGED lock
  BY DEF ReserveLock
<1>3. lock' \in [Customers -> Requests \cup {Free}]
  BY <1>1, <1>2 DEF TypeOK
<1>4. CASE req' = [req EXCEPT ![r].pc = "locked", ![r].day = d]
  <2>1. PICK row \in RequestState : row = req[r]
    BY <1>1 DEF TypeOK
  <2>2. d \in Nat
    <3>1. row.day \in Nat /\ day \in Nat
      BY <1>1 DEF TypeOK, WalletTypeOK, RequestState
    <3> QED
      BY <2>1, <3>1
  <2> DEFINE q == [row EXCEPT !.pc = "locked", !.day = d]
  <2>3. /\ q \in RequestState /\ q.pc = "locked" /\ q.customer = row.customer
        /\ q.key = row.key /\ q.idem = row.idem
    BY <2>2 DEF RequestState, Progress
  <2>4. req' = [req EXCEPT ![r] = q]
    BY <1>4, <2>1
  <2> HIDE DEF q
  <2>5. Moves(r, "locked")
    BY <1>1, <2>1, <2>3, <2>4, MovesByRow
  <2>6. "locked" \in Progress
    BY DEF Progress
  <2> QED
    BY <1>1, <1>3, <2>5, <2>6, LocalStep
<1>5. CASE Goto(r, "rejected")
  <2>1. "rejected" \in Progress
    BY DEF Progress
  <2>2. Moves(r, "rejected")
    BY <1>1, <1>5, <2>1, MovesByGoto
  <2> QED
    BY <1>1, <1>3, <2>1, <2>2, LocalStep
<1> QED
  BY <1>2, <1>4, <1>5

\* A handler's step that writes the record of its own call, which is then at p
\* with a record that is not none.
LEMMA RecordStep ==
    ASSUME IInv, NEW r \in Requests, NEW p \in Progress, Moves(r, p),
           Sound', UNCHANGED <<abandoned, adminOps>>,
           lock' \in [Customers -> Requests \cup {Free}],
           \A s \in Requests \ {r} : usage'[s] = usage[s],
           p \notin {"new", "reserving", "locked"},
           p \in {"calling", "capturing", "releasing"} => usage'[r].status = "running"
    PROVE  TypeOK' /\ LedgerReconciles' /\ RecordFollowsHandler'
<1>1. TypeOK' /\ LedgerReconciles'
  BY DEF IInv, TypeOK, Sound, Moves
<1>2. RecordFollowsHandler'
  BY DEF IInv, RecordFollowsHandler, Moves, Requests
<1> QED
  BY <1>1, <1>2

\* ReserveCommit inserts the record, which the unique index allows only when no
\* other record has the key, or rolls back.
LEMMA ReserveCommitIInv ==
    ASSUME IInv, NEW r \in Requests, ReserveCommit(r)
    PROVE  IInv'
<1>1. /\ TypeOK /\ Sound /\ req[r].pc = "locked" /\ req[r].customer \in Customers
      /\ req[r].hold \in Nat /\ req[r].day \in Nat /\ r \in Usages
  BY DEF ReserveCommit, IInv, TypeOK, RequestState, Sound, Requests
<1>2. lock' \in [Customers -> Requests \cup {Free}] /\ UNCHANGED <<abandoned, adminOps>>
  BY <1>1 DEF ReserveCommit, TypeOK
<1>3. "calling" \in Progress /\ "rejected" \in Progress
  BY DEF Progress
<1>4. CASE /\ SameSlot(req[r].customer, req[r].key, req[r].idem) = {}
           /\ Reserve(req[r].customer, r, req[r].hold, req[r].day)
           /\ Goto(r, "calling")
  <2>1. Moves(r, "calling")
    BY <1>1, <1>3, <1>4, MovesByGoto
  <2>2. /\ Sound' /\ usage'[r].status = "running"
        /\ \A s \in Usages \ {r} : usage'[s] = usage[s]
    BY <1>1, <1>4, ReserveSound
  <2>3. TypeOK' /\ LedgerReconciles' /\ RecordFollowsHandler'
    BY <1>2, <1>3, <2>1, <2>2, RecordStep DEF Requests
  <2>4. \A s \in Requests \ {r} :
          /\ req[r].idem = req[s].idem /\ req[r].idem /= NoIdem
          /\ req[r].customer = req[s].customer /\ req[r].key = req[s].key
          => usage[s].status = "none"
    BY <1>4 DEF SameSlot, Recorded, Requests
  <2>5. OneCallPerIdempotencyKey'
    BY <2>1, <2>2, <2>4 DEF IInv, OneCallPerIdempotencyKey, Moves, Requests
  <2> QED
    BY <2>3, <2>5 DEF IInv
<1>5. CASE Goto(r, "rejected") /\ UNCHANGED walletVars
  <2>1. Moves(r, "rejected")
    BY <1>1, <1>3, <1>5, MovesByGoto
  <2>2. abandoned' \in Nat /\ adminOps' \in Nat
    BY <1>1, <1>2 DEF TypeOK
  <2> QED
    BY <1>2, <1>3, <1>5, <2>1, <2>2, LocalStep
<1> QED
  BY <1>4, <1>5 DEF ReserveCommit

\* The answer of the provider, good or bad.
LEMMA ProviderIInv ==
    ASSUME IInv, NEW r \in Requests, ProviderOk(r) \/ ProviderFail(r)
    PROVE  IInv'
<1>1. /\ TypeOK /\ UNCHANGED walletVars /\ abandoned' \in Nat /\ adminOps' \in Nat
      /\ lock' \in [Customers -> Requests \cup {Free}] /\ req[r].pc = "calling"
  BY DEF ProviderOk, ProviderFail, IInv, TypeOK
<1>2. PICK row \in RequestState : row = req[r]
  BY <1>1 DEF TypeOK
<1>3. \E q \in RequestState : /\ req' = [req EXCEPT ![r] = q]
                              /\ q.pc \in {"capturing", "releasing"}
                              /\ q.customer = row.customer /\ q.key = row.key
                              /\ q.idem = row.idem
  <2>1. CASE ProviderOk(r)
    <3>1. PICK charge \in Charges :
            req' = [req EXCEPT ![r].pc = "capturing", ![r].charge = charge]
      BY <2>1 DEF ProviderOk
    <3> DEFINE q == [row EXCEPT !.pc = "capturing", !.charge = charge]
    <3>2. /\ q \in RequestState /\ q.pc = "capturing" /\ q.customer = row.customer
          /\ q.key = row.key /\ q.idem = row.idem
      BY GatewayAssumption DEF RequestState, Progress
    <3>3. req' = [req EXCEPT ![r] = q]
      BY <1>2, <3>1
    <3> HIDE DEF q
    <3> QED
      BY <3>2, <3>3
  <2>2. CASE ProviderFail(r)
    <3>1. PICK body \in BOOLEAN :
            req' = [req EXCEPT ![r].pc = "releasing", ![r].body = body]
      BY <2>2 DEF ProviderFail
    <3> DEFINE q == [row EXCEPT !.pc = "releasing", !.body = body]
    <3>2. /\ q \in RequestState /\ q.pc = "releasing" /\ q.customer = row.customer
          /\ q.key = row.key /\ q.idem = row.idem
      BY DEF RequestState, Progress
    <3>3. req' = [req EXCEPT ![r] = q]
      BY <1>2, <3>1
    <3> HIDE DEF q
    <3> QED
      BY <3>2, <3>3
  <2> QED
    BY <2>1, <2>2
<1>4. PICK q \in RequestState : /\ req' = [req EXCEPT ![r] = q]
                                /\ q.pc \in {"capturing", "releasing"}
                                /\ q.customer = row.customer /\ q.key = row.key
                                /\ q.idem = row.idem
  BY <1>3
<1>5. Moves(r, q.pc) /\ q.pc \in Progress
  BY <1>1, <1>2, <1>4, MovesByRow DEF Progress
<1> QED
  BY <1>1, <1>4, <1>5, LocalStep

\* A settlement: the record of a running call becomes final.
LEMMA SettleIInv ==
    ASSUME IInv, NEW r \in Requests, CaptureUsage(r) \/ ReleaseUsage(r)
    PROVE  IInv'
<1>1. /\ TypeOK /\ Sound /\ req[r].pc \in {"capturing", "releasing"}
      /\ req[r].customer \in Customers /\ req[r].charge \in Nat /\ req[r].body \in BOOLEAN
      /\ r \in Usages /\ Goto(r, "settled")
      /\ UNCHANGED <<lock, abandoned, adminOps>>
  BY DEF CaptureUsage, ReleaseUsage, IInv, TypeOK, RequestState, Sound, Requests
<1>2. /\ Sound' /\ \A s \in Usages \ {r} : usage'[s] = usage[s]
  <2>1. CASE CaptureUsage(r)
    <3>1. Capture(req[r].customer, r, req[r].charge)
      BY <2>1 DEF CaptureUsage
    <3> QED
      BY <1>1, <3>1, CaptureSound
  <2>2. CASE ReleaseUsage(r)
    <3>1. Release(req[r].customer, r, req[r].body)
      BY <2>2 DEF ReleaseUsage
    <3> QED
      BY <1>1, <3>1, ReleaseSound
  <2> QED
    BY <2>1, <2>2
<1>3. "settled" \in Progress
  BY DEF Progress
<1>4. Moves(r, "settled")
  BY <1>1, <1>3, MovesByGoto
<1>5. lock' \in [Customers -> Requests \cup {Free}]
  BY <1>1 DEF TypeOK
<1>6. TypeOK' /\ LedgerReconciles' /\ RecordFollowsHandler'
  BY <1>1, <1>2, <1>3, <1>4, <1>5, RecordStep DEF Requests
<1>7. usage[r].status = "running"
  BY <1>1 DEF IInv, RecordFollowsHandler
<1>8. \A s \in Requests : usage[s].status = "none" => usage'[s].status = "none"
  BY <1>2, <1>7 DEF Requests
<1>9. OneCallPerIdempotencyKey'
  BY <1>3, <1>4, <1>8, KeysKept
<1> QED
  BY <1>6, <1>9 DEF IInv

\* A handler that stops leaves its record as it is.
LEMMA AbandonIInv ==
    ASSUME IInv, NEW r \in Requests, Abandon(r)
    PROVE  IInv'
<1>1. /\ TypeOK /\ UNCHANGED walletVars /\ Goto(r, "abandoned")
      /\ abandoned' \in Nat /\ adminOps' \in Nat
      /\ lock' \in [Customers -> Requests \cup {Free}]
  BY DEF Abandon, IInv, TypeOK
<1>2. "abandoned" \in Progress
  BY DEF Progress
<1>3. Moves(r, "abandoned")
  BY <1>1, <1>2, MovesByGoto
<1> QED
  BY <1>1, <1>2, <1>3, LocalStep

\* The back office changes a wallet and its ledger, midnight the calendar.
LEMMA TablesIInv ==
    ASSUME IInv, Midnight \/ \E c \in Customers : BackOffice(c)
    PROVE  IInv'
<1>1. Sound /\ TypeOK
  BY DEF IInv, Sound, TypeOK
<1>2. /\ UNCHANGED <<req, lock, abandoned>> /\ adminOps' \in Nat
  BY <1>1 DEF Midnight, BackOffice, AdjustAiWallet, UpdateAiWalletQuota,
              UpdateAiWalletAccess, AdminStep, TypeOK
<1>3. Sound' /\ UNCHANGED usage
  <2>1. CASE Midnight
    BY <1>1, <2>1 DEF Midnight, NextDay, Sound, WalletTypeOK, LedgerReconciles
  <2>2. ASSUME NEW c \in Customers, BackOffice(c)
        PROVE  Sound' /\ UNCHANGED usage
    <3>1. CASE AdjustAiWallet(c)
      <4>1. PICK amount \in Amounts : AdjustWallet(c, amount)
        BY <3>1 DEF AdjustAiWallet
      <4>2. amount \in Int
        BY GatewayAssumption
      <4> QED
        BY <1>1, <4>1, <4>2, AdjustSound
    <3>2. CASE UpdateAiWalletQuota(c) \/ UpdateAiWalletAccess(c)
      <4>1. \/ \E limit \in Limit : UpdateWalletQuota(c, limit)
            \/ \E enabled \in BOOLEAN : UpdateWalletAccess(c, enabled)
        BY <3>2, GatewayAssumption DEF UpdateAiWalletQuota, UpdateAiWalletAccess
      <4> QED
        BY <1>1, <4>1, SettingsSound
    <3> QED
      BY <2>2, <3>1, <3>2 DEF BackOffice
  <2> QED
    BY <2>1, <2>2
<1>4. TypeOK' /\ LedgerReconciles'
  BY <1>1, <1>2, <1>3 DEF TypeOK, Sound
<1>5. RecordFollowsHandler' /\ OneCallPerIdempotencyKey'
  BY <1>2, <1>3 DEF IInv, RecordFollowsHandler, OneCallPerIdempotencyKey
<1> QED
  BY <1>4, <1>5 DEF IInv

\* The first state.
LEMMA InitIInv == Init => IInv
<1> SUFFICES ASSUME Init PROVE IInv
  OBVIOUS
<1>1. WalletTypeOK /\ LedgerReconciles
  BY WalletAssumption DEF Init, WalletInit, WalletTypeOK, LedgerReconciles, WalletRow, Limit,
                          UsageRow, UsageStatus, LedgerSummary, NoUsage
<1>2. NewRequest \in RequestState /\ NewRequest.pc = "new" /\ NewRequest.idem = NoIdem
  BY GatewayAssumption DEF NewRequest, RequestState, Progress
<1>3. /\ \A r \in Requests : req[r] = NewRequest /\ usage[r].status = "none"
      /\ req \in [Requests -> RequestState]
      /\ lock \in [Customers -> Requests \cup {Free}]
      /\ abandoned \in Nat /\ adminOps \in Nat
  BY <1>2 DEF Init, WalletInit, NoUsage, Requests
<1> QED
  BY <1>1, <1>2, <1>3 DEF IInv, TypeOK, RecordFollowsHandler, OneCallPerIdempotencyKey

\* Every step of the gateway keeps the invariant.
LEMMA NextIInv == IInv /\ [Next]_vars => IInv'
<1> SUFFICES ASSUME IInv, [Next]_vars PROVE IInv'
  OBVIOUS
<1>1. CASE \E r \in Requests : Begin(r) \/ RequestStep(r) \/ Abandon(r)
  BY <1>1, BeginIInv, ReserveLockIInv, ReserveCommitIInv, ProviderIInv, SettleIInv,
     AbandonIInv DEF RequestStep
<1>2. CASE Midnight \/ \E c \in Customers : BackOffice(c)
  BY <1>2, TablesIInv
<1>3. CASE UNCHANGED vars
  BY <1>3 DEF vars, walletVars, IInv, TypeOK, WalletTypeOK, LedgerReconciles,
              RecordFollowsHandler, OneCallPerIdempotencyKey
<1> QED
  BY <1>1, <1>2, <1>3 DEF Next

\* The invariant holds in every reachable state.
LEMMA Invariance == Spec => []IInv
  BY InitIInv, NextIInv, PTL DEF Spec

\* The columns of the billing tables and the locals of the handlers keep their
\* types; in particular no balance and no hold is ever negative.
THEOREM GatewayTypes == Spec => []TypeOK
<1>1. IInv => TypeOK
  BY DEF IInv
<1> QED
  BY <1>1, Invariance, PTL

\* The ledger explains every wallet after any interleaving of reservations,
\* settlements, stopped handlers and operations of the back office.
THEOREM GatewayLedger == Spec => []LedgerReconciles
<1>1. IInv => LedgerReconciles
  BY DEF IInv
<1> QED
  BY <1>1, Invariance, PTL

\* Two requests with the same Idempotency-Key never both reach the provider,
\* although the look-up and the reservation are separate steps.
THEOREM SingleCall == Spec => []OneCallPerIdempotencyKey
<1>1. IInv => OneCallPerIdempotencyKey
  BY DEF IInv
<1> QED
  BY <1>1, Invariance, PTL

-----------------------------------------------------------------------------
(***************************************************************************)
(* The holds.  That the counter held_minor is the sum of what running      *)
(* calls hold needs to be known of the checks a reservation makes under    *)
(* the row lock: they are still true when it commits.                      *)
(***************************************************************************)

\* What the transaction that holds the lock has checked, apart from the limit of
\* the model, which the lock of one wallet does not protect.
ReservationChecked(r) ==
    LET q == req[r]
        w == wallet[q.customer]
    IN  /\ lock[q.customer] = r
        /\ w.enabled
        /\ w.balance - w.held >= q.hold
        /\ WithinDailyLimit(w.limit, DailySpend(CustomerUsages(q.customer), q.day), q.hold)
        /\ q.key /= NoKey =>
             WithinDailyLimit(KeyLimit[q.key], DailySpend(KeyUsages(q.key), q.day), q.hold)

LocksProtect == \A r \in Requests : req[r].pc = "locked" => ReservationChecked(r)

\* An API key is its owner's.
KeysAreOwners ==
    \A r \in Requests : req[r].key /= NoKey => KeyOwner[req[r].key] = req[r].customer

\* Every hold is covered.
HoldsCovered == \A c \in Customers : wallet[c].held <= wallet[c].balance

HInv ==
    /\ IsFiniteSet(Recorded)
    /\ HeldIsRunningHolds
    /\ HoldsCovered
    /\ KeysAreOwners
    /\ LocksProtect

LEMMA TablesSound == IInv => Sound
  BY DEF IInv, TypeOK, Sound

\* What a step that concerns the wallets of T leaves alone: the other wallets,
\* the records of their customers, and whose a record is.
Frame(T) ==
    /\ \A c \in Customers \ T : wallet'[c] = wallet[c]
    /\ \A u \in Usages : req[u].customer \notin T => usage'[u] = usage[u]
    /\ \A u \in Usages : usage[u].status /= "none" => usage'[u].status /= "none"
    /\ \A u \in Usages : usage'[u].status /= "none" =>
         req'[u].customer = req[u].customer /\ req'[u].key = req[u].key

\* The records of the other customers stay the ones they are.
LEMMA FrameRecords ==
    ASSUME IInv, HInv, NEW T, Frame(T)
    PROVE  /\ \A c \in Customers \ T :
                /\ CustomerUsages(c)' = CustomerUsages(c)
                /\ \A u \in CustomerUsages(c) : usage'[u] = usage[u]
           /\ \A k \in Keys : KeyOwner[k] \notin T =>
                /\ KeyUsages(k)' = KeyUsages(k)
                /\ \A u \in KeyUsages(k) : usage'[u] = usage[u]
<1>1. \A u \in Usages : req[u].customer \notin T =>
        /\ usage'[u] = usage[u]
        /\ usage[u].status /= "none" => req'[u].customer = req[u].customer /\ req'[u].key = req[u].key
  BY DEF Frame
<1>2. \A u \in Usages : req[u].customer \in T /\ usage'[u].status /= "none" =>
        req'[u].customer \in T /\ req'[u].key = req[u].key
  BY DEF Frame
<1>3. ASSUME NEW c \in Customers \ T
      PROVE  /\ CustomerUsages(c)' = CustomerUsages(c)
             /\ \A u \in CustomerUsages(c) : usage'[u] = usage[u]
  BY <1>1, <1>2 DEF CustomerUsages, Recorded
<1>4. ASSUME NEW k \in Keys, KeyOwner[k] \notin T
      PROVE  /\ KeyUsages(k)' = KeyUsages(k)
             /\ \A u \in KeyUsages(k) : usage'[u] = usage[u]
  <2>1. \A u \in Usages : req[u].key = k => req[u].customer \notin T
    BY <1>4, GatewayAssumption DEF HInv, KeysAreOwners, Requests
  <2> QED
    BY <1>1, <1>2, <2>1 DEF KeyUsages, Recorded
<1> QED
  BY <1>3, <1>4

\* Spending is the same when the records are.
LEMMA SameSpend ==
    ASSUME NEW U, NEW d, \A u \in U : usage'[u] = usage[u]
    PROVE  SumFunctionOnSet([u \in U |-> Spent(usage'[u], d)], U) = DailySpend(U, d)
<1>1. [u \in U |-> Spent(usage'[u], d)] = [u \in U |-> Spent(usage[u], d)]
  OBVIOUS
<1> QED
  BY <1>1 DEF DailySpend

\* The records of a customer can be added up.
LEMMA CustomerSummable ==
    ASSUME IInv, HInv, NEW c \in Customers
    PROVE  Summable(usage, CustomerUsages(c))
<1>1. CustomerUsages(c) \subseteq Recorded /\ IsFiniteSet(Recorded)
  BY DEF CustomerUsages, HInv
<1>2. IsFiniteSet(CustomerUsages(c))
  BY <1>1, FS_Subset
<1>3. \A u \in CustomerUsages(c) : usage[u].held \in Nat
  BY DEF IInv, TypeOK, WalletTypeOK, UsageRow, CustomerUsages, Recorded
<1> QED
  BY <1>2, <1>3 DEF Summable

\* The other wallets hold what their running calls hold.
LEMMA FrameHolds ==
    ASSUME IInv, HInv, NEW T, Frame(T), NEW c \in Customers \ T
    PROVE  /\ wallet'[c].held = HoldsOf(usage', CustomerUsages(c)')
           /\ wallet'[c].held <= wallet'[c].balance
<1>1. /\ CustomerUsages(c)' = CustomerUsages(c)
      /\ \A u \in CustomerUsages(c) : usage'[u] = usage[u]
  BY FrameRecords
<1>2. Summable(usage, CustomerUsages(c))
  BY CustomerSummable
<1>3. HoldsOf(usage', CustomerUsages(c)) = HoldsOf(usage, CustomerUsages(c))
  BY <1>1, <1>2, HoldsSame
<1>4. wallet'[c] = wallet[c]
  BY DEF Frame
<1> QED
  BY <1>1, <1>3, <1>4 DEF HInv, HeldIsRunningHolds, RunningHolds, HoldsCovered

\* A transaction that holds the lock of another wallet keeps what it has checked.
LEMMA FrameLock ==
    ASSUME IInv, HInv, NEW T, Frame(T), NEW s \in Requests,
           req[s].customer \notin T, ReservationChecked(s),
           req'[s].customer = req[s].customer, req'[s].key = req[s].key,
           req'[s].hold = req[s].hold, req'[s].day = req[s].day,
           lock'[req[s].customer] = s
    PROVE  ReservationChecked(s)'
<1> DEFINE c == req[s].customer
           k == req[s].key
           d == req[s].day
<1>1. c \in Customers /\ c \notin T /\ k \in Keys \cup {NoKey}
  BY DEF IInv, TypeOK, RequestState
<1>2. wallet'[c] = wallet[c]
  BY <1>1 DEF Frame
<1>3. DailySpend(CustomerUsages(c), d)' = DailySpend(CustomerUsages(c), d)
  BY <1>1, FrameRecords, SameSpend DEF DailySpend
<1>4. k /= NoKey => DailySpend(KeyUsages(k), d)' = DailySpend(KeyUsages(k), d)
  <2>1. k /= NoKey => k \in Keys /\ KeyOwner[k] \notin T
    BY <1>1 DEF HInv, KeysAreOwners
  <2> QED
    BY <2>1, FrameRecords, SameSpend DEF DailySpend
<1> QED
  BY <1>2, <1>3, <1>4 DEF ReservationChecked

\* What is left to show of a step: the wallets it concerns, the keys, and the
\* transactions that hold a lock.
LEMMA HInvStep ==
    ASSUME IInv, HInv, NEW T, Frame(T), IsFiniteSet(Recorded'), KeysAreOwners',
           \A c \in Customers \cap T :
             /\ wallet'[c].held = HoldsOf(usage', CustomerUsages(c)')
             /\ wallet'[c].held <= wallet'[c].balance,
           \A s \in Requests : req'[s].pc = "locked" =>
             \/ ReservationChecked(s)'
             \/ /\ req[s].pc = "locked" /\ req[s].customer \notin T
                /\ req'[s].customer = req[s].customer /\ req'[s].key = req[s].key
                /\ req'[s].hold = req[s].hold /\ req'[s].day = req[s].day
                /\ lock'[req[s].customer] = s
    PROVE  HInv'
<1>1. \A c \in Customers :
        /\ wallet'[c].held = HoldsOf(usage', CustomerUsages(c)')
        /\ wallet'[c].held <= wallet'[c].balance
  BY FrameHolds
<1>2. HeldIsRunningHolds' /\ HoldsCovered'
  BY <1>1 DEF HeldIsRunningHolds, RunningHolds, HoldsCovered
<1>3. LocksProtect'
  BY FrameLock DEF HInv, LocksProtect
<1> QED
  BY <1>2, <1>3 DEF HInv

\* Goto changes pc and nothing else.
LEMMA GotoKeeps ==
    ASSUME IInv, NEW r \in Requests, NEW p \in Progress, Goto(r, p)
    PROVE  /\ req'[r].pc = p
           /\ \A s \in Requests :
                /\ req'[s].customer = req[s].customer /\ req'[s].key = req[s].key
                /\ req'[s].hold = req[s].hold /\ req'[s].day = req[s].day
                /\ s /= r => req'[s] = req[s]
<1>1. PICK row \in RequestState : row = req[r]
  BY DEF IInv, TypeOK
<1> DEFINE q == [row EXCEPT !.pc = p]
<1>2. /\ q.pc = p /\ q.customer = row.customer /\ q.key = row.key
      /\ q.hold = row.hold /\ q.day = row.day
  BY DEF RequestState
<1>3. req' = [req EXCEPT ![r] = q]
  BY <1>1 DEF Goto
<1> HIDE DEF q
<1>4. req'[r] = q /\ \A s \in Requests \ {r} : req'[s] = req[s]
  BY <1>3 DEF IInv, TypeOK
<1> QED
  BY <1>1, <1>2, <1>4

\* A handler's step that leaves the tables alone.
LEMMA QuietHInv ==
    ASSUME IInv, HInv, NEW r \in Requests, UNCHANGED walletVars,
           \A s \in Requests \ {r} : req'[s] = req[s],
           req'[r].customer = req[r].customer, req'[r].key = req[r].key,
           req'[r].pc = "locked" => ReservationChecked(r)',
           \A s \in Requests \ {r} : req[s].pc = "locked" => lock'[req[s].customer] = s
    PROVE  HInv'
<1>1. wallet' = wallet /\ usage' = usage
  BY DEF walletVars
<1>2. Frame({})
  BY <1>1 DEF Frame, Requests
<1>3. Recorded' = Recorded
  BY <1>1 DEF Recorded
<1>4. KeysAreOwners'
  BY DEF HInv, KeysAreOwners
<1>5. \A s \in Requests : req'[s].pc = "locked" =>
        \/ ReservationChecked(s)'
        \/ /\ req[s].pc = "locked" /\ req[s].customer \notin {}
           /\ req'[s].customer = req[s].customer /\ req'[s].key = req[s].key
           /\ req'[s].hold = req[s].hold /\ req'[s].day = req[s].day
           /\ lock'[req[s].customer] = s
  OBVIOUS
<1>6. IsFiniteSet(Recorded')
  BY <1>3 DEF HInv
<1> QED
  BY <1>2, <1>4, <1>5, <1>6, HInvStep

\* Whoever has checked a reservation has the lock, so the lock is not free and
\* nobody else has it.
LEMMA LockHeld ==
    ASSUME IInv, HInv, NEW s \in Requests, req[s].pc = "locked"
    PROVE  lock[req[s].customer] = s /\ s /= Free
  BY GatewayAssumption DEF HInv, LocksProtect, ReservationChecked

\* Begin: the request has no record yet.
LEMMA BeginHInv ==
    ASSUME IInv, HInv, NEW r \in Requests, Begin(r)
    PROVE  HInv'
<1> DEFINE next(caller, i) ==
             CASE SameSlot(caller[1], caller[2], i) = {} -> "reserving"
               [] \E u \in SameSlot(caller[1], caller[2], i) :
                    usage[u].status /= "running" /\ usage[u].body -> "replayed"
               [] OTHER -> "rejected"
<1>1. PICK caller \in Callers, m \in Models, i \in IdemKeys \cup {NoIdem}, h \in Holds :
         req' = [req EXCEPT ![r] =
                   [pc |-> next(caller, i), customer |-> caller[1], key |-> caller[2],
                    model |-> m, idem |-> i, hold |-> h, charge |-> 0,
                    day |-> day, body |-> FALSE]]
  BY DEF Begin
<1>2. next(caller, i) /= "locked"
  OBVIOUS
<1> HIDE DEF next
<1>3. /\ req'[r].pc /= "locked" /\ req'[r].customer = caller[1] /\ req'[r].key = caller[2]
      /\ \A s \in Requests \ {r} : req'[s] = req[s]
  BY <1>1, <1>2 DEF IInv, TypeOK
<1>4. usage[r].status = "none" /\ UNCHANGED <<wallet, usage, lock>>
  BY DEF Begin, walletVars, IInv, RecordFollowsHandler
<1>5. Frame({})
  BY <1>3, <1>4 DEF Frame, Requests
<1>6. Recorded' = Recorded
  BY <1>4 DEF Recorded
<1>7. KeysAreOwners'
  <2>1. caller[2] /= NoKey => KeyOwner[caller[2]] = caller[1]
    BY GatewayAssumption DEF Callers
  <2> QED
    BY <1>3, <2>1 DEF HInv, KeysAreOwners
<1>8. \A s \in Requests : req'[s].pc = "locked" =>
        \/ ReservationChecked(s)'
        \/ /\ req[s].pc = "locked" /\ req[s].customer \notin {}
           /\ req'[s].customer = req[s].customer /\ req'[s].key = req[s].key
           /\ req'[s].hold = req[s].hold /\ req'[s].day = req[s].day
           /\ lock'[req[s].customer] = s
  BY <1>3, <1>4, LockHeld
<1>9. IsFiniteSet(Recorded')
  BY <1>6 DEF HInv
<1> QED
  BY <1>5, <1>7, <1>8, <1>9, HInvStep

\* ReserveLock makes the checks, with the lock in its hands.
LEMMA ReserveLockHInv ==
    ASSUME IInv, HInv, NEW r \in Requests, ReserveLock(r)
    PROVE  HInv'
<1>1. /\ UNCHANGED walletVars /\ lock[req[r].customer] = Free /\ req[r].pc = "reserving"
      /\ req[r].customer \in Customers /\ lock \in [Customers -> Requests \cup {Free}]
  BY DEF ReserveLock, IInv, TypeOK, RequestState
<1>2. PICK d \in req[r].day .. day :
        \/ /\ MayReserve(r, d)
           /\ req' = [req EXCEPT ![r].pc = "locked", ![r].day = d]
           /\ lock' = [lock EXCEPT ![req[r].customer] = r]
        \/ /\ Goto(r, "rejected")
           /\ UNCHANGED lock
  BY DEF ReserveLock
<1>3. \A s \in Requests \ {r} : req[s].pc = "locked" =>
        req[s].customer /= req[r].customer /\ lock[req[s].customer] = s
  BY <1>1, LockHeld
<1>4. CASE /\ MayReserve(r, d)
           /\ req' = [req EXCEPT ![r].pc = "locked", ![r].day = d]
           /\ lock' = [lock EXCEPT ![req[r].customer] = r]
  <2>1. PICK row \in RequestState : row = req[r]
    BY DEF IInv, TypeOK
  <2> DEFINE q == [row EXCEPT !.pc = "locked", !.day = d]
  <2>2. /\ q.pc = "locked" /\ q.customer = row.customer /\ q.key = row.key
        /\ q.hold = row.hold /\ q.day = d
    BY DEF RequestState
  <2>3. req' = [req EXCEPT ![r] = q]
    BY <1>4, <2>1
  <2> HIDE DEF q
  <2>4. req'[r] = q /\ \A s \in Requests \ {r} : req'[s] = req[s]
    BY <2>3 DEF IInv, TypeOK
  <2>5. lock'[req[r].customer] = r
    BY <1>1, <1>4
  <2>6. ReservationChecked(r)'
    <3> DEFINE c == row.customer
               k == row.key
    <3>1. wallet' = wallet /\ usage' = usage
      BY <1>1 DEF walletVars
    <3>2. \A u \in Usages : req'[u].customer = req[u].customer /\ req'[u].key = req[u].key
      BY <2>1, <2>2, <2>4 DEF Requests
    <3>3. CustomerUsages(c)' = CustomerUsages(c) /\ KeyUsages(k)' = KeyUsages(k)
      BY <3>1, <3>2 DEF CustomerUsages, KeyUsages, Recorded
    <3>4. /\ DailySpend(CustomerUsages(c), d)' = DailySpend(CustomerUsages(c), d)
          /\ DailySpend(KeyUsages(k), d)' = DailySpend(KeyUsages(k), d)
      BY <3>1, <3>3 DEF DailySpend
    <3>5. /\ wallet[c].enabled /\ wallet[c].balance - wallet[c].held >= row.hold
          /\ WithinDailyLimit(wallet[c].limit, DailySpend(CustomerUsages(c), d), row.hold)
          /\ k /= NoKey =>
               WithinDailyLimit(KeyLimit[k], DailySpend(KeyUsages(k), d), row.hold)
      BY <1>4, <2>1 DEF MayReserve, WithinDailyLimits
    <3>6. /\ req'[r].customer = c /\ req'[r].key = k /\ req'[r].hold = row.hold
          /\ req'[r].day = d
      BY <2>2, <2>4
    <3> QED
      BY <2>1, <2>5, <3>1, <3>4, <3>5, <3>6 DEF ReservationChecked
  <2>7. \A s \in Requests \ {r} : req[s].pc = "locked" => lock'[req[s].customer] = s
    BY <1>1, <1>3, <1>4
  <2>8. req'[r].customer = req[r].customer /\ req'[r].key = req[r].key
    BY <2>1, <2>2, <2>4
  <2> QED
    BY <1>1, <2>4, <2>6, <2>7, <2>8, QuietHInv
<1>5. CASE Goto(r, "rejected") /\ UNCHANGED lock
  <2>1. "rejected" \in Progress
    BY DEF Progress
  <2> QED
    BY <1>1, <1>3, <1>5, <2>1, GotoKeeps, QuietHInv
<1> QED
  BY <1>2, <1>4, <1>5

\* ReserveCommit: the hold is added to the wallet and to the running calls.
LEMMA ReserveCommitHInv ==
    ASSUME IInv, HInv, NEW r \in Requests, ReserveCommit(r)
    PROVE  HInv'
<1>0. PICK c \in Customers : c = req[r].customer
  BY DEF IInv, TypeOK, RequestState
<1>1. /\ req[r].pc = "locked" /\ req[r].customer = c /\ req[r].hold \in Nat /\ req[r].day \in Nat
      /\ r \in Usages /\ usage[r].status = "none"
      /\ lock \in [Customers -> Requests \cup {Free}]
      /\ lock' = [lock EXCEPT ![c] = Free]
  BY <1>0 DEF ReserveCommit, IInv, TypeOK, RequestState, RecordFollowsHandler, Requests
<1>2. \A s \in Requests \ {r} : req[s].pc = "locked" =>
        req[s].customer /= c /\ lock'[req[s].customer] = s
  <2>1. lock[c] = r
    BY <1>1, LockHeld
  <2> QED
    BY <1>1, <2>1, LockHeld DEF IInv, TypeOK, RequestState
<1>3. CASE Goto(r, "rejected") /\ UNCHANGED walletVars
  <2>1. "rejected" \in Progress
    BY DEF Progress
  <2> QED
    BY <1>1, <1>2, <1>3, <2>1, GotoKeeps, QuietHInv
<1>4. CASE Reserve(c, r, req[r].hold, req[r].day) /\ Goto(r, "calling")
  <2>1. "calling" \in Progress
    BY DEF Progress
  <2>2. /\ req'[r].pc = "calling"
        /\ \A s \in Requests : /\ req'[s].customer = req[s].customer
                               /\ req'[s].key = req[s].key
                               /\ s /= r => req'[s] = req[s]
    BY <1>4, <2>1, GotoKeeps
  <2>3. /\ wallet'[c].held = wallet[c].held + req[r].hold
        /\ wallet'[c].balance = wallet[c].balance
        /\ \A e \in Customers \ {c} : wallet'[e] = wallet[e]
        /\ usage'[r].status = "running" /\ usage'[r].held = req[r].hold
        /\ \A v \in Usages \ {r} : usage'[v] = usage[v]
    <3>1. /\ wallet'[c].held = wallet[c].held + req[r].hold
          /\ wallet'[c].balance = wallet[c].balance
          /\ \A e \in Customers \ {c} : wallet'[e] = wallet[e]
          /\ usage'[r] = [status |-> "running", held |-> req[r].hold, charged |-> 0,
                          refunded |-> 0, day |-> req[r].day, body |-> FALSE]
          /\ \A v \in Usages \ {r} : usage'[v] = usage[v]
      BY <1>1, <1>4, ReserveWrites, TablesSound
    <3> QED
      BY <3>1
  <2>4. Frame({c})
    BY <1>1, <2>2, <2>3 DEF Frame, Requests
  <2>5. Recorded' = Recorded \cup {r} /\ r \notin Recorded
    BY <1>1, <2>3 DEF Recorded
  <2>6. IsFiniteSet(Recorded')
    BY <2>5, FS_AddElement DEF HInv
  <2>7. KeysAreOwners'
    BY <2>2 DEF HInv, KeysAreOwners
  <2>8. CustomerUsages(c)' = CustomerUsages(c) \cup {r} /\ r \notin CustomerUsages(c)
    BY <1>1, <2>2, <2>5 DEF CustomerUsages, Recorded, Requests
  <2>9. HoldsOf(usage', CustomerUsages(c) \cup {r}) =
          HoldsOf(usage, CustomerUsages(c)) + req[r].hold
    <3>1. \A v \in CustomerUsages(c) : usage'[v] = usage[v]
      BY <2>3, <2>8 DEF CustomerUsages, Recorded
    <3> QED
      BY <1>1, <2>3, <2>8, <3>1, CustomerSummable, HoldsAdd
  <2>10. wallet'[c].held <= wallet'[c].balance
    <3>1. wallet[c].balance - wallet[c].held >= req[r].hold
      BY <1>1 DEF HInv, LocksProtect, ReservationChecked
    <3>2. wallet[c].balance \in Nat /\ wallet[c].held \in Nat
      BY <1>1 DEF IInv, TypeOK, WalletTypeOK, WalletRow
    <3> QED
      BY <1>1, <2>3, <3>1, <3>2
  <2>11. wallet'[c].held = HoldsOf(usage', CustomerUsages(c)')
    BY <1>1, <2>3, <2>8, <2>9 DEF HInv, HeldIsRunningHolds, RunningHolds
  <2>12. \A s \in Requests : req'[s].pc = "locked" =>
          \/ ReservationChecked(s)'
          \/ /\ req[s].pc = "locked" /\ req[s].customer \notin {c}
             /\ req'[s].customer = req[s].customer /\ req'[s].key = req[s].key
             /\ req'[s].hold = req[s].hold /\ req'[s].day = req[s].day
             /\ lock'[req[s].customer] = s
    BY <1>2, <2>2
  <2>13. \A e \in Customers \cap {c} :
          /\ wallet'[e].held = HoldsOf(usage', CustomerUsages(e)')
          /\ wallet'[e].held <= wallet'[e].balance
    BY <2>10, <2>11
  <2> QED
    BY <2>4, <2>6, <2>7, <2>12, <2>13, HInvStep
<1> QED
  BY <1>0, <1>3, <1>4 DEF ReserveCommit

\* The answer of the provider.
LEMMA ProviderHInv ==
    ASSUME IInv, HInv, NEW r \in Requests, ProviderOk(r) \/ ProviderFail(r)
    PROVE  HInv'
<1>1. PICK row \in RequestState : row = req[r]
  BY DEF IInv, TypeOK
<1>2. UNCHANGED walletVars /\ lock' = lock
  BY DEF ProviderOk, ProviderFail
<1>3. \E q : /\ req' = [req EXCEPT ![r] = q] /\ q.pc /= "locked"
             /\ q.customer = row.customer /\ q.key = row.key
  <2>1. CASE ProviderOk(r)
    <3>1. PICK charge \in Charges :
            req' = [req EXCEPT ![r].pc = "capturing", ![r].charge = charge]
      BY <2>1 DEF ProviderOk
    <3> DEFINE q == [row EXCEPT !.pc = "capturing", !.charge = charge]
    <3>2. q.pc /= "locked" /\ q.customer = row.customer /\ q.key = row.key
      BY DEF RequestState
    <3>3. req' = [req EXCEPT ![r] = q]
      BY <1>1, <3>1
    <3> HIDE DEF q
    <3> QED
      BY <3>2, <3>3
  <2>2. CASE ProviderFail(r)
    <3>1. PICK body \in BOOLEAN :
            req' = [req EXCEPT ![r].pc = "releasing", ![r].body = body]
      BY <2>2 DEF ProviderFail
    <3> DEFINE q == [row EXCEPT !.pc = "releasing", !.body = body]
    <3>2. q.pc /= "locked" /\ q.customer = row.customer /\ q.key = row.key
      BY DEF RequestState
    <3>3. req' = [req EXCEPT ![r] = q]
      BY <1>1, <3>1
    <3> HIDE DEF q
    <3> QED
      BY <3>2, <3>3
  <2> QED
    BY <2>1, <2>2
<1>4. PICK q : /\ req' = [req EXCEPT ![r] = q] /\ q.pc /= "locked"
               /\ q.customer = row.customer /\ q.key = row.key
  BY <1>3
<1>5. req'[r] = q /\ \A s \in Requests \ {r} : req'[s] = req[s]
  BY <1>4 DEF IInv, TypeOK
<1> QED
  BY <1>1, <1>2, <1>4, <1>5, LockHeld, QuietHInv

\* A settlement takes the hold of its call away from the wallet and from the
\* running calls.
LEMMA SettleHInv ==
    ASSUME IInv, HInv, NEW r \in Requests, CaptureUsage(r) \/ ReleaseUsage(r)
    PROVE  HInv'
<1>0. PICK c \in Customers : c = req[r].customer
  BY DEF IInv, TypeOK, RequestState
<1>1. /\ req[r].pc \in {"capturing", "releasing"} /\ lock[c] = Free /\ lock' = lock
      /\ usage[r].status = "running" /\ r \in Usages /\ Goto(r, "settled")
  BY <1>0 DEF CaptureUsage, ReleaseUsage, IInv, RecordFollowsHandler, Requests
<1>2. "settled" \in Progress
  BY DEF Progress
<1>3. /\ req'[r].pc = "settled"
      /\ \A s \in Requests : /\ req'[s].customer = req[s].customer
                             /\ req'[s].key = req[s].key
                             /\ s /= r => req'[s] = req[s]
  BY <1>1, <1>2, GotoKeeps
<1>4. /\ wallet'[c].held = wallet[c].held - usage[r].held
      /\ wallet'[c].held <= wallet'[c].balance
      /\ \A e \in Customers \ {c} : wallet'[e] = wallet[e]
      /\ usage'[r].status \in {"succeeded", "failed"}
      /\ \A v \in Usages \ {r} : usage'[v] = usage[v]
  <2>1. req[r].charge \in Nat /\ req[r].body \in BOOLEAN
    BY DEF IInv, TypeOK, RequestState
  <2>2. \/ \E charge \in Nat : Capture(c, r, charge)
        \/ \E body \in BOOLEAN : Release(c, r, body)
    BY <1>0, <2>1 DEF CaptureUsage, ReleaseUsage
  <2> QED
    BY <1>1, <2>2, SettleWrites, TablesSound
<1>5. Frame({c})
  BY <1>0, <1>3, <1>4 DEF Frame, Requests
<1>6. Recorded' = Recorded
  BY <1>1, <1>4 DEF Recorded
<1>7. IsFiniteSet(Recorded')
  BY <1>6 DEF HInv
<1>8. KeysAreOwners'
  BY <1>3 DEF HInv, KeysAreOwners
<1>9. CustomerUsages(c)' = CustomerUsages(c) /\ r \in CustomerUsages(c)
  BY <1>0, <1>1, <1>3, <1>6 DEF CustomerUsages, Recorded, Requests
<1>10. HoldsOf(usage', CustomerUsages(c)) = HoldsOf(usage, CustomerUsages(c)) - usage[r].held
  <2>1. \A v \in CustomerUsages(c) \ {r} : usage'[v] = usage[v]
    BY <1>4 DEF CustomerUsages, Recorded
  <2>2. usage'[r].status /= "running"
    BY <1>4
  <2> QED
    BY <1>1, <1>9, <2>1, <2>2, CustomerSummable, HoldsSettle
<1>11. \A e \in Customers \cap {c} :
        /\ wallet'[e].held = HoldsOf(usage', CustomerUsages(e)')
        /\ wallet'[e].held <= wallet'[e].balance
  BY <1>4, <1>9, <1>10 DEF HInv, HeldIsRunningHolds, RunningHolds
<1>12. \A s \in Requests : req'[s].pc = "locked" =>
        \/ ReservationChecked(s)'
        \/ /\ req[s].pc = "locked" /\ req[s].customer \notin {c}
           /\ req'[s].customer = req[s].customer /\ req'[s].key = req[s].key
           /\ req'[s].hold = req[s].hold /\ req'[s].day = req[s].day
           /\ lock'[req[s].customer] = s
  BY <1>1, <1>3, LockHeld
<1> QED
  BY <1>5, <1>7, <1>8, <1>11, <1>12, HInvStep

\* A handler that stops gives its lock back.
LEMMA AbandonHInv ==
    ASSUME IInv, HInv, NEW r \in Requests, Abandon(r)
    PROVE  HInv'
<1>1. /\ UNCHANGED walletVars /\ Goto(r, "abandoned") /\ "abandoned" \in Progress
      /\ lock' = [c \in Customers |-> IF lock[c] = r THEN Free ELSE lock[c]]
  BY DEF Abandon, Progress
<1>2. \A s \in Requests \ {r} : req[s].pc = "locked" => lock'[req[s].customer] = s
  BY <1>1, LockHeld DEF IInv, TypeOK, RequestState
<1> QED
  BY <1>1, <1>2, GotoKeeps, QuietHInv

\* The back office works on a wallet nobody has locked, and leaves what is on
\* hold.
LEMMA BackOfficeHInv ==
    ASSUME IInv, HInv, NEW c \in Customers, BackOffice(c)
    PROVE  HInv'
<1>1. lock[c] = Free /\ UNCHANGED <<req, lock>> /\ wallet \in [Customers -> WalletRow]
  BY DEF BackOffice, AdjustAiWallet, UpdateAiWalletQuota, UpdateAiWalletAccess, AdminStep,
         IInv, TypeOK, WalletTypeOK
<1>2. PICK row \in WalletRow : row = wallet[c]
  BY <1>1
<1>3. /\ usage' = usage
      /\ \E w : /\ wallet' = [wallet EXCEPT ![c] = w]
                /\ w.held = row.held /\ w.held <= w.balance
  <2>1. CASE AdjustAiWallet(c)
    <3>1. PICK amount \in Amounts : AdjustWallet(c, amount)
      BY <2>1 DEF AdjustAiWallet
    <3> DEFINE w == UpdateWalletBalance(row, amount)
    <3>2. wallet' = [wallet EXCEPT ![c] = w] /\ w.balance >= w.held /\ usage' = usage
      BY <1>2, <3>1 DEF AdjustWallet
    <3>3. w.held = row.held
      BY DEF UpdateWalletBalance, WalletRow
    <3>4. w.balance \in Int /\ w.held \in Int
      BY GatewayAssumption DEF UpdateWalletBalance, WalletRow
    <3> HIDE DEF w
    <3> QED
      BY <3>2, <3>3, <3>4
  <2>2. CASE UpdateAiWalletQuota(c)
    <3>1. PICK limit \in Quotas : UpdateWalletQuota(c, limit)
      BY <2>2 DEF UpdateAiWalletQuota
    <3> DEFINE w == [row EXCEPT !.limit = limit]
    <3>2. wallet' = [wallet EXCEPT ![c] = w] /\ usage' = usage
      BY <1>2, <3>1 DEF UpdateWalletQuota
    <3>3. w.held = row.held /\ w.balance = row.balance
      BY DEF WalletRow
    <3> HIDE DEF w
    <3> QED
      BY <1>2, <3>2, <3>3 DEF HInv, HoldsCovered
  <2>3. CASE UpdateAiWalletAccess(c)
    <3>1. PICK enabled \in BOOLEAN : UpdateWalletAccess(c, enabled)
      BY <2>3 DEF UpdateAiWalletAccess
    <3> DEFINE w == [row EXCEPT !.enabled = enabled]
    <3>2. wallet' = [wallet EXCEPT ![c] = w] /\ usage' = usage
      BY <1>2, <3>1 DEF UpdateWalletAccess
    <3>3. w.held = row.held /\ w.balance = row.balance
      BY DEF WalletRow
    <3> HIDE DEF w
    <3> QED
      BY <1>2, <3>2, <3>3 DEF HInv, HoldsCovered
  <2> QED
    BY <2>1, <2>2, <2>3 DEF BackOffice
<1>4. PICK w : /\ wallet' = [wallet EXCEPT ![c] = w]
               /\ w.held = row.held /\ w.held <= w.balance
  BY <1>3
<1>5. /\ wallet'[c].held = wallet[c].held /\ wallet'[c].held <= wallet'[c].balance
      /\ \A e \in Customers \ {c} : wallet'[e] = wallet[e]
  BY <1>1, <1>2, <1>4
<1>6. Frame({c})
  BY <1>1, <1>3, <1>5 DEF Frame
<1>7. Recorded' = Recorded /\ CustomerUsages(c)' = CustomerUsages(c)
  BY <1>1, <1>3 DEF Recorded, CustomerUsages
<1>8. IsFiniteSet(Recorded') /\ KeysAreOwners'
  BY <1>1, <1>7 DEF HInv, KeysAreOwners
<1>9. \A e \in Customers \cap {c} :
        /\ wallet'[e].held = HoldsOf(usage', CustomerUsages(e)')
        /\ wallet'[e].held <= wallet'[e].balance
  BY <1>3, <1>5, <1>7 DEF HInv, HeldIsRunningHolds, RunningHolds
<1>10. \A s \in Requests : req'[s].pc = "locked" =>
        \/ ReservationChecked(s)'
        \/ /\ req[s].pc = "locked" /\ req[s].customer \notin {c}
           /\ req'[s].customer = req[s].customer /\ req'[s].key = req[s].key
           /\ req'[s].hold = req[s].hold /\ req'[s].day = req[s].day
           /\ lock'[req[s].customer] = s
  BY <1>1, LockHeld
<1> QED
  BY <1>6, <1>8, <1>9, <1>10, HInvStep

\* Nothing but the calendar, or nothing at all, changes.
LEMMA CalendarHInv ==
    ASSUME IInv, HInv, UNCHANGED <<wallet, usage, req, lock>>
    PROVE  HInv'
  BY DEF HInv, HeldIsRunningHolds, RunningHolds, HoldsCovered, KeysAreOwners, LocksProtect,
         ReservationChecked, Recorded, CustomerUsages, KeyUsages, DailySpend

\* The first state.
LEMMA InitHInv == Init => HInv
<1> SUFFICES ASSUME Init PROVE HInv
  OBVIOUS
<1>1. /\ \A u \in Usages : usage[u].status = "none"
      /\ \A c \in Customers : wallet[c].held = 0 /\ wallet[c].balance = OpeningBalance
      /\ \A r \in Requests : req[r].pc = "new" /\ req[r].key = NoKey
  BY DEF Init, WalletInit, NoUsage, NewRequest
<1>2. Recorded = {} /\ \A c \in Customers : CustomerUsages(c) = {}
  BY <1>1 DEF Recorded, CustomerUsages
<1>3. HoldsOf(usage, {}) = 0
  <2>1. {u \in {} : usage[u].status = "running"} = {}
    OBVIOUS
  <2> QED
    BY <2>1, SumEmpty DEF HoldsOf
<1>4. IsFiniteSet(Recorded)
  BY <1>2, FS_EmptySet
<1>5. HeldIsRunningHolds
  BY <1>1, <1>2, <1>3 DEF HeldIsRunningHolds, RunningHolds
<1>6. HoldsCovered
  BY <1>1, WalletAssumption DEF HoldsCovered
<1>7. KeysAreOwners /\ LocksProtect
  BY <1>1 DEF KeysAreOwners, LocksProtect
<1> QED
  BY <1>4, <1>5, <1>6, <1>7 DEF HInv

\* Every step keeps the invariant.
LEMMA NextHInv == IInv /\ HInv /\ [Next]_vars => HInv'
<1> SUFFICES ASSUME IInv, HInv, [Next]_vars PROVE HInv'
  OBVIOUS
<1>1. CASE \E r \in Requests : Begin(r) \/ RequestStep(r) \/ Abandon(r)
  BY <1>1, BeginHInv, ReserveLockHInv, ReserveCommitHInv, ProviderHInv, SettleHInv,
     AbandonHInv DEF RequestStep
<1>2. CASE \E c \in Customers : BackOffice(c)
  BY <1>2, BackOfficeHInv
<1>3. CASE Midnight \/ UNCHANGED vars
  BY <1>3, CalendarHInv DEF Midnight, NextDay, vars, walletVars
<1> QED
  BY <1>1, <1>2, <1>3 DEF Next

\* The invariant holds in every reachable state.
LEMMA HoldsInvariance == Spec => []HInv
  BY InitHInv, NextHInv, Invariance, PTL DEF Spec

\* What a wallet has on hold is the sum of what its running calls hold, for any
\* number of calls, whatever handlers stop and whatever the back office does.
THEOREM HoldsAreRunning == Spec => []HeldIsRunningHolds
<1>1. HInv => HeldIsRunningHolds
  BY DEF HInv
<1> QED
  BY <1>1, HoldsInvariance, PTL

-----------------------------------------------------------------------------
(***************************************************************************)
(* The settlements.  A call with a running record holds no more than its   *)
(* customer's wallet has on hold, and that is no more than the balance.    *)
(***************************************************************************)

\* The hold of a running call is part of what its wallet has on hold.
LEMMA RunningIsHeld ==
    ASSUME IInv, HInv, NEW r \in Requests, usage[r].status = "running"
    PROVE  /\ req[r].customer \in Customers
           /\ usage[r].held \in Nat
           /\ usage[r].held <= wallet[req[r].customer].held
<1>1. PICK c \in Customers : c = req[r].customer
  BY DEF IInv, TypeOK, RequestState
<1>2. r \in CustomerUsages(c)
  BY <1>1 DEF CustomerUsages, Recorded, Requests
<1>3. Summable(usage, CustomerUsages(c))
  BY CustomerSummable
<1>4. usage[r].held <= HoldsOf(usage, CustomerUsages(c))
  BY <1>2, <1>3, HoldsCover
<1>5. usage[r].held \in Nat
  BY DEF IInv, TypeOK, WalletTypeOK, UsageRow, Requests
<1> QED
  BY <1>1, <1>4, <1>5 DEF HInv, HeldIsRunningHolds, RunningHolds

\* Whatever a running call turns out to cost, the two rows a settlement may
\* write pass the check constraint.
LEMMA SettlementsPass ==
    ASSUME IInv, HInv, NEW r \in Requests, usage[r].status = "running", NEW charge \in Nat
    PROVE  /\ RowAllowed(CapturedRow(req[r].customer, r, charge))
           /\ RowAllowed(ReleasedRow(req[r].customer, r))
<1>1. PICK c \in Customers, w \in WalletRow, held \in Nat :
        c = req[r].customer /\ w = wallet[c] /\ held = usage[r].held
  BY RunningIsHeld DEF IInv, TypeOK, WalletTypeOK
<1>2. /\ w.balance \in Nat /\ w.held \in Nat
      /\ held <= w.held /\ w.held <= w.balance
  BY <1>1, RunningIsHeld DEF HInv, HoldsCovered, WalletRow
<1>3. PICK taken \in Nat : taken = SettleCharge(charge, held, w)
  BY SettledAmount
<1>4. taken <= held + (w.balance - w.held)
  BY <1>2, <1>3, SettledAmount
<1>5. RowAllowed(UpdateWalletCapture(w, held, taken))
  <2>1. /\ UpdateWalletCapture(w, held, taken).balance = w.balance - taken
        /\ UpdateWalletCapture(w, held, taken).held = w.held - held
    BY DEF UpdateWalletCapture, WalletRow
  <2> QED
    BY <1>2, <1>4, <2>1 DEF RowAllowed
<1>6. RowAllowed(UpdateWalletHold(w, -held))
  <2>1. /\ UpdateWalletHold(w, -held).balance = w.balance
        /\ UpdateWalletHold(w, -held).held = w.held - held
    BY <1>2, HoldRow
  <2> QED
    BY <1>2, <2>1 DEF RowAllowed
<1> QED
  BY <1>1, <1>3, <1>5, <1>6 DEF CapturedRow, ReleasedRow

\* When a handler comes back from the provider, what it then writes passes the
\* check constraint of ai_wallets: a call let through can always be settled.
THEOREM SettlementsFit == Spec => []SettlementFits
<1>1. IInv /\ HInv => SettlementFits
  BY SettlementsPass, GatewayAssumption DEF IInv, RecordFollowsHandler, SettlementFits
<1> QED
  BY <1>1, Invariance, HoldsInvariance, PTL

-----------------------------------------------------------------------------
(***************************************************************************)
(* The reservations.  What was checked under the lock is still true at the *)
(* commit (LocksProtect), and the record that is inserted adds its hold to *)
(* the spending that was checked.                                          *)
(***************************************************************************)

\* Records inserted beside those of U.
LEMMA SpendGrows ==
    ASSUME IInv, HInv, IInv', NEW U, U \subseteq Recorded, NEW r \in Usages, r \notin U,
           \A v \in Usages \ {r} : usage'[v] = usage[v],
           NEW hold \in Nat, NEW d \in Nat,
           usage'[r].status = "running", usage'[r].held = hold, usage'[r].day = d,
           NEW limit \in Nat, DailySpend(U, d) + hold <= limit
    PROVE  SumFunctionOnSet([v \in U \cup {r} |-> Spent(usage'[v], d)], U \cup {r}) <= limit
<1>1. IsFiniteSet(U)
  BY FS_Subset DEF HInv
<1>2. \A v \in U : usage[v] \in UsageRow /\ usage'[v] = usage[v]
  BY DEF IInv, TypeOK, WalletTypeOK, Recorded
<1>3. usage'[r] \in UsageRow
  BY DEF IInv, TypeOK, WalletTypeOK
<1>4. Spent(usage'[r], d) = hold
  BY DEF Spent
<1>5. DailySpend(U, d) \in Nat
  BY <1>1, <1>2, SpendNat DEF DailySpend
<1>6. SumFunctionOnSet([v \in U \cup {r} |-> Spent(usage'[v], d)], U \cup {r}) =
        hold + DailySpend(U, d)
  BY <1>1, <1>2, <1>3, <1>4, SpendAdd DEF DailySpend
<1> QED
  BY <1>5, <1>6

\* What is promised of a step that inserts the record u.
Respects(u) ==
    LET q == req[u]
        w == wallet'[q.customer]
    IN  /\ w.enabled
        /\ q.hold > 0 /\ w.limit /= NoLimit =>
             DailySpend(CustomerUsages(q.customer), q.day)' <= w.limit
        /\ q.hold > 0 /\ q.key /= NoKey /\ KeyLimit[q.key] /= NoLimit =>
             DailySpend(KeyUsages(q.key), q.day)' <= KeyLimit[q.key]

\* The commit of a reservation respects the limits.
LEMMA CommitRespects ==
    ASSUME IInv, HInv, IInv', NEW r \in Requests, ReserveCommit(r), Inserted(r)
    PROVE  Respects(r)
<1>1. PICK c \in Customers, k \in Keys \cup {NoKey}, hold \in Nat, d \in Nat :
        c = req[r].customer /\ k = req[r].key /\ hold = req[r].hold /\ d = req[r].day
  BY DEF IInv, TypeOK, RequestState
<1>2. /\ req[r].pc = "locked" /\ r \in Usages
      /\ Reserve(c, r, hold, d) /\ Goto(r, "calling") /\ "calling" \in Progress
  BY <1>1 DEF ReserveCommit, Inserted, walletVars, Requests, Progress
<1>3. /\ wallet'[c].enabled = wallet[c].enabled /\ wallet'[c].limit = wallet[c].limit
      /\ usage'[r] = [status |-> "running", held |-> hold, charged |-> 0,
                      refunded |-> 0, day |-> d, body |-> FALSE]
      /\ \A v \in Usages \ {r} : usage'[v] = usage[v]
  BY <1>2, ReserveWrites, TablesSound
<1>4. usage'[r].status = "running" /\ usage'[r].held = hold /\ usage'[r].day = d
  BY <1>3
<1>5. /\ req'[r].day = d /\ req'[r].customer = c /\ req'[r].key = k
      /\ \A s \in Requests : /\ req'[s].customer = req[s].customer
                             /\ req'[s].key = req[s].key
  <2>1. \A s \in Requests : /\ req'[s].customer = req[s].customer
                            /\ req'[s].key = req[s].key
    BY <1>2, GotoKeeps
  <2>2. PICK row \in RequestState : row = req[r]
    BY DEF IInv, TypeOK
  <2>3. [row EXCEPT !.pc = "calling"].day = row.day
    BY DEF RequestState
  <2>4. req'[r] = [row EXCEPT !.pc = "calling"]
    BY <1>2, <2>2 DEF Goto, IInv, TypeOK
  <2> QED
    BY <1>1, <2>1, <2>2, <2>3, <2>4
<1>6. Recorded' = Recorded \cup {r} /\ r \notin Recorded
  BY <1>2, <1>3, <1>4 DEF Recorded, Inserted
<1>7. /\ CustomerUsages(c)' = CustomerUsages(c) \cup {r} /\ r \notin CustomerUsages(c)
      /\ KeyUsages(k)' = KeyUsages(k) \cup {r} /\ r \notin KeyUsages(k)
      /\ CustomerUsages(c) \subseteq Recorded /\ KeyUsages(k) \subseteq Recorded
  BY <1>1, <1>2, <1>5, <1>6 DEF CustomerUsages, KeyUsages, Recorded, Requests
<1>8. /\ wallet[c].enabled
      /\ WithinDailyLimit(wallet[c].limit, DailySpend(CustomerUsages(c), d), hold)
      /\ k /= NoKey => WithinDailyLimit(KeyLimit[k], DailySpend(KeyUsages(k), d), hold)
  BY <1>1, <1>2 DEF HInv, LocksProtect, ReservationChecked
<1>9. ASSUME hold > 0, wallet'[c].limit /= NoLimit
      PROVE  DailySpend(CustomerUsages(c), d)' <= wallet'[c].limit
  <2>1. PICK limit \in Nat : limit = wallet[c].limit /\ limit = wallet'[c].limit
    BY <1>3, <1>9 DEF IInv, TypeOK, WalletTypeOK, WalletRow, Limit
  <2>2. DailySpend(CustomerUsages(c), d) + hold <= limit
    BY <1>3, <1>8, <1>9, <2>1 DEF WithinDailyLimit
  <2>3. SumFunctionOnSet([v \in CustomerUsages(c) \cup {r} |-> Spent(usage'[v], d)],
                         CustomerUsages(c) \cup {r}) <= limit
    <3>1. PICK U : U = CustomerUsages(c)
      OBVIOUS
    <3>2. /\ U \subseteq Recorded /\ r \notin U /\ r \in Usages
          /\ DailySpend(U, d) + hold <= limit
      BY <1>2, <1>7, <2>2, <3>1
    <3>3. \A v \in Usages \ {r} : usage'[v] = usage[v]
      BY <1>3
    <3>4. SumFunctionOnSet([v \in U \cup {r} |-> Spent(usage'[v], d)], U \cup {r}) <= limit
      BY <1>4, <3>2, <3>3, SpendGrows
    <3> QED
      BY <3>1, <3>4
  <2> QED
    BY <1>7, <2>1, <2>3 DEF DailySpend
<1>10. ASSUME hold > 0, k /= NoKey, KeyLimit[k] /= NoLimit
       PROVE  DailySpend(KeyUsages(k), d)' <= KeyLimit[k]
  <2>1. PICK limit \in Nat : limit = KeyLimit[k]
    BY <1>10, GatewayAssumption DEF Limit
  <2>2. DailySpend(KeyUsages(k), d) + hold <= limit
    BY <1>8, <1>10, <2>1 DEF WithinDailyLimit
  <2>3. SumFunctionOnSet([v \in KeyUsages(k) \cup {r} |-> Spent(usage'[v], d)],
                         KeyUsages(k) \cup {r}) <= limit
    <3>1. PICK U : U = KeyUsages(k)
      OBVIOUS
    <3>2. /\ U \subseteq Recorded /\ r \notin U /\ r \in Usages
          /\ DailySpend(U, d) + hold <= limit
      BY <1>2, <1>7, <2>2, <3>1
    <3>3. \A v \in Usages \ {r} : usage'[v] = usage[v]
      BY <1>3
    <3>4. SumFunctionOnSet([v \in U \cup {r} |-> Spent(usage'[v], d)], U \cup {r}) <= limit
      BY <1>4, <3>2, <3>3, SpendGrows
    <3> QED
      BY <3>1, <3>4
  <2> QED
    BY <1>7, <2>1, <2>3 DEF DailySpend
<1>11. /\ DailySpend(CustomerUsages(req[r].customer), req[r].day)' = DailySpend(CustomerUsages(c), d)'
       /\ DailySpend(KeyUsages(req[r].key), req[r].day)' = DailySpend(KeyUsages(k), d)'
  BY <1>5 DEF DailySpend, CustomerUsages, KeyUsages
<1> QED
  BY <1>1, <1>3, <1>8, <1>9, <1>10, <1>11 DEF Respects

\* No other step inserts a record.
LEMMA CommitInserts ==
    ASSUME IInv, [Next]_vars, NEW u \in Usages, Inserted(u)
    PROVE  ReserveCommit(u)
<1>1. usage' /= usage
  BY DEF Inserted
<1>2. ASSUME NEW r \in Requests, CaptureUsage(r) \/ ReleaseUsage(r)
      PROVE  FALSE
  <2>1. PICK c \in Customers : c = req[r].customer
    BY DEF IInv, TypeOK, RequestState
  <2>2. req[r].charge \in Nat /\ req[r].body \in BOOLEAN /\ usage[r].status = "running" /\ r \in Usages
    BY <1>2 DEF IInv, TypeOK, RequestState, CaptureUsage, ReleaseUsage, RecordFollowsHandler, Requests
  <2>3. \/ \E charge \in Nat : Capture(c, r, charge)
        \/ \E body \in BOOLEAN : Release(c, r, body)
    BY <1>2, <2>1, <2>2 DEF CaptureUsage, ReleaseUsage
  <2>4. \A v \in Usages \ {r} : usage'[v] = usage[v]
    BY <2>2, <2>3, SettleWrites, TablesSound
  <2> QED
    BY <2>2, <2>4 DEF Inserted
<1>3. ASSUME NEW r \in Requests, ReserveCommit(r)
      PROVE  r = u
  <2>1. PICK c \in Customers, hold \in Nat, d \in Nat :
          c = req[r].customer /\ hold = req[r].hold /\ d = req[r].day
    BY DEF IInv, TypeOK, RequestState
  <2>2. Reserve(c, r, hold, d) /\ r \in Usages
    BY <1>1, <1>3, <2>1 DEF ReserveCommit, walletVars, Requests
  <2>3. \A v \in Usages \ {r} : usage'[v] = usage[v]
    BY <2>2, ReserveWrites, TablesSound
  <2> QED
    BY <2>3 DEF Inserted
<1>4. ASSUME NEW r \in Requests,
             Begin(r) \/ ReserveLock(r) \/ ProviderOk(r) \/ ProviderFail(r) \/ Abandon(r)
      PROVE  FALSE
  BY <1>1, <1>4 DEF Begin, ReserveLock, ProviderOk, ProviderFail, Abandon, walletVars
<1>5. ASSUME NEW c \in Customers, BackOffice(c)
      PROVE  FALSE
  BY <1>1, <1>5 DEF BackOffice, AdjustAiWallet, UpdateAiWalletQuota, UpdateAiWalletAccess,
                    AdjustWallet, UpdateWalletQuota, UpdateWalletAccess
<1>6. CASE Midnight \/ UNCHANGED vars
  BY <1>1, <1>6 DEF Midnight, NextDay, vars, walletVars
<1> QED
  BY <1>2, <1>3, <1>4, <1>5, <1>6 DEF Next, RequestStep

\* When a call gets its hold, the wallet is enabled and the day's spending of the
\* customer and of the API key, the new hold included, is within the limit.
THEOREM ReservationsRespectLimits == Spec => ReservationRespectsLimits
<1> DEFINE Promise == \A u \in Usages : Inserted(u) => Respects(u)
<1>1. IInv /\ HInv /\ IInv' /\ [Next]_vars => [Promise]_vars
  BY CommitInserts, CommitRespects DEF Requests
<1>2. Spec => [][Promise]_vars
  BY <1>1, Invariance, HoldsInvariance, PTL DEF Spec
<1> QED
  BY <1>2 DEF ReservationRespectsLimits, Respects

-----------------------------------------------------------------------------
(***************************************************************************)
(* The accounts.  Under the mapping of AiGatewayAccounts a reservation is  *)
(* Open, a capture is Pay, a release is LetGo, an adjustment is Adjust and *)
(* every other step leaves money and calls as they are.  The counter       *)
(* held_minor does the work of the sum Aside because it is that sum.       *)
(***************************************************************************)

Money == [c \in Customers |-> wallet[c].balance]
SeenCalls == [u \in Usages |-> SeenCall(u)]

\* What the customer sees of a record.
LEMMA Seen ==
    ASSUME NEW u
    PROVE  /\ usage[u].status = "none" => SeenCall(u) = [st |-> "none", by |-> {}, amount |-> 0]
           /\ usage[u].status = "running" =>
                SeenCall(u) = [st |-> "open", by |-> {req[u].customer}, amount |-> usage[u].held]
           /\ usage[u].status = "succeeded" =>
                SeenCall(u) = [st |-> "paid", by |-> {req[u].customer}, amount |-> usage[u].charged]
           /\ usage[u].status \in {"failed", "refunded"} =>
                SeenCall(u) = [st |-> "let_go", by |-> {req[u].customer}, amount |-> 0]
  BY DEF SeenCall

\* A call is open exactly when its record is running.
LEMMA SeenOpen ==
    ASSUME IInv, NEW u \in Usages
    PROVE  /\ SeenCall(u).st = "open" <=> usage[u].status = "running"
           /\ SeenCall(u).st = "open" => SeenCall(u).by = {req[u].customer}
                                         /\ SeenCall(u).amount = usage[u].held
<1>1. usage[u].status \in UsageStatus
  BY DEF IInv, TypeOK, WalletTypeOK, UsageRow
<1> QED
  BY <1>1, Seen DEF UsageStatus

\* The sums of the instance are sums.
LEMMA AccountsSum ==
    ASSUME NEW f, NEW D
    PROVE  Accounts!SumFunctionOnSet(f, D) = SumFunctionOnSet(f, D)
<1>1. Accounts!SumFunctionOnSet(f, D) = (CHOOSE g : AddsUp(f, D, g))[D]
  BY DEF Accounts!SumFunctionOnSet, Accounts!FoldFunctionOnSet, Accounts!MapThenFoldSet,
         AddsUp, FirstOf
<1> QED
  BY <1>1, SumUnfolded

\* What the open calls of a customer keep aside is what the wallet has on hold.
LEMMA AsideIsHeld ==
    ASSUME IInv, HInv, NEW c \in Customers
    PROVE  Accounts!Aside(c) = wallet[c].held
<1> DEFINE f == [u \in Usages |-> SeenCalls[u].amount]
           g == [u \in CustomerUsages(c) |-> usage[u].held]
           D == {u \in Usages : SeenCalls[u].st = "open" /\ c \in SeenCalls[u].by}
           R == {u \in CustomerUsages(c) : usage[u].status = "running"}
<1>1. Accounts!Aside(c) = SumFunctionOnSet(f, D)
  BY AccountsSum DEF Accounts!Aside, SeenCalls
<1>2. D = R
  <2>1. \A u \in Usages : u \in D <=> (SeenCall(u).st = "open" /\ c \in SeenCall(u).by)
    BY DEF SeenCalls
  <2>2. \A u \in Usages : u \in R <=> (usage[u].status = "running" /\ req[u].customer = c)
    BY DEF CustomerUsages, Recorded
  <2>3. \A u \in Usages : u \in D <=> u \in R
    BY <2>1, <2>2, SeenOpen
  <2>4. D \subseteq Usages /\ R \subseteq Usages
    BY DEF CustomerUsages, Recorded
  <2> QED
    BY <2>3, <2>4
<1>3. \A u \in R : f[u] = g[u]
  BY SeenOpen DEF SeenCalls, CustomerUsages, Recorded
<1>4. IsFiniteSet(R)
  BY CustomerSummable, FS_Subset DEF Summable
<1> HIDE DEF f, g, D, R
<1>5. SumFunctionOnSet(f, R) = SumFunctionOnSet(g, R)
  BY <1>3, <1>4, SumSame
<1>6. SumFunctionOnSet(g, R) = wallet[c].held
  BY DEF g, R, HInv, HeldIsRunningHolds, RunningHolds, HoldsOf
<1> QED
  BY <1>1, <1>2, <1>5, <1>6

\* The calls whose records and owners stay look the same.
LEMMA SeenSame ==
    ASSUME NEW u \in Usages, usage'[u] = usage[u],
           usage[u].status /= "none" => req'[u].customer = req[u].customer
    PROVE  SeenCall(u)' = SeenCall(u)
  BY DEF SeenCall

\* A step that leaves balances, records and the owners of records alone is none
\* of the accounts.
LEMMA AccountsStutter ==
    ASSUME IInv, UNCHANGED usage, \A c \in Customers : wallet'[c].balance = wallet[c].balance,
           \A u \in Usages : usage[u].status /= "none" => req'[u].customer = req[u].customer
    PROVE  Money' = Money /\ SeenCalls' = SeenCalls
  BY SeenSame DEF Money, SeenCalls

\* A change of one call.
LEMMA OneCallChanges ==
    ASSUME IInv, NEW r \in Usages, \A v \in Usages \ {r} : usage'[v] = usage[v],
           \A u \in Usages : req'[u].customer = req[u].customer
    PROVE  SeenCalls' = [SeenCalls EXCEPT ![r] = SeenCall(r)']
<1>1. \A v \in Usages \ {r} : SeenCall(v)' = SeenCall(v)
  BY SeenSame
<1> QED
  BY <1>1 DEF SeenCalls

\* A change of one balance.
LEMMA OneBalanceChanges ==
    ASSUME NEW c \in Customers, \A e \in Customers \ {c} : wallet'[e] = wallet[e]
    PROVE  Money' = [Money EXCEPT ![c] = wallet'[c].balance]
  BY DEF Money

\* A reservation opens a call.
LEMMA CommitOpens ==
    ASSUME IInv, HInv, NEW r \in Requests, ReserveCommit(r)
    PROVE  (\E c \in Customers : Accounts!Open(r, c)) \/ (Money' = Money /\ SeenCalls' = SeenCalls)
<1>1. PICK c \in Customers, hold \in Nat, d \in Nat :
        c = req[r].customer /\ hold = req[r].hold /\ d = req[r].day
  BY DEF IInv, TypeOK, RequestState
<1>2. /\ req[r].pc = "locked" /\ r \in Usages /\ usage[r].status = "none"
      /\ "calling" \in Progress /\ "rejected" \in Progress
  BY DEF ReserveCommit, Requests, IInv, RecordFollowsHandler, Progress
<1>3. CASE Goto(r, "rejected") /\ UNCHANGED walletVars
  <2>1. \A u \in Usages : req'[u].customer = req[u].customer
    BY <1>2, <1>3, GotoKeeps DEF Requests
  <2> QED
    BY <1>3, <2>1, AccountsStutter DEF walletVars
<1>4. CASE Reserve(c, r, hold, d) /\ Goto(r, "calling")
  <2>1. \A u \in Usages : req'[u].customer = req[u].customer
    BY <1>2, <1>4, GotoKeeps DEF Requests
  <2>2. /\ wallet'[c].balance = wallet[c].balance
        /\ \A e \in Customers \ {c} : wallet'[e] = wallet[e]
        /\ usage'[r] = [status |-> "running", held |-> hold, charged |-> 0,
                        refunded |-> 0, day |-> d, body |-> FALSE]
        /\ \A v \in Usages \ {r} : usage'[v] = usage[v]
    BY <1>2, <1>4, ReserveWrites, TablesSound
  <2>3. usage'[r].status = "running" /\ usage'[r].held = hold
    BY <2>2
  <2>4. SeenCall(r)' = [st |-> "open", by |-> {c}, amount |-> hold]
    BY <1>1, <1>2, <2>1, <2>3 DEF SeenCall
  <2>5. SeenCalls' = [SeenCalls EXCEPT ![r] = [st |-> "open", by |-> {c}, amount |-> hold]]
    BY <1>2, <2>1, <2>2, <2>4, OneCallChanges
  <2>6. SeenCalls[r] = [st |-> "none", by |-> {}, amount |-> 0]
    BY <1>2, Seen DEF SeenCalls
  <2>7. Money' = Money
    BY <2>2 DEF Money
  <2>8. hold \in 0 .. Money[c] - Accounts!Aside(c)
    <3>1. wallet[c].balance - wallet[c].held >= hold
      BY <1>1, <1>2 DEF HInv, LocksProtect, ReservationChecked
    <3>2. Accounts!Aside(c) = wallet[c].held /\ Money[c] = wallet[c].balance
      BY AsideIsHeld DEF Money
    <3>3. wallet[c].balance \in Nat /\ wallet[c].held \in Nat
      BY DEF IInv, TypeOK, WalletTypeOK, WalletRow
    <3> QED
      BY <3>1, <3>2, <3>3
  <2>9. /\ SeenCalls'[r].st = "open" /\ SeenCalls'[r].amount = hold
        /\ r \in DOMAIN SeenCalls
    BY <1>2, <2>5 DEF SeenCalls
  <2>10. Accounts!Open(r, c)
    BY <2>5, <2>6, <2>7, <2>8, <2>9 DEF Accounts!Open, Accounts!NoCall, Money, SeenCalls
  <2> QED
    BY <2>10
<1> QED
  BY <1>1, <1>3, <1>4 DEF ReserveCommit

\* A capture pays for a call.
LEMMA CapturePays ==
    ASSUME IInv, HInv, NEW r \in Requests, CaptureUsage(r)
    PROVE  \E c \in Customers : Accounts!Pay(r, c)
<1>1. PICK c \in Customers, charge \in Nat : c = req[r].customer /\ charge = req[r].charge
  BY DEF IInv, TypeOK, RequestState
<1>2. /\ r \in Usages /\ usage[r].status = "running" /\ Capture(c, r, charge)
      /\ Goto(r, "settled") /\ "settled" \in Progress
  BY <1>1 DEF CaptureUsage, IInv, RecordFollowsHandler, Requests, Progress
<1>3. PICK held \in Nat : held = usage[r].held
  BY <1>2 DEF IInv, TypeOK, WalletTypeOK, UsageRow
<1>4. PICK captured \in Nat :
        /\ captured = SettleCharge(charge, held, wallet[c])
        /\ captured <= held + (wallet[c].balance - wallet[c].held)
  BY SettledAmount DEF IInv, TypeOK, WalletTypeOK, HInv, HoldsCovered
<1>5. \A u \in Usages : req'[u].customer = req[u].customer
  BY <1>2, GotoKeeps DEF Requests
<1>6. /\ wallet'[c].balance = wallet[c].balance - captured
      /\ usage'[r].charged = captured
  BY <1>2, <1>3, <1>4, CaptureWrites, TablesSound
<1>7. /\ usage'[r].status = "succeeded"
      /\ \A v \in Usages \ {r} : usage'[v] = usage[v]
  <2>1. Sound
    BY DEF IInv, TypeOK, Sound
  <2> QED
    BY <1>2, <2>1, CaptureSound
<1>8. \A e \in Customers \ {c} : wallet'[e] = wallet[e]
  BY <1>2, SettleWrites, TablesSound
<1>9. SeenCall(r)' = [st |-> "paid", by |-> {c}, amount |-> captured]
  BY <1>1, <1>2, <1>5, <1>6, <1>7 DEF SeenCall
<1>10. SeenCalls[r] = [st |-> "open", by |-> {c}, amount |-> held]
  BY <1>1, <1>2, <1>3, Seen DEF SeenCalls
<1>11. /\ SeenCalls' = [SeenCalls EXCEPT ![r] = [st |-> "paid", by |-> {c}, amount |-> captured]]
       /\ r \in DOMAIN SeenCalls
  BY <1>2, <1>5, <1>7, <1>9, OneCallChanges DEF SeenCalls
<1>12. [SeenCalls[r] EXCEPT !.st = "paid", !.amount = captured] =
         [st |-> "paid", by |-> {c}, amount |-> captured]
  <2>1. PICK old : old = SeenCalls[r]
    OBVIOUS
  <2>2. old = [st |-> "open", by |-> {c}, amount |-> held]
    BY <1>10, <2>1
  <2> DEFINE new == [old EXCEPT !.st = "paid", !.amount = captured]
  <2>3. old \in [st : {"open"}, by : {{c}}, amount : {held}]
    BY <2>2
  <2>4. new \in [st : {"paid"}, by : {{c}}, amount : {captured}]
    BY <2>3
  <2> HIDE DEF new
  <2>5. new = [st |-> "paid", by |-> {c}, amount |-> captured]
    BY <2>4
  <2> QED
    BY <2>1, <2>5 DEF new
<1>13. /\ SeenCalls'[r].st = "paid" /\ SeenCalls'[r].amount = captured
       /\ SeenCalls[r].st = "open" /\ c \in SeenCalls[r].by /\ SeenCalls[r].amount = held
  BY <1>10, <1>11
<1>14. SeenCalls' = [SeenCalls EXCEPT ![r].st = "paid", ![r].amount = SeenCalls'[r].amount]
  <2>1. PICK f, g : f = SeenCalls /\ g = SeenCalls'
    OBVIOUS
  <2>2. g = [f EXCEPT ![r] = [f[r] EXCEPT !.st = "paid", !.amount = captured]] /\ r \in DOMAIN f
    BY <1>11, <1>12, <2>1
  <2>3. g = [f EXCEPT ![r].st = "paid", ![r].amount = captured]
    BY <2>2
  <2>4. g[r].amount = captured
    BY <1>13, <2>1
  <2> QED
    BY <2>1, <2>3, <2>4
<1>15. Money[c] = wallet[c].balance /\ Accounts!Aside(c) = wallet[c].held
  BY AsideIsHeld DEF Money
<1>16. Money' = [Money EXCEPT ![c] = @ - SeenCalls'[r].amount]
  BY <1>6, <1>8, <1>13, <1>15, OneBalanceChanges
<1>17. SeenCalls'[r].amount \in 0 .. Money[c] - Accounts!Aside(c) + SeenCalls[r].amount
  <2>1. wallet[c].balance \in Nat /\ wallet[c].held \in Nat
    BY DEF IInv, TypeOK, WalletTypeOK, WalletRow
  <2> QED
    BY <1>4, <1>13, <1>15, <2>1
<1>18. Accounts!Pay(r, c)
  BY <1>13, <1>14, <1>16, <1>17 DEF Accounts!Pay, Money, SeenCalls
<1> QED
  BY <1>18

\* A release lets a call go.
LEMMA ReleaseLetsGo ==
    ASSUME IInv, HInv, NEW r \in Requests, ReleaseUsage(r)
    PROVE  Accounts!LetGo(r)
<1>1. PICK c \in Customers, body \in BOOLEAN : c = req[r].customer /\ body = req[r].body
  BY DEF IInv, TypeOK, RequestState
<1>2. /\ r \in Usages /\ usage[r].status = "running" /\ Release(c, r, body)
      /\ Goto(r, "settled") /\ "settled" \in Progress
  BY <1>1 DEF ReleaseUsage, IInv, RecordFollowsHandler, Requests, Progress
<1>3. \A u \in Usages : req'[u].customer = req[u].customer
  BY <1>2, GotoKeeps DEF Requests
<1>4. /\ usage'[r].status = "failed"
      /\ \A v \in Usages \ {r} : usage'[v] = usage[v]
  <2>1. Sound
    BY DEF IInv, TypeOK, Sound
  <2> QED
    BY <1>2, <2>1, ReleaseSound
<1>5. Money' = Money
  <2>1. \A e \in Customers \ {c} : wallet'[e] = wallet[e]
    BY <1>2, SettleWrites, TablesSound
  <2>2. wallet'[c].balance = wallet[c].balance
    BY <1>2, ReleaseKeepsBalance, TablesSound
  <2> QED
    BY <2>1, <2>2 DEF Money
<1>6. SeenCall(r)' = [st |-> "let_go", by |-> {c}, amount |-> 0]
  BY <1>1, <1>2, <1>3, <1>4 DEF SeenCall
<1>7. SeenCalls[r] = [st |-> "open", by |-> {c}, amount |-> usage[r].held]
  BY <1>1, <1>2, Seen DEF SeenCalls
<1>8. /\ SeenCalls' = [SeenCalls EXCEPT ![r] = [st |-> "let_go", by |-> {c}, amount |-> 0]]
      /\ r \in DOMAIN SeenCalls
  BY <1>2, <1>3, <1>4, <1>6, OneCallChanges DEF SeenCalls
<1>9. [SeenCalls[r] EXCEPT !.st = "let_go", !.amount = 0] =
        [st |-> "let_go", by |-> {c}, amount |-> 0]
  <2>1. PICK old : old = SeenCalls[r]
    OBVIOUS
  <2>2. old = [st |-> "open", by |-> {c}, amount |-> usage[r].held]
    BY <1>7, <2>1
  <2> DEFINE new == [old EXCEPT !.st = "let_go", !.amount = 0]
  <2>3. old \in [st : {"open"}, by : {{c}}, amount : {usage[r].held}]
    BY <2>2
  <2>4. new \in [st : {"let_go"}, by : {{c}}, amount : {0}]
    BY <2>3
  <2> HIDE DEF new
  <2>5. new = [st |-> "let_go", by |-> {c}, amount |-> 0]
    BY <2>4
  <2> QED
    BY <2>1, <2>5 DEF new
<1>10. SeenCalls' = [SeenCalls EXCEPT ![r].st = "let_go", ![r].amount = 0]
  <2>1. PICK f, g : f = SeenCalls /\ g = SeenCalls'
    OBVIOUS
  <2>2. g = [f EXCEPT ![r] = [f[r] EXCEPT !.st = "let_go", !.amount = 0]] /\ r \in DOMAIN f
    BY <1>8, <1>9, <2>1
  <2>3. g = [f EXCEPT ![r].st = "let_go", ![r].amount = 0]
    BY <2>2
  <2> QED
    BY <2>1, <2>3
<1>11. SeenCalls'[r].st = "let_go" /\ SeenCalls[r].st = "open"
  BY <1>7, <1>8
<1> QED
  BY <1>5, <1>10, <1>11 DEF Accounts!LetGo, Money, SeenCalls

\* The back office adjusts a balance or changes nothing the accounts show.
LEMMA BackOfficeAdjusts ==
    ASSUME IInv, HInv, NEW c \in Customers, BackOffice(c)
    PROVE  Accounts!Adjust(c) \/ (Money' = Money /\ SeenCalls' = SeenCalls)
<1>1. UNCHANGED req /\ UNCHANGED usage /\ wallet \in [Customers -> WalletRow]
  BY DEF BackOffice, AdjustAiWallet, UpdateAiWalletQuota, UpdateAiWalletAccess, AdminStep,
         AdjustWallet, UpdateWalletQuota, UpdateWalletAccess, IInv, TypeOK, WalletTypeOK
<1>2. PICK row \in WalletRow : row = wallet[c]
  BY <1>1
<1>3. SeenCalls' = SeenCalls
  BY <1>1, SeenSame DEF SeenCalls
<1>4. CASE AdjustAiWallet(c)
  <2>1. PICK amount \in Amounts : AdjustWallet(c, amount)
    BY <1>4 DEF AdjustAiWallet
  <2> DEFINE w == UpdateWalletBalance(row, amount)
  <2>2. /\ wallet' = [wallet EXCEPT ![c] = w] /\ w.balance >= w.held /\ amount /= 0
    BY <1>2, <2>1 DEF AdjustWallet
  <2>3. amount \in Int /\ row.balance \in Nat /\ row.held \in Nat
    BY GatewayAssumption DEF WalletRow
  <2>4. w.held = row.held /\ w.balance = row.balance + amount
    BY DEF UpdateWalletBalance, WalletRow
  <2> HIDE DEF w
  <2>5. wallet'[c] = w /\ \A e \in Customers \ {c} : wallet'[e] = wallet[e]
    BY <1>1, <2>2
  <2>6. Money' = [Money EXCEPT ![c] = wallet'[c].balance]
    BY <2>5, OneBalanceChanges
  <2>7. /\ Money'[c] = row.balance + amount /\ Money[c] = row.balance
        /\ Accounts!Aside(c) = row.held
    BY <1>2, <2>4, <2>5, AsideIsHeld DEF Money
  <2>8. Money'[c] /= Money[c] /\ Money'[c] >= Accounts!Aside(c)
    BY <2>2, <2>3, <2>4, <2>7
  <2>9. Money' = [Money EXCEPT ![c] = Money'[c]]
    BY <2>4, <2>5, <2>6, <2>7
  <2>10. Accounts!Adjust(c)
    BY <1>3, <2>8, <2>9 DEF Accounts!Adjust, Money, SeenCalls
  <2> QED
    BY <2>10
<1>5. CASE UpdateAiWalletQuota(c) \/ UpdateAiWalletAccess(c)
  <2>1. \E w : wallet' = [wallet EXCEPT ![c] = w] /\ w.balance = row.balance
    <3>1. CASE UpdateAiWalletQuota(c)
      <4>1. PICK limit \in Quotas : UpdateWalletQuota(c, limit)
        BY <3>1 DEF UpdateAiWalletQuota
      <4>2. [row EXCEPT !.limit = limit].balance = row.balance
        BY DEF WalletRow
      <4> QED
        BY <1>2, <4>1, <4>2 DEF UpdateWalletQuota
    <3>2. CASE UpdateAiWalletAccess(c)
      <4>1. PICK enabled \in BOOLEAN : UpdateWalletAccess(c, enabled)
        BY <3>2 DEF UpdateAiWalletAccess
      <4>2. [row EXCEPT !.enabled = enabled].balance = row.balance
        BY DEF WalletRow
      <4> QED
        BY <1>2, <4>1, <4>2 DEF UpdateWalletAccess
    <3> QED
      BY <1>5, <3>1, <3>2
  <2>2. \A e \in Customers : wallet'[e].balance = wallet[e].balance
    BY <1>1, <1>2, <2>1
  <2> QED
    BY <1>3, <2>2 DEF Money
<1> QED
  BY <1>4, <1>5 DEF BackOffice

\* Every step is one of the accounts or leaves them alone.
LEMMA AccountsStep ==
    ASSUME IInv, HInv, [Next]_vars
    PROVE  [Accounts!AccountsNext]_(Accounts!accountVars)
<1>1. \A r \in Requests : r \in Usages
  BY DEF Requests
<1>2. ASSUME Money' = Money, SeenCalls' = SeenCalls
      PROVE  UNCHANGED Accounts!accountVars
  BY <1>2 DEF Accounts!accountVars, Money, SeenCalls
<1>3. ASSUME NEW r \in Requests, ReserveCommit(r) \/ CaptureUsage(r) \/ ReleaseUsage(r)
      PROVE  Accounts!AccountsNext \/ (Money' = Money /\ SeenCalls' = SeenCalls)
  BY <1>1, <1>3, CommitOpens, CapturePays, ReleaseLetsGo DEF Accounts!AccountsNext
<1>4. ASSUME NEW c \in Customers, BackOffice(c)
      PROVE  Accounts!AccountsNext \/ (Money' = Money /\ SeenCalls' = SeenCalls)
  BY <1>4, BackOfficeAdjusts DEF Accounts!AccountsNext
<1>5. ASSUME NEW r \in Requests, Begin(r)
      PROVE  Money' = Money /\ SeenCalls' = SeenCalls
  <2>1. usage[r].status = "none" /\ UNCHANGED walletVars
    BY <1>5 DEF Begin, IInv, RecordFollowsHandler
  <2>2. \A s \in Requests \ {r} : req'[s] = req[s]
    BY <1>5 DEF Begin, IInv, TypeOK
  <2> QED
    BY <2>1, <2>2, AccountsStutter DEF walletVars, Requests
<1>6. ASSUME NEW r \in Requests,
             ReserveLock(r) \/ ProviderOk(r) \/ ProviderFail(r) \/ Abandon(r)
      PROVE  Money' = Money /\ SeenCalls' = SeenCalls
  <2>1. UNCHANGED walletVars
    BY <1>6 DEF ReserveLock, ProviderOk, ProviderFail, Abandon
  <2>2. \A s \in Requests : req'[s].customer = req[s].customer
    BY <1>6 DEF ReserveLock, ProviderOk, ProviderFail, Abandon, Goto, IInv, TypeOK, RequestState
  <2> QED
    BY <2>1, <2>2, AccountsStutter DEF walletVars, Requests
<1>7. ASSUME Midnight \/ UNCHANGED vars
      PROVE  Money' = Money /\ SeenCalls' = SeenCalls
  BY <1>7, AccountsStutter DEF Midnight, NextDay, vars, walletVars
<1> QED
  BY <1>2, <1>3, <1>4, <1>5, <1>6, <1>7 DEF Next, RequestStep

\* The first state of the gateway is one of the accounts.
LEMMA AccountsStart == Init => Accounts!AccountsInit
<1> SUFFICES ASSUME Init PROVE Accounts!AccountsInit
  OBVIOUS
<1>1. \A c \in Customers : wallet[c].balance = OpeningBalance
  BY DEF Init, WalletInit
<1>2. \A u \in Usages : usage[u].status = "none"
  BY DEF Init, WalletInit, NoUsage
<1>3. \A u \in Usages : SeenCall(u) = [st |-> "none", by |-> {}, amount |-> 0]
  BY <1>2, Seen
<1> QED
  BY <1>1, <1>3 DEF Accounts!AccountsInit, Accounts!NoCall

\* The gateway implements the accounts, for any number of customers and calls:
\* no call spends what another one has on hold and no debit takes it.
THEOREM GatewayImplementsAccounts == Spec => ImplementsAccounts
<1>1. Init => Accounts!AccountsInit
  BY AccountsStart
<1>2. IInv /\ HInv /\ [Next]_vars => [Accounts!AccountsNext]_(Accounts!accountVars)
  BY AccountsStep
<1> QED
  BY <1>1, <1>2, Invariance, HoldsInvariance, PTL DEF Spec, ImplementsAccounts, Accounts!AccountsSpec
=============================================================================
