--------------------------- MODULE AiWalletProofs ---------------------------
(***************************************************************************)
(* What the transactions on the billing tables do to the types of the      *)
(* tables and to the agreement of the ledger with the wallets, for any     *)
(* amounts.  The proofs about the gateway and the jobs rest on these       *)
(* lemmas.                                                                 *)
(*                                                                         *)
(* They begin with finite sums.  SumFunctionOnSet adds up a function over  *)
(* a set by taking the elements out one after the other, in the order      *)
(* CHOOSE fixes; what the proofs about wallets need is that the order does *)
(* not matter: one element may be added, removed or changed.  The proofs   *)
(* are inductions over the subsets of a finite set, written as the choice  *)
(* of a smallest subset for which the claim fails (SmallestSubset).        *)
(***************************************************************************)
EXTENDS AiWallet, FiniteSetTheorems, TLAPS

-----------------------------------------------------------------------------
(* Finite sums. *)

\* The element that is taken out first.
FirstOf(s) == CHOOSE x \in s : TRUE

\* g is the recursive function over the subsets of D by which f is added up.
AddsUp(f, D, g) ==
    g = [s \in SUBSET D |-> IF s = {} THEN 0 ELSE f[FirstOf(s)] + g[s \ {FirstOf(s)}]]

LEMMA FirstOfIn == ASSUME NEW s, s # {} PROVE FirstOf(s) \in s
  BY DEF FirstOf

\* The definition of the community module, spelt out.
LEMMA SumUnfolded ==
    ASSUME NEW f, NEW D
    PROVE  SumFunctionOnSet(f, D) = (CHOOSE g : AddsUp(f, D, g))[D]
  BY DEF SumFunctionOnSet, FoldFunctionOnSet, MapThenFoldSet, AddsUp, FirstOf

\* A nonempty set of subsets of a finite set has a smallest member.
LEMMA SmallestSubset ==
    ASSUME NEW D, IsFiniteSet(D), NEW T, T \subseteq SUBSET D, T # {}
    PROVE  \E s \in T : \A t \in SUBSET s : t # s => t \notin T
<1> DEFINE R == StrictSubsetOrdering(D)
<1>1. IsWellFoundedOn(R, SUBSET D)
  BY FS_StrictSubsetOrderingWellFounded, FS_FiniteSubsetsOfFinite
<1> HIDE DEF R
<1>2. PICK s \in T : \A t \in T : ~(<<t, s>> \in R)
  BY <1>1, WFMin
<1>3. ASSUME NEW t \in SUBSET s, t # s PROVE t \notin T
  BY <1>2, <1>3 DEF R, StrictSubsetOrdering
<1> QED
  BY <1>3

\* Two functions that add f up over the subsets of D are the same.
LEMMA AddsUpUnique ==
    ASSUME NEW f, NEW D, IsFiniteSet(D), NEW g, NEW h, AddsUp(f, D, g), AddsUp(f, D, h)
    PROVE  \A s \in SUBSET D : g[s] = h[s]
<1> DEFINE T == {s \in SUBSET D : g[s] # h[s]}
<1> SUFFICES ASSUME T # {} PROVE FALSE
  OBVIOUS
<1>0. T \subseteq SUBSET D
  OBVIOUS
<1> HIDE DEF T
<1>1. PICK s \in T : \A t \in SUBSET s : t # s => t \notin T
  BY <1>0, SmallestSubset
<1>2. s \in SUBSET D /\ g[s] # h[s]
  BY DEF T
<1>3. /\ g[s] = IF s = {} THEN 0 ELSE f[FirstOf(s)] + g[s \ {FirstOf(s)}]
      /\ h[s] = IF s = {} THEN 0 ELSE f[FirstOf(s)] + h[s \ {FirstOf(s)}]
  BY <1>2 DEF AddsUp
<1>4. s # {}
  BY <1>2, <1>3
<1>5. s \ {FirstOf(s)} # s /\ s \ {FirstOf(s)} \in SUBSET D
  BY <1>2, <1>4, FirstOfIn
<1>6. g[s \ {FirstOf(s)}] = h[s \ {FirstOf(s)}]
  BY <1>1, <1>5 DEF T
<1> QED
  BY <1>2, <1>3, <1>6

\* Below a set over which f can be added up, it can be added up as well.
LEMMA AddsUpBelow ==
    ASSUME NEW f, NEW D, NEW g, AddsUp(f, D, g), NEW E \in SUBSET D
    PROVE  AddsUp(f, E, [s \in SUBSET E |-> g[s]])
<1> DEFINE h == [s \in SUBSET E |-> g[s]]
<1>1. ASSUME NEW s \in SUBSET E
      PROVE  h[s] = IF s = {} THEN 0 ELSE f[FirstOf(s)] + h[s \ {FirstOf(s)}]
  <2>1. g[s] = IF s = {} THEN 0 ELSE f[FirstOf(s)] + g[s \ {FirstOf(s)}]
    BY DEF AddsUp
  <2>2. s \ {FirstOf(s)} \in SUBSET E
    OBVIOUS
  <2> QED
    BY <2>1, <2>2
<1> HIDE DEF h
<1>2. h = [s \in SUBSET E |-> h[s]]
  BY DEF h
<1> QED
  BY <1>1, <1>2 DEF AddsUp, h

\* Such a function has the sums as its values.
LEMMA AddsUpIsSum ==
    ASSUME NEW f, NEW D, IsFiniteSet(D), NEW g, AddsUp(f, D, g), NEW E \in SUBSET D
    PROVE  SumFunctionOnSet(f, E) = g[E]
<1> DEFINE h == [s \in SUBSET E |-> g[s]]
           k == CHOOSE q : AddsUp(f, E, q)
<1>1. AddsUp(f, E, h)
  BY AddsUpBelow
<1> HIDE DEF h
<1>2. AddsUp(f, E, k)
  BY <1>1
<1> HIDE DEF k
<1>3. IsFiniteSet(E) /\ E \in SUBSET E
  BY FS_Subset
<1>4. k[E] = h[E]
  BY <1>1, <1>2, <1>3, AddsUpUnique
<1>5. h[E] = g[E]
  BY <1>3 DEF h
<1>6. SumFunctionOnSet(f, E) = k[E]
  BY SumUnfolded DEF k
<1> QED
  BY <1>4, <1>5, <1>6

\* The recursion unrolls once wherever f can be added up.
LEMMA SumStepBelow ==
    ASSUME NEW f, NEW D, IsFiniteSet(D), NEW g, AddsUp(f, D, g)
    PROVE  SumFunctionOnSet(f, D) =
             IF D = {} THEN 0
             ELSE f[FirstOf(D)] + SumFunctionOnSet(f, D \ {FirstOf(D)})
<1>1. g[D] = IF D = {} THEN 0 ELSE f[FirstOf(D)] + g[D \ {FirstOf(D)}]
  BY DEF AddsUp
<1>2. SumFunctionOnSet(f, D) = g[D]
  BY AddsUpIsSum
<1>3. SumFunctionOnSet(f, D \ {FirstOf(D)}) = g[D \ {FirstOf(D)}]
  BY AddsUpIsSum
<1> QED
  BY <1>1, <1>2, <1>3

\* Over a finite set a function can be added up.
LEMMA AddsUpExists ==
    ASSUME NEW f, NEW D, IsFiniteSet(D)
    PROVE  \E g : AddsUp(f, D, g)
<1> DEFINE T == {s \in SUBSET D : ~\E g : AddsUp(f, s, g)}
<1> SUFFICES ASSUME T # {} PROVE FALSE
  OBVIOUS
<1>0. T \subseteq SUBSET D
  OBVIOUS
<1> HIDE DEF T
<1>1. PICK s \in T : \A t \in SUBSET s : t # s => t \notin T
  BY <1>0, SmallestSubset
<1>2. s \in SUBSET D /\ IsFiniteSet(s) /\ ~\E g : AddsUp(f, s, g)
  BY FS_Subset DEF T
<1>3. \A t \in SUBSET s : t # s => IsFiniteSet(t) /\ \E g : AddsUp(f, t, g)
  BY <1>1, <1>2, FS_Subset DEF T
<1> DEFINE val(t) == IF t = {} THEN 0 ELSE f[FirstOf(t)] + SumFunctionOnSet(f, t \ {FirstOf(t)})
           h == [t \in SUBSET s |-> val(t)]
<1>4. \A t \in SUBSET s : t # s => SumFunctionOnSet(f, t) = val(t)
  BY <1>3, SumStepBelow
<1>5. ASSUME NEW t \in SUBSET s
      PROVE  h[t] = IF t = {} THEN 0 ELSE f[FirstOf(t)] + h[t \ {FirstOf(t)}]
  <2>1. CASE t = {}
    BY <2>1
  <2>2. CASE t # {}
    <3>1. t \ {FirstOf(t)} \in SUBSET s /\ t \ {FirstOf(t)} # s
      BY <2>2, FirstOfIn
    <3>2. h[t \ {FirstOf(t)}] = SumFunctionOnSet(f, t \ {FirstOf(t)})
      BY <3>1, <1>4
    <3> QED
      BY <2>2, <3>2
  <2> QED
    BY <2>1, <2>2
<1>6. h = [t \in SUBSET s |-> h[t]]
  OBVIOUS
<1> HIDE DEF h
<1>7. AddsUp(f, s, h)
  BY <1>5, <1>6 DEF AddsUp
<1> QED
  BY <1>2, <1>7

\* The recursion that defines a sum holds over every finite set.
LEMMA SumStep ==
    ASSUME NEW f, NEW D, IsFiniteSet(D)
    PROVE  SumFunctionOnSet(f, D) =
             IF D = {} THEN 0
             ELSE f[FirstOf(D)] + SumFunctionOnSet(f, D \ {FirstOf(D)})
  BY AddsUpExists, SumStepBelow

\* The sum over the empty set.
LEMMA SumEmpty == \A f : SumFunctionOnSet(f, {}) = 0
  BY FS_EmptySet, SumStep

\* A sum of integers is one.
LEMMA SumInt ==
    ASSUME NEW f, NEW D, IsFiniteSet(D), \A x \in D : f[x] \in Int
    PROVE  SumFunctionOnSet(f, D) \in Int
<1> DEFINE T == {s \in SUBSET D : SumFunctionOnSet(f, s) \notin Int}
<1> SUFFICES ASSUME T # {} PROVE FALSE
  OBVIOUS
<1>0. T \subseteq SUBSET D
  OBVIOUS
<1> HIDE DEF T
<1>1. PICK s \in T : \A t \in SUBSET s : t # s => t \notin T
  BY <1>0, SmallestSubset
<1>2. s \in SUBSET D /\ SumFunctionOnSet(f, s) \notin Int /\ IsFiniteSet(s)
  BY FS_Subset DEF T
<1>3. s # {}
  BY <1>2, SumEmpty
<1>4. FirstOf(s) \in s
  BY <1>3, FirstOfIn
<1>5. SumFunctionOnSet(f, s \ {FirstOf(s)}) \in Int
  BY <1>1, <1>2, <1>4 DEF T
<1>6. SumFunctionOnSet(f, s) = f[FirstOf(s)] + SumFunctionOnSet(f, s \ {FirstOf(s)})
  BY <1>2, <1>3, SumStep
<1> QED
  BY <1>2, <1>4, <1>5, <1>6

\* Any element may be taken out first.
LEMMA SumTakeOut ==
    ASSUME NEW f, NEW D, IsFiniteSet(D), \A x \in D : f[x] \in Int
    PROVE  \A x \in D : SumFunctionOnSet(f, D) = f[x] + SumFunctionOnSet(f, D \ {x})
<1> DEFINE P(s) == \A x \in s : SumFunctionOnSet(f, s) = f[x] + SumFunctionOnSet(f, s \ {x})
           T == {s \in SUBSET D : ~P(s)}
<1> SUFFICES ASSUME T # {} PROVE FALSE
  OBVIOUS
<1>0. T \subseteq SUBSET D
  OBVIOUS
<1> HIDE DEF T
<1>1. PICK s \in T : \A t \in SUBSET s : t # s => t \notin T
  BY <1>0, SmallestSubset
<1>2. s \in SUBSET D /\ ~P(s) /\ IsFiniteSet(s)
  BY FS_Subset DEF T
<1>3. \A t \in SUBSET s : t # s => P(t)
  BY <1>1, <1>2 DEF T
<1>4. PICK x \in s : SumFunctionOnSet(f, s) # f[x] + SumFunctionOnSet(f, s \ {x})
  BY <1>2
<1> HIDE DEF P
<1>5. FirstOf(s) \in s
  BY <1>4, FirstOfIn
<1>6. SumFunctionOnSet(f, s) = f[FirstOf(s)] + SumFunctionOnSet(f, s \ {FirstOf(s)})
  BY <1>2, <1>5, SumStep
<1>7. x # FirstOf(s)
  BY <1>4, <1>6
<1>8. SumFunctionOnSet(f, s \ {FirstOf(s)}) = f[x] + SumFunctionOnSet(f, (s \ {FirstOf(s)}) \ {x})
  BY <1>3, <1>4, <1>5, <1>7 DEF P
<1>9. SumFunctionOnSet(f, s \ {x}) = f[FirstOf(s)] + SumFunctionOnSet(f, (s \ {x}) \ {FirstOf(s)})
  BY <1>3, <1>4, <1>5, <1>7 DEF P
<1>10. (s \ {x}) \ {FirstOf(s)} = (s \ {FirstOf(s)}) \ {x}
  OBVIOUS
<1>11. SumFunctionOnSet(f, (s \ {x}) \ {FirstOf(s)}) \in Int
  <2>1. IsFiniteSet((s \ {x}) \ {FirstOf(s)})
    BY <1>2, FS_RemoveElement
  <2> QED
    BY <1>2, <2>1, SumInt
<1>12. f[x] \in Int /\ f[FirstOf(s)] \in Int
  BY <1>2, <1>5
<1>13. PICK rest \in Int : rest = SumFunctionOnSet(f, (s \ {FirstOf(s)}) \ {x})
  BY <1>10, <1>11
<1>14. PICK a \in Int, b \in Int : a = f[x] /\ b = f[FirstOf(s)]
  BY <1>12
<1>15. /\ SumFunctionOnSet(f, s \ {FirstOf(s)}) = a + rest
       /\ SumFunctionOnSet(f, s \ {x}) = b + rest
  BY <1>8, <1>9, <1>10, <1>13, <1>14
<1>16. /\ SumFunctionOnSet(f, s) = b + (a + rest)
       /\ SumFunctionOnSet(f, s) # a + (b + rest)
  BY <1>4, <1>6, <1>14, <1>15
<1> QED
  BY <1>16

\* A sum depends on the values over the set only.
LEMMA SumSame ==
    ASSUME NEW f, NEW g, NEW D, IsFiniteSet(D), \A x \in D : f[x] = g[x]
    PROVE  SumFunctionOnSet(f, D) = SumFunctionOnSet(g, D)
<1> DEFINE T == {s \in SUBSET D : SumFunctionOnSet(f, s) # SumFunctionOnSet(g, s)}
<1> SUFFICES ASSUME T # {} PROVE FALSE
  OBVIOUS
<1>0. T \subseteq SUBSET D
  OBVIOUS
<1> HIDE DEF T
<1>1. PICK s \in T : \A t \in SUBSET s : t # s => t \notin T
  BY <1>0, SmallestSubset
<1>2. s \in SUBSET D /\ SumFunctionOnSet(f, s) # SumFunctionOnSet(g, s) /\ IsFiniteSet(s)
  BY FS_Subset DEF T
<1>3. s # {}
  BY <1>2, SumEmpty
<1>4. FirstOf(s) \in s
  BY <1>3, FirstOfIn
<1>5. SumFunctionOnSet(f, s \ {FirstOf(s)}) = SumFunctionOnSet(g, s \ {FirstOf(s)})
  BY <1>1, <1>2, <1>4 DEF T
<1>6. /\ SumFunctionOnSet(f, s) = f[FirstOf(s)] + SumFunctionOnSet(f, s \ {FirstOf(s)})
      /\ SumFunctionOnSet(g, s) = g[FirstOf(s)] + SumFunctionOnSet(g, s \ {FirstOf(s)})
  BY <1>2, <1>3, SumStep
<1> QED
  BY <1>2, <1>4, <1>5, <1>6

\* A sum of natural numbers is one.
LEMMA SumNat ==
    ASSUME NEW f, NEW D, IsFiniteSet(D), \A x \in D : f[x] \in Nat
    PROVE  SumFunctionOnSet(f, D) \in Nat
<1> DEFINE T == {s \in SUBSET D : SumFunctionOnSet(f, s) \notin Nat}
<1> SUFFICES ASSUME T # {} PROVE FALSE
  OBVIOUS
<1>0. T \subseteq SUBSET D
  OBVIOUS
<1> HIDE DEF T
<1>1. PICK s \in T : \A t \in SUBSET s : t # s => t \notin T
  BY <1>0, SmallestSubset
<1>2. s \in SUBSET D /\ SumFunctionOnSet(f, s) \notin Nat /\ IsFiniteSet(s)
  BY FS_Subset DEF T
<1>3. s # {}
  BY <1>2, SumEmpty
<1>4. FirstOf(s) \in s
  BY <1>3, FirstOfIn
<1>5. SumFunctionOnSet(f, s \ {FirstOf(s)}) \in Nat
  BY <1>1, <1>2, <1>4 DEF T
<1>6. SumFunctionOnSet(f, s) = f[FirstOf(s)] + SumFunctionOnSet(f, s \ {FirstOf(s)})
  BY <1>2, <1>3, SumStep
<1> QED
  BY <1>2, <1>4, <1>5, <1>6

\* One more element.
LEMMA SumAdd ==
    ASSUME NEW f, NEW D, IsFiniteSet(D), NEW x, x \notin D,
           \A y \in D \cup {x} : f[y] \in Int
    PROVE  SumFunctionOnSet(f, D \cup {x}) = f[x] + SumFunctionOnSet(f, D)
<1>1. IsFiniteSet(D \cup {x})
  BY FS_AddElement
<1>2. (D \cup {x}) \ {x} = D
  OBVIOUS
<1> QED
  BY <1>1, <1>2, SumTakeOut

\* Of natural numbers, each is at most the sum.
LEMMA SumAtLeast ==
    ASSUME NEW f, NEW D, IsFiniteSet(D), \A y \in D : f[y] \in Nat, NEW x \in D
    PROVE  f[x] <= SumFunctionOnSet(f, D)
<1>1. SumFunctionOnSet(f, D) = f[x] + SumFunctionOnSet(f, D \ {x})
  BY SumTakeOut
<1>2. IsFiniteSet(D \ {x})
  BY FS_RemoveElement
<1>3. SumFunctionOnSet(f, D \ {x}) \in Nat
  BY <1>2, SumNat
<1> QED
  BY <1>1, <1>3

-----------------------------------------------------------------------------
(* The billing tables. *)

\* The tables have their types and the ledger explains the wallets.
Sound == WalletTypeOK /\ LedgerReconciles

\* update_wallet_hold with a result that is not negative.
LEMMA HoldRow ==
    ASSUME NEW w \in WalletRow, NEW d \in Int, w.held + d >= 0
    PROVE  /\ UpdateWalletHold(w, d) \in WalletRow
           /\ UpdateWalletHold(w, d).balance = w.balance
           /\ UpdateWalletHold(w, d).held = w.held + d
  BY DEF WalletRow, UpdateWalletHold

\* update_wallet_capture, when the check constraint lets it pass.
LEMMA CaptureRow ==
    ASSUME NEW w \in WalletRow, NEW held \in Nat, NEW charge \in Nat,
           RowAllowed(UpdateWalletCapture(w, held, charge))
    PROVE  /\ UpdateWalletCapture(w, held, charge) \in WalletRow
           /\ UpdateWalletCapture(w, held, charge).balance = w.balance - charge
           /\ UpdateWalletCapture(w, held, charge).held = w.held - held
<1>1. /\ UpdateWalletCapture(w, held, charge).balance = w.balance - charge
      /\ UpdateWalletCapture(w, held, charge).held = w.held - held
  BY DEF WalletRow, UpdateWalletCapture
<1>2. w.balance - charge \in Nat /\ w.held - held \in Nat
  BY <1>1 DEF RowAllowed, WalletRow
<1> QED
  BY <1>1, <1>2 DEF WalletRow, UpdateWalletCapture

\* update_wallet_balance_in_transaction with a result that is not negative.
LEMMA BalanceRow ==
    ASSUME NEW w \in WalletRow, NEW d \in Int, w.balance + d >= 0
    PROVE  /\ UpdateWalletBalance(w, d) \in WalletRow
           /\ UpdateWalletBalance(w, d).balance = w.balance + d
           /\ UpdateWalletBalance(w, d).held = w.held
  BY DEF WalletRow, UpdateWalletBalance

\* settle_charge never returns a negative amount, nor more than was asked for,
\* nor more than the call's hold and the money nobody holds.
LEMMA SettledAmount ==
    ASSUME NEW requested \in Nat, NEW held \in Nat, NEW w \in WalletRow
    PROVE  /\ SettleCharge(requested, held, w) \in Nat
           /\ SettleCharge(requested, held, w) <= requested
           /\ w.held <= w.balance => SettleCharge(requested, held, w) <= held + (w.balance - w.held)
<1>1. w.balance \in Nat /\ w.held \in Nat
  BY DEF WalletRow
<1> QED
  BY <1>1 DEF SettleCharge, Larger, Smaller

\* A wallet row and the entry that records its change.
LEMMA RecordedChange ==
    ASSUME Sound, NEW c \in Customers, NEW w \in WalletRow, NEW delta \in Int,
           w.balance = wallet[c].balance + delta,
           wallet' = [wallet EXCEPT ![c] = w],
           ledger' = InsertLedgerEntry(c, w, delta)
    PROVE  /\ wallet' \in [Customers -> WalletRow]
           /\ ledger' \in [Customers -> LedgerSummary]
           /\ LedgerReconciles'
<1> DEFINE e == [net |-> ledger[c].net + delta, balance |-> w.balance, held |-> w.held]
<1>1. ledger' = [ledger EXCEPT ![c] = e]
  BY DEF InsertLedgerEntry
<1>2. /\ wallet \in [Customers -> WalletRow] /\ ledger \in [Customers -> LedgerSummary]
      /\ ledger[c].net \in Int /\ ledger[c].net = wallet[c].balance
  BY DEF Sound, WalletTypeOK, LedgerReconciles, LedgerSummary
<1>3. /\ e \in LedgerSummary /\ e.net = w.balance
      /\ e.balance = w.balance /\ e.held = w.held
  BY <1>2 DEF LedgerSummary, WalletRow
<1> HIDE DEF e
<1> QED
  BY <1>1, <1>2, <1>3 DEF Sound, LedgerReconciles

\* A wallet row whose balance and hold stay as they are needs no entry.
LEMMA UnrecordedChange ==
    ASSUME Sound, NEW c \in Customers, NEW w \in WalletRow,
           w.balance = wallet[c].balance, w.held = wallet[c].held,
           wallet' = [wallet EXCEPT ![c] = w],
           ledger' = ledger
    PROVE  /\ wallet' \in [Customers -> WalletRow]
           /\ ledger' \in [Customers -> LedgerSummary]
           /\ LedgerReconciles'
  BY DEF Sound, WalletTypeOK, LedgerReconciles

\* The writes of a reservation: the record of the call is new, every other
\* record stays.
LEMMA ReserveSound ==
    ASSUME Sound, NEW c \in Customers, NEW u \in Usages, NEW hold \in Nat, NEW d \in Nat,
           Reserve(c, u, hold, d)
    PROVE  /\ Sound'
           /\ usage'[u].status = "running" /\ usage'[u].held = hold
           /\ \A v \in Usages \ {u} : usage'[v] = usage[v]
<1> DEFINE w == UpdateWalletHold(wallet[c], hold)
<1>1. wallet[c] \in WalletRow /\ wallet[c].balance \in Nat /\ wallet[c].held \in Nat
  BY DEF Sound, WalletTypeOK, WalletRow
<1>2. w \in WalletRow /\ w.balance = wallet[c].balance /\ w.held = wallet[c].held + hold
  BY <1>1, HoldRow
<1>3. /\ wallet' = [wallet EXCEPT ![c] = w]
      /\ ledger' = IF hold > 0 THEN InsertLedgerEntry(c, w, 0) ELSE ledger
      /\ usage' = [usage EXCEPT ![u] = [status |-> "running", held |-> hold, charged |-> 0,
                                        refunded |-> 0, day |-> d, body |-> FALSE]]
      /\ day' = day
  BY DEF Reserve
<1> HIDE DEF w
<1>4. /\ wallet' \in [Customers -> WalletRow] /\ ledger' \in [Customers -> LedgerSummary]
      /\ LedgerReconciles'
  <2>1. CASE hold > 0
    <3>1. /\ w.balance = wallet[c].balance + 0 /\ 0 \in Int
          /\ ledger' = InsertLedgerEntry(c, w, 0)
      BY <1>1, <1>2, <1>3, <2>1
    <3> QED
      BY <1>2, <1>3, <3>1, RecordedChange
  <2>2. CASE hold = 0
    <3>1. w.held = wallet[c].held /\ ledger' = ledger
      BY <1>1, <1>2, <1>3, <2>2
    <3> QED
      BY <1>2, <1>3, <3>1, UnrecordedChange
  <2> QED
    BY <2>1, <2>2
<1>5. usage' \in [Usages -> UsageRow] /\ day' \in Nat
  BY <1>3 DEF Sound, WalletTypeOK, UsageRow, UsageStatus
<1> QED
  BY <1>3, <1>4, <1>5 DEF Sound, WalletTypeOK

\* capture_usage: a wallet is charged what settle_charge allows.
LEMMA CaptureSound ==
    ASSUME Sound, NEW c \in Customers, NEW u \in Usages, NEW charge \in Nat,
           Capture(c, u, charge)
    PROVE  /\ Sound'
           /\ usage'[u].status = "succeeded" /\ usage'[u].held = usage[u].held
           /\ \A v \in Usages \ {u} : usage'[v] = usage[v]
<1> DEFINE captured == SettleCharge(charge, usage[u].held, wallet[c])
           w        == UpdateWalletCapture(wallet[c], usage[u].held, captured)
<1>1. /\ wallet[c] \in WalletRow /\ wallet[c].balance \in Nat /\ wallet[c].held \in Nat
      /\ usage[u].held \in Nat
  BY DEF Sound, WalletTypeOK, WalletRow, UsageRow
<1>2. captured \in Nat
  BY <1>1, SettledAmount
<1>3. RowAllowed(w)
  BY DEF Capture, CapturedRow
<1>4. /\ wallet' = [wallet EXCEPT ![c] = w]
      /\ ledger' = IF captured > 0 \/ usage[u].held > 0
                   THEN InsertLedgerEntry(c, w, -captured) ELSE ledger
      /\ usage' = [usage EXCEPT ![u].status = "succeeded", ![u].charged = captured,
                                ![u].body = TRUE]
      /\ day' = day
  BY DEF Capture, CapturedRow
<1> HIDE DEF captured
<1>5. /\ w \in WalletRow /\ w.balance = wallet[c].balance - captured
      /\ w.held = wallet[c].held - usage[u].held
  BY <1>1, <1>2, <1>3, CaptureRow
<1> HIDE DEF w
<1>6. /\ wallet' \in [Customers -> WalletRow] /\ ledger' \in [Customers -> LedgerSummary]
      /\ LedgerReconciles'
  <2>1. CASE captured > 0 \/ usage[u].held > 0
    <3>1. -captured \in Int /\ w.balance = wallet[c].balance + (-captured)
      BY <1>1, <1>2, <1>5
    <3> QED
      BY <1>4, <1>5, <2>1, <3>1, RecordedChange
  <2>2. CASE ~(captured > 0 \/ usage[u].held > 0)
    <3>1. w.balance = wallet[c].balance /\ w.held = wallet[c].held
      BY <1>1, <1>2, <1>5, <2>2
    <3> QED
      BY <1>4, <1>5, <2>2, <3>1, UnrecordedChange
  <2> QED
    BY <2>1, <2>2
<1>7. PICK row \in UsageRow : row = usage[u]
  BY DEF Sound, WalletTypeOK
<1> DEFINE X == [row EXCEPT !.status = "succeeded", !.charged = captured, !.body = TRUE]
<1>8. X \in UsageRow /\ X.status = "succeeded" /\ X.held = row.held
  BY <1>2 DEF UsageRow, UsageStatus
<1>9. usage' = [usage EXCEPT ![u] = X]
  BY <1>4, <1>7
<1> HIDE DEF X
<1> QED
  BY <1>4, <1>6, <1>7, <1>8, <1>9 DEF Sound, WalletTypeOK

\* release_usage: the hold is given back.
LEMMA ReleaseSound ==
    ASSUME Sound, NEW c \in Customers, NEW u \in Usages, NEW body \in BOOLEAN,
           Release(c, u, body)
    PROVE  /\ Sound'
           /\ usage'[u].status = "failed" /\ usage'[u].held = usage[u].held
           /\ \A v \in Usages \ {u} : usage'[v] = usage[v]
<1> DEFINE held == usage[u].held
           w    == UpdateWalletHold(wallet[c], -held)
<1>1. /\ wallet[c] \in WalletRow /\ wallet[c].balance \in Nat /\ wallet[c].held \in Nat
      /\ held \in Nat
  BY DEF Sound, WalletTypeOK, WalletRow, UsageRow
<1>2. w.held >= 0
  BY DEF Release, ReleasedRow, RowAllowed
<1>3. /\ wallet' = [wallet EXCEPT ![c] = w]
      /\ ledger' = IF held > 0 THEN InsertLedgerEntry(c, w, 0) ELSE ledger
      /\ usage' = [usage EXCEPT ![u].status = "failed", ![u].refunded = held, ![u].body = body]
      /\ day' = day
  BY DEF Release, ReleasedRow
<1>4. /\ w \in WalletRow /\ w.balance = wallet[c].balance
      /\ w.held = wallet[c].held + (-held)
  <2>1. PICK row \in WalletRow : row = wallet[c]
    BY <1>1
  <2>2. UpdateWalletHold(row, -held).held = row.held + (-held)
    BY <1>1 DEF UpdateWalletHold, WalletRow
  <2>3. row.held + (-held) >= 0
    BY <1>2, <2>1, <2>2
  <2> QED
    BY <1>1, <2>1, <2>3, HoldRow
<1> HIDE DEF w, held
<1>5. /\ wallet' \in [Customers -> WalletRow] /\ ledger' \in [Customers -> LedgerSummary]
      /\ LedgerReconciles'
  <2>1. CASE held > 0
    <3>1. /\ w.balance = wallet[c].balance + 0 /\ 0 \in Int
          /\ ledger' = InsertLedgerEntry(c, w, 0)
      BY <1>1, <1>3, <1>4, <2>1
    <3> QED
      BY <1>3, <1>4, <3>1, RecordedChange
  <2>2. CASE held = 0
    <3>1. w.balance = wallet[c].balance /\ w.held = wallet[c].held /\ ledger' = ledger
      BY <1>1, <1>3, <1>4, <2>2
    <3> QED
      BY <1>3, <1>4, <3>1, UnrecordedChange
  <2> QED
    BY <1>1, <2>1, <2>2
<1>6. PICK row \in UsageRow : row = usage[u]
  BY DEF Sound, WalletTypeOK
<1> DEFINE X == [row EXCEPT !.status = "failed", !.refunded = held, !.body = body]
<1>7. X \in UsageRow /\ X.status = "failed" /\ X.held = row.held
  BY <1>1 DEF UsageRow, UsageStatus
<1>8. usage' = [usage EXCEPT ![u] = X]
  BY <1>3, <1>6
<1> HIDE DEF X
<1> QED
  BY <1>3, <1>5, <1>6, <1>7, <1>8 DEF Sound, WalletTypeOK

\* adjust_ai_wallet: a credit, or a debit that leaves what is on hold.
LEMMA AdjustSound ==
    ASSUME Sound, NEW c \in Customers, NEW amount \in Int, AdjustWallet(c, amount)
    PROVE  Sound' /\ UNCHANGED usage
<1> DEFINE w == UpdateWalletBalance(wallet[c], amount)
<1>1. wallet[c] \in WalletRow /\ wallet[c].balance \in Nat /\ wallet[c].held \in Nat
  BY DEF Sound, WalletTypeOK, WalletRow
<1>2. /\ wallet' = [wallet EXCEPT ![c] = w] /\ ledger' = InsertLedgerEntry(c, w, amount)
      /\ w.balance >= w.held /\ UNCHANGED <<usage, day>>
  BY DEF AdjustWallet
<1>3. w \in WalletRow /\ w.balance = wallet[c].balance + amount
  <2>1. PICK row \in WalletRow : row = wallet[c]
    BY <1>1
  <2>2. /\ UpdateWalletBalance(row, amount).balance = row.balance + amount
        /\ UpdateWalletBalance(row, amount).held = row.held
    BY DEF UpdateWalletBalance, WalletRow
  <2>3. row.balance + amount >= 0
    BY <1>1, <1>2, <2>1, <2>2
  <2> QED
    BY <2>1, <2>3, BalanceRow
<1> HIDE DEF w
<1> QED
  BY <1>2, <1>3, RecordedChange DEF Sound, WalletTypeOK

\* update_ai_wallet_quota and update_ai_wallet_access: the limit and the switch
\* of a wallet change, its money does not.
LEMMA SettingsSound ==
    ASSUME Sound, NEW c \in Customers,
           \/ \E limit \in Limit : UpdateWalletQuota(c, limit)
           \/ \E enabled \in BOOLEAN : UpdateWalletAccess(c, enabled)
    PROVE  Sound' /\ UNCHANGED usage
<1>1. PICK row \in WalletRow : row = wallet[c]
  BY DEF Sound, WalletTypeOK
<1>2. UNCHANGED <<usage, ledger, day>>
  BY DEF UpdateWalletQuota, UpdateWalletAccess
<1>3. PICK w \in WalletRow : /\ wallet' = [wallet EXCEPT ![c] = w]
                             /\ w.balance = row.balance /\ w.held = row.held
  <2>1. ASSUME NEW limit \in Limit, UpdateWalletQuota(c, limit)
        PROVE  \E w \in WalletRow : /\ wallet' = [wallet EXCEPT ![c] = w]
                                    /\ w.balance = row.balance /\ w.held = row.held
    <3> DEFINE X == [row EXCEPT !.limit = limit]
    <3>1. X \in WalletRow /\ X.balance = row.balance /\ X.held = row.held
      BY DEF WalletRow
    <3>2. wallet' = [wallet EXCEPT ![c] = X]
      BY <1>1, <2>1 DEF UpdateWalletQuota
    <3> HIDE DEF X
    <3> QED
      BY <3>1, <3>2
  <2>2. ASSUME NEW enabled \in BOOLEAN, UpdateWalletAccess(c, enabled)
        PROVE  \E w \in WalletRow : /\ wallet' = [wallet EXCEPT ![c] = w]
                                    /\ w.balance = row.balance /\ w.held = row.held
    <3> DEFINE X == [row EXCEPT !.enabled = enabled]
    <3>1. X \in WalletRow /\ X.balance = row.balance /\ X.held = row.held
      BY DEF WalletRow
    <3>2. wallet' = [wallet EXCEPT ![c] = X]
      BY <1>1, <2>2 DEF UpdateWalletAccess
    <3> HIDE DEF X
    <3> QED
      BY <3>1, <3>2
  <2> QED
    BY <2>1, <2>2
<1> QED
  BY <1>1, <1>2, <1>3, UnrecordedChange DEF Sound, WalletTypeOK

\* The writes of a reservation.
LEMMA ReserveWrites ==
    ASSUME Sound, NEW c \in Customers, NEW u \in Usages, NEW hold \in Nat, NEW d \in Nat,
           Reserve(c, u, hold, d)
    PROVE  /\ wallet'[c].held = wallet[c].held + hold
           /\ wallet'[c].balance = wallet[c].balance
           /\ wallet'[c].enabled = wallet[c].enabled /\ wallet'[c].limit = wallet[c].limit
           /\ \A e \in Customers \ {c} : wallet'[e] = wallet[e]
           /\ usage'[u] = [status |-> "running", held |-> hold, charged |-> 0,
                           refunded |-> 0, day |-> d, body |-> FALSE]
           /\ \A v \in Usages \ {u} : usage'[v] = usage[v]
<1>1. PICK row \in WalletRow : row = wallet[c]
  BY DEF Sound, WalletTypeOK
<1> DEFINE w == UpdateWalletHold(row, hold)
<1>2. /\ w.held = row.held + hold /\ w.balance = row.balance
      /\ w.enabled = row.enabled /\ w.limit = row.limit
  BY DEF UpdateWalletHold, WalletRow
<1>3. wallet' = [wallet EXCEPT ![c] = w]
  BY <1>1 DEF Reserve
<1> HIDE DEF w
<1>4. usage' = [usage EXCEPT ![u] = [status |-> "running", held |-> hold, charged |-> 0,
                                     refunded |-> 0, day |-> d, body |-> FALSE]]
  BY DEF Reserve
<1> QED
  BY <1>1, <1>2, <1>3, <1>4 DEF Sound, WalletTypeOK

\* The writes of a settlement: the hold of the call is gone, and the wallet row
\* that is written is one the check constraint allows.
LEMMA SettleWrites ==
    ASSUME Sound, NEW c \in Customers, NEW u \in Usages,
           \/ \E charge \in Nat : Capture(c, u, charge)
           \/ \E body \in BOOLEAN : Release(c, u, body)
    PROVE  /\ wallet'[c].held = wallet[c].held - usage[u].held
           /\ wallet'[c].held <= wallet'[c].balance
           /\ \A e \in Customers \ {c} : wallet'[e] = wallet[e]
           /\ usage'[u].status \in {"succeeded", "failed"} /\ usage'[u].held = usage[u].held
           /\ \A v \in Usages \ {u} : usage'[v] = usage[v]
<1>1. PICK row \in WalletRow : row = wallet[c]
  BY DEF Sound, WalletTypeOK
<1>2. PICK seen \in UsageRow : seen = usage[u]
  BY DEF Sound, WalletTypeOK
<1>3. row.balance \in Nat /\ row.held \in Nat /\ seen.held \in Nat
  BY DEF WalletRow, UsageRow
<1>5. CASE \E charge \in Nat : Capture(c, u, charge)
  <2>1. PICK charge \in Nat : Capture(c, u, charge)
    BY <1>5
  <2>2. PICK captured \in Nat : captured = SettleCharge(charge, seen.held, row)
    BY <1>3, SettledAmount
  <2> DEFINE w == UpdateWalletCapture(row, seen.held, captured)
  <2>3. w.held = row.held - seen.held
    BY DEF UpdateWalletCapture, WalletRow
  <2>4. RowAllowed(w) /\ wallet' = [wallet EXCEPT ![c] = w]
    BY <1>1, <1>2, <2>1, <2>2 DEF Capture, CapturedRow
  <2>5. w.held <= w.balance
    BY <2>4 DEF RowAllowed
  <2> HIDE DEF w
  <2>6. /\ usage'[u].status = "succeeded" /\ usage'[u].held = usage[u].held
        /\ \A v \in Usages \ {u} : usage'[v] = usage[v]
    BY <2>1, CaptureSound
  <2> QED
    BY <1>1, <1>2, <2>3, <2>4, <2>5, <2>6 DEF Sound, WalletTypeOK
<1>6. CASE \E body \in BOOLEAN : Release(c, u, body)
  <2>1. PICK body \in BOOLEAN : Release(c, u, body)
    BY <1>6
  <2> DEFINE w == UpdateWalletHold(row, -seen.held)
  <2>2. w.held = row.held - seen.held
    BY <1>3 DEF UpdateWalletHold, WalletRow
  <2>3. RowAllowed(w) /\ wallet' = [wallet EXCEPT ![c] = w]
    BY <1>1, <1>2, <2>1 DEF Release, ReleasedRow
  <2>4. w.held <= w.balance
    BY <2>3 DEF RowAllowed
  <2> HIDE DEF w
  <2>5. /\ usage'[u].status = "failed" /\ usage'[u].held = usage[u].held
        /\ \A v \in Usages \ {u} : usage'[v] = usage[v]
    BY <2>1, ReleaseSound
  <2> QED
    BY <1>1, <1>2, <2>2, <2>3, <2>4, <2>5 DEF Sound, WalletTypeOK
<1> QED
  BY <1>5, <1>6

\* What a capture and a release do to the balance and to the record.
LEMMA CaptureWrites ==
    ASSUME Sound, NEW c \in Customers, NEW u \in Usages, NEW charge \in Nat, Capture(c, u, charge)
    PROVE  LET captured == SettleCharge(charge, usage[u].held, wallet[c])
           IN  /\ wallet'[c].balance = wallet[c].balance - captured
               /\ usage'[u].charged = captured
<1>1. PICK row \in WalletRow : row = wallet[c]
  BY DEF Sound, WalletTypeOK
<1>2. PICK seen \in UsageRow : seen = usage[u]
  BY DEF Sound, WalletTypeOK
<1>3. PICK captured \in Nat : captured = SettleCharge(charge, seen.held, row)
  BY SettledAmount DEF UsageRow
<1> DEFINE w == UpdateWalletCapture(row, seen.held, captured)
           q == [seen EXCEPT !.status = "succeeded", !.charged = captured, !.body = TRUE]
<1>4. w.balance = row.balance - captured /\ q.charged = captured
  BY DEF UpdateWalletCapture, WalletRow, UsageRow
<1>5. wallet' = [wallet EXCEPT ![c] = w] /\ usage' = [usage EXCEPT ![u] = q]
  BY <1>1, <1>2, <1>3 DEF Capture, CapturedRow
<1> HIDE DEF w, q
<1>6. wallet'[c] = w /\ usage'[u] = q
  BY <1>5 DEF Sound, WalletTypeOK
<1> QED
  BY <1>1, <1>2, <1>3, <1>4, <1>6

LEMMA ReleaseKeepsBalance ==
    ASSUME Sound, NEW c \in Customers, NEW u \in Usages, NEW body \in BOOLEAN, Release(c, u, body)
    PROVE  wallet'[c].balance = wallet[c].balance
<1>1. PICK row \in WalletRow : row = wallet[c]
  BY DEF Sound, WalletTypeOK
<1>2. PICK held \in Nat : held = usage[u].held
  BY DEF Sound, WalletTypeOK, UsageRow
<1> DEFINE w == UpdateWalletHold(row, -held)
<1>3. w.balance = row.balance
  BY DEF UpdateWalletHold, WalletRow
<1>4. wallet' = [wallet EXCEPT ![c] = w]
  BY <1>1, <1>2 DEF Release, ReleasedRow
<1> HIDE DEF w
<1> QED
  BY <1>1, <1>3, <1>4 DEF Sound, WalletTypeOK

-----------------------------------------------------------------------------
(* What running records hold. *)

\* A table of usage records, as far as it can be added up over U.
Summable(table, U) == IsFiniteSet(U) /\ \A u \in U : table[u].held \in Nat

\* The running records among those of U.
RunningIn(table, U) == {u \in U : table[u].status = "running"}

\* What is on hold is never negative, and covers every running call.
LEMMA HoldsCover ==
    ASSUME NEW table, NEW U, Summable(table, U)
    PROVE  /\ HoldsOf(table, U) \in Nat
           /\ \A u \in U : table[u].status = "running" => table[u].held <= HoldsOf(table, U)
<1> DEFINE f == [u \in U |-> table[u].held]
           R == RunningIn(table, U)
<1>1. IsFiniteSet(R) /\ \A u \in R : f[u] \in Nat
  BY FS_Subset DEF Summable, RunningIn
<1>2. HoldsOf(table, U) = SumFunctionOnSet(f, R)
  BY DEF HoldsOf, RunningIn
<1>3. \A u \in U : table[u].status = "running" => u \in R /\ f[u] = table[u].held
  BY DEF RunningIn
<1> HIDE DEF f, R
<1> QED
  BY <1>1, <1>2, <1>3, SumNat, SumAtLeast

\* Records that neither start nor stop running, and hold what they held.
LEMMA HoldsSame ==
    ASSUME NEW table, NEW new, NEW U, Summable(table, U),
           \A u \in U : /\ new[u].status = "running" <=> table[u].status = "running"
                        /\ table[u].status = "running" => new[u].held = table[u].held
    PROVE  HoldsOf(new, U) = HoldsOf(table, U)
<1> DEFINE f == [u \in U |-> table[u].held]
           g == [u \in U |-> new[u].held]
           R == RunningIn(table, U)
<1>1. RunningIn(new, U) = R
  BY DEF RunningIn
<1>2. IsFiniteSet(R) /\ \A u \in R : f[u] = g[u]
  BY FS_Subset DEF Summable, RunningIn
<1>3. HoldsOf(table, U) = SumFunctionOnSet(f, R) /\ HoldsOf(new, U) = SumFunctionOnSet(g, R)
  BY <1>1 DEF HoldsOf, RunningIn
<1> HIDE DEF f, g, R
<1> QED
  BY <1>2, <1>3, SumSame

\* A call that is let through adds its hold.
LEMMA HoldsAdd ==
    ASSUME NEW table, NEW new, NEW U, Summable(table, U), NEW u, u \notin U,
           \A v \in U : new[v] = table[v],
           new[u].status = "running", new[u].held \in Nat
    PROVE  HoldsOf(new, U \cup {u}) = HoldsOf(table, U) + new[u].held
<1> DEFINE f == [v \in U |-> table[v].held]
           g == [v \in U \cup {u} |-> new[v].held]
           R == RunningIn(table, U)
<1>1. RunningIn(new, U \cup {u}) = R \cup {u} /\ u \notin R
  BY DEF RunningIn
<1>2. IsFiniteSet(R) /\ \A v \in R : f[v] = g[v] /\ g[v] \in Nat
  BY FS_Subset DEF Summable, RunningIn
<1>3. g[u] = new[u].held /\ g[u] \in Nat
  OBVIOUS
<1>4. /\ HoldsOf(table, U) = SumFunctionOnSet(f, R)
      /\ HoldsOf(new, U \cup {u}) = SumFunctionOnSet(g, R \cup {u})
  BY <1>1 DEF HoldsOf, RunningIn
<1> HIDE DEF f, g, R
<1>5. SumFunctionOnSet(g, R \cup {u}) = g[u] + SumFunctionOnSet(g, R)
  BY <1>1, <1>2, <1>3, SumAdd
<1>6. SumFunctionOnSet(g, R) = SumFunctionOnSet(f, R) /\ SumFunctionOnSet(g, R) \in Nat
  BY <1>2, SumSame, SumNat
<1> QED
  BY <1>3, <1>4, <1>5, <1>6

\* A call that is settled takes its hold away.
LEMMA HoldsSettle ==
    ASSUME NEW table, NEW new, NEW U, Summable(table, U), NEW u \in U,
           \A v \in U \ {u} : new[v] = table[v],
           table[u].status = "running", new[u].status # "running"
    PROVE  HoldsOf(new, U) = HoldsOf(table, U) - table[u].held
<1> DEFINE f == [v \in U |-> table[v].held]
           g == [v \in U |-> new[v].held]
           R == RunningIn(table, U)
<1>1. RunningIn(new, U) = R \ {u} /\ u \in R
  BY DEF RunningIn
<1>2. /\ IsFiniteSet(R) /\ IsFiniteSet(R \ {u})
      /\ \A v \in R : f[v] \in Nat
      /\ \A v \in R \ {u} : f[v] = g[v]
  BY FS_Subset DEF Summable, RunningIn
<1>3. f[u] = table[u].held
  OBVIOUS
<1>4. /\ HoldsOf(table, U) = SumFunctionOnSet(f, R)
      /\ HoldsOf(new, U) = SumFunctionOnSet(g, R \ {u})
  BY <1>1 DEF HoldsOf, RunningIn
<1> HIDE DEF f, g, R
<1>5. SumFunctionOnSet(f, R) = f[u] + SumFunctionOnSet(f, R \ {u})
  BY <1>1, <1>2, SumTakeOut
<1>6. SumFunctionOnSet(g, R \ {u}) = SumFunctionOnSet(f, R \ {u})
  BY <1>2, SumSame
<1>7. SumFunctionOnSet(f, R \ {u}) \in Nat /\ f[u] \in Nat
  BY <1>1, <1>2, SumNat
<1> QED
  BY <1>3, <1>4, <1>5, <1>6, <1>7

\* A day's spending is a natural number.
LEMMA SpentNat ==
    ASSUME NEW row \in UsageRow, NEW d \in Nat
    PROVE  Spent(row, d) \in Nat
  BY DEF Spent, UsageRow

\* A record that is inserted adds what it spends to the spending of the day.
LEMMA SpendAdd ==
    ASSUME NEW table, NEW new, NEW U, IsFiniteSet(U), \A v \in U : table[v] \in UsageRow,
           NEW u, u \notin U, new[u] \in UsageRow,
           \A v \in U : new[v] = table[v], NEW d \in Nat
    PROVE  SumFunctionOnSet([v \in U \cup {u} |-> Spent(new[v], d)], U \cup {u}) =
             Spent(new[u], d) + SumFunctionOnSet([v \in U |-> Spent(table[v], d)], U)
<1> DEFINE f == [v \in U |-> Spent(table[v], d)]
           g == [v \in U \cup {u} |-> Spent(new[v], d)]
<1>1. \A v \in U : g[v] = f[v]
  OBVIOUS
<1>2. \A v \in U \cup {u} : g[v] \in Nat
  BY SpentNat
<1>3. g[u] = Spent(new[u], d)
  OBVIOUS
<1> HIDE DEF f, g
<1>4. SumFunctionOnSet(g, U \cup {u}) = g[u] + SumFunctionOnSet(g, U)
  BY <1>2, SumAdd
<1>5. SumFunctionOnSet(g, U) = SumFunctionOnSet(f, U)
  BY <1>1, SumSame
<1> QED
  BY <1>3, <1>4, <1>5 DEF f, g

\* The spending of a day is a natural number.
LEMMA SpendNat ==
    ASSUME NEW table, NEW U, IsFiniteSet(U), \A v \in U : table[v] \in UsageRow, NEW d \in Nat
    PROVE  SumFunctionOnSet([v \in U |-> Spent(table[v], d)], U) \in Nat
<1> DEFINE f == [v \in U |-> Spent(table[v], d)]
<1>1. \A v \in U : f[v] \in Nat
  BY SpentNat
<1> HIDE DEF f
<1>2. SumFunctionOnSet(f, U) \in Nat
  BY <1>1, SumNat
<1> QED
  BY <1>2 DEF f
=============================================================================
