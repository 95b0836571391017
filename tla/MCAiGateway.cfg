\* Three requests of one customer, one stopped handler, one midnight and one
\* back-office operation.
SPECIFICATION Spec
CONSTANTS
    c1 = c1
    c2 = c2
    k1 = k1
    m1 = m1
    r1 = r1
    r2 = r2
    r3 = r3
    i1 = i1
    Customers = {c1}
    Usages = {r1, r2, r3}
    Models = {m1}
    NoLimit = NoLimit
    ModelLimit <- MCModelLimit
    OpeningBalance = 4
    Keys = {k1}
    NoKey = NoKey
    KeyOwner <- MCKeyOwner
    KeyLimit <- MCKeyLimit
    IdemKeys = {i1}
    NoIdem = NoIdem
    Holds = {2}
    Charges = {0, 3}
    Amounts <- MCAmounts
    Quotas <- MCQuotas
    MaxDay = 1
    MaxAbandon = 1
    MaxAdmin = 1
SYMMETRY RequestSymmetry
INVARIANTS
    TypeOK
    HeldIsRunningHolds
    LedgerReconciles
    SettlementFits
    OneCallPerIdempotencyKey
PROPERTIES
    ImplementsAccounts
    ReservationRespectsLimits
CHECK_DEADLOCK FALSE
