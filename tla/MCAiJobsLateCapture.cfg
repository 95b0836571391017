\* Two jobs of one wallet, and one request of an operator.
SPECIFICATION Spec
CONSTANTS
    c1 = c1
    m1 = m1
    j1 = j1
    j2 = j2
    w1 = w1
    w2 = w2
    o1 = o1
    o2 = o2
    i1 = i1
    Customers = {c1}
    Usages = {j1, j2}
    Models = {m1}
    NoLimit = NoLimit
    ModelLimit <- MCModelLimit
    OpeningBalance = 4
    IdemKeys = {}
    NoIdem = NoIdem
    Holds = {2}
    Workers = {w1}
    Operators = {o1}
    OpKinds <- AllKinds
    MaxAttempts = 2
    MaxErrors = 0
    MaxOps = 1
INVARIANT
    HeldIsRunningHolds
CHECK_DEADLOCK FALSE
