\* Four client requests on one device, and one back-office operation.
SPECIFICATION Spec
CONSTANTS
    Licenses = {l1}
    Subscriptions = {}
    MaxDevices <- OneDevice
    Machines = {m1}
    Requests = {r1, r2, r3, r4}
    NoGrant = NoGrant
    Admins = {a1}
    MaxAdmin = 1
SYMMETRY RequestSymmetry
INVARIANTS
    TypeOK
    OneLiveToken
    ReuseEndsSession
CHECK_DEADLOCK FALSE
