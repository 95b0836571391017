\* One licence and one subscription; two client requests and three back-office
\* operations, two of them at a time.
SPECIFICATION OfficeSpec
CONSTANTS
    Licenses = {l1}
    Subscriptions = {s1}
    MaxDevices <- OneDevice
    Machines = {m1}
    Requests = {r1, r2}
    NoGrant = NoGrant
    Admins = {a1, a2}
    MaxAdmin = 3
SYMMETRY OfficeSymmetry
INVARIANTS
    BlacklistedIsListed
PROPERTIES
    LostAccessIsFinal
    CancelledIsFinal
CHECK_DEADLOCK FALSE
