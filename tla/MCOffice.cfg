\* Three accounts and three requests about them or a second factor; two or three
\* administrators at work on each of the rows of the other parts.
SPECIFICATION Spec
CONSTANTS
    Members = {m1, m2, m3}
    Requests = {r1, r2, r3}
    KeyIds = {ak, sk}
    ServerKeyIds = {sk}
    KeyEdits = {ed, ee, ef}
    KeyCalls = {ca}
    MaxKeyClock = 2
    SettingEdits = {f1, f2, f3}
    EmailEdits = {n1, n2, n3}
    EmailTests = {o1}
    Providers = {pa}
    CatalogueEdits = {y1, y2}
INVARIANTS
    TeamKept
    MfaKept
    OfficeKept
PROPERTY
    DisabledIsFinal
CHECK_DEADLOCK FALSE
