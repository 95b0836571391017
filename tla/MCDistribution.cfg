SPECIFICATION Spec
CONSTANTS
    Issuers = {i, j}
    JwtRotations = {r, s}
    AppRotations = {a, b}
    AccessTtl = 1
    MaxNow = 2
    ReleaseIds = {p, q}
    Versions = {1, 2}
    OfficeCalls = {o1, o2}
    DownloadCalls = {d1, d2}
    ScriptCalls = {c1, c2}
    Contents = {x, y}
    VersionCodes = {1, 2}
    Threads = {t, u}
    MaxLogins = 2
    MaxRefreshes = 3
    MaxKeys = 2
    MaxRestarts = 1
    Downloads = {good, bad, old, older}
    Corrupt = {bad}
    Old = {old, older}
    Compared = {good, old}
    MaxDownloadStops = 1
    LastYear = 2101
SYMMETRY DistributionSymmetry
INVARIANTS
    KeysKept
    PublicationKept
    SdkKept
PROPERTIES
    PublishedIsFixed
CHECK_DEADLOCK FALSE
