\* The folders with three requests; two uploads, or one that is edited; two works
\* with three requests.
SPECIFICATION SmallWebSpec
CONSTANTS
    Folders = {f1, f2, f3}
    FolderRequests = {p, q, r}
    Uploads = {u, v}
    MaxMediaFaults = 2
    MaxEdits = 1
    MaxLapses = 1
    Works = {x, y}
    WorkRequests = {k, l, m}
    MaxWorkStops = 1
INVARIANTS
    FoldersKept
    AssetsKept
    WorksKept
PROPERTIES
    AssetOutcomesKept
    VideoSettles
CHECK_DEADLOCK FALSE
