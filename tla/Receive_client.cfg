SPECIFICATION Spec
CONSTANTS
    f1 = f1
    f2 = f2
    f3 = f3
    d1 = d1
    d2 = d2
    c1 = c1
    s1 = s1
    s2 = s2
    Nobody = Nobody
    Types = {"header2", "header4", "headerV"}
    Sizes = {1, 3, 5}
    ReadSize = 2
    MaxPackage = 4
    MaxMessages = 3
    Bodies = {0, 2}
    HttpReadSize = 4
    HttpMaxPackage = 8
    MaxRequests = 4
    Timeouts = {3, 4}
    MaxTime = 8
    MaxReads = 3
    Shifts <- Shift
    Files = {f1, f2, f3}
    Desired = {1, 2}
    MaxPieces = 1
    Buffers = 0
    MaxRefused = 1
    Downloads = {d1, d2}
    Blocks = {0, 2}
    Members = {c1}
    Setters = {s1, s2}
    Parts = {"framing", "http", "timeout", "uploads", "downloads", "roles"}
INVARIANTS TypeOK StreamServed RequestsServed IdleClientIsWatched UploadsKeptApart
    PoolAccounting DownloadInOrder RolesSettled
PROPERTY TimeoutOnlyAfterSilence
CHECK_DEADLOCK FALSE
