SPECIFICATION WorkerSpec
CONSTANTS
    o1 = o1
    o2 = o2
    Op = {o1, o2}
    NoOp = NoOp
    value1 = value1
    value2 = value2
    Item <- MCItem
    Foreign = Foreign
    w1 = w1
    w2 = w2
    Proc = {w1, w2}
    NoProc = NoProc
    Orphan = {"apply", "rollback", "verify"}
    Inspect = TRUE
    Overlap = "none"
    LinkedAtStart = {TRUE, FALSE}
    MaxRev = 5
    MaxStops = 2
SYMMETRY Processes
INVARIANTS
    WriteAhead
    SnapshotFaithful
    FingerprintProves
PROPERTIES
    RestoreLosesNothing
    GpoIsProtected
