SPECIFICATION FairSpec
CONSTANTS
    g1 = g1
    Gpo = {g1}
    change = change
    check = check
    Job = {change, check}
    NoJob = NoJob
    p1 = p1
    Plan = {p1}
    NoPlan = NoPlan
    GpoOf <- MCGpoOf
    Fresh <- MCFresh
    Request <- MCRequest
    Reader = Reader
    Client = {}
    DirectCalls <- MCDirectCalls
    MaxUnfinished = 2
    QueueBound = 2
    EarlySubmit = FALSE
    DbMayFail = FALSE
    MaxDown = 1
PROPERTIES
    CustodyKept
    AcceptedIsClosed
    SkippedNeverCompleted
INVARIANTS
    IInv
    NoOrphanJob
