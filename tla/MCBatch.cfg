SPECIFICATION Spec
CONSTANTS
    g1 = g1
    Gpo = {g1}
    batch = batch
    recovery = recovery
    Job = {batch, recovery}
    NoJob = NoJob
    p1 = p1
    p2 = p2
    f2 = f2
    Plan = {p1, p2, f2}
    NoPlan = NoPlan
    GpoOf <- MCGpoOf
    Fresh <- MCFresh
    Request <- MCRequest
    Reader = Reader
    Client = {c1}
    DirectCalls <- MCDirectCalls
    MaxUnfinished = 4
    QueueBound = 16
    EarlySubmit = FALSE
    DbMayFail = FALSE
    MaxDown = 1
INVARIANTS
    GpoExclusive
    BatchStepsFollowPublished
PROPERTIES
    RecoveryCoversBatch
    CompletedMeansVerified
