SPECIFICATION Spec
CONSTANTS
    g1 = g1
    Gpo = {g1}
    a1 = a1
    a2 = a2
    scan1 = scan1
    Job = {a1, a2, scan1}
    NoJob = NoJob
    p1 = p1
    Plan = {p1}
    NoPlan = NoPlan
    GpoOf <- MCGpoOf
    Fresh <- MCFresh
    Request <- MCRequest
    Reader = Reader
    Client = {}
    DirectCalls <- MCDirectCalls
    MaxUnfinished = 2
    QueueBound = 2
    EarlySubmit = TRUE
    DbMayFail = TRUE
    MaxDown = 1
PROPERTIES
    RecordBeforeProcessing
