SPECIFICATION FairSpec
CONSTANTS
    s1 = s1
    s2 = s2
    Supervisor = {s1, s2}
    FolderOf <- MCFolderOf
    Client = {c1}
    Pid = {1, 2}
    NoPid = 0
    MaxAttempts = 1
INVARIANTS
    LInv
    OneRuntime
    StopIsFinal
    BoundedRetries
PROPERTIES
    BusyEndsAreOverruled
    ConfirmedStopEnds
