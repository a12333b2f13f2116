SPECIFICATION Spec
CONSTANTS
    s1 = s1
    s2 = s2
    Supervisor = {s1, s2}
    FolderOf <- MCFolderOf
    Client = {}
    Pid = {1, 2}
    NoPid = 0
    MaxAttempts = 1
INVARIANTS
    SupervisedIsRegistered
