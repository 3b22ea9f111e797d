SPECIFICATION Spec
CONSTANTS
    MAX_PROCESSES = 3
    MAX_FDS = 3
    NHandles = 3
    NPipes = 1
    MAILBOX_ALLOC = 1
    MaxLen = 1
    MaxCount = 1
    Workload <- KillReadWork
    KillTargets <- KillReaders
    SendTargets <- SafeSends
    DupTargets = {}
INVARIANT NoPanic
