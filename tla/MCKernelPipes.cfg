SPECIFICATION Spec
CONSTANTS
    MAX_PROCESSES = 3
    MAX_FDS = 3
    NHandles = 3
    NPipes = 2
    MAILBOX_ALLOC = 1
    MaxLen = 1
    MaxCount = 1
    Workload <- PipeWork
    KillTargets <- SafeKills
    SendTargets <- SafeSends
    DupTargets = {0, 1}
INVARIANTS NoPanic NoLostWakeup BlockedReaderHoldsPipe PipeEndsExact RefcountExact
