SPECIFICATION Spec
CONSTANTS
    MAX_PROCESSES = 4
    MAX_FDS = 3
    NHandles = 3
    NPipes = 1
    MAILBOX_ALLOC = 2
    MaxLen = 1
    MaxCount = 1
    Workload <- ProcessWork
    KillTargets <- SafeKills
    SendTargets <- SafeSends
    DupTargets = {}
INVARIANTS TypeOK ListsConsistent CurrentValid ParentAlive WakersValid
