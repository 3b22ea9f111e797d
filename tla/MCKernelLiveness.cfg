SPECIFICATION FairSpec
CONSTANTS
    MAX_PROCESSES = 4
    MAX_FDS = 3
    NHandles = 3
    NPipes = 1
    MAILBOX_ALLOC = 1
    MaxLen = 1
    MaxCount = 1
    Workload <- LifeWork
    KillTargets <- SafeKills
    SendTargets <- SafeSends
    DupTargets = {}
INVARIANT RestartCompletes
PROPERTIES ZombieKept KernelReturns  WaitpidReturns
