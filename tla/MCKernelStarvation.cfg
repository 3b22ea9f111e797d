SPECIFICATION FairSpec
CONSTANTS
    MAX_PROCESSES = 5
    MAX_FDS = 3
    NHandles = 3
    NPipes = 1
    MAILBOX_ALLOC = 1
    MaxLen = 1
    MaxCount = 1
    Workload <- TalkWork
    KillTargets <- SafeKills
    SendTargets <- SafeSends
    DupTargets = {}
PROPERTY EveryReadyRuns
