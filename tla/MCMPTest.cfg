SPECIFICATION MPFairSpec
CONSTANTS
    MAX_PROCESSES = 5
    MAX_FDS = 3
    NHandles = 3
    NPipes = 1
    MAILBOX_ALLOC = 2
    MaxLen = 1
    MaxCount = 1
    Workload <- Calls
    KillTargets <- Conditions
    SendTargets <- Conditions
    DupTargets = {}
    PINGS = 2
    NSLAVES = 2
    RING_SIZE = 2
    RING_MAX_PASSES = 3
    Tests = {"nb_simple", "advanced", "multiple", "b_simple", "ping_pong", "broadcast", "ring", "quit"}
INVARIANTS NoneFails CleanAtMenu OneToken
PROPERTY TestsEnd
