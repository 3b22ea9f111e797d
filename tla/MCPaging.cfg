SPECIFICATION Spec
CONSTANTS
    MaxPid = 3
    PAGE_SIZE = 2
    TableLength = 2
    TableCount = 4
    PAGE_START = 1
    TEXT_BASE = 2
    DATA_BASE = 4
    STACK_START = 6
    STACK_BASE = 7
    FileSizes <- MCFileSizes
    BrkArgs <- MCBrkArgs
    MaxCalls = 5
INVARIANTS
    NoPanic
    FramesDisjoint
    NoLeak
    SegmentsMapped
    ValidPointersMapped
CHECK_DEADLOCK FALSE
