SPECIFICATION Spec
CONSTANTS
    BUFSIZE = 3
    SCREEN_WIDTH = 4
    SCREEN_HEIGHT = 2
    TabStop = 2
    MAX_ARGS = 3
    Key <- Keys
    KEY_SHIFT = "shift"
    kbdmap <- Plain
    kbdmap_shift <- Shifted
    Kind <- Kinds
    MaxTyped = 5
INVARIANT LongLinesIgnored
CHECK_DEADLOCK FALSE
