SPECIFICATION Spec
CONSTANTS
    Hosts <- Trees
    Proc = {1, 2}
    First = 1
    MAX_FDS = 2
    PATH_MAX = 5
    NHandles = 2
    Path <- Paths
    OpenPath <- OpenPaths
    ChdirPath <- ChdirPaths
INVARIANTS ImagePartitioned StatAgrees CwdCanonical PathsFit ReadsInOrder
