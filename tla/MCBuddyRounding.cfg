SPECIFICATION Spec
CONSTANTS
    LOWER = 1
    UPPER = 4
    MAXORDER = 5
    Requests <- MCRequests
    USERLAND = TRUE
INVARIANT
    RefusedOnlyWhenNoneFits
