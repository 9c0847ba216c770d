\* Three errors in a row end the loop, and there are iterations enough for a
\* success between errors.  It really ends, so deadlock is not an error.
SPECIFICATION FairSpec
CONSTANTS
    SOCKET_POOL_SIZE = 2
    MAX_ERROR_ATTEMPTS = 3
    MaxPools = 5
INVARIANTS
    Inv
    GivesUpAfterErrorsInARow
PROPERTIES
    PoolsAreReleased
    ServerKeepsTrying
CHECK_DEADLOCK FALSE
