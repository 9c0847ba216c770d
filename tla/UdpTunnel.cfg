\* One socket, a forward for it and one for an index outside the pool, and a
\* clock that reaches a check.  The tunnel really stops, so deadlock is not an
\* error.
SPECIFICATION FairSpec
CONSTANTS
    SOCKET_POOL_SIZE = 1
    Indices = {0, 9}
    MaxSent = 2
    MaxDatagrams = 2
    MaxTime = 1
INVARIANTS
    Inv
PROPERTIES
    RelaysBothWays
    LosesOnlyTheMessageInHand
    EveryMessageSettled
    TunnelEnds
CHECK_DEADLOCK FALSE
