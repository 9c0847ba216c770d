\* A pool of two sockets, one index of each kind a frame can have: both sockets,
\* an unknown index, keep-alive.  The tunnel really stops, so deadlock is not an
\* error.
SPECIFICATION FairSpec
CONSTANTS
    SOCKET_POOL_SIZE = 2
    Indices = {0, 1, 9, 255}
    MaxSent = 3
    MaxFrames = 2
INVARIANTS
    Inv
PROPERTIES
    RelaysBothWays
    AllSent
    TunnelEnds
CHECK_DEADLOCK FALSE
