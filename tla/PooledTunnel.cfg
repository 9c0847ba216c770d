\* One tunnel and one socket, two messages each way.  Keep-alives and frames for
\* other sockets are left to the run of TcpTunnel.
\* Both tasks really stop, so deadlock is not an error.
SPECIFICATION PairFairSpec
CONSTANTS
    SOCKET_POOL_SIZE = 1
    Indices = {0}
    MaxSent = 2
    MaxFrames = 2
    LENGTH = 1
INVARIANTS
    PairInv
PROPERTIES
    EndToEnd
    EndTogether
CHECK_DEADLOCK FALSE
