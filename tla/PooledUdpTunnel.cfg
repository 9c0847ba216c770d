\* One tunnel and one socket, two datagrams of the game and one of the server: a
\* forward, or a keep-alive whose reply can take the place of a message with another
\* behind it.  The order of two forwards and the clock are left to the run of
\* UdpTunnel.  Both tasks really stop, so deadlock is not an error.
SPECIFICATION PairSpec
CONSTANTS
    SOCKET_POOL_SIZE = 1
    Indices = {0}
    MaxSent = 2
    MaxDatagrams = 1
    MaxTime = 0
    LENGTH = 1
INVARIANTS
    PairInv
PROPERTIES
    EndToEnd
CHECK_DEADLOCK FALSE
