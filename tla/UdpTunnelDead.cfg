\* A server that goes silent; the clock passes KEEP_ALIVE_TIMEOUT.
SPECIFICATION Spec
CONSTANTS
    SOCKET_POOL_SIZE = 1
    Indices = {0}
    MaxSent = 0
    MaxDatagrams = 0
    MaxTime = 6
PROPERTIES
    DeadConnectionStops
CHECK_DEADLOCK FALSE
