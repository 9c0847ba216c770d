\* A send that is Pending after the message was taken.
SPECIFICATION Spec
CONSTANTS
    SOCKET_POOL_SIZE = 1
    Indices = {0}
    MaxSent = 2
    MaxDatagrams = 1
    MaxTime = 0
INVARIANTS
    WriteStateHasMessage
CHECK_DEADLOCK FALSE
