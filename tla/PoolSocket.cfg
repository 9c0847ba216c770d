\* Messages of two bytes, so that a send can take a part.  The task really
\* stops, so deadlock is not an error.
SPECIFICATION FairSpec
CONSTANTS
    LENGTH = 2
    MaxMessages = 3
    MaxDatagrams = 2
INVARIANTS
    Inv
    BytesInOrder
PROPERTIES
    SocketEnds
    QueueIsDrained
CHECK_DEADLOCK FALSE
