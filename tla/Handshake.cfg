\* Three attempts, two ids; the clock stops at timers only.  The handshake ends,
\* so deadlock is not an error.
SPECIFICATION FairSpec
CONSTANTS
    MAX_HANDSHAKE_ATTEMPTS = 2
    HANDSHAKE_TIMEOUT = 1
    RETRY_DELAY = 1
    MaxIds = 2
    MaxInbox = 2
INVARIANTS
    Inv
    EndsInTime
PROPERTIES
    AnswersAreUsed
    HandshakeEnds
CHECK_DEADLOCK FALSE
