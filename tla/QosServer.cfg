\* The server is started twice and has two handlers, and an address can expire;
\* the clock goes forth and back.
\* Tasks end, so deadlock is not an error.
SPECIFICATION ServerFairSpec
CONSTANTS
    Tasks = {a1, a2, h1, h2}
    Acceptors = {a1, a2}
    Main = main
    ADDR_CACHE_TIME = 1
    MaxTime = 1
INVARIANTS
    Inv
    LockInv
PROPERTIES
    AnswersAreRecent
    TakenTasksEnd
    EveryoneAnswered
CHECK_DEADLOCK FALSE
