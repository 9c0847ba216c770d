\* One connection at a time to one of the four servers, with a stop at any time.
\* Connections end, so deadlock is not an error.
SPECIFICATION FairSpec
CONSTANTS
    REDIRECT_TIMEOUT = 2
    MaxPackets = 3
    HEADER = 2
    WIDTH = 13
    TLM3_KEY <- MCKey
    TLM3 = 84
    Events <- MCEvents
    MaxEvents = 2
    Statuses = {"OK", "NotFound"}
    MaxRequests = 3
INVARIANTS
    Inv
    TimesOutWhenSilent
    EventsInOrder
PROPERTIES
    EventsTried
    ConnectionsEnd
CHECK_DEADLOCK FALSE
