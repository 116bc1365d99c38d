SPECIFICATION MCSpec
CONSTANTS
    u = u
    v = v
    w = w
    o1 = o1
    o2 = o2
    None = None
    Same = Same
    PoolSize = 2
    MaxDepth = 3
    MaxCloses = 1
    StatusCodes = {404, 405, 500}
    Task <- MCTask
    Ids <- MCIds
    Titles <- MCTitles
    Initial <- MCInitial
    Requests <- MCRequests
INVARIANTS
    DbTypeOK
    BlocksOwnWhatTheyOpened
    OneEngine
    WaitsHoldNothing
    EveryErrorIsJson
PROPERTIES
    CallerDecides
    Implements
    EveryRequestIsAnswered
CHECK_DEADLOCK FALSE
