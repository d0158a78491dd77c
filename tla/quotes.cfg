SPECIFICATION FairSpec
CONSTANTS
    None = None
    Threads = {main, poller}
    Stocks = {S, T}
    MaxQuotes = 3
    MaxFaults = 2
    MaxSockets = 4
INVARIANTS
    TypeOK
    OwnPrice
PROPERTIES
    Answered
CHECK_DEADLOCK FALSE
