SPECIFICATION FairSpec
CONSTANTS
    None = None
    Main = Main
    Users = {u1}
    BuyIds = {b1, b2, b3}
    Stocks = {s1}
    Prices = {2}
    Debts = {1, 4}
    Deposits = {4}
    MaxFunds = 8
    CanRaise = FALSE
    CanRestart = FALSE
INVARIANTS
    PendingGuarded
    SharesPaidFor
PROPERTIES
    StrandedOnlyByReplacement
    PendingResolved
