SPECIFICATION FairSpec
CONSTANTS
    None = None
    Main = Main
    Users = {u1}
    SellIds = {x1, x2, x3}
    Stocks = {s1}
    Prices = {2}
    Amounts = {2}
    Lots = {2}
    MaxShares = 2
    Deposits = {}
    MaxFunds = 4
    CanRaise = FALSE
    CanRestart = FALSE
INVARIANTS
    NeverOversold
    SharesBalanced
PROPERTIES
    StrandedOnlyByReplacement
    PendingResolved
