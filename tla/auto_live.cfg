SPECIFICATION FairSpec
CONSTANTS
    None = None
    Users = {u1, u2}
    Stocks = {s1}
    Prices = {2}
    Deposits = {}
    MaxFunds = 3
    AutoAmounts = {1}
    Triggers = {1, 2, 3}
    Lots = {1, 2}
    MaxShares = 2
    Commands = {"set_buy"}
    Overlapping = {"set_buy"}
    CanRaise = FALSE
    CanRestart = FALSE
PROPERTIES
    DueIsHandled
