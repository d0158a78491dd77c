SPECIFICATION Spec
CONSTANTS
    None = None
    Main = Main
    Users = {u1}
    SellIds = {x1, x2, x3}
    Stocks = {s1, s2}
    Prices = {2}
    Amounts = {1, 2}
    Lots = {2}
    MaxShares = 2
    Deposits = {}
    MaxFunds = 6
    CanRaise = TRUE
    CanRestart = TRUE
SYMMETRY Symmetry
INVARIANTS
    TypeOK
    SettledByOwnerOnly
    WealthKept
