SPECIFICATION Spec
CONSTANTS
    None = None
    Main = Main
    Users = {u1}
    Stocks = {s1}
    Prices = {2}
    Deposits = {}
    MaxFunds = 6
    Debts = {}
    BuyIds = {}
    Amounts = {2}
    SellIds = {x1, x2, x3}
    AutoAmounts = {1, 2}
    Triggers = {1, 3}
    Lots = {1}
    MaxShares = 3
    Commands = {"set_sell", "cancel_set_sell", "trade"}
    Overlapping = {}
    CanRaise = FALSE
    CanRestart = FALSE
SYMMETRY Symmetry
INVARIANTS
    WealthKept
    OfferedTogether
