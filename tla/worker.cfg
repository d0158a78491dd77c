SPECIFICATION Spec
CONSTANTS
    None = None
    Main = Main
    Users = {u1}
    Stocks = {s1}
    Prices = {2}
    Deposits = {}
    MaxFunds = 5
    Debts = {2}
    BuyIds = {b1, b2}
    Amounts = {}
    SellIds = {}
    AutoAmounts = {1}
    Triggers = {1, 3}
    Lots = {}
    MaxShares = 3
    Commands = {"set_buy", "cancel_set_buy"}
    Overlapping = {"set_buy"}
    CanRaise = TRUE
    CanRestart = TRUE
SYMMETRY Symmetry
INVARIANTS
    TypeOK
    WealthKept
    ReservedTogether
