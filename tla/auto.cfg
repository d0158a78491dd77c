SPECIFICATION Spec
CONSTANTS
    None = None
    Users = {u1}
    Stocks = {s1}
    Prices = {2}
    Deposits = {}
    MaxFunds = 4
    AutoAmounts = {1, 2}
    Triggers = {2}
    Lots = {1}
    MaxShares = 2
    Commands = {"set_buy", "cancel_set_buy", "set_sell", "cancel_set_sell", "trade"}
    Overlapping = {"set_buy", "set_sell", "cancel_set_sell", "trade"}
    CanRaise = TRUE
    CanRestart = TRUE
CONSTRAINT
    InRange
INVARIANTS
    TypeOK
    ReservedForBuy
PROPERTIES
    SetAsideStays
    EverySharePaid
