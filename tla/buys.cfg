SPECIFICATION Spec
CONSTANTS
    None = None
    Main = Main
    Users = {u1, u2}
    BuyIds = {b1, b2, b3}
    Stocks = {s1}
    Prices = {2, 3}
    Debts = {1, 4}
    Deposits = {4}
    MaxFunds = 8
    CanRaise = TRUE
    CanRestart = TRUE
SYMMETRY Symmetry
INVARIANTS
    TypeOK
    SettledByOwnerOnly
    AvailableNonNegative
    Balanced
PROPERTIES
    Implements
