SPECIFICATION CasesSpec
CONSTANTS
    Users = {alice, bob}
    None = None
    Tokens = {"ape", "punk"}
    Coins = {"weth", "usdc"}
    Doors = {"save", "weth", "punk", "coin", "batch", "pool"}
    Amounts = {1, 3, 4}
    Cash = 5
    Liquidity = 3
    MaxDebt = 4
    Threshold = 2
    MaxBatch = 2
CHECK_DEADLOCK FALSE
SYMMETRY MCSymmetry
INVARIANTS
    GatewaysKeepNothing
    RepayAlwaysWorks
PROPERTIES
    NobodyActsForAnother
