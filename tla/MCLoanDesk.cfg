SPECIFICATION UsersSpec
CONSTANTS
    chog = chog
    skrumpeys = skrumpeys
    first = first
    second = second
    Accounts = {alice}
    Pool = Pool
    None = None
    Collections = {chog, skrumpeys}
    Amounts = {1, 2}
    Quote <- MCQuote
    Flows <- MCFlows
    Kinds = {"terms", "borrow", "repay", "supply"}
    MaxPositions = 2
    MaxTxs = 4
    MaxDebt = 2
    MaxReloads = 1
CHECK_DEADLOCK FALSE
INVARIANTS
    PositionsMatchLoans
    
PROPERTIES
    WaitSettles
