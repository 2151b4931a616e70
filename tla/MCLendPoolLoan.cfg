SPECIFICATION LoanSpec
CONSTANTS
    RAY = 2
    WAD = 2
    SECONDS_PER_YEAR = 1
    alice = alice
    bob = bob
    azuki = azuki
    weth = weth
    guard = guard
    Users <- MCUsers
    NftAssets <- MCNftAssets
    TokenIds <- MCTokenIds
    t1 = t1
    t2 = t2
    LOAN = LOAN
    BNFT_CONTRACT = BNFT_CONTRACT
    NoUser = NoUser
    Lockers <- MCLockers
    Reserves <- MCReserves
    Amounts = {1, 2}
    BorrowIndexes = {2}
    Timestamps = {1}
    PurgeTargets <- MCLockers
    MaxLoans = 2
    MaxScaledAmount = 2
SYMMETRY Symmetry
INVARIANTS
    LoanTypeOK
    BnftBacked
    CollateralIndexed
    CollateralInCustody
    LockedWhileInAuction
    CollateralCounted
    BidFieldsMatchState
PROPERTIES
    LoanLifecycle
    BidsOnlyRise
    KeepsPromise
