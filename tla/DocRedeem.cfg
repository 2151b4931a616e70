SPECIFICATION Spec
CONSTANTS
    RAY = 10000
    WAD = 100
    SECONDS_PER_YEAR = 1
    alice = alice
    bob = bob
    azuki = azuki
    weth = weth
    Users <- MCUsers
    NftAssets <- MCNftAssets
    TokenIds = {1}
    LOAN = LOAN
    BNFT_CONTRACT = BNFT_CONTRACT
    NoUser = NoUser
    Lockers = {}
    Reserves <- MCReserves
    Amounts = {20}
    BorrowIndexes = {10000}
    Timestamps = {1}
    PurgeTargets = {}
    MaxLoans = 2
    MaxScaledAmount = 10
    ReserveFactor = 3000
    OPTIMAL_UTILIZATION_RATE = 6500
    BaseVariableBorrowRate = 1000
    VariableRateSlope1 = 1000
    VariableRateSlope2 = 3000
    Treasury = Treasury
    LTV = 4000
    LiquidationThreshold = 8000
    LiquidationBonus = 500
    RedeemFine = 500
    RedeemThreshold = 5000
    MinBidFine = 200
    RedeemDuration = 1
    AuctionDuration = 2
    MaxCollateralCap = 2
    CollateralIds = {1}
    ReserveUnit = 10
    ReservePrice <- MCReservePrice
    ETHER = 10
    MaxUtilizationRate = 8000
    DepositAmounts = {20}
    WithdrawAmounts = {}
    WithdrawsAll = FALSE
    TransferAmounts = {}
    BorrowAmounts = {8}
    RepayAmounts = {6, 50}
    Delegations = {}
    BidPrices = {14, 20}
    BidFines = {50}
    ExtraAmounts = {50}
    OracleReadings <- MCReadings
    PausedTimes <- NoTimes
    MaxTime = 5
    LastPause = 0
    MaxDeposits = 20
    Configures = FALSE
    Moves = FALSE
PROPERTY
    RedeemReturnsCollateral
