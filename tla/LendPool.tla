------------------------------ MODULE LendPool ------------------------------
(***************************************************************************)
(* The lending pool (protocol/LendPool.sol with SupplyLogic, BorrowLogic,  *)
(* LiquidateLogic, ValidationLogic and GenericLogic), composed with the    *)
(* loan ledger, the bNFTs, the bToken and debt token balances and the      *)
(* interest accrual of the reserves.                                       *)
(*                                                                         *)
(* One action is one transaction: the pool's entry points are nonReentrant *)
(* and a failed require undoes everything, so a transaction either takes   *)
(* place as a whole or not at all.  What interleaves is the transactions   *)
(* of different users, price updates, pauses and the passing of time.      *)
(*                                                                         *)
(* Users are assumed to have the reserve tokens they send and to have      *)
(* approved the pool; a transfer they cannot pay reverts, which is the     *)
(* step not being taken.  So who pays (the initiator) only matters where   *)
(* the code looks at it: in borrow.                                        *)
(***************************************************************************)
EXTENDS LendPoolLoan, ReserveLogic, FiniteSetsExt

CONSTANTS
    Treasury,               \* receiver of the reserve factor's share
    \* configuration of the NFT collections (percentages of 10000)
    LTV, LiquidationThreshold, LiquidationBonus,
    RedeemFine, RedeemThreshold, MinBidFine,
    RedeemDuration, AuctionDuration,
    MaxCollateralCap,       \* loans a collection may secure at a time
    CollateralIds,          \* token ids up to maxTokenId
    \* configuration of the reserves
    ReserveUnit,            \* 10 ** decimals
    ReservePrice,           \* price of a ReserveUnit in wei of ether
    ETHER,                  \* 1 ether in wei
    MaxUtilizationRate

ASSUME PoolAssumption ==
    /\ IsFiniteSet(Users)           \* addresses have 160 bits
    /\ Treasury \notin Users
    /\ {LTV, LiquidationThreshold} \subseteq 1..PERCENTAGE_FACTOR
    /\ {LiquidationBonus, RedeemFine, RedeemThreshold, MinBidFine}
            \subseteq 0..PERCENTAGE_FACTOR
    /\ {RedeemDuration, AuctionDuration, MaxCollateralCap, MaxUtilizationRate}
            \subseteq Nat
    /\ CollateralIds \subseteq TokenIds
    /\ {ReserveUnit, ETHER} \subseteq Nat \ {0}
    /\ ReservePrice \in [Reserves -> Nat \ {0}]

VARIABLES
    reserves,           \* _reserves
    bToken,             \* scaled bToken balances
    debtToken,          \* scaled debt token balances
    debtSupply,         \* scaledTotalSupply of the debt token
    borrowAllowances,   \* _borrowAllowances of the debt token
    cash,               \* underlying owned by the bToken contract
    escrow,             \* underlying owned by the pool: the highest bids
    flags,              \* configuration flags of reserves and collections
    oracle,             \* what NFTOracle answers for a collection
    paused, pauseStartTime, pauseDurationTime,
    now                 \* block.timestamp

moneyVars == <<reserves, bToken, debtToken, debtSupply, cash, escrow>>
pauseVars == <<paused, pauseStartTime, pauseDurationTime>>
poolVars == <<moneyVars, borrowAllowances, flags, oracle, pauseVars, now>>
vars == <<loanVars, poolVars>>

TypeOK ==
    /\ LoanTypeOK
    /\ reserves \in [Reserves -> ReserveData]
    /\ bToken \in [Reserves -> [Users \cup {Treasury} -> Nat]]
    /\ debtToken \in [Reserves -> [Users -> Nat]]
    /\ debtSupply \in [Reserves -> Nat]
    /\ borrowAllowances \in [Reserves -> [Users -> [Users -> Nat]]]
    /\ cash \in [Reserves -> Nat]
    /\ escrow \in [Reserves -> Nat]
    /\ flags \in [active : SUBSET Reserves, frozen : SUBSET Reserves,
                  borrowing : SUBSET Reserves, nftActive : SUBSET NftAssets,
                  nftFrozen : SUBSET NftAssets]
    /\ oracle \in [NftAssets -> [price : Nat, stale : BOOLEAN]]
    /\ paused \in BOOLEAN
    /\ pauseStartTime \in Nat
    /\ pauseDurationTime \in Nat
    /\ now \in Nat

\* Reserves and collections are initialised, active and borrowable, and no
\* transaction has happened yet
Init ==
    /\ LoanInit
    /\ reserves = [r \in Reserves |-> NewReserve]
    /\ bToken = [r \in Reserves |-> [u \in Users \cup {Treasury} |-> 0]]
    /\ debtToken = [r \in Reserves |-> [u \in Users |-> 0]]
    /\ debtSupply = [r \in Reserves |-> 0]
    /\ borrowAllowances = [r \in Reserves |-> [u \in Users |-> [v \in Users |-> 0]]]
    /\ cash = [r \in Reserves |-> 0]
    /\ escrow = [r \in Reserves |-> 0]
    /\ flags = [active |-> Reserves, frozen |-> {}, borrowing |-> Reserves,
                nftActive |-> NftAssets, nftFrozen |-> {}]
    /\ oracle \in [NftAssets -> {[price |-> p, stale |-> FALSE] : p \in Amounts}]
    /\ paused = FALSE
    /\ pauseStartTime = 0
    /\ pauseDurationTime = 0
    /\ now = 1

-----------------------------------------------------------------------------
(***************************************************************************)
(* Reserve state and token balances.                                       *)
(***************************************************************************)
\* The reserve after updateState at the current block
Accrued(r) == UpdateIndexes(reserves[r], debtSupply[r], now)

BorrowIndex(r) == Accrued(r).variableBorrowIndex

\* bToken balances after updateState, which may mint to the treasury
BTokenAccrued(r) ==
    [bToken[r] EXCEPT ![Treasury] =
        @ + MintToTreasury(reserves[r], Accrued(r), debtSupply[r])]

\* updateState and updateInterestRates around an operation after which the
\* reserve has this scaled debt and cash
SettleReserve(r, scaledDebt, liquidity) ==
    /\ reserves' = [reserves EXCEPT ![r] =
            UpdateInterestRates(Accrued(r), scaledDebt, liquidity)]
    /\ debtSupply' = [debtSupply EXCEPT ![r] = scaledDebt]
    /\ cash' = [cash EXCEPT ![r] = liquidity]

\* DebtToken.mint, without its allowance check
MintDebt(r, user, amount) ==
    /\ RayDiv(amount, BorrowIndex(r)) # 0
    /\ debtToken' = [debtToken EXCEPT ![r][user] = @ + RayDiv(amount, BorrowIndex(r))]

\* Fault: the debt token is burned at the index before the accrual
BurnDebtStale(r, user, amount) ==
    LET amountScaled == RayDiv(amount, reserves[r].variableBorrowIndex) IN
    /\ amountScaled # 0
    /\ amountScaled <= debtToken[r][user]
    /\ debtToken' = [debtToken EXCEPT ![r][user] = @ - amountScaled]

\* DebtToken.burn
BurnDebt(r, user, amount) ==
    /\ RayDiv(amount, BorrowIndex(r)) # 0
    /\ RayDiv(amount, BorrowIndex(r)) <= debtToken[r][user]
    /\ RayDiv(amount, BorrowIndex(r)) <= debtSupply[r]
    /\ debtToken' = [debtToken EXCEPT ![r][user] = @ - RayDiv(amount, BorrowIndex(r))]

\* _decreaseBorrowAllowance, only called when somebody else borrows
SpendAllowance(r, initiator, onBehalfOf, amount) ==
    IF initiator = onBehalfOf THEN UNCHANGED borrowAllowances
    ELSE /\ borrowAllowances[r][onBehalfOf][initiator] >= amount
         /\ borrowAllowances' =
                [borrowAllowances EXCEPT ![r][onBehalfOf][initiator] = @ - amount]

(***************************************************************************)
(* Valuation (GenericLogic): amounts in units of the reserve.              *)
(***************************************************************************)
NftPriceInReserve(asset, r) == (oracle[asset].price * ReserveUnit) \div ReservePrice[r]

BorrowAmount(loanId) ==
    RayMul(loans[loanId].scaledAmount, BorrowIndex(loans[loanId].reserveAsset))

ThresholdPrice(asset, r) == PercentMul(NftPriceInReserve(asset, r), LiquidationThreshold)

LiquidatePrice(asset, r, borrowAmount) ==
    LET discounted == PercentMul(NftPriceInReserve(asset, r),
                                 PERCENTAGE_FACTOR - LiquidationBonus)
    IN  IF discounted < borrowAmount THEN borrowAmount ELSE discounted

HealthFactorAboveOne(collateral, debt) ==
    debt # 0 => WadDiv(PercentMul(collateral, LiquidationThreshold), debt) > WAD

\* Fault: the whole collateral may be borrowed against
WithinCollateral(collateral, debt) == debt <= collateral

WithinLTV(collateral, debt) == PercentDiv(debt, LTV) <= collateral

BidFine(r, borrowAmount) ==
    LET minBidFine == PercentMul((ETHER * ReserveUnit) \div ReservePrice[r], MinBidFine)
        fine == PercentMul(borrowAmount, RedeemFine)
    IN  IF fine < minBidFine THEN minBidFine ELSE fine

\* Fault: a pause in the block of the first bid does not count
ExtraDurationStrictly(loan) ==
    IF pauseDurationTime > 0 /\ loan.bidStartTimestamp < pauseStartTime
    THEN pauseDurationTime ELSE 0

\* Fault: pauses do not count
NoExtraDuration(loan) == 0

\* The time a pause added to the windows of an auction
ExtraDuration(loan) ==
    IF pauseDurationTime > 0 /\ loan.bidStartTimestamp <= pauseStartTime
    THEN pauseDurationTime ELSE 0

AuctionEnd(loan) == loan.bidStartTimestamp + ExtraDuration(loan) + AuctionDuration

\* Fault: pauses do not count for the borrower
RedeemEndOfUnpaused(loan) == loan.bidStartTimestamp + RedeemDuration

RedeemEnd(loan) == loan.bidStartTimestamp + ExtraDuration(loan) + RedeemDuration

BnftSupply(asset) == Cardinality({id \in TokenIds : Exists(<<asset, id>>)})

Usable(r, asset) == r \in flags.active /\ asset \in flags.nftActive

-----------------------------------------------------------------------------
(***************************************************************************)
(* Suppliers.                                                              *)
(***************************************************************************)
Deposit(r, onBehalfOf, amount) ==
    LET minted == RayDiv(amount, Accrued(r).liquidityIndex) IN
    /\ ~ paused
    /\ amount # 0
    /\ r \in flags.active /\ r \notin flags.frozen
    /\ minted # 0
    /\ SettleReserve(r, debtSupply[r], cash[r] + amount)
    /\ bToken' = [bToken EXCEPT ![r] = [BTokenAccrued(r) EXCEPT ![onBehalfOf] = @ + minted]]
    /\ UNCHANGED <<loanVars, debtToken, borrowAllowances, escrow, flags, oracle,
                   pauseVars, now>>

BTokenBalance(r, user) == RayMul(bToken[r][user], NormalizedIncome(reserves[r], now))

\* The amount is what withdraw was asked for, or the whole balance when it was
\* asked for type(uint256).max
Withdraw(r, user, amount) ==
    LET burned == RayDiv(amount, Accrued(r).liquidityIndex) IN
    /\ ~ paused
    /\ amount # 0
    /\ amount <= BTokenBalance(r, user)
    /\ r \in flags.active
    /\ amount <= cash[r]
    /\ burned # 0
    /\ burned <= BTokenAccrued(r)[user]
    /\ SettleReserve(r, debtSupply[r], cash[r] - amount)
    /\ bToken' = [bToken EXCEPT ![r] = [BTokenAccrued(r) EXCEPT ![user] = @ - burned]]
    /\ UNCHANGED <<loanVars, debtToken, borrowAllowances, escrow, flags, oracle,
                   pauseVars, now>>

\* transfer of bTokens between holders; finalizeTransfer needs the pool running
TransferBToken(r, from, to, amount) ==
    LET scaled == RayDiv(amount, NormalizedIncome(reserves[r], now))
        taken == [bToken[r] EXCEPT ![from] = @ - scaled]
    IN
    /\ ~ paused
    /\ scaled <= bToken[r][from]
    /\ bToken' = [bToken EXCEPT ![r] = [taken EXCEPT ![to] = @ + scaled]]
    /\ UNCHANGED <<loanVars, reserves, debtToken, debtSupply, cash, escrow,
                   borrowAllowances, flags, oracle, pauseVars, now>>

-----------------------------------------------------------------------------
(***************************************************************************)
(* Borrowers.                                                              *)
(***************************************************************************)
\* validateBorrow: the loan (0 for none), the flags and price of the collection,
\* the utilization after the borrow, the health before it and the debt after it
ValidateBorrow(r, onBehalfOf, nft, loanId, amount) ==
    LET debt == IF loanId = 0 THEN 0 ELSE BorrowAmount(loanId)
        collateral == NftPriceInReserve(nft[1], r)
        totalDebt == RayMul(debtSupply[r], BorrowIndex(r)) + amount
    IN  /\ amount > 0
        /\ loanId # 0 =>
              /\ loans[loanId].state = "Active"
              /\ loans[loanId].reserveAsset = r
              /\ loans[loanId].borrower = onBehalfOf
        /\ r \in flags.active /\ r \notin flags.frozen /\ r \in flags.borrowing
        /\ nft[1] \in flags.nftActive /\ nft[1] \notin flags.nftFrozen
        /\ ~ oracle[nft[1]].stale
        /\ RayDiv(totalDebt, cash[r] + totalDebt) <= MaxUtilizationRate
        /\ collateral > 0
        /\ HealthFactorAboveOne(collateral, debt)
        /\ WithinLTV(collateral, debt + amount)

Borrow(r, initiator, onBehalfOf, nft, amount) ==
    LET loanId == nftToLoanIds[nft] IN
    /\ ~ paused
    /\ nft[2] \in CollateralIds
    /\ ValidateBorrow(r, onBehalfOf, nft, loanId, amount)
    /\ \/ /\ loanId = 0
          /\ BnftSupply(nft[1]) < MaxCollateralCap
          /\ CreateLoan(initiator, onBehalfOf, nft, r, amount, BorrowIndex(r))
       \/ /\ loanId # 0
          /\ IncreaseLoan(loanId, amount, BorrowIndex(r))
    /\ SpendAllowance(r, initiator, onBehalfOf, amount)
    /\ MintDebt(r, onBehalfOf, amount)
    /\ amount <= cash[r]
    /\ SettleReserve(r, debtSupply[r] + RayDiv(amount, BorrowIndex(r)), cash[r] - amount)
    /\ bToken' = [bToken EXCEPT ![r] = BTokenAccrued(r)]
    /\ UNCHANGED <<escrow, flags, oracle, pauseVars, now>>

\* Fault: the debt repaid is that of the last accrual
StaleRepayAmount(loanId, amount) ==
    IF amount < BorrowAmount(loanId) THEN amount
    ELSE RayMul(loans[loanId].scaledAmount,
                reserves[loans[loanId].reserveAsset].variableBorrowIndex)

\* An amount below the debt repays in part, any other repays the debt exactly
RepayAmount(loanId, amount) ==
    IF amount < BorrowAmount(loanId) THEN amount ELSE BorrowAmount(loanId)

Repay(nft, amount) ==
    LET loanId == nftToLoanIds[nft]
        r == loans[loanId].reserveAsset
        repayAmount == RepayAmount(loanId, amount)
    IN  /\ ~ paused
        /\ loanId # 0
        /\ Usable(r, nft[1])
        /\ amount > 0 /\ BorrowAmount(loanId) > 0
        /\ loans[loanId].state = "Active"
        /\ IF amount < BorrowAmount(loanId)
           THEN DecreaseLoan(loanId, repayAmount, BorrowIndex(r))
           ELSE RepayLoan(loanId)
        /\ BurnDebt(r, loans[loanId].borrower, repayAmount)
        /\ SettleReserve(r, debtSupply[r] - RayDiv(repayAmount, BorrowIndex(r)),
                         cash[r] + repayAmount)
        /\ bToken' = [bToken EXCEPT ![r] = BTokenAccrued(r)]
        /\ UNCHANGED <<borrowAllowances, escrow, flags, oracle, pauseVars, now>>

ApproveDelegation(r, delegator, delegatee, amount) ==
    /\ borrowAllowances' = [borrowAllowances EXCEPT ![r][delegator][delegatee] = amount]
    /\ UNCHANGED <<loanVars, moneyVars, flags, oracle, pauseVars, now>>

-----------------------------------------------------------------------------
(***************************************************************************)
(* Auctions.  Repay, redeem and liquidate read the loan (loanData) before  *)
(* the ledger resets it; the payments use that copy, as loans[loanId] does *)
(* here.                                                                   *)
(***************************************************************************)
\* Fault: any loan can be put up for auction
OpeningBidOnAny(loanId, bidPrice) ==
    bidPrice >= LiquidatePrice(loans[loanId].nft[1], loans[loanId].reserveAsset,
                               BorrowAmount(loanId))

OpeningBid(loanId, bidPrice) ==
    LET asset == loans[loanId].nft[1]
        r == loans[loanId].reserveAsset
    IN  /\ BorrowAmount(loanId) > ThresholdPrice(asset, r)
        /\ bidPrice >= LiquidatePrice(asset, r, BorrowAmount(loanId))

RaisingBid(loanId, bidPrice) ==
    /\ now <= AuctionEnd(loans[loanId])
    /\ bidPrice >= loans[loanId].bidPrice + PercentMul(BorrowAmount(loanId), ONE_PERCENT)

\* Fault: the outbid bidder is forgotten
NoRefund(loan) == 0

\* What the outbid bidder gets back
Refund(loan) == IF loan.bidderAddress # NoUser THEN loan.bidPrice ELSE 0

Auction(nft, onBehalfOf, bidPrice) ==
    LET loanId == nftToLoanIds[nft]
        loan == loans[loanId]
        r == loan.reserveAsset
        borrowAmount == BorrowAmount(loanId)
    IN  /\ ~ paused
        /\ loanId # 0
        /\ Usable(r, nft[1])
        /\ loan.state \in {"Active", "Auction"}
        /\ bidPrice > 0
        /\ bidPrice >= borrowAmount
        /\ IF loan.state = "Active" THEN OpeningBid(loanId, bidPrice)
                                    ELSE RaisingBid(loanId, bidPrice)
        /\ AuctionLoan(loanId, onBehalfOf, bidPrice, borrowAmount, now)
        /\ escrow' = [escrow EXCEPT ![r] = @ + bidPrice - Refund(loan)]
        /\ SettleReserve(r, debtSupply[r], cash[r])
        /\ bToken' = [bToken EXCEPT ![r] = BTokenAccrued(r)]
        /\ UNCHANGED <<debtToken, borrowAllowances, flags, oracle, pauseVars, now>>

\* The fine goes from the caller to the first bidder, past the pool's books
Redeem(nft, amount, bidFine) ==
    LET loanId == nftToLoanIds[nft]
        loan == loans[loanId]
        r == loan.reserveAsset
        borrowAmount == BorrowAmount(loanId)
    IN  /\ ~ paused
        /\ loanId # 0
        /\ Usable(r, nft[1])
        /\ loan.state = "Auction"
        /\ loan.bidderAddress # NoUser
        /\ amount > 0
        /\ now <= RedeemEnd(loan)
        /\ BidFine(r, borrowAmount) <= bidFine
        /\ amount >= PercentMul(borrowAmount, RedeemThreshold)
        /\ amount <= PercentMul(borrowAmount, PERCENTAGE_FACTOR - TEN_PERCENT)
        /\ RedeemLoan(loanId, amount, BorrowIndex(r))
        /\ BurnDebt(r, loan.borrower, amount)
        /\ escrow[r] >= loan.bidPrice
        /\ escrow' = [escrow EXCEPT ![r] = @ - loan.bidPrice]
        /\ SettleReserve(r, debtSupply[r] - RayDiv(amount, BorrowIndex(r)),
                         cash[r] + amount)
        /\ bToken' = [bToken EXCEPT ![r] = BTokenAccrued(r)]
        /\ UNCHANGED <<borrowAllowances, flags, oracle, pauseVars, now>>

\* Fault: the liquidator is not asked for what the bid lacks
NothingExtra(loan, borrowAmount) == 0

\* What the caller adds because the highest bid lacks it, and what the borrower
\* gets because the highest bid exceeds the debt by it
ExtraDebtAmount(loan, borrowAmount) ==
    IF loan.bidPrice < borrowAmount THEN borrowAmount - loan.bidPrice ELSE 0

RemainAmount(loan, borrowAmount) ==
    IF loan.bidPrice > borrowAmount THEN loan.bidPrice - borrowAmount ELSE 0

Liquidate(nft, amount) ==
    LET loanId == nftToLoanIds[nft]
        loan == loans[loanId]
        r == loan.reserveAsset
        borrowAmount == BorrowAmount(loanId)
        extraDebtAmount == ExtraDebtAmount(loan, borrowAmount)
        remainAmount == RemainAmount(loan, borrowAmount)
    IN  /\ ~ paused
        /\ loanId # 0
        /\ Usable(r, nft[1])
        /\ loan.state = "Auction"
        /\ loan.bidderAddress # NoUser
        /\ now > AuctionEnd(loan)
        /\ amount >= extraDebtAmount
        /\ LiquidateLoan(loanId, borrowAmount)
        /\ BurnDebt(r, loan.borrower, borrowAmount)
        /\ escrow[r] + extraDebtAmount >= borrowAmount + remainAmount
        /\ escrow' = [escrow EXCEPT ![r] = @ + extraDebtAmount - borrowAmount - remainAmount]
        /\ SettleReserve(r, debtSupply[r] - RayDiv(borrowAmount, BorrowIndex(r)),
                         cash[r] + borrowAmount)
        /\ bToken' = [bToken EXCEPT ![r] = BTokenAccrued(r)]
        /\ UNCHANGED <<borrowAllowances, flags, oracle, pauseVars, now>>

-----------------------------------------------------------------------------
(***************************************************************************)
(* Pauses, prices and time.                                                *)
(***************************************************************************)
SetPause(val) ==
    /\ paused # val
    /\ ~ val => pauseStartTime <= now     \* else the subtraction reverts
    /\ paused' = val
    /\ pauseStartTime' = IF val THEN now ELSE pauseStartTime
    /\ pauseDurationTime' = IF val THEN pauseDurationTime ELSE now - pauseStartTime
    /\ UNCHANGED <<loanVars, moneyVars, borrowAllowances, flags, oracle, now>>

SetPausedTime(startTime, durationTime) ==
    /\ pauseStartTime' = startTime
    /\ pauseDurationTime' = durationTime
    /\ UNCHANGED <<loanVars, moneyVars, borrowAllowances, flags, oracle, paused, now>>

\* NFTOracle reports a new price for the collection, or marks it stale
SetOracle(asset, reading) ==
    /\ oracle' = [oracle EXCEPT ![asset] = reading]
    /\ UNCHANGED <<loanVars, moneyVars, borrowAllowances, flags, pauseVars, now>>

Tick ==
    /\ now' = now + 1
    /\ UNCHANGED <<loanVars, moneyVars, borrowAllowances, flags, oracle, pauseVars>>

-----------------------------------------------------------------------------
(***************************************************************************)
(* Configuration flags (LendPoolConfigurator).                             *)
(***************************************************************************)
Flagged(set, x, flag) == IF flag THEN set \cup {x} ELSE set \ {x}

\* Fault: only the cash is looked at
CheckReserveNoCash(r) == cash[r] = 0

CheckReserveNoLiquidity(r) == cash[r] = 0 /\ reserves[r].currentLiquidityRate = 0

CheckNftNoLiquidity(asset) == nftTotalCollateral[asset] = 0

SetActiveFlagOnReserve(r, flag) ==
    /\ ~ flag => CheckReserveNoLiquidity(r)
    /\ flags' = [flags EXCEPT !.active = Flagged(@, r, flag)]

SetFreezeFlagOnReserve(r, flag) == flags' = [flags EXCEPT !.frozen = Flagged(@, r, flag)]

SetBorrowingFlagOnReserve(r, flag) ==
    flags' = [flags EXCEPT !.borrowing = Flagged(@, r, flag)]

SetActiveFlagOnNft(asset, flag) ==
    /\ ~ flag => CheckNftNoLiquidity(asset)
    /\ flags' = [flags EXCEPT !.nftActive = Flagged(@, asset, flag)]

SetFreezeFlagOnNft(asset, flag) ==
    flags' = [flags EXCEPT !.nftFrozen = Flagged(@, asset, flag)]

ConfigureFlags ==
    /\ \E flag \in BOOLEAN :
          \/ \E r \in Reserves : \/ SetActiveFlagOnReserve(r, flag)
                                \/ SetFreezeFlagOnReserve(r, flag)
                                \/ SetBorrowingFlagOnReserve(r, flag)
          \/ \E asset \in NftAssets : \/ SetActiveFlagOnNft(asset, flag)
                                     \/ SetFreezeFlagOnNft(asset, flag)
    /\ UNCHANGED <<loanVars, moneyVars, borrowAllowances, oracle, pauseVars, now>>

-----------------------------------------------------------------------------
(***************************************************************************)
(* The next-state relation over the inputs an instance offers.             *)
(***************************************************************************)
CONSTANTS
    DepositAmounts, WithdrawAmounts, TransferAmounts,
    BorrowAmounts, RepayAmounts, Delegations,
    BidPrices, BidFines, ExtraAmounts,
    OracleReadings, PausedTimes,
    MaxTime,            \* bound on the block time
    LastPause,          \* the last time at which a pause may begin
    MaxDeposits,        \* bound on cash and scaled debt after a deposit
    WithdrawsAll,       \* whether withdraw is called with type(uint256).max
    Configures,         \* whether the administrator changes flags
    Moves               \* whether NFTs and lockers act outside the pool

ASSUME InputAssumption ==
    /\ UNION {DepositAmounts, WithdrawAmounts, TransferAmounts, BorrowAmounts,
              RepayAmounts, Delegations, BidPrices, BidFines, ExtraAmounts}
         \subseteq Nat
    /\ OracleReadings \subseteq [price : Nat, stale : BOOLEAN]
    /\ PausedTimes \subseteq Nat \X Nat
    /\ {MaxTime, LastPause, MaxDeposits} \subseteq Nat
    /\ {Configures, Moves, WithdrawsAll} \subseteq BOOLEAN

SupplyNext ==
    \E r \in Reserves, u \in Users :
        \/ \E a \in DepositAmounts :
              cash[r] + debtSupply[r] + a <= MaxDeposits /\ Deposit(r, u, a)
        \/ \E a \in WithdrawAmounts : Withdraw(r, u, a)
        \/ WithdrawsAll /\ Withdraw(r, u, BTokenBalance(r, u))
        \/ \E v \in Users, a \in TransferAmounts : TransferBToken(r, u, v, a)
        \/ \E a \in TransferAmounts : TransferBToken(r, Treasury, u, a)

LoanNextOfPool ==
    \E nft \in Nfts :
        \/ \E r \in Reserves, i \in Users, u \in Users, a \in BorrowAmounts :
              Borrow(r, i, u, nft, a)
        \/ \E a \in RepayAmounts : Repay(nft, a)
        \/ \E u \in Users, p \in BidPrices : Auction(nft, u, p)
        \/ \E a \in RepayAmounts, f \in BidFines : Redeem(nft, a, f)
        \/ \E a \in ExtraAmounts : Liquidate(nft, a)

EnvironmentNext ==
    \/ now < MaxTime /\ Tick
    \/ \E val \in BOOLEAN : (val => now <= LastPause) /\ SetPause(val)
    \/ \E p \in PausedTimes : SetPausedTime(p[1], p[2])
    \/ \E asset \in NftAssets, x \in OracleReadings : SetOracle(asset, x)
    \/ \E r \in Reserves, u \in Users, v \in Users, a \in Delegations :
          ApproveDelegation(r, u, v, a)
    \/ Configures /\ ConfigureFlags
    \/ Moves /\ ExternalNext /\ UNCHANGED poolVars

Next == SupplyNext \/ LoanNextOfPool \/ EnvironmentNext

Spec == Init /\ [][Next]_vars

-----------------------------------------------------------------------------
(***************************************************************************)
(* Properties.                                                             *)
(***************************************************************************)
LoansIn(r, state) == {id \in DOMAIN loans : loans[id].state = state /\ loans[id].reserveAsset = r}

OpenLoansOf(r, user) ==
    {id \in OpenLoans : loans[id].reserveAsset = r /\ loans[id].borrower = user}

\* The pool owns exactly the highest bids of the running auctions.  Every outbid
\* bidder was paid back, redeeming and liquidating release the last bid, and the
\* pool never pays one auction with the bid of another.
EscrowCoversBids ==
    \A r \in Reserves :
        escrow[r] = SumFunction([id \in LoansIn(r, "Auction") |-> loans[id].bidPrice])

\* Two contracts keep the debt: what a user owes in debt tokens is the sum of the
\* scaled amounts of the user's open loans, although the one is counted per user
\* and rounded at every mint and burn and the other per loan.
DebtBacksLoans ==
    \A r \in Reserves :
        /\ debtSupply[r] = SumFunction(debtToken[r])
        /\ \A u \in Users : debtToken[r][u] =
              SumFunction([id \in OpenLoansOf(r, u) |-> loans[id].scaledAmount])

\* A call that takes the NFT out of its auction or its loan for good
CanBeOutbid(nft) ==
    \E u \in Users :
        ENABLED Auction(nft, u, loans[nftToLoanIds[nft]].bidPrice
                                + BorrowAmount(nftToLoanIds[nft]) + 1)
CanBeLiquidated(nft) == ENABLED Liquidate(nft, BorrowAmount(nftToLoanIds[nft]))
CanBeRepaid(nft) == ENABLED Repay(nft, BorrowAmount(nftToLoanIds[nft]))

\* No collateral is locked up: while the pool is not paused, an auction can either
\* be outbid or be liquidated - never both, never neither - and an active loan can
\* be repaid as long as it owes something.  None of the checks of the ledger, the
\* bNFT, the debt token and the reserve, nor any flag an administrator may set,
\* refuses the call.
ExitOpen ==
    ~ paused =>
        \A id \in OpenLoans :
            IF loans[id].state = "Auction"
            THEN CanBeOutbid(loans[id].nft) # CanBeLiquidated(loans[id].nft)
            ELSE BorrowAmount(id) > 0 => CanBeRepaid(loans[id].nft)

\* The loans that executeAuction would let a bidder put up for auction
UnhealthyLoans ==
    {id \in DOMAIN loans :
        /\ loans[id].state = "Active"
        /\ BorrowAmount(id) > ThresholdPrice(loans[id].nft[1], loans[id].reserveAsset)}

\* Borrowing never produces a loan that could be put up for auction in the same
\* block, neither for the borrower nor for somebody who borrows on his behalf
\* ("a delegatee cannot force a delegator HF to go below 1").
BorrowLeavesHealthy ==
    [][ \A id \in UnhealthyLoans' :
          /\ id \in DOMAIN loans
          /\ loans'[id].scaledAmount <= loans[id].scaledAmount ]_vars

\* A loan leaves the books only when its debt has been paid to the suppliers in
\* full at the index of that block: by whoever repays it, or by the highest bid and
\* the liquidator together, even if the price has collapsed below the debt.
DebtPaidInFull ==
    [][ \A id \in OpenLoans :
          id \notin OpenLoans' =>
              LET r == loans[id].reserveAsset IN
              /\ cash'[r] = cash[r] + BorrowAmount(id)
              /\ debtSupply'[r] = debtSupply[r] - loans[id].scaledAmount ]_vars

\* An auction starts only on a loan whose debt, with the interest up to this block,
\* exceeds the liquidation threshold, and the first bid covers that debt.
OnlyUnhealthyOnSale ==
    [][ \A id \in OpenLoans :
          (loans[id].state = "Active" /\ loans'[id].state = "Auction") =>
              id \in UnhealthyLoans /\ loans'[id].bidPrice >= BorrowAmount(id) ]_vars

\* A reserve is deactivated only when nothing is owed to it and a collection only
\* when it secures no loan, so no loan is cut off from its repay, redeem and
\* liquidate, which all need an active reserve.  (A loan that was repaid down to a
\* scaled amount of zero keeps its collateral but no longer its reserve active.)
InactiveMeansUnused ==
    \A id \in OpenLoans :
        /\ loans[id].scaledAmount # 0 => loans[id].reserveAsset \in flags.active
        /\ loans[id].nft[1] \in flags.nftActive

\* A supplier whose balance is in the pool can take all of it out at once: the
\* balance that balanceOf shows, from the income projected to this block, is
\* exactly what the accrual of withdraw itself lets him burn.
SuppliersCanLeave ==
    ~ paused =>
        \A r \in flags.active, u \in Users :
            BTokenBalance(r, u) \in 1..cash[r] => ENABLED Withdraw(r, u, BTokenBalance(r, u))

\* Within a block nothing anybody does moves what a supplier owns or a borrower
\* owes: accruing, then changing the rates, leaves both projected indexes alone,
\* so nobody gains by acting before or after another user in the same block.  The
\* debt may be different where suppliers earn nothing (a rate that rounds to zero,
\* or goes to the treasury as a whole): getNormalizedVariableDebt then projects
\* interest that _updateIndexes does not add.
BlockFixesIndexes ==
    [][ now' = now =>
          \A r \in Reserves :
            /\ NormalizedIncome(reserves[r], now)' = NormalizedIncome(reserves[r], now)
            /\ debtSupply[r] # 0 /\ reserves[r].currentLiquidityRate # 0 =>
                  NormalizedDebt(reserves[r], now)' = NormalizedDebt(reserves[r], now) ]_vars
=============================================================================
