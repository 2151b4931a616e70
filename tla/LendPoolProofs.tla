---------------------------- MODULE LendPoolProofs ---------------------------
(***************************************************************************)
(* Theorems about the lending pool.                                        *)
(***************************************************************************)
EXTENDS LendPool, LendPoolLoanProofs

LEMMA ReserveShareNat == PERCENTAGE_FACTOR - ReserveFactor \in Nat
    BY RateAssumption DEF PERCENTAGE_FACTOR

LEMMA LiquidityRateUnfolded ==
    ASSUME NEW utilizationRate, NEW totalVariableDebt
    PROVE  LiquidityRate(utilizationRate, totalVariableDebt)
             = PercentMul(RayMul(OverallBorrowRate(totalVariableDebt,
                                                   VariableBorrowRate(utilizationRate)),
                                 utilizationRate),
                          PERCENTAGE_FACTOR - ReserveFactor)
    BY DEF LiquidityRate

\* No loan is forgotten when one is added.
LEMMA LoanAdded ==
    ASSUME loans \in Seq(LoanData), NEW loan, loans' = Append(loans, loan)
    PROVE  \A id \in DOMAIN loans : id \in DOMAIN loans' /\ loans'[id] = loans[id]
<1>1. Len(loans) \in Nat /\ DOMAIN loans = 1 .. Len(loans)
    BY LenProperties
<1>2. DOMAIN loans' = 1 .. Len(loans) + 1
    OBVIOUS
<1>3. \A id \in 1 .. Len(loans) : loans'[id] = loans[id]
    OBVIOUS
<1>4. 1 .. Len(loans) \subseteq 1 .. Len(loans) + 1
    BY <1>1
<1> QED
    BY <1>1, <1>2, <1>3, <1>4

USE MathAssumption, RateAssumption, AddressAssumption, LedgerAssumption,
    PoolAssumption, InputAssumption

-----------------------------------------------------------------------------
(***************************************************************************)
(* Interest: rates and indexes are naturals, and an index never falls.     *)
(***************************************************************************)
LEMMA LinearInterestGrows ==
    ASSUME NEW rate \in Nat, NEW exp \in Nat
    PROVE  LinearInterest(rate, exp) \in Nat /\ LinearInterest(rate, exp) >= RAY
<1>1. rate * exp \in Nat
    BY SMT
<1>2. (rate * exp) \div SECONDS_PER_YEAR \in Nat
    BY <1>1, DivNat
<1> QED
    BY <1>2 DEF LinearInterest

LEMMA CompoundedInterestGrows ==
    ASSUME NEW rate \in Nat, NEW exp \in Nat
    PROVE  CompoundedInterest(rate, exp) \in Nat /\ CompoundedInterest(rate, exp) >= RAY
<1> DEFINE perSecond == rate \div SECONDS_PER_YEAR
           second == RayMul(perSecond, perSecond)
           third == RayMul(second, perSecond)
           less == IF exp > 2 THEN exp - 2 ELSE 0
<1>1. CASE exp = 0
    BY <1>1 DEF CompoundedInterest
<1>2. CASE exp # 0
  <2>1. perSecond \in Nat
      BY DivNat
  <2>2. second \in Nat
      BY <2>1, RayMulNat
  <2>3. third \in Nat
      BY <2>1, <2>2, RayMulNat
  <2>4. less \in Nat
      OBVIOUS
  <2>5. exp * (exp - 1) \in Nat
      BY <1>2, SMT
  <2> HIDE DEF perSecond, second, third, less
  <2>6. perSecond * exp \in Nat
      BY <2>1, SMT
  <2>7. (exp * (exp - 1) * second) \div 2 \in Nat
    <3>1. exp * (exp - 1) * second \in Nat
      BY <2>2, <2>5, SMT
    <3> QED
      BY <3>1, DivNat
  <2>8. (exp * (exp - 1) * less * third) \div 6 \in Nat
    <3>1. exp * (exp - 1) * less \in Nat
      BY <2>4, <2>5, SMT
    <3>2. exp * (exp - 1) * less * third \in Nat
      BY <2>3, <3>1, SMT
    <3> QED
      BY <3>2, DivNat
  <2>9. CompoundedInterest(rate, exp) =
            RAY + perSecond * exp + (exp * (exp - 1) * second) \div 2
                + (exp * (exp - 1) * less * third) \div 6
      BY <1>2 DEF CompoundedInterest, perSecond, second, third, less
  <2> QED
      BY <2>6, <2>7, <2>8, <2>9
<1> QED
    BY <1>1, <1>2

LEMMA VariableBorrowRateNat ==
    ASSUME NEW utilizationRate \in Nat
    PROVE  VariableBorrowRate(utilizationRate) \in Nat
<1>1. CASE utilizationRate > OPTIMAL_UTILIZATION_RATE
  <2>1. /\ utilizationRate - OPTIMAL_UTILIZATION_RATE \in Nat
        /\ RAY - OPTIMAL_UTILIZATION_RATE \in Nat \ {0}
      BY <1>1
  <2>2. RayDiv(utilizationRate - OPTIMAL_UTILIZATION_RATE,
               RAY - OPTIMAL_UTILIZATION_RATE) \in Nat
      BY <2>1, RayDivNat
  <2>3. RayMul(VariableRateSlope2, RayDiv(utilizationRate - OPTIMAL_UTILIZATION_RATE,
                                          RAY - OPTIMAL_UTILIZATION_RATE)) \in Nat
      BY <2>2, RayMulNat
  <2> QED
      BY <1>1, <2>3 DEF VariableBorrowRate
<1>2. CASE ~ (utilizationRate > OPTIMAL_UTILIZATION_RATE)
  <2>1. OPTIMAL_UTILIZATION_RATE \in Nat \ {0}
      OBVIOUS
  <2>2. RayMul(utilizationRate, VariableRateSlope1) \in Nat
      BY RayMulNat
  <2>3. RayDiv(RayMul(utilizationRate, VariableRateSlope1), OPTIMAL_UTILIZATION_RATE) \in Nat
      BY <2>1, <2>2, RayDivNat
  <2> QED
      BY <1>2, <2>3 DEF VariableBorrowRate
<1> QED
    BY <1>1, <1>2

LEMMA LiquidityRateNat ==
    ASSUME NEW utilizationRate \in Nat, NEW totalVariableDebt \in Nat
    PROVE  LiquidityRate(utilizationRate, totalVariableDebt) \in Nat
<1> DEFINE rate == VariableBorrowRate(utilizationRate)
           overall == OverallBorrowRate(totalVariableDebt, rate)
<1>1. rate \in Nat
    BY VariableBorrowRateNat
<1> HIDE DEF rate
<1>2. overall \in Nat
  <2>1. CASE totalVariableDebt = 0
      BY <2>1 DEF OverallBorrowRate
  <2>2. CASE totalVariableDebt # 0
    <3>1. WadToRay(totalVariableDebt) \in Nat \ {0}
      BY <2>2, WadToRayNat
    <3>2. RayMul(WadToRay(totalVariableDebt), rate) \in Nat
      BY <1>1, <3>1, RayMulNat
    <3>3. RayDiv(RayMul(WadToRay(totalVariableDebt), rate),
                 WadToRay(totalVariableDebt)) \in Nat
      BY <3>1, <3>2, RayDivNat
    <3> QED
      BY <2>2, <3>3 DEF OverallBorrowRate
  <2> QED
      BY <2>1, <2>2
<1>6. LiquidityRate(utilizationRate, totalVariableDebt)
        = PercentMul(RayMul(overall, utilizationRate), PERCENTAGE_FACTOR - ReserveFactor)
    BY LiquidityRateUnfolded, Zenon DEF overall, rate
<1> HIDE DEF overall
<1>3. RayMul(overall, utilizationRate) \in Nat
    BY <1>2, RayMulNat
<1>4. PERCENTAGE_FACTOR - ReserveFactor \in Nat
    BY ReserveShareNat
<1>5. PercentMul(RayMul(overall, utilizationRate), PERCENTAGE_FACTOR - ReserveFactor) \in Nat
    BY <1>3, <1>4, PercentMulNat
<1> QED
    BY <1>5, <1>6

\* A reserve whose indexes have not fallen below their initial value
SoundReserve(rd, time) ==
    /\ rd \in ReserveData
    /\ rd.liquidityIndex >= RAY
    /\ rd.variableBorrowIndex >= RAY
    /\ rd.lastUpdateTimestamp <= time

LEMMA RatesKeepReserve ==
    ASSUME NEW time \in Nat, NEW rd, SoundReserve(rd, time),
           NEW scaledDebt \in Nat, NEW liquidity \in Nat
    PROVE  SoundReserve(UpdateInterestRates(rd, scaledDebt, liquidity), time)
<1> DEFINE total == RayMul(scaledDebt, rd.variableBorrowIndex)
           utilization == UtilizationRate(liquidity, total)
           liquidityRate == LiquidityRate(utilization, total)
           borrowRate == VariableBorrowRate(utilization)
<1>1. total \in Nat
    BY RayMulNat DEF SoundReserve, ReserveData
<1> HIDE DEF total
<1>2. utilization \in Nat
  <2>1. CASE total = 0
      BY <2>1 DEF UtilizationRate
  <2>2. CASE total # 0
    <3>1. liquidity + total \in Nat \ {0}
      BY <1>1, <2>2
    <3>2. RayDiv(total, liquidity + total) \in Nat
      BY <1>1, <3>1, RayDivNat
    <3> QED
      BY <2>2, <3>2 DEF UtilizationRate
  <2> QED
      BY <2>1, <2>2
<1> HIDE DEF utilization
<1>3. liquidityRate \in Nat /\ borrowRate \in Nat
    BY <1>1, <1>2, LiquidityRateNat, VariableBorrowRateNat
<1>4. UpdateInterestRates(rd, scaledDebt, liquidity) =
          [rd EXCEPT !.currentLiquidityRate = liquidityRate,
                     !.currentVariableBorrowRate = borrowRate]
    BY DEF UpdateInterestRates, utilization, total
<1> HIDE DEF liquidityRate, borrowRate
<1> QED
    BY <1>3, <1>4 DEF SoundReserve, ReserveData

LEMMA AccrualKeepsReserve ==
    ASSUME NEW time \in Nat, NEW rd, SoundReserve(rd, time), NEW scaledDebt \in Nat
    PROVE  LET new == UpdateIndexes(rd, scaledDebt, time) IN
           /\ SoundReserve(new, time)
           /\ new.liquidityIndex >= rd.liquidityIndex
           /\ new.variableBorrowIndex >= rd.variableBorrowIndex
<1> DEFINE exp == time - rd.lastUpdateTimestamp
           linear == LinearInterest(rd.currentLiquidityRate, exp)
           compounded == CompoundedInterest(rd.currentVariableBorrowRate, exp)
           grownL == RayMul(linear, rd.liquidityIndex)
           grownB == RayMul(compounded, rd.variableBorrowIndex)
<1>1. /\ exp \in Nat /\ rd.liquidityIndex \in Nat /\ rd.variableBorrowIndex \in Nat
      /\ rd.currentLiquidityRate \in Nat /\ rd.currentVariableBorrowRate \in Nat
    BY DEF SoundReserve, ReserveData
<1> HIDE DEF exp
<1>2. linear \in Nat /\ linear >= RAY /\ compounded \in Nat /\ compounded >= RAY
    BY <1>1, LinearInterestGrows, CompoundedInterestGrows
<1> HIDE DEF linear, compounded
<1>3. /\ grownL \in Nat /\ grownL >= rd.liquidityIndex
      /\ grownB \in Nat /\ grownB >= rd.variableBorrowIndex
    BY <1>1, <1>2, RayMulNat, RayMulGrows
<1> HIDE DEF grownL, grownB
<1>4. PICK l, b : /\ l \in {rd.liquidityIndex, grownL} /\ b \in {rd.variableBorrowIndex, grownB}
                  /\ UpdateIndexes(rd, scaledDebt, time) =
                        [rd EXCEPT !.liquidityIndex = l, !.variableBorrowIndex = b,
                                   !.lastUpdateTimestamp = time]
  <2> DEFINE l == IF rd.currentLiquidityRate > 0 THEN grownL ELSE rd.liquidityIndex
             b == IF rd.currentLiquidityRate > 0 /\ scaledDebt # 0 THEN grownB
                  ELSE rd.variableBorrowIndex
  <2>1. UpdateIndexes(rd, scaledDebt, time) =
          [rd EXCEPT !.liquidityIndex = l, !.variableBorrowIndex = b,
                     !.lastUpdateTimestamp = time]
      BY DEF UpdateIndexes, grownL, grownB, linear, compounded, exp, SoundReserve, ReserveData
  <2> QED
      BY <2>1
<1> DEFINE new == UpdateIndexes(rd, scaledDebt, time)
<1>5. /\ l \in Nat /\ l >= rd.liquidityIndex /\ l >= RAY
      /\ b \in Nat /\ b >= rd.variableBorrowIndex /\ b >= RAY
    BY <1>1, <1>3, <1>4 DEF SoundReserve
<1>6. /\ new \in ReserveData /\ new.liquidityIndex = l /\ new.variableBorrowIndex = b
      /\ new.lastUpdateTimestamp = time
    BY <1>4, <1>5 DEF SoundReserve, ReserveData
<1> HIDE DEF new
<1>7. SoundReserve(new, time) /\ new.liquidityIndex >= rd.liquidityIndex
      /\ new.variableBorrowIndex >= rd.variableBorrowIndex
    BY <1>5, <1>6 DEF SoundReserve
<1> QED
    BY <1>7 DEF new

-----------------------------------------------------------------------------
(***************************************************************************)
(* The inductive invariant, and what reserves and balances contribute.     *)
(***************************************************************************)
PoolInv ==
    /\ LedgerInv
    /\ CollateralCounted
    /\ TypeOK
    /\ \A r \in Reserves : SoundReserve(reserves[r], now)
    /\ now # 0

LEMMA AccruedSound ==
    ASSUME PoolInv, NEW r \in Reserves
    PROVE  /\ SoundReserve(Accrued(r), now)
           /\ Accrued(r).variableBorrowIndex >= reserves[r].variableBorrowIndex
           /\ BorrowIndex(r) \in Nat \ {0} /\ BorrowIndex(r) >= RAY
           /\ Accrued(r).liquidityIndex \in Nat \ {0}
<1>1. now \in Nat /\ debtSupply[r] \in Nat /\ SoundReserve(reserves[r], now)
    BY DEF PoolInv, TypeOK
<1>2. /\ SoundReserve(Accrued(r), now)
      /\ Accrued(r).variableBorrowIndex >= reserves[r].variableBorrowIndex
    BY <1>1, AccrualKeepsReserve DEF Accrued
<1> QED
    BY <1>2 DEF BorrowIndex, SoundReserve, ReserveData

LEMMA BTokenAccruedType ==
    ASSUME PoolInv, NEW r \in Reserves
    PROVE  BTokenAccrued(r) \in [Users \cup {Treasury} -> Nat]
<1> DEFINE before == RayMul(debtSupply[r], reserves[r].variableBorrowIndex)
           after == RayMul(debtSupply[r], Accrued(r).variableBorrowIndex)
           minted == MintToTreasury(reserves[r], Accrued(r), debtSupply[r])
<1>1. /\ debtSupply[r] \in Nat /\ reserves[r].variableBorrowIndex \in Nat
      /\ Accrued(r).variableBorrowIndex \in Nat
      /\ bToken[r] \in [Users \cup {Treasury} -> Nat]
    BY AccruedSound DEF PoolInv, TypeOK, ReserveData, BorrowIndex
<1>2. before \in Nat /\ after \in Nat /\ before <= after
    BY <1>1, AccruedSound, RayMulNat, RayMulMonotone
<1>3. minted = RayDiv(PercentMul(after - before, ReserveFactor), Accrued(r).liquidityIndex)
    BY DEF MintToTreasury
<1> HIDE DEF before, after, minted
<1>4. after - before \in Nat /\ ReserveFactor \in Nat
    BY <1>2
<1>5. minted \in Nat
    BY <1>3, <1>4, AccruedSound, PercentMulNat, RayDivNat
<1> QED
    BY <1>1, <1>5 DEF BTokenAccrued, minted

\* The part of TypeOK that an operation on one reserve changes through
\* SettleReserve, and the soundness of the reserves
ReservesOK ==
    /\ reserves \in [Reserves -> ReserveData]
    /\ debtSupply \in [Reserves -> Nat]
    /\ cash \in [Reserves -> Nat]
    /\ \A r \in Reserves : SoundReserve(reserves[r], now)

LEMMA SettleKeepsReserves ==
    ASSUME PoolInv, NEW r \in Reserves, NEW scaledDebt \in Nat, NEW liquidity \in Nat,
           SettleReserve(r, scaledDebt, liquidity), now' = now
    PROVE  ReservesOK'
<1> DEFINE new == UpdateInterestRates(Accrued(r), scaledDebt, liquidity)
<1>1. now \in Nat
    BY DEF PoolInv, TypeOK
<1>2. SoundReserve(new, now)
    BY <1>1, AccruedSound, RatesKeepReserve
<1>3. /\ reserves' = [reserves EXCEPT ![r] = new]
      /\ debtSupply' = [debtSupply EXCEPT ![r] = scaledDebt]
      /\ cash' = [cash EXCEPT ![r] = liquidity]
    BY DEF SettleReserve
<1> HIDE DEF new
<1>4. reserves' \in [Reserves -> ReserveData]
    BY <1>2, <1>3 DEF PoolInv, TypeOK, SoundReserve
<1>5. \A other \in Reserves :
          reserves'[other] = IF other = r THEN new ELSE reserves[other]
    BY <1>3 DEF PoolInv, TypeOK
<1>6. \A other \in Reserves : SoundReserve(reserves'[other], now')
    BY <1>2, <1>5 DEF PoolInv
<1> QED
    BY <1>3, <1>4, <1>6 DEF PoolInv, TypeOK, ReservesOK

\* The rest of TypeOK
BalancesOK ==
    /\ bToken \in [Reserves -> [Users \cup {Treasury} -> Nat]]
    /\ debtToken \in [Reserves -> [Users -> Nat]]
    /\ borrowAllowances \in [Reserves -> [Users -> [Users -> Nat]]]
    /\ escrow \in [Reserves -> Nat]

SettingsOK ==
    /\ flags \in [active : SUBSET Reserves, frozen : SUBSET Reserves,
                  borrowing : SUBSET Reserves, nftActive : SUBSET NftAssets,
                  nftFrozen : SUBSET NftAssets]
    /\ oracle \in [NftAssets -> [price : Nat, stale : BOOLEAN]]
    /\ paused \in BOOLEAN
    /\ pauseStartTime \in Nat
    /\ pauseDurationTime \in Nat
    /\ now \in Nat \ {0}

LEMMA PoolInvParts ==
    PoolInv <=> LedgerInv /\ CollateralCounted /\ ReservesOK /\ BalancesOK /\ SettingsOK
    BY DEF PoolInv, TypeOK, ReservesOK, BalancesOK, SettingsOK, LedgerInv

LEMMA PoolInvPartsNext ==
    PoolInv' <=>
        LedgerInv' /\ CollateralCounted' /\ ReservesOK' /\ BalancesOK' /\ SettingsOK'
    BY PoolInvParts, PTL

LEMMA SettingsStay ==
    ASSUME PoolInv, UNCHANGED <<flags, oracle, pauseVars, now>>
    PROVE  SettingsOK'
    BY PoolInvParts DEF SettingsOK, pauseVars

\* A step that leaves the ledger and the bNFTs alone.
LEMMA LedgerStays ==
    ASSUME PoolInv, UNCHANGED loanVars
    PROVE  LedgerInv' /\ CollateralCounted' /\ LedgerStep /\ loans' = loans
<1>1. LedgerInv' /\ LedgerStep
    BY StutterKeepsInv DEF PoolInv
<1>2. UNCHANGED <<loans, nftTotalCollateral, userNftCollateral>>
    BY DEF loanVars, ledgerVars
<1> QED
    BY <1>1, <1>2, QuietKeepsCount DEF PoolInv

LEMMA InputsNat ==
    /\ DepositAmounts \subseteq Nat /\ WithdrawAmounts \subseteq Nat
    /\ TransferAmounts \subseteq Nat /\ BorrowAmounts \subseteq Nat
    /\ RepayAmounts \subseteq Nat /\ Delegations \subseteq Nat /\ BidPrices \subseteq Nat
    /\ BidFines \subseteq Nat /\ ExtraAmounts \subseteq Nat
    OBVIOUS

-----------------------------------------------------------------------------
(***************************************************************************)
(* Suppliers.                                                              *)
(***************************************************************************)
LEMMA OneMore ==
    ASSUME NEW b \in [Users \cup {Treasury} -> Nat], NEW u \in Users \cup {Treasury},
           NEW x \in Nat
    PROVE  [b EXCEPT ![u] = @ + x] \in [Users \cup {Treasury} -> Nat]
    OBVIOUS

LEMMA OneLess ==
    ASSUME NEW b \in [Users \cup {Treasury} -> Nat], NEW u \in Users \cup {Treasury},
           NEW x \in Nat, x <= b[u]
    PROVE  [b EXCEPT ![u] = @ - x] \in [Users \cup {Treasury} -> Nat]
    OBVIOUS

LEMMA DepositKeepsInv ==
    ASSUME PoolInv, NEW r \in Reserves, NEW u \in Users, NEW amount \in Nat,
           Deposit(r, u, amount)
    PROVE  PoolInv'
<1> DEFINE minted == RayDiv(amount, Accrued(r).liquidityIndex)
<1>1. minted \in Nat
    BY AccruedSound, RayDivNat
<1>2. /\ SettleReserve(r, debtSupply[r], cash[r] + amount)
      /\ bToken' = [bToken EXCEPT ![r] = [BTokenAccrued(r) EXCEPT ![u] = @ + minted]]
      /\ UNCHANGED <<loanVars, debtToken, borrowAllowances, escrow, flags, oracle,
                     pauseVars, now>>
    BY DEF Deposit
<1> HIDE DEF minted
<1>3. ReservesOK'
  <2>1. debtSupply[r] \in Nat /\ cash[r] + amount \in Nat
      BY DEF PoolInv, TypeOK
  <2> QED
      BY <1>2, <2>1, SettleKeepsReserves
<1>4. BalancesOK'
  <2>1. [BTokenAccrued(r) EXCEPT ![u] = @ + minted] \in [Users \cup {Treasury} -> Nat]
      BY <1>1, BTokenAccruedType, OneMore
  <2> QED
      BY <1>2, <2>1, PoolInvParts DEF BalancesOK
<1> QED
    BY <1>2, <1>3, <1>4, SettingsStay, LedgerStays, PoolInvPartsNext

LEMMA BTokenBalanceNat ==
    ASSUME PoolInv, NEW r \in Reserves, NEW u \in Users
    PROVE  BTokenBalance(r, u) \in Nat
<1>1. bToken[r][u] \in Nat
    BY DEF PoolInv, TypeOK
<1>2. NormalizedIncome(reserves[r], now) \in Nat
  <2> DEFINE rd == reserves[r]
             exp == now - rd.lastUpdateTimestamp
  <2>1. /\ rd.liquidityIndex \in Nat /\ rd.currentLiquidityRate \in Nat /\ exp \in Nat
      BY DEF PoolInv, TypeOK, SoundReserve, ReserveData
  <2>2. RayMul(LinearInterest(rd.currentLiquidityRate, exp), rd.liquidityIndex) \in Nat
      BY <2>1, LinearInterestGrows, RayMulNat
  <2> QED
      BY <2>1, <2>2 DEF NormalizedIncome
<1> QED
    BY <1>1, <1>2, RayMulNat DEF BTokenBalance

LEMMA WithdrawKeepsInv ==
    ASSUME PoolInv, NEW r \in Reserves, NEW u \in Users, NEW amount \in Nat,
           Withdraw(r, u, amount)
    PROVE  PoolInv'
<1> DEFINE burned == RayDiv(amount, Accrued(r).liquidityIndex)
<1>1. burned \in Nat
    BY AccruedSound, RayDivNat
<1>2. /\ SettleReserve(r, debtSupply[r], cash[r] - amount)
      /\ amount <= cash[r] /\ burned <= BTokenAccrued(r)[u]
      /\ bToken' = [bToken EXCEPT ![r] = [BTokenAccrued(r) EXCEPT ![u] = @ - burned]]
      /\ UNCHANGED <<loanVars, debtToken, borrowAllowances, escrow, flags, oracle,
                     pauseVars, now>>
    BY DEF Withdraw
<1> HIDE DEF burned
<1>3. ReservesOK'
  <2>1. debtSupply[r] \in Nat /\ cash[r] - amount \in Nat
      BY <1>2 DEF PoolInv, TypeOK
  <2> QED
      BY <1>2, <2>1, SettleKeepsReserves
<1>4. BalancesOK'
  <2>1. [BTokenAccrued(r) EXCEPT ![u] = @ - burned] \in [Users \cup {Treasury} -> Nat]
      BY <1>1, <1>2, BTokenAccruedType, OneLess
  <2> QED
      BY <1>2, <2>1, PoolInvParts DEF BalancesOK
<1> QED
    BY <1>2, <1>3, <1>4, SettingsStay, LedgerStays, PoolInvPartsNext

LEMMA TransferBTokenKeepsInv ==
    ASSUME PoolInv, NEW r \in Reserves, NEW from \in Users \cup {Treasury},
           NEW to \in Users \cup {Treasury}, NEW amount \in Nat,
           TransferBToken(r, from, to, amount)
    PROVE  PoolInv'
<1> DEFINE scaled == RayDiv(amount, NormalizedIncome(reserves[r], now))
           taken == [bToken[r] EXCEPT ![from] = @ - scaled]
<1>1. scaled \in Nat
  <2> DEFINE rd == reserves[r]
             exp == now - rd.lastUpdateTimestamp
             linear == LinearInterest(rd.currentLiquidityRate, exp)
  <2>1. /\ rd.liquidityIndex \in Nat /\ rd.currentLiquidityRate \in Nat /\ exp \in Nat
        /\ rd.liquidityIndex >= RAY
      BY DEF PoolInv, TypeOK, SoundReserve, ReserveData
  <2>2. linear \in Nat /\ linear >= RAY
      BY <2>1, LinearInterestGrows
  <2>3. /\ RayMul(linear, rd.liquidityIndex) \in Nat
        /\ RayMul(linear, rd.liquidityIndex) >= rd.liquidityIndex
    <3> HIDE DEF linear, rd
    <3> QED
      BY <2>1, <2>2, RayMulNat, RayMulGrows
  <2>4. NormalizedIncome(rd, now) \in {rd.liquidityIndex, RayMul(linear, rd.liquidityIndex)}
      BY DEF NormalizedIncome
  <2>5. NormalizedIncome(rd, now) \in Nat \ {0}
    <3> HIDE DEF linear, rd
    <3> QED
      BY <2>1, <2>3, <2>4
  <2> QED
      BY <2>5, RayDivNat
<1>2. /\ scaled <= bToken[r][from]
      /\ bToken' = [bToken EXCEPT ![r] = [taken EXCEPT ![to] = @ + scaled]]
      /\ UNCHANGED <<loanVars, reserves, debtToken, debtSupply, cash, escrow,
                     borrowAllowances, flags, oracle, pauseVars, now>>
    BY DEF TransferBToken
<1> HIDE DEF scaled
<1>3. ReservesOK'
    BY <1>2, PoolInvParts DEF ReservesOK
<1>4. BalancesOK'
  <2>1. bToken[r] \in [Users \cup {Treasury} -> Nat]
      BY DEF PoolInv, TypeOK
  <2>2. taken \in [Users \cup {Treasury} -> Nat]
      BY <1>1, <1>2, <2>1, OneLess
  <2> HIDE DEF taken
  <2>3. [taken EXCEPT ![to] = @ + scaled] \in [Users \cup {Treasury} -> Nat]
      BY <1>1, <2>2, OneMore
  <2> QED
      BY <1>2, <2>3, PoolInvParts DEF BalancesOK
<1> QED
    BY <1>2, <1>3, <1>4, SettingsStay, LedgerStays, PoolInvPartsNext

-----------------------------------------------------------------------------
(***************************************************************************)
(* What a step of the pool does to loans, promises and debts.              *)
(***************************************************************************)
PromiseStep == Promise!Next \/ UNCHANGED Promise!vars

\* The bodies of OnlyUnhealthyOnSale and DebtPaidInFull
SaleStep ==
    \A id \in OpenLoans :
        (loans[id].state = "Active" /\ loans'[id].state = "Auction") =>
            id \in UnhealthyLoans /\ loans'[id].bidPrice >= BorrowAmount(id)

PaidStep ==
    \A id \in OpenLoans :
        id \notin OpenLoans' =>
            LET r == loans[id].reserveAsset IN
            /\ cash'[r] = cash[r] + BorrowAmount(id)
            /\ debtSupply'[r] = debtSupply[r] - loans[id].scaledAmount

PoolStep == LedgerStep /\ PromiseStep /\ SaleStep /\ PaidStep

\* The ledger's share of a pool operation
LedgerPart == LedgerInv' /\ CollateralCounted' /\ LedgerStep /\ PromiseStep

LEMMA LoanFacts ==
    ASSUME PoolInv, NEW id \in DOMAIN loans
    PROVE  /\ loans[id] \in LoanData
           /\ loans[id].reserveAsset \in Reserves /\ loans[id].borrower \in Users
           /\ loans[id].scaledAmount \in Nat /\ loans[id].bidPrice \in Nat
           /\ BorrowIndex(loans[id].reserveAsset) \in Nat \ {0}
           /\ BorrowAmount(id) \in Nat
           /\ RayDiv(BorrowAmount(id), BorrowIndex(loans[id].reserveAsset))
                  = loans[id].scaledAmount
<1>1. loans \in Seq(LoanData)
    BY DEF PoolInv, TypeOK, LoanTypeOK
<1>2. loans[id] \in LoanData
    BY <1>1, LoanIds
<1>3. /\ loans[id].reserveAsset \in Reserves /\ loans[id].borrower \in Users
      /\ loans[id].scaledAmount \in Nat /\ loans[id].bidPrice \in Nat
    BY <1>2 DEF LoanData
<1>4. /\ BorrowIndex(loans[id].reserveAsset) \in Nat \ {0}
      /\ BorrowIndex(loans[id].reserveAsset) >= RAY
    BY <1>3, AccruedSound
<1>5. BorrowAmount(id) = RayMul(loans[id].scaledAmount, BorrowIndex(loans[id].reserveAsset))
    BY DEF BorrowAmount
<1>6. BorrowAmount(id) \in Nat
    BY <1>3, <1>4, <1>5, RayMulNat
<1>7. RayDiv(BorrowAmount(id), BorrowIndex(loans[id].reserveAsset)) = loans[id].scaledAmount
    BY <1>3, <1>4, <1>5, ScalingIsExact
<1> QED
    BY <1>2, <1>3, <1>4, <1>6, <1>7

\* A step that changes no loan sells and closes none.
LEMMA SameLoans ==
    ASSUME loans' = loans
    PROVE  SaleStep /\ PaidStep
    BY DEF SaleStep, PaidStep, OpenLoans, Open

LEMMA StoredLoan ==
    ASSUME PoolInv, NEW id \in DOMAIN loans, NEW loan, Store(id, loan)
    PROVE  /\ DOMAIN loans' = DOMAIN loans /\ loans'[id] = loan
           /\ \A j \in DOMAIN loans : j # id => loans'[j] = loans[j]
    BY StoreLoan DEF PoolInv, LedgerInv, LoanTypeOK, Store

\* A step that leaves the changed loan open, and on sale only if it was.
LEMMA StillOpen ==
    ASSUME PoolInv, NEW id \in DOMAIN loans, NEW loan, Store(id, loan),
           loan.state \in {"Active", "Auction"},
           loan.state = "Auction" => loans[id].state # "Active"
    PROVE  SaleStep /\ PaidStep
<1>1. /\ DOMAIN loans' = DOMAIN loans /\ loans'[id] = loan
      /\ \A j \in DOMAIN loans : j # id => loans'[j] = loans[j]
    BY StoredLoan
<1>2. SaleStep
    BY <1>1 DEF SaleStep, OpenLoans, Open
<1>3. PaidStep
    BY <1>1 DEF PaidStep, OpenLoans, Open
<1> QED
    BY <1>2, <1>3

\* A step that closes a loan and books its debt as paid.
LEMMA ClosedAndPaid ==
    ASSUME PoolInv, NEW id \in DOMAIN loans, NEW loan, Store(id, loan),
           loan.state \in {"Repaid", "Defaulted"},
           NEW r \in Reserves, r = loans[id].reserveAsset,
           SettleReserve(r, debtSupply[r] - RayDiv(BorrowAmount(id), BorrowIndex(r)),
                         cash[r] + BorrowAmount(id))
    PROVE  SaleStep /\ PaidStep
<1>1. /\ DOMAIN loans' = DOMAIN loans /\ loans'[id] = loan
      /\ \A j \in DOMAIN loans : j # id => loans'[j] = loans[j]
    BY StoredLoan
<1>2. SaleStep
    BY <1>1 DEF SaleStep, OpenLoans, Open
<1>3. r \in DOMAIN cash /\ r \in DOMAIN debtSupply
    BY DEF PoolInv, TypeOK
<1>4. /\ cash'[r] = cash[r] + BorrowAmount(id)
      /\ debtSupply'[r] = debtSupply[r] - loans[id].scaledAmount
    BY <1>3, LoanFacts DEF SettleReserve
<1>5. PaidStep
    BY <1>1, <1>4 DEF PaidStep, OpenLoans, Open
<1> QED
    BY <1>2, <1>5

\* The books around a loan operation: one reserve settled, bTokens minted to the
\* treasury at most, and what the operation itself did to the other balances.
LEMMA BooksKept ==
    ASSUME PoolInv, NEW r \in Reserves, NEW scaledDebt \in Nat, NEW liquidity \in Nat,
           SettleReserve(r, scaledDebt, liquidity),
           bToken' = [bToken EXCEPT ![r] = BTokenAccrued(r)],
           debtToken' \in [Reserves -> [Users -> Nat]],
           borrowAllowances' \in [Reserves -> [Users -> [Users -> Nat]]],
           escrow' \in [Reserves -> Nat],
           UNCHANGED <<flags, oracle, pauseVars, now>>,
           LedgerInv', CollateralCounted'
    PROVE  PoolInv'
<1>1. ReservesOK'
    BY SettleKeepsReserves
<1>2. bToken' \in [Reserves -> [Users \cup {Treasury} -> Nat]]
    BY BTokenAccruedType DEF PoolInv, TypeOK
<1>3. BalancesOK'
    BY <1>2 DEF BalancesOK
<1> QED
    BY <1>1, <1>3, SettingsStay, PoolInvPartsNext

LEMMA BurnDebtEffect ==
    ASSUME PoolInv, NEW r \in Reserves, NEW user \in Users, NEW amount \in Nat,
           BurnDebt(r, user, amount)
    PROVE  /\ debtSupply[r] - RayDiv(amount, BorrowIndex(r)) \in Nat
           /\ debtToken' \in [Reserves -> [Users -> Nat]]
<1> DEFINE scaled == RayDiv(amount, BorrowIndex(r))
<1>1. scaled \in Nat
    BY AccruedSound, RayDivNat
<1>2. /\ scaled <= debtToken[r][user] /\ scaled <= debtSupply[r]
      /\ debtToken' = [debtToken EXCEPT ![r][user] = @ - scaled]
    BY DEF BurnDebt
<1> HIDE DEF scaled
<1>3. debtSupply[r] \in Nat /\ debtToken \in [Reserves -> [Users -> Nat]]
    BY DEF PoolInv, TypeOK
<1>4. debtSupply[r] - scaled \in Nat
    BY <1>1, <1>2, <1>3
<1>5. debtToken' \in [Reserves -> [Users -> Nat]]
    BY <1>1, <1>2, <1>3
<1> QED
    BY <1>4, <1>5 DEF scaled

LEMMA MintDebtEffect ==
    ASSUME PoolInv, NEW r \in Reserves, NEW user \in Users, NEW amount \in Nat,
           MintDebt(r, user, amount)
    PROVE  /\ debtSupply[r] + RayDiv(amount, BorrowIndex(r)) \in Nat
           /\ debtToken' \in [Reserves -> [Users -> Nat]]
<1> DEFINE scaled == RayDiv(amount, BorrowIndex(r))
<1>1. scaled \in Nat
    BY AccruedSound, RayDivNat
<1>2. debtToken' = [debtToken EXCEPT ![r][user] = @ + scaled]
    BY DEF MintDebt
<1> HIDE DEF scaled
<1>3. debtSupply[r] \in Nat /\ debtToken \in [Reserves -> [Users -> Nat]]
    BY DEF PoolInv, TypeOK
<1>4. debtToken' \in [Reserves -> [Users -> Nat]]
    BY <1>1, <1>2, <1>3
<1> QED
    BY <1>1, <1>3, <1>4 DEF scaled

-----------------------------------------------------------------------------
(***************************************************************************)
(* Borrowing and repaying.                                                 *)
(***************************************************************************)
LEMMA BorrowLedger ==
    ASSUME PoolInv, NEW r \in Reserves, NEW initiator, NEW onBehalfOf \in Users,
           NEW nft \in Nfts, NEW amount \in Nat,
           \/ CreateLoan(initiator, onBehalfOf, nft, r, amount, BorrowIndex(r))
           \/ IncreaseLoan(nftToLoanIds[nft], amount, BorrowIndex(r))
    PROVE  LedgerPart /\ SaleStep /\ PaidStep
<1>1. BorrowIndex(r) \in Nat \ {0} /\ LedgerInv /\ CollateralCounted
    BY AccruedSound DEF PoolInv
<1>2. CASE CreateLoan(initiator, onBehalfOf, nft, r, amount, BorrowIndex(r))
  <2>1. LedgerInv' /\ LedgerStep
      BY <1>1, <1>2, CreateLoanKeepsInv
  <2>2. CollateralCounted'
      BY <1>1, <1>2, CreateLoanKeepsCount
  <2>3. Promise!Next
      BY <1>1, <1>2, <2>1, PledgeStep
  <2>4. \A id \in DOMAIN loans : id \in DOMAIN loans' /\ loans'[id] = loans[id]
    <3>1. loans \in Seq(LoanData)
        BY DEF PoolInv, TypeOK, LoanTypeOK
    <3>2. loans' = Append(loans, NewLoan(onBehalfOf, nft, r, RayDiv(amount, BorrowIndex(r))))
        BY <1>2 DEF CreateLoan
    <3> QED
        BY <3>1, <3>2, LoanAdded
  <2>5. SaleStep /\ PaidStep
      BY <2>4 DEF SaleStep, PaidStep, OpenLoans, Open
  <2> QED
      BY <2>1, <2>2, <2>3, <2>5 DEF LedgerPart, PromiseStep
<1>3. CASE IncreaseLoan(nftToLoanIds[nft], amount, BorrowIndex(r))
  <2> DEFINE id == nftToLoanIds[nft]
             debt == loans[id].scaledAmount + RayDiv(amount, BorrowIndex(r))
  <2>1. /\ id \in DOMAIN loans /\ loans[id].state = "Active"
        /\ Store(id, WithDebt(loans[id], debt))
        /\ UNCHANGED <<nftTotalCollateral, userNftCollateral>>
        /\ UNCHANGED <<nftToLoanIds, nftOwner, bnftOwner, minters>>
      BY <1>3 DEF IncreaseLoan, IsLoan, bnftVars
  <2>2. LedgerInv' /\ LedgerStep
      BY <1>1, <1>3, IncreaseLoanKeepsInv
  <2> HIDE DEF id, debt
  <2>3. CollateralCounted'
      BY <1>1, <2>1, DebtKeepsCount
  <2>4. UNCHANGED Promise!vars
      BY <1>1, <2>1, <2>2, DebtStep
  <2>5. WithDebt(loans[id], debt).state = "Active"
      BY <2>1, LoanFacts DEF WithDebt, LoanData
  <2>6. SaleStep /\ PaidStep
      BY <2>1, <2>5, StillOpen
  <2> QED
      BY <2>2, <2>3, <2>4, <2>6 DEF LedgerPart, PromiseStep
<1> QED
    BY <1>2, <1>3

LEMMA BorrowStep ==
    ASSUME PoolInv, NEW r \in Reserves, NEW initiator \in Users, NEW onBehalfOf \in Users,
           NEW nft \in Nfts, NEW amount \in Nat,
           Borrow(r, initiator, onBehalfOf, nft, amount)
    PROVE  PoolInv' /\ PoolStep
<1>1. /\ \/ CreateLoan(initiator, onBehalfOf, nft, r, amount, BorrowIndex(r))
         \/ IncreaseLoan(nftToLoanIds[nft], amount, BorrowIndex(r))
      /\ SpendAllowance(r, initiator, onBehalfOf, amount)
      /\ MintDebt(r, onBehalfOf, amount)
      /\ amount <= cash[r]
      /\ SettleReserve(r, debtSupply[r] + RayDiv(amount, BorrowIndex(r)), cash[r] - amount)
      /\ bToken' = [bToken EXCEPT ![r] = BTokenAccrued(r)]
      /\ UNCHANGED <<escrow, flags, oracle, pauseVars, now>>
    BY DEF Borrow
<1>2. LedgerPart /\ SaleStep /\ PaidStep
    BY <1>1, BorrowLedger
<1>3. /\ debtSupply[r] + RayDiv(amount, BorrowIndex(r)) \in Nat
      /\ debtToken' \in [Reserves -> [Users -> Nat]]
    BY <1>1, MintDebtEffect
<1>4. borrowAllowances' \in [Reserves -> [Users -> [Users -> Nat]]]
  <2>1. borrowAllowances \in [Reserves -> [Users -> [Users -> Nat]]]
      BY DEF PoolInv, TypeOK
  <2>2. CASE initiator = onBehalfOf
      BY <1>1, <2>1, <2>2 DEF SpendAllowance
  <2>3. CASE initiator # onBehalfOf
    <3>1. /\ borrowAllowances[r][onBehalfOf][initiator] >= amount
          /\ borrowAllowances' =
                [borrowAllowances EXCEPT ![r][onBehalfOf][initiator] = @ - amount]
        BY <1>1, <2>3 DEF SpendAllowance
    <3>2. borrowAllowances[r][onBehalfOf][initiator] - amount \in Nat
        BY <2>1, <3>1
    <3> QED
        BY <2>1, <3>1, <3>2
  <2> QED
      BY <2>2, <2>3
<1>5. cash[r] - amount \in Nat /\ escrow' \in [Reserves -> Nat]
    BY <1>1 DEF PoolInv, TypeOK
<1>6. PoolInv'
    BY <1>1, <1>2, <1>3, <1>4, <1>5, BooksKept DEF LedgerPart
<1> QED
    BY <1>2, <1>6 DEF PoolStep, LedgerPart

LEMMA RepayLedger ==
    ASSUME PoolInv, NEW id, NEW amount \in Nat, NEW r \in Reserves,
           r = loans[id].reserveAsset,
           \/ /\ amount < BorrowAmount(id)
              /\ DecreaseLoan(id, amount, BorrowIndex(r))
           \/ /\ amount = BorrowAmount(id) /\ RepayLoan(id)
              /\ SettleReserve(r, debtSupply[r] - RayDiv(amount, BorrowIndex(r)),
                               cash[r] + amount)
    PROVE  LedgerPart /\ SaleStep /\ PaidStep
<1>1. BorrowIndex(r) \in Nat \ {0} /\ LedgerInv /\ CollateralCounted
    BY AccruedSound DEF PoolInv
<1>2. CASE DecreaseLoan(id, amount, BorrowIndex(r))
  <2> DEFINE debt == loans[id].scaledAmount - RayDiv(amount, BorrowIndex(r))
  <2>1. /\ id \in DOMAIN loans /\ loans[id].state = "Active"
        /\ Store(id, WithDebt(loans[id], debt))
        /\ UNCHANGED <<nftTotalCollateral, userNftCollateral>>
        /\ UNCHANGED <<nftToLoanIds, nftOwner, bnftOwner, minters>>
      BY <1>2 DEF DecreaseLoan, IsLoan, bnftVars
  <2>2. LedgerInv' /\ LedgerStep
      BY <1>1, <1>2, DecreaseLoanKeepsInv
  <2> HIDE DEF debt
  <2>3. CollateralCounted'
      BY <1>1, <2>1, DebtKeepsCount
  <2>4. UNCHANGED Promise!vars
      BY <1>1, <2>1, <2>2, DebtStep
  <2>5. WithDebt(loans[id], debt).state = "Active"
      BY <2>1, LoanFacts DEF WithDebt, LoanData
  <2>6. SaleStep /\ PaidStep
      BY <2>1, <2>5, StillOpen
  <2> QED
      BY <2>2, <2>3, <2>4, <2>6 DEF LedgerPart, PromiseStep
<1>3. CASE /\ amount = BorrowAmount(id) /\ RepayLoan(id)
           /\ SettleReserve(r, debtSupply[r] - RayDiv(amount, BorrowIndex(r)),
                            cash[r] + amount)
  <2>1. id \in DOMAIN loans /\ Store(id, Repaid(loans[id]))
      BY <1>3 DEF RepayLoan, IsLoan
  <2>2. Repaid(loans[id]).state = "Repaid"
      BY <2>1, LoanFacts DEF Repaid, LoanData
  <2>3. LedgerInv' /\ LedgerStep
      BY <1>1, <1>3, RepayLoanKeepsInv
  <2>4. CollateralCounted'
      BY <1>1, <1>3, RepayLoanKeepsCount
  <2>5. Promise!Next
      BY <1>1, <1>3, <2>3, ReleaseStep
  <2>6. SaleStep /\ PaidStep
      BY <1>3, <2>1, <2>2, ClosedAndPaid
  <2> QED
      BY <2>3, <2>4, <2>5, <2>6 DEF LedgerPart, PromiseStep
<1> QED
    BY <1>2, <1>3

LEMMA RepayStep ==
    ASSUME PoolInv, NEW nft \in Nfts, NEW amount \in Nat, Repay(nft, amount)
    PROVE  PoolInv' /\ PoolStep
<1> DEFINE id == nftToLoanIds[nft]
           r == loans[id].reserveAsset
           paid == RepayAmount(id, amount)
<1>1. /\ IF amount < BorrowAmount(id) THEN DecreaseLoan(id, paid, BorrowIndex(r))
                                      ELSE RepayLoan(id)
      /\ BurnDebt(r, loans[id].borrower, paid)
      /\ SettleReserve(r, debtSupply[r] - RayDiv(paid, BorrowIndex(r)), cash[r] + paid)
      /\ bToken' = [bToken EXCEPT ![r] = BTokenAccrued(r)]
      /\ UNCHANGED <<borrowAllowances, escrow, flags, oracle, pauseVars, now>>
    BY DEF Repay
<1>2. id \in DOMAIN loans
    BY <1>1 DEF DecreaseLoan, RepayLoan, IsLoan
<1>3. r \in Reserves /\ loans[id].borrower \in Users /\ BorrowAmount(id) \in Nat
    BY <1>2, LoanFacts
<1>4. paid = IF amount < BorrowAmount(id) THEN amount ELSE BorrowAmount(id)
    BY DEF RepayAmount
<1> HIDE DEF id, r, paid
<1>5. paid \in Nat
    BY <1>3, <1>4
<1>6. LedgerPart /\ SaleStep /\ PaidStep
    BY <1>1, <1>3, <1>4, <1>5, RepayLedger DEF r
<1>7. /\ debtSupply[r] - RayDiv(paid, BorrowIndex(r)) \in Nat
      /\ debtToken' \in [Reserves -> [Users -> Nat]]
    BY <1>1, <1>3, <1>5, BurnDebtEffect
<1>8. /\ cash[r] + paid \in Nat /\ escrow' \in [Reserves -> Nat]
      /\ borrowAllowances' \in [Reserves -> [Users -> [Users -> Nat]]]
    BY <1>1, <1>3, <1>5 DEF PoolInv, TypeOK
<1>9. PoolInv'
    BY <1>1, <1>3, <1>6, <1>7, <1>8, BooksKept DEF LedgerPart
<1> QED
    BY <1>6, <1>9 DEF PoolStep, LedgerPart

-----------------------------------------------------------------------------
(***************************************************************************)
(* Auctions.                                                               *)
(***************************************************************************)
LEMMA AuctionStep ==
    ASSUME PoolInv, NEW nft \in Nfts, NEW onBehalfOf \in Users, NEW bidPrice \in Nat,
           Auction(nft, onBehalfOf, bidPrice)
    PROVE  PoolInv' /\ PoolStep
<1> DEFINE id == nftToLoanIds[nft]
           r == loans[id].reserveAsset
           debt == BorrowAmount(id)
<1>1. /\ bidPrice > 0 /\ bidPrice >= debt
      /\ loans[id].state = "Active" => OpeningBid(id, bidPrice)
      /\ AuctionLoan(id, onBehalfOf, bidPrice, debt, now)
      /\ escrow' = [escrow EXCEPT ![r] = @ + bidPrice - Refund(loans[id])]
      /\ SettleReserve(r, debtSupply[r], cash[r])
      /\ bToken' = [bToken EXCEPT ![r] = BTokenAccrued(r)]
      /\ UNCHANGED <<debtToken, borrowAllowances, flags, oracle, pauseVars, now>>
    BY DEF Auction
<1>2. id \in DOMAIN loans
    BY <1>1 DEF AuctionLoan, FirstBid, HigherBid, IsLoan
<1>3. /\ r \in Reserves /\ debt \in Nat /\ loans[id] \in LoanData
      /\ loans[id].bidPrice \in Nat
    BY <1>2, LoanFacts
<1> HIDE DEF id, r, debt
<1>4. /\ LedgerInv /\ CollateralCounted /\ now \in Nat \ {0} /\ bidPrice \in Nat \ {0}
    BY <1>1 DEF PoolInv, TypeOK
<1>5. LedgerInv' /\ LedgerStep
    BY <1>1, <1>3, <1>4, FirstBidKeepsInv, HigherBidKeepsInv DEF AuctionLoan
<1>6. CollateralCounted'
    BY <1>1, <1>4, AuctionLoanKeepsCount
<1>7. Promise!Next
    BY <1>1, <1>4, <1>5, BidStep
<1>8. \/ /\ loans[id].state = "Active"
         /\ Store(id, PutOnSale(WithBid(loans[id], onBehalfOf, bidPrice, debt),
                                onBehalfOf, now))
      \/ /\ loans[id].state = "Auction" /\ bidPrice > loans[id].bidPrice
         /\ Store(id, WithBid(loans[id], onBehalfOf, bidPrice, debt))
    BY <1>1 DEF AuctionLoan, FirstBid, HigherBid
<1>9. SaleStep /\ PaidStep
  <2>1. CASE /\ loans[id].state = "Auction"
             /\ Store(id, WithBid(loans[id], onBehalfOf, bidPrice, debt))
    <3>1. WithBid(loans[id], onBehalfOf, bidPrice, debt).state = "Auction"
        BY <1>3, <2>1 DEF WithBid, LoanData
    <3> QED
        BY <1>2, <2>1, <3>1, StillOpen
  <2>2. CASE /\ loans[id].state = "Active"
             /\ Store(id, PutOnSale(WithBid(loans[id], onBehalfOf, bidPrice, debt),
                                    onBehalfOf, now))
    <3> DEFINE loan == PutOnSale(WithBid(loans[id], onBehalfOf, bidPrice, debt),
                                 onBehalfOf, now)
    <3>1. loan.state = "Auction" /\ loan.bidPrice = bidPrice
        BY <1>3 DEF WithBid, PutOnSale, LoanData
    <3>2. Store(id, loan)
        BY <2>2
    <3> HIDE DEF loan
    <3>3. /\ DOMAIN loans' = DOMAIN loans /\ loans'[id] = loan
          /\ \A j \in DOMAIN loans : j # id => loans'[j] = loans[j]
        BY <1>2, <3>2, StoredLoan
    <3>4. id \in UnhealthyLoans
        BY <1>1, <1>2, <2>2 DEF UnhealthyLoans, OpeningBid
    <3>5. SaleStep
        BY <1>1, <3>1, <3>3, <3>4 DEF SaleStep, OpenLoans, Open, debt
    <3>6. PaidStep
        BY <3>1, <3>3 DEF PaidStep, OpenLoans, Open
    <3> QED
        BY <3>5, <3>6
  <2> QED
      BY <1>8, <2>1, <2>2
<1>10. escrow' \in [Reserves -> Nat]
  <2>1. escrow \in [Reserves -> Nat]
      BY DEF PoolInv, TypeOK
  <2>2. Refund(loans[id]) \in 0..bidPrice
    <3>1. CASE loans[id].state = "Active"
      <4>1. loans[id].bidderAddress = NoUser
          BY <1>2, <1>4, <3>1
             DEF LedgerInv, BidFieldsMatchState, BidFieldsMatch, OpenLoans, Open
      <4> QED
          BY <1>4, <4>1 DEF Refund
    <3>2. CASE bidPrice > loans[id].bidPrice
        BY <1>3, <3>2 DEF Refund
    <3> QED
        BY <1>8, <3>1, <3>2
  <2>3. escrow[r] + bidPrice - Refund(loans[id]) \in Nat
      BY <1>3, <2>1, <2>2
  <2> QED
      BY <1>1, <1>3, <2>1, <2>3
<1>11. /\ debtSupply[r] \in Nat /\ cash[r] \in Nat
       /\ debtToken' \in [Reserves -> [Users -> Nat]]
       /\ borrowAllowances' \in [Reserves -> [Users -> [Users -> Nat]]]
    BY <1>1, <1>3 DEF PoolInv, TypeOK
<1>12. PoolInv'
    BY <1>1, <1>3, <1>5, <1>6, <1>10, <1>11, BooksKept
<1> QED
    BY <1>5, <1>7, <1>9, <1>12 DEF PoolStep, PromiseStep

LEMMA RedeemStep ==
    ASSUME PoolInv, NEW nft \in Nfts, NEW amount \in Nat, NEW bidFine,
           Redeem(nft, amount, bidFine)
    PROVE  PoolInv' /\ PoolStep
<1> DEFINE id == nftToLoanIds[nft]
           r == loans[id].reserveAsset
           debt == loans[id].scaledAmount - RayDiv(amount, BorrowIndex(r))
           loan == WithDebt(TakenOffSale(loans[id]), debt)
<1>1. /\ RedeemLoan(id, amount, BorrowIndex(r))
      /\ BurnDebt(r, loans[id].borrower, amount)
      /\ escrow[r] >= loans[id].bidPrice
      /\ escrow' = [escrow EXCEPT ![r] = @ - loans[id].bidPrice]
      /\ SettleReserve(r, debtSupply[r] - RayDiv(amount, BorrowIndex(r)), cash[r] + amount)
      /\ bToken' = [bToken EXCEPT ![r] = BTokenAccrued(r)]
      /\ UNCHANGED <<borrowAllowances, flags, oracle, pauseVars, now>>
    BY DEF Redeem
<1>2. id \in DOMAIN loans /\ Store(id, loan)
    BY <1>1 DEF RedeemLoan, IsLoan
<1>3. /\ r \in Reserves /\ loans[id] \in LoanData /\ loans[id].borrower \in Users
      /\ loans[id].bidPrice \in Nat /\ BorrowIndex(r) \in Nat \ {0}
    BY <1>2, LoanFacts
<1>4. loan.state = "Active"
    BY <1>3 DEF TakenOffSale, WithDebt, LoanData
<1> HIDE DEF id, r, loan, debt
<1>5. LedgerInv /\ CollateralCounted
    BY DEF PoolInv
<1>6. LedgerInv' /\ LedgerStep
    BY <1>1, <1>3, <1>5, RedeemLoanKeepsInv
<1>7. CollateralCounted'
    BY <1>1, <1>5, RedeemLoanKeepsCount
<1>8. Promise!Next
    BY <1>1, <1>5, <1>6, ReclaimStep
<1>9. SaleStep /\ PaidStep
    BY <1>2, <1>4, StillOpen
<1>10. /\ debtSupply[r] - RayDiv(amount, BorrowIndex(r)) \in Nat
       /\ debtToken' \in [Reserves -> [Users -> Nat]]
    BY <1>1, <1>3, BurnDebtEffect
<1>11. escrow' \in [Reserves -> Nat]
  <2>1. escrow \in [Reserves -> Nat] /\ escrow[r] - loans[id].bidPrice \in Nat
      BY <1>1, <1>3 DEF PoolInv, TypeOK
  <2> QED
      BY <1>1, <2>1
<1>12. cash[r] + amount \in Nat
       /\ borrowAllowances' \in [Reserves -> [Users -> [Users -> Nat]]]
    BY <1>1, <1>3 DEF PoolInv, TypeOK
<1>13. PoolInv'
    BY <1>1, <1>3, <1>6, <1>7, <1>10, <1>11, <1>12, BooksKept
<1> QED
    BY <1>6, <1>8, <1>9, <1>13 DEF PoolStep, PromiseStep

LEMMA LiquidateStep ==
    ASSUME PoolInv, NEW nft \in Nfts, NEW amount \in Nat, Liquidate(nft, amount)
    PROVE  PoolInv' /\ PoolStep
<1> DEFINE id == nftToLoanIds[nft]
           r == loans[id].reserveAsset
           debt == BorrowAmount(id)
           extra == ExtraDebtAmount(loans[id], debt)
           remain == RemainAmount(loans[id], debt)
           loan == Defaulted(loans[id], debt)
<1>1. /\ LiquidateLoan(id, debt)
      /\ BurnDebt(r, loans[id].borrower, debt)
      /\ escrow[r] + extra >= debt + remain
      /\ escrow' = [escrow EXCEPT ![r] = @ + extra - debt - remain]
      /\ SettleReserve(r, debtSupply[r] - RayDiv(debt, BorrowIndex(r)), cash[r] + debt)
      /\ bToken' = [bToken EXCEPT ![r] = BTokenAccrued(r)]
      /\ UNCHANGED <<borrowAllowances, flags, oracle, pauseVars, now>>
    BY DEF Liquidate
<1>2. id \in DOMAIN loans /\ Store(id, loan)
    BY <1>1 DEF LiquidateLoan, IsLoan
<1>3. /\ r \in Reserves /\ loans[id] \in LoanData /\ loans[id].borrower \in Users
      /\ loans[id].bidPrice \in Nat /\ debt \in Nat
    BY <1>2, LoanFacts
<1>4. loan.state = "Defaulted"
    BY <1>3 DEF Defaulted, LoanData
<1>5. extra \in Nat /\ remain \in Nat
    BY <1>3 DEF ExtraDebtAmount, RemainAmount
<1>6. SaleStep /\ PaidStep
    BY <1>1, <1>2, <1>3, <1>4, ClosedAndPaid
<1> HIDE DEF id, r, debt, extra, remain, loan
<1>7. LedgerInv /\ CollateralCounted
    BY DEF PoolInv
<1>8. LedgerInv' /\ LedgerStep
    BY <1>1, <1>3, <1>7, LiquidateLoanKeepsInv
<1>9. CollateralCounted'
    BY <1>1, <1>7, LiquidateLoanKeepsCount
<1>10. Promise!Next
    BY <1>1, <1>7, <1>8, AwardStep
<1>11. /\ debtSupply[r] - RayDiv(debt, BorrowIndex(r)) \in Nat
       /\ debtToken' \in [Reserves -> [Users -> Nat]]
    BY <1>1, <1>3, BurnDebtEffect
<1>12. escrow' \in [Reserves -> Nat]
  <2>1. escrow \in [Reserves -> Nat]
      BY DEF PoolInv, TypeOK
  <2>2. escrow[r] + extra - debt - remain \in Nat
      BY <1>1, <1>3, <1>5, <2>1
  <2> QED
      BY <1>1, <2>1, <2>2
<1>13. cash[r] + debt \in Nat
       /\ borrowAllowances' \in [Reserves -> [Users -> [Users -> Nat]]]
    BY <1>1, <1>3 DEF PoolInv, TypeOK
<1>14. PoolInv'
    BY <1>1, <1>3, <1>8, <1>9, <1>11, <1>12, <1>13, BooksKept
<1> QED
    BY <1>6, <1>8, <1>10, <1>14 DEF PoolStep, PromiseStep

-----------------------------------------------------------------------------
(***************************************************************************)
(* Everything else leaves the ledger alone, or is not done by the pool.    *)
(***************************************************************************)
LEMMA QuietPoolStep ==
    ASSUME PoolInv, UNCHANGED loanVars
    PROVE  PoolStep
<1>1. LedgerInv /\ LedgerInv' /\ LedgerStep /\ loans' = loans
    BY LedgerStays DEF PoolInv
<1>2. UNCHANGED <<loans, nftToLoanIds, nftOwner, bnftOwner, minters>>
    BY DEF loanVars, ledgerVars, bnftVars
<1>3. UNCHANGED Promise!vars
    BY <1>1, <1>2, QuietStep
<1> QED
    BY <1>1, <1>3, SameLoans DEF PoolStep, PromiseStep

\* Steps that only change settings: pauses, prices, flags, allowances and time
LEMMA SettingsStep ==
    ASSUME PoolInv, UNCHANGED <<loanVars, moneyVars>>, SettingsOK',
           borrowAllowances' \in [Reserves -> [Users -> [Users -> Nat]]],
           now' >= now
    PROVE  PoolInv' /\ PoolStep
<1>1. /\ UNCHANGED loanVars
      /\ UNCHANGED <<reserves, bToken, debtToken, debtSupply, cash, escrow>>
    BY DEF moneyVars
<1>2. now \in Nat /\ now' \in Nat
    BY DEF PoolInv, TypeOK, SettingsOK
<1>3. \A r \in Reserves : SoundReserve(reserves[r], now)'
    BY <1>1, <1>2 DEF PoolInv, SoundReserve, ReserveData
<1>4. ReservesOK'
    BY <1>1, <1>3, PoolInvParts DEF ReservesOK
<1>5. BalancesOK'
    BY <1>1, PoolInvParts DEF BalancesOK
<1> QED
    BY <1>1, <1>4, <1>5, LedgerStays, QuietPoolStep, PoolInvPartsNext

LEMMA SupplyStep ==
    ASSUME PoolInv, SupplyNext
    PROVE  PoolInv' /\ PoolStep
<1>1. PICK r \in Reserves, u \in Users :
        \/ \E a \in DepositAmounts : Deposit(r, u, a)
        \/ \E a \in WithdrawAmounts : Withdraw(r, u, a)
        \/ Withdraw(r, u, BTokenBalance(r, u))
        \/ \E v \in Users, a \in TransferAmounts : TransferBToken(r, u, v, a)
        \/ \E a \in TransferAmounts : TransferBToken(r, Treasury, u, a)
    BY DEF SupplyNext
<1>2. PoolInv'
    BY <1>1, InputsNat, DepositKeepsInv, WithdrawKeepsInv, TransferBTokenKeepsInv,
       BTokenBalanceNat
<1>3. UNCHANGED loanVars
    BY <1>1 DEF Deposit, Withdraw, TransferBToken
<1> QED
    BY <1>2, <1>3, QuietPoolStep

LEMMA LoanStep ==
    ASSUME PoolInv, LoanNextOfPool
    PROVE  PoolInv' /\ PoolStep
    BY InputsNat, BorrowStep, RepayStep, AuctionStep, RedeemStep, LiquidateStep
       DEF LoanNextOfPool

LEMMA ConfigureStep ==
    ASSUME PoolInv, ConfigureFlags
    PROVE  PoolInv' /\ PoolStep
<1>1. UNCHANGED <<loanVars, moneyVars, borrowAllowances, oracle, pauseVars, now>>
    BY DEF ConfigureFlags
<1>2. flags \in [active : SUBSET Reserves, frozen : SUBSET Reserves,
                 borrowing : SUBSET Reserves, nftActive : SUBSET NftAssets,
                 nftFrozen : SUBSET NftAssets]
    BY DEF PoolInv, TypeOK
<1>3. flags' \in [active : SUBSET Reserves, frozen : SUBSET Reserves,
                  borrowing : SUBSET Reserves, nftActive : SUBSET NftAssets,
                  nftFrozen : SUBSET NftAssets]
    BY <1>2 DEF ConfigureFlags, SetActiveFlagOnReserve, SetFreezeFlagOnReserve,
            SetBorrowingFlagOnReserve, SetActiveFlagOnNft, SetFreezeFlagOnNft, Flagged
<1>4. SettingsOK'
    BY <1>1, <1>3 DEF PoolInv, TypeOK, SettingsOK, pauseVars
<1>5. /\ borrowAllowances' \in [Reserves -> [Users -> [Users -> Nat]]]
      /\ now' = now /\ now \in Nat
    BY <1>1 DEF PoolInv, TypeOK
<1>6. now' >= now
    BY <1>5
<1> QED
    BY <1>1, <1>4, <1>5, <1>6, SettingsStep

LEMMA ExternalStep ==
    ASSUME PoolInv, ExternalNext, UNCHANGED poolVars
    PROVE  PoolInv' /\ PoolStep
<1>1. LedgerInv /\ CollateralCounted
    BY DEF PoolInv
<1>2. LedgerInv' /\ LedgerStep
    BY <1>1, BnftNextKeepsInv, LockerNextKeepsInv DEF ExternalNext
<1>3. UNCHANGED <<loans, nftTotalCollateral, userNftCollateral>>
    BY DEF ExternalNext, LockerNext, ApproveFlashLoanLocker, SetFlashLoanLocking,
           PurgeFlashLoanLocking, ledgerVars
<1>4. CollateralCounted'
    BY <1>1, <1>3, QuietKeepsCount
<1>5. PromiseStep
  <2>1. CASE BnftNext /\ UNCHANGED ledgerVars
      BY <1>1, <1>2, <2>1, TradeStep DEF PromiseStep
  <2>2. CASE LockerNext
    <3>1. UNCHANGED <<loans, nftToLoanIds, nftOwner, bnftOwner, minters>>
        BY <2>2 DEF LockerNext, ApproveFlashLoanLocker, SetFlashLoanLocking,
                    PurgeFlashLoanLocking, ledgerVars, bnftVars
    <3> QED
        BY <1>1, <1>2, <3>1, QuietStep DEF PromiseStep
  <2> QED
      BY <2>1, <2>2 DEF ExternalNext
<1>6. ReservesOK' /\ BalancesOK' /\ SettingsOK'
    BY PoolInvParts DEF ReservesOK, BalancesOK, SettingsOK, SoundReserve, poolVars,
                        moneyVars, pauseVars
<1> QED
    BY <1>2, <1>3, <1>4, <1>5, <1>6, SameLoans, PoolInvPartsNext DEF PoolStep

LEMMA EnvironmentStep ==
    ASSUME PoolInv, EnvironmentNext
    PROVE  PoolInv' /\ PoolStep
<1> USE DEF EnvironmentNext
<1>1. /\ now \in Nat \ {0} /\ pauseStartTime \in Nat /\ pauseDurationTime \in Nat
      /\ paused \in BOOLEAN /\ oracle \in [NftAssets -> [price : Nat, stale : BOOLEAN]]
      /\ borrowAllowances \in [Reserves -> [Users -> [Users -> Nat]]]
    BY DEF PoolInv, TypeOK
<1>2. SettingsOK
    BY PoolInvParts
<1>3. CASE now < MaxTime /\ Tick
  <2>1. SettingsOK' /\ now' >= now
      BY <1>1, <1>2, <1>3 DEF Tick, SettingsOK, pauseVars
  <2> QED
      BY <1>1, <1>3, <2>1, SettingsStep DEF Tick
<1>4. ASSUME NEW val \in BOOLEAN, SetPause(val)
      PROVE  PoolInv' /\ PoolStep
  <2>1. SettingsOK' /\ now' >= now
      BY <1>1, <1>2, <1>4 DEF SetPause, SettingsOK
  <2> QED
      BY <1>1, <1>4, <2>1, SettingsStep DEF SetPause
<1>5. ASSUME NEW p \in PausedTimes, SetPausedTime(p[1], p[2])
      PROVE  PoolInv' /\ PoolStep
  <2>1. p[1] \in Nat /\ p[2] \in Nat
      OBVIOUS
  <2>2. SettingsOK' /\ now' >= now
      BY <1>1, <1>2, <1>5, <2>1 DEF SetPausedTime, SettingsOK
  <2> QED
      BY <1>1, <1>5, <2>2, SettingsStep DEF SetPausedTime
<1>6. ASSUME NEW asset \in NftAssets, NEW x \in OracleReadings, SetOracle(asset, x)
      PROVE  PoolInv' /\ PoolStep
  <2>1. oracle' \in [NftAssets -> [price : Nat, stale : BOOLEAN]]
      BY <1>1, <1>6 DEF SetOracle
  <2>2. SettingsOK' /\ now' >= now
      BY <1>1, <1>2, <1>6, <2>1 DEF SetOracle, SettingsOK, pauseVars
  <2> QED
      BY <1>1, <1>6, <2>2, SettingsStep DEF SetOracle
<1>7. ASSUME NEW r \in Reserves, NEW u \in Users, NEW v \in Users, NEW a \in Delegations,
             ApproveDelegation(r, u, v, a)
      PROVE  PoolInv' /\ PoolStep
  <2>1. borrowAllowances' \in [Reserves -> [Users -> [Users -> Nat]]]
      BY <1>1, <1>7, InputsNat DEF ApproveDelegation
  <2>2. SettingsOK' /\ now' >= now
      BY <1>1, <1>2, <1>7 DEF ApproveDelegation, SettingsOK, pauseVars
  <2> QED
      BY <1>7, <2>1, <2>2, SettingsStep DEF ApproveDelegation
<1>8. CASE Configures /\ ConfigureFlags
    BY <1>8, ConfigureStep
<1>9. CASE Moves /\ ExternalNext /\ UNCHANGED poolVars
    BY <1>9, ExternalStep
<1> QED
    BY <1>3, <1>4, <1>5, <1>6, <1>7, <1>8, <1>9

LEMMA StutterStep ==
    ASSUME PoolInv, UNCHANGED vars
    PROVE  PoolInv' /\ PoolStep
<1>1. /\ UNCHANGED <<loanVars, moneyVars>>
      /\ UNCHANGED <<borrowAllowances, flags, oracle, pauseVars, now>>
    BY DEF vars, poolVars
<1>2. SettingsOK'
    BY <1>1, SettingsStay
<1>3. borrowAllowances' \in [Reserves -> [Users -> [Users -> Nat]]] /\ now' >= now
    BY <1>1 DEF PoolInv, TypeOK
<1> QED
    BY <1>1, <1>2, <1>3, SettingsStep

\* One step of the pool keeps the invariant, and does to loans, promises and
\* debts only what PoolStep allows.
LEMMA NextKeepsPool == PoolInv /\ [Next]_vars => PoolInv' /\ PoolStep
    BY SupplyStep, LoanStep, EnvironmentStep, StutterStep DEF Next

LEMMA InitPool == Init => PoolInv
<1> SUFFICES ASSUME Init
             PROVE  PoolInv
    OBVIOUS
<1>1. LedgerInv /\ CollateralCounted
    BY InitInv, InitCount DEF Init
<1>2. NewReserve \in ReserveData /\ SoundReserve(NewReserve, 1)
    BY DEF NewReserve, ReserveData, SoundReserve
<1>3. ReservesOK
    BY <1>2 DEF Init, ReservesOK
<1>4. BalancesOK
    BY DEF Init, BalancesOK
<1>5. SettingsOK
  <2>1. oracle \in [NftAssets -> [price : Nat, stale : BOOLEAN]]
    <3>1. \A p \in Amounts : [price |-> p, stale |-> FALSE] \in [price : Nat, stale : BOOLEAN]
        OBVIOUS
    <3>2. {[price |-> p, stale |-> FALSE] : p \in Amounts}
              \subseteq [price : Nat, stale : BOOLEAN]
        BY <3>1
    <3>3. oracle \in [NftAssets -> {[price |-> p, stale |-> FALSE] : p \in Amounts}]
        BY DEF Init
    <3> HIDE LedgerAssumption
    <3> QED
        BY <3>2, <3>3
  <2>2. flags \in [active : SUBSET Reserves, frozen : SUBSET Reserves,
                   borrowing : SUBSET Reserves, nftActive : SUBSET NftAssets,
                   nftFrozen : SUBSET NftAssets]
      BY DEF Init
  <2>3. paused \in BOOLEAN /\ pauseStartTime = 0 /\ pauseDurationTime = 0 /\ now = 1
      BY DEF Init
  <2> QED
      BY <2>1, <2>2, <2>3 DEF SettingsOK
<1> QED
    BY <1>1, <1>3, <1>4, <1>5, PoolInvParts

-----------------------------------------------------------------------------
(***************************************************************************)
(* Theorems.                                                               *)
(***************************************************************************)
\* PoolInv is an invariant of the pool, for any number of users, reserves and
\* collections and whatever the inputs, prices, pauses and configuration.
THEOREM PoolInvariant == Spec => []PoolInv
    BY InitPool, NextKeepsPool, PTL DEF Spec

\* Type correctness: in particular no balance, no supply, no cash and no escrow of
\* the pool is ever computed below zero by borrow, repay, auction, redeem,
\* liquidate, withdraw or the accrual of a reserve.
THEOREM PoolTypeCorrect == Spec => []TypeOK
    BY PoolInvariant, PTL DEF PoolInv

\* The ledger's counters, which the configurator asks before it deactivates a
\* collection, stay right when the pool drives the ledger.
THEOREM PoolCountsCollateral == Spec => []CollateralCounted
    BY PoolInvariant, PTL DEF PoolInv

\* Whatever users, bidders, lockers and administrators do through the pool and
\* around it, an NFT goes back to its borrower or to the leading bidder.
THEOREM PoolKeepsPromise == Spec => KeepsPromise
<1>1. PoolInv /\ [Next]_vars => [Promise!Next]_(Promise!vars)
    BY NextKeepsPool DEF PoolStep, PromiseStep
<1>2. Init => Promise!Init
    BY InitKept DEF Init
<1> QED
    BY <1>1, <1>2, PoolInvariant, PTL DEF Spec, KeepsPromise, Promise!Spec

\* Only a loan whose debt exceeds the liquidation threshold is put up for auction.
THEOREM OnlyUnhealthyLoansAreSold == Spec => OnlyUnhealthyOnSale
<1>1. PoolInv /\ [Next]_vars => [SaleStep]_vars
    BY NextKeepsPool DEF PoolStep
<1> QED
    BY <1>1, PoolInvariant, PTL DEF Spec, OnlyUnhealthyOnSale, SaleStep

\* A loan is closed only against its whole debt, which scaling by the index and
\* back loses nothing of (ScalingIsExact).
THEOREM DebtsArePaidInFull == Spec => DebtPaidInFull
<1>1. PoolInv /\ [Next]_vars => [PaidStep]_vars
    BY NextKeepsPool DEF PoolStep
<1> QED
    BY <1>1, PoolInvariant, PTL DEF Spec, DebtPaidInFull, PaidStep

\* The life cycle of loans and the rule of rising bids, with the pool as caller.
THEOREM PoolFollowsLifecycle == Spec => [][LedgerStep]_vars
<1>1. PoolInv /\ [Next]_vars => [LedgerStep]_vars
    BY NextKeepsPool DEF PoolStep
<1> QED
    BY <1>1, PoolInvariant, PTL DEF Spec
=============================================================================
