---------------------------- MODULE ReserveLogic ----------------------------
(***************************************************************************)
(* Interest accrual of one reserve (libraries/logic/ReserveLogic.sol and   *)
(* protocol/InterestRate.sol) as functions of the reserve's record, its    *)
(* scaled debt, its cash and the block time.                               *)
(***************************************************************************)
EXTENDS LenderMath

CONSTANTS
    ReserveFactor,              \* share of the interest for the treasury
    OPTIMAL_UTILIZATION_RATE,   \* the kink of the rate curve, in ray
    BaseVariableBorrowRate,
    VariableRateSlope1,
    VariableRateSlope2

ASSUME RateAssumption ==
    /\ ReserveFactor \in 0..PERCENTAGE_FACTOR
    /\ OPTIMAL_UTILIZATION_RATE \in 1..(RAY - 1)
    /\ BaseVariableBorrowRate \in Nat
    /\ VariableRateSlope1 \in Nat
    /\ VariableRateSlope2 \in Nat

ReserveData ==
    [liquidityIndex : Nat, variableBorrowIndex : Nat,
     currentLiquidityRate : Nat, currentVariableBorrowRate : Nat,
     lastUpdateTimestamp : Nat]

\* init: a reserve that was just added to the pool, with the zero rates and
\* time stamp of a fresh storage slot
NewReserve ==
    [liquidityIndex |-> RAY, variableBorrowIndex |-> RAY,
     currentLiquidityRate |-> 0, currentVariableBorrowRate |-> 0,
     lastUpdateTimestamp |-> 0]

\* Fault: suppliers are shown the rate that borrowers pay
IncomeAtBorrowRate(r, now) ==
    IF r.lastUpdateTimestamp = now THEN r.liquidityIndex
    ELSE RayMul(LinearInterest(r.currentVariableBorrowRate, now - r.lastUpdateTimestamp),
                r.liquidityIndex)

NormalizedIncome(r, now) ==
    IF r.lastUpdateTimestamp = now THEN r.liquidityIndex
    ELSE RayMul(LinearInterest(r.currentLiquidityRate, now - r.lastUpdateTimestamp),
                r.liquidityIndex)

NormalizedDebt(r, now) ==
    IF r.lastUpdateTimestamp = now THEN r.variableBorrowIndex
    ELSE RayMul(CompoundedInterest(r.currentVariableBorrowRate,
                                   now - r.lastUpdateTimestamp),
                r.variableBorrowIndex)

\* Fault: the time stamp moves only when interest accrues
UpdateIndexesLazily(r, scaledVariableDebt, now) ==
    LET exp == now - r.lastUpdateTimestamp IN
    IF r.currentLiquidityRate > 0
    THEN [r EXCEPT
            !.liquidityIndex = RayMul(LinearInterest(r.currentLiquidityRate, exp), @),
            !.variableBorrowIndex =
              IF scaledVariableDebt # 0
              THEN RayMul(CompoundedInterest(r.currentVariableBorrowRate, exp), @)
              ELSE @,
            !.lastUpdateTimestamp = now]
    ELSE r

\* _updateIndexes: both indexes move only while suppliers earn something, and
\* the borrow index only if there is debt; the time stamp always moves
UpdateIndexes(r, scaledVariableDebt, now) ==
    LET exp == now - r.lastUpdateTimestamp
        accrues == r.currentLiquidityRate > 0
    IN  [r EXCEPT
          !.liquidityIndex =
            IF accrues THEN RayMul(LinearInterest(r.currentLiquidityRate, exp), @)
            ELSE @,
          !.variableBorrowIndex =
            IF accrues /\ scaledVariableDebt # 0
            THEN RayMul(CompoundedInterest(r.currentVariableBorrowRate, exp), @)
            ELSE @,
          !.lastUpdateTimestamp = now]

\* Fault: the debt before the accrual minus the debt after it
MintSwapped(r, s, scaledVariableDebt) ==
    LET totalDebtAccrued == RayMul(scaledVariableDebt, r.variableBorrowIndex)
                            - RayMul(scaledVariableDebt, s.variableBorrowIndex)
    IN  RayDiv(PercentMul(totalDebtAccrued, ReserveFactor), s.liquidityIndex)

\* _mintToTreasury: the scaled bTokens minted for the treasury when the
\* reserve moves from r to s
MintToTreasury(r, s, scaledVariableDebt) ==
    LET totalDebtAccrued == RayMul(scaledVariableDebt, s.variableBorrowIndex)
                            - RayMul(scaledVariableDebt, r.variableBorrowIndex)
        amountToMint == PercentMul(totalDebtAccrued, ReserveFactor)
    IN  RayDiv(amountToMint, s.liquidityIndex)

-----------------------------------------------------------------------------
UtilizationRate(availableLiquidity, totalVariableDebt) ==
    IF totalVariableDebt = 0 THEN 0
    ELSE RayDiv(totalVariableDebt, availableLiquidity + totalVariableDebt)

VariableBorrowRate(utilizationRate) ==
    LET excess == RayDiv(utilizationRate - OPTIMAL_UTILIZATION_RATE,
                         RAY - OPTIMAL_UTILIZATION_RATE)
    IN  IF utilizationRate > OPTIMAL_UTILIZATION_RATE
        THEN BaseVariableBorrowRate + VariableRateSlope1
                + RayMul(VariableRateSlope2, excess)
        ELSE BaseVariableBorrowRate
                + RayDiv(RayMul(utilizationRate, VariableRateSlope1),
                         OPTIMAL_UTILIZATION_RATE)

OverallBorrowRate(totalVariableDebt, variableBorrowRate) ==
    IF totalVariableDebt = 0 THEN 0
    ELSE RayDiv(RayMul(WadToRay(totalVariableDebt), variableBorrowRate),
                WadToRay(totalVariableDebt))

LiquidityRate(utilizationRate, totalVariableDebt) ==
    PercentMul(RayMul(OverallBorrowRate(totalVariableDebt,
                                        VariableBorrowRate(utilizationRate)),
                      utilizationRate),
               PERCENTAGE_FACTOR - ReserveFactor)

\* updateInterestRates, with the scaled debt and the cash after the operation
UpdateInterestRates(r, scaledVariableDebt, availableLiquidity) ==
    LET totalVariableDebt == RayMul(scaledVariableDebt, r.variableBorrowIndex)
        utilizationRate == UtilizationRate(availableLiquidity, totalVariableDebt)
    IN  [r EXCEPT
          !.currentLiquidityRate = LiquidityRate(utilizationRate, totalVariableDebt),
          !.currentVariableBorrowRate = VariableBorrowRate(utilizationRate)]
=============================================================================
