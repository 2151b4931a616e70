----------------------------- MODULE LenderMath -----------------------------
(***************************************************************************)
(* Fixed-point arithmetic of libraries/math.  Every operation of the code  *)
(* is unsigned, reverts on overflow instead of wrapping and rounds half    *)
(* up, so the integers of TLA+ with the same rounding are its values.      *)
(*                                                                         *)
(* RAY, WAD and SECONDS_PER_YEAR are 1e27, 1e18 and 31536000 in the code.  *)
(* They are parameters here, which makes rounding - a last-digit effect in *)
(* production - visible at the size of instance TLC can enumerate.         *)
(***************************************************************************)
EXTENDS Integers

CONSTANTS RAY, WAD, SECONDS_PER_YEAR

ASSUME MathAssumption ==
    /\ RAY \in Nat \ {0} /\ RAY % 2 = 0
    /\ WAD \in Nat \ {0} /\ WAD % 2 = 0
    /\ RAY % WAD = 0
    /\ SECONDS_PER_YEAR \in Nat \ {0}

PERCENTAGE_FACTOR == 10000
ONE_PERCENT == 100
TEN_PERCENT == 1000

HALF_RAY == RAY \div 2

WadToRay(a) == a * (RAY \div WAD)

RayMul(a, b) == (a * b + HALF_RAY) \div RAY

RayDiv(a, b) == (a * RAY + (b \div 2)) \div b

WadDiv(a, b) == (a * WAD + (b \div 2)) \div b

PercentMul(value, percentage) ==
    (value * percentage + PERCENTAGE_FACTOR \div 2) \div PERCENTAGE_FACTOR

PercentDiv(value, percentage) ==
    (value * PERCENTAGE_FACTOR + percentage \div 2) \div percentage

(***************************************************************************)
(* Interest factors over exp elapsed seconds: linear for the suppliers and *)
(* the three-term binomial expansion of (1 + rate)^exp for the borrowers.  *)
(***************************************************************************)
LinearInterest(rate, exp) == (rate * exp) \div SECONDS_PER_YEAR + RAY

CompoundedInterest(rate, exp) ==
    LET perSecond == rate \div SECONDS_PER_YEAR
        second == RayMul(perSecond, perSecond)
        third == RayMul(second, perSecond)
        expMinusTwo == IF exp > 2 THEN exp - 2 ELSE 0
    IN  IF exp = 0 THEN RAY
        ELSE RAY + perSecond * exp
                 + (exp * (exp - 1) * second) \div 2
                 + (exp * (exp - 1) * expMinusTwo * third) \div 6
=============================================================================
