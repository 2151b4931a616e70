--------------------------- MODULE LenderMathProofs --------------------------
(***************************************************************************)
(* Theorems about the arithmetic: fixed-point operations and finite sums.  *)
(***************************************************************************)
EXTENDS LenderMath, FiniteSetsExt, FiniteSetTheorems, WellFoundedInduction, TLAPS

-----------------------------------------------------------------------------
(***************************************************************************)
(* Finite sums of naturals.                                                *)
(***************************************************************************)
\* fun[x] units for every x in S, told apart
Units(fun, S) == UNION {{x} \X (1..fun[x]) : x \in S}

LEMMA UnitsOfOne ==
    ASSUME NEW fun, NEW x, fun[x] \in Nat
    PROVE  /\ IsFiniteSet({x} \X (1..fun[x]))
           /\ Cardinality({x} \X (1..fun[x])) = fun[x]
<1> DEFINE n == fun[x]
           T == {x} \X (1..n)
           f == [i \in 1..n |-> <<x, i>>]
<1>1. IsFiniteSet(1..n) /\ Cardinality(1..n) = n
    BY FS_Interval
<1>2. f \in Bijection(1..n, T)
  <2>1. f \in [1..n -> T]
      OBVIOUS
  <2>2. \A i, j \in 1..n : f[i] = f[j] => i = j
      OBVIOUS
  <2>3. \A t \in T : \E i \in 1..n : f[i] = t
      OBVIOUS
  <2> QED
      BY <2>1, <2>2, <2>3 DEF Bijection, Injection, Surjection, IsInjective
<1>3. ExistsBijection(1..n, T)
    BY <1>2 DEF ExistsBijection
<1> QED
    BY <1>1, <1>3, FS_Bijection

LEMMA UnitsAdd ==
    ASSUME NEW fun, NEW S, IsFiniteSet(Units(fun, S)),
           NEW x, x \notin S, fun[x] \in Nat
    PROVE  /\ IsFiniteSet(Units(fun, S \cup {x}))
           /\ Cardinality(Units(fun, S \cup {x})) = Cardinality(Units(fun, S)) + fun[x]
<1> DEFINE A == Units(fun, S)
           B == {x} \X (1..fun[x])
<1>1. IsFiniteSet(B) /\ Cardinality(B) = fun[x]
    BY UnitsOfOne
<1>2. Units(fun, S \cup {x}) = A \cup B
    BY DEF Units
<1>3. A \cap B = {}
    BY DEF Units
<1>4. Cardinality({}) = 0
    BY FS_EmptySet
<1>5. IsFiniteSet(A)
    OBVIOUS
<1>6. Cardinality(A) \in Nat
    BY <1>5, FS_CardinalityType
<1> HIDE DEF A, B
<1>7. IsFiniteSet(A \cup B) /\ Cardinality(A \cup B) = Cardinality(A) + Cardinality(B) - Cardinality(A \cap B)
    BY <1>1, <1>5, FS_Union
<1>8. Cardinality(A \cap B) = 0
    BY <1>3, <1>4
<1> DEFINE a == Cardinality(A)
           b == Cardinality(B)
           ab == Cardinality(A \cap B)
<1>9. Cardinality(A \cup B) = a + b - ab
    BY <1>7
<1>10. ab = 0 /\ a \in Nat /\ b \in Nat /\ b = fun[x]
    BY <1>1, <1>6, <1>8
<1> HIDE DEF a, b, ab
<1>11. Cardinality(A \cup B) = a + fun[x]
    BY <1>9, <1>10
<1> QED
    BY <1>2, <1>7, <1>11 DEF A, a
LEMMA UnitsOfNothing ==
    ASSUME NEW fun
    PROVE  IsFiniteSet(Units(fun, {})) /\ Cardinality(Units(fun, {})) = 0
<1>1. Units(fun, {}) = {}
    BY DEF Units
<1> QED
    BY <1>1, FS_EmptySet

LEMMA UnitsFinite ==
    ASSUME NEW fun, NEW S, IsFiniteSet(S), \A x \in S : fun[x] \in Nat
    PROVE  \A T \in SUBSET S : IsFiniteSet(Units(fun, T))
<1>1. \A T \in {{x} \X (1..fun[x]) : x \in S} : IsFiniteSet(T)
    BY UnitsOfOne
<1>2. IsFiniteSet({{x} \X (1..fun[x]) : x \in S})
  <2> DEFINE T == {{x} \X (1..fun[x]) : x \in S}
             f == [x \in S |-> {x} \X (1..fun[x])]
  <2>1. f \in Surjection(S, T)
      BY DEF Surjection
  <2> QED
      BY <2>1, FS_Surjection
<1>3. IsFiniteSet(Units(fun, S))
    BY <1>1, <1>2, FS_UNION DEF Units
<1>4. \A T \in SUBSET S : Units(fun, T) \subseteq Units(fun, S)
    BY DEF Units
<1> QED
    BY <1>3, <1>4, FS_Subset

\* The library's sum, a recursion over the subsets of S, is the number of units.
\* The numbers of units satisfy its equation, so a function that does exists; and
\* a least subset on which the two differ would contradict the equation.
LEMMA SumCountsUnits ==
    ASSUME NEW fun, NEW S, IsFiniteSet(S), \A x \in S : fun[x] \in Nat
    PROVE  SumFunctionOnSet(fun, S) = Cardinality(Units(fun, S))
<1> DEFINE Pick(s) == CHOOSE x \in s : TRUE
           Rec(g) == [s \in SUBSET S |-> IF s = {} THEN 0 ELSE fun[Pick(s)] + g[s \ {Pick(s)}]]
           iter == CHOOSE g : g = Rec(g)
           N == [s \in SUBSET S |-> Cardinality(Units(fun, s))]
<1>1. SumFunctionOnSet(fun, S) = iter[S]
    BY DEF SumFunctionOnSet, FoldFunctionOnSet, MapThenFoldSet
<1>2. ASSUME NEW s \in SUBSET S, s # {}
      PROVE  /\ Pick(s) \in s /\ s \ {Pick(s)} \in SUBSET S
             /\ Cardinality(Units(fun, s)) = fun[Pick(s)] + Cardinality(Units(fun, s \ {Pick(s)}))
  <2> DEFINE x == Pick(s)
             rest == s \ {x}
  <2>1. x \in s
      BY <1>2
  <2> HIDE DEF x
  <2>2. /\ x \in S /\ fun[x] \in Nat /\ x \notin rest /\ rest \in SUBSET S
        /\ s = rest \cup {x}
      BY <2>1
  <2> HIDE DEF rest
  <2>3. IsFiniteSet(Units(fun, rest))
      BY <2>2, UnitsFinite
  <2>4. Cardinality(Units(fun, rest \cup {x})) = Cardinality(Units(fun, rest)) + fun[x]
      BY <2>2, <2>3, UnitsAdd
  <2>5. Cardinality(Units(fun, rest)) \in Nat
      BY <2>3, FS_CardinalityType
  <2>6. Cardinality(Units(fun, s)) = fun[x] + Cardinality(Units(fun, rest))
      BY <2>2, <2>4, <2>5
  <2> QED
      BY <2>1, <2>2, <2>6 DEF x, rest
<1>3. N = Rec(N)
  <2>1. ASSUME NEW s \in SUBSET S
        PROVE  N[s] = IF s = {} THEN 0 ELSE fun[Pick(s)] + N[s \ {Pick(s)}]
    <3>1. CASE s = {}
        BY <3>1, UnitsOfNothing
    <3>2. CASE s # {}
        BY <3>2, <1>2
    <3> QED
        BY <3>1, <3>2
  <2> HIDE DEF Pick
  <2>2. N = [s \in SUBSET S |-> N[s]]
      OBVIOUS
  <2> HIDE DEF N
  <2> QED
      BY <2>1, <2>2
<1>4. iter = Rec(iter)
  <2> HIDE DEF Rec, N
  <2> QED
      BY <1>3
<1>5. \A s \in SUBSET S : iter[s] = N[s]
  <2> DEFINE Bad == {s \in SUBSET S : iter[s] # N[s]}
  <2>1. SUFFICES ASSUME Bad # {} PROVE FALSE
      OBVIOUS
  <2>2. IsWellFoundedOn(StrictSubsetOrdering(S), SUBSET S)
      BY FS_StrictSubsetOrderingWellFounded, FS_FiniteSubsetsOfFinite
  <2>3. PICK s \in Bad : \A t \in Bad : <<t, s>> \notin StrictSubsetOrdering(S)
    <3> HIDE DEF Bad
    <3>1. Bad \subseteq SUBSET S
        BY DEF Bad
    <3> QED
        BY <2>1, <2>2, <3>1, WFMin
  <2>4. s \in SUBSET S /\ iter[s] # N[s]
      OBVIOUS
  <2>5. CASE s = {}
      BY <1>3, <1>4, <2>4, <2>5
  <2>6. CASE s # {}
    <3> DEFINE rest == s \ {Pick(s)}
    <3>1. Pick(s) \in s /\ rest \in SUBSET S
        BY <1>2, <2>6
    <3>2. /\ iter[s] = fun[Pick(s)] + iter[rest]
          /\ N[s] = fun[Pick(s)] + N[rest]
      <4> HIDE DEF N, Pick
      <4> QED
        BY <1>3, <1>4, <2>4, <2>6
    <3>3. rest \in Bad
      <4> HIDE DEF iter, N, Pick
      <4> QED
        BY <2>4, <3>1, <3>2
    <3>4. <<rest, s>> \in StrictSubsetOrdering(S)
        BY <2>4, <3>1 DEF StrictSubsetOrdering
    <3> QED
        BY <2>3, <3>3, <3>4
  <2> QED
      BY <2>5, <2>6
<1>6. S \in SUBSET S
    OBVIOUS
<1> HIDE DEF iter
<1> QED
    BY <1>1, <1>5, <1>6

LEMMA SumNat ==
    ASSUME NEW S, IsFiniteSet(S), NEW f \in [S -> Nat]
    PROVE  SumFunction(f) \in Nat /\ SumFunction(f) = Cardinality(Units(f, S))
<1>1. SumFunction(f) = SumFunctionOnSet(f, S)
    BY DEF SumFunction
<1>2. SumFunctionOnSet(f, S) = Cardinality(Units(f, S))
    BY SumCountsUnits
<1>3. IsFiniteSet(Units(f, S))
    BY UnitsFinite
<1> QED
    BY <1>1, <1>2, <1>3, FS_CardinalityType

\* What is zero outside of T does not count.
LEMMA SumSelected ==
    ASSUME NEW S, IsFiniteSet(S), NEW f \in [S -> Nat],
           NEW T \in SUBSET S, NEW g \in [T -> Nat],
           \A x \in T : f[x] = g[x], \A x \in S \ T : f[x] = 0
    PROVE  SumFunction(f) = SumFunction(g)
<1>1. IsFiniteSet(T)
    BY FS_Subset
<1>2. Units(f, S) = Units(g, T)
  <2>1. \A x \in S \ T : 1..f[x] = {}
      OBVIOUS
  <2> QED
      BY <2>1 DEF Units
<1> QED
    BY <1>1, <1>2, SumNat

\* One more summand.
LEMMA SumExtended ==
    ASSUME NEW S, IsFiniteSet(S), NEW T, NEW x \in T, x \notin S, T = S \cup {x},
           NEW f \in [S -> Nat], NEW g \in [T -> Nat],
           \A y \in S : g[y] = f[y]
    PROVE  SumFunction(g) = SumFunction(f) + g[x]
<1>1. IsFiniteSet(T)
    BY FS_AddElement
<1>2. Units(g, S) = Units(f, S)
    BY DEF Units
<1>3. IsFiniteSet(Units(g, S))
    BY <1>2, UnitsFinite
<1>4. Cardinality(Units(g, T)) = Cardinality(Units(g, S)) + g[x]
    BY <1>3, UnitsAdd
<1>5. SumFunction(f) = Cardinality(Units(g, S))
    BY <1>2, SumNat
<1>6. SumFunction(g) = Cardinality(Units(g, T))
    BY <1>1, SumNat
<1> QED
    BY <1>4, <1>5, <1>6

\* A summand changes; none exceeds the sum.
LEMMA SumChanged ==
    ASSUME NEW S, IsFiniteSet(S), NEW x \in S,
           NEW f \in [S -> Nat], NEW g \in [S -> Nat],
           \A y \in S : y # x => g[y] = f[y]
    PROVE  /\ f[x] <= SumFunction(f)
           /\ SumFunction(g) = SumFunction(f) - f[x] + g[x]
<1> DEFINE R == S \ {x}
           h == [y \in R |-> f[y]]
<1>1. IsFiniteSet(R) /\ x \notin R /\ S = R \cup {x}
    BY FS_RemoveElement
<1>2. h \in [R -> Nat] /\ \A y \in R : f[y] = h[y] /\ g[y] = h[y]
    OBVIOUS
<1> HIDE DEF R, h
<1>3. SumFunction(f) = SumFunction(h) + f[x] /\ SumFunction(g) = SumFunction(h) + g[x]
    BY <1>1, <1>2, SumExtended
<1>4. SumFunction(h) \in Nat /\ f[x] \in Nat /\ g[x] \in Nat
    BY <1>1, <1>2, SumNat
<1> QED
    BY <1>3, <1>4

LEMMA SumOfZeros ==
    ASSUME NEW S, IsFiniteSet(S), NEW f \in [S -> Nat], \A x \in S : f[x] = 0
    PROVE  SumFunction(f) = 0
<1>1. Units(f, S) = {}
    BY DEF Units
<1> QED
    BY <1>1, SumNat, FS_EmptySet

-----------------------------------------------------------------------------
(***************************************************************************)
(* Fixed-point operations.                                                 *)
(***************************************************************************)

USE MathAssumption

\* A quotient of naturals is a natural.
LEMMA DivNat ==
    ASSUME NEW x \in Nat, NEW b \in Nat \ {0}
    PROVE  x \div b \in Nat
    BY SMT

\* The quotient is the one integer within a divisor of the dividend.
LEMMA DivBounds ==
    ASSUME NEW x \in Nat, NEW b \in Nat \ {0}
    PROVE  (x \div b) * b <= x /\ x < (x \div b) * b + b
    BY SMT

LEMMA DivUnique ==
    ASSUME NEW x \in Nat, NEW b \in Nat \ {0}, NEW q \in Nat,
           q * b <= x, x < q * b + b
    PROVE  x \div b = q
    BY SMT

LEMMA HalfRay == HALF_RAY \in Nat /\ HALF_RAY + HALF_RAY = RAY
    BY SMT DEF HALF_RAY

\* Scaled amounts, amounts and percentages are naturals.
LEMMA RayDivNat ==
    ASSUME NEW a \in Nat, NEW b \in Nat \ {0}
    PROVE  RayDiv(a, b) \in Nat
<1>1. a * RAY \in Nat
    BY SMT
<1>2. b \div 2 \in Nat
    BY DivNat
<1> QED
    BY <1>1, <1>2, DivNat DEF RayDiv

LEMMA RayMulNat ==
    ASSUME NEW a \in Nat, NEW b \in Nat
    PROVE  RayMul(a, b) \in Nat
<1>1. a * b \in Nat
    BY SMT
<1>2. HALF_RAY \in Nat
    BY HalfRay
<1> QED
    BY <1>1, <1>2, DivNat DEF RayMul

LEMMA PercentMulNat ==
    ASSUME NEW a \in Nat, NEW p \in Nat
    PROVE  PercentMul(a, p) \in Nat
<1>1. a * p \in Nat
    BY SMT
<1>2. PERCENTAGE_FACTOR \in Nat \ {0} /\ PERCENTAGE_FACTOR \div 2 \in Nat
    BY DivNat DEF PERCENTAGE_FACTOR
<1> QED
    BY <1>1, <1>2, DivNat DEF PercentMul

LEMMA WadToRayNat ==
    ASSUME NEW a \in Nat
    PROVE  WadToRay(a) \in Nat /\ (a # 0 => WadToRay(a) # 0)
<1> DEFINE k == RAY \div WAD
<1>1. k \in Nat /\ RAY < k * WAD + WAD /\ k * WAD <= RAY
    BY DivNat, DivBounds
<1>2. k # 0
  <2> SUFFICES ASSUME k = 0
               PROVE  FALSE
      OBVIOUS
  <2>1. RAY < WAD
      BY <1>1, SMT
  <2>2. RAY % WAD = RAY
      BY <2>1, SMT
  <2> QED
      BY <2>2
<1> HIDE DEF k
<1>3. a * k \in Nat /\ (a # 0 => a * k # 0)
    BY <1>1, <1>2, SMT
<1> QED
    BY <1>3 DEF WadToRay, k

-----------------------------------------------------------------------------
\* What rayMul returns, as a multiple of RAY, is within half a RAY of the product.
LEMMA RayMulBounds ==
    ASSUME NEW a \in Nat, NEW b \in Nat
    PROVE  /\ RayMul(a, b) * RAY <= a * b + HALF_RAY
           /\ a * b + HALF_RAY < RayMul(a, b) * RAY + RAY
<1>1. a * b + HALF_RAY \in Nat
    BY HalfRay, SMT
<1> QED
    BY <1>1, DivBounds DEF RayMul

\* A factor of at least one ray does not make a number smaller.
LEMMA RayMulGrows ==
    ASSUME NEW c \in Nat, c >= RAY, NEW x \in Nat
    PROVE  RayMul(c, x) >= x
<1> DEFINE q == RayMul(c, x)
<1>1. q \in Nat
    BY RayMulNat
<1>2. c * x + HALF_RAY < q * RAY + RAY
    BY RayMulBounds
<1>3. RAY * x <= c * x
    BY SMT
<1> HIDE DEF q
<1>4. RAY * x < (q + 1) * RAY
    BY <1>1, <1>2, <1>3, HalfRay, SMT
<1>5. x < q + 1
    BY <1>1, <1>4, SMT
<1> QED
    BY <1>1, <1>5 DEF q

\* One ray is the neutral factor.
LEMMA RayMulByOne ==
    ASSUME NEW x \in Nat
    PROVE  RayMul(RAY, x) = x
<1>1. /\ RAY * x + HALF_RAY \in Nat
      /\ x * RAY <= RAY * x + HALF_RAY /\ RAY * x + HALF_RAY < x * RAY + RAY
    BY MathAssumption, HalfRay, SMT
<1>2. (RAY * x + HALF_RAY) \div RAY = x
    BY <1>1, MathAssumption, DivUnique
<1> QED
    BY <1>2 DEF RayMul

\* Nothing is worth nothing.
LEMMA RayMulZero ==
    ASSUME NEW x \in Nat
    PROVE  RayMul(0, x) = 0
<1>1. 0 * x = 0 /\ HALF_RAY \in Nat /\ HALF_RAY < RAY
    BY MathAssumption, HalfRay, SMT
<1>2. HALF_RAY \div RAY = 0
    BY <1>1, MathAssumption, DivUnique
<1> QED
    BY <1>1, <1>2 DEF RayMul

LEMMA PercentMulZero ==
    ASSUME NEW p \in Nat
    PROVE  PercentMul(0, p) = 0
<1>1. 0 * p = 0
    BY SMT
<1>2. 5000 \div 10000 = 0
    BY SMT
<1> QED
    BY <1>1, <1>2 DEF PercentMul, PERCENTAGE_FACTOR

\* One percent of something is no more than it.
LEMMA PercentMulLowers ==
    ASSUME NEW x \in Nat
    PROVE  PercentMul(x, 100) <= x
    BY SMT DEF PercentMul, PERCENTAGE_FACTOR

\* At least half of something is something.
LEMMA PercentMulPositive ==
    ASSUME NEW x \in Nat \ {0}, NEW p \in Nat, p >= 5000
    PROVE  PercentMul(x, p) # 0
<1>1. x * p >= 5000 /\ x * p \in Nat
    BY SMT
<1>2. (x * p + 5000) \div 10000 # 0
    BY <1>1, SMT
<1> QED
    BY <1>2 DEF PercentMul, PERCENTAGE_FACTOR

\* A number of wei is at least one ray when counted in rays.
LEMMA WadToRayScale ==
    ASSUME NEW a \in Nat \ {0}
    PROVE  WadToRay(a) \in Nat \ {0} /\ WadToRay(a) * WAD >= RAY
<1> DEFINE k == RAY \div WAD
<1>1. k \in Nat /\ k * WAD = RAY
    BY MathAssumption, SMT
<1>2. WadToRay(a) \in Nat \ {0}
    BY WadToRayNat
<1>3. WadToRay(a) = a * k
    BY DEF WadToRay, k
<1> HIDE DEF k
<1>4. k <= a * k
    BY <1>1, SMT
<1>5. k * WAD <= (a * k) * WAD
    BY <1>1, <1>4, MathAssumption, SMT
<1> QED
    BY <1>1, <1>2, <1>3, <1>5

\* A rate of at least one wei of a ray, applied to an amount of rays, is not lost.
LEMMA RateOutweighsRounding ==
    ASSUME NEW w \in Nat \ {0}, NEW rate \in Nat, rate >= WAD, WAD >= 2, w * WAD >= RAY,
           NEW q \in Nat, w * rate + HALF_RAY < q * RAY + RAY
    PROVE  q * RAY \in Nat /\ q * RAY >= w
<1>1. q * RAY \in Nat /\ w * rate \in Nat /\ w * WAD \in Nat
    BY MathAssumption, SMT
<1>2. w * WAD <= w * rate
    BY MathAssumption, SMT
<1>3. w + w <= w * WAD
    BY MathAssumption, SMT
<1>4. RAY - HALF_RAY = HALF_RAY /\ HALF_RAY \in Nat /\ RAY \in Nat
    BY MathAssumption, HalfRay
<1>5. w * rate < q * RAY + HALF_RAY
    BY <1>1, <1>4
<1>6. HALF_RAY + HALF_RAY <= w * rate
    BY <1>1, <1>2, <1>4, HalfRay
<1>7. w + w <= w * rate
    BY <1>1, <1>2, <1>3
<1> QED
    BY <1>1, <1>4, <1>5, <1>6, <1>7

\* What is at least the divisor has a quotient.
LEMMA RayDivPositive ==
    ASSUME NEW q \in Nat, NEW w \in Nat \ {0}, q * RAY \in Nat, q * RAY >= w
    PROVE  RayDiv(q, w) \in Nat \ {0}
<1>1. w \div 2 \in Nat
    BY DivNat
<1> DEFINE x == q * RAY + (w \div 2)
<1>2. x \in Nat /\ x >= w
    BY <1>1
<1> HIDE DEF x
<1>3. x \div w \in Nat /\ x < (x \div w) * w + w
    BY <1>2, DivNat, DivBounds
<1>4. x \div w # 0
    BY <1>2, <1>3
<1> QED
    BY <1>3, <1>4 DEF RayDiv, x

\* A number divided by itself is one ray.
LEMMA RayDivBySelf ==
    ASSUME NEW x \in Nat \ {0}
    PROVE  RayDiv(x, x) = RAY
<1> DEFINE half == x \div 2
           product == x * RAY
<1>1. half \in Nat /\ half < x
    BY SMT
<1>2. product \in Nat /\ product = RAY * x
    BY MathAssumption, SMT
<1> HIDE DEF half, product
<1>3. /\ product + half \in Nat
      /\ RAY * x <= product + half /\ product + half < RAY * x + x
    BY <1>1, <1>2
<1>4. (product + half) \div x = RAY
    BY <1>3, MathAssumption, DivUnique
<1> QED
    BY <1>4 DEF RayDiv, half, product

\* A debt is worth no less at a higher index.
LEMMA RayMulMonotone ==
    ASSUME NEW s \in Nat, NEW i \in Nat, NEW j \in Nat, i <= j
    PROVE  RayMul(s, i) <= RayMul(s, j)
<1> DEFINE p == RayMul(s, i)
           q == RayMul(s, j)
<1>1. p \in Nat /\ q \in Nat
    BY RayMulNat
<1>2. p * RAY <= s * i + HALF_RAY /\ s * j + HALF_RAY < q * RAY + RAY
    BY RayMulBounds
<1>3. s * i <= s * j /\ s * i \in Nat /\ s * j \in Nat
    BY SMT
<1> HIDE DEF p, q
<1>4. p * RAY < (q + 1) * RAY
    BY <1>1, <1>2, <1>3, HalfRay, SMT
<1>5. p < q + 1
    BY <1>1, <1>4, SMT
<1> QED
    BY <1>1, <1>5 DEF p, q

\* A scaled amount survives the conversion to an amount and back (rayMul, then
\* rayDiv, at the same index): what LendPoolLoan counts per loan and DebtToken
\* burns per user is the same number, whatever the index.
THEOREM ScalingIsExact ==
    ASSUME NEW s \in Nat, NEW i \in Nat, i >= RAY
    PROVE  RayDiv(RayMul(s, i), i) = s
<1> DEFINE q == RayMul(s, i)
           h == i \div 2
<1>1. q \in Nat
    BY RayMulNat
<1>2. q * RAY <= s * i + HALF_RAY /\ s * i + HALF_RAY < q * RAY + RAY
    BY RayMulBounds
<1>3. h \in Nat /\ h + h <= i /\ i <= h + h + 1
    BY SMT
<1>4. s * i \in Nat /\ q * RAY \in Nat
    BY <1>1, SMT
<1>5. HALF_RAY <= h
    BY <1>3, HalfRay
<1>6. s * i <= q * RAY + h
    BY <1>2, <1>3, <1>4, <1>5, HalfRay
<1>7. q * RAY + h < s * i + i
  <2>1. CASE i = RAY
    <3>1. (q + 1) * RAY > s * RAY /\ q * RAY < (s + 1) * RAY
      BY <1>1, <1>2, <1>4, <2>1, HalfRay, SMT
    <3>2. q + 1 > s /\ q < s + 1
      BY <1>1, <3>1, SMT
    <3>3. q = s
      BY <1>1, <3>2
    <3> HIDE DEF q, h
    <3> QED
      BY <1>1, <1>3, <1>4, <2>1, <3>3
  <2>2. CASE i > RAY
    <3>1. HALF_RAY + h < i
      BY <1>3, <1>5, <2>2, HalfRay
    <3> QED
      BY <1>2, <1>3, <1>4, <3>1, HalfRay
  <2> QED
    BY <2>1, <2>2
<1> HIDE DEF q, h
<1>8. /\ q * RAY + h \in Nat /\ i \in Nat \ {0}
      /\ s * i <= q * RAY + h /\ q * RAY + h < s * i + i
    BY <1>3, <1>4, <1>6, <1>7
<1>9. (q * RAY + h) \div i = s
    BY <1>8, DivUnique
<1> QED
    BY <1>9 DEF RayDiv, q, h

\* What a borrow of amount adds to a debt, as a multiple of RAY: less than the amount,
\* one unit and half of the index it is rounded at.
LEMMA BorrowedDebtBounds ==
    ASSUME NEW s \in Nat, NEW amount \in Nat, NEW i \in Nat \ {0}
    PROVE  RayMul(s + RayDiv(amount, i), i) * RAY
              < (RayMul(s, i) + amount + 1) * RAY + (i \div 2)
<1> DEFINE d == RayDiv(amount, i)
           q == RayMul(s, i)
           h == i \div 2
           owed == RayMul(s + d, i)
<1>1. d \in Nat /\ q \in Nat /\ h \in Nat /\ owed \in Nat
  <2>1. d \in Nat /\ h \in Nat
      BY RayDivNat, DivNat
  <2> HIDE DEF d, h
  <2>2. s + d \in Nat
      BY <2>1
  <2> QED
      BY <2>1, <2>2, RayMulNat
<1>2. d * i <= amount * RAY + h
  <2>1. amount * RAY + h \in Nat
      BY <1>1, MathAssumption, SMT
  <2>2. d = (amount * RAY + h) \div i
      BY DEF RayDiv
  <2> HIDE DEF d, h
  <2> QED
      BY <2>1, <2>2, DivBounds
<1>3. s * i + HALF_RAY < q * RAY + RAY
    BY RayMulBounds
<1>4. owed * RAY <= (s + d) * i + HALF_RAY
    BY <1>1, RayMulBounds
<1> HIDE DEF d, q, h, owed
<1>5. (s + d) * i = s * i + d * i /\ s * i \in Nat /\ d * i \in Nat
    BY <1>1, SMT
<1>6. (q + amount + 1) * RAY = q * RAY + amount * RAY + RAY
    BY <1>1, MathAssumption, SMT
<1>7. q * RAY \in Nat /\ amount * RAY \in Nat /\ owed * RAY \in Nat
    BY <1>1, MathAssumption, SMT
<1>8. owed * RAY < q * RAY + amount * RAY + RAY + h
    BY <1>1, <1>2, <1>3, <1>4, <1>5, <1>7, HalfRay
<1> QED
    BY <1>6, <1>8 DEF d, q, h, owed

\* A debt token that is minted at all is at most twice as much debt as was borrowed.
LEMMA BorrowedAtMostTwice ==
    ASSUME NEW s \in Nat, NEW amount \in Nat, NEW i \in Nat \ {0}, RayDiv(amount, i) # 0
    PROVE  RayMul(s + RayDiv(amount, i), i) <= RayMul(s, i) + 2 * amount
<1> DEFINE d == RayDiv(amount, i)
           q == RayMul(s, i)
           h == i \div 2
           owed == RayMul(s + d, i)
<1>1. d \in Nat \ {0} /\ q \in Nat /\ h \in Nat /\ owed \in Nat /\ h + h <= i
  <2>1. d \in Nat \ {0} /\ h \in Nat
      BY RayDivNat, DivNat
  <2>2. h + h <= i
      BY SMT
  <2> HIDE DEF d, h
  <2>3. s + d \in Nat
      BY <2>1
  <2> QED
      BY <2>1, <2>2, <2>3, RayMulNat
<1>2. d * i <= amount * RAY + h
  <2>1. amount * RAY + h \in Nat
      BY <1>1, MathAssumption, SMT
  <2>2. d = (amount * RAY + h) \div i
      BY DEF RayDiv
  <2> HIDE DEF d, h
  <2> QED
      BY <2>1, <2>2, DivBounds
<1>3. owed * RAY < (q + amount + 1) * RAY + h
    BY BorrowedDebtBounds DEF d, q, h, owed
<1> HIDE DEF d, q, h, owed
<1>4. i <= d * i /\ d * i \in Nat /\ amount * RAY \in Nat
    BY <1>1, MathAssumption, SMT
<1>5. h <= amount * RAY
    BY <1>1, <1>2, <1>4
<1>6. (q + amount + 1) * RAY + amount * RAY = (q + 2 * amount + 1) * RAY
    BY <1>1, MathAssumption, SMT
<1>7. (q + amount + 1) * RAY \in Nat /\ owed * RAY \in Nat
    BY <1>1, MathAssumption, SMT
<1>8. owed * RAY < (q + 2 * amount + 1) * RAY
    BY <1>1, <1>3, <1>4, <1>5, <1>6, <1>7
<1>9. owed < q + 2 * amount + 1
    BY <1>1, <1>8, MathAssumption, SMT
<1> QED
    BY <1>1, <1>9 DEF d, q, owed

\* A debt above the threshold of a collateral that allows to borrow n exceeds n by more
\* than the threshold exceeds the loan to value, whatever the roundings.
LEMMA UnhealthyOutgrows ==
    ASSUME NEW n \in Nat, NEW ltv \in 1..PERCENTAGE_FACTOR, NEW price \in Nat,
           PercentDiv(n, ltv) <= price,
           NEW threshold \in 1..PERCENTAGE_FACTOR, NEW debt \in Nat,
           PercentMul(price, threshold) < debt
    PROVE  threshold * n < ltv * debt
<1> DEFINE half == ltv \div 2
           quotient == PercentDiv(n, ltv)
           least == PercentMul(price, threshold)
<1>1. /\ ltv \in Nat \ {0} /\ threshold \in Nat \ {0} /\ threshold <= 10000
      /\ half \in Nat /\ ltv < half + half + 2 /\ quotient \in Nat /\ least \in Nat
  <2>1. ltv \in Nat \ {0} /\ threshold \in Nat \ {0} /\ threshold <= 10000
      BY DEF PERCENTAGE_FACTOR
  <2>2. half \in Nat /\ ltv < half + half + 2
      BY <2>1, SMT
  <2>3. n * 10000 + half \in Nat
      BY <2>2
  <2>4. quotient = (n * 10000 + half) \div ltv
      BY DEF PercentDiv, PERCENTAGE_FACTOR
  <2>5. least \in Nat
      BY <2>1, PercentMulNat
  <2> HIDE DEF half, quotient, least
  <2>6. quotient \in Nat
      BY <2>1, <2>3, <2>4, DivNat
  <2> QED
      BY <2>1, <2>2, <2>5, <2>6
<1>2. n * 10000 + half < quotient * ltv + ltv
  <2>1. n * 10000 + half \in Nat
      BY <1>1
  <2> HIDE DEF half
  <2>2. quotient = (n * 10000 + half) \div ltv
      BY DEF PercentDiv, PERCENTAGE_FACTOR, half
  <2> QED
      BY <1>1, <2>1, <2>2, DivBounds
<1>3. price * threshold + 5000 < least * 10000 + 10000
  <2>1. price * threshold + 5000 \in Nat
      BY <1>1, SMT
  <2>2. least = (price * threshold + 5000) \div 10000
    <3>1. 10000 \div 2 = 5000
        OBVIOUS
    <3> QED
        BY <3>1 DEF PercentMul, PERCENTAGE_FACTOR
  <2> HIDE DEF least
  <2> QED
      BY <2>1, <2>2, DivBounds
<1> HIDE DEF half, quotient, least
<1>4. quotient <= price /\ least + 1 <= debt
    BY <1>1 DEF quotient, least
<1>5. n * 10000 + half < price * ltv + ltv
  <2>1. quotient * ltv <= price * ltv /\ quotient * ltv \in Nat /\ price * ltv \in Nat
      BY <1>1, <1>4, SMT
  <2> QED
      BY <1>1, <1>2, <2>1
<1>6. price * threshold + 5000 < debt * 10000
  <2>1. price * threshold \in Nat
      BY <1>1, SMT
  <2> QED
      BY <1>1, <1>3, <1>4, <2>1
<1>7. 2 * (n * 10000) + 1 <= 2 * (price * ltv) + ltv
  <2>1. price * ltv \in Nat
      BY <1>1, SMT
  <2> QED
      BY <1>1, <1>5, <2>1
<1>8. threshold * (2 * (n * 10000) + 1) <= threshold * (2 * (price * ltv) + ltv)
  <2>1. price * ltv \in Nat
      BY <1>1, SMT
  <2> DEFINE x == 2 * (n * 10000) + 1
             y == 2 * (price * ltv) + ltv
  <2>2. x \in Nat /\ y \in Nat /\ x <= y
      BY <1>1, <1>7, <2>1
  <2> HIDE DEF x, y
  <2>3. threshold * x <= threshold * y
      BY <1>1, <2>2, SMT
  <2> QED
      BY <2>3 DEF x, y
<1>9. ltv * (price * threshold + 5000) < ltv * (debt * 10000)
  <2>1. price * threshold \in Nat
      BY <1>1, SMT
  <2> DEFINE x == price * threshold + 5000
             y == debt * 10000
  <2>2. x \in Nat /\ y \in Nat /\ x < y
      BY <1>6, <2>1
  <2> HIDE DEF x, y
  <2>3. ltv * x < ltv * y
      BY <1>1, <2>2, SMT
  <2> QED
      BY <2>3 DEF x, y
<1>10. DEFINE tn == threshold * n
             ptl == threshold * (price * ltv)
             tl == threshold * ltv
             ld == ltv * debt
<1>11. tn \in Nat /\ ptl \in Nat /\ tl \in Nat /\ ld \in Nat /\ tl <= 10000 * ltv
    BY <1>1, SMT
<1>12. threshold * (2 * (n * 10000) + 1) = 20000 * tn + threshold
    BY <1>1, SMT
<1>13. threshold * (2 * (price * ltv) + ltv) = 2 * ptl + tl
    BY <1>1, SMT
<1>14. ltv * (price * threshold + 5000) = ptl + 5000 * ltv
    BY <1>1, SMT
<1>15. ltv * (debt * 10000) = 10000 * ld
    BY <1>1, SMT
<1> HIDE DEF tn, ptl, tl, ld
<1>16. tn < ld
    BY <1>1, <1>8, <1>9, <1>11, <1>12, <1>13, <1>14, <1>15
<1> QED
    BY <1>16 DEF tn, ld

\* With that, and the index at which the borrow was rounded, the debt is small.
LEMMA OutgrownIsDust ==
    ASSUME NEW n \in Nat, NEW owes \in Nat, NEW index \in Nat,
           NEW ltv \in Nat, NEW threshold \in Nat \ {0},
           threshold * n < ltv * owes,
           owes * RAY < (n + 1) * RAY + (index \div 2)
    PROVE  2 * RAY * (threshold - ltv) * owes < threshold * (2 * RAY + index)
<1> DEFINE h == index \div 2
           to == threshold * owes
           lo == ltv * owes
           tn == threshold * n
<1>1. h \in Nat /\ 2 * h <= index
    BY SMT
<1> HIDE DEF h
<1>2. owes * RAY < (n + 1) * RAY + h
    BY DEF h
<1>3. threshold * (owes * RAY) < threshold * ((n + 1) * RAY + h)
  <2> DEFINE x == owes * RAY
             y == (n + 1) * RAY + h
  <2>1. x \in Nat /\ y \in Nat
      BY <1>1, MathAssumption, SMT
  <2>2. x < y
      BY <1>2
  <2> HIDE DEF x, y
  <2>3. threshold * x < threshold * y
      BY <2>1, <2>2, SMT
  <2> QED
      BY <2>3 DEF x, y
<1>4. to \in Nat /\ lo \in Nat /\ tn \in Nat /\ tn + 1 <= lo
  <2>1. to \in Nat /\ lo \in Nat /\ tn \in Nat
      BY SMT
  <2> QED
      BY <2>1
<1>5. /\ threshold * (owes * RAY) = to * RAY
      /\ threshold * ((n + 1) * RAY + h) = tn * RAY + threshold * RAY + threshold * h
    BY <1>1, MathAssumption, SMT
<1>6. threshold * (2 * RAY + index) >= 2 * (threshold * RAY) + 2 * (threshold * h)
  <2>1. threshold * (2 * h) <= threshold * index
      BY <1>1, SMT
  <2>2. /\ threshold * (2 * RAY + index) = 2 * (threshold * RAY) + threshold * index
        /\ threshold * (2 * h) = 2 * (threshold * h)
      BY <1>1, MathAssumption, SMT
  <2>3. threshold * RAY \in Nat /\ threshold * index \in Nat /\ threshold * h \in Nat
      BY <1>1, MathAssumption, SMT
  <2> QED
      BY <2>1, <2>2, <2>3
<1>7. 2 * RAY * (threshold - ltv) * owes = 2 * (to * RAY) - 2 * (lo * RAY)
    BY MathAssumption, SMT
<1> HIDE DEF to, lo, tn
<1>8. tn * RAY <= lo * RAY
    BY <1>4, MathAssumption, SMT
<1>9. /\ to * RAY \in Nat /\ lo * RAY \in Nat /\ tn * RAY \in Nat
      /\ threshold * RAY \in Nat /\ threshold * h \in Nat /\ threshold * (2 * RAY + index) \in Nat
    BY <1>1, <1>4, MathAssumption, SMT
<1> QED
    BY <1>3, <1>5, <1>6, <1>7, <1>8, <1>9
=============================================================================
