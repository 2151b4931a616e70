--------------------------- MODULE PoolExitsProofs ---------------------------
(***************************************************************************)
(* The money of the pool and the ways out of it: what it has in escrow is  *)
(* the sum of the highest bids, what the debt token counts per user is the *)
(* sum of what the ledger counts per loan; what the accrual of interest    *)
(* and the flags of an administrator cannot do to somebody who wants to    *)
(* leave, that nobody borrows himself into an auction, and how long an     *)
(* auction lasts when the pool is paused meanwhile.                        *)
(***************************************************************************)
EXTENDS LendPoolProofs, PauseHistory

-----------------------------------------------------------------------------
(***************************************************************************)
(* The inductive invariant.  The sums run over all loans, those that do    *)
(* not count contributing nothing, so that a step changes one summand.     *)
(***************************************************************************)
BidIn(loan, r) ==
    IF loan.state = "Auction" /\ loan.reserveAsset = r THEN loan.bidPrice ELSE 0

DebtOf(loan, r, u) ==
    IF loan.state \in {"Active", "Auction"} /\ loan.reserveAsset = r /\ loan.borrower = u
    THEN loan.scaledAmount ELSE 0

Bids(r) == [id \in DOMAIN loans |-> BidIn(loans[id], r)]

Debts(r, u) == [id \in DOMAIN loans |-> DebtOf(loans[id], r, u)]

BooksInv ==
    \A r \in Reserves :
        /\ escrow[r] = SumFunction(Bids(r))
        /\ debtSupply[r] = SumFunction(debtToken[r])
        /\ \A u \in Users : debtToken[r][u] = SumFunction(Debts(r, u))

LEMMA SummandsNat ==
    ASSUME NEW loan \in LoanData, NEW r, NEW u
    PROVE  BidIn(loan, r) \in Nat /\ DebtOf(loan, r, u) \in Nat
    BY DEF LoanData, BidIn, DebtOf

LEMMA LoansFinite ==
    ASSUME loans \in Seq(LoanData)
    PROVE  /\ IsFiniteSet(DOMAIN loans)
           /\ \A r, u : Bids(r) \in [DOMAIN loans -> Nat] /\ Debts(r, u) \in [DOMAIN loans -> Nat]
<1>1. IsFiniteSet(DOMAIN loans)
  <2>1. DOMAIN loans = 1..Len(loans) /\ Len(loans) \in Nat
      BY LenProperties
  <2> QED
      BY <2>1, FS_Interval
<1>2. \A id \in DOMAIN loans : loans[id] \in LoanData
    BY LoanIds
<1>3. \A id \in DOMAIN loans : \A r, u :
          BidIn(loans[id], r) \in Nat /\ DebtOf(loans[id], r, u) \in Nat
    BY <1>2, SummandsNat
<1> QED
    BY <1>1, <1>3 DEF Bids, Debts

\* The two properties say what the invariant says.
LEMMA BooksAsProperties ==
    ASSUME LedgerInv
    PROVE  BooksInv <=> EscrowCoversBids /\ DebtBacksLoans
<1>1. /\ IsFiniteSet(DOMAIN loans)
      /\ \A r, u : Bids(r) \in [DOMAIN loans -> Nat] /\ Debts(r, u) \in [DOMAIN loans -> Nat]
      /\ \A id \in DOMAIN loans : loans[id] \in LoanData
    BY LoansFinite, LoanIds DEF LedgerInv, LoanTypeOK
<1>2. ASSUME NEW r
      PROVE  SumFunction(Bids(r))
                = SumFunction([id \in LoansIn(r, "Auction") |-> loans[id].bidPrice])
  <2> DEFINE f == Bids(r)
             T == LoansIn(r, "Auction")
             g == [id \in T |-> loans[id].bidPrice]
  <2>1. T \in SUBSET DOMAIN loans /\ f \in [DOMAIN loans -> Nat]
      BY <1>1 DEF LoansIn
  <2>2. \A id \in T : f[id] = g[id]
      BY DEF LoansIn, Bids, BidIn
  <2>3. \A id \in DOMAIN loans \ T : f[id] = 0
      BY DEF LoansIn, Bids, BidIn
  <2>4. g \in [T -> Nat]
    <3>1. \A id \in T : loans[id].bidPrice \in Nat
        BY <1>1, <2>1 DEF LoanData
    <3> QED
        BY <3>1
  <2> HIDE DEF f, T, g
  <2>5. SumFunction(f) = SumFunction(g)
      BY <1>1, <2>1, <2>2, <2>3, <2>4, SumSelected
  <2> QED
      BY <2>5 DEF f, g, T
<1>3. ASSUME NEW r, NEW u
      PROVE  SumFunction(Debts(r, u))
                = SumFunction([id \in OpenLoansOf(r, u) |-> loans[id].scaledAmount])
  <2> DEFINE f == Debts(r, u)
             T == OpenLoansOf(r, u)
             g == [id \in T |-> loans[id].scaledAmount]
  <2>1. T \in SUBSET DOMAIN loans /\ f \in [DOMAIN loans -> Nat]
      BY <1>1 DEF OpenLoansOf, OpenLoans
  <2>2. \A id \in T : f[id] = g[id]
      BY DEF OpenLoansOf, OpenLoans, Open, Debts, DebtOf
  <2>3. \A id \in DOMAIN loans \ T : f[id] = 0
      BY DEF OpenLoansOf, OpenLoans, Open, Debts, DebtOf
  <2>4. g \in [T -> Nat]
    <3>1. \A id \in T : loans[id].scaledAmount \in Nat
        BY <1>1, <2>1 DEF LoanData
    <3> QED
        BY <3>1
  <2> HIDE DEF f, T, g
  <2>5. SumFunction(f) = SumFunction(g)
      BY <1>1, <2>1, <2>2, <2>3, <2>4, SumSelected
  <2> QED
      BY <2>5 DEF f, g, T
<1>4. EscrowCoversBids <=> \A r \in Reserves : escrow[r] = SumFunction(Bids(r))
    BY ONLY <1>2 DEF EscrowCoversBids
<1>5. DebtBacksLoans <=>
        \A r \in Reserves :
            /\ debtSupply[r] = SumFunction(debtToken[r])
            /\ \A u \in Users : debtToken[r][u] = SumFunction(Debts(r, u))
    BY ONLY <1>3, Zenon DEF DebtBacksLoans
<1> QED
    BY <1>4, <1>5 DEF BooksInv

-----------------------------------------------------------------------------
(***************************************************************************)
(* Loans stored and loans added.                                           *)
(***************************************************************************)
\* Overwriting a loan changes one summand of each sum.
LEMMA StoredSums ==
    ASSUME LedgerInv, NEW id \in DOMAIN loans, NEW loan \in LoanData, Store(id, loan),
           NEW r, NEW u
    PROVE  /\ BidIn(loans[id], r) <= SumFunction(Bids(r))
           /\ SumFunction(Bids(r)')
                = SumFunction(Bids(r)) - BidIn(loans[id], r) + BidIn(loan, r)
           /\ DebtOf(loans[id], r, u) <= SumFunction(Debts(r, u))
           /\ SumFunction(Debts(r, u)')
                = SumFunction(Debts(r, u)) - DebtOf(loans[id], r, u) + DebtOf(loan, r, u)
<1> DEFINE S == DOMAIN loans
           b == Bids(r)
           c == Bids(r)'
           d == Debts(r, u)
           e == Debts(r, u)'
<1>1. /\ loans \in Seq(LoanData) /\ loans' \in Seq(LoanData)
      /\ DOMAIN loans' = S /\ loans'[id] = loan
      /\ \A j \in S : j # id => loans'[j] = loans[j]
    BY StoreLoan DEF LedgerInv, LoanTypeOK, Store
<1>2. /\ IsFiniteSet(S) /\ b \in [S -> Nat] /\ d \in [S -> Nat]
    BY <1>1, LoansFinite
<1>3. \A j \in S : loans'[j] \in LoanData
    BY <1>1, LoanIds
<1>4. /\ b[id] = BidIn(loans[id], r) /\ d[id] = DebtOf(loans[id], r, u)
      /\ c[id] = BidIn(loan, r) /\ e[id] = DebtOf(loan, r, u)
    BY <1>1 DEF Bids, Debts
<1>5. \A j \in S : j # id => c[j] = b[j] /\ e[j] = d[j]
    BY <1>1 DEF Bids, Debts
<1>6. c \in [S -> Nat] /\ e \in [S -> Nat]
    BY <1>1, <1>3, SummandsNat DEF Bids, Debts
<1> HIDE DEF S, b, c, d, e
<1>7. id \in S
    BY DEF S
<1>8. b[id] <= SumFunction(b) /\ SumFunction(c) = SumFunction(b) - b[id] + c[id]
    BY <1>2, <1>5, <1>6, <1>7, SumChanged
<1>9. d[id] <= SumFunction(d) /\ SumFunction(e) = SumFunction(d) - d[id] + e[id]
    BY <1>2, <1>5, <1>6, <1>7, SumChanged
<1> QED
    BY <1>4, <1>8, <1>9 DEF b, c, d, e

\* A new loan is one more summand.
LEMMA AddedSums ==
    ASSUME loans \in Seq(LoanData), loans' \in Seq(LoanData),
           NEW x \in DOMAIN loans', x \notin DOMAIN loans,
           DOMAIN loans' = DOMAIN loans \cup {x},
           \A j \in DOMAIN loans : loans'[j] = loans[j],
           NEW r, NEW u
    PROVE  /\ SumFunction(Bids(r)') = SumFunction(Bids(r)) + BidIn(loans'[x], r)
           /\ SumFunction(Debts(r, u)') = SumFunction(Debts(r, u)) + DebtOf(loans'[x], r, u)
<1> DEFINE S == DOMAIN loans
           T == DOMAIN loans'
           b == Bids(r)
           c == Bids(r)'
           d == Debts(r, u)
           e == Debts(r, u)'
<1>1. x \in T /\ x \notin S /\ T = S \cup {x}
    OBVIOUS
<1>2. IsFiniteSet(S) /\ b \in [S -> Nat] /\ d \in [S -> Nat]
    BY LoansFinite
<1>3. \A j \in T : loans'[j] \in LoanData
    BY LoanIds
<1>4. c[x] = BidIn(loans'[x], r) /\ e[x] = DebtOf(loans'[x], r, u)
    BY DEF Bids, Debts
<1>5. \A j \in S : c[j] = b[j] /\ e[j] = d[j]
    BY <1>1 DEF Bids, Debts
<1>6. c \in [T -> Nat] /\ e \in [T -> Nat]
    BY <1>3, SummandsNat DEF Bids, Debts
<1> HIDE DEF S, T, b, c, d, e
<1>7. SumFunction(c) = SumFunction(b) + c[x]
    BY ONLY <1>1, <1>2, <1>5, <1>6, SumExtended
<1>8. SumFunction(e) = SumFunction(d) + e[x]
    BY ONLY <1>1, <1>2, <1>5, <1>6, SumExtended
<1> QED
    BY <1>4, <1>7, <1>8 DEF b, c, d, e

\* What an operation adds to the bids and the debts of the ledger it adds to the
\* escrow and to the debt tokens: the books stay balanced.
LEMMA BooksStayBalanced ==
    ASSUME PoolInv, BooksInv, debtToken' \in [Reserves -> [Users -> Nat]],
           NEW r \in Reserves, NEW u \in Users, NEW bid \in Int, NEW debt \in Int,
           \A q \in Reserves :
              /\ escrow'[q] = escrow[q] + (IF q = r THEN bid ELSE 0)
              /\ debtSupply'[q] = debtSupply[q] + (IF q = r THEN debt ELSE 0)
              /\ SumFunction(Bids(q)')
                    = SumFunction(Bids(q)) + (IF q = r THEN bid ELSE 0),
           \A q \in Reserves, v \in Users :
              /\ debtToken'[q][v] = debtToken[q][v] + (IF q = r /\ v = u THEN debt ELSE 0)
              /\ SumFunction(Debts(q, v)')
                    = SumFunction(Debts(q, v)) + (IF q = r /\ v = u THEN debt ELSE 0)
    PROVE  BooksInv'
<1>1. /\ debtToken \in [Reserves -> [Users -> Nat]] /\ IsFiniteSet(Users)
    BY PoolAssumption DEF PoolInv, TypeOK
<1>2. ASSUME NEW q \in Reserves
      PROVE  SumFunction(debtToken'[q])
                = SumFunction(debtToken[q]) + (IF q = r THEN debt ELSE 0)
  <2> DEFINE f == debtToken[q]
             g == debtToken'[q]
  <2>1. f \in [Users -> Nat] /\ g \in [Users -> Nat]
      BY <1>1
  <2>2. \A v \in Users : g[v] = f[v] + (IF q = r /\ v = u THEN debt ELSE 0)
      OBVIOUS
  <2>3. f[u] \in Nat /\ g[u] \in Nat /\ SumFunction(f) \in Nat
      BY <1>1, <2>1, SumNat
  <2> HIDE DEF f, g
  <2>4. CASE q = r
    <3>1. \A v \in Users : v # u => g[v] = f[v]
        BY <2>1, <2>2
    <3>2. SumFunction(g) = SumFunction(f) - f[u] + g[u]
        BY ONLY u \in Users, <1>1, <2>1, <3>1, SumChanged
    <3>3. g[u] = f[u] + debt
        BY <2>2, <2>4
    <3> QED
        BY <2>3, <2>4, <3>2, <3>3 DEF f, g
  <2>5. CASE q # r
    <3>1. g = f
        BY <2>1, <2>2, <2>5
    <3> QED
        BY <2>3, <2>5, <3>1 DEF f, g
  <2> QED
      BY <2>4, <2>5
<1> QED
    BY <1>2 DEF BooksInv

\* The same when the operation overwrites a loan of reserve r and borrower u.
LEMMA BooksOfStoredLoan ==
    ASSUME PoolInv, BooksInv, debtToken' \in [Reserves -> [Users -> Nat]],
           NEW id \in DOMAIN loans, NEW loan \in LoanData, Store(id, loan),
           NEW r, r = loans[id].reserveAsset, loan.reserveAsset = r,
           NEW u, u = loans[id].borrower, loan.borrower = u,
           NEW bid \in Int, BidIn(loan, r) = BidIn(loans[id], r) + bid,
           NEW debt \in Int, DebtOf(loan, r, u) = DebtOf(loans[id], r, u) + debt,
           \A q \in Reserves :
              /\ escrow'[q] = escrow[q] + (IF q = r THEN bid ELSE 0)
              /\ debtSupply'[q] = debtSupply[q] + (IF q = r THEN debt ELSE 0),
           \A q \in Reserves, v \in Users :
              debtToken'[q][v] = debtToken[q][v] + (IF q = r /\ v = u THEN debt ELSE 0)
    PROVE  BooksInv'
<1>1. r \in Reserves /\ u \in Users /\ loans[id] \in LoanData
    BY LoanFacts
<1>2. LedgerInv /\ loans \in Seq(LoanData)
    BY DEF PoolInv, LedgerInv, LoanTypeOK
<1>3. \A q, v : /\ Bids(q) \in [DOMAIN loans -> Nat] /\ SumFunction(Bids(q)) \in Nat
                /\ Debts(q, v) \in [DOMAIN loans -> Nat] /\ SumFunction(Debts(q, v)) \in Nat
    BY <1>2, LoansFinite, SumNat
<1>4. \A q, v : BidIn(loans[id], q) \in Nat /\ DebtOf(loans[id], q, v) \in Nat
    BY <1>1, SummandsNat
<1>5. \A q : BidIn(loan, q) = BidIn(loans[id], q) + (IF q = r THEN bid ELSE 0)
  <2>1. \A q : q # r => BidIn(loan, q) = 0 /\ BidIn(loans[id], q) = 0
      BY DEF BidIn
  <2> QED
      BY <2>1
<1>6. \A q, v : DebtOf(loan, q, v)
                  = DebtOf(loans[id], q, v) + (IF q = r /\ v = u THEN debt ELSE 0)
  <2>1. \A q, v : ~ (q = r /\ v = u) => DebtOf(loan, q, v) = 0 /\ DebtOf(loans[id], q, v) = 0
      BY DEF DebtOf
  <2> QED
      BY <2>1
<1>7. \A q, v : /\ SumFunction(Bids(q)')
                     = SumFunction(Bids(q)) - BidIn(loans[id], q) + BidIn(loan, q)
                /\ SumFunction(Debts(q, v)')
                     = SumFunction(Debts(q, v)) - DebtOf(loans[id], q, v) + DebtOf(loan, q, v)
    BY <1>2, StoredSums
<1>8. \A q : SumFunction(Bids(q)') = SumFunction(Bids(q)) + (IF q = r THEN bid ELSE 0)
    BY ONLY bid \in Int, <1>3, <1>4, <1>5, <1>7
<1>9. \A q, v : SumFunction(Debts(q, v)')
                  = SumFunction(Debts(q, v)) + (IF q = r /\ v = u THEN debt ELSE 0)
    BY ONLY debt \in Int, <1>3, <1>4, <1>6, <1>7
<1>10. \A q \in Reserves :
           /\ escrow'[q] = escrow[q] + (IF q = r THEN bid ELSE 0)
           /\ debtSupply'[q] = debtSupply[q] + (IF q = r THEN debt ELSE 0)
           /\ SumFunction(Bids(q)') = SumFunction(Bids(q)) + (IF q = r THEN bid ELSE 0)
    BY <1>8
<1>11. \A q \in Reserves, v \in Users :
           /\ debtToken'[q][v] = debtToken[q][v] + (IF q = r /\ v = u THEN debt ELSE 0)
           /\ SumFunction(Debts(q, v)')
                = SumFunction(Debts(q, v)) + (IF q = r /\ v = u THEN debt ELSE 0)
    BY <1>9
<1> QED
    BY ONLY PoolInv, BooksInv, debtToken' \in [Reserves -> [Users -> Nat]], bid \in Int,
            debt \in Int, <1>1, <1>10, <1>11, BooksStayBalanced

\* The same when the operation adds a loan.
LEMMA BooksOfNewLoan ==
    ASSUME PoolInv, BooksInv, debtToken' \in [Reserves -> [Users -> Nat]],
           NEW loan \in LoanData, loan.state = "Active", loans' = Append(loans, loan),
           NEW debt, debt = loan.scaledAmount,
           NEW r, r = loan.reserveAsset, NEW u, u = loan.borrower,
           \A q \in Reserves :
              /\ escrow'[q] = escrow[q]
              /\ debtSupply'[q] = debtSupply[q] + (IF q = r THEN debt ELSE 0),
           \A q \in Reserves, v \in Users :
              debtToken'[q][v] = debtToken[q][v] + (IF q = r /\ v = u THEN debt ELSE 0)
    PROVE  BooksInv'
<1> DEFINE x == Len(loans) + 1
<1>1. r \in Reserves /\ u \in Users /\ debt \in Int
    BY DEF LoanData
<1>2. loans \in Seq(LoanData)
    BY DEF PoolInv, LedgerInv, LoanTypeOK
<1>3. /\ loans' \in Seq(LoanData) /\ x \notin DOMAIN loans
      /\ DOMAIN loans' = DOMAIN loans \cup {x} /\ loans'[x] = loan
      /\ \A j \in DOMAIN loans : loans'[j] = loans[j]
    BY <1>2, AddLoan
<1>4. \A q, v : SumFunction(Bids(q)) \in Nat /\ SumFunction(Debts(q, v)) \in Nat
    BY <1>2, LoansFinite, SumNat
<1> HIDE DEF x
<1>5. x \in DOMAIN loans'
    BY <1>3
<1>6. \A q, v : /\ SumFunction(Bids(q)') = SumFunction(Bids(q)) + BidIn(loan, q)
                /\ SumFunction(Debts(q, v)') = SumFunction(Debts(q, v)) + DebtOf(loan, q, v)
    BY ONLY <1>2, <1>3, <1>5, AddedSums
<1>7. \A q : BidIn(loan, q) = 0
    BY DEF BidIn
<1>8. \A q, v : DebtOf(loan, q, v) = IF q = r /\ v = u THEN debt ELSE 0
    BY DEF DebtOf
<1>9. \A q \in Reserves :
          /\ escrow'[q] = escrow[q] + (IF q = r THEN 0 ELSE 0)
          /\ debtSupply'[q] = debtSupply[q] + (IF q = r THEN debt ELSE 0)
          /\ SumFunction(Bids(q)') = SumFunction(Bids(q)) + (IF q = r THEN 0 ELSE 0)
  <2>1. \A q \in Reserves : escrow[q] \in Nat
      BY DEF PoolInv, TypeOK
  <2> QED
      BY <1>4, <1>6, <1>7, <2>1
<1>10. \A q \in Reserves, v \in Users :
           /\ debtToken'[q][v] = debtToken[q][v] + (IF q = r /\ v = u THEN debt ELSE 0)
           /\ SumFunction(Debts(q, v)')
                = SumFunction(Debts(q, v)) + (IF q = r /\ v = u THEN debt ELSE 0)
    BY <1>6, <1>8
<1> QED
    BY ONLY PoolInv, BooksInv, debtToken' \in [Reserves -> [Users -> Nat]], 0 \in Int,
            <1>1, <1>9, <1>10, BooksStayBalanced

\* What minting and burning debt, with the reserve settled, does to the counts.
LEMMA MintedCounts ==
    ASSUME PoolInv, NEW r \in Reserves, NEW u \in Users, NEW amount \in Nat,
           MintDebt(r, u, amount), NEW liquidity,
           SettleReserve(r, debtSupply[r] + RayDiv(amount, BorrowIndex(r)), liquidity)
    PROVE  LET debt == RayDiv(amount, BorrowIndex(r)) IN
           /\ debt \in Nat /\ debtToken' \in [Reserves -> [Users -> Nat]]
           /\ \A q \in Reserves :
                 debtSupply'[q] = debtSupply[q] + (IF q = r THEN debt ELSE 0)
           /\ \A q \in Reserves, v \in Users :
                 debtToken'[q][v] = debtToken[q][v] + (IF q = r /\ v = u THEN debt ELSE 0)
<1> DEFINE debt == RayDiv(amount, BorrowIndex(r))
<1>1. debt \in Nat
    BY AccruedSound, RayDivNat
<1>2. debtToken' \in [Reserves -> [Users -> Nat]]
    BY MintDebtEffect
<1>3. /\ debtToken' = [debtToken EXCEPT ![r][u] = @ + debt]
      /\ debtSupply' = [debtSupply EXCEPT ![r] = debtSupply[r] + debt]
    BY DEF MintDebt, SettleReserve
<1>4. debtToken \in [Reserves -> [Users -> Nat]] /\ debtSupply \in [Reserves -> Nat]
    BY DEF PoolInv, TypeOK
<1> HIDE DEF debt
<1>5. \A q \in Reserves :
          debtSupply'[q] = debtSupply[q] + (IF q = r THEN debt ELSE 0)
    BY <1>1, <1>3, <1>4
<1>6. \A q \in Reserves, v \in Users :
          debtToken'[q][v] = debtToken[q][v] + (IF q = r /\ v = u THEN debt ELSE 0)
    BY <1>1, <1>3, <1>4
<1> QED
    BY <1>1, <1>2, <1>5, <1>6 DEF debt

LEMMA BurnedCounts ==
    ASSUME PoolInv, NEW r \in Reserves, NEW u \in Users, NEW amount \in Nat,
           BurnDebt(r, u, amount), NEW liquidity,
           SettleReserve(r, debtSupply[r] - RayDiv(amount, BorrowIndex(r)), liquidity)
    PROVE  LET debt == RayDiv(amount, BorrowIndex(r)) IN
           /\ debt \in Nat /\ debtToken' \in [Reserves -> [Users -> Nat]]
           /\ \A q \in Reserves :
                 debtSupply'[q] = debtSupply[q] + (IF q = r THEN 0 - debt ELSE 0)
           /\ \A q \in Reserves, v \in Users :
                 debtToken'[q][v]
                    = debtToken[q][v] + (IF q = r /\ v = u THEN 0 - debt ELSE 0)
<1> DEFINE debt == RayDiv(amount, BorrowIndex(r))
<1>1. debt \in Nat
    BY AccruedSound, RayDivNat
<1>2. debtToken' \in [Reserves -> [Users -> Nat]]
    BY BurnDebtEffect
<1>3. /\ debtToken' = [debtToken EXCEPT ![r][u] = @ - debt]
      /\ debtSupply' = [debtSupply EXCEPT ![r] = debtSupply[r] - debt]
    BY DEF BurnDebt, SettleReserve
<1>4. debtToken \in [Reserves -> [Users -> Nat]] /\ debtSupply \in [Reserves -> Nat]
    BY DEF PoolInv, TypeOK
<1> HIDE DEF debt
<1>5. \A q \in Reserves :
          debtSupply'[q] = debtSupply[q] + (IF q = r THEN 0 - debt ELSE 0)
    BY <1>1, <1>3, <1>4
<1>6. \A q \in Reserves, v \in Users :
          debtToken'[q][v] = debtToken[q][v] + (IF q = r /\ v = u THEN 0 - debt ELSE 0)
    BY <1>1, <1>3, <1>4
<1> QED
    BY <1>1, <1>2, <1>5, <1>6 DEF debt

\* What a change of the escrow of one reserve does.
LEMMA EscrowMoved ==
    ASSUME PoolInv, NEW r \in Reserves, NEW bid \in Int,
           escrow' = [escrow EXCEPT ![r] = escrow[r] + bid]
    PROVE  \A q \in Reserves : escrow'[q] = escrow[q] + (IF q = r THEN bid ELSE 0)
<1>1. escrow \in [Reserves -> Nat]
    BY DEF PoolInv, TypeOK
<1> QED
    BY <1>1

-----------------------------------------------------------------------------
(***************************************************************************)
(* What the ledger writes, as far as the books are concerned.              *)
(***************************************************************************)
SameParties(new, old) ==
    new \in LoanData /\ new.reserveAsset = old.reserveAsset /\ new.borrower = old.borrower

LEMMA NewLoanFields ==
    ASSUME NEW u \in Users, NEW nft \in Nfts, NEW r \in Reserves, NEW debt \in Nat
    PROVE  LET new == NewLoan(u, nft, r, debt) IN
           /\ new \in LoanData /\ new.state = "Active" /\ new.scaledAmount = debt
           /\ new.reserveAsset = r /\ new.borrower = u
    BY DEF NewLoan, LoanData, LoanState

LEMMA WithDebtFields ==
    ASSUME NEW loan \in LoanData, NEW debt \in Nat
    PROVE  LET new == WithDebt(loan, debt) IN
           SameParties(new, loan) /\ new.state = loan.state /\ new.scaledAmount = debt
    BY DEF SameParties, WithDebt, LoanData

LEMMA RepaidFields ==
    ASSUME NEW loan \in LoanData
    PROVE  SameParties(Repaid(loan), loan) /\ Repaid(loan).state = "Repaid"
    BY DEF SameParties, Repaid, LoanData, LoanState

LEMMA WithBidFields ==
    ASSUME NEW loan \in LoanData, NEW bidder \in Users, NEW bid \in Nat, NEW debt \in Nat
    PROVE  LET new == WithBid(loan, bidder, bid, debt) IN
           /\ SameParties(new, loan) /\ new.state = loan.state
           /\ new.scaledAmount = loan.scaledAmount /\ new.bidPrice = bid
           /\ new.bidStartTimestamp = loan.bidStartTimestamp
    BY DEF SameParties, WithBid, LoanData

LEMMA PutOnSaleFields ==
    ASSUME NEW loan \in LoanData, NEW bidder \in Users, NEW time \in Nat
    PROVE  LET new == PutOnSale(loan, bidder, time) IN
           /\ SameParties(new, loan) /\ new.state = "Auction"
           /\ new.scaledAmount = loan.scaledAmount /\ new.bidPrice = loan.bidPrice
           /\ new.bidStartTimestamp = time
    BY DEF SameParties, PutOnSale, LoanData, LoanState

LEMMA TakenOffSaleFields ==
    ASSUME NEW loan \in LoanData
    PROVE  LET new == TakenOffSale(loan) IN
           /\ SameParties(new, loan) /\ new.state = "Active"
           /\ new.scaledAmount = loan.scaledAmount
    BY DEF SameParties, TakenOffSale, LoanData, LoanState

LEMMA DefaultedFields ==
    ASSUME NEW loan \in LoanData, NEW debt \in Nat
    PROVE  LET new == Defaulted(loan, debt) IN
           SameParties(new, loan) /\ new.state = "Defaulted"
    BY DEF SameParties, Defaulted, LoanData, LoanState

-----------------------------------------------------------------------------
(***************************************************************************)
(* The operations.                                                         *)
(***************************************************************************)
\* Steps that touch no loan, no escrow and no debt.
LEMMA QuietBooks ==
    ASSUME PoolInv, BooksInv, loans' = loans, debtToken' = debtToken, escrow' = escrow,
           \A q \in Reserves : debtSupply'[q] = debtSupply[q]
    PROVE  BooksInv'
<1>1. \A q, v : Bids(q)' = Bids(q) /\ Debts(q, v)' = Debts(q, v)
    BY DEF Bids, Debts
<1> QED
    BY <1>1 DEF BooksInv

LEMMA BorrowBooks ==
    ASSUME PoolInv, BooksInv, NEW r \in Reserves, NEW initiator \in Users,
           NEW onBehalfOf \in Users, NEW nft \in Nfts, NEW amount \in Nat,
           Borrow(r, initiator, onBehalfOf, nft, amount)
    PROVE  BooksInv'
<1> DEFINE id == nftToLoanIds[nft]
           debt == RayDiv(amount, BorrowIndex(r))
<1>1. /\ \/ CreateLoan(initiator, onBehalfOf, nft, r, amount, BorrowIndex(r))
         \/ IncreaseLoan(id, amount, BorrowIndex(r))
      /\ id # 0 => loans[id].reserveAsset = r /\ loans[id].borrower = onBehalfOf
      /\ MintDebt(r, onBehalfOf, amount)
      /\ SettleReserve(r, debtSupply[r] + debt, cash[r] - amount)
      /\ escrow' = escrow
    BY DEF Borrow, ValidateBorrow
<1>2. /\ debt \in Nat /\ debtToken' \in [Reserves -> [Users -> Nat]]
      /\ \A q \in Reserves : debtSupply'[q] = debtSupply[q] + (IF q = r THEN debt ELSE 0)
      /\ \A q \in Reserves, v \in Users :
            debtToken'[q][v] = debtToken[q][v] + (IF q = r /\ v = onBehalfOf THEN debt ELSE 0)
    BY <1>1, MintedCounts
<1>3. CASE CreateLoan(initiator, onBehalfOf, nft, r, amount, BorrowIndex(r))
  <2> DEFINE loan == NewLoan(onBehalfOf, nft, r, debt)
  <2>1. loans' = Append(loans, loan)
      BY <1>3 DEF CreateLoan
  <2>2. /\ loan \in LoanData /\ loan.state = "Active" /\ loan.scaledAmount = debt
        /\ loan.reserveAsset = r /\ loan.borrower = onBehalfOf
      BY <1>2, NewLoanFields
  <2> HIDE DEF loan, debt
  <2>3. \A q \in Reserves : /\ escrow'[q] = escrow[q]
                            /\ debtSupply'[q] = debtSupply[q] + (IF q = r THEN debt ELSE 0)
      BY <1>1, <1>2
  <2> QED
      BY ONLY PoolInv, BooksInv, <1>2, <2>1, <2>2, <2>3, BooksOfNewLoan
<1>4. CASE IncreaseLoan(id, amount, BorrowIndex(r))
  <2> DEFINE more == loans[id].scaledAmount + debt
  <2>1. /\ id \in DOMAIN loans /\ loans[id].state = "Active"
        /\ Store(id, WithDebt(loans[id], more))
      BY <1>4 DEF IncreaseLoan, IsLoan
  <2>2. loans[id].reserveAsset = r /\ loans[id].borrower = onBehalfOf
    <3>1. id # 0
        BY <2>1, LoanIds DEF PoolInv, LedgerInv, LoanTypeOK
    <3> QED
        BY <1>1, <3>1
  <2> HIDE DEF id, debt
  <2>3. loans[id] \in LoanData /\ loans[id].scaledAmount \in Nat /\ more \in Nat
      BY <1>2, <2>1, LoanFacts
  <2> HIDE DEF more
  <2>4. PICK loan \in LoanData :
            /\ Store(id, loan) /\ loan.state = "Active" /\ loan.scaledAmount = more
            /\ loan.reserveAsset = r /\ loan.borrower = onBehalfOf
      BY <2>1, <2>2, <2>3, WithDebtFields DEF SameParties
  <2>5. BidIn(loan, r) = BidIn(loans[id], r) + 0
      BY <2>1, <2>4 DEF BidIn
  <2>6. DebtOf(loan, r, onBehalfOf) = DebtOf(loans[id], r, onBehalfOf) + debt
      BY <2>1, <2>2, <2>4 DEF DebtOf, more
  <2>7. \A q \in Reserves : /\ escrow'[q] = escrow[q] + (IF q = r THEN 0 ELSE 0)
                            /\ debtSupply'[q] = debtSupply[q] + (IF q = r THEN debt ELSE 0)
    <3>1. \A q \in Reserves : escrow[q] \in Nat
        BY DEF PoolInv, TypeOK
    <3> QED
        BY <1>1, <1>2, <3>1
  <2>8. debt \in Int /\ 0 \in Int
      BY <1>2
  <2> QED
      BY ONLY PoolInv, BooksInv, <1>2, <2>1, <2>2, <2>4, <2>5, <2>6, <2>7, <2>8,
              BooksOfStoredLoan
<1> QED
    BY <1>1, <1>3, <1>4

LEMMA RepayBooks ==
    ASSUME PoolInv, BooksInv, NEW nft \in Nfts, NEW amount \in Nat, Repay(nft, amount)
    PROVE  BooksInv'
<1> DEFINE id == nftToLoanIds[nft]
           r == loans[id].reserveAsset
           u == loans[id].borrower
           paid == RepayAmount(id, amount)
           debt == RayDiv(paid, BorrowIndex(r))
<1>1. /\ IF amount < BorrowAmount(id) THEN DecreaseLoan(id, paid, BorrowIndex(r))
                                      ELSE RepayLoan(id)
      /\ BurnDebt(r, u, paid)
      /\ SettleReserve(r, debtSupply[r] - debt, cash[r] + paid)
      /\ escrow' = escrow
    BY DEF Repay
<1>2. id \in DOMAIN loans /\ loans[id].state = "Active"
    BY <1>1 DEF DecreaseLoan, RepayLoan, IsLoan
<1>3. /\ r \in Reserves /\ u \in Users /\ BorrowAmount(id) \in Nat
      /\ loans[id] \in LoanData /\ loans[id].scaledAmount \in Nat
      /\ RayDiv(BorrowAmount(id), BorrowIndex(r)) = loans[id].scaledAmount
    BY <1>2, LoanFacts
<1>4. paid = IF amount < BorrowAmount(id) THEN amount ELSE BorrowAmount(id)
    BY DEF RepayAmount
<1> HIDE DEF id, r, u, paid
<1>5. paid \in Nat
    BY <1>3, <1>4
<1>6. /\ debt \in Nat /\ debtToken' \in [Reserves -> [Users -> Nat]]
      /\ \A q \in Reserves :
            debtSupply'[q] = debtSupply[q] + (IF q = r THEN 0 - debt ELSE 0)
      /\ \A q \in Reserves, v \in Users :
            debtToken'[q][v] = debtToken[q][v] + (IF q = r /\ v = u THEN 0 - debt ELSE 0)
    BY <1>1, <1>3, <1>5, BurnedCounts
<1>7. PICK loan \in LoanData :
          /\ Store(id, loan) /\ loan.state # "Auction"
          /\ loan.reserveAsset = r /\ loan.borrower = u
          /\ DebtOf(loan, r, u) = loans[id].scaledAmount - debt
  <2>1. CASE amount < BorrowAmount(id)
    <3> DEFINE less == loans[id].scaledAmount - debt
               loan == WithDebt(loans[id], less)
    <3>1. /\ Store(id, loan) /\ loans[id].scaledAmount >= debt
        BY <1>1, <2>1 DEF DecreaseLoan
    <3>2. less \in Nat
        BY <1>3, <1>6, <3>1
    <3> HIDE DEF less, debt
    <3>3. /\ loan \in LoanData /\ loan.state = "Active" /\ loan.reserveAsset = r
          /\ loan.borrower = u /\ loan.scaledAmount = less
        BY <1>2, <1>3, <3>2, WithDebtFields DEF SameParties, r, u
    <3>4. DebtOf(loan, r, u) = less
        BY <3>3 DEF DebtOf
    <3> QED
        BY <3>1, <3>3, <3>4 DEF less
  <2>2. CASE ~ (amount < BorrowAmount(id))
    <3> DEFINE loan == Repaid(loans[id])
    <3>1. Store(id, loan)
        BY <1>1, <2>2 DEF RepayLoan
    <3>2. debt = loans[id].scaledAmount
        BY <1>3, <1>4, <2>2
    <3>3. /\ loan \in LoanData /\ loan.state = "Repaid" /\ loan.reserveAsset = r
          /\ loan.borrower = u
        BY <1>3, RepaidFields DEF SameParties, r, u
    <3> HIDE DEF debt, loan
    <3>4. DebtOf(loan, r, u) = 0
        BY <3>3 DEF DebtOf
    <3> QED
        BY <1>3, <3>1, <3>2, <3>3, <3>4
  <2> QED
      BY <2>1, <2>2
<1> HIDE DEF debt
<1>8. BidIn(loan, r) = BidIn(loans[id], r) + 0
    BY <1>2, <1>7 DEF BidIn
<1>9. DebtOf(loan, r, u) = DebtOf(loans[id], r, u) + (0 - debt)
    BY <1>2, <1>3, <1>6, <1>7 DEF DebtOf, r, u
<1>10. \A q \in Reserves :
           /\ escrow'[q] = escrow[q] + (IF q = r THEN 0 ELSE 0)
           /\ debtSupply'[q] = debtSupply[q] + (IF q = r THEN 0 - debt ELSE 0)
  <2>1. \A q \in Reserves : escrow[q] \in Nat
      BY DEF PoolInv, TypeOK
  <2> QED
      BY <1>1, <1>6, <2>1
<1>11. 0 - debt \in Int /\ 0 \in Int
    BY <1>6
<1>12. r = loans[id].reserveAsset /\ u = loans[id].borrower
    BY DEF r, u
<1> QED
    BY ONLY PoolInv, BooksInv, <1>2, <1>6, <1>7, <1>8, <1>9, <1>10, <1>11, <1>12,
            BooksOfStoredLoan

\* The steps of an auction give back the last bid, if there is one.
LEMMA BidOfAuction ==
    ASSUME PoolInv, NEW id \in OpenLoans
    PROVE  /\ loans[id].state = "Auction" => loans[id].bidderAddress # NoUser
           /\ Refund(loans[id]) = BidIn(loans[id], loans[id].reserveAsset)
<1>1. BidFieldsMatch(loans[id]) /\ loans[id].state \in {"Active", "Auction"}
    BY DEF PoolInv, LedgerInv, BidFieldsMatchState, OpenLoans, Open
<1> QED
    BY <1>1 DEF BidFieldsMatch, Refund, BidIn

LEMMA AuctionBooks ==
    ASSUME PoolInv, BooksInv, NEW nft \in Nfts, NEW onBehalfOf \in Users,
           NEW bidPrice \in Nat, Auction(nft, onBehalfOf, bidPrice)
    PROVE  BooksInv'
<1> DEFINE id == nftToLoanIds[nft]
           r == loans[id].reserveAsset
           u == loans[id].borrower
           borrowAmount == BorrowAmount(id)
           bid == bidPrice - Refund(loans[id])
<1>1. /\ AuctionLoan(id, onBehalfOf, bidPrice, borrowAmount, now)
      /\ escrow' = [escrow EXCEPT ![r] = escrow[r] + bidPrice - Refund(loans[id])]
      /\ SettleReserve(r, debtSupply[r], cash[r])
      /\ debtToken' = debtToken
    BY DEF Auction
<1>2. id \in OpenLoans
    BY <1>1 DEF AuctionLoan, FirstBid, HigherBid, IsLoan, OpenLoans, Open
<1>3. /\ id \in DOMAIN loans /\ r \in Reserves /\ u \in Users /\ borrowAmount \in Nat
      /\ loans[id] \in LoanData /\ loans[id].bidPrice \in Nat
    BY <1>2, LoanFacts DEF OpenLoans
<1>4. now \in Nat
    BY DEF PoolInv, TypeOK
<1>5. Refund(loans[id]) = BidIn(loans[id], r) /\ Refund(loans[id]) \in Nat
    BY <1>2, <1>3, BidOfAuction DEF Refund
<1>6. loans[id].state \in {"Active", "Auction"}
    BY <1>2 DEF OpenLoans, Open
<1> HIDE DEF id, r, u, borrowAmount
<1>7. PICK loan \in LoanData :
          /\ Store(id, loan) /\ SameParties(loan, loans[id]) /\ loan.state = "Auction"
          /\ loan.bidPrice = bidPrice /\ loan.scaledAmount = loans[id].scaledAmount
  <2> DEFINE raised == WithBid(loans[id], onBehalfOf, bidPrice, borrowAmount)
             first == PutOnSale(raised, onBehalfOf, now)
  <2>1. \/ Store(id, first)
        \/ loans[id].state = "Auction" /\ Store(id, raised)
      BY <1>1 DEF AuctionLoan, FirstBid, HigherBid
  <2>2. /\ SameParties(raised, loans[id]) /\ raised.state = loans[id].state
        /\ raised.bidPrice = bidPrice /\ raised.scaledAmount = loans[id].scaledAmount
      BY <1>3, WithBidFields
  <2> HIDE DEF raised
  <2>3. raised \in LoanData
      BY <2>2 DEF SameParties
  <2>4. /\ SameParties(first, raised) /\ first.state = "Auction"
        /\ first.bidPrice = raised.bidPrice /\ first.scaledAmount = raised.scaledAmount
      BY <1>4, <2>3, PutOnSaleFields
  <2> HIDE DEF first
  <2>5. first \in LoanData /\ SameParties(first, loans[id])
      BY <2>2, <2>4 DEF SameParties
  <2> QED
      BY <2>1, <2>2, <2>3, <2>4, <2>5
<1>8. r = loans[id].reserveAsset /\ u = loans[id].borrower
      /\ loan.reserveAsset = r /\ loan.borrower = u
    BY <1>7 DEF r, u, SameParties
<1>9. bid \in Int /\ BidIn(loan, r) = BidIn(loans[id], r) + bid
  <2>1. BidIn(loan, r) = bidPrice
      BY <1>7, <1>8 DEF BidIn
  <2> QED
      BY <1>5, <2>1
<1>10. DebtOf(loan, r, u) = DebtOf(loans[id], r, u) + 0 /\ 0 \in Int
  <2>1. DebtOf(loan, r, u) = loans[id].scaledAmount
      BY <1>7, <1>8 DEF DebtOf
  <2>2. DebtOf(loans[id], r, u) = loans[id].scaledAmount
      BY <1>6, <1>8 DEF DebtOf
  <2>3. loans[id].scaledAmount \in Nat
      BY <1>3 DEF LoanData
  <2> QED
      BY <2>1, <2>2, <2>3
<1>11. escrow[r] \in Nat /\ debtSupply \in [Reserves -> Nat]
       /\ debtToken \in [Reserves -> [Users -> Nat]]
    BY <1>3 DEF PoolInv, TypeOK
<1>12. escrow' = [escrow EXCEPT ![r] = escrow[r] + bid]
  <2>1. escrow[r] + bidPrice - Refund(loans[id]) = escrow[r] + bid
      BY <1>5, <1>11
  <2> QED
      BY <1>1, <2>1
<1> HIDE DEF bid
<1>13. \A q \in Reserves : escrow'[q] = escrow[q] + (IF q = r THEN bid ELSE 0)
    BY <1>3, <1>9, <1>12, EscrowMoved
<1>14. \A q \in Reserves : debtSupply'[q] = debtSupply[q] + (IF q = r THEN 0 ELSE 0)
    BY <1>1, <1>11 DEF SettleReserve
<1>15. \A q \in Reserves, v \in Users :
           debtToken'[q][v] = debtToken[q][v] + (IF q = r /\ v = u THEN 0 ELSE 0)
    BY <1>1, <1>11
<1> QED
    BY ONLY PoolInv, BooksInv, <1>1, <1>3, <1>7, <1>8, <1>9, <1>10, <1>11, <1>13, <1>14,
            <1>15, BooksOfStoredLoan

LEMMA RedeemBooks ==
    ASSUME PoolInv, BooksInv, NEW nft \in Nfts, NEW amount \in Nat, NEW bidFine,
           Redeem(nft, amount, bidFine)
    PROVE  BooksInv'
<1> DEFINE id == nftToLoanIds[nft]
           r == loans[id].reserveAsset
           u == loans[id].borrower
           debt == RayDiv(amount, BorrowIndex(r))
           less == loans[id].scaledAmount - debt
           bid == loans[id].bidPrice
<1>1. /\ Store(id, WithDebt(TakenOffSale(loans[id]), less))
      /\ id \in DOMAIN loans /\ loans[id].state = "Auction" /\ loans[id].scaledAmount >= debt
      /\ BurnDebt(r, u, amount)
      /\ escrow' = [escrow EXCEPT ![r] = escrow[r] - bid]
      /\ SettleReserve(r, debtSupply[r] - debt, cash[r] + amount)
    BY DEF Redeem, RedeemLoan, IsLoan
<1>2. /\ r \in Reserves /\ u \in Users /\ loans[id] \in LoanData
      /\ loans[id].scaledAmount \in Nat /\ bid \in Nat
    BY <1>1, LoanFacts
<1> HIDE DEF id, r, u
<1>3. /\ debt \in Nat /\ debtToken' \in [Reserves -> [Users -> Nat]]
      /\ \A q \in Reserves :
            debtSupply'[q] = debtSupply[q] + (IF q = r THEN 0 - debt ELSE 0)
      /\ \A q \in Reserves, v \in Users :
            debtToken'[q][v] = debtToken[q][v] + (IF q = r /\ v = u THEN 0 - debt ELSE 0)
    BY <1>1, <1>2, BurnedCounts
<1> HIDE DEF debt
<1>4. less \in Nat
    BY <1>1, <1>2, <1>3
<1>5. r = loans[id].reserveAsset /\ u = loans[id].borrower
    BY DEF r, u
<1>6. PICK loan \in LoanData :
          /\ Store(id, loan) /\ loan.state = "Active" /\ loan.scaledAmount = less
          /\ loan.reserveAsset = r /\ loan.borrower = u
  <2> DEFINE off == TakenOffSale(loans[id])
  <2>1. SameParties(off, loans[id]) /\ off.state = "Active"
      BY <1>2, TakenOffSaleFields
  <2> HIDE DEF off, less
  <2>2. off \in LoanData
      BY <2>1 DEF SameParties
  <2>3. /\ SameParties(WithDebt(off, less), off) /\ WithDebt(off, less).state = "Active"
        /\ WithDebt(off, less).scaledAmount = less
      BY <1>4, <2>1, <2>2, WithDebtFields
  <2>4. Store(id, WithDebt(off, less))
      BY <1>1 DEF off
  <2> QED
      BY <1>5, <2>1, <2>3, <2>4 DEF SameParties
<1>7. 0 - bid \in Int /\ BidIn(loan, r) = BidIn(loans[id], r) + (0 - bid)
    BY <1>1, <1>2, <1>5, <1>6 DEF BidIn
<1>8. 0 - debt \in Int /\ DebtOf(loan, r, u) = DebtOf(loans[id], r, u) + (0 - debt)
    BY <1>1, <1>2, <1>3, <1>5, <1>6 DEF DebtOf
<1> HIDE DEF bid
<1>9. \A q \in Reserves : escrow'[q] = escrow[q] + (IF q = r THEN 0 - bid ELSE 0)
  <2>1. escrow[r] \in Nat
      BY <1>2 DEF PoolInv, TypeOK
  <2>2. escrow[r] - bid = escrow[r] + (0 - bid)
      BY <1>2, <2>1
  <2> QED
      BY <1>1, <1>2, <1>7, <2>2, EscrowMoved
<1> QED
    BY ONLY PoolInv, BooksInv, <1>1, <1>3, <1>5, <1>6, <1>7, <1>8, <1>9, BooksOfStoredLoan

LEMMA LiquidateBooks ==
    ASSUME PoolInv, BooksInv, NEW nft \in Nfts, NEW amount \in Nat, Liquidate(nft, amount)
    PROVE  BooksInv'
<1> DEFINE id == nftToLoanIds[nft]
           r == loans[id].reserveAsset
           u == loans[id].borrower
           owed == BorrowAmount(id)
           debt == RayDiv(owed, BorrowIndex(r))
           bid == loans[id].bidPrice
           extra == ExtraDebtAmount(loans[id], owed)
           remain == RemainAmount(loans[id], owed)
<1>1. /\ Store(id, Defaulted(loans[id], owed))
      /\ id \in DOMAIN loans /\ loans[id].state = "Auction"
      /\ BurnDebt(r, u, owed)
      /\ escrow' = [escrow EXCEPT ![r] = escrow[r] + extra - owed - remain]
      /\ SettleReserve(r, debtSupply[r] - debt, cash[r] + owed)
    BY DEF Liquidate, LiquidateLoan, IsLoan
<1>2. /\ r \in Reserves /\ u \in Users /\ loans[id] \in LoanData /\ owed \in Nat
      /\ loans[id].scaledAmount \in Nat /\ bid \in Nat /\ debt = loans[id].scaledAmount
    BY <1>1, LoanFacts
<1>3. extra - owed - remain = 0 - bid /\ extra \in Nat /\ remain \in Nat
    BY <1>2 DEF ExtraDebtAmount, RemainAmount
<1> HIDE DEF id, r, u, owed, extra, remain
<1>4. /\ debt \in Nat /\ debtToken' \in [Reserves -> [Users -> Nat]]
      /\ \A q \in Reserves :
            debtSupply'[q] = debtSupply[q] + (IF q = r THEN 0 - debt ELSE 0)
      /\ \A q \in Reserves, v \in Users :
            debtToken'[q][v] = debtToken[q][v] + (IF q = r /\ v = u THEN 0 - debt ELSE 0)
    BY <1>1, <1>2, BurnedCounts
<1> HIDE DEF debt
<1>5. r = loans[id].reserveAsset /\ u = loans[id].borrower
    BY DEF r, u
<1>6. PICK loan \in LoanData : /\ Store(id, loan) /\ loan.state = "Defaulted"
                               /\ loan.reserveAsset = r /\ loan.borrower = u
    BY <1>1, <1>2, <1>5, DefaultedFields DEF SameParties
<1>7. 0 - bid \in Int /\ BidIn(loan, r) = BidIn(loans[id], r) + (0 - bid)
    BY <1>1, <1>2, <1>5, <1>6 DEF BidIn
<1>8. 0 - debt \in Int /\ DebtOf(loan, r, u) = DebtOf(loans[id], r, u) + (0 - debt)
    BY <1>1, <1>2, <1>4, <1>5, <1>6 DEF DebtOf
<1> HIDE DEF bid
<1>9. \A q \in Reserves : escrow'[q] = escrow[q] + (IF q = r THEN 0 - bid ELSE 0)
  <2>1. escrow[r] \in Nat
      BY <1>2 DEF PoolInv, TypeOK
  <2>2. escrow[r] + extra - owed - remain = escrow[r] + (0 - bid)
      BY <1>2, <1>3, <2>1
  <2> QED
      BY <1>1, <1>2, <1>7, <2>2, EscrowMoved
<1> QED
    BY ONLY PoolInv, BooksInv, <1>1, <1>4, <1>5, <1>6, <1>7, <1>8, <1>9, BooksOfStoredLoan

LEMMA SupplyBooks ==
    ASSUME PoolInv, BooksInv, SupplyNext
    PROVE  BooksInv'
<1>1. UNCHANGED <<loanVars, debtToken, escrow>>
    BY DEF SupplyNext, Deposit, Withdraw, TransferBToken
<1>2. \A q \in Reserves : debtSupply'[q] = debtSupply[q]
  <2>1. debtSupply \in [Reserves -> Nat]
      BY DEF PoolInv, TypeOK
  <2>2. \/ \E r \in Reserves : debtSupply' = [debtSupply EXCEPT ![r] = debtSupply[r]]
        \/ debtSupply' = debtSupply
      BY DEF SupplyNext, Deposit, Withdraw, TransferBToken, SettleReserve
  <2> QED
      BY <2>1, <2>2
<1>3. loans' = loans
    BY <1>1 DEF loanVars, ledgerVars
<1> QED
    BY <1>1, <1>2, <1>3, QuietBooks

\* Nor does anything outside the pool's entry points.
LEMMA EnvironmentMovesNothing ==
    ASSUME EnvironmentNext \/ UNCHANGED vars
    PROVE  UNCHANGED <<loans, moneyVars>>
<1>1. CASE ExternalNext /\ UNCHANGED poolVars
  <2>1. loans' = loans
      BY <1>1 DEF ExternalNext, LockerNext, ApproveFlashLoanLocker,
                  SetFlashLoanLocking, PurgeFlashLoanLocking, ledgerVars
  <2> QED
      BY <1>1, <2>1 DEF poolVars
<1>2. CASE UNCHANGED <<loanVars, moneyVars>>
    BY <1>2 DEF loanVars, ledgerVars
<1>3. CASE EnvironmentNext
  <2>1. ConfigureFlags => UNCHANGED <<loanVars, moneyVars>>
      BY DEF ConfigureFlags
  <2> QED
      BY <1>1, <1>2, <1>3, <2>1
         DEF EnvironmentNext, Tick, SetPause, SetPausedTime, SetOracle, ApproveDelegation
<1>4. CASE UNCHANGED vars
    BY <1>2, <1>4 DEF vars, poolVars
<1> QED
    BY <1>3, <1>4

LEMMA EnvironmentBooks ==
    ASSUME PoolInv, BooksInv, EnvironmentNext \/ UNCHANGED vars
    PROVE  BooksInv'
    BY EnvironmentMovesNothing, QuietBooks DEF moneyVars

LEMMA NextKeepsBooks == PoolInv /\ BooksInv /\ [Next]_vars => BooksInv'
<1> SUFFICES ASSUME PoolInv, BooksInv, [Next]_vars
             PROVE  BooksInv'
    OBVIOUS
<1>1. CASE LoanNextOfPool
    BY <1>1, InputsNat, BorrowBooks, RepayBooks, AuctionBooks, RedeemBooks, LiquidateBooks
       DEF LoanNextOfPool
<1> QED
    BY <1>1, SupplyBooks, EnvironmentBooks DEF Next

LEMMA InitBooks == Init => BooksInv
<1> SUFFICES ASSUME Init
             PROVE  BooksInv
    OBVIOUS
<1>1. LedgerInv /\ loans = << >>
    BY InitInv DEF Init, LoanInit
<1>2. /\ IsFiniteSet(DOMAIN loans)
      /\ \A q, v : Bids(q) \in [DOMAIN loans -> Nat] /\ Debts(q, v) \in [DOMAIN loans -> Nat]
    BY <1>1, LoansFinite DEF LedgerInv, LoanTypeOK
<1>3. DOMAIN loans = {}
    BY <1>1
<1>4. \A q, v : SumFunction(Bids(q)) = 0 /\ SumFunction(Debts(q, v)) = 0
    BY ONLY <1>2, <1>3, SumOfZeros
<1>5. ASSUME NEW q \in Reserves
      PROVE  /\ escrow[q] = 0 /\ debtSupply[q] = 0 /\ SumFunction(debtToken[q]) = 0
             /\ \A v \in Users : debtToken[q][v] = 0
  <2>1. debtToken[q] = [v \in Users |-> 0]
      BY DEF Init
  <2>2. debtToken[q] \in [Users -> Nat] /\ \A v \in Users : debtToken[q][v] = 0
      BY <2>1
  <2>3. SumFunction(debtToken[q]) = 0
      BY ONLY <2>2, PoolAssumption, SumOfZeros
  <2> QED
      BY <2>2, <2>3 DEF Init
<1> QED
    BY <1>4, <1>5 DEF BooksInv

-----------------------------------------------------------------------------
(***************************************************************************)
(* Theorems.                                                               *)
(***************************************************************************)
\* Escrow, debt tokens and loans are one set of books, whatever is bid, borrowed,
\* repaid, redeemed or liquidated.
THEOREM BooksInvariant == Spec => []BooksInv
    BY InitBooks, NextKeepsBooks, PoolInvariant, PTL DEF Spec

\* The pool owns exactly the highest bids of the running auctions: no sequence of
\* bids, redemptions and liquidations spends the bid of one auction on another,
\* forgets to refund somebody or leaves money behind.
THEOREM EscrowIsTheBids == Spec => []EscrowCoversBids
<1>1. PoolInv /\ BooksInv => EscrowCoversBids
    BY BooksAsProperties DEF PoolInv
<1> QED
    BY <1>1, PoolInvariant, BooksInvariant, PTL

\* The debt token and the ledger count the same debt, unit by unit, although each
\* rounds on its own and a closing repayment is scaled back from an amount.
THEOREM DebtTokensAreTheLoans == Spec => []DebtBacksLoans
<1>1. PoolInv /\ BooksInv => DebtBacksLoans
    BY BooksAsProperties DEF PoolInv
<1> QED
    BY <1>1, PoolInvariant, BooksInvariant, PTL

-----------------------------------------------------------------------------
(***************************************************************************)
(* Within a block the indexes stand still.                                 *)
(***************************************************************************)
\* Nothing accrues in no time, and suppliers earn nothing at no rate.
LEMMA NoTimeNoInterest ==
    ASSUME NEW rate \in Nat, NEW exp \in Nat
    PROVE  /\ exp = 0 => LinearInterest(rate, exp) = RAY /\ CompoundedInterest(rate, exp) = RAY
           /\ rate = 0 => LinearInterest(rate, exp) = RAY
<1>1. 0 \div SECONDS_PER_YEAR = 0
    BY MathAssumption, SMT
<1>2. exp = 0 \/ rate = 0 => rate * exp = 0
    BY SMT
<1>3. exp = 0 \/ rate = 0 => LinearInterest(rate, exp) = RAY
    BY <1>1, <1>2, MathAssumption DEF LinearInterest
<1> QED
    BY <1>3 DEF CompoundedInterest

\* The accrual of a transaction brings the reserve to the very indexes that the
\* views project: always for the suppliers, and for the borrowers as long as the
\* suppliers earn something, which is when _updateIndexes accrues at all.
LEMMA AccruedIsProjected ==
    ASSUME NEW time \in Nat, NEW rd, SoundReserve(rd, time), NEW scaledDebt \in Nat
    PROVE  LET new == UpdateIndexes(rd, scaledDebt, time) IN
           /\ new.liquidityIndex = NormalizedIncome(rd, time)
           /\ scaledDebt # 0 /\ rd.currentLiquidityRate # 0 =>
                 new.variableBorrowIndex = NormalizedDebt(rd, time)
<1> DEFINE exp == time - rd.lastUpdateTimestamp
           rate == rd.currentLiquidityRate
           linear == LinearInterest(rate, exp)
           compounded == CompoundedInterest(rd.currentVariableBorrowRate, exp)
           l == rd.liquidityIndex
           b == rd.variableBorrowIndex
           new == UpdateIndexes(rd, scaledDebt, time)
<1>1. /\ rd \in ReserveData /\ exp \in Nat /\ rate \in Nat /\ l \in Nat /\ b \in Nat
      /\ rd.currentVariableBorrowRate \in Nat
      /\ exp = 0 <=> rd.lastUpdateTimestamp = time
    BY DEF SoundReserve, ReserveData
<1>2. /\ new.liquidityIndex = IF rate > 0 THEN RayMul(linear, l) ELSE l
      /\ new.variableBorrowIndex = IF rate > 0 /\ scaledDebt # 0 THEN RayMul(compounded, b) ELSE b
    BY <1>1 DEF UpdateIndexes, ReserveData
<1>3. /\ NormalizedIncome(rd, time) = IF exp = 0 THEN l ELSE RayMul(linear, l)
      /\ NormalizedDebt(rd, time) = IF exp = 0 THEN b ELSE RayMul(compounded, b)
    BY <1>1 DEF NormalizedIncome, NormalizedDebt
<1> HIDE DEF exp
<1>4. /\ exp = 0 \/ rate = 0 => linear = RAY
      /\ exp = 0 => compounded = RAY
    BY <1>1, NoTimeNoInterest
<1>5. RayMul(RAY, l) = l /\ RayMul(RAY, b) = b
    BY <1>1, RayMulByOne
<1> HIDE DEF rate, linear, compounded, l, b, new
<1>6. new.liquidityIndex = NormalizedIncome(rd, time)
    BY <1>1, <1>2, <1>3, <1>4, <1>5
<1>7. scaledDebt # 0 /\ rate # 0 => new.variableBorrowIndex = NormalizedDebt(rd, time)
    BY <1>1, <1>2, <1>3, <1>4, <1>5
<1> QED
    BY <1>6, <1>7 DEF new, rate

\* Where the projected indexes of a reserve stay
Fixes(r) ==
    /\ NormalizedIncome(reserves[r], now)' = NormalizedIncome(reserves[r], now)
    /\ debtSupply[r] # 0 /\ reserves[r].currentLiquidityRate # 0 =>
          NormalizedDebt(reserves[r], now)' = NormalizedDebt(reserves[r], now)

LEMMA SettleFixesIndexes ==
    ASSUME PoolInv, now' = now, NEW r \in Reserves, NEW scaledDebt, NEW liquidity,
           SettleReserve(r, scaledDebt, liquidity)
    PROVE  \A q \in Reserves : Fixes(q)
<1> DEFINE new == UpdateInterestRates(Accrued(r), scaledDebt, liquidity)
<1>1. /\ now \in Nat /\ reserves \in [Reserves -> ReserveData] /\ debtSupply[r] \in Nat
      /\ SoundReserve(reserves[r], now)
    BY DEF PoolInv, TypeOK
<1>2. SoundReserve(Accrued(r), now)
    BY AccruedSound
<1>3. Accrued(r).lastUpdateTimestamp = now
    BY <1>1 DEF Accrued, UpdateIndexes, SoundReserve, ReserveData
<1>4. /\ new.liquidityIndex = Accrued(r).liquidityIndex
      /\ new.variableBorrowIndex = Accrued(r).variableBorrowIndex
      /\ new.lastUpdateTimestamp = now
    BY <1>2, <1>3 DEF UpdateInterestRates, SoundReserve, ReserveData
<1>5. reserves' = [reserves EXCEPT ![r] = new]
    BY DEF SettleReserve
<1> HIDE DEF new
<1>6. /\ reserves'[r] = new
      /\ \A q \in Reserves \ {r} : reserves'[q] = reserves[q]
    BY <1>1, <1>5
<1>7. \A q \in Reserves \ {r} : Fixes(q)
    BY <1>6 DEF Fixes
<1>8. /\ NormalizedIncome(reserves'[r], now') = new.liquidityIndex
      /\ NormalizedDebt(reserves'[r], now') = new.variableBorrowIndex
    BY <1>4, <1>6 DEF NormalizedIncome, NormalizedDebt
<1>9. /\ Accrued(r).liquidityIndex = NormalizedIncome(reserves[r], now)
      /\ debtSupply[r] # 0 /\ reserves[r].currentLiquidityRate # 0 =>
            Accrued(r).variableBorrowIndex = NormalizedDebt(reserves[r], now)
    BY <1>1, AccruedIsProjected DEF Accrued
<1> QED
    BY <1>4, <1>7, <1>8, <1>9 DEF Fixes

\* A step changes the reserves by settling one that is active, or not at all.
ReservesMove ==
    \/ UNCHANGED <<reserves, debtSupply, cash>>
    \/ /\ \E r \in flags.active : \E d, c : SettleReserve(r, d, c)
       /\ UNCHANGED <<flags, now>>

LEMMA LoanOperationSettles ==
    ASSUME LoanNextOfPool
    PROVE  (\E r \in flags.active : \E d, c : SettleReserve(r, d, c)) /\ UNCHANGED <<flags, now>>
<1> DEFINE Settled == \E r \in flags.active : \E d, c : SettleReserve(r, d, c)
<1>1. ASSUME NEW r, NEW i, NEW u, NEW nft, NEW a, Borrow(r, i, u, nft, a)
      PROVE  Settled /\ UNCHANGED <<flags, now>>
    BY <1>1 DEF Borrow, ValidateBorrow
<1>2. ASSUME NEW nft, NEW a, Repay(nft, a)
      PROVE  Settled /\ UNCHANGED <<flags, now>>
    BY <1>2 DEF Repay, Usable
<1>3. ASSUME NEW nft, NEW u, NEW p, Auction(nft, u, p)
      PROVE  Settled /\ UNCHANGED <<flags, now>>
    BY <1>3 DEF Auction, Usable
<1>4. ASSUME NEW nft, NEW a, NEW f, Redeem(nft, a, f)
      PROVE  Settled /\ UNCHANGED <<flags, now>>
    BY <1>4 DEF Redeem, Usable
<1>5. ASSUME NEW nft, NEW a, Liquidate(nft, a)
      PROVE  Settled /\ UNCHANGED <<flags, now>>
    BY <1>5 DEF Liquidate, Usable
<1> HIDE DEF Settled
<1>6. Settled /\ UNCHANGED <<flags, now>>
    BY <1>1, <1>2, <1>3, <1>4, <1>5 DEF LoanNextOfPool
<1> QED
    BY <1>6 DEF Settled

LEMMA NextMovesReserves ==
    ASSUME PoolInv, [Next]_vars
    PROVE  ReservesMove
<1>1. SupplyNext => ReservesMove
    BY DEF SupplyNext, Deposit, Withdraw, TransferBToken, ReservesMove
<1>2. EnvironmentNext \/ UNCHANGED vars => UNCHANGED <<reserves, debtSupply, cash>>
    BY EnvironmentMovesNothing DEF moneyVars
<1> QED
    BY <1>1, <1>2, LoanOperationSettles DEF Next, ReservesMove

LEMMA NextFixesIndexes ==
    ASSUME PoolInv, [Next]_vars, now' = now
    PROVE  \A q \in Reserves : Fixes(q)
<1>1. CASE reserves' = reserves
    BY <1>1 DEF Fixes
<1>2. CASE \E r \in flags.active : \E d, c : SettleReserve(r, d, c)
  <2>1. flags.active \subseteq Reserves
      BY DEF PoolInv, TypeOK
  <2> QED
      BY <1>2, <2>1, SettleFixesIndexes
<1> QED
    BY <1>1, <1>2, NextMovesReserves DEF ReservesMove

\* Nobody gains by acting before or after another user of the same block: no
\* transaction moves what the supplied tokens or the debts are worth in it.
THEOREM BlocksFixIndexes == Spec => BlockFixesIndexes
<1>1. PoolInv /\ [Next]_vars => [ now' = now => \A r \in Reserves : Fixes(r) ]_vars
    BY NextFixesIndexes
<1> QED
    BY <1>1, PoolInvariant, PTL DEF Spec, BlockFixesIndexes, Fixes

-----------------------------------------------------------------------------
(***************************************************************************)
(* What an administrator can switch off.  The configurator looks at the    *)
(* cash and the liquidity rate of a reserve, not at its debt: what makes   *)
(* that enough is that the rates always belong to the books, and that a    *)
(* reserve which is lent out to the last unit pays its suppliers something.*)
(***************************************************************************)
FullUseEarns == \A debt \in Nat \ {0} : LiquidityRate(RAY, debt) # 0

RatesFollowBooks ==
    \A r \in Reserves :
        LET total == RayMul(debtSupply[r], reserves[r].variableBorrowIndex) IN
        reserves[r].currentLiquidityRate =
            LiquidityRate(UtilizationRate(cash[r], total), total)

\* Nobody can put up for auction what is not owed
AuctionsOwe ==
    \A id \in OpenLoans : loans[id].state = "Auction" => loans[id].scaledAmount # 0

ClosedReservesOweNothing ==
    \A r \in Reserves : r \notin flags.active => debtSupply[r] = 0

PledgedCollectionsActive == \A id \in OpenLoans : loans[id].nft[1] \in flags.nftActive

StandingInv ==
    /\ RatesFollowBooks
    /\ AuctionsOwe
    /\ PledgedCollectionsActive
    /\ FullUseEarns => ClosedReservesOweNothing

\* No cash and no rate means no debt.
LEMMA UnusedOwesNothing ==
    ASSUME PoolInv, RatesFollowBooks, FullUseEarns, NEW r \in Reserves,
           CheckReserveNoLiquidity(r)
    PROVE  debtSupply[r] = 0
<1> DEFINE total == RayMul(debtSupply[r], reserves[r].variableBorrowIndex)
<1>1. /\ debtSupply[r] \in Nat /\ reserves[r].variableBorrowIndex \in Nat
      /\ reserves[r].variableBorrowIndex >= RAY
    BY DEF PoolInv, TypeOK, SoundReserve, ReserveData
<1>2. total \in Nat /\ total >= debtSupply[r]
  <2>1. RayMul(reserves[r].variableBorrowIndex, debtSupply[r]) >= debtSupply[r]
      BY <1>1, RayMulGrows
  <2>2. reserves[r].variableBorrowIndex * debtSupply[r]
            = debtSupply[r] * reserves[r].variableBorrowIndex
      BY <1>1, SMT
  <2> QED
      BY <1>1, <2>1, <2>2, RayMulNat DEF RayMul
<1>3. /\ cash[r] = 0 /\ reserves[r].currentLiquidityRate = 0
      /\ reserves[r].currentLiquidityRate =
            LiquidityRate(UtilizationRate(cash[r], total), total)
    BY DEF CheckReserveNoLiquidity, RatesFollowBooks
<1> HIDE DEF total
<1>4. total # 0 => UtilizationRate(0, total) = RAY
    BY <1>2, RayDivBySelf DEF UtilizationRate
<1>5. total = 0
    BY <1>2, <1>3, <1>4 DEF FullUseEarns
<1> QED
    BY <1>1, <1>2, <1>5

\* A reserve that owes nothing has no loan that owes something.
LEMMA LoansWithinSupply ==
    ASSUME PoolInv, BooksInv, NEW id \in OpenLoans
    PROVE  LET r == loans[id].reserveAsset
               u == loans[id].borrower
           IN  /\ loans[id].scaledAmount <= debtToken[r][u]
               /\ debtToken[r][u] <= debtSupply[r]
               /\ loans[id].state = "Auction" => loans[id].bidPrice <= escrow[r]
<1> DEFINE r == loans[id].reserveAsset
           u == loans[id].borrower
           S == DOMAIN loans
<1>1. /\ loans \in Seq(LoanData) /\ debtToken \in [Reserves -> [Users -> Nat]]
      /\ debtSupply \in [Reserves -> Nat] /\ id \in S
      /\ loans[id].state \in {"Active", "Auction"}
    BY DEF PoolInv, TypeOK, LoanTypeOK, OpenLoans, Open
<1>2. r \in Reserves /\ u \in Users
    BY <1>1, LoanFacts
<1>3. /\ IsFiniteSet(S) /\ Bids(r) \in [S -> Nat] /\ Debts(r, u) \in [S -> Nat]
    BY <1>1, LoansFinite
<1>4. /\ escrow[r] = SumFunction(Bids(r)) /\ debtSupply[r] = SumFunction(debtToken[r])
      /\ debtToken[r][u] = SumFunction(Debts(r, u))
    BY <1>2 DEF BooksInv
<1>5. /\ Debts(r, u)[id] = loans[id].scaledAmount
      /\ loans[id].state = "Auction" => Bids(r)[id] = loans[id].bidPrice
    BY <1>1 DEF Debts, DebtOf, Bids, BidIn
<1>6. debtToken[r] \in [Users -> Nat] /\ IsFiniteSet(Users)
    BY <1>1, <1>2, PoolAssumption
<1> HIDE DEF r, u, S
<1>7. Debts(r, u)[id] <= SumFunction(Debts(r, u))
    BY ONLY <1>1, <1>3, SumChanged
<1>8. Bids(r)[id] <= SumFunction(Bids(r))
    BY ONLY <1>1, <1>3, SumChanged
<1>9. debtToken[r][u] <= SumFunction(debtToken[r])
    BY ONLY <1>2, <1>6, SumChanged
<1> QED
    BY <1>4, <1>5, <1>7, <1>8, <1>9 DEF r, u

\* The rate curve of a reserve that is lent out completely, at any debt: the sum of
\* its three parts, up to what is lost by scaling a debt of a few units.
LEMMA FullUseRate ==
    ASSUME NEW debt \in Nat \ {0},
           BaseVariableBorrowRate + VariableRateSlope1 + VariableRateSlope2 >= WAD
    PROVE  /\ OverallBorrowRate(debt, VariableBorrowRate(RAY)) \in Nat \ {0}
<1> DEFINE rate == BaseVariableBorrowRate + VariableRateSlope1 + VariableRateSlope2
           w == WadToRay(debt)
           q == RayMul(w, rate)
<1>1. VariableBorrowRate(RAY) = rate
  <2>1. RAY - OPTIMAL_UTILIZATION_RATE \in Nat \ {0} /\ RAY > OPTIMAL_UTILIZATION_RATE
      BY ONLY MathAssumption, RateAssumption
  <2>2. RayDiv(RAY - OPTIMAL_UTILIZATION_RATE, RAY - OPTIMAL_UTILIZATION_RATE) = RAY
      BY ONLY <2>1, RayDivBySelf
  <2>3. RayMul(VariableRateSlope2, RAY) = VariableRateSlope2
    <3>1. VariableRateSlope2 \in Nat /\ RAY \in Nat
        BY ONLY MathAssumption, RateAssumption
    <3>2. VariableRateSlope2 * RAY = RAY * VariableRateSlope2
        BY ONLY <3>1, SMT
    <3>3. RayMul(RAY, VariableRateSlope2) = VariableRateSlope2
        BY ONLY <3>1, RayMulByOne
    <3> QED
        BY ONLY <3>2, <3>3 DEF RayMul
  <2> QED
      BY ONLY <2>1, <2>2, <2>3 DEF VariableBorrowRate, rate
<1>2. rate \in Nat /\ rate >= WAD /\ WAD \in Nat /\ WAD >= 2
    BY ONLY BaseVariableBorrowRate + VariableRateSlope1 + VariableRateSlope2 >= WAD,
            MathAssumption, RateAssumption DEF rate
<1>3. w \in Nat \ {0} /\ w * WAD >= RAY
    BY ONLY debt \in Nat \ {0}, WadToRayScale
<1> HIDE DEF rate, w
<1>4. q \in Nat /\ w * rate + HALF_RAY < q * RAY + RAY
    BY ONLY <1>2, <1>3, RayMulNat, RayMulBounds
<1> HIDE DEF q
<1>5. q * RAY >= w /\ q * RAY \in Nat
    BY ONLY <1>2, <1>3, <1>4, RateOutweighsRounding
<1>6. RayDiv(q, w) \in Nat \ {0}
    BY ONLY <1>3, <1>4, <1>5, RayDivPositive
<1> QED
    BY <1>1, <1>6 DEF OverallBorrowRate, w, q

\* A reserve that keeps at most half of the interest, with rates that sum up to at
\* least one wei of a ray, pays its suppliers when it is lent out completely.
THEOREM RatesEarnAtFullUse ==
    ASSUME 2 * ReserveFactor <= PERCENTAGE_FACTOR,
           BaseVariableBorrowRate + VariableRateSlope1 + VariableRateSlope2 >= WAD
    PROVE  FullUseEarns
<1> SUFFICES ASSUME NEW debt \in Nat \ {0}
             PROVE  LiquidityRate(RAY, debt) # 0
    BY DEF FullUseEarns
<1> DEFINE overall == OverallBorrowRate(debt, VariableBorrowRate(RAY))
           share == PERCENTAGE_FACTOR - ReserveFactor
<1>1. overall \in Nat \ {0}
    BY FullUseRate
<1>2. share \in Nat /\ share >= 5000
    BY ONLY 2 * ReserveFactor <= PERCENTAGE_FACTOR, RateAssumption DEF PERCENTAGE_FACTOR
<1>3. LiquidityRate(RAY, debt) = PercentMul(RayMul(overall, RAY), share)
    BY DEF LiquidityRate
<1> HIDE DEF overall, share
<1>4. RayMul(overall, RAY) = overall
  <2>1. overall * RAY = RAY * overall
      BY ONLY <1>1, MathAssumption, SMT
  <2>2. RayMul(RAY, overall) = overall
      BY ONLY <1>1, RayMulByOne
  <2> QED
      BY ONLY <2>1, <2>2 DEF RayMul
<1>5. PercentMul(overall, share) # 0
    BY ONLY <1>1, <1>2, PercentMulPositive
<1> QED
    BY <1>3, <1>4, <1>5

LEMMA ThresholdPriceNat ==
    ASSUME PoolInv, NEW asset \in NftAssets, NEW r \in Reserves
    PROVE  /\ NftPriceInReserve(asset, r) \in Nat
           /\ ThresholdPrice(asset, r) \in Nat
<1>1. oracle[asset].price \in Nat /\ ReserveUnit \in Nat /\ ReservePrice[r] \in Nat \ {0}
  <2>1. oracle \in [NftAssets -> [price : Nat, stale : BOOLEAN]]
      BY DEF PoolInv, TypeOK
  <2>2. ReserveUnit \in Nat /\ ReservePrice \in [Reserves -> Nat \ {0}]
      BY ONLY PoolAssumption
  <2> QED
      BY ONLY <2>1, <2>2
<1>2. oracle[asset].price * ReserveUnit \in Nat
    BY <1>1, SMT
<1>3. NftPriceInReserve(asset, r) \in Nat
    BY <1>1, <1>2, DivNat DEF NftPriceInReserve
<1>4. LiquidationThreshold \in Nat
  <2>1. LiquidationThreshold \in 1..PERCENTAGE_FACTOR
      BY ONLY PoolAssumption, Zenon
  <2> QED
      BY ONLY <2>1
<1> QED
    BY <1>3, <1>4, PercentMulNat DEF ThresholdPrice

\* What the loan stored under id may become: sold only if it is owed, from the block
\* of the first bid on, and liquidated only after the end of its auction.
BecomesOf(id, loan) ==
    /\ loan.state = "Auction" =>
          /\ loan.scaledAmount # 0
          /\ loan.bidStartTimestamp =
                IF loans[id].state = "Auction" THEN loans[id].bidStartTimestamp ELSE now
    /\ loan.state = "Defaulted" => now > AuctionEnd(loans[id])

\* A loan changes while the pool is not paused, in a step that leaves the flags, the
\* record of the pauses and the time alone: it is opened on an active collection, or
\* an open loan is overwritten.
LoansMove ==
    \/ loans' = loans
    \/ /\ ~ paused /\ UNCHANGED <<flags, pauseVars, now>>
       /\ \/ \E loan \in LoanData :
                /\ loans' = Append(loans, loan)
                /\ loan.state = "Active" /\ loan.nft[1] \in flags.nftActive
          \/ \E id \in OpenLoans, loan \in LoanData : Store(id, loan) /\ BecomesOf(id, loan)

LEMMA BorrowMovesLoans ==
    ASSUME PoolInv, NEW r \in Reserves, NEW initiator \in Users, NEW onBehalfOf \in Users,
           NEW nft \in Nfts, NEW amount \in Nat,
           Borrow(r, initiator, onBehalfOf, nft, amount)
    PROVE  LoansMove
<1> DEFINE id == nftToLoanIds[nft]
           debt == RayDiv(amount, BorrowIndex(r))
<1>1. /\ \/ CreateLoan(initiator, onBehalfOf, nft, r, amount, BorrowIndex(r))
         \/ IncreaseLoan(id, amount, BorrowIndex(r))
      /\ nft[1] \in flags.nftActive /\ ~ paused /\ UNCHANGED <<flags, pauseVars, now>>
    BY DEF Borrow, ValidateBorrow
<1>2. debt \in Nat
    BY AccruedSound, RayDivNat
<1>3. CASE CreateLoan(initiator, onBehalfOf, nft, r, amount, BorrowIndex(r))
  <2> DEFINE loan == NewLoan(onBehalfOf, nft, r, debt)
  <2>1. loans' = Append(loans, loan)
      BY <1>3 DEF CreateLoan
  <2>2. loan \in LoanData /\ loan.state = "Active"
      BY <1>2, NewLoanFields
  <2>3. loan.nft = nft
      BY DEF NewLoan
  <2> HIDE DEF loan
  <2> QED
      BY <1>1, <2>1, <2>2, <2>3 DEF LoansMove
<1>4. CASE IncreaseLoan(id, amount, BorrowIndex(r))
  <2> DEFINE more == loans[id].scaledAmount + debt
             loan == WithDebt(loans[id], more)
  <2>1. id \in DOMAIN loans /\ loans[id].state = "Active" /\ Store(id, loan)
      BY <1>4 DEF IncreaseLoan, IsLoan
  <2>2. loans[id] \in LoanData /\ more \in Nat
      BY <1>2, <2>1, LoanFacts
  <2> HIDE DEF more
  <2>3. loan \in LoanData /\ loan.state = "Active"
      BY <2>1, <2>2, WithDebtFields DEF SameParties
  <2>4. id \in OpenLoans
      BY <2>1 DEF OpenLoans, Open
  <2> HIDE DEF id, loan
  <2> QED
      BY <1>1, <2>1, <2>3, <2>4 DEF LoansMove, BecomesOf
<1> QED
    BY <1>1, <1>3, <1>4

LEMMA RepayMovesLoans ==
    ASSUME PoolInv, NEW nft \in Nfts, NEW amount \in Nat, Repay(nft, amount)
    PROVE  LoansMove
<1> DEFINE id == nftToLoanIds[nft]
           r == loans[id].reserveAsset
           paid == RepayAmount(id, amount)
           debt == RayDiv(paid, BorrowIndex(r))
<1>1. /\ \/ amount < BorrowAmount(id) /\ DecreaseLoan(id, paid, BorrowIndex(r))
         \/ RepayLoan(id)
      /\ ~ paused /\ UNCHANGED <<flags, pauseVars, now>>
    BY DEF Repay
<1>2. id \in DOMAIN loans /\ loans[id].state = "Active"
    BY <1>1 DEF DecreaseLoan, RepayLoan, IsLoan
<1>3. /\ loans[id] \in LoanData /\ BorrowIndex(r) \in Nat \ {0}
      /\ loans[id].scaledAmount \in Nat /\ BorrowAmount(id) \in Nat
    BY <1>2, LoanFacts
<1>4. debt \in Nat
  <2>1. paid \in Nat
      BY <1>3 DEF RepayAmount
  <2> QED
      BY <1>3, <2>1, RayDivNat
<1>5. id \in OpenLoans
    BY <1>2 DEF OpenLoans, Open
<1>6. CASE amount < BorrowAmount(id) /\ DecreaseLoan(id, paid, BorrowIndex(r))
  <2> DEFINE less == loans[id].scaledAmount - debt
             loan == WithDebt(loans[id], less)
  <2>1. Store(id, loan) /\ loans[id].scaledAmount >= debt
      BY <1>6 DEF DecreaseLoan
  <2>2. less \in Nat
      BY <1>3, <1>4, <2>1
  <2> HIDE DEF less
  <2>3. loan \in LoanData /\ loan.state = "Active"
      BY <1>2, <1>3, <2>2, WithDebtFields DEF SameParties
  <2> HIDE DEF id, loan
  <2> QED
      BY <1>1, <1>5, <2>1, <2>3 DEF LoansMove, BecomesOf
<1>7. CASE RepayLoan(id)
  <2> DEFINE loan == Repaid(loans[id])
  <2>1. Store(id, loan)
      BY <1>7 DEF RepayLoan
  <2>2. loan \in LoanData /\ loan.state = "Repaid"
      BY <1>3, RepaidFields DEF SameParties
  <2> HIDE DEF id, loan
  <2> QED
      BY <1>1, <1>5, <2>1, <2>2 DEF LoansMove, BecomesOf
<1> QED
    BY <1>1, <1>6, <1>7

LEMMA AuctionMovesLoans ==
    ASSUME PoolInv, AuctionsOwe, NEW nft \in Nfts, NEW onBehalfOf \in Users,
           NEW bidPrice \in Nat, Auction(nft, onBehalfOf, bidPrice)
    PROVE  LoansMove
<1> DEFINE id == nftToLoanIds[nft]
           r == loans[id].reserveAsset
           owed == BorrowAmount(id)
           raised == WithBid(loans[id], onBehalfOf, bidPrice, owed)
           first == PutOnSale(raised, onBehalfOf, now)
<1>1. /\ AuctionLoan(id, onBehalfOf, bidPrice, owed, now)
      /\ loans[id].state = "Active" => owed > ThresholdPrice(loans[id].nft[1], r)
      /\ ~ paused /\ UNCHANGED <<flags, pauseVars, now>>
    BY DEF Auction, OpeningBid
<1>2. /\ id \in DOMAIN loans /\ loans[id].state \in {"Active", "Auction"}
      /\ \/ loans[id].state = "Active" /\ Store(id, first)
         \/ loans[id].state = "Auction" /\ Store(id, raised)
    BY <1>1 DEF AuctionLoan, FirstBid, HigherBid, IsLoan
<1>3. /\ loans[id] \in LoanData /\ r \in Reserves /\ loans[id].nft \in Nfts
      /\ loans[id].scaledAmount \in Nat /\ owed \in Nat /\ BorrowIndex(r) \in Nat
    BY <1>2, LoanFacts DEF LoanData
<1>4. id \in OpenLoans
    BY <1>2 DEF OpenLoans, Open
<1>5. loans[id].scaledAmount # 0
  <2>1. CASE loans[id].state = "Auction"
      BY <1>4, <2>1 DEF AuctionsOwe
  <2>2. CASE loans[id].state = "Active"
    <3>1. ThresholdPrice(loans[id].nft[1], r) \in Nat
        BY <1>3, ThresholdPriceNat DEF Nfts
    <3>2. owed # 0
        BY <1>1, <1>3, <2>2, <3>1
    <3>3. loans[id].scaledAmount = 0 => owed = 0
      <4>1. RayMul(0, BorrowIndex(r)) = 0
          BY <1>3, RayMulZero
      <4> QED
          BY <4>1 DEF BorrowAmount
    <3> QED
        BY <3>2, <3>3
  <2> QED
      BY <1>2, <2>1, <2>2
<1>6. /\ raised \in LoanData /\ raised.scaledAmount = loans[id].scaledAmount
      /\ raised.state = loans[id].state
      /\ raised.bidStartTimestamp = loans[id].bidStartTimestamp
  <2>1. loans[id] \in LoanData /\ owed \in Nat
      BY <1>3
  <2> HIDE DEF id, owed
  <2> QED
      BY ONLY <2>1, WithBidFields, onBehalfOf \in Users, bidPrice \in Nat DEF SameParties
<1>7. now \in Nat
    BY DEF PoolInv, TypeOK
<1> HIDE DEF raised
<1>8. /\ first \in LoanData /\ first.scaledAmount = loans[id].scaledAmount
      /\ first.state = "Auction" /\ first.bidStartTimestamp = now
    BY <1>6, <1>7, PutOnSaleFields DEF SameParties
<1> HIDE DEF id, first
<1> QED
    BY <1>1, <1>2, <1>4, <1>5, <1>6, <1>8 DEF LoansMove, BecomesOf

LEMMA RedeemMovesLoans ==
    ASSUME PoolInv, NEW nft \in Nfts, NEW amount \in Nat, NEW bidFine,
           Redeem(nft, amount, bidFine)
    PROVE  LoansMove
<1> DEFINE id == nftToLoanIds[nft]
           r == loans[id].reserveAsset
           debt == RayDiv(amount, BorrowIndex(r))
           less == loans[id].scaledAmount - debt
           off == TakenOffSale(loans[id])
           loan == WithDebt(off, less)
<1>1. /\ Store(id, loan)
      /\ id \in DOMAIN loans /\ loans[id].state = "Auction" /\ loans[id].scaledAmount >= debt
      /\ ~ paused /\ UNCHANGED <<flags, pauseVars, now>>
    BY DEF Redeem, RedeemLoan, IsLoan
<1>2. /\ loans[id] \in LoanData /\ loans[id].scaledAmount \in Nat
      /\ BorrowIndex(r) \in Nat \ {0}
    BY <1>1, LoanFacts
<1>3. id \in OpenLoans
    BY <1>1 DEF OpenLoans, Open
<1>4. debt \in Nat
    BY <1>2, RayDivNat
<1> HIDE DEF debt
<1>5. less \in Nat
    BY <1>1, <1>2, <1>4
<1>6. off \in LoanData /\ off.state = "Active"
    BY <1>2, TakenOffSaleFields DEF SameParties
<1> HIDE DEF less, off
<1>7. loan \in LoanData /\ loan.state = "Active"
    BY <1>5, <1>6, WithDebtFields DEF SameParties
<1> HIDE DEF id, loan
<1> QED
    BY <1>1, <1>3, <1>7 DEF LoansMove, BecomesOf

LEMMA LiquidateMovesLoans ==
    ASSUME PoolInv, NEW nft \in Nfts, NEW amount \in Nat, Liquidate(nft, amount)
    PROVE  LoansMove
<1> DEFINE id == nftToLoanIds[nft]
           loan == Defaulted(loans[id], BorrowAmount(id))
<1>1. /\ Store(id, loan) /\ id \in DOMAIN loans /\ loans[id].state = "Auction"
      /\ now > AuctionEnd(loans[id])
      /\ ~ paused /\ UNCHANGED <<flags, pauseVars, now>>
    BY DEF Liquidate, LiquidateLoan, IsLoan
<1>2. loans[id] \in LoanData /\ BorrowAmount(id) \in Nat
    BY <1>1, LoanFacts
<1>3. id \in OpenLoans
    BY <1>1 DEF OpenLoans, Open
<1>4. loan \in LoanData /\ loan.state = "Defaulted"
    BY <1>2, DefaultedFields DEF SameParties
<1> HIDE DEF id, loan
<1> QED
    BY <1>1, <1>3, <1>4 DEF LoansMove, BecomesOf

LEMMA NextMovesLoans ==
    ASSUME PoolInv, AuctionsOwe, [Next]_vars
    PROVE  LoansMove
<1>1. SupplyNext => loans' = loans
    BY DEF SupplyNext, Deposit, Withdraw, TransferBToken, loanVars, ledgerVars
<1>2. LoanNextOfPool => LoansMove
    BY InputsNat, BorrowMovesLoans, RepayMovesLoans, AuctionMovesLoans, RedeemMovesLoans,
       LiquidateMovesLoans DEF LoanNextOfPool
<1>3. EnvironmentNext \/ UNCHANGED vars => loans' = loans
    BY EnvironmentMovesNothing
<1> QED
    BY <1>1, <1>2, <1>3 DEF Next, LoansMove

LEMMA StepKeepsRates ==
    ASSUME PoolInv, PoolInv', RatesFollowBooks, ReservesMove
    PROVE  RatesFollowBooks'
<1>1. CASE UNCHANGED <<reserves, debtSupply, cash>>
    BY <1>1 DEF RatesFollowBooks
<1>2. ASSUME NEW r \in flags.active, NEW d, NEW c, SettleReserve(r, d, c)
      PROVE  RatesFollowBooks'
  <2> DEFINE new == UpdateInterestRates(Accrued(r), d, c)
             total == RayMul(d, Accrued(r).variableBorrowIndex)
  <2>1. /\ reserves \in [Reserves -> ReserveData] /\ debtSupply \in [Reserves -> Nat]
        /\ cash \in [Reserves -> Nat] /\ r \in Reserves
      BY DEF PoolInv, TypeOK
  <2>2. Accrued(r) \in ReserveData
      BY <2>1, AccruedSound DEF SoundReserve
  <2>3. /\ new.variableBorrowIndex = Accrued(r).variableBorrowIndex
        /\ new.currentLiquidityRate = LiquidityRate(UtilizationRate(c, total), total)
      BY <2>2 DEF UpdateInterestRates, ReserveData
  <2>4. /\ reserves' = [reserves EXCEPT ![r] = new]
        /\ debtSupply' = [debtSupply EXCEPT ![r] = d]
        /\ cash' = [cash EXCEPT ![r] = c]
      BY <1>2 DEF SettleReserve
  <2> HIDE DEF new
  <2>5. /\ reserves'[r] = new /\ debtSupply'[r] = d /\ cash'[r] = c
        /\ \A q \in Reserves \ {r} : /\ reserves'[q] = reserves[q] /\ cash'[q] = cash[q]
                                     /\ debtSupply'[q] = debtSupply[q]
      BY <2>1, <2>4
  <2> QED
      BY <2>3, <2>5 DEF RatesFollowBooks
<1> QED
    BY <1>1, <1>2 DEF ReservesMove

\* Flags are changed by the administrator alone, one at a time.
FlagCleared ==
    \/ \E r \in Reserves : /\ CheckReserveNoLiquidity(r)
                           /\ flags'.active = flags.active \ {r}
                           /\ flags'.nftActive = flags.nftActive
    \/ \E asset \in NftAssets : /\ CheckNftNoLiquidity(asset)
                                /\ flags'.nftActive = flags.nftActive \ {asset}
                                /\ flags'.active = flags.active
    \/ /\ flags.active \subseteq flags'.active
       /\ flags.nftActive \subseteq flags'.nftActive

LEMMA FlagsMove ==
    ASSUME PoolInv, [Next]_vars
    PROVE  \/ flags' = flags
           \/ FlagCleared /\ UNCHANGED <<loans, nftTotalCollateral, reserves, debtSupply, cash>>
<1>1. SupplyNext => flags' = flags
    BY DEF SupplyNext, Deposit, Withdraw, TransferBToken
<1>2. LoanNextOfPool => flags' = flags
    BY LoanOperationSettles
<1>3. ASSUME ConfigureFlags
      PROVE  FlagCleared /\ UNCHANGED <<loans, nftTotalCollateral, reserves, debtSupply, cash>>
  <2>1. UNCHANGED <<loans, nftTotalCollateral, reserves, debtSupply, cash>>
      BY <1>3 DEF ConfigureFlags, loanVars, ledgerVars, moneyVars
  <2>2. flags \in [active : SUBSET Reserves, frozen : SUBSET Reserves,
                   borrowing : SUBSET Reserves, nftActive : SUBSET NftAssets,
                   nftFrozen : SUBSET NftAssets]
      BY DEF PoolInv, TypeOK
  <2>3. ASSUME NEW r \in Reserves, NEW flag \in BOOLEAN, SetActiveFlagOnReserve(r, flag)
        PROVE  FlagCleared
      BY <2>2, <2>3 DEF SetActiveFlagOnReserve, Flagged, FlagCleared
  <2>4. ASSUME NEW asset \in NftAssets, NEW flag \in BOOLEAN, SetActiveFlagOnNft(asset, flag)
        PROVE  FlagCleared
      BY <2>2, <2>4 DEF SetActiveFlagOnNft, Flagged, FlagCleared
  <2>5. ASSUME NEW x, NEW flag \in BOOLEAN,
               \/ SetFreezeFlagOnReserve(x, flag) \/ SetBorrowingFlagOnReserve(x, flag)
               \/ SetFreezeFlagOnNft(x, flag)
        PROVE  FlagCleared
      BY <2>2, <2>5 DEF SetFreezeFlagOnReserve, SetBorrowingFlagOnReserve, SetFreezeFlagOnNft,
                        FlagCleared
  <2> QED
      BY <1>3, <2>1, <2>3, <2>4, <2>5 DEF ConfigureFlags
<1>4. EnvironmentNext => ConfigureFlags \/ flags' = flags
    BY DEF EnvironmentNext, Tick, SetPause, SetPausedTime, SetOracle, ApproveDelegation, poolVars
<1>5. UNCHANGED vars => flags' = flags
    BY DEF vars, poolVars
<1> QED
    BY <1>1, <1>2, <1>3, <1>4, <1>5 DEF Next

LEMMA StepKeepsClosed ==
    ASSUME PoolInv, RatesFollowBooks, FullUseEarns, ClosedReservesOweNothing, [Next]_vars
    PROVE  ClosedReservesOweNothing'
<1>1. CASE flags' = flags
  <2>1. ASSUME NEW r \in Reserves, r \notin flags.active
        PROVE  debtSupply'[r] = debtSupply[r]
    <3>1. debtSupply \in [Reserves -> Nat]
        BY DEF PoolInv, TypeOK
    <3>2. CASE debtSupply' = debtSupply
        BY <3>2
    <3>3. CASE \E q \in flags.active : \E d, c : SettleReserve(q, d, c)
        BY <2>1, <3>1, <3>3 DEF SettleReserve
    <3> QED
        BY <3>2, <3>3, NextMovesReserves DEF ReservesMove
  <2> QED
      BY <1>1, <2>1 DEF ClosedReservesOweNothing
<1>2. CASE FlagCleared /\ debtSupply' = debtSupply
  <2>1. ASSUME NEW r \in Reserves, CheckReserveNoLiquidity(r)
        PROVE  debtSupply[r] = 0
      BY <2>1, UnusedOwesNothing
  <2> QED
      BY <1>2, <2>1 DEF FlagCleared, ClosedReservesOweNothing
<1> QED
    BY <1>1, <1>2, FlagsMove

\* A collection that counts no collateral secures no loan.
LEMMA UncountedIsUnpledged ==
    ASSUME PoolInv, NEW asset \in NftAssets, CheckNftNoLiquidity(asset), NEW id \in OpenLoans
    PROVE  loans[id].nft[1] # asset
<1> DEFINE securedBy == {j \in OpenLoans : loans[j].nft[1] = asset}
<1>1. Cardinality(securedBy) = 0
    BY DEF PoolInv, CollateralCounted, CheckNftNoLiquidity
<1>2. IsFiniteSet(securedBy)
  <2>1. IsFiniteSet(DOMAIN loans)
      BY LoansFinite DEF PoolInv, TypeOK, LoanTypeOK
  <2>2. securedBy \subseteq DOMAIN loans
      BY DEF OpenLoans
  <2> QED
      BY <2>1, <2>2, FS_Subset
<1>3. securedBy = {}
    BY <1>1, <1>2, FS_EmptySet
<1> QED
    BY <1>3

LEMMA StepKeepsPledges ==
    ASSUME PoolInv, AuctionsOwe, PledgedCollectionsActive, [Next]_vars
    PROVE  AuctionsOwe' /\ PledgedCollectionsActive'
<1>1. loans \in Seq(LoanData) /\ \A id \in DOMAIN loans : loans[id] \in LoanData
    BY LoanIds DEF PoolInv, TypeOK, LoanTypeOK
<1>2. CASE loans' = loans /\ flags' = flags
    BY <1>2 DEF AuctionsOwe, PledgedCollectionsActive, OpenLoans, Open
<1>3. CASE loans' = loans /\ FlagCleared
  <2>1. \A asset \in NftAssets : CheckNftNoLiquidity(asset) =>
            \A id \in OpenLoans : loans[id].nft[1] # asset
      BY UncountedIsUnpledged
  <2>2. OpenLoans' = OpenLoans
      BY <1>3 DEF OpenLoans, Open
  <2> QED
      BY <1>3, <2>1, <2>2 DEF FlagCleared, AuctionsOwe, PledgedCollectionsActive
<1>4. ASSUME flags' = flags, NEW loan \in LoanData, loans' = Append(loans, loan),
             loan.state = "Active", loan.nft[1] \in flags.nftActive
      PROVE  AuctionsOwe' /\ PledgedCollectionsActive'
  <2> DEFINE x == Len(loans) + 1
  <2>1. /\ DOMAIN loans' = DOMAIN loans \cup {x} /\ loans'[x] = loan
        /\ \A j \in DOMAIN loans : loans'[j] = loans[j]
      BY <1>1, <1>4, AddLoan
  <2> HIDE DEF x
  <2> QED
      BY <1>4, <2>1 DEF AuctionsOwe, PledgedCollectionsActive, OpenLoans, Open
<1>5. ASSUME flags' = flags, NEW id \in OpenLoans, NEW loan \in LoanData, Store(id, loan),
             loan.state = "Auction" => loan.scaledAmount # 0
      PROVE  AuctionsOwe' /\ PledgedCollectionsActive'
  <2>1. /\ DOMAIN loans' = DOMAIN loans /\ loans'[id] = loan /\ id \in DOMAIN loans
        /\ \A j \in DOMAIN loans : j # id => loans'[j] = loans[j]
      BY <1>5, StoredLoan DEF OpenLoans
  <2>2. loans'[id].nft = loans[id].nft
      BY <2>1, NextKeepsPool DEF PoolStep, LedgerStep, LifecycleStep
  <2> QED
      BY <1>5, <2>1, <2>2 DEF AuctionsOwe, PledgedCollectionsActive, OpenLoans, Open
<1> QED
    BY <1>2, <1>3, <1>4, <1>5, NextMovesLoans, FlagsMove DEF LoansMove, BecomesOf

LEMMA NextKeepsStanding == PoolInv /\ StandingInv /\ [Next]_vars => StandingInv'
    BY NextKeepsPool, NextMovesReserves, StepKeepsRates, StepKeepsPledges, StepKeepsClosed
       DEF StandingInv

LEMMA InitStanding == Init => StandingInv
<1> SUFFICES ASSUME Init
             PROVE  StandingInv
    OBVIOUS
<1>1. PoolInv
    BY InitPool
<1>2. OpenLoans = {}
    BY DEF Init, LoanInit, OpenLoans
<1>3. ASSUME NEW r \in Reserves
      PROVE  LET total == RayMul(debtSupply[r], reserves[r].variableBorrowIndex) IN
             reserves[r].currentLiquidityRate =
                LiquidityRate(UtilizationRate(cash[r], total), total)
  <2>1. /\ debtSupply[r] = 0 /\ reserves[r].variableBorrowIndex = RAY
        /\ reserves[r].currentLiquidityRate = 0
    <3>1. /\ reserves = [q \in Reserves |-> NewReserve]
          /\ debtSupply = [q \in Reserves |-> 0]
        BY DEF Init
    <3> QED
        BY ONLY <3>1 DEF NewReserve
  <2>2. RayMul(0, RAY) = 0
      BY ONLY MathAssumption, RayMulZero
  <2>3. UtilizationRate(cash[r], 0) = 0
      BY DEF UtilizationRate
  <2>4. LiquidityRate(0, 0) = PercentMul(RayMul(0, 0), PERCENTAGE_FACTOR - ReserveFactor)
    <3>1. OverallBorrowRate(0, VariableBorrowRate(0)) = 0
        BY DEF OverallBorrowRate
    <3> QED
        BY ONLY <3>1 DEF LiquidityRate
  <2>5. RayMul(0, 0) = 0 /\ PercentMul(0, PERCENTAGE_FACTOR - ReserveFactor) = 0
      BY RayMulZero, PercentMulZero, ReserveShareNat
  <2> QED
      BY <2>1, <2>2, <2>3, <2>4, <2>5
<1>4. ClosedReservesOweNothing
    BY DEF Init, ClosedReservesOweNothing
<1> QED
    BY <1>2, <1>3, <1>4 DEF StandingInv, RatesFollowBooks, AuctionsOwe,
                            PledgedCollectionsActive

\* The rates always belong to the books, every auction is of a loan that owes
\* something, and no administrator can deactivate a collection that secures a loan.
THEOREM StandingInvariant == Spec => []StandingInv
    BY InitStanding, NextKeepsStanding, PoolInvariant, PTL DEF Spec

\* Nor can he deactivate a reserve that is owed something, provided that a reserve
\* which is lent out completely pays its suppliers at all.
THEOREM NoLoanIsCutOff ==
    ASSUME FullUseEarns
    PROVE  Spec => []InactiveMeansUnused
<1>1. PoolInv /\ BooksInv /\ StandingInv => InactiveMeansUnused
  <2> SUFFICES ASSUME PoolInv, BooksInv, StandingInv, NEW id \in OpenLoans
               PROVE  /\ loans[id].scaledAmount # 0 => loans[id].reserveAsset \in flags.active
                      /\ loans[id].nft[1] \in flags.nftActive
      BY DEF InactiveMeansUnused
  <2> DEFINE r == loans[id].reserveAsset
             u == loans[id].borrower
  <2>1. id \in DOMAIN loans
      BY DEF OpenLoans
  <2>2. r \in Reserves /\ u \in Users /\ loans[id].scaledAmount \in Nat
      BY <2>1, LoanFacts
  <2>3. debtToken[r][u] \in Nat /\ debtSupply[r] \in Nat
      BY <2>2 DEF PoolInv, TypeOK
  <2>4. loans[id].scaledAmount <= debtToken[r][u] /\ debtToken[r][u] <= debtSupply[r]
      BY LoansWithinSupply
  <2>5. r \notin flags.active => debtSupply[r] = 0
      BY <2>2 DEF StandingInv, ClosedReservesOweNothing
  <2> HIDE DEF r, u
  <2>6. loans[id].scaledAmount # 0 => r \in flags.active
      BY <2>2, <2>3, <2>4, <2>5
  <2> QED
      BY <2>6 DEF StandingInv, PledgedCollectionsActive, r
<1> QED
    BY <1>1, PoolInvariant, BooksInvariant, StandingInvariant, PTL

-----------------------------------------------------------------------------
(***************************************************************************)
(* The ways out.  Whether a call is possible is more than these provers    *)
(* can say (ENABLED), but not what it asks for: here are the conditions of *)
(* the calls that end an auction or a loan, and of everything those call,  *)
(* as state predicates that always hold; and for each call that its        *)
(* conditions are complete - whoever writes what it writes, has made it.   *)
(***************************************************************************)
\* The ledger, the bNFT and the debt token let go of the loan.
LetsGo(id) ==
    LET loan == loans[id]
        r == loan.reserveAsset
        scaled == RayDiv(BorrowAmount(id), BorrowIndex(r))
    IN  /\ nftToLoanIds[loan.nft] = id /\ id # 0
        /\ Usable(r, loan.nft[1])
        /\ userNftCollateral[loan.borrower][loan.nft[1]] >= 1
        /\ nftTotalCollateral[loan.nft[1]] >= 1
        /\ Exists(loan.nft) /\ minters[loan.nft] = LOAN
        /\ scaled # 0 /\ scaled <= debtToken[r][loan.borrower] /\ scaled <= debtSupply[r]

\* The highest bid, with what the liquidator adds, pays the debt and the remainder;
\* and somebody can still bid more.
BidPays(id) ==
    LET loan == loans[id]
        r == loan.reserveAsset
        owed == BorrowAmount(id)
    IN  /\ loan.bidderAddress # NoUser /\ loan.bidStartTimestamp # 0
        /\ escrow[r] + ExtraDebtAmount(loan, owed) >= owed + RemainAmount(loan, owed)
        /\ loan.bidPrice + owed + 1 >= loan.bidPrice + PercentMul(owed, ONE_PERCENT)

WaysOut ==
    \A id \in OpenLoans :
        /\ BorrowAmount(id) > 0 => LetsGo(id)
        /\ loans[id].state = "Auction" => BorrowAmount(id) > 0 /\ BidPays(id)

LEMMA LoanLetsGo ==
    ASSUME PoolInv, BooksInv, StandingInv, FullUseEarns, NEW id \in OpenLoans,
           BorrowAmount(id) > 0
    PROVE  LetsGo(id)
<1> DEFINE loan == loans[id]
           r == loan.reserveAsset
           a == loan.nft[1]
           scaled == RayDiv(BorrowAmount(id), BorrowIndex(r))
<1>1. id \in DOMAIN loans /\ Open(id)
    BY DEF OpenLoans
<1>2. /\ loan \in LoanData /\ r \in Reserves /\ loan.borrower \in Users
      /\ loan.scaledAmount \in Nat /\ BorrowIndex(r) \in Nat /\ scaled = loan.scaledAmount
    BY <1>1, LoanFacts
<1>3. loan.nft \in Nfts /\ a \in NftAssets /\ id # 0
    BY <1>1, <1>2, LoanIds DEF LoanData, Nfts, PoolInv, LedgerInv, LoanTypeOK
<1>4. nftToLoanIds[loan.nft] = id
    BY <1>1 DEF PoolInv, LedgerInv, CollateralIndexed
<1>5. minters[loan.nft] = LOAN /\ Exists(loan.nft)
  <2>1. minters[loan.nft] = LOAN
      BY <1>3, <1>4 DEF PoolInv, LedgerInv, CollateralInCustody
  <2>2. BnftBacked
      BY DEF PoolInv, LedgerInv
  <2> QED
      BY ONLY <1>3, <2>1, <2>2, AddressAssumption DEF BnftBacked
<1>6. scaled # 0
  <2>1. loan.scaledAmount = 0 => BorrowAmount(id) = 0
      BY <1>2, RayMulZero DEF BorrowAmount
  <2> QED
      BY <1>2, <2>1
<1>7. scaled <= debtToken[r][loan.borrower] /\ scaled <= debtSupply[r]
  <2>1. /\ loan.scaledAmount <= debtToken[r][loan.borrower]
        /\ debtToken[r][loan.borrower] <= debtSupply[r]
      BY LoansWithinSupply
  <2>2. debtToken[r][loan.borrower] \in Nat /\ debtSupply[r] \in Nat
      BY <1>2 DEF PoolInv, TypeOK
  <2>3. scaled = loan.scaledAmount /\ loan.scaledAmount \in Nat
      BY <1>2
  <2> HIDE DEF loan, r, scaled
  <2> QED
      BY ONLY <2>1, <2>2, <2>3
<1>8. Usable(r, a)
  <2>1. r \in flags.active
    <3>1. debtSupply[r] \in Nat /\ debtSupply[r] # 0
        BY <1>2, <1>6, <1>7 DEF PoolInv, TypeOK
    <3> QED
        BY <1>2, <3>1 DEF StandingInv, ClosedReservesOweNothing
  <2> QED
      BY <2>1 DEF Usable, StandingInv, PledgedCollectionsActive
<1>9. nftTotalCollateral[a] >= 1 /\ userNftCollateral[loan.borrower][a] >= 1
  <2>1. LedgerInv /\ CollateralCounted
      BY DEF PoolInv
  <2>2. id \in SecuredBy(a) /\ id \in BorrowedBy(loan.borrower, a)
      BY DEF SecuredBy, BorrowedBy
  <2>3. /\ IsFiniteSet(SecuredBy(a)) /\ IsFiniteSet(BorrowedBy(loan.borrower, a))
        /\ nftTotalCollateral[a] = Cardinality(SecuredBy(a))
        /\ userNftCollateral[loan.borrower][a] = Cardinality(BorrowedBy(loan.borrower, a))
      BY <1>2, <1>3, <2>1, CountsAreFinite, CountedAs
  <2> DEFINE S == SecuredBy(a)
             T == BorrowedBy(loan.borrower, a)
  <2> HIDE DEF S, T
  <2>4. /\ IsFiniteSet(S) /\ IsFiniteSet(T) /\ S # {} /\ T # {}
        /\ nftTotalCollateral[a] = Cardinality(S)
        /\ userNftCollateral[loan.borrower][a] = Cardinality(T)
      BY <2>2, <2>3 DEF S, T
  <2>5. Cardinality(S) \in Nat \ {0} /\ Cardinality(T) \in Nat \ {0}
      BY ONLY <2>4, FS_CardinalityType, FS_EmptySet
  <2> QED
      BY <2>4, <2>5
<1> QED
    BY <1>3, <1>4, <1>5, <1>6, <1>7, <1>8, <1>9 DEF LetsGo

LEMMA AuctionBidPays ==
    ASSUME PoolInv, BooksInv, StandingInv, NEW id \in OpenLoans, loans[id].state = "Auction"
    PROVE  BorrowAmount(id) > 0 /\ BidPays(id)
<1> DEFINE loan == loans[id]
           r == loan.reserveAsset
           owed == BorrowAmount(id)
           extra == ExtraDebtAmount(loan, owed)
           remain == RemainAmount(loan, owed)
<1>1. /\ loan \in LoanData /\ r \in Reserves /\ loan.scaledAmount \in Nat
      /\ loan.bidPrice \in Nat /\ owed \in Nat /\ BorrowIndex(r) \in Nat \ {0}
      /\ RayDiv(owed, BorrowIndex(r)) = loan.scaledAmount
    BY LoanFacts DEF OpenLoans
<1>2. BidFieldsMatch(loan)
    BY DEF PoolInv, LedgerInv, BidFieldsMatchState
<1>3. loan.bidPrice <= escrow[r] /\ escrow[r] \in Nat
    BY <1>1, LoansWithinSupply DEF PoolInv, TypeOK
<1>4. owed > 0
  <2>1. loan.scaledAmount # 0
      BY DEF StandingInv, AuctionsOwe
  <2>2. BorrowIndex(r) >= RAY
      BY <1>1, AccruedSound
  <2>3. owed >= loan.scaledAmount
    <3>1. RayMul(BorrowIndex(r), loan.scaledAmount) >= loan.scaledAmount
        BY <1>1, <2>2, RayMulGrows
    <3>2. BorrowIndex(r) * loan.scaledAmount = loan.scaledAmount * BorrowIndex(r)
        BY <1>1, SMT
    <3> QED
        BY <3>1, <3>2 DEF BorrowAmount, RayMul
  <2> HIDE DEF loan, owed
  <2> QED
      BY <1>1, <2>1, <2>3
<1>5. escrow[r] + extra >= owed + remain
    BY <1>1, <1>3 DEF ExtraDebtAmount, RemainAmount
<1>6. PercentMul(owed, ONE_PERCENT) <= owed
  <2>1. owed \in Nat
      BY <1>1
  <2> HIDE DEF owed
  <2> QED
      BY ONLY <2>1, PercentMulLowers DEF ONE_PERCENT
<1>7. loan.bidPrice + owed + 1 >= loan.bidPrice + PercentMul(owed, ONE_PERCENT)
  <2>1. PercentMul(owed, ONE_PERCENT) \in Nat
      BY ONLY <1>1, PercentMulNat DEF ONE_PERCENT
  <2> HIDE DEF owed, loan
  <2> QED
      BY <1>1, <1>6, <2>1
<1> QED
    BY <1>2, <1>4, <1>5, <1>7 DEF BidPays, BidFieldsMatch

\* What liquidate, repay and auction write when they end a loan or raise its bid
LiquidateWrites(id) ==
    LET loan == loans[id]
        r == loan.reserveAsset
        owed == BorrowAmount(id)
        scaled == RayDiv(owed, BorrowIndex(r))
    IN  /\ Store(id, Defaulted(loan, owed))
        /\ nftToLoanIds' = [nftToLoanIds EXCEPT ![loan.nft] = 0]
        /\ userNftCollateral' =
              [userNftCollateral EXCEPT ![loan.borrower][loan.nft[1]] = @ - 1]
        /\ nftTotalCollateral' = [nftTotalCollateral EXCEPT ![loan.nft[1]] = @ - 1]
        /\ SetLocking(loan.nft, LOAN, FALSE)
        /\ bnftOwner' = [bnftOwner EXCEPT ![loan.nft] = NoUser]
        /\ minters' = [minters EXCEPT ![loan.nft] = NoUser]
        /\ nftOwner' = [nftOwner EXCEPT ![loan.nft] = loan.bidderAddress]
        /\ debtToken' = [debtToken EXCEPT ![r][loan.borrower] = @ - scaled]
        /\ escrow' = [escrow EXCEPT ![r] =
                         @ + ExtraDebtAmount(loan, owed) - owed - RemainAmount(loan, owed)]
        /\ SettleReserve(r, debtSupply[r] - scaled, cash[r] + owed)
        /\ bToken' = [bToken EXCEPT ![r] = BTokenAccrued(r)]
        /\ UNCHANGED <<flashLoanLockerWhitelist, borrowAllowances, flags, oracle, pauseVars, now>>

RepayWrites(id) ==
    LET loan == loans[id]
        r == loan.reserveAsset
        owed == BorrowAmount(id)
        scaled == RayDiv(owed, BorrowIndex(r))
    IN  /\ Store(id, Repaid(loan))
        /\ nftToLoanIds' = [nftToLoanIds EXCEPT ![loan.nft] = 0]
        /\ userNftCollateral' =
              [userNftCollateral EXCEPT ![loan.borrower][loan.nft[1]] = @ - 1]
        /\ nftTotalCollateral' = [nftTotalCollateral EXCEPT ![loan.nft[1]] = @ - 1]
        /\ bnftOwner' = [bnftOwner EXCEPT ![loan.nft] = NoUser]
        /\ minters' = [minters EXCEPT ![loan.nft] = NoUser]
        /\ nftOwner' = [nftOwner EXCEPT ![loan.nft] = loan.borrower]
        /\ debtToken' = [debtToken EXCEPT ![r][loan.borrower] = @ - scaled]
        /\ SettleReserve(r, debtSupply[r] - scaled, cash[r] + owed)
        /\ bToken' = [bToken EXCEPT ![r] = BTokenAccrued(r)]
        /\ UNCHANGED <<flashLoanLockerWhitelist, lockings, borrowAllowances, escrow, flags,
                       oracle, pauseVars, now>>

RaiseWrites(id, bidder, bid) ==
    LET loan == loans[id]
        r == loan.reserveAsset
    IN  /\ Store(id, WithBid(loan, bidder, bid, BorrowAmount(id)))
        /\ escrow' = [escrow EXCEPT ![r] = @ + bid - Refund(loan)]
        /\ SettleReserve(r, debtSupply[r], cash[r])
        /\ bToken' = [bToken EXCEPT ![r] = BTokenAccrued(r)]
        /\ UNCHANGED <<nftToLoanIds, nftTotalCollateral, userNftCollateral,
                       flashLoanLockerWhitelist, bnftVars, debtToken, borrowAllowances,
                       flags, oracle, pauseVars, now>>

\* After the window of an auction anybody liquidates the loan, paying what the
\* highest bid lacks.
LEMMA LiquidateIsAccepted ==
    ASSUME PoolInv, ~ paused, NEW id \in OpenLoans, loans[id].state = "Auction",
           LetsGo(id), BidPays(id), now > AuctionEnd(loans[id]), LiquidateWrites(id)
    PROVE  Liquidate(loans[id].nft, BorrowAmount(id))
<1> DEFINE loan == loans[id]
           r == loan.reserveAsset
           owed == BorrowAmount(id)
           scaled == RayDiv(owed, BorrowIndex(r))
<1>1. id \in DOMAIN loans /\ owed \in Nat /\ loan.bidPrice \in Nat
    BY LoanFacts DEF OpenLoans
<1>2. nftToLoanIds[loan.nft] = id /\ id # 0 /\ Usable(r, loan.nft[1])
    BY DEF LetsGo
<1>3. LiquidateLoan(id, owed)
  <2>1. UncountCollateral(loan.borrower, loan.nft[1])
      BY DEF LetsGo, LiquidateWrites, UncountCollateral
  <2>2. Unwrap(LOAN, loan.bidderAddress, loan.nft)
      BY DEF LetsGo, LiquidateWrites, Unwrap
  <2> QED
      BY <1>1, <2>1, <2>2 DEF LiquidateWrites, LiquidateLoan, IsLoan
<1>4. BurnDebt(r, loan.borrower, owed)
    BY DEF LetsGo, LiquidateWrites, BurnDebt
<1>5. owed >= ExtraDebtAmount(loan, owed)
    BY <1>1 DEF ExtraDebtAmount
<1>6. /\ loan.bidderAddress # NoUser
      /\ escrow[r] + ExtraDebtAmount(loan, owed) >= owed + RemainAmount(loan, owed)
    BY DEF BidPays
<1>7. /\ escrow' = [escrow EXCEPT ![r] =
                       @ + ExtraDebtAmount(loan, owed) - owed - RemainAmount(loan, owed)]
      /\ SettleReserve(r, debtSupply[r] - scaled, cash[r] + owed)
      /\ bToken' = [bToken EXCEPT ![r] = BTokenAccrued(r)]
      /\ UNCHANGED <<borrowAllowances, flags, oracle, pauseVars, now>>
    BY DEF LiquidateWrites
<1> QED
    BY <1>2, <1>3, <1>4, <1>5, <1>6, <1>7 DEF Liquidate

\* The debt of an active loan is repaid in full by anybody who offers it.
LEMMA RepayIsAccepted ==
    ASSUME PoolInv, ~ paused, NEW id \in OpenLoans, loans[id].state = "Active",
           BorrowAmount(id) > 0, LetsGo(id), RepayWrites(id)
    PROVE  Repay(loans[id].nft, BorrowAmount(id))
<1> DEFINE loan == loans[id]
           r == loan.reserveAsset
           owed == BorrowAmount(id)
           scaled == RayDiv(owed, BorrowIndex(r))
<1>1. id \in DOMAIN loans /\ owed \in Nat
    BY LoanFacts DEF OpenLoans
<1>2. nftToLoanIds[loan.nft] = id /\ id # 0 /\ Usable(r, loan.nft[1])
    BY DEF LetsGo
<1>3. RepayLoan(id)
  <2>1. UncountCollateral(loan.borrower, loan.nft[1])
      BY DEF LetsGo, RepayWrites, UncountCollateral
  <2>2. Unwrap(LOAN, loan.borrower, loan.nft)
      BY DEF LetsGo, RepayWrites, Unwrap
  <2> QED
      BY <1>1, <2>1, <2>2 DEF RepayWrites, RepayLoan, IsLoan
<1>4. BurnDebt(r, loan.borrower, owed)
    BY DEF LetsGo, RepayWrites, BurnDebt
<1>5. ~ (owed < owed) /\ RepayAmount(id, owed) = owed
    BY <1>1 DEF RepayAmount
<1>6. /\ SettleReserve(r, debtSupply[r] - scaled, cash[r] + owed)
      /\ bToken' = [bToken EXCEPT ![r] = BTokenAccrued(r)]
      /\ UNCHANGED <<borrowAllowances, escrow, flags, oracle, pauseVars, now>>
    BY DEF RepayWrites
<1> QED
    BY <1>2, <1>3, <1>4, <1>5, <1>6 DEF Repay

\* Until the window closes anybody outbids the highest bid by the debt and one unit.
LEMMA RaiseIsAccepted ==
    ASSUME PoolInv, ~ paused, NEW id \in OpenLoans, loans[id].state = "Auction",
           BorrowAmount(id) > 0, LetsGo(id), BidPays(id), now <= AuctionEnd(loans[id]),
           NEW u \in Users, RaiseWrites(id, u, loans[id].bidPrice + BorrowAmount(id) + 1)
    PROVE  Auction(loans[id].nft, u, loans[id].bidPrice + BorrowAmount(id) + 1)
<1> DEFINE loan == loans[id]
           r == loan.reserveAsset
           owed == BorrowAmount(id)
           bid == loan.bidPrice + owed + 1
<1>1. id \in DOMAIN loans /\ owed \in Nat /\ loan.bidPrice \in Nat
    BY LoanFacts DEF OpenLoans
<1>2. nftToLoanIds[loan.nft] = id /\ id # 0 /\ Usable(r, loan.nft[1])
    BY DEF LetsGo
<1>3. bid > 0 /\ bid >= owed /\ bid > loan.bidPrice
    BY <1>1
<1>4. RaisingBid(id, bid)
    BY DEF BidPays, RaisingBid
<1>5. AuctionLoan(id, u, bid, owed, now)
    BY <1>1, <1>3 DEF BidPays, RaiseWrites, AuctionLoan, HigherBid, IsLoan
<1>6. /\ escrow' = [escrow EXCEPT ![r] = @ + bid - Refund(loan)]
      /\ SettleReserve(r, debtSupply[r], cash[r])
      /\ bToken' = [bToken EXCEPT ![r] = BTokenAccrued(r)]
      /\ UNCHANGED <<debtToken, borrowAllowances, flags, oracle, pauseVars, now>>
    BY DEF RaiseWrites
<1>7. Auction(loan.nft, u, bid)
  <2> HIDE DEF bid
  <2> QED
      BY <1>2, <1>3, <1>4, <1>5, <1>6 DEF Auction
<1> QED
    BY <1>7

\* No collateral is locked up: every auction can be outbid while it runs and be
\* liquidated after that, and every active loan that owes something be repaid, as
\* far as anything the pool and the contracts it calls look at is concerned.
THEOREM ExitsStayOpen ==
    ASSUME FullUseEarns
    PROVE  Spec => []WaysOut
<1>1. PoolInv /\ BooksInv /\ StandingInv => WaysOut
    BY LoanLetsGo, AuctionBidPays DEF WaysOut
<1> QED
    BY <1>1, PoolInvariant, BooksInvariant, StandingInvariant, PTL

\* The balance a supplier sees is one the accrual of withdraw lets him burn, to the
\* last scaled unit.
BalancesBurnable ==
    \A r \in Reserves, u \in Users :
        LET balance == BTokenBalance(r, u) IN
        /\ balance \in Nat
        /\ RayDiv(balance, Accrued(r).liquidityIndex) = BTokenAccrued(r)[u]
        /\ balance # 0 => BTokenAccrued(r)[u] # 0

LEMMA BalanceBurns ==
    ASSUME PoolInv, NEW r \in Reserves, NEW u \in Users
    PROVE  LET balance == BTokenBalance(r, u) IN
           /\ balance \in Nat
           /\ RayDiv(balance, Accrued(r).liquidityIndex) = BTokenAccrued(r)[u]
           /\ balance # 0 => BTokenAccrued(r)[u] # 0
<1> DEFINE index == Accrued(r).liquidityIndex
           held == bToken[r][u]
           balance == BTokenBalance(r, u)
<1>1. /\ now \in Nat /\ debtSupply[r] \in Nat /\ SoundReserve(reserves[r], now)
      /\ bToken[r] \in [Users \cup {Treasury} -> Nat] /\ held \in Nat
  <2>1. PoolInv /\ r \in Reserves /\ u \in Users
      OBVIOUS
  <2>2. /\ now \in Nat /\ debtSupply \in [Reserves -> Nat] /\ SoundReserve(reserves[r], now)
        /\ bToken \in [Reserves -> [Users \cup {Treasury} -> Nat]]
      BY ONLY <2>1 DEF PoolInv, TypeOK
  <2> QED
      BY ONLY <2>1, <2>2
<1>2. index \in Nat /\ index >= RAY
    BY ONLY AccruedSound, PoolInv, r \in Reserves DEF SoundReserve
<1>3. index = NormalizedIncome(reserves[r], now)
    BY <1>1, AccruedIsProjected DEF Accrued
<1>4. BTokenAccrued(r)[u] = held
    BY <1>1, PoolAssumption DEF BTokenAccrued
<1>5. balance = RayMul(held, index)
    BY <1>3 DEF BTokenBalance
<1> HIDE DEF index, held, balance
<1>6. balance \in Nat /\ RayDiv(balance, index) = held
    BY <1>1, <1>2, <1>5, RayMulNat, ScalingIsExact
<1>7. held = 0 => balance = 0
    BY <1>2, <1>5, RayMulZero
<1> QED
    BY <1>4, <1>6, <1>7 DEF index, balance

\* What withdraw writes when a supplier takes out all he has
WithdrawWrites(r, user) ==
    LET balance == BTokenBalance(r, user) IN
    /\ SettleReserve(r, debtSupply[r], cash[r] - balance)
    /\ bToken' = [bToken EXCEPT ![r] = [BTokenAccrued(r) EXCEPT ![user] = 0]]
    /\ UNCHANGED <<loanVars, debtToken, borrowAllowances, escrow, flags, oracle,
                   pauseVars, now>>

\* Nothing but the cash of the pool stands between a supplier and his balance.
LEMMA WithdrawIsAccepted ==
    ASSUME PoolInv, ~ paused, NEW r \in flags.active, r \in Reserves, NEW u \in Users,
           BTokenBalance(r, u) \in 1..cash[r], WithdrawWrites(r, u)
    PROVE  Withdraw(r, u, BTokenBalance(r, u))
<1> DEFINE balance == BTokenBalance(r, u)
           burned == RayDiv(balance, Accrued(r).liquidityIndex)
           accrued == BTokenAccrued(r)
<1>1. /\ accrued \in [Users \cup {Treasury} -> Nat] /\ cash[r] \in Nat
    BY BTokenAccruedType DEF PoolInv, TypeOK
<1>2. balance \in Nat /\ balance # 0 /\ balance <= cash[r]
    BY <1>1
<1>3. burned = accrued[u] /\ burned # 0
    BY <1>2, BalanceBurns
<1>4. /\ SettleReserve(r, debtSupply[r], cash[r] - balance)
      /\ bToken' = [bToken EXCEPT ![r] = [accrued EXCEPT ![u] = 0]]
      /\ UNCHANGED <<loanVars, debtToken, borrowAllowances, escrow, flags, oracle,
                     pauseVars, now>>
    BY DEF WithdrawWrites
<1> HIDE DEF balance, burned, accrued
<1>5. accrued[u] - burned = 0 /\ burned <= accrued[u]
    BY <1>1, <1>3
<1>6. [accrued EXCEPT ![u] = 0] = [accrued EXCEPT ![u] = @ - burned]
    BY <1>5
<1>7. bToken' = [bToken EXCEPT ![r] = [accrued EXCEPT ![u] = @ - burned]]
    BY <1>4, <1>6
<1>8. balance <= BTokenBalance(r, u) /\ ~ paused /\ r \in flags.active
    BY <1>2 DEF balance
<1> QED
    BY ONLY <1>2, <1>3, <1>4, <1>5, <1>7, <1>8 DEF Withdraw, balance, burned, accrued

\* A supplier can burn the balance he is shown: projected income and accrual never
\* part, and scaling loses nothing on the way there and back.
THEOREM BalancesStayBurnable == Spec => []BalancesBurnable
<1>1. PoolInv => BalancesBurnable
    BY BalanceBurns DEF BalancesBurnable
<1> QED
    BY <1>1, PoolInvariant, PTL

-----------------------------------------------------------------------------
(***************************************************************************)
(* A borrow does not put the collateral up for auction.                    *)
(***************************************************************************)
\* A settled reserve shows the index to which it has just accrued.
LEMMA SettledIndex ==
    ASSUME PoolInv, PoolInv', now' = now, NEW r \in Reserves, NEW scaledDebt, NEW liquidity,
           SettleReserve(r, scaledDebt, liquidity)
    PROVE  BorrowIndex(r)' = BorrowIndex(r)
<1> DEFINE new == UpdateInterestRates(Accrued(r), scaledDebt, liquidity)
           rate == new.currentVariableBorrowRate
           index == BorrowIndex(r)
<1>1. SoundReserve(Accrued(r), now) /\ now \in Nat /\ index \in Nat
    BY AccruedSound DEF PoolInv, TypeOK
<1>2. Accrued(r).lastUpdateTimestamp = now
  <2>1. SoundReserve(reserves[r], now)
      BY DEF PoolInv
  <2> QED
      BY <2>1 DEF Accrued, UpdateIndexes, SoundReserve, ReserveData
<1>3. new.variableBorrowIndex = index /\ new.lastUpdateTimestamp = now
    BY <1>1, <1>2 DEF UpdateInterestRates, SoundReserve, ReserveData, BorrowIndex
<1>4. reserves'[r] = new
    BY DEF SettleReserve, PoolInv, TypeOK
<1> HIDE DEF new
<1>5. new \in ReserveData /\ rate \in Nat
    BY <1>4 DEF PoolInv, TypeOK, ReserveData
<1>6. BorrowIndex(r)' = UpdateIndexes(new, debtSupply'[r], now).variableBorrowIndex
    BY <1>4 DEF BorrowIndex, Accrued
<1> HIDE DEF rate
<1>7. now - now = 0
    BY <1>1
<1>8. BorrowIndex(r)' \in {index, RayMul(CompoundedInterest(rate, 0), index)}
    BY <1>3, <1>5, <1>6, <1>7 DEF UpdateIndexes, ReserveData, rate
<1>9. CompoundedInterest(rate, 0) = RAY /\ RayMul(RAY, index) = index
    BY <1>1, <1>5, NoTimeNoInterest, RayMulByOne
<1> HIDE DEF index
<1> QED
    BY <1>8, <1>9 DEF index

\* The loan owes what it owed and the amount just borrowed, within the loan to value
\* but for the rounding of the amount to scaled debt and back.
BorrowedWithinLTV(id) ==
    LET r == loans[id].reserveAsset IN
    \E owed \in Nat, amount \in Nat :
        /\ WithinLTV(NftPriceInReserve(loans[id].nft[1], r), owed + amount)
        /\ BorrowAmount(id) <= owed + 2 * amount
        /\ BorrowAmount(id) * RAY < (owed + amount + 1) * RAY + (BorrowIndex(r) \div 2)

\* A loan that a step leaves Active owes no more debt tokens than before, or
\* what has just been borrowed within the limit.
Lowered(id) ==
    id \in DOMAIN loans /\ loans'[id].scaledAmount <= loans[id].scaledAmount

DebtsMove ==
    \A id \in DOMAIN loans' :
        loans'[id].state = "Active" => Lowered(id) \/ BorrowedWithinLTV(id)'

LEMMA UnchangedIsLowered ==
    ASSUME PoolInv, NEW id \in DOMAIN loans, loans'[id] = loans[id]
    PROVE  Lowered(id)
    BY LoanFacts DEF Lowered

\* What borrow checks of the loan that it creates or increases
LEMMA BorrowedLoan ==
    ASSUME PoolInv, NEW r \in Reserves, NEW amount \in Nat, NEW owed \in Nat,
           NEW s \in Nat, owed = RayMul(s, BorrowIndex(r)),
           RayDiv(amount, BorrowIndex(r)) # 0,
           oracle' = oracle, BorrowIndex(r)' = BorrowIndex(r),
           NEW id \in DOMAIN loans', loans'[id].reserveAsset = r,
           loans'[id].scaledAmount = s + RayDiv(amount, BorrowIndex(r)),
           WithinLTV(NftPriceInReserve(loans'[id].nft[1], r), owed + amount)
    PROVE  BorrowedWithinLTV(id)'
<1> DEFINE i == BorrowIndex(r)
           now_owed == BorrowAmount(id)'
<1>1. i \in Nat \ {0} /\ BorrowIndex(r)' = i
    BY AccruedSound
<1>2. now_owed = RayMul(s + RayDiv(amount, i), i)
    BY <1>1 DEF BorrowAmount
<1> HIDE DEF i, now_owed
<1>3. RayDiv(amount, i) # 0 /\ owed = RayMul(s, i)
    BY DEF i
<1>4. /\ now_owed <= owed + 2 * amount
      /\ now_owed * RAY < (owed + amount + 1) * RAY + (i \div 2)
    BY ONLY <1>1, <1>2, <1>3, s \in Nat, amount \in Nat, BorrowedAtMostTwice,
            BorrowedDebtBounds
<1>5. WithinLTV(NftPriceInReserve(loans[id].nft[1], r)', owed + amount)
    BY DEF NftPriceInReserve
<1> QED
    BY <1>1, <1>4, <1>5 DEF BorrowedWithinLTV, now_owed, WithinLTV

LEMMA BorrowMovesDebts ==
    ASSUME PoolInv, PoolInv', NEW r \in Reserves, NEW initiator \in Users,
           NEW onBehalfOf \in Users, NEW nft \in Nfts, NEW amount \in Nat,
           Borrow(r, initiator, onBehalfOf, nft, amount)
    PROVE  DebtsMove
<1> DEFINE id == nftToLoanIds[nft]
           debt == RayDiv(amount, BorrowIndex(r))
           owed == IF id = 0 THEN 0 ELSE BorrowAmount(id)
           price == NftPriceInReserve(nft[1], r)
<1>1. /\ \/ id = 0 /\ CreateLoan(initiator, onBehalfOf, nft, r, amount, BorrowIndex(r))
         \/ id # 0 /\ IncreaseLoan(id, amount, BorrowIndex(r))
      /\ id # 0 => loans[id].reserveAsset = r
      /\ WithinLTV(price, owed + amount)
      /\ debt # 0
      /\ SettleReserve(r, debtSupply[r] + debt, cash[r] - amount)
      /\ oracle' = oracle /\ now' = now
    BY DEF Borrow, ValidateBorrow, MintDebt
<1>2. debt \in Nat /\ BorrowIndex(r) \in Nat /\ BorrowIndex(r)' = BorrowIndex(r)
    BY <1>1, AccruedSound, RayDivNat, SettledIndex
<1>3. loans \in Seq(LoanData)
    BY DEF PoolInv, TypeOK, LoanTypeOK
<1>4. CASE id = 0 /\ CreateLoan(initiator, onBehalfOf, nft, r, amount, BorrowIndex(r))
  <2> DEFINE loan == NewLoan(onBehalfOf, nft, r, debt)
  <2>1. loans' = Append(loans, loan)
      BY <1>4 DEF CreateLoan
  <2>2. loan.scaledAmount = debt /\ loan.reserveAsset = r /\ loan.nft = nft
      BY DEF NewLoan
  <2> HIDE DEF loan
  <2>3. PICK new \in Nat : new = Len(loans) + 1
      BY <1>3, LenProperties
  <2>4. /\ DOMAIN loans' = DOMAIN loans \cup {new} /\ loans'[new] = loan
        /\ \A j \in DOMAIN loans : loans'[j] = loans[j]
      BY <1>3, <2>1, <2>3, LenProperties
  <2>5. owed = 0 /\ RayMul(0, BorrowIndex(r)) = 0 /\ 0 + debt = debt
      BY <1>2, <1>4, RayMulZero
  <2>6. WithinLTV(NftPriceInReserve(loans'[new].nft[1], r), 0 + amount)
      BY <1>1, <2>2, <2>4, <2>5
  <2>7. /\ new \in DOMAIN loans' /\ loans'[new].reserveAsset = r
        /\ loans'[new].scaledAmount = 0 + debt
      BY <2>2, <2>4, <2>5
  <2>8. 0 = RayMul(0, BorrowIndex(r)) /\ debt # 0 /\ oracle' = oracle
      BY <1>1, <2>5
  <2>9. BorrowedWithinLTV(new)'
      BY ONLY PoolInv, r \in Reserves, amount \in Nat, <1>2, <2>6, <2>7, <2>8, BorrowedLoan
  <2> QED
      BY <2>4, <2>9, UnchangedIsLowered DEF DebtsMove
<1>5. CASE id # 0 /\ IncreaseLoan(id, amount, BorrowIndex(r))
  <2>1. PICK k \in DOMAIN loans : k = id
      BY <1>5 DEF IncreaseLoan, IsLoan
  <2> DEFINE s == loans[k].scaledAmount
             loan == WithDebt(loans[k], s + debt)
  <2>2. Store(k, loan) /\ loans[k].nft = nft
      BY <1>5, <2>1 DEF IncreaseLoan, PoolInv, LedgerInv, CollateralIndexed
  <2>3. loans[k] \in LoanData /\ s \in Nat /\ loans[k].reserveAsset = r
      BY <1>1, <1>5, <2>1, LoanFacts
  <2>4. loan.scaledAmount = s + debt /\ loan.reserveAsset = r /\ loan.nft = nft
      BY <2>2, <2>3 DEF WithDebt, LoanData
  <2>5. owed = RayMul(s, BorrowIndex(r))
      BY <1>5, <2>1, <2>3 DEF BorrowAmount
  <2> HIDE DEF loan
  <2>6. /\ DOMAIN loans' = DOMAIN loans /\ loans'[k] = loan
        /\ \A j \in DOMAIN loans : j # k => loans'[j] = loans[j]
      BY <2>2, StoredLoan
  <2> HIDE DEF s, owed
  <2>7. owed \in Nat
      BY <1>2, <2>3, <2>5, RayMulNat
  <2>8. WithinLTV(NftPriceInReserve(loans'[k].nft[1], r), owed + amount)
      BY <1>1, <2>4, <2>6
  <2>9. /\ k \in DOMAIN loans' /\ loans'[k].reserveAsset = r
        /\ loans'[k].scaledAmount = s + debt
      BY <2>1, <2>4, <2>6
  <2>10. debt # 0 /\ oracle' = oracle
      BY <1>1
  <2>11. BorrowedWithinLTV(k)'
      BY ONLY PoolInv, r \in Reserves, amount \in Nat, <1>2, <2>3, <2>5, <2>7, <2>8, <2>9,
              <2>10, BorrowedLoan
  <2> QED
      BY <2>6, <2>11, UnchangedIsLowered DEF DebtsMove
<1> QED
    BY <1>1, <1>4, <1>5

\* Every other call on a loan leaves it with no more debt, or not Active.
LEMMA StoredIsLowered ==
    ASSUME PoolInv, NEW id \in DOMAIN loans, NEW loan, Store(id, loan),
           loan.state = "Active" => loan.scaledAmount <= loans[id].scaledAmount
    PROVE  DebtsMove
<1>1. /\ DOMAIN loans' = DOMAIN loans /\ loans'[id] = loan
      /\ \A j \in DOMAIN loans : j # id => loans'[j] = loans[j]
    BY StoredLoan
<1> QED
    BY <1>1, UnchangedIsLowered DEF DebtsMove, Lowered

LEMMA RepayMovesDebts ==
    ASSUME PoolInv, NEW nft \in Nfts, NEW amount \in Nat, Repay(nft, amount)
    PROVE  DebtsMove
<1> DEFINE id == nftToLoanIds[nft]
           r == loans[id].reserveAsset
           paid == RepayAmount(id, amount)
           debt == RayDiv(paid, BorrowIndex(r))
<1>1. DecreaseLoan(id, paid, BorrowIndex(r)) \/ RepayLoan(id)
    BY DEF Repay
<1>2. id \in DOMAIN loans
    BY <1>1 DEF DecreaseLoan, RepayLoan, IsLoan
<1>3. /\ loans[id] \in LoanData /\ BorrowIndex(r) \in Nat \ {0}
      /\ loans[id].scaledAmount \in Nat /\ BorrowAmount(id) \in Nat
    BY <1>2, LoanFacts
<1>4. debt \in Nat
  <2>1. paid \in Nat
      BY <1>3 DEF RepayAmount
  <2> QED
      BY <1>3, <2>1, RayDivNat
<1>5. CASE DecreaseLoan(id, paid, BorrowIndex(r))
  <2> DEFINE less == loans[id].scaledAmount - debt
             loan == WithDebt(loans[id], less)
  <2>1. Store(id, loan) /\ loans[id].scaledAmount >= debt
      BY <1>5 DEF DecreaseLoan
  <2> HIDE DEF debt
  <2>2. less \in Nat /\ less <= loans[id].scaledAmount
      BY <1>3, <1>4, <2>1
  <2> HIDE DEF less
  <2>3. loan.scaledAmount = less
      BY <1>3, <2>2, WithDebtFields
  <2> HIDE DEF id, loan
  <2> QED
      BY <1>2, <2>1, <2>2, <2>3, StoredIsLowered
<1>6. CASE RepayLoan(id)
  <2> DEFINE loan == Repaid(loans[id])
  <2>1. Store(id, loan) /\ loan.state = "Repaid"
      BY <1>3, <1>6, RepaidFields DEF RepayLoan
  <2> HIDE DEF id, loan
  <2> QED
      BY <1>2, <2>1, StoredIsLowered
<1> QED
    BY <1>1, <1>5, <1>6

LEMMA AuctionMovesDebts ==
    ASSUME PoolInv, NEW nft \in Nfts, NEW onBehalfOf \in Users, NEW bidPrice \in Nat,
           Auction(nft, onBehalfOf, bidPrice)
    PROVE  DebtsMove
<1> DEFINE id == nftToLoanIds[nft]
           owed == BorrowAmount(id)
           raised == WithBid(loans[id], onBehalfOf, bidPrice, owed)
           first == PutOnSale(raised, onBehalfOf, now)
<1>1. /\ id \in DOMAIN loans
      /\ \/ Store(id, first)
         \/ loans[id].state = "Auction" /\ Store(id, raised)
    BY DEF Auction, AuctionLoan, FirstBid, HigherBid, IsLoan
<1>2. loans[id] \in LoanData /\ owed \in Nat /\ now \in Nat
    BY <1>1, LoanFacts DEF PoolInv, TypeOK
<1> HIDE DEF id, owed
<1>3. raised \in LoanData /\ raised.state = loans[id].state
    BY ONLY <1>2, WithBidFields, onBehalfOf \in Users, bidPrice \in Nat DEF SameParties
<1> HIDE DEF raised
<1>4. first.state = "Auction"
    BY ONLY <1>2, <1>3, PutOnSaleFields, onBehalfOf \in Users
<1> HIDE DEF first
<1>5. CASE Store(id, first)
    BY <1>1, <1>4, <1>5, StoredIsLowered
<1>6. CASE loans[id].state = "Auction" /\ Store(id, raised)
    BY <1>1, <1>3, <1>6, StoredIsLowered
<1> QED
    BY <1>1, <1>5, <1>6

LEMMA RedeemMovesDebts ==
    ASSUME PoolInv, NEW nft \in Nfts, NEW amount \in Nat, NEW bidFine,
           Redeem(nft, amount, bidFine)
    PROVE  DebtsMove
<1> DEFINE id == nftToLoanIds[nft]
           r == loans[id].reserveAsset
           debt == RayDiv(amount, BorrowIndex(r))
           less == loans[id].scaledAmount - debt
           off == TakenOffSale(loans[id])
           loan == WithDebt(off, less)
<1>1. Store(id, loan) /\ id \in DOMAIN loans /\ loans[id].scaledAmount >= debt
    BY DEF Redeem, RedeemLoan, IsLoan
<1>2. /\ loans[id] \in LoanData /\ loans[id].scaledAmount \in Nat
      /\ BorrowIndex(r) \in Nat \ {0}
    BY <1>1, LoanFacts
<1>3. debt \in Nat
    BY <1>2, RayDivNat
<1> HIDE DEF debt
<1>4. less \in Nat /\ less <= loans[id].scaledAmount
    BY <1>1, <1>2, <1>3
<1>5. off \in LoanData
    BY <1>2, TakenOffSaleFields DEF SameParties
<1> HIDE DEF less, off
<1>6. loan.scaledAmount = less
    BY <1>4, <1>5, WithDebtFields
<1> HIDE DEF id, loan
<1> QED
    BY <1>1, <1>4, <1>6, StoredIsLowered

LEMMA LiquidateMovesDebts ==
    ASSUME PoolInv, NEW nft \in Nfts, NEW amount \in Nat, Liquidate(nft, amount)
    PROVE  DebtsMove
<1> DEFINE id == nftToLoanIds[nft]
           loan == Defaulted(loans[id], BorrowAmount(id))
<1>1. Store(id, loan) /\ id \in DOMAIN loans
    BY DEF Liquidate, LiquidateLoan, IsLoan
<1>2. loans[id] \in LoanData /\ BorrowAmount(id) \in Nat
    BY <1>1, LoanFacts
<1>3. loan.state = "Defaulted"
    BY <1>2, DefaultedFields
<1> HIDE DEF id, loan
<1> QED
    BY <1>1, <1>3, StoredIsLowered

LEMMA NextMovesDebts ==
    ASSUME PoolInv, PoolInv', [Next]_vars
    PROVE  DebtsMove
<1>1. loans' = loans => DebtsMove
    BY UnchangedIsLowered DEF DebtsMove
<1>2. SupplyNext => loans' = loans
    BY DEF SupplyNext, Deposit, Withdraw, TransferBToken, loanVars, ledgerVars
<1>3. LoanNextOfPool => DebtsMove
    BY InputsNat, BorrowMovesDebts, RepayMovesDebts, AuctionMovesDebts, RedeemMovesDebts,
       LiquidateMovesDebts DEF LoanNextOfPool
<1>4. EnvironmentNext \/ UNCHANGED vars => loans' = loans
    BY EnvironmentMovesNothing
<1> QED
    BY <1>1, <1>2, <1>3, <1>4 DEF Next

\* A loan that is unhealthy after a borrow has outgrown what was borrowed.
LEMMA UnhealthyHasOutgrown ==
    ASSUME PoolInv, NEW id \in UnhealthyLoans, BorrowedWithinLTV(id)
    PROVE  LET owes == BorrowAmount(id)
               index == BorrowIndex(loans[id].reserveAsset)
           IN  \E owed \in Nat, amount \in Nat :
                  /\ LiquidationThreshold * (owed + amount) < LTV * owes
                  /\ owes <= owed + 2 * amount
                  /\ owes * RAY < (owed + amount + 1) * RAY + (index \div 2)
<1> DEFINE r == loans[id].reserveAsset
           owes == BorrowAmount(id)
           price == NftPriceInReserve(loans[id].nft[1], r)
<1>1. PICK owed \in Nat, amount \in Nat :
          /\ WithinLTV(price, owed + amount)
          /\ owes <= owed + 2 * amount
          /\ owes * RAY < (owed + amount + 1) * RAY + (BorrowIndex(r) \div 2)
    BY DEF BorrowedWithinLTV
<1>2. id \in DOMAIN loans /\ PercentMul(price, LiquidationThreshold) < owes
  <2>1. id \in DOMAIN loans /\ owes > ThresholdPrice(loans[id].nft[1], r)
      BY DEF UnhealthyLoans
  <2>2. owes \in Nat /\ loans[id].nft[1] \in NftAssets /\ r \in Reserves
      BY <2>1, LoanFacts DEF LoanData, Nfts
  <2>3. ThresholdPrice(loans[id].nft[1], r) \in Nat
      BY <2>2, ThresholdPriceNat
  <2> QED
      BY <2>1, <2>2, <2>3 DEF ThresholdPrice
<1>3. owes \in Nat /\ price \in Nat
    BY <1>2, LoanFacts, ThresholdPriceNat DEF LoanData, Nfts
<1>4. PercentDiv(owed + amount, LTV) <= price
    BY <1>1 DEF WithinLTV
<1>5. LTV \in 1..PERCENTAGE_FACTOR /\ LiquidationThreshold \in 1..PERCENTAGE_FACTOR
    BY ONLY PoolAssumption, Zenon
<1> HIDE DEF owes, price
<1>6. LiquidationThreshold * (owed + amount) < LTV * owes
  <2>1. owed + amount \in Nat
      OBVIOUS
  <2> QED
      BY ONLY <1>2, <1>3, <1>4, <1>5, <2>1, UnhealthyOutgrows
<1> QED
    BY <1>1, <1>6 DEF owes, r

\* Nobody borrows himself, or somebody else, into an auction, if the threshold is at
\* least twice the loan to value, as for all but the first of the classes of
\* collections that nftsConfigs.ts has (10% to 40%, with a threshold of 90%).
THEOREM BorrowsLeaveHealthy ==
    ASSUME 2 * LTV <= LiquidationThreshold
    PROVE  Spec => BorrowLeavesHealthy
<1>1. PoolInv => \A id \in UnhealthyLoans : ~ BorrowedWithinLTV(id)
  <2> SUFFICES ASSUME PoolInv, NEW id \in UnhealthyLoans, BorrowedWithinLTV(id)
               PROVE  FALSE
      OBVIOUS
  <2> DEFINE owes == BorrowAmount(id)
  <2>1. id \in DOMAIN loans
      BY DEF UnhealthyLoans
  <2>2. owes \in Nat
      BY <2>1, LoanFacts
  <2>3. PICK owed \in Nat, amount \in Nat :
            LiquidationThreshold * (owed + amount) < LTV * owes /\ owes <= owed + 2 * amount
      BY UnhealthyHasOutgrown
  <2>4. LTV \in Nat /\ LiquidationThreshold \in Nat
    <3>1. LTV \in 1..PERCENTAGE_FACTOR /\ LiquidationThreshold \in 1..PERCENTAGE_FACTOR
        BY ONLY PoolAssumption, Zenon
    <3> QED
        BY ONLY <3>1
  <2> HIDE DEF owes
  <2> DEFINE n == owed + amount
  <2>5. n \in Nat /\ owes <= 2 * n
      BY ONLY <2>2, <2>3, owed \in Nat, amount \in Nat
  <2>6. LiquidationThreshold * n < LTV * owes
      BY <2>3
  <2> HIDE DEF n
  <2>7. (2 * LTV) * n <= LiquidationThreshold * n
      BY ONLY <2>4, <2>5, 2 * LTV <= LiquidationThreshold, SMT
  <2>8. LTV * owes <= LTV * (2 * n)
      BY ONLY <2>2, <2>4, <2>5, SMT
  <2>9. /\ (2 * LTV) * n = LTV * (2 * n) /\ LTV * owes \in Nat
        /\ LiquidationThreshold * n \in Nat /\ LTV * (2 * n) \in Nat
      BY ONLY <2>2, <2>4, <2>5, SMT
  <2> QED
      BY ONLY <2>6, <2>7, <2>8, <2>9
<1> DEFINE Healthy == \A id \in UnhealthyLoans : ~ BorrowedWithinLTV(id)
           Grown == \A id \in UnhealthyLoans' :
                       /\ id \in DOMAIN loans
                       /\ loans'[id].scaledAmount <= loans[id].scaledAmount
<1>2. PoolInv /\ PoolInv' /\ Healthy' /\ [Next]_vars => Grown
  <2> SUFFICES ASSUME PoolInv, PoolInv', Healthy', [Next]_vars, NEW id \in UnhealthyLoans'
               PROVE  Lowered(id)
      BY DEF Lowered
  <2>1. ~ BorrowedWithinLTV(id)'
      OBVIOUS
  <2>2. id \in DOMAIN loans' /\ loans'[id].state = "Active"
      BY DEF UnhealthyLoans
  <2> QED
      BY <2>1, <2>2, NextMovesDebts DEF DebtsMove
<1> QED
    BY <1>1, <1>2, PoolInvariant, PTL DEF Spec, BorrowLeavesHealthy

\* Less than the roundings of one borrow account for: at one ray and for the first
\* class of collections, with 50% and 90%, three units of the token or fewer
Dust(id) ==
    2 * RAY * (LiquidationThreshold - LTV) * BorrowAmount(id)
        < LiquidationThreshold * (2 * RAY + BorrowIndex(loans[id].reserveAsset))

\* Whatever the loan to value and the threshold: what a borrow can leave unhealthy is
\* dust.  The rounding of an amount to debt tokens costs no more than that.
THEOREM OnlyDustIsBorrowedUnhealthy ==
    Spec => [][ \A id \in UnhealthyLoans' : Lowered(id) \/ Dust(id)' ]_vars
<1> DEFINE BorrowedIsDust == \A id \in UnhealthyLoans : BorrowedWithinLTV(id) => Dust(id)
           Grown == \A id \in UnhealthyLoans' : Lowered(id) \/ Dust(id)'
<1>1. PoolInv => BorrowedIsDust
  <2> SUFFICES ASSUME PoolInv, NEW id \in UnhealthyLoans, BorrowedWithinLTV(id)
               PROVE  Dust(id)
      OBVIOUS
  <2> DEFINE owes == BorrowAmount(id)
             index == BorrowIndex(loans[id].reserveAsset)
  <2>1. id \in DOMAIN loans
      BY DEF UnhealthyLoans
  <2>2. owes \in Nat /\ index \in Nat
      BY <2>1, LoanFacts
  <2>3. PICK owed \in Nat, amount \in Nat :
            /\ LiquidationThreshold * (owed + amount) < LTV * owes
            /\ owes * RAY < (owed + amount + 1) * RAY + (index \div 2)
      BY UnhealthyHasOutgrown
  <2>4. LTV \in Nat /\ LiquidationThreshold \in Nat \ {0}
    <3>1. LTV \in 1..PERCENTAGE_FACTOR /\ LiquidationThreshold \in 1..PERCENTAGE_FACTOR
        BY ONLY PoolAssumption, Zenon
    <3> QED
        BY ONLY <3>1
  <2> HIDE DEF owes, index
  <2>5. owed + amount \in Nat
      BY ONLY owed \in Nat, amount \in Nat
  <2>6. 2 * RAY * (LiquidationThreshold - LTV) * owes
            < LiquidationThreshold * (2 * RAY + index)
      BY ONLY <2>2, <2>3, <2>4, <2>5, OutgrownIsDust
  <2> QED
      BY <2>6 DEF Dust, owes, index
<1>2. PoolInv /\ PoolInv' /\ BorrowedIsDust' /\ [Next]_vars => Grown
  <2> SUFFICES ASSUME PoolInv, PoolInv', BorrowedIsDust', [Next]_vars, NEW id \in UnhealthyLoans'
               PROVE  Lowered(id) \/ Dust(id)'
      OBVIOUS
  <2>1. BorrowedWithinLTV(id)' => Dust(id)'
      OBVIOUS
  <2>2. id \in DOMAIN loans' /\ loans'[id].state = "Active"
      BY DEF UnhealthyLoans
  <2> QED
      BY <2>1, <2>2, NextMovesDebts DEF DebtsMove
<1> QED
    BY <1>1, <1>2, PoolInvariant, PTL DEF Spec

-----------------------------------------------------------------------------
(***************************************************************************)
(* The windows of an auction.                                              *)
(*                                                                         *)
(* The pool remembers one pause, its start and its length; the history     *)
(* remembers for how long the auction of a loan was usable.  The invariant *)
(* says what the two have to do with each other: nothing before the first  *)
(* pause of the auction, and from then on exactly the time between.        *)
(***************************************************************************)
HistoryOK ==
    /\ DOMAIN auctions = DOMAIN loans
    /\ \A id \in Watched : auctions[id] \in [usable : Nat, pauses : 0..2]

\* A pause that is over took its time.
PausesOK ==
    /\ pauseStartTime <= now
    /\ ~ paused => pauseStartTime + pauseDurationTime <= now

\* An auction that started at time first, with history h
InTime(first, h) ==
    /\ first <= now
    /\ paused => h.pauses # 0
    /\ h.pauses = 0 =>
          /\ h.usable = now - first
          /\ pauseDurationTime = 0 \/ pauseStartTime < first
    /\ h.pauses = 1 =>
          /\ first <= pauseStartTime
          /\ h.usable = IF paused THEN pauseStartTime - first
                        ELSE now - first - pauseDurationTime

WindowInv ==
    /\ HistoryOK
    /\ PausesOK
    /\ \A id \in Watched : InTime(loans[id].bidStartTimestamp, auctions[id])

\* What BidWindow and RedeemWindow ask of the block time
WindowsExact ==
    ~ paused =>
        \A id \in Extended :
            /\ now <= AuctionEnd(loans[id]) <=> auctions[id].usable <= AuctionDuration
            /\ now <= RedeemEnd(loans[id]) <=> auctions[id].usable <= RedeemDuration

LEMMA ClockTypes ==
    ASSUME PoolInv
    PROVE  /\ now \in Nat /\ pauseStartTime \in Nat /\ pauseDurationTime \in Nat
           /\ paused \in BOOLEAN /\ AuctionDuration \in Nat /\ RedeemDuration \in Nat
           /\ \A id \in DOMAIN loans : loans[id].bidStartTimestamp \in Nat
<1>1. \A id \in DOMAIN loans : loans[id] \in LoanData
    BY LoanIds DEF PoolInv, TypeOK, LoanTypeOK
<1>2. \A loan \in LoanData : loan.bidStartTimestamp \in Nat
    BY DEF LoanData
<1>3. /\ now \in Nat /\ pauseStartTime \in Nat /\ pauseDurationTime \in Nat
      /\ paused \in BOOLEAN
    BY DEF PoolInv, TypeOK
<1>4. AuctionDuration \in Nat /\ RedeemDuration \in Nat
    BY PoolAssumption
<1> QED
    BY ONLY <1>1, <1>2, <1>3, <1>4

LEMMA WindowsFollow ==
    ASSUME PoolInv, WindowInv
    PROVE  WindowsExact
<1> SUFFICES ASSUME ~ paused, NEW id \in Extended
             PROVE  /\ now <= AuctionEnd(loans[id]) <=> auctions[id].usable <= AuctionDuration
                    /\ now <= RedeemEnd(loans[id]) <=> auctions[id].usable <= RedeemDuration
    BY DEF WindowsExact
<1> DEFINE first == loans[id].bidStartTimestamp
           h == auctions[id]
           extra == ExtraDuration(loans[id])
<1>1. id \in Watched /\ id \in DOMAIN loans /\ h.pauses <= 1
    BY DEF Extended, Watched
<1>2. h \in [usable : Nat, pauses : 0..2] /\ InTime(first, h) /\ PausesOK
    BY <1>1 DEF WindowInv, HistoryOK
<1>3. h.pauses \in {0, 1} /\ h.usable \in Nat
    BY <1>1, <1>2
<1>4. /\ now \in Nat /\ pauseStartTime \in Nat /\ pauseDurationTime \in Nat /\ first \in Nat
      /\ AuctionDuration \in Nat /\ RedeemDuration \in Nat
    BY <1>1, ClockTypes
<1>5. extra \in Nat /\ h.usable = now - first - extra
  <2>1. extra = IF pauseDurationTime > 0 /\ first <= pauseStartTime
                THEN pauseDurationTime ELSE 0
      BY DEF ExtraDuration
  <2> HIDE DEF extra, first, h
  <2> QED
      BY <1>2, <1>3, <1>4, <2>1 DEF InTime
<1>6. /\ AuctionEnd(loans[id]) = first + extra + AuctionDuration
      /\ RedeemEnd(loans[id]) = first + extra + RedeemDuration
    BY DEF AuctionEnd, RedeemEnd
<1> HIDE DEF extra, first, h
<1>7. /\ now <= first + extra + AuctionDuration <=> h.usable <= AuctionDuration
      /\ now <= first + extra + RedeemDuration <=> h.usable <= RedeemDuration
    BY ONLY <1>3, <1>4, <1>5
<1> QED
    BY <1>6, <1>7 DEF h

\* The history of the auctions after a step
LEMMA HistoryMoves ==
    ASSUME PausesNext
    PROVE  /\ DOMAIN auctions' = DOMAIN loans'
           /\ \A id \in DOMAIN loans' :
                 auctions'[id] = IF id \in Watched THEN Watch(auctions[id]) ELSE NoAuction
    BY DEF PausesNext

\* Time and pauses change while the loans stay.
LEMMA ClockMoves ==
    ASSUME PoolInv, PausedTimes = {}, EnvironmentNext
    PROVE  \/ UNCHANGED <<pauseVars, now>>
           \/ now' = now + 1 /\ UNCHANGED pauseVars
           \/ /\ ~ paused /\ paused' /\ pauseStartTime' = now
              /\ UNCHANGED <<pauseDurationTime, now>>
           \/ /\ paused /\ ~ paused' /\ pauseDurationTime' = now - pauseStartTime
              /\ pauseStartTime <= now /\ UNCHANGED <<pauseStartTime, now>>
<1>1. paused \in BOOLEAN
    BY ClockTypes
<1>2. CASE now < MaxTime /\ Tick
    BY <1>2 DEF Tick
<1>3. ASSUME NEW val \in BOOLEAN, SetPause(val)
      PROVE  \/ /\ ~ paused /\ paused' /\ pauseStartTime' = now
                /\ UNCHANGED <<pauseDurationTime, now>>
             \/ /\ paused /\ ~ paused' /\ pauseDurationTime' = now - pauseStartTime
                /\ pauseStartTime <= now /\ UNCHANGED <<pauseStartTime, now>>
  <2>1. paused' = val /\ paused # val /\ now' = now
      BY <1>3 DEF SetPause
  <2>2. CASE val
      BY <1>1, <1>3, <2>1, <2>2 DEF SetPause
  <2>3. CASE ~ val
      BY <1>1, <1>3, <2>1, <2>3 DEF SetPause
  <2> QED
      BY <2>2, <2>3
<1>4. ASSUME NEW asset, NEW x, SetOracle(asset, x)
      PROVE  UNCHANGED <<pauseVars, now>>
    BY <1>4 DEF SetOracle
<1>5. ASSUME NEW r, NEW u, NEW v, NEW a, ApproveDelegation(r, u, v, a)
      PROVE  UNCHANGED <<pauseVars, now>>
    BY <1>5 DEF ApproveDelegation
<1>6. ConfigureFlags \/ UNCHANGED poolVars => UNCHANGED <<pauseVars, now>>
    BY DEF ConfigureFlags, poolVars
<1> QED
    BY <1>2, <1>3, <1>4, <1>5, <1>6 DEF EnvironmentNext

\* The environment moves the clock and the pauses, and every auction keeps its time.
LEMMA EnvironmentKeepsTime ==
    ASSUME PoolInv, WindowInv, PausedTimes = {}, EnvironmentNext, PausesNext
    PROVE  WindowInv'
<1>1. loans' = loans
    BY EnvironmentMovesNothing
<1>2. Watched' = Watched
    BY <1>1 DEF Watched
<1>3. /\ now \in Nat /\ pauseStartTime \in Nat /\ pauseDurationTime \in Nat
      /\ paused \in BOOLEAN
      /\ \A id \in DOMAIN loans : loans[id].bidStartTimestamp \in Nat
    BY ClockTypes
<1>4. \/ UNCHANGED <<paused, pauseStartTime, pauseDurationTime, now>>
      \/ now' = now + 1 /\ UNCHANGED <<paused, pauseStartTime, pauseDurationTime>>
      \/ /\ ~ paused /\ paused' /\ pauseStartTime' = now
         /\ UNCHANGED <<pauseDurationTime, now>>
      \/ /\ paused /\ ~ paused' /\ pauseDurationTime' = now - pauseStartTime
         /\ pauseStartTime <= now /\ UNCHANGED <<pauseStartTime, now>>
    BY ClockMoves DEF pauseVars
<1>5. PausesOK'
    BY <1>3, <1>4 DEF WindowInv, PausesOK
<1>6. ASSUME NEW id \in Watched
      PROVE  /\ auctions'[id] \in [usable : Nat, pauses : 0..2]
             /\ InTime(loans[id].bidStartTimestamp, auctions[id])'
  <2> DEFINE h == auctions[id]
             g == auctions'[id]
             first == loans[id].bidStartTimestamp
  <2>1. h \in [usable : Nat, pauses : 0..2] /\ InTime(first, h) /\ PausesOK
      BY <1>6 DEF WindowInv, HistoryOK
  <2>2. first \in Nat /\ id \in DOMAIN loans' /\ loans'[id].bidStartTimestamp = first
      BY <1>1, <1>3, <1>6 DEF Watched
  <2>3. g = Watch(h)
      BY <1>6, <2>2, HistoryMoves
  <2> HIDE DEF h, g, first
  <2>4. /\ h.usable \in Nat /\ h.pauses \in 0..2
        /\ g.usable = h.usable + (IF ~ paused THEN now' - now ELSE 0)
        /\ g.pauses = IF ~ paused /\ paused' /\ h.pauses < 2 THEN h.pauses + 1 ELSE h.pauses
        /\ g = [usable |-> g.usable, pauses |-> g.pauses]
      BY <2>1, <2>3 DEF Watch
  <2>5. g.usable \in Nat /\ g.pauses \in 0..2
      BY <1>3, <1>4, <2>4
  <2>6. g \in [usable : Nat, pauses : 0..2]
      BY <2>4, <2>5
  <2>7. /\ first <= now'
        /\ paused' => g.pauses # 0
        /\ g.pauses = 0 =>
              /\ g.usable = now' - first
              /\ pauseDurationTime' = 0 \/ pauseStartTime' < first
        /\ g.pauses = 1 =>
              /\ first <= pauseStartTime'
              /\ g.usable = IF paused' THEN pauseStartTime' - first
                            ELSE now' - first - pauseDurationTime'
      BY <1>3, <1>4, <2>1, <2>2, <2>4 DEF InTime, PausesOK
  <2> QED
      BY <2>2, <2>6, <2>7 DEF InTime, g
<1> QED
    BY <1>1, <1>2, <1>5, <1>6, HistoryMoves DEF WindowInv, HistoryOK

\* An operation on a loan takes no time; an auction that starts, starts now.
LEMMA OperationKeepsTime ==
    ASSUME PoolInv, WindowInv, PausesNext, LoansMove, UNCHANGED <<pauseVars, now>>
    PROVE  WindowInv'
<1>1. /\ now \in Nat /\ pauseStartTime \in Nat /\ pauseDurationTime \in Nat
      /\ paused \in BOOLEAN
      /\ \A id \in DOMAIN loans : loans[id].bidStartTimestamp \in Nat
      /\ now' = now /\ paused' = paused /\ pauseStartTime' = pauseStartTime
      /\ pauseDurationTime' = pauseDurationTime
    BY ClockTypes DEF pauseVars
<1>2. PausesOK'
    BY <1>1 DEF WindowInv, PausesOK
<1>3. ASSUME NEW id \in Watched, id \in Watched',
             loans'[id].bidStartTimestamp = loans[id].bidStartTimestamp
      PROVE  /\ auctions'[id] \in [usable : Nat, pauses : 0..2]
             /\ InTime(loans[id].bidStartTimestamp, auctions[id])'
  <2>1. /\ auctions[id] \in [usable : Nat, pauses : 0..2]
        /\ InTime(loans[id].bidStartTimestamp, auctions[id])
      BY <1>3 DEF WindowInv, HistoryOK
  <2>2. auctions'[id] = Watch(auctions[id])
      BY <1>3, HistoryMoves DEF Watched
  <2>3. Watch(auctions[id]) = auctions[id]
      BY <1>1, <2>1 DEF Watch
  <2> QED
      BY <1>1, <1>3, <2>1, <2>2, <2>3 DEF InTime
<1>4. ASSUME NEW id \in Watched', id \notin Watched, ~ paused,
             loans'[id].bidStartTimestamp = now
      PROVE  /\ auctions'[id] \in [usable : Nat, pauses : 0..2]
             /\ InTime(loans[id].bidStartTimestamp, auctions[id])'
  <2>1. auctions'[id] = NoAuction
      BY <1>4, HistoryMoves DEF Watched
  <2>2. pauseDurationTime = 0 \/ pauseStartTime < now
      BY <1>1, <1>4 DEF WindowInv, PausesOK
  <2> QED
      BY <1>1, <1>4, <2>1, <2>2 DEF InTime, NoAuction
<1>5. ASSUME NEW id \in Watched'
      PROVE  \/ id \in Watched /\ loans'[id].bidStartTimestamp = loans[id].bidStartTimestamp
             \/ id \notin Watched /\ ~ paused /\ loans'[id].bidStartTimestamp = now
  <2>1. id \in DOMAIN loans' /\ loans'[id].state = "Auction"
      BY <1>5 DEF Watched
  <2>2. CASE loans' = loans
      BY <2>1, <2>2 DEF Watched
  <2>3. ASSUME NEW loan \in LoanData, loans' = Append(loans, loan), loan.state = "Active"
        PROVE  id \in Watched /\ loans'[id].bidStartTimestamp = loans[id].bidStartTimestamp
    <3>1. loans \in Seq(LoanData)
        BY DEF PoolInv, TypeOK, LoanTypeOK
    <3>2. /\ DOMAIN loans' = DOMAIN loans \cup {Len(loans) + 1}
          /\ loans'[Len(loans) + 1] = loan
          /\ \A j \in DOMAIN loans : loans'[j] = loans[j]
        BY <2>3, <3>1, AddLoan
    <3> QED
        BY <2>1, <2>3, <3>2 DEF Watched
  <2>4. ASSUME NEW k \in OpenLoans, NEW loan \in LoanData, Store(k, loan), BecomesOf(k, loan),
               ~ paused
        PROVE  \/ id \in Watched /\ loans'[id].bidStartTimestamp = loans[id].bidStartTimestamp
               \/ id \notin Watched /\ ~ paused /\ loans'[id].bidStartTimestamp = now
    <3>1. /\ DOMAIN loans' = DOMAIN loans /\ loans'[k] = loan /\ k \in DOMAIN loans
          /\ \A j \in DOMAIN loans : j # k => loans'[j] = loans[j]
        BY <2>4, StoredLoan DEF OpenLoans
    <3> QED
        BY <2>1, <2>4, <3>1 DEF BecomesOf, Watched
  <2> QED
      BY <2>2, <2>3, <2>4 DEF LoansMove
<1>6. \A id \in Watched' : /\ auctions'[id] \in [usable : Nat, pauses : 0..2]
                           /\ InTime(loans[id].bidStartTimestamp, auctions[id])'
    BY <1>3, <1>4, <1>5
<1> QED
    BY <1>2, <1>6, HistoryMoves DEF WindowInv, HistoryOK

LEMMA NextKeepsTime ==
    ASSUME PoolInv, AuctionsOwe, WindowInv, PausedTimes = {},
           [PausesNext]_<<vars, auctions>>
    PROVE  WindowInv'
<1>1. CASE UNCHANGED <<vars, auctions>>
  <2>1. UNCHANGED <<loans, paused, pauseStartTime, pauseDurationTime, now, auctions>>
      BY <1>1 DEF vars, loanVars, ledgerVars, poolVars, pauseVars
  <2> QED
      BY <2>1 DEF WindowInv, HistoryOK, PausesOK, InTime, Watched
<1>2. CASE PausesNext
  <2>1. Next /\ LoansMove
      BY <1>2, NextMovesLoans DEF PausesNext
  <2>2. SupplyNext => UNCHANGED <<pauseVars, now>>
      BY DEF SupplyNext, Deposit, Withdraw, TransferBToken
  <2>3. LoanNextOfPool => UNCHANGED <<pauseVars, now>>
    <3>1. \A r, i, u, nft, a : Borrow(r, i, u, nft, a) => UNCHANGED <<pauseVars, now>>
        BY DEF Borrow
    <3>2. \A nft, a : Repay(nft, a) => UNCHANGED <<pauseVars, now>>
        BY DEF Repay
    <3>3. \A nft, u, p : Auction(nft, u, p) => UNCHANGED <<pauseVars, now>>
        BY DEF Auction
    <3>4. \A nft, a, f : Redeem(nft, a, f) => UNCHANGED <<pauseVars, now>>
        BY DEF Redeem
    <3>5. \A nft, a : Liquidate(nft, a) => UNCHANGED <<pauseVars, now>>
        BY DEF Liquidate
    <3> QED
        BY <3>1, <3>2, <3>3, <3>4, <3>5 DEF LoanNextOfPool
  <2> QED
      BY <1>2, <2>1, <2>2, <2>3, OperationKeepsTime, EnvironmentKeepsTime DEF Next
<1> QED
    BY <1>1, <1>2

LEMMA InitTime == PausesInit => WindowInv
<1> SUFFICES ASSUME PausesInit
             PROVE  WindowInv
    OBVIOUS
<1>1. loans = <<>> /\ auctions = <<>> /\ pauseStartTime = 0 /\ pauseDurationTime = 0 /\ now = 1
    BY DEF PausesInit, Init, LoanInit
<1>2. Watched = {}
    BY <1>1 DEF Watched
<1> QED
    BY <1>1, <1>2 DEF WindowInv, HistoryOK, PausesOK

\* Watching an auction changes nothing.
LEMMA HistoryOnlyWatches == PausesSpec => Spec
<1>1. PausesInit => Init
    BY DEF PausesInit
<1>2. [PausesNext]_<<vars, auctions>> => [Next]_vars
    BY DEF PausesNext
<1> QED
    BY <1>1, <1>2, PTL DEF PausesSpec, Spec

\* What the pool remembers of its last pause agrees with the history of every
\* auction that has seen one pause at most.
THEOREM WindowInvariant ==
    ASSUME PausedTimes = {}
    PROVE  PausesSpec => []WindowInv
<1> DEFINE P == PoolInv /\ AuctionsOwe
<1>1. PausesSpec => []P
  <2>1. PoolInv /\ StandingInv => P
      BY DEF StandingInv
  <2> QED
      BY <2>1, HistoryOnlyWatches, PoolInvariant, StandingInvariant, PTL
<1>2. P /\ WindowInv /\ [PausesNext]_<<vars, auctions>> => WindowInv'
    BY NextKeepsTime
<1> QED
    BY <1>1, <1>2, InitTime, PTL DEF PausesSpec

\* For any durations and however often the pool is paused: as long as an auction has
\* seen at most one pause and nobody overwrites the record of the pauses by hand
\* (setPausedTime), a bid is in time exactly while the auction was usable for no more
\* than its duration, and so is a redemption.
THEOREM WindowsStayExact ==
    ASSUME PausedTimes = {}
    PROVE  PausesSpec => []WindowsExact
<1>1. PoolInv /\ WindowInv => WindowsExact
    BY WindowsFollow
<1> QED
    BY <1>1, HistoryOnlyWatches, PoolInvariant, WindowInvariant, PTL

\* Nobody is liquidated before bidders had the whole duration of the auction, pauses
\* left out.
THEOREM NobodyIsLiquidatedEarly ==
    ASSUME PausedTimes = {}
    PROVE  PausesSpec => NoEarlyLiquidation
<1> DEFINE P == PoolInv /\ AuctionsOwe /\ WindowInv
           Late == \A id \in Extended :
                      loans'[id].state = "Defaulted" => auctions[id].usable > AuctionDuration
<1>1. PausesSpec => []P
  <2>1. PoolInv /\ StandingInv /\ WindowInv => P
      BY DEF StandingInv
  <2> QED
      BY <2>1, HistoryOnlyWatches, PoolInvariant, StandingInvariant, WindowInvariant, PTL
<1>2. P /\ [PausesNext]_<<vars, auctions>> => [Late]_<<vars, auctions>>
  <2> SUFFICES ASSUME P, PausesNext, NEW id \in Extended, loans'[id].state = "Defaulted"
               PROVE  auctions[id].usable > AuctionDuration
      OBVIOUS
  <2>1. /\ id \in Watched /\ id \in DOMAIN loans /\ loans[id].state = "Auction"
      BY DEF Extended, Watched
  <2>2. LoansMove /\ loans \in Seq(LoanData)
      BY NextMovesLoans DEF PausesNext, PoolInv, TypeOK, LoanTypeOK
  <2>3. loans' # loans
      BY <2>1
  <2>4. ~ \E loan \in LoanData : loans' = Append(loans, loan)
      BY <2>1, <2>2, AddLoan
  <2>5. PICK k \in OpenLoans, loan \in LoanData :
                ~ paused /\ Store(k, loan) /\ BecomesOf(k, loan)
      BY <2>2, <2>3, <2>4 DEF LoansMove
  <2>6. k = id /\ loan.state = "Defaulted"
      BY <2>1, <2>5, StoredLoan DEF OpenLoans
  <2>7. ~ paused /\ now > AuctionEnd(loans[id])
      BY <2>5, <2>6 DEF BecomesOf
  <2>8. auctions[id].usable \in Nat /\ AuctionDuration \in Nat
      BY <2>1, ClockTypes DEF WindowInv, HistoryOK
  <2>9. now \in Nat /\ AuctionEnd(loans[id]) \in Nat
    <3>1. /\ now \in Nat /\ pauseDurationTime \in Nat /\ AuctionDuration \in Nat
          /\ loans[id].bidStartTimestamp \in Nat
        BY <2>1, ClockTypes
    <3> QED
        BY <3>1 DEF AuctionEnd, ExtraDuration
  <2>10. now <= AuctionEnd(loans[id]) <=> auctions[id].usable <= AuctionDuration
      BY <2>7, WindowsFollow DEF WindowsExact
  <2> QED
      BY <2>7, <2>8, <2>9, <2>10
<1> QED
    BY <1>1, <1>2, PTL DEF PausesSpec, NoEarlyLiquidation
=============================================================================
