------------------------- MODULE LendPoolLoanProofs -------------------------
(***************************************************************************)
(* Theorems about the loan ledger: its invariants, its counters, and that  *)
(* it implements CollateralPromise.                                        *)
(***************************************************************************)
EXTENDS LendPoolLoan, LenderMathProofs, SequenceTheorems

LEMMA UserCounterType ==
    ASSUME NEW f \in [Users -> [NftAssets -> Nat]], NEW u \in Users, NEW a \in NftAssets,
           NEW n \in Nat
    PROVE  [f EXCEPT ![u][a] = n] \in [Users -> [NftAssets -> Nat]]
    OBVIOUS

USE MathAssumption, AddressAssumption, LedgerAssumption

\* The ledger after one of its loans was overwritten.
LEMMA StoreLoan ==
    ASSUME loans \in Seq(LoanData), NEW id \in DOMAIN loans, NEW loan \in LoanData,
           loans' = [loans EXCEPT ![id] = loan]
    PROVE  /\ loans' \in Seq(LoanData)
           /\ DOMAIN loans' = DOMAIN loans
           /\ loans'[id] = loan
           /\ \A j \in DOMAIN loans : j # id => loans'[j] = loans[j]
    BY ExceptSeq, LenProperties

\* The ledger after a loan was created.
LEMMA AddLoan ==
    ASSUME loans \in Seq(LoanData), NEW loan \in LoanData,
           loans' = Append(loans, loan)
    PROVE  /\ loans' \in Seq(LoanData)
           /\ Len(loans) + 1 \in Nat \ {0}
           /\ Len(loans) + 1 \notin DOMAIN loans
           /\ DOMAIN loans' = DOMAIN loans \cup {Len(loans) + 1}
           /\ loans'[Len(loans) + 1] = loan
           /\ \A j \in DOMAIN loans : loans'[j] = loans[j]
<1>1. DOMAIN loans = 1..Len(loans) /\ Len(loans) \in Nat
    BY LenProperties
<1>2. loans' \in Seq(LoanData) /\ Len(loans') = Len(loans) + 1
    BY AppendProperties
<1>3. DOMAIN loans' = 1..(Len(loans) + 1)
    BY <1>2, LenProperties
<1>4. \A j \in 1..Len(loans) : loans'[j] = loans[j]
    BY AppendProperties
<1>5. loans'[Len(loans) + 1] = loan
    BY AppendProperties
<1> QED
    BY <1>1, <1>2, <1>3, <1>4, <1>5

LEMMA LoanIds ==
    ASSUME loans \in Seq(LoanData)
    PROVE  /\ DOMAIN loans \subseteq Nat \ {0}
           /\ \A id \in DOMAIN loans : loans[id] \in LoanData
    BY LenProperties, ElementOfSeq

-----------------------------------------------------------------------------
(***************************************************************************)
(* The inductive invariant.                                                *)
(***************************************************************************)
LedgerInv ==
    /\ LoanTypeOK
    /\ BnftBacked
    /\ CollateralIndexed
    /\ CollateralInCustody
    /\ LockedWhileInAuction
    /\ BidFieldsMatchState

\* What every step of the ledger does to the loans
LedgerStep == LifecycleStep /\ BiddingStep

\* A change of one open loan that respects the life cycle and the bids.
LEMMA StoreIsLedgerStep ==
    ASSUME LedgerInv, NEW id \in DOMAIN loans, Open(id),
           NEW loan \in LoanData, Store(id, loan),
           loan.nft = loans[id].nft, loan.borrower = loans[id].borrower,
           <<loans[id].state, loan.state>> \in
              LifecycleEdges \cup {<<"Active", "Active">>, <<"Auction", "Auction">>},
           loans[id].state = loan.state =>
              /\ loan.bidStartTimestamp = loans[id].bidStartTimestamp
              /\ loan.firstBidderAddress = loans[id].firstBidderAddress
              /\ \/ loan.bidPrice > loans[id].bidPrice
                 \/ /\ loan.bidPrice = loans[id].bidPrice
                    /\ loan.bidderAddress = loans[id].bidderAddress
    PROVE  LedgerStep
<1>1. loans \in Seq(LoanData) /\ \A j \in DOMAIN loans : loans[j] \in LoanData
    BY LoanIds DEF LedgerInv, LoanTypeOK
<1>2. /\ DOMAIN loans' = DOMAIN loans
      /\ loans'[id] = loan
      /\ \A j \in DOMAIN loans : j # id => loans'[j] = loans[j]
    BY <1>1, StoreLoan DEF Store
<1>3. LifecycleStep
    BY <1>2 DEF LifecycleStep, LifecycleEdges, Open
<1>4. \A j \in DOMAIN loans : loans[j].bidPrice \in Nat
    BY <1>1 DEF LoanData
<1>5. loan.bidPrice \in Nat
    BY DEF LoanData
<1>6. BiddingStep
    BY <1>2, <1>4, <1>5 DEF BiddingStep, LifecycleEdges
<1> QED
    BY <1>3, <1>6 DEF LedgerStep

\* A step that overwrites an open loan and leaves it open: what the inductive
\* invariant asks of the new record and of the locks.
LEMMA OverwriteKeepsInv ==
    ASSUME LedgerInv, NEW id \in DOMAIN loans, Open(id),
           NEW loan \in LoanData, Store(id, loan),
           loan.nft = loans[id].nft, loan.borrower = loans[id].borrower,
           loan.state \in {"Active", "Auction"}, BidFieldsMatch(loan),
           UNCHANGED <<nftToLoanIds, nftTotalCollateral, userNftCollateral,
                       flashLoanLockerWhitelist, nftOwner, bnftOwner, minters>>,
           lockings' \in [Nfts -> SUBSET (Lockers \cup {LOAN})],
           LOAN \in lockings'[loan.nft] <=> loan.state = "Auction",
           \A nft \in Nfts : nft # loan.nft => lockings'[nft] = lockings[nft]
    PROVE  LedgerInv'
<1>1. loans \in Seq(LoanData) /\ loans[id] \in LoanData /\ id \in Nat \ {0}
    BY LoanIds DEF LedgerInv, LoanTypeOK
<1>2. /\ loans' \in Seq(LoanData)
      /\ DOMAIN loans' = DOMAIN loans
      /\ loans'[id] = loan
      /\ \A j \in DOMAIN loans : j # id => loans'[j] = loans[j]
    BY <1>1, StoreLoan DEF Store
<1>3. loan.nft \in Nfts /\ nftToLoanIds[loan.nft] = id
    BY DEF LedgerInv, CollateralIndexed, LoanData
<1>4. LoanTypeOK'
    BY <1>2 DEF LedgerInv, LoanTypeOK, BnftTypeOK
<1>5. CollateralIndexed'
    BY <1>2 DEF LedgerInv, CollateralIndexed, Open
<1>6. CollateralInCustody'
    BY <1>2 DEF LedgerInv, CollateralInCustody, CollateralIndexed
<1>7. LockedWhileInAuction'
    BY <1>1, <1>2, <1>3 DEF LedgerInv, LockedWhileInAuction, CollateralIndexed
<1>8. BidFieldsMatchState'
    BY <1>2 DEF LedgerInv, BidFieldsMatchState, OpenLoans, Open
<1>9. BnftBacked'
    BY DEF LedgerInv, BnftBacked, Exists
<1> QED
    BY <1>4, <1>5, <1>6, <1>7, <1>8, <1>9 DEF LedgerInv

\* A step that closes a loan and gives its NFT away.
LEMMA CloseKeepsInv ==
    ASSUME LedgerInv, NEW id \in DOMAIN loans, Open(id),
           NEW loan \in LoanData, Store(id, loan),
           loan.nft = loans[id].nft, loan.state \in {"Repaid", "Defaulted"},
           NEW receiver \in Users, Unwrap(LOAN, receiver, loan.nft),
           nftToLoanIds' = [nftToLoanIds EXCEPT ![loan.nft] = 0],
           UncountCollateral(loans[id].borrower, loan.nft[1]),
           UNCHANGED flashLoanLockerWhitelist,
           lockings' \in [Nfts -> SUBSET (Lockers \cup {LOAN})],
           LOAN \notin lockings'[loan.nft],
           \A nft \in Nfts : nft # loan.nft => lockings'[nft] = lockings[nft]
    PROVE  LedgerInv'
<1>1. loans \in Seq(LoanData) /\ loans[id] \in LoanData /\ id \in Nat \ {0}
    BY LoanIds DEF LedgerInv, LoanTypeOK
<1>2. /\ loans' \in Seq(LoanData)
      /\ DOMAIN loans' = DOMAIN loans
      /\ loans'[id] = loan
      /\ \A j \in DOMAIN loans : j # id => loans'[j] = loans[j]
    BY <1>1, StoreLoan DEF Store
<1>3. /\ loan.nft \in Nfts /\ nftToLoanIds[loan.nft] = id
      /\ loan.nft[1] \in NftAssets /\ loans[id].borrower \in Users
    BY <1>1 DEF LedgerInv, CollateralIndexed, LoanData, Nfts
<1>4. LoanTypeOK'
  <2>1. BnftTypeOK'
      BY <1>3 DEF LedgerInv, LoanTypeOK, BnftTypeOK, Unwrap
  <2>2. nftToLoanIds' \in [Nfts -> Nat]
      BY <1>3 DEF LedgerInv, LoanTypeOK
  <2>3. nftTotalCollateral' \in [NftAssets -> Nat]
      BY <1>3 DEF LedgerInv, LoanTypeOK, UncountCollateral
  <2>4. userNftCollateral' \in [Users -> [NftAssets -> Nat]]
      BY <1>3 DEF LedgerInv, LoanTypeOK, UncountCollateral
  <2> QED
      BY <1>2, <2>1, <2>2, <2>3, <2>4 DEF LedgerInv, LoanTypeOK
<1>5. CollateralIndexed'
  <2>1. \A nft \in Nfts :
            nftToLoanIds'[nft] = IF nft = loan.nft THEN 0 ELSE nftToLoanIds[nft]
      BY DEF LedgerInv, LoanTypeOK
  <2>2. \A j \in DOMAIN loans : loans[j].nft \in Nfts /\ j # 0
      BY LoanIds DEF LedgerInv, LoanTypeOK, LoanData
  <2>3. ASSUME NEW j \in DOMAIN loans'
        PROVE  Open(j)' <=> nftToLoanIds'[loans'[j].nft] = j
    <3>1. CASE j = id
      BY <1>1, <1>2, <1>3, <2>1, <3>1 DEF Open
    <3>2. CASE j # id
      BY <1>2, <1>3, <2>1, <2>2, <3>2 DEF LedgerInv, CollateralIndexed, Open
    <3> QED
      BY <3>1, <3>2
  <2>4. ASSUME NEW nft \in Nfts, nftToLoanIds'[nft] # 0
        PROVE  /\ nftToLoanIds'[nft] \in DOMAIN loans'
               /\ loans'[nftToLoanIds'[nft]].nft = nft
    BY <1>2, <2>1, <2>4 DEF LedgerInv, CollateralIndexed
  <2> QED
    BY <2>3, <2>4 DEF CollateralIndexed
<1>6. CollateralInCustody'
  <2> SUFFICES ASSUME NEW nft \in Nfts
               PROVE  /\ (nftToLoanIds'[nft] # 0) <=> (minters'[nft] = LOAN)
                      /\ nftToLoanIds'[nft] # 0 =>
                            /\ nftOwner'[nft] = BNFT_CONTRACT
                            /\ bnftOwner'[nft] = loans'[nftToLoanIds'[nft]].borrower
      BY DEF CollateralInCustody
  <2>1. CASE nft = loan.nft
    <3>1. nftToLoanIds'[nft] = 0 /\ minters'[nft] = NoUser
      BY <1>3, <2>1 DEF LedgerInv, LoanTypeOK, BnftTypeOK, Unwrap
    <3> QED
      BY <3>1
  <2>2. CASE nft # loan.nft
    <3>1. /\ nftToLoanIds'[nft] = nftToLoanIds[nft] /\ minters'[nft] = minters[nft]
          /\ nftOwner'[nft] = nftOwner[nft] /\ bnftOwner'[nft] = bnftOwner[nft]
      BY <2>2 DEF LedgerInv, LoanTypeOK, BnftTypeOK, Unwrap
    <3>2. nftToLoanIds[nft] # 0 =>
              nftToLoanIds[nft] \in DOMAIN loans /\ loans[nftToLoanIds[nft]].nft = nft
      BY DEF LedgerInv, CollateralIndexed
    <3> QED
      BY <1>2, <2>2, <3>1, <3>2 DEF LedgerInv, CollateralInCustody
  <2> QED
    BY <2>1, <2>2
<1>7. LockedWhileInAuction'
  <2> SUFFICES ASSUME NEW nft \in Nfts
               PROVE  LOAN \in lockings'[nft] <=>
                        /\ nftToLoanIds'[nft] # 0
                        /\ loans'[nftToLoanIds'[nft]].state = "Auction"
      BY DEF LockedWhileInAuction
  <2>1. nft = loan.nft => nftToLoanIds'[nft] = 0
      BY DEF LedgerInv, LoanTypeOK
  <2>2. nft # loan.nft => nftToLoanIds'[nft] = nftToLoanIds[nft]
      BY DEF LedgerInv, LoanTypeOK
  <2>3. nftToLoanIds[nft] # 0 =>
            nftToLoanIds[nft] \in DOMAIN loans /\ loans[nftToLoanIds[nft]].nft = nft
      BY DEF LedgerInv, CollateralIndexed
  <2> QED
      BY <1>2, <2>1, <2>2, <2>3 DEF LedgerInv, LockedWhileInAuction
<1>8. BidFieldsMatchState'
    BY <1>2 DEF LedgerInv, BidFieldsMatchState, OpenLoans, Open
<1>9. BnftBacked'
    BY <1>3 DEF LedgerInv, LoanTypeOK, BnftTypeOK, BnftBacked, Unwrap, Exists
<1> QED
    BY <1>4, <1>5, <1>6, <1>7, <1>8, <1>9 DEF LedgerInv

\* A step that stores a new loan and takes its NFT into custody.
LEMMA CreateKeepsInv ==
    ASSUME LedgerInv, NEW loan \in LoanData, loan.state = "Active",
           BidFieldsMatch(loan),
           loans' = Append(loans, loan),
           nftToLoanIds[loan.nft] = 0,
           nftToLoanIds' = [nftToLoanIds EXCEPT ![loan.nft] = Len(loans) + 1],
           NEW holder, Wrap(holder, LOAN, loan.borrower, loan.nft),
           CountCollateral(loan.borrower, loan.nft[1]),
           UNCHANGED <<flashLoanLockerWhitelist, lockings>>
    PROVE  LedgerInv' /\ LedgerStep
<1> DEFINE new == Len(loans) + 1
<1>1. loans \in Seq(LoanData)
    BY DEF LedgerInv, LoanTypeOK
<1>2. /\ loans' \in Seq(LoanData)
      /\ new \in Nat \ {0} /\ new \notin DOMAIN loans
      /\ DOMAIN loans' = DOMAIN loans \cup {new}
      /\ loans'[new] = loan
      /\ \A j \in DOMAIN loans : loans'[j] = loans[j]
    BY <1>1, AddLoan
<1>3. nftToLoanIds' = [nftToLoanIds EXCEPT ![loan.nft] = new]
    OBVIOUS
<1> HIDE DEF new
<1>4. /\ loan.nft \in Nfts /\ loan.borrower \in Users
      /\ loan.nft[1] \in NftAssets
    BY DEF LoanData, Nfts
<1>5. \A nft \in Nfts :
          nftToLoanIds'[nft] = IF nft = loan.nft THEN new ELSE nftToLoanIds[nft]
    BY <1>3 DEF LedgerInv, LoanTypeOK
<1>6. \A j \in DOMAIN loans : loans[j].nft \in Nfts /\ j # 0
    BY LoanIds DEF LedgerInv, LoanTypeOK, LoanData
<1>7. LoanTypeOK'
  <2>1. BnftTypeOK'
      BY <1>4 DEF LedgerInv, LoanTypeOK, BnftTypeOK, Wrap
  <2>2. nftToLoanIds' \in [Nfts -> Nat]
      BY <1>2, <1>3, <1>4 DEF LedgerInv, LoanTypeOK
  <2>3. nftTotalCollateral' \in [NftAssets -> Nat]
      BY <1>4 DEF LedgerInv, LoanTypeOK, CountCollateral
  <2>4. userNftCollateral' \in [Users -> [NftAssets -> Nat]]
    <3>1. userNftCollateral \in [Users -> [NftAssets -> Nat]]
        BY DEF LedgerInv, LoanTypeOK
    <3>2. userNftCollateral[loan.borrower][loan.nft[1]] + 1 \in Nat
        BY <1>4, <3>1
    <3> QED
        BY <1>4, <3>1, <3>2, UserCounterType DEF CountCollateral
  <2> QED
      BY <1>2, <2>1, <2>2, <2>3, <2>4 DEF LedgerInv, LoanTypeOK
<1>8. CollateralIndexed'
  <2>1. ASSUME NEW j \in DOMAIN loans'
        PROVE  Open(j)' <=> nftToLoanIds'[loans'[j].nft] = j
    <3>1. CASE j = new
      BY <1>2, <1>4, <1>5, <3>1 DEF Open
    <3>2. CASE j # new
      BY <1>2, <1>4, <1>5, <1>6, <3>2 DEF LedgerInv, CollateralIndexed, Open
    <3> QED
      BY <3>1, <3>2
  <2>2. ASSUME NEW nft \in Nfts, nftToLoanIds'[nft] # 0
        PROVE  /\ nftToLoanIds'[nft] \in DOMAIN loans'
               /\ loans'[nftToLoanIds'[nft]].nft = nft
    BY <1>2, <1>5, <2>2 DEF LedgerInv, CollateralIndexed
  <2> QED
    BY <2>1, <2>2 DEF CollateralIndexed
<1>9. CollateralInCustody'
  <2> SUFFICES ASSUME NEW nft \in Nfts
               PROVE  /\ (nftToLoanIds'[nft] # 0) <=> (minters'[nft] = LOAN)
                      /\ nftToLoanIds'[nft] # 0 =>
                            /\ nftOwner'[nft] = BNFT_CONTRACT
                            /\ bnftOwner'[nft] = loans'[nftToLoanIds'[nft]].borrower
      BY DEF CollateralInCustody
  <2>1. CASE nft = loan.nft
    <3>1. /\ nftToLoanIds'[nft] = new /\ minters'[nft] = LOAN
          /\ nftOwner'[nft] = BNFT_CONTRACT /\ bnftOwner'[nft] = loan.borrower
      BY <1>4, <1>5, <2>1 DEF LedgerInv, LoanTypeOK, BnftTypeOK, Wrap
    <3> QED
      BY <1>2, <3>1
  <2>2. CASE nft # loan.nft
    <3>1. /\ nftToLoanIds'[nft] = nftToLoanIds[nft] /\ minters'[nft] = minters[nft]
          /\ nftOwner'[nft] = nftOwner[nft] /\ bnftOwner'[nft] = bnftOwner[nft]
      BY <1>5, <2>2 DEF LedgerInv, LoanTypeOK, BnftTypeOK, Wrap
    <3>2. nftToLoanIds[nft] # 0 => nftToLoanIds[nft] \in DOMAIN loans
      BY DEF LedgerInv, CollateralIndexed
    <3> QED
      BY <1>2, <3>1, <3>2 DEF LedgerInv, CollateralInCustody
  <2> QED
    BY <2>1, <2>2
<1>10. LockedWhileInAuction'
  <2> SUFFICES ASSUME NEW nft \in Nfts
               PROVE  LOAN \in lockings'[nft] <=>
                        /\ nftToLoanIds'[nft] # 0
                        /\ loans'[nftToLoanIds'[nft]].state = "Auction"
      BY DEF LockedWhileInAuction
  <2>1. nftToLoanIds[nft] # 0 => nftToLoanIds[nft] \in DOMAIN loans
      BY DEF LedgerInv, CollateralIndexed
  <2> QED
      BY <1>2, <1>5, <2>1 DEF LedgerInv, LockedWhileInAuction
<1>11. BidFieldsMatchState'
    BY <1>2 DEF LedgerInv, BidFieldsMatchState, OpenLoans, Open
<1>12. BnftBacked'
    BY <1>4 DEF LedgerInv, LoanTypeOK, BnftTypeOK, BnftBacked, Wrap, Exists
<1>13. LifecycleStep
  <2> SUFFICES ASSUME NEW j \in DOMAIN loans
               PROVE  j \in DOMAIN loans' /\ loans'[j] = loans[j]
      BY DEF LifecycleStep
  <2> QED
      BY <1>2
<1>14. BiddingStep
  <2> SUFFICES ASSUME NEW j \in DOMAIN loans
               PROVE  /\ loans'[j].bidPrice >= loans[j].bidPrice
                      /\ loans'[j].bidderAddress = loans[j].bidderAddress
                      /\ loans'[j].bidStartTimestamp = loans[j].bidStartTimestamp
                      /\ loans'[j].firstBidderAddress = loans[j].firstBidderAddress
      BY DEF BiddingStep
  <2>1. loans[j].bidPrice \in Nat
      BY <1>1, LoanIds DEF LoanData
  <2> QED
      BY <1>2, <2>1
<1> QED
    BY <1>7, <1>8, <1>9, <1>10, <1>11, <1>12, <1>13, <1>14 DEF LedgerInv, LedgerStep

-----------------------------------------------------------------------------
(***************************************************************************)
(* The calls of LendPool.  The lemmas ask of the arguments only what any   *)
(* caller guarantees, so that they serve the pool's proofs as well.        *)
(***************************************************************************)
LEMMA CreateLoanKeepsInv ==
    ASSUME LedgerInv, NEW initiator, NEW onBehalfOf \in Users, NEW nft \in Nfts,
           NEW reserve \in Reserves, NEW amount \in Nat, NEW borrowIndex \in Nat \ {0},
           CreateLoan(initiator, onBehalfOf, nft, reserve, amount, borrowIndex)
    PROVE  LedgerInv' /\ LedgerStep
<1> DEFINE loan == NewLoan(onBehalfOf, nft, reserve, RayDiv(amount, borrowIndex))
<1>1. RayDiv(amount, borrowIndex) \in Nat
    BY RayDivNat
<1>2. loan \in LoanData
    BY <1>1 DEF NewLoan, LoanData, LoanState
<1>3. /\ loan.nft = nft /\ loan.borrower = onBehalfOf /\ loan.state = "Active"
      /\ BidFieldsMatch(loan)
    BY DEF NewLoan, BidFieldsMatch
<1> HIDE DEF loan
<1>4. /\ loans' = Append(loans, loan)
      /\ nftToLoanIds[loan.nft] = 0
      /\ nftToLoanIds' = [nftToLoanIds EXCEPT ![loan.nft] = Len(loans) + 1]
      /\ Wrap(initiator, LOAN, loan.borrower, loan.nft)
      /\ CountCollateral(loan.borrower, loan.nft[1])
      /\ UNCHANGED <<flashLoanLockerWhitelist, lockings>>
    BY <1>3 DEF CreateLoan, loan
<1> QED
    BY <1>2, <1>3, <1>4, CreateKeepsInv

LEMMA WithDebtLoan ==
    ASSUME NEW loan \in LoanData, NEW amount \in Nat
    PROVE  /\ WithDebt(loan, amount) \in LoanData
           /\ WithDebt(loan, amount).nft = loan.nft
           /\ WithDebt(loan, amount).borrower = loan.borrower
           /\ WithDebt(loan, amount).state = loan.state
           /\ WithDebt(loan, amount).bidStartTimestamp = loan.bidStartTimestamp
           /\ WithDebt(loan, amount).firstBidderAddress = loan.firstBidderAddress
           /\ WithDebt(loan, amount).bidderAddress = loan.bidderAddress
           /\ WithDebt(loan, amount).bidPrice = loan.bidPrice
           /\ BidFieldsMatch(WithDebt(loan, amount)) <=> BidFieldsMatch(loan)
    BY DEF WithDebt, LoanData, BidFieldsMatch

\* A loan that stays in its state keeps its lock.
LEMMA UnlockedStays ==
    ASSUME LedgerInv, NEW id \in DOMAIN loans, Open(id), UNCHANGED lockings
    PROVE  /\ loans[id] \in LoanData
           /\ BidFieldsMatch(loans[id])
           /\ lockings' \in [Nfts -> SUBSET (Lockers \cup {LOAN})]
           /\ LOAN \in lockings'[loans[id].nft] <=> loans[id].state = "Auction"
<1>1. loans[id] \in LoanData /\ id # 0
    BY LoanIds DEF LedgerInv, LoanTypeOK
<1>2. nftToLoanIds[loans[id].nft] = id /\ loans[id].nft \in Nfts
    BY <1>1 DEF LedgerInv, CollateralIndexed, LoanData
<1> QED
    BY <1>1, <1>2 DEF LedgerInv, LoanTypeOK, BnftTypeOK, LockedWhileInAuction,
       BidFieldsMatchState, OpenLoans

LEMMA IncreaseLoanKeepsInv ==
    ASSUME LedgerInv, NEW id, NEW amount \in Nat, NEW borrowIndex \in Nat \ {0},
           IncreaseLoan(id, amount, borrowIndex)
    PROVE  LedgerInv' /\ LedgerStep
<1> DEFINE debt == loans[id].scaledAmount + RayDiv(amount, borrowIndex)
           loan == WithDebt(loans[id], debt)
<1>1. /\ id \in DOMAIN loans /\ loans[id].state = "Active" /\ Open(id)
      /\ Store(id, loan)
      /\ UNCHANGED <<nftToLoanIds, nftTotalCollateral, userNftCollateral,
                     flashLoanLockerWhitelist, nftOwner, bnftOwner, minters, lockings>>
    BY DEF IncreaseLoan, IsLoan, Open, bnftVars
<1>2. /\ loans[id] \in LoanData /\ BidFieldsMatch(loans[id])
      /\ lockings' \in [Nfts -> SUBSET (Lockers \cup {LOAN})]
      /\ LOAN \in lockings'[loans[id].nft] <=> loans[id].state = "Auction"
    BY <1>1, UnlockedStays
<1>3. debt \in Nat
    BY <1>2, RayDivNat DEF LoanData
<1> HIDE DEF debt
<1>4. /\ loan \in LoanData /\ BidFieldsMatch(loan)
      /\ loan.nft = loans[id].nft /\ loan.borrower = loans[id].borrower
      /\ loan.state = "Active"
      /\ loan.bidStartTimestamp = loans[id].bidStartTimestamp
      /\ loan.firstBidderAddress = loans[id].firstBidderAddress
      /\ loan.bidderAddress = loans[id].bidderAddress
      /\ loan.bidPrice = loans[id].bidPrice
    BY <1>1, <1>2, <1>3, WithDebtLoan
<1> HIDE DEF loan
<1>10. LedgerInv'
    BY <1>1, <1>2, <1>4, OverwriteKeepsInv
<1>11. LedgerStep
    BY <1>1, <1>2, <1>4, StoreIsLedgerStep DEF LifecycleEdges
<1> QED
    BY <1>10, <1>11

LEMMA DecreaseLoanKeepsInv ==
    ASSUME LedgerInv, NEW id, NEW amount \in Nat, NEW borrowIndex \in Nat \ {0},
           DecreaseLoan(id, amount, borrowIndex)
    PROVE  LedgerInv' /\ LedgerStep
<1> DEFINE debt == loans[id].scaledAmount - RayDiv(amount, borrowIndex)
           loan == WithDebt(loans[id], debt)
<1>1. /\ id \in DOMAIN loans /\ loans[id].state = "Active" /\ Open(id)
      /\ Store(id, loan)
      /\ loans[id].scaledAmount >= RayDiv(amount, borrowIndex)
      /\ UNCHANGED <<nftToLoanIds, nftTotalCollateral, userNftCollateral,
                     flashLoanLockerWhitelist, nftOwner, bnftOwner, minters, lockings>>
    BY DEF DecreaseLoan, IsLoan, Open, bnftVars
<1>2. /\ loans[id] \in LoanData /\ BidFieldsMatch(loans[id])
      /\ lockings' \in [Nfts -> SUBSET (Lockers \cup {LOAN})]
      /\ LOAN \in lockings'[loans[id].nft] <=> loans[id].state = "Auction"
    BY <1>1, UnlockedStays
<1>3. debt \in Nat
    BY <1>1, <1>2, RayDivNat DEF LoanData
<1> HIDE DEF debt
<1>4. /\ loan \in LoanData /\ BidFieldsMatch(loan)
      /\ loan.nft = loans[id].nft /\ loan.borrower = loans[id].borrower
      /\ loan.state = "Active"
      /\ loan.bidStartTimestamp = loans[id].bidStartTimestamp
      /\ loan.firstBidderAddress = loans[id].firstBidderAddress
      /\ loan.bidderAddress = loans[id].bidderAddress
      /\ loan.bidPrice = loans[id].bidPrice
    BY <1>1, <1>2, <1>3, WithDebtLoan
<1> HIDE DEF loan
<1>10. LedgerInv'
    BY <1>1, <1>2, <1>4, OverwriteKeepsInv
<1>11. LedgerStep
    BY <1>1, <1>2, <1>4, StoreIsLedgerStep DEF LifecycleEdges
<1> QED
    BY <1>10, <1>11

LEMMA RepayLoanKeepsInv ==
    ASSUME LedgerInv, NEW id, RepayLoan(id)
    PROVE  LedgerInv' /\ LedgerStep
<1> DEFINE loan == Repaid(loans[id])
<1>1. /\ id \in DOMAIN loans /\ Open(id) /\ Store(id, loan)
      /\ nftToLoanIds' = [nftToLoanIds EXCEPT ![loans[id].nft] = 0]
      /\ UncountCollateral(loans[id].borrower, loans[id].nft[1])
      /\ Unwrap(LOAN, loans[id].borrower, loans[id].nft)
      /\ UNCHANGED <<flashLoanLockerWhitelist, lockings>>
      /\ loans[id].state = "Active"
    BY DEF RepayLoan, IsLoan, Open
<1>2. /\ loans[id] \in LoanData
      /\ lockings' \in [Nfts -> SUBSET (Lockers \cup {LOAN})]
      /\ LOAN \notin lockings'[loans[id].nft]
    BY <1>1, UnlockedStays
<1>3. /\ loan \in LoanData /\ loan.nft = loans[id].nft /\ loan.state = "Repaid"
      /\ loans[id].borrower \in Users /\ loan.borrower = loans[id].borrower
    BY <1>2 DEF Repaid, LoanData, LoanState
<1> HIDE DEF loan
<1>10. LedgerInv'
    BY <1>1, <1>2, <1>3, CloseKeepsInv
<1>11. LedgerStep
    BY <1>1, <1>2, <1>3, StoreIsLedgerStep DEF LifecycleEdges
<1> QED
    BY <1>10, <1>11

\* The effect of taking or releasing the protocol's lock on one NFT.
LEMMA SetLockingEffect ==
    ASSUME LedgerInv, NEW nft \in Nfts, NEW locked \in BOOLEAN,
           SetLocking(nft, LOAN, locked)
    PROVE  /\ lockings' \in [Nfts -> SUBSET (Lockers \cup {LOAN})]
           /\ LOAN \in lockings'[nft] <=> locked
           /\ \A other \in Nfts : other # nft => lockings'[other] = lockings[other]
    BY DEF LedgerInv, LoanTypeOK, BnftTypeOK, SetLocking

LEMMA FirstBidKeepsInv ==
    ASSUME LedgerInv, NEW id, NEW onBehalfOf \in Users, NEW bidPrice \in Nat \ {0},
           NEW borrowAmount \in Nat, NEW time \in Nat \ {0},
           FirstBid(id, onBehalfOf, bidPrice, borrowAmount, time)
    PROVE  LedgerInv' /\ LedgerStep
<1> DEFINE loan == PutOnSale(WithBid(loans[id], onBehalfOf, bidPrice, borrowAmount),
                             onBehalfOf, time)
<1>1. /\ id \in DOMAIN loans /\ Open(id) /\ Store(id, loan)
      /\ SetLocking(loans[id].nft, LOAN, TRUE)
      /\ UNCHANGED <<nftToLoanIds, nftTotalCollateral, userNftCollateral,
                     flashLoanLockerWhitelist, nftOwner, bnftOwner, minters>>
    BY DEF FirstBid, IsLoan, Open
<1>9. loans[id].state = "Active"
    BY DEF FirstBid
<1>2. loans[id] \in LoanData
    BY <1>1, LoanIds DEF LedgerInv, LoanTypeOK
<1>3. /\ loan \in LoanData /\ BidFieldsMatch(loan)
      /\ loan.nft = loans[id].nft /\ loan.borrower = loans[id].borrower
      /\ loan.state = "Auction" /\ loan.nft \in Nfts
    BY <1>2 DEF PutOnSale, WithBid, BidFieldsMatch, LoanData, LoanState
<1> HIDE DEF loan
<1>4. /\ lockings' \in [Nfts -> SUBSET (Lockers \cup {LOAN})]
      /\ LOAN \in lockings'[loan.nft]
      /\ \A nft \in Nfts : nft # loan.nft => lockings'[nft] = lockings[nft]
    BY <1>1, <1>3, SetLockingEffect
<1>10. LedgerInv'
    BY <1>1, <1>3, <1>4, OverwriteKeepsInv
<1>11. LedgerStep
    BY <1>1, <1>3, <1>4, <1>9, StoreIsLedgerStep DEF LifecycleEdges
<1> QED
    BY <1>10, <1>11

LEMMA HigherBidKeepsInv ==
    ASSUME LedgerInv, NEW id, NEW onBehalfOf \in Users, NEW bidPrice \in Nat \ {0},
           NEW borrowAmount \in Nat,
           HigherBid(id, onBehalfOf, bidPrice, borrowAmount)
    PROVE  LedgerInv' /\ LedgerStep
<1> DEFINE loan == WithBid(loans[id], onBehalfOf, bidPrice, borrowAmount)
<1>1. /\ id \in DOMAIN loans /\ Open(id) /\ Store(id, loan)
      /\ loans[id].state = "Auction" /\ bidPrice > loans[id].bidPrice
      /\ UNCHANGED <<nftToLoanIds, nftTotalCollateral, userNftCollateral,
                     flashLoanLockerWhitelist, nftOwner, bnftOwner, minters, lockings>>
    BY DEF HigherBid, IsLoan, Open, bnftVars
<1>2. /\ loans[id] \in LoanData /\ BidFieldsMatch(loans[id])
      /\ lockings' \in [Nfts -> SUBSET (Lockers \cup {LOAN})]
      /\ LOAN \in lockings'[loans[id].nft]
    BY <1>1, UnlockedStays
<1>3. /\ loan \in LoanData /\ BidFieldsMatch(loan)
      /\ loan.nft = loans[id].nft /\ loan.borrower = loans[id].borrower
      /\ loan.state = "Auction"
      /\ loan.bidStartTimestamp = loans[id].bidStartTimestamp
      /\ loan.firstBidderAddress = loans[id].firstBidderAddress
      /\ loan.bidPrice > loans[id].bidPrice
    BY <1>1, <1>2 DEF WithBid, BidFieldsMatch, LoanData
<1> HIDE DEF loan
<1>10. LedgerInv'
    BY <1>1, <1>2, <1>3, OverwriteKeepsInv
<1>11. LedgerStep
    BY <1>1, <1>2, <1>3, StoreIsLedgerStep DEF LifecycleEdges
<1> QED
    BY <1>10, <1>11

LEMMA RedeemLoanKeepsInv ==
    ASSUME LedgerInv, NEW id, NEW amount \in Nat, NEW borrowIndex \in Nat \ {0},
           RedeemLoan(id, amount, borrowIndex)
    PROVE  LedgerInv' /\ LedgerStep
<1> DEFINE debt == loans[id].scaledAmount - RayDiv(amount, borrowIndex)
           loan == WithDebt(TakenOffSale(loans[id]), debt)
<1>1. /\ id \in DOMAIN loans /\ Open(id) /\ Store(id, loan)
      /\ loans[id].scaledAmount >= RayDiv(amount, borrowIndex)
      /\ SetLocking(loans[id].nft, LOAN, FALSE)
      /\ UNCHANGED <<nftToLoanIds, nftTotalCollateral, userNftCollateral,
                     flashLoanLockerWhitelist, nftOwner, bnftOwner, minters>>
    BY DEF RedeemLoan, IsLoan, Open
<1>9. loans[id].state = "Auction"
    BY DEF RedeemLoan
<1>2. loans[id] \in LoanData
    BY <1>1, LoanIds DEF LedgerInv, LoanTypeOK
<1>3. debt \in Nat
    BY <1>1, <1>2, RayDivNat DEF LoanData
<1> HIDE DEF debt
<1>4. /\ TakenOffSale(loans[id]) \in LoanData /\ BidFieldsMatch(TakenOffSale(loans[id]))
      /\ TakenOffSale(loans[id]).nft = loans[id].nft
      /\ TakenOffSale(loans[id]).borrower = loans[id].borrower
      /\ TakenOffSale(loans[id]).state = "Active" /\ loans[id].nft \in Nfts
    BY <1>2 DEF TakenOffSale, BidFieldsMatch, LoanData, LoanState
<1>5. /\ loan \in LoanData /\ BidFieldsMatch(loan)
      /\ loan.nft = loans[id].nft /\ loan.borrower = loans[id].borrower
      /\ loan.state = "Active" /\ loan.nft \in Nfts
  <2> DEFINE taken == TakenOffSale(loans[id])
  <2> HIDE DEF taken
  <2>1. /\ loan \in LoanData /\ BidFieldsMatch(loan) <=> BidFieldsMatch(taken)
        /\ loan.nft = taken.nft /\ loan.borrower = taken.borrower
        /\ loan.state = taken.state
      BY <1>3, <1>4, WithDebtLoan DEF taken
  <2> HIDE DEF loan
  <2> QED
      BY <1>4, <2>1 DEF taken
<1> HIDE DEF loan
<1>6. /\ lockings' \in [Nfts -> SUBSET (Lockers \cup {LOAN})]
      /\ LOAN \notin lockings'[loan.nft]
      /\ \A nft \in Nfts : nft # loan.nft => lockings'[nft] = lockings[nft]
    BY <1>1, <1>5, SetLockingEffect
<1>10. LedgerInv'
    BY <1>1, <1>5, <1>6, OverwriteKeepsInv
<1>11. LedgerStep
    BY <1>1, <1>5, <1>9, StoreIsLedgerStep DEF LifecycleEdges
<1> QED
    BY <1>10, <1>11

LEMMA LiquidateLoanKeepsInv ==
    ASSUME LedgerInv, NEW id, NEW borrowAmount \in Nat,
           LiquidateLoan(id, borrowAmount)
    PROVE  LedgerInv' /\ LedgerStep
<1> DEFINE loan == Defaulted(loans[id], borrowAmount)
<1>1. /\ id \in DOMAIN loans /\ Open(id) /\ Store(id, loan)
      /\ loans[id].state = "Auction"
      /\ nftToLoanIds' = [nftToLoanIds EXCEPT ![loans[id].nft] = 0]
      /\ UncountCollateral(loans[id].borrower, loans[id].nft[1])
      /\ SetLocking(loans[id].nft, LOAN, FALSE)
      /\ Unwrap(LOAN, loans[id].bidderAddress, loans[id].nft)
      /\ UNCHANGED flashLoanLockerWhitelist
    BY DEF LiquidateLoan, IsLoan, Open
<1>2. loans[id] \in LoanData
    BY <1>1, LoanIds DEF LedgerInv, LoanTypeOK
<1>3. loans[id].bidderAddress \in Users
    BY <1>1, <1>2 DEF LedgerInv, BidFieldsMatchState, BidFieldsMatch, OpenLoans, LoanData
<1>4. /\ loan \in LoanData /\ loan.nft = loans[id].nft /\ loan.state = "Defaulted"
      /\ loan.nft \in Nfts /\ loan.borrower = loans[id].borrower
    BY <1>2 DEF Defaulted, LoanData, LoanState
<1> HIDE DEF loan
<1>5. /\ lockings' \in [Nfts -> SUBSET (Lockers \cup {LOAN})]
      /\ LOAN \notin lockings'[loan.nft]
      /\ \A nft \in Nfts : nft # loan.nft => lockings'[nft] = lockings[nft]
    BY <1>1, <1>4, SetLockingEffect
<1>10. LedgerInv'
    BY <1>1, <1>3, <1>4, <1>5, CloseKeepsInv
<1>11. LedgerStep
    BY <1>1, <1>3, <1>4, <1>5, StoreIsLedgerStep DEF LifecycleEdges
<1> QED
    BY <1>10, <1>11

-----------------------------------------------------------------------------
(***************************************************************************)
(* Steps outside the pool.                                                 *)
(***************************************************************************)
\* While the ledger stands still, the invariant asks nothing of the bNFTs of NFTs
\* that secure no loan, nor of locks other than the protocol's own.
LEMMA ForeignStepKeepsInv ==
    ASSUME LedgerInv, UNCHANGED <<loans, nftToLoanIds, nftTotalCollateral, userNftCollateral>>,
           flashLoanLockerWhitelist' \in SUBSET Lockers, BnftTypeOK', BnftBacked',
           \A nft \in Nfts :
              /\ minters'[nft] = LOAN <=> minters[nft] = LOAN
              /\ minters[nft] = LOAN =>
                    nftOwner'[nft] = nftOwner[nft] /\ bnftOwner'[nft] = bnftOwner[nft]
              /\ LOAN \in lockings'[nft] <=> LOAN \in lockings[nft]
    PROVE  LedgerInv' /\ LedgerStep
<1>1. LoanTypeOK'
    BY DEF LedgerInv, LoanTypeOK
<1>2. CollateralIndexed'
    BY DEF LedgerInv, CollateralIndexed, Open
<1>3. CollateralInCustody'
    BY DEF LedgerInv, CollateralInCustody
<1>4. LockedWhileInAuction'
    BY DEF LedgerInv, LockedWhileInAuction
<1>5. BidFieldsMatchState'
    BY DEF LedgerInv, BidFieldsMatchState, OpenLoans, Open, BidFieldsMatch
<1>6. LifecycleStep
    BY DEF LifecycleStep
<1>7. BiddingStep
    BY LoanIds DEF LedgerInv, LoanTypeOK, LoanData, BiddingStep
<1> QED
    BY <1>1, <1>2, <1>3, <1>4, <1>5, <1>6, <1>7 DEF LedgerInv, LedgerStep

\* An NFT in the protocol's custody exists as a bNFT of a user and its original is
\* in no account, so nobody can transfer, wrap or unwrap it.
LEMMA CustodyFacts ==
    ASSUME LedgerInv, NEW nft \in Nfts, minters[nft] = LOAN
    PROVE  nftOwner[nft] \notin Users /\ bnftOwner[nft] # NoUser
<1>1. nftToLoanIds[nft] # 0 /\ nftToLoanIds[nft] \in DOMAIN loans
    BY DEF LedgerInv, CollateralInCustody, CollateralIndexed
<1>2. loans[nftToLoanIds[nft]].borrower \in Users
    BY <1>1, LoanIds DEF LedgerInv, LoanTypeOK, LoanData
<1> QED
    BY <1>1, <1>2 DEF LedgerInv, CollateralInCustody

LEMMA BnftNextKeepsInv ==
    ASSUME LedgerInv, BnftNext, UNCHANGED ledgerVars
    PROVE  LedgerInv' /\ LedgerStep
<1>1. PICK u \in Users, nft \in Nfts :
          \/ \E v \in Users : TransferNft(u, v, nft) \/ DirectMint(u, v, nft)
          \/ DirectBurn(u, nft)
    BY DEF BnftNext
<1>2. BnftTypeOK
    BY DEF LedgerInv, LoanTypeOK
<1>3. minters[nft] # LOAN
    BY <1>1, CustodyFacts DEF TransferNft, DirectMint, DirectBurn, Wrap, Unwrap, Exists
<1>4. BnftTypeOK'
    BY <1>1, <1>2 DEF BnftTypeOK, TransferNft, DirectMint, DirectBurn, Wrap, Unwrap
<1>5. minters'[nft] # LOAN
    BY <1>1, <1>2, <1>3 DEF BnftTypeOK, TransferNft, DirectMint, DirectBurn, Wrap, Unwrap
<1>6. /\ lockings' = lockings
      /\ \A other \in Nfts : other # nft =>
            /\ minters'[other] = minters[other]
            /\ nftOwner'[other] = nftOwner[other]
            /\ bnftOwner'[other] = bnftOwner[other]
    BY <1>1, <1>2 DEF BnftTypeOK, TransferNft, DirectMint, DirectBurn, Wrap, Unwrap
<1>7. /\ UNCHANGED <<loans, nftToLoanIds, nftTotalCollateral, userNftCollateral>>
      /\ flashLoanLockerWhitelist' \in SUBSET Lockers
    BY DEF ledgerVars, LedgerInv, LoanTypeOK
<1>8. BnftBacked'
    BY <1>1, <1>2 DEF LedgerInv, BnftTypeOK, BnftBacked, Exists, TransferNft, DirectMint, DirectBurn,
       Wrap, Unwrap
<1> QED
    BY <1>3, <1>4, <1>5, <1>6, <1>7, <1>8, ForeignStepKeepsInv

LEMMA LockerNextKeepsInv ==
    ASSUME LedgerInv, LockerNext
    PROVE  LedgerInv' /\ LedgerStep
<1>1. PICK locker \in Lockers :
          \/ \E b \in BOOLEAN : ApproveFlashLoanLocker(locker, b)
          \/ \E nft \in Nfts, b \in BOOLEAN : SetFlashLoanLocking(locker, nft, b)
          \/ \E asset \in NftAssets, ids \in SUBSET TokenIds :
                locker \in PurgeTargets /\ PurgeFlashLoanLocking({asset} \X ids, locker)
    BY DEF LockerNext
<1>2. BnftTypeOK /\ flashLoanLockerWhitelist \in SUBSET Lockers /\ locker # LOAN
    BY DEF LedgerInv, LoanTypeOK
<1>3. /\ UNCHANGED <<loans, nftToLoanIds, nftTotalCollateral, userNftCollateral>>
      /\ UNCHANGED <<nftOwner, bnftOwner, minters>>
      /\ flashLoanLockerWhitelist' \in SUBSET Lockers
    BY <1>1, <1>2 DEF ApproveFlashLoanLocker, SetFlashLoanLocking, PurgeFlashLoanLocking,
       ledgerVars, bnftVars
<1>4. /\ lockings' \in [Nfts -> SUBSET (Lockers \cup {LOAN})]
      /\ \A nft \in Nfts : LOAN \in lockings'[nft] <=> LOAN \in lockings[nft]
    BY <1>1, <1>2 DEF BnftTypeOK, ApproveFlashLoanLocker, SetFlashLoanLocking,
       PurgeFlashLoanLocking, SetLocking, bnftVars
<1>5. BnftTypeOK'
    BY <1>2, <1>3, <1>4 DEF BnftTypeOK
<1>6. BnftBacked'
    BY <1>3 DEF LedgerInv, BnftBacked, Exists
<1> QED
    BY <1>3, <1>4, <1>5, <1>6, ForeignStepKeepsInv

-----------------------------------------------------------------------------
(***************************************************************************)
(* The theorems.                                                           *)
(***************************************************************************)
LEMMA InitInv == LoanInit => LedgerInv
<1> SUFFICES ASSUME LoanInit
             PROVE  LedgerInv
    OBVIOUS
<1>1. loans \in Seq(LoanData) /\ DOMAIN loans = {}
    BY EmptySeq DEF LoanInit
<1>2. LoanTypeOK
    BY <1>1 DEF LoanInit, BnftInit, LoanTypeOK, BnftTypeOK
<1>3. BnftBacked
    BY DEF LoanInit, BnftInit, BnftBacked, Exists
<1> QED
    BY <1>1, <1>2, <1>3 DEF LedgerInv, LoanInit, BnftInit, CollateralIndexed, CollateralInCustody,
       LockedWhileInAuction, BidFieldsMatchState, OpenLoans

LEMMA PoolCallKeepsInv ==
    ASSUME LedgerInv, PoolCallNext
    PROVE  LedgerInv' /\ LedgerStep
<1> USE DEF PoolCallNext
<1>1. /\ \A a \in Amounts : a \in Nat /\ a # 0
      /\ \A x \in BorrowIndexes : x \in Nat /\ x # 0
      /\ \A t \in Timestamps : t \in Nat /\ t # 0
    OBVIOUS
<1>2. CASE \E i \in Users, u \in Users, nft \in Nfts, r \in Reserves,
              a \in Amounts, x \in BorrowIndexes : CreateLoan(i, u, nft, r, a, x)
    BY <1>1, <1>2, CreateLoanKeepsInv
<1>3. CASE \E id \in DOMAIN loans, x \in BorrowIndexes, a \in Amounts :
              \/ IncreaseLoan(id, a, x)
              \/ DecreaseLoan(id, a, x)
              \/ RedeemLoan(id, a, x)
    BY <1>1, <1>3, IncreaseLoanKeepsInv, DecreaseLoanKeepsInv, RedeemLoanKeepsInv
<1>4. CASE \E id \in DOMAIN loans : RepayLoan(id)
    BY <1>4, RepayLoanKeepsInv
<1>5. ASSUME NEW id \in DOMAIN loans, NEW x \in BorrowIndexes
      PROVE  RayMul(loans[id].scaledAmount, x) \in Nat
    BY <1>1, LoanIds, RayMulNat DEF LedgerInv, LoanTypeOK, LoanData
<1>6. CASE \E id \in DOMAIN loans, x \in BorrowIndexes,
              u \in Users, p \in Amounts, t \in Timestamps :
              AuctionLoan(id, u, p, RayMul(loans[id].scaledAmount, x), t)
    BY <1>1, <1>5, <1>6, FirstBidKeepsInv, HigherBidKeepsInv DEF AuctionLoan
<1>7. CASE \E id \in DOMAIN loans, x \in BorrowIndexes :
              LiquidateLoan(id, RayMul(loans[id].scaledAmount, x))
    BY <1>5, <1>7, LiquidateLoanKeepsInv
<1> QED
    BY <1>2, <1>3, <1>4, <1>6, <1>7

LEMMA StutterKeepsInv ==
    ASSUME LedgerInv, UNCHANGED loanVars
    PROVE  LedgerInv' /\ LedgerStep
<1>1. /\ UNCHANGED <<loans, nftToLoanIds, nftTotalCollateral, userNftCollateral>>
      /\ flashLoanLockerWhitelist' = flashLoanLockerWhitelist
      /\ UNCHANGED <<nftOwner, bnftOwner, minters, lockings>>
    BY DEF loanVars, ledgerVars, bnftVars
<1>2. BnftTypeOK' /\ BnftBacked' /\ flashLoanLockerWhitelist' \in SUBSET Lockers
    BY <1>1 DEF LedgerInv, LoanTypeOK, BnftTypeOK, BnftBacked, Exists
<1> QED
    BY <1>1, <1>2, ForeignStepKeepsInv

\* The invariant, and what one step may do to the loans.
LEMMA NextKeepsInv == LedgerInv /\ [LoanNext]_loanVars => LedgerInv' /\ LedgerStep
    BY PoolCallKeepsInv, BnftNextKeepsInv, LockerNextKeepsInv, StutterKeepsInv
       DEF LoanNext, ExternalNext

\* LedgerInv is an invariant of the ledger: whatever amounts, indexes and times
\* the pool passes, for any number of users, collections, tokens and loans.
THEOREM LedgerInvariant == LoanSpec => []LedgerInv
    BY InitInv, NextKeepsInv, PTL DEF LoanSpec

\* Type correctness of the ledger and the bNFTs.
THEOREM LoanTypeCorrect == LoanSpec => []LoanTypeOK
    BY LedgerInvariant, PTL DEF LedgerInv

\* The id kept for an NFT is that of its one open loan (createLoan, repayLoan and
\* liquidateLoan keep nftToLoanIds and the loans' states together).
THEOREM LoansAreIndexed == LoanSpec => []CollateralIndexed
    BY LedgerInvariant, PTL DEF LedgerInv

\* The NFT of an open loan, and no other, is in the protocol's custody, and its
\* bNFT is the borrower's, whatever users do with the bNFT contract directly.
THEOREM CustodyHolds == LoanSpec => []CollateralInCustody
    BY LedgerInvariant, PTL DEF LedgerInv

\* The protocol's flash loan lock is taken and released with the auction.
THEOREM LockFollowsAuction == LoanSpec => []LockedWhileInAuction
    BY LedgerInvariant, PTL DEF LedgerInv

\* The bid fields of a loan are those of its state.
THEOREM BidFieldsFollowState == LoanSpec => []BidFieldsMatchState
    BY LedgerInvariant, PTL DEF LedgerInv

\* Every bNFT is backed by its original and has a minter.
THEOREM BnftsAreBacked == LoanSpec => []BnftBacked
    BY LedgerInvariant, PTL DEF LedgerInv

\* Loans follow the life cycle of redeem and liquidate, keep borrower and NFT, and
\* never change once they are repaid or defaulted.
THEOREM LoansFollowLifecycle == LoanSpec => LoanLifecycle
<1>1. LedgerInv /\ [LoanNext]_loanVars => [LifecycleStep]_loanVars
    BY NextKeepsInv DEF LedgerStep
<1> QED
    BY <1>1, LedgerInvariant, PTL DEF LoanSpec, LoanLifecycle

\* auctionLoan never lowers a bid nor forgets who bid first.
THEOREM BidsNeverFall == LoanSpec => BidsOnlyRise
<1>1. LedgerInv /\ [LoanNext]_loanVars => [BiddingStep]_loanVars
    BY NextKeepsInv DEF LedgerStep
<1> QED
    BY <1>1, LedgerInvariant, PTL DEF LoanSpec, BidsOnlyRise

-----------------------------------------------------------------------------
(***************************************************************************)
(* The collateral counters are the numbers of open loans they stand for.   *)
(***************************************************************************)
\* The open loans that nftTotalCollateral and userNftCollateral count.
SecuredBy(a) == {id \in OpenLoans : loans[id].nft[1] = a}
BorrowedBy(u, a) == {id \in SecuredBy(a) : loans[id].borrower = u}

LEMMA CountedAs ==
    CollateralCounted <=>
        \A a \in NftAssets :
            /\ nftTotalCollateral[a] = Cardinality(SecuredBy(a))
            /\ \A u \in Users : userNftCollateral[u][a] = Cardinality(BorrowedBy(u, a))
    BY DEF CollateralCounted, SecuredBy, BorrowedBy

LEMMA CountedNextAs ==
    CollateralCounted' <=>
        \A a \in NftAssets :
            /\ nftTotalCollateral'[a] = Cardinality(SecuredBy(a)')
            /\ \A u \in Users : userNftCollateral'[u][a] = Cardinality(BorrowedBy(u, a)')
    BY DEF CollateralCounted, SecuredBy, BorrowedBy

LEMMA CountsAreFinite ==
    ASSUME LedgerInv
    PROVE  \A a, u : IsFiniteSet(SecuredBy(a)) /\ IsFiniteSet(BorrowedBy(u, a))
<1>1. DOMAIN loans = 1..Len(loans) /\ Len(loans) \in Nat
    BY LenProperties DEF LedgerInv, LoanTypeOK
<1>2. IsFiniteSet(DOMAIN loans)
    BY <1>1, FS_Interval
<1>3. \A a, u : SecuredBy(a) \subseteq DOMAIN loans /\ BorrowedBy(u, a) \subseteq DOMAIN loans
    BY DEF SecuredBy, BorrowedBy, OpenLoans
<1> QED
    BY <1>2, <1>3, FS_Subset

\* No loan opens or closes.
LEMMA SameLoansCounted ==
    ASSUME CollateralCounted, OpenLoans' = OpenLoans,
           \A id \in OpenLoans : /\ loans'[id].nft = loans[id].nft
                                 /\ loans'[id].borrower = loans[id].borrower,
           UNCHANGED <<nftTotalCollateral, userNftCollateral>>
    PROVE  CollateralCounted'
<1>1. ASSUME NEW a, NEW u
      PROVE  SecuredBy(a)' = SecuredBy(a) /\ BorrowedBy(u, a)' = BorrowedBy(u, a)
    BY DEF SecuredBy, BorrowedBy
<1> QED
    BY <1>1, CountedAs, CountedNextAs

\* One loan opens.
LEMMA OpenedLoanCounted ==
    ASSUME LedgerInv, CollateralCounted,
           NEW new, new \notin OpenLoans, OpenLoans' = OpenLoans \cup {new},
           \A id \in OpenLoans : loans'[id] = loans[id],
           NEW user \in Users, loans'[new].borrower = user,
           NEW asset \in NftAssets, loans'[new].nft[1] = asset,
           CountCollateral(user, asset)
    PROVE  CollateralCounted'
<1>1. ASSUME NEW a \in NftAssets
      PROVE  nftTotalCollateral'[a] = Cardinality(SecuredBy(a)')
  <2>1. /\ new \notin SecuredBy(a)
        /\ Cardinality(SecuredBy(a) \cup {new}) = Cardinality(SecuredBy(a)) + 1
    <3>1. IsFiniteSet(SecuredBy(a))
      BY CountsAreFinite
    <3>2. new \notin SecuredBy(a)
      BY DEF SecuredBy
    <3> QED
      BY <3>1, <3>2, FS_AddElement
  <2>2. SecuredBy(a)' = IF a = asset THEN SecuredBy(a) \cup {new} ELSE SecuredBy(a)
      BY DEF SecuredBy
  <2>3. nftTotalCollateral'[a] =
            IF a = asset THEN nftTotalCollateral[a] + 1 ELSE nftTotalCollateral[a]
      BY DEF CountCollateral, LedgerInv, LoanTypeOK
  <2> QED
      BY <2>1, <2>2, <2>3, CountedAs
<1>2. ASSUME NEW a \in NftAssets, NEW u \in Users
      PROVE  userNftCollateral'[u][a] = Cardinality(BorrowedBy(u, a)')
  <2>1. /\ new \notin BorrowedBy(u, a)
        /\ Cardinality(BorrowedBy(u, a) \cup {new}) = Cardinality(BorrowedBy(u, a)) + 1
    <3>1. IsFiniteSet(BorrowedBy(u, a))
      BY CountsAreFinite
    <3>2. new \notin BorrowedBy(u, a)
      BY DEF BorrowedBy, SecuredBy
    <3> QED
      BY <3>1, <3>2, FS_AddElement
  <2>2. BorrowedBy(u, a)' = IF a = asset /\ u = user THEN BorrowedBy(u, a) \cup {new}
                            ELSE BorrowedBy(u, a)
      BY DEF BorrowedBy, SecuredBy
  <2>3. userNftCollateral'[u][a] =
            IF a = asset /\ u = user THEN userNftCollateral[u][a] + 1
            ELSE userNftCollateral[u][a]
      BY DEF CountCollateral, LedgerInv, LoanTypeOK
  <2> QED
      BY <2>1, <2>2, <2>3, CountedAs
<1> QED
    BY <1>1, <1>2, CountedNextAs

\* One loan closes.
LEMMA ClosedLoanCounted ==
    ASSUME LedgerInv, CollateralCounted,
           NEW old \in OpenLoans, OpenLoans' = OpenLoans \ {old},
           \A id \in OpenLoans \ {old} : loans'[id] = loans[id],
           NEW user \in Users, loans[old].borrower = user,
           NEW asset \in NftAssets, loans[old].nft[1] = asset,
           UncountCollateral(user, asset)
    PROVE  CollateralCounted'
<1>1. ASSUME NEW a \in NftAssets
      PROVE  nftTotalCollateral'[a] = Cardinality(SecuredBy(a)')
  <2>1. Cardinality(SecuredBy(a) \ {old}) =
            IF a = asset THEN Cardinality(SecuredBy(a)) - 1 ELSE Cardinality(SecuredBy(a))
    <3>1. IsFiniteSet(SecuredBy(a))
      BY CountsAreFinite
    <3>2. old \in SecuredBy(a) <=> a = asset
      BY DEF SecuredBy
    <3> QED
      BY <3>1, <3>2, FS_RemoveElement
  <2>2. SecuredBy(a)' = SecuredBy(a) \ {old}
      BY DEF SecuredBy
  <2>3. nftTotalCollateral'[a] =
            IF a = asset THEN nftTotalCollateral[a] - 1 ELSE nftTotalCollateral[a]
      BY DEF UncountCollateral, LedgerInv, LoanTypeOK
  <2> QED
      BY <2>1, <2>2, <2>3, CountedAs
<1>2. ASSUME NEW a \in NftAssets, NEW u \in Users
      PROVE  userNftCollateral'[u][a] = Cardinality(BorrowedBy(u, a)')
  <2>1. Cardinality(BorrowedBy(u, a) \ {old}) =
            IF a = asset /\ u = user THEN Cardinality(BorrowedBy(u, a)) - 1
            ELSE Cardinality(BorrowedBy(u, a))
    <3>1. IsFiniteSet(BorrowedBy(u, a))
      BY CountsAreFinite
    <3>2. old \in BorrowedBy(u, a) <=> (a = asset /\ u = user)
      BY DEF BorrowedBy, SecuredBy
    <3> QED
      BY <3>1, <3>2, FS_RemoveElement
  <2>2. BorrowedBy(u, a)' = BorrowedBy(u, a) \ {old}
      BY DEF BorrowedBy, SecuredBy
  <2>3. userNftCollateral'[u][a] =
            IF a = asset /\ u = user THEN userNftCollateral[u][a] - 1
            ELSE userNftCollateral[u][a]
      BY DEF UncountCollateral, LedgerInv, LoanTypeOK
  <2> QED
      BY <2>1, <2>2, <2>3, CountedAs
<1> QED
    BY <1>1, <1>2, CountedNextAs

-----------------------------------------------------------------------------
(***************************************************************************)
(* The calls of the pool.                                                  *)
(***************************************************************************)
\* A loan is overwritten and stays open.
LEMMA StoreKeepsCount ==
    ASSUME LedgerInv, CollateralCounted, NEW id \in DOMAIN loans, Open(id),
           NEW loan, Store(id, loan), loan.state \in {"Active", "Auction"},
           loan.nft = loans[id].nft, loan.borrower = loans[id].borrower,
           UNCHANGED <<nftTotalCollateral, userNftCollateral>>
    PROVE  CollateralCounted'
<1>1. /\ DOMAIN loans' = DOMAIN loans /\ loans'[id] = loan
      /\ \A j \in DOMAIN loans : j # id => loans'[j] = loans[j]
    BY DEF Store
<1>2. OpenLoans' = OpenLoans
    BY <1>1 DEF OpenLoans, Open
<1> QED
    BY <1>1, <1>2, SameLoansCounted DEF OpenLoans

\* A loan is overwritten and closed.
LEMMA CloseKeepsCount ==
    ASSUME LedgerInv, CollateralCounted, NEW id \in DOMAIN loans, Open(id),
           NEW loan, Store(id, loan), loan.state \in {"Repaid", "Defaulted"},
           UncountCollateral(loans[id].borrower, loans[id].nft[1])
    PROVE  CollateralCounted'
<1>1. /\ DOMAIN loans' = DOMAIN loans /\ loans'[id] = loan
      /\ \A j \in DOMAIN loans : j # id => loans'[j] = loans[j]
    BY DEF Store
<1>2. OpenLoans' = OpenLoans \ {id} /\ id \in OpenLoans
    BY <1>1 DEF OpenLoans, Open
<1>3. loans[id].borrower \in Users /\ loans[id].nft[1] \in NftAssets
    BY LoanIds DEF LedgerInv, LoanTypeOK, LoanData, Nfts
<1> QED
    BY <1>1, <1>2, <1>3, ClosedLoanCounted DEF OpenLoans

LEMMA CreateLoanKeepsCount ==
    ASSUME LedgerInv, CollateralCounted, NEW initiator, NEW onBehalfOf \in Users,
           NEW nft \in Nfts, NEW reserve, NEW amount, NEW borrowIndex,
           CreateLoan(initiator, onBehalfOf, nft, reserve, amount, borrowIndex)
    PROVE  CollateralCounted'
<1> DEFINE new == Len(loans) + 1
           loan == NewLoan(onBehalfOf, nft, reserve, RayDiv(amount, borrowIndex))
<1>1. /\ loans' = Append(loans, loan)
      /\ CountCollateral(onBehalfOf, nft[1])
    BY DEF CreateLoan
<1>2. loan.state = "Active" /\ loan.borrower = onBehalfOf /\ loan.nft = nft
    BY DEF NewLoan
<1> HIDE DEF loan
<1>3. /\ new \notin DOMAIN loans
      /\ DOMAIN loans' = DOMAIN loans \cup {new}
      /\ loans'[new] = loan
      /\ \A j \in DOMAIN loans : loans'[j] = loans[j]
    BY <1>1, LenProperties DEF LedgerInv, LoanTypeOK
<1>4. new \notin OpenLoans /\ OpenLoans' = OpenLoans \cup {new}
    BY <1>2, <1>3 DEF OpenLoans, Open
<1>5. nft[1] \in NftAssets
    BY DEF Nfts
<1>6. \A j \in OpenLoans : loans'[j] = loans[j]
    BY <1>3 DEF OpenLoans
<1> HIDE DEF new
<1> QED
    BY <1>1, <1>2, <1>3, <1>4, <1>5, <1>6, OpenedLoanCounted

LEMMA DebtKeepsCount ==
    ASSUME LedgerInv, CollateralCounted, NEW id \in DOMAIN loans,
           loans[id].state = "Active",
           NEW debt, Store(id, WithDebt(loans[id], debt)),
           UNCHANGED <<nftTotalCollateral, userNftCollateral>>
    PROVE  CollateralCounted'
<1>1. loans[id] \in LoanData
    BY LoanIds DEF LedgerInv, LoanTypeOK
<1>2. PICK loan : loan = WithDebt(loans[id], debt)
    OBVIOUS
<1>3. /\ loan.state = "Active" /\ loan.nft = loans[id].nft
      /\ loan.borrower = loans[id].borrower
    BY <1>1, <1>2 DEF WithDebt, LoanData
<1> QED
    BY <1>2, <1>3, StoreKeepsCount DEF Open

LEMMA AuctionLoanKeepsCount ==
    ASSUME LedgerInv, CollateralCounted, NEW id, NEW onBehalfOf, NEW bidPrice,
           NEW borrowAmount, NEW time,
           AuctionLoan(id, onBehalfOf, bidPrice, borrowAmount, time)
    PROVE  CollateralCounted'
<1>1. /\ id \in DOMAIN loans /\ Open(id)
      /\ UNCHANGED <<nftTotalCollateral, userNftCollateral>>
    BY DEF AuctionLoan, FirstBid, HigherBid, IsLoan, Open
<1>2. loans[id] \in LoanData
    BY <1>1, LoanIds DEF LedgerInv, LoanTypeOK
<1>3. PICK loan : /\ Store(id, loan) /\ loan.state = "Auction"
                  /\ loan.nft = loans[id].nft /\ loan.borrower = loans[id].borrower
  <2>1. CASE FirstBid(id, onBehalfOf, bidPrice, borrowAmount, time)
    <3> DEFINE new == PutOnSale(WithBid(loans[id], onBehalfOf, bidPrice, borrowAmount),
                                onBehalfOf, time)
    <3>1. /\ new.state = "Auction" /\ new.nft = loans[id].nft
          /\ new.borrower = loans[id].borrower
      BY <1>2 DEF PutOnSale, WithBid, LoanData
    <3>2. Store(id, new)
      BY <2>1 DEF FirstBid
    <3> QED
      BY <3>1, <3>2
  <2>2. CASE HigherBid(id, onBehalfOf, bidPrice, borrowAmount)
    <3> DEFINE new == WithBid(loans[id], onBehalfOf, bidPrice, borrowAmount)
    <3>1. /\ new.state = "Auction" /\ new.nft = loans[id].nft
          /\ new.borrower = loans[id].borrower
      BY <1>2, <2>2 DEF WithBid, LoanData, HigherBid
    <3>2. Store(id, new)
      BY <2>2 DEF HigherBid
    <3> QED
      BY <3>1, <3>2
  <2> QED
      BY <2>1, <2>2 DEF AuctionLoan
<1> QED
    BY <1>1, <1>3, StoreKeepsCount

LEMMA RedeemLoanKeepsCount ==
    ASSUME LedgerInv, CollateralCounted, NEW id, NEW amount, NEW borrowIndex,
           RedeemLoan(id, amount, borrowIndex)
    PROVE  CollateralCounted'
<1> DEFINE loan == WithDebt(TakenOffSale(loans[id]),
                            loans[id].scaledAmount - RayDiv(amount, borrowIndex))
<1>1. /\ id \in DOMAIN loans /\ Open(id) /\ Store(id, loan)
      /\ UNCHANGED <<nftTotalCollateral, userNftCollateral>>
    BY DEF RedeemLoan, IsLoan, Open
<1>2. loans[id] \in LoanData
    BY <1>1, LoanIds DEF LedgerInv, LoanTypeOK
<1>3. /\ loan.state = "Active" /\ loan.nft = loans[id].nft
      /\ loan.borrower = loans[id].borrower
    BY <1>2 DEF WithDebt, TakenOffSale, LoanData
<1> HIDE DEF loan
<1> QED
    BY <1>1, <1>3, StoreKeepsCount

LEMMA RepayLoanKeepsCount ==
    ASSUME LedgerInv, CollateralCounted, NEW id, RepayLoan(id)
    PROVE  CollateralCounted'
<1>1. /\ id \in DOMAIN loans /\ Open(id) /\ Store(id, Repaid(loans[id]))
      /\ UncountCollateral(loans[id].borrower, loans[id].nft[1])
    BY DEF RepayLoan, IsLoan, Open
<1>2. Repaid(loans[id]).state = "Repaid"
    BY <1>1, LoanIds DEF LedgerInv, LoanTypeOK, Repaid, LoanData
<1> QED
    BY <1>1, <1>2, CloseKeepsCount

LEMMA LiquidateLoanKeepsCount ==
    ASSUME LedgerInv, CollateralCounted, NEW id, NEW borrowAmount,
           LiquidateLoan(id, borrowAmount)
    PROVE  CollateralCounted'
<1>1. /\ id \in DOMAIN loans /\ Open(id) /\ Store(id, Defaulted(loans[id], borrowAmount))
      /\ UncountCollateral(loans[id].borrower, loans[id].nft[1])
    BY DEF LiquidateLoan, IsLoan, Open
<1>2. Defaulted(loans[id], borrowAmount).state = "Defaulted"
    BY <1>1, LoanIds DEF LedgerInv, LoanTypeOK, Defaulted, LoanData
<1> QED
    BY <1>1, <1>2, CloseKeepsCount

\* Users acting on bNFTs, lockers, and steps that leave the ledger alone.
LEMMA QuietKeepsCount ==
    ASSUME CollateralCounted,
           UNCHANGED <<loans, nftTotalCollateral, userNftCollateral>>
    PROVE  CollateralCounted'
    BY DEF CollateralCounted, OpenLoans, Open

LEMMA NextKeepsCount ==
    LedgerInv /\ CollateralCounted /\ [LoanNext]_loanVars => CollateralCounted'
<1> SUFFICES ASSUME LedgerInv, CollateralCounted, [LoanNext]_loanVars
             PROVE  CollateralCounted'
    OBVIOUS
<1>1. CASE PoolCallNext
  <2> USE DEF PoolCallNext
  <2>1. CASE \E i \in Users, u \in Users, nft \in Nfts, r \in Reserves,
                a \in Amounts, x \in BorrowIndexes : CreateLoan(i, u, nft, r, a, x)
      BY <2>1, CreateLoanKeepsCount
  <2>2. CASE \E id \in DOMAIN loans, x \in BorrowIndexes, a \in Amounts : IncreaseLoan(id, a, x)
      BY <2>2, DebtKeepsCount DEF IncreaseLoan
  <2>3. CASE \E id \in DOMAIN loans, x \in BorrowIndexes, a \in Amounts : DecreaseLoan(id, a, x)
      BY <2>3, DebtKeepsCount DEF DecreaseLoan
  <2>4. CASE \E id \in DOMAIN loans, x \in BorrowIndexes, a \in Amounts : RedeemLoan(id, a, x)
      BY <2>4, RedeemLoanKeepsCount
  <2>5. CASE \E id \in DOMAIN loans : RepayLoan(id)
      BY <2>5, RepayLoanKeepsCount
  <2>6. CASE \E id \in DOMAIN loans, x \in BorrowIndexes,
                u \in Users, p \in Amounts, t \in Timestamps :
                AuctionLoan(id, u, p, RayMul(loans[id].scaledAmount, x), t)
      BY <2>6, AuctionLoanKeepsCount
  <2>7. CASE \E id \in DOMAIN loans, x \in BorrowIndexes :
                LiquidateLoan(id, RayMul(loans[id].scaledAmount, x))
      BY <2>7, LiquidateLoanKeepsCount
  <2> QED
      BY <1>1, <2>1, <2>2, <2>3, <2>4, <2>5, <2>6, <2>7
<1>2. CASE ExternalNext \/ UNCHANGED loanVars
  <2>1. UNCHANGED <<loans, nftTotalCollateral, userNftCollateral>>
      BY <1>2 DEF ExternalNext, LockerNext, ApproveFlashLoanLocker, SetFlashLoanLocking,
         PurgeFlashLoanLocking, ledgerVars, loanVars
  <2> QED
      BY <2>1, QuietKeepsCount
<1> QED
    BY <1>1, <1>2 DEF LoanNext

LEMMA InitCount == LoanInit => CollateralCounted
<1> SUFFICES ASSUME LoanInit
             PROVE  CollateralCounted
    OBVIOUS
<1>1. \A a, u : SecuredBy(a) = {} /\ BorrowedBy(u, a) = {}
    BY DEF LoanInit, SecuredBy, BorrowedBy, OpenLoans
<1> QED
    BY <1>1, CountedAs, FS_EmptySet DEF LoanInit

\* nftTotalCollateral and userNftCollateral count exactly the open loans, so that
\* the subtractions of repayLoan and liquidateLoan never underflow.
THEOREM CountersAgree == LoanSpec => []CollateralCounted
    BY InitCount, NextKeepsCount, LedgerInvariant, PTL DEF LoanSpec

-----------------------------------------------------------------------------
(***************************************************************************)
(* The ledger and the bNFTs together implement CollateralPromise.          *)
(***************************************************************************)
\* What the refinement mapping sees of an NFT.
NftView(nft) ==
    IF minters[nft] # LOAN
    THEN /\ PhaseOf(nft) = "Free" /\ OwnerOf(nft) \in Users /\ LeaderOf(nft) = NoUser
    ELSE LET id == nftToLoanIds[nft] IN
         /\ id \in DOMAIN loans /\ loans[id].nft = nft /\ Open(id)
         /\ OwnerOf(nft) = loans[id].borrower /\ OwnerOf(nft) \in Users
         /\ IF loans[id].state = "Auction"
            THEN /\ PhaseOf(nft) = "OnSale" /\ LeaderOf(nft) = loans[id].bidderAddress
                 /\ LeaderOf(nft) \in Users
            ELSE PhaseOf(nft) = "Pledged" /\ LeaderOf(nft) = NoUser

AllViews == \A nft \in Nfts : NftView(nft)

LEMMA Views == LedgerInv => AllViews
<1> SUFFICES ASSUME LedgerInv, NEW nft \in Nfts
             PROVE  NftView(nft)
    BY DEF AllViews
<1>1. CASE minters[nft] # LOAN
  <2>1. OwnerOf(nft) \in Users
      BY <1>1 DEF LedgerInv, LoanTypeOK, BnftTypeOK, BnftBacked, OwnerOf
  <2>2. PhaseOf(nft) = "Free" /\ LeaderOf(nft) = NoUser
      BY <1>1 DEF PhaseOf, LeaderOf
  <2> QED
      BY <1>1, <2>1, <2>2 DEF NftView
<1>2. CASE minters[nft] = LOAN
  <2> DEFINE id == nftToLoanIds[nft]
  <2>1. id \in DOMAIN loans /\ loans[id].nft = nft /\ Open(id)
      BY <1>2 DEF LedgerInv, CollateralInCustody, CollateralIndexed
  <2>2. loans[id] \in LoanData
      BY <2>1, LoanIds DEF LedgerInv, LoanTypeOK
  <2>3. OwnerOf(nft) = loans[id].borrower
      BY <1>2, <2>1 DEF LedgerInv, CollateralInCustody, LoanTypeOK, OwnerOf
  <2>4. loans[id].borrower \in Users
      BY <2>2 DEF LoanData
  <2>5. CASE loans[id].state = "Auction"
    <3>1. loans[id].bidderAddress \in Users
      BY <2>1, <2>2, <2>5 DEF LedgerInv, BidFieldsMatchState, BidFieldsMatch, OpenLoans, LoanData
    <3>2. PhaseOf(nft) = "OnSale" /\ LeaderOf(nft) = loans[id].bidderAddress
      BY <1>2, <2>5 DEF PhaseOf, LeaderOf
    <3> QED
      BY <1>2, <2>1, <2>3, <2>4, <2>5, <3>1, <3>2 DEF NftView
  <2>6. CASE loans[id].state # "Auction"
    <3>1. PhaseOf(nft) = "Pledged" /\ LeaderOf(nft) = NoUser
      BY <1>2, <2>6 DEF PhaseOf, LeaderOf
    <3> QED
      BY <1>2, <2>1, <2>3, <2>4, <2>6, <3>1 DEF NftView
  <2> QED
      BY <2>5, <2>6
<1> QED
    BY <1>1, <1>2

LEMMA ViewsNext == LedgerInv' => AllViews'
    BY Views, PTL

\* An NFT whose custody and loan a step leaves alone looks the same afterwards.
LEMMA ViewStays ==
    ASSUME LedgerInv, LedgerInv', NEW nft \in Nfts,
           minters'[nft] = minters[nft], nftOwner'[nft] = nftOwner[nft],
           bnftOwner'[nft] = bnftOwner[nft], nftToLoanIds'[nft] = nftToLoanIds[nft],
           nftToLoanIds[nft] \in DOMAIN loans =>
              loans'[nftToLoanIds[nft]] = loans[nftToLoanIds[nft]]
    PROVE  /\ PhaseOf(nft)' = PhaseOf(nft)
           /\ OwnerOf(nft)' = OwnerOf(nft)
           /\ LeaderOf(nft)' = LeaderOf(nft)
<1>1. minters[nft] = LOAN => nftToLoanIds[nft] \in DOMAIN loans
    BY Views DEF AllViews, NftView
<1> QED
    BY <1>1 DEF PhaseOf, OwnerOf, LeaderOf

\* One NFT changes its view: a step of the promise.
LEMMA OneViewChanges ==
    ASSUME NEW nft \in Nfts, NEW ph, NEW o, NEW l,
           PhaseOf(nft)' = ph, OwnerOf(nft)' = o, LeaderOf(nft)' = l,
           \A other \in Nfts : other # nft =>
              /\ PhaseOf(other)' = PhaseOf(other)
              /\ OwnerOf(other)' = OwnerOf(other)
              /\ LeaderOf(other)' = LeaderOf(other)
    PROVE  Promise!Become(nft, ph, o, l)
    BY DEF Promise!Become

-----------------------------------------------------------------------------
(***************************************************************************)
(* A loan is overwritten: Bid, Reclaim, Release, Award or nothing at all.  *)
(***************************************************************************)
LEMMA StoreView ==
    ASSUME LedgerInv, LedgerInv', NEW id \in DOMAIN loans, Open(id),
           NEW loan, Store(id, loan),
           \A nft \in Nfts : nft # loans[id].nft =>
              /\ minters'[nft] = minters[nft] /\ nftOwner'[nft] = nftOwner[nft]
              /\ bnftOwner'[nft] = bnftOwner[nft]
              /\ nftToLoanIds'[nft] = nftToLoanIds[nft]
    PROVE  /\ loans[id].nft \in Nfts /\ nftToLoanIds[loans[id].nft] = id
           /\ minters[loans[id].nft] = LOAN
           /\ loans'[id] = loan
           /\ \A nft \in Nfts : nft # loans[id].nft =>
                /\ PhaseOf(nft)' = PhaseOf(nft)
                /\ OwnerOf(nft)' = OwnerOf(nft)
                /\ LeaderOf(nft)' = LeaderOf(nft)
<1>1. loans[id].nft \in Nfts /\ nftToLoanIds[loans[id].nft] = id /\ id # 0
    BY LoanIds DEF LedgerInv, LoanTypeOK, LoanData, CollateralIndexed
<1>2. minters[loans[id].nft] = LOAN
    BY <1>1 DEF LedgerInv, CollateralInCustody
<1>3. loans'[id] = loan /\ \A j \in DOMAIN loans : j # id => loans'[j] = loans[j]
    BY DEF Store
<1>4. ASSUME NEW nft \in Nfts, nft # loans[id].nft
      PROVE  nftToLoanIds[nft] # id
    BY <1>1, <1>4 DEF LedgerInv, CollateralIndexed
<1> QED
    BY <1>1, <1>2, <1>3, <1>4, ViewStays

\* The loan stays open, so its NFT is pledged or on sale.
LEMMA OverwriteView ==
    ASSUME LedgerInv, LedgerInv', NEW id \in DOMAIN loans, Open(id),
           NEW nft, nft = loans[id].nft,
           NEW loan, Store(id, loan), loan.borrower = loans[id].borrower,
           UNCHANGED <<nftToLoanIds, nftOwner, bnftOwner, minters>>
    PROVE  /\ nft \in Nfts
           /\ loans[id].state = "Active" => PhaseOf(nft) = "Pledged"
           /\ loans[id].state = "Auction" => PhaseOf(nft) = "OnSale"
           /\ IF loan.state = "Auction"
              THEN /\ loan.bidderAddress \in Users
                   /\ Promise!Become(nft, "OnSale", OwnerOf(nft),
                                     loan.bidderAddress)
              ELSE Promise!Become(nft, "Pledged", OwnerOf(nft), NoUser)
<1>1. /\ nft \in Nfts /\ nftToLoanIds[nft] = id /\ minters[nft] = LOAN
      /\ loans'[id] = loan
      /\ \A other \in Nfts : other # nft =>
            /\ PhaseOf(other)' = PhaseOf(other)
            /\ OwnerOf(other)' = OwnerOf(other)
            /\ LeaderOf(other)' = LeaderOf(other)
    BY StoreView
<1>2. minters'[nft] = LOAN /\ nftToLoanIds'[nft] = id
    BY <1>1
<1>3. NftView(nft) /\ NftView(nft)'
    BY <1>1, Views, ViewsNext DEF AllViews
<1>4. OwnerOf(nft)' = OwnerOf(nft)
    BY <1>1, <1>2, <1>3 DEF NftView
<1>5. /\ loan.state = "Auction" => /\ PhaseOf(nft)' = "OnSale"
                                   /\ LeaderOf(nft)' = loan.bidderAddress
                                   /\ loan.bidderAddress \in Users
      /\ loan.state # "Auction" => PhaseOf(nft)' = "Pledged" /\ LeaderOf(nft)' = NoUser
    BY <1>1, <1>2, <1>3 DEF NftView
<1>6. /\ loans[id].state = "Active" => PhaseOf(nft) = "Pledged"
      /\ loans[id].state = "Auction" => PhaseOf(nft) = "OnSale"
    BY <1>1, <1>3 DEF NftView
<1> QED
    BY <1>1, <1>4, <1>5, <1>6, OneViewChanges

\* A closed loan's NFT is free and belongs to whoever received it.
LEMMA CloseView ==
    ASSUME LedgerInv, LedgerInv', NEW id \in DOMAIN loans, Open(id),
           NEW nft, nft = loans[id].nft,
           NEW loan, Store(id, loan), NEW receiver \in Users,
           Unwrap(LOAN, receiver, nft),
           nftToLoanIds' = [nftToLoanIds EXCEPT ![nft] = 0]
    PROVE  /\ nft \in Nfts /\ NftView(nft)
           /\ minters[nft] = LOAN
           /\ nftToLoanIds[nft] = id
           /\ Promise!Become(nft, "Free", receiver, NoUser)
<1>1. \A other \in Nfts : other # nft =>
          /\ minters'[other] = minters[other] /\ nftOwner'[other] = nftOwner[other]
          /\ bnftOwner'[other] = bnftOwner[other]
          /\ nftToLoanIds'[other] = nftToLoanIds[other]
    BY DEF Unwrap, LedgerInv, LoanTypeOK, BnftTypeOK
<1>2. /\ nft \in Nfts /\ nftToLoanIds[nft] = id /\ minters[nft] = LOAN
      /\ \A other \in Nfts : other # nft =>
            /\ PhaseOf(other)' = PhaseOf(other)
            /\ OwnerOf(other)' = OwnerOf(other)
            /\ LeaderOf(other)' = LeaderOf(other)
    BY <1>1, StoreView
<1>3. minters'[nft] = NoUser /\ nftOwner'[nft] = receiver
    BY <1>2 DEF Unwrap, LedgerInv, LoanTypeOK, BnftTypeOK
<1>4. PhaseOf(nft)' = "Free" /\ OwnerOf(nft)' = receiver /\ LeaderOf(nft)' = NoUser
    BY <1>3 DEF PhaseOf, OwnerOf, LeaderOf
<1>5. NftView(nft)
    BY <1>2, Views DEF AllViews
<1> QED
    BY <1>2, <1>4, <1>5, OneViewChanges

LEMMA PledgeStep ==
    ASSUME LedgerInv, LedgerInv', NEW initiator, NEW onBehalfOf \in Users, NEW nft \in Nfts,
           NEW reserve, NEW amount, NEW borrowIndex,
           CreateLoan(initiator, onBehalfOf, nft, reserve, amount, borrowIndex)
    PROVE  Promise!Next
<1>1. /\ nftToLoanIds[nft] = 0 /\ minters[nft] # LOAN
      /\ minters'[nft] = LOAN /\ bnftOwner'[nft] = onBehalfOf
    BY DEF CreateLoan, Wrap, LedgerInv, LoanTypeOK, BnftTypeOK, CollateralInCustody
<1>2. ASSUME NEW other \in Nfts, other # nft
      PROVE  /\ PhaseOf(other)' = PhaseOf(other)
             /\ OwnerOf(other)' = OwnerOf(other)
             /\ LeaderOf(other)' = LeaderOf(other)
  <2>1. /\ minters'[other] = minters[other] /\ nftOwner'[other] = nftOwner[other]
        /\ bnftOwner'[other] = bnftOwner[other]
        /\ nftToLoanIds'[other] = nftToLoanIds[other]
    BY <1>2 DEF CreateLoan, Wrap, LedgerInv, LoanTypeOK, BnftTypeOK
  <2>2. \A j \in DOMAIN loans : loans'[j] = loans[j]
    BY LenProperties DEF CreateLoan, LedgerInv, LoanTypeOK
  <2> QED
    BY <2>1, <2>2, ViewStays
<1>3. NftView(nft) /\ NftView(nft)'
    BY Views, ViewsNext DEF AllViews
<1>4. OwnerOf(nft)' = onBehalfOf
    BY <1>1 DEF OwnerOf
<1>5. PhaseOf(nft)' = "Pledged" /\ LeaderOf(nft)' = NoUser
  <2> DEFINE new == Len(loans) + 1
  <2>1. nftToLoanIds'[nft] = new
    BY DEF CreateLoan, LedgerInv, LoanTypeOK
  <2>2. loans'[new].state = "Active"
    BY LenProperties DEF CreateLoan, NewLoan, LedgerInv, LoanTypeOK
  <2> QED
    BY <1>1, <1>3, <2>1, <2>2 DEF NftView
<1>6. Promise!Become(nft, "Pledged", onBehalfOf, NoUser)
    BY <1>2, <1>4, <1>5, OneViewChanges
<1>7. PhaseOf(nft) = "Free"
    BY <1>1, <1>3 DEF NftView
<1> QED
    BY <1>6, <1>7 DEF Promise!Next, Promise!Pledge

LEMMA SameViews ==
    ASSUME \A nft \in Nfts : /\ PhaseOf(nft)' = PhaseOf(nft)
                             /\ OwnerOf(nft)' = OwnerOf(nft)
                             /\ LeaderOf(nft)' = LeaderOf(nft)
    PROVE  UNCHANGED Promise!vars
    BY DEF Promise!vars

\* A change of the debt alone is invisible.
LEMMA DebtStep ==
    ASSUME LedgerInv, LedgerInv', NEW id \in DOMAIN loans, loans[id].state = "Active",
           NEW amount, Store(id, WithDebt(loans[id], amount)),
           UNCHANGED <<nftToLoanIds, nftOwner, bnftOwner, minters>>
    PROVE  UNCHANGED Promise!vars
<1> DEFINE loan == WithDebt(loans[id], amount)
<1>1. loans[id] \in LoanData
    BY LoanIds DEF LedgerInv, LoanTypeOK
<1>2. loan.state = "Active" /\ loan.borrower = loans[id].borrower
    BY <1>1 DEF WithDebt, LoanData
<1> HIDE DEF loan
<1>3. PICK nft : nft = loans[id].nft
    OBVIOUS
<1>4. /\ nft \in Nfts /\ PhaseOf(nft) = "Pledged"
      /\ Promise!Become(nft, "Pledged", OwnerOf(nft), NoUser)
    BY <1>2, <1>3, OverwriteView DEF Open, loan
<1>5. NftView(nft)
    BY <1>4, Views DEF AllViews
<1>6. LeaderOf(nft) = NoUser
    BY <1>4, <1>5 DEF NftView
<1> QED
    BY <1>4, <1>6 DEF Promise!Become, Promise!vars

LEMMA BidStep ==
    ASSUME LedgerInv, LedgerInv', NEW id, NEW onBehalfOf, NEW bidPrice, NEW borrowAmount, NEW time,
           AuctionLoan(id, onBehalfOf, bidPrice, borrowAmount, time)
    PROVE  Promise!Next
<1>1. /\ id \in DOMAIN loans /\ Open(id)
      /\ loans[id].state \in {"Active", "Auction"}
      /\ UNCHANGED <<nftToLoanIds, nftOwner, bnftOwner, minters>>
    BY DEF AuctionLoan, FirstBid, HigherBid, IsLoan, Open, bnftVars
<1>2. loans[id] \in LoanData
    BY <1>1, LoanIds DEF LedgerInv, LoanTypeOK
<1>3. PICK loan : /\ Store(id, loan) /\ loan.state = "Auction"
                  /\ loan.borrower = loans[id].borrower
  <2>1. CASE FirstBid(id, onBehalfOf, bidPrice, borrowAmount, time)
    <3> DEFINE new == PutOnSale(WithBid(loans[id], onBehalfOf, bidPrice, borrowAmount),
                                onBehalfOf, time)
    <3>1. new.state = "Auction" /\ new.borrower = loans[id].borrower
      BY <1>2 DEF PutOnSale, WithBid, LoanData
    <3>2. Store(id, new)
      BY <2>1 DEF FirstBid
    <3> QED
      BY <3>1, <3>2
  <2>2. CASE HigherBid(id, onBehalfOf, bidPrice, borrowAmount)
    <3> DEFINE new == WithBid(loans[id], onBehalfOf, bidPrice, borrowAmount)
    <3>1. new.state = "Auction" /\ new.borrower = loans[id].borrower
      BY <1>2, <2>2 DEF WithBid, LoanData, HigherBid
    <3>2. Store(id, new)
      BY <2>2 DEF HigherBid
    <3> QED
      BY <3>1, <3>2
  <2> QED
      BY <2>1, <2>2 DEF AuctionLoan
<1>4. PICK nft : nft = loans[id].nft
    OBVIOUS
<1>5. /\ nft \in Nfts /\ PhaseOf(nft) # "Free" /\ loan.bidderAddress \in Users
      /\ Promise!Become(nft, "OnSale", OwnerOf(nft), loan.bidderAddress)
    BY <1>1, <1>3, <1>4, OverwriteView
<1> QED
    BY <1>5 DEF Promise!Next, Promise!Bid

LEMMA ReclaimStep ==
    ASSUME LedgerInv, LedgerInv', NEW id, NEW amount, NEW borrowIndex,
           RedeemLoan(id, amount, borrowIndex)
    PROVE  Promise!Next
<1> DEFINE loan == WithDebt(TakenOffSale(loans[id]),
                            loans[id].scaledAmount - RayDiv(amount, borrowIndex))
<1>1. /\ id \in DOMAIN loans /\ Open(id) /\ loans[id].state = "Auction"
      /\ Store(id, loan)
      /\ UNCHANGED <<nftToLoanIds, nftOwner, bnftOwner, minters>>
    BY DEF RedeemLoan, IsLoan, Open
<1>2. loans[id] \in LoanData
    BY <1>1, LoanIds DEF LedgerInv, LoanTypeOK
<1>3. loan.state = "Active" /\ loan.borrower = loans[id].borrower
    BY <1>2 DEF WithDebt, TakenOffSale, LoanData
<1> HIDE DEF loan
<1>4. PICK nft : nft = loans[id].nft
    OBVIOUS
<1>5. /\ nft \in Nfts /\ PhaseOf(nft) = "OnSale"
      /\ Promise!Become(nft, "Pledged", OwnerOf(nft), NoUser)
    BY <1>1, <1>3, <1>4, OverwriteView
<1> QED
    BY <1>5 DEF Promise!Next, Promise!Reclaim

LEMMA ReleaseStep ==
    ASSUME LedgerInv, LedgerInv', NEW id, RepayLoan(id)
    PROVE  Promise!Next
<1>1. PICK nft : nft = loans[id].nft
    OBVIOUS
<1>2. /\ id \in DOMAIN loans /\ Open(id) /\ loans[id].state = "Active"
      /\ Store(id, Repaid(loans[id]))
      /\ nftToLoanIds' = [nftToLoanIds EXCEPT ![nft] = 0]
      /\ Unwrap(LOAN, loans[id].borrower, nft)
    BY <1>1 DEF RepayLoan, IsLoan, Open
<1>3. loans[id].borrower \in Users
    BY <1>2, LoanIds DEF LedgerInv, LoanTypeOK, LoanData
<1>4. /\ nft \in Nfts /\ NftView(nft) /\ minters[nft] = LOAN
      /\ nftToLoanIds[nft] = id
      /\ Promise!Become(nft, "Free", loans[id].borrower, NoUser)
    BY <1>1, <1>2, <1>3, CloseView
<1>5. PhaseOf(nft) = "Pledged" /\ OwnerOf(nft) = loans[id].borrower
    BY <1>2, <1>4 DEF NftView
<1> QED
    BY <1>4, <1>5 DEF Promise!Next, Promise!Release

LEMMA AwardStep ==
    ASSUME LedgerInv, LedgerInv', NEW id, NEW borrowAmount, LiquidateLoan(id, borrowAmount)
    PROVE  Promise!Next
<1>1. PICK nft : nft = loans[id].nft
    OBVIOUS
<1>2. /\ id \in DOMAIN loans /\ Open(id) /\ loans[id].state = "Auction"
      /\ Store(id, Defaulted(loans[id], borrowAmount))
      /\ nftToLoanIds' = [nftToLoanIds EXCEPT ![nft] = 0]
      /\ Unwrap(LOAN, loans[id].bidderAddress, nft)
    BY <1>1 DEF LiquidateLoan, IsLoan, Open
<1>3. loans[id].bidderAddress \in Users
    BY <1>2, LoanIds DEF LedgerInv, LoanTypeOK, LoanData, BidFieldsMatchState, BidFieldsMatch,
       OpenLoans
<1>4. /\ nft \in Nfts /\ NftView(nft) /\ minters[nft] = LOAN
      /\ nftToLoanIds[nft] = id
      /\ Promise!Become(nft, "Free", loans[id].bidderAddress, NoUser)
    BY <1>1, <1>2, <1>3, CloseView
<1>5. PhaseOf(nft) = "OnSale" /\ LeaderOf(nft) = loans[id].bidderAddress
    BY <1>2, <1>4 DEF NftView
<1> QED
    BY <1>4, <1>5 DEF Promise!Next, Promise!Award

LEMMA TradeStep ==
    ASSUME LedgerInv, LedgerInv', BnftNext, UNCHANGED ledgerVars
    PROVE  Promise!Next
<1>1. PICK u \in Users, nft \in Nfts :
          \/ \E v \in Users : TransferNft(u, v, nft) \/ DirectMint(u, v, nft)
          \/ DirectBurn(u, nft)
    BY DEF BnftNext
<1>2. BnftTypeOK
    BY DEF LedgerInv, LoanTypeOK
<1>3. minters[nft] # LOAN
    BY <1>1, CustodyFacts DEF TransferNft, DirectMint, DirectBurn, Wrap, Unwrap, Exists
<1>4. minters'[nft] # LOAN
    BY <1>1, <1>2, <1>3 DEF BnftTypeOK, TransferNft, DirectMint, DirectBurn, Wrap, Unwrap
<1>5. \A other \in Nfts : other # nft =>
          /\ minters'[other] = minters[other]
          /\ nftOwner'[other] = nftOwner[other]
          /\ bnftOwner'[other] = bnftOwner[other]
    BY <1>1, <1>2 DEF BnftTypeOK, TransferNft, DirectMint, DirectBurn, Wrap, Unwrap
<1>6. NftView(nft) /\ NftView(nft)'
    BY Views, ViewsNext DEF AllViews
<1>7. /\ PhaseOf(nft) = "Free"
      /\ PhaseOf(nft)' = "Free" /\ OwnerOf(nft)' \in Users /\ LeaderOf(nft)' = NoUser
    BY <1>3, <1>4, <1>6 DEF NftView
<1>8. Promise!Become(nft, "Free", OwnerOf(nft)', NoUser)
    BY <1>5, <1>7, ViewStays, OneViewChanges DEF ledgerVars
<1> QED
    BY <1>7, <1>8 DEF Promise!Next, Promise!Trade

\* Locks, and a step that changes nothing.
LEMMA QuietStep ==
    ASSUME LedgerInv, LedgerInv',
           UNCHANGED <<loans, nftToLoanIds, nftOwner, bnftOwner, minters>>
    PROVE  UNCHANGED Promise!vars
    BY ViewStays, SameViews

-----------------------------------------------------------------------------
LEMMA EveryStepKept ==
    LedgerInv /\ LedgerInv' /\ [LoanNext]_loanVars => [Promise!Next]_(Promise!vars)
<1> SUFFICES ASSUME LedgerInv, LedgerInv', [LoanNext]_loanVars
             PROVE  Promise!Next \/ UNCHANGED Promise!vars
    OBVIOUS
<1>1. CASE PoolCallNext
  <2> USE DEF PoolCallNext
  <2>1. CASE \E i \in Users, u \in Users, nft \in Nfts, r \in Reserves,
                a \in Amounts, x \in BorrowIndexes : CreateLoan(i, u, nft, r, a, x)
      BY <2>1, PledgeStep
  <2>2. CASE \E id \in DOMAIN loans, x \in BorrowIndexes, a \in Amounts : IncreaseLoan(id, a, x)
      BY <2>2, DebtStep DEF IncreaseLoan, bnftVars
  <2>3. CASE \E id \in DOMAIN loans, x \in BorrowIndexes, a \in Amounts : DecreaseLoan(id, a, x)
      BY <2>3, DebtStep DEF DecreaseLoan, bnftVars
  <2>4. CASE \E id \in DOMAIN loans, x \in BorrowIndexes, a \in Amounts : RedeemLoan(id, a, x)
      BY <2>4, ReclaimStep
  <2>5. CASE \E id \in DOMAIN loans : RepayLoan(id)
      BY <2>5, ReleaseStep
  <2>6. CASE \E id \in DOMAIN loans, x \in BorrowIndexes,
                u \in Users, p \in Amounts, t \in Timestamps :
                AuctionLoan(id, u, p, RayMul(loans[id].scaledAmount, x), t)
      BY <2>6, BidStep
  <2>7. CASE \E id \in DOMAIN loans, x \in BorrowIndexes :
                LiquidateLoan(id, RayMul(loans[id].scaledAmount, x))
      BY <2>7, AwardStep
  <2> QED
      BY <1>1, <2>1, <2>2, <2>3, <2>4, <2>5, <2>6, <2>7
<1>2. CASE BnftNext /\ UNCHANGED ledgerVars
    BY <1>2, TradeStep
<1>3. CASE LockerNext
  <2>1. UNCHANGED <<loans, nftToLoanIds, nftOwner, bnftOwner, minters>>
      BY <1>3 DEF LockerNext, ApproveFlashLoanLocker, SetFlashLoanLocking,
         PurgeFlashLoanLocking, ledgerVars, bnftVars
  <2> QED
      BY <2>1, QuietStep
<1>4. CASE UNCHANGED loanVars
    BY <1>4, QuietStep DEF loanVars, ledgerVars, bnftVars
<1> QED
    BY <1>1, <1>2, <1>3, <1>4 DEF LoanNext, ExternalNext

LEMMA InitKept == LoanInit => Promise!Init
    BY DEF LoanInit, BnftInit, Promise!Init, PhaseOf, OwnerOf, LeaderOf

\* Whatever the users, the administrators and the pool do, an NFT in the protocol
\* goes back to its borrower or, through an auction, to the leading bidder.
THEOREM LedgerKeepsPromise == LoanSpec => KeepsPromise
    BY InitKept, EveryStepKept, LedgerInvariant, PTL DEF LoanSpec, KeepsPromise, Promise!Spec
=============================================================================
