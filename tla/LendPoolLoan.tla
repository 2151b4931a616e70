---------------------------- MODULE LendPoolLoan ----------------------------
(***************************************************************************)
(* The loan ledger (protocol/LendPoolLoan.sol): which NFT secures which    *)
(* loan, the life cycle of a loan and the flash loan lock of an auctioned  *)
(* NFT.  Each action is one call made by LendPool, together with the hand- *)
(* over of the NFT that LendPool performs around it in the same            *)
(* transaction.  The ledger believes what LendPool tells it - amounts,     *)
(* indexes, prices, the block time - so they are arbitrary members of      *)
(* Amounts, BorrowIndexes and Timestamps here; module LendPool computes    *)
(* them and re-uses these actions.                                         *)
(***************************************************************************)
EXTENDS LenderMath, BNFT, Sequences

CONSTANTS
    Reserves,       \* reserve assets
    Amounts,        \* debt amounts and bid prices, in the reserve's unit
    BorrowIndexes,  \* variable borrow indexes of a reserve
    Timestamps,     \* block times
    PurgeTargets,   \* lockers an administrator purges
    MaxLoans,       \* bound on the number of loans ever created
    MaxScaledAmount \* bound on the scaled debt of a loan in PoolCallNext

ASSUME LedgerAssumption ==
    /\ Amounts \subseteq Nat \ {0}
    /\ BorrowIndexes \subseteq {i \in Nat : i >= RAY}
    /\ Timestamps \subseteq Nat \ {0}
    /\ PurgeTargets \subseteq Lockers
    /\ MaxLoans \in Nat /\ MaxScaledAmount \in Nat

VARIABLES
    loans,                      \* _loans, whose length is _loanIdTracker - 1
    nftToLoanIds,               \* _nftToLoanIds, 0 when there is none
    nftTotalCollateral,         \* _nftTotalCollateral
    userNftCollateral,          \* _userNftCollateral
    flashLoanLockerWhitelist    \* _flashLoanLockerWhitelist

ledgerVars == <<loans, nftToLoanIds, nftTotalCollateral, userNftCollateral,
                flashLoanLockerWhitelist>>
loanVars == <<ledgerVars, bnftVars>>

LoanState == {"Active", "Auction", "Repaid", "Defaulted"}

LoanData == [state : LoanState, borrower : Users, nft : Nfts,
             reserveAsset : Reserves, scaledAmount : Nat,
             bidStartTimestamp : Nat, bidderAddress : Users \cup {NoUser},
             bidPrice : Nat, bidBorrowAmount : Nat,
             firstBidderAddress : Users \cup {NoUser}]

LoanTypeOK ==
    /\ BnftTypeOK
    /\ loans \in Seq(LoanData)
    /\ nftToLoanIds \in [Nfts -> Nat]
    /\ nftTotalCollateral \in [NftAssets -> Nat]
    /\ userNftCollateral \in [Users -> [NftAssets -> Nat]]
    /\ flashLoanLockerWhitelist \in SUBSET Lockers

LoanInit ==
    /\ BnftInit
    /\ loans = <<>>
    /\ nftToLoanIds = [nft \in Nfts |-> 0]
    /\ nftTotalCollateral = [a \in NftAssets |-> 0]
    /\ userNftCollateral = [u \in Users |-> [a \in NftAssets |-> 0]]
    /\ flashLoanLockerWhitelist = {}

\* A loan is stored under this id: every require on its state implies it
IsLoan(loanId) == loanId \in DOMAIN loans

NewLoan(borrower, nft, reserve, amountScaled) ==
    [state |-> "Active", borrower |-> borrower, nft |-> nft,
     reserveAsset |-> reserve, scaledAmount |-> amountScaled,
     bidStartTimestamp |-> 0, bidderAddress |-> NoUser, bidPrice |-> 0,
     bidBorrowAmount |-> 0, firstBidderAddress |-> NoUser]

\* What the ledger writes into an existing loan
WithDebt(loan, amountScaled) == [loan EXCEPT !.scaledAmount = amountScaled]

WithBid(loan, bidder, bidPrice, borrowAmount) ==
    [loan EXCEPT !.bidderAddress = bidder, !.bidPrice = bidPrice,
                 !.bidBorrowAmount = borrowAmount]

PutOnSale(loan, bidder, now) ==
    [loan EXCEPT !.state = "Auction", !.bidStartTimestamp = now,
                 !.firstBidderAddress = bidder]

\* Fault: redeeming leaves the start of the auction behind
TakenOffSaleKeepingStart(loan) ==
    [loan EXCEPT !.state = "Active", !.bidderAddress = NoUser, !.bidPrice = 0,
                 !.bidBorrowAmount = 0, !.firstBidderAddress = NoUser]

TakenOffSale(loan) ==
    [loan EXCEPT !.state = "Active", !.bidStartTimestamp = 0,
                 !.bidderAddress = NoUser, !.bidPrice = 0,
                 !.bidBorrowAmount = 0, !.firstBidderAddress = NoUser]

\* Fault: repaying does not mark the loan
StillActive(loan) == loan

Repaid(loan) == [loan EXCEPT !.state = "Repaid"]

Defaulted(loan, borrowAmount) ==
    [loan EXCEPT !.state = "Defaulted", !.bidBorrowAmount = borrowAmount]

Store(loanId, loan) == loans' = [loans EXCEPT ![loanId] = loan]

CountCollateral(user, asset) ==
    /\ userNftCollateral' = [userNftCollateral EXCEPT ![user][asset] = @ + 1]
    /\ nftTotalCollateral' = [nftTotalCollateral EXCEPT ![asset] = @ + 1]

\* Fault: only the collection's counter goes down
UncountCollection(user, asset) ==
    /\ nftTotalCollateral[asset] >= 1
    /\ nftTotalCollateral' = [nftTotalCollateral EXCEPT ![asset] = @ - 1]
    /\ UNCHANGED userNftCollateral

UncountCollateral(user, asset) ==
    /\ userNftCollateral[user][asset] >= 1
    /\ nftTotalCollateral[asset] >= 1
    /\ userNftCollateral' = [userNftCollateral EXCEPT ![user][asset] = @ - 1]
    /\ nftTotalCollateral' = [nftTotalCollateral EXCEPT ![asset] = @ - 1]

-----------------------------------------------------------------------------
CreateLoan(initiator, onBehalfOf, nft, reserve, amount, borrowIndex) ==
    /\ nftToLoanIds[nft] = 0
    /\ Len(loans) < MaxLoans
    /\ loans' = Append(loans,
            NewLoan(onBehalfOf, nft, reserve, RayDiv(amount, borrowIndex)))
    /\ nftToLoanIds' = [nftToLoanIds EXCEPT ![nft] = Len(loans) + 1]
    /\ Wrap(initiator, LOAN, onBehalfOf, nft)
    /\ CountCollateral(onBehalfOf, nft[1])
    /\ UNCHANGED <<flashLoanLockerWhitelist, lockings>>

\* updateLoan(amountAdded, 0) when borrowing more
IncreaseLoan(loanId, amountAdded, borrowIndex) ==
    LET amountScaled == RayDiv(amountAdded, borrowIndex) IN
    /\ IsLoan(loanId)
    /\ loans[loanId].state = "Active"
    /\ amountScaled # 0
    /\ Store(loanId, WithDebt(loans[loanId], loans[loanId].scaledAmount + amountScaled))
    /\ UNCHANGED <<nftToLoanIds, nftTotalCollateral, userNftCollateral,
                   flashLoanLockerWhitelist, bnftVars>>

\* Fault: the amount taken is not compared with the debt
DecreaseLoanUnchecked(loanId, amountTaken, borrowIndex) ==
    LET amountScaled == RayDiv(amountTaken, borrowIndex) IN
    /\ IsLoan(loanId)
    /\ loans[loanId].state = "Active"
    /\ amountScaled # 0
    /\ Store(loanId, WithDebt(loans[loanId], loans[loanId].scaledAmount - amountScaled))
    /\ UNCHANGED <<nftToLoanIds, nftTotalCollateral, userNftCollateral,
                   flashLoanLockerWhitelist, bnftVars>>

\* updateLoan(0, amountTaken) when repaying in part
DecreaseLoan(loanId, amountTaken, borrowIndex) ==
    LET amountScaled == RayDiv(amountTaken, borrowIndex) IN
    /\ IsLoan(loanId)
    /\ loans[loanId].state = "Active"
    /\ amountScaled # 0
    /\ loans[loanId].scaledAmount >= amountScaled
    /\ Store(loanId, WithDebt(loans[loanId], loans[loanId].scaledAmount - amountScaled))
    /\ UNCHANGED <<nftToLoanIds, nftTotalCollateral, userNftCollateral,
                   flashLoanLockerWhitelist, bnftVars>>

\* Fault: a loan can be repaid while its collateral is in auction
RepayLoanInAuction(loanId) ==
    /\ IsLoan(loanId)
    /\ LET loan == loans[loanId] IN
       /\ loan.state \in {"Active", "Auction"}
       /\ Store(loanId, Repaid(loan))
       /\ nftToLoanIds' = [nftToLoanIds EXCEPT ![loan.nft] = 0]
       /\ UncountCollateral(loan.borrower, loan.nft[1])
       /\ Unwrap(LOAN, loan.borrower, loan.nft)
    /\ UNCHANGED <<flashLoanLockerWhitelist, lockings>>

RepayLoan(loanId) ==
    /\ IsLoan(loanId)
    /\ LET loan == loans[loanId] IN
       /\ loan.state = "Active"
       /\ Store(loanId, Repaid(loan))
       /\ nftToLoanIds' = [nftToLoanIds EXCEPT ![loan.nft] = 0]
       /\ UncountCollateral(loan.borrower, loan.nft[1])
       /\ Unwrap(LOAN, loan.borrower, loan.nft)
    /\ UNCHANGED <<flashLoanLockerWhitelist, lockings>>

\* auctionLoan when loan.bidStartTimestamp is zero
FirstBid(loanId, onBehalfOf, bidPrice, borrowAmount, now) ==
    /\ IsLoan(loanId)
    /\ loans[loanId].bidStartTimestamp = 0
    /\ loans[loanId].state = "Active"
    /\ Store(loanId, PutOnSale(WithBid(loans[loanId], onBehalfOf, bidPrice, borrowAmount),
                               onBehalfOf, now))
    /\ SetLocking(loans[loanId].nft, LOAN, TRUE)
    /\ UNCHANGED <<nftToLoanIds, nftTotalCollateral, userNftCollateral,
                   flashLoanLockerWhitelist, nftOwner, bnftOwner, minters>>

\* Fault: a bid need not exceed the highest one
AnyBid(loanId, onBehalfOf, bidPrice, borrowAmount) ==
    /\ IsLoan(loanId)
    /\ loans[loanId].bidStartTimestamp # 0
    /\ loans[loanId].state = "Auction"
    /\ Store(loanId, WithBid(loans[loanId], onBehalfOf, bidPrice, borrowAmount))
    /\ UNCHANGED <<nftToLoanIds, nftTotalCollateral, userNftCollateral,
                   flashLoanLockerWhitelist, bnftVars>>

\* auctionLoan when the auction has started
HigherBid(loanId, onBehalfOf, bidPrice, borrowAmount) ==
    /\ IsLoan(loanId)
    /\ loans[loanId].bidStartTimestamp # 0
    /\ loans[loanId].state = "Auction"
    /\ bidPrice > loans[loanId].bidPrice
    /\ Store(loanId, WithBid(loans[loanId], onBehalfOf, bidPrice, borrowAmount))
    /\ UNCHANGED <<nftToLoanIds, nftTotalCollateral, userNftCollateral,
                   flashLoanLockerWhitelist, bnftVars>>

AuctionLoan(loanId, onBehalfOf, bidPrice, borrowAmount, now) ==
    \/ FirstBid(loanId, onBehalfOf, bidPrice, borrowAmount, now)
    \/ HigherBid(loanId, onBehalfOf, bidPrice, borrowAmount)

RedeemLoan(loanId, amountTaken, borrowIndex) ==
    LET amountScaled == RayDiv(amountTaken, borrowIndex) IN
    /\ IsLoan(loanId)
    /\ loans[loanId].state = "Auction"
    /\ amountScaled # 0
    /\ loans[loanId].scaledAmount >= amountScaled
    /\ Store(loanId, WithDebt(TakenOffSale(loans[loanId]),
                              loans[loanId].scaledAmount - amountScaled))
    /\ SetLocking(loans[loanId].nft, LOAN, FALSE)
    /\ UNCHANGED <<nftToLoanIds, nftTotalCollateral, userNftCollateral,
                   flashLoanLockerWhitelist, nftOwner, bnftOwner, minters>>

\* Fault: the NFT goes to the first bidder instead of the highest
AwardFirstBidder(loanId, borrowAmount) ==
    /\ IsLoan(loanId)
    /\ LET loan == loans[loanId] IN
       /\ loan.state = "Auction"
       /\ Store(loanId, Defaulted(loan, borrowAmount))
       /\ nftToLoanIds' = [nftToLoanIds EXCEPT ![loan.nft] = 0]
       /\ UncountCollateral(loan.borrower, loan.nft[1])
       /\ SetLocking(loan.nft, LOAN, FALSE)
       /\ Unwrap(LOAN, loan.firstBidderAddress, loan.nft)
    /\ UNCHANGED flashLoanLockerWhitelist

LiquidateLoan(loanId, borrowAmount) ==
    /\ IsLoan(loanId)
    /\ LET loan == loans[loanId] IN
       /\ loan.state = "Auction"
       /\ Store(loanId, Defaulted(loan, borrowAmount))
       /\ nftToLoanIds' = [nftToLoanIds EXCEPT ![loan.nft] = 0]
       /\ UncountCollateral(loan.borrower, loan.nft[1])
       /\ SetLocking(loan.nft, LOAN, FALSE)
       /\ Unwrap(LOAN, loan.bidderAddress, loan.nft)
    /\ UNCHANGED flashLoanLockerWhitelist

-----------------------------------------------------------------------------
(***************************************************************************)
(* Flash loan lockers.                                                     *)
(***************************************************************************)
ApproveFlashLoanLocker(locker, approved) ==
    /\ flashLoanLockerWhitelist' =
            IF approved THEN flashLoanLockerWhitelist \cup {locker}
                        ELSE flashLoanLockerWhitelist \ {locker}
    /\ UNCHANGED <<loans, nftToLoanIds, nftTotalCollateral, userNftCollateral,
                   bnftVars>>

SetFlashLoanLocking(locker, nft, locked) ==
    /\ locker \in flashLoanLockerWhitelist
    /\ SetLocking(nft, locker, locked)
    /\ UNCHANGED <<ledgerVars, nftOwner, bnftOwner, minters>>

PurgeFlashLoanLocking(tokens, locker) ==
    /\ lockings' = [nft \in Nfts |-> IF nft \in tokens THEN lockings[nft] \ {locker}
                                     ELSE lockings[nft]]
    /\ UNCHANGED <<ledgerVars, nftOwner, bnftOwner, minters>>

LockerNext ==
    \E locker \in Lockers :
        \/ \E b \in BOOLEAN : ApproveFlashLoanLocker(locker, b)
        \/ \E nft \in Nfts, b \in BOOLEAN : SetFlashLoanLocking(locker, nft, b)
        \/ \E asset \in NftAssets, ids \in SUBSET TokenIds :
              locker \in PurgeTargets /\ PurgeFlashLoanLocking({asset} \X ids, locker)

\* Everything that can happen to the ledger and the bNFTs outside LendPool
ExternalNext ==
    \/ BnftNext /\ UNCHANGED ledgerVars
    \/ LockerNext

\* LendPool passes the debt of the loan at the current index as borrowAmount
PoolCallNext ==
    \/ \E i \in Users, u \in Users, nft \in Nfts, r \in Reserves,
          a \in Amounts, x \in BorrowIndexes :
              /\ RayDiv(a, x) <= MaxScaledAmount
              /\ CreateLoan(i, u, nft, r, a, x)
    \/ \E loanId \in DOMAIN loans, x \in BorrowIndexes :
        \/ \E a \in Amounts :
              \/ /\ loans[loanId].scaledAmount + RayDiv(a, x) <= MaxScaledAmount
                 /\ IncreaseLoan(loanId, a, x)
              \/ DecreaseLoan(loanId, a, x)
              \/ RedeemLoan(loanId, a, x)
        \/ RepayLoan(loanId)
        \/ \E u \in Users, p \in Amounts, t \in Timestamps :
              AuctionLoan(loanId, u, p, RayMul(loans[loanId].scaledAmount, x), t)
        \/ LiquidateLoan(loanId, RayMul(loans[loanId].scaledAmount, x))

LoanNext == PoolCallNext \/ ExternalNext

LoanSpec == LoanInit /\ [][LoanNext]_loanVars

-----------------------------------------------------------------------------
(***************************************************************************)
(* Properties.                                                             *)
(***************************************************************************)
Open(loanId) == loans[loanId].state \in {"Active", "Auction"}

OpenLoans == {loanId \in DOMAIN loans : Open(loanId)}

\* Index and ledger agree in both directions: the id kept for an NFT
\* (nftToLoanIds) is that of its one open loan.  In particular no NFT secures
\* two open loans and a closed loan is never found through its NFT.
CollateralIndexed ==
    /\ \A loanId \in DOMAIN loans :
          Open(loanId) <=> nftToLoanIds[loans[loanId].nft] = loanId
    /\ \A nft \in Nfts :
          nftToLoanIds[nft] # 0 =>
              nftToLoanIds[nft] \in DOMAIN loans
              /\ loans[nftToLoanIds[nft]].nft = nft

\* Three contracts agree on who has an NFT: it secures an open loan exactly
\* when the bNFT was minted by the protocol, and then the original is in the
\* bNFT contract and the bNFT belongs to the borrower.
CollateralInCustody ==
    \A nft \in Nfts :
        /\ (nftToLoanIds[nft] # 0) <=> (minters[nft] = LOAN)
        /\ nftToLoanIds[nft] # 0 =>
              /\ nftOwner[nft] = BNFT_CONTRACT
              /\ bnftOwner[nft] = loans[nftToLoanIds[nft]].borrower

\* The protocol's own flash loan lock is on an NFT exactly while its loan is in
\* auction: redeem and liquidate both release what the first bid took.
LockedWhileInAuction ==
    \A nft \in Nfts :
        LOAN \in lockings[nft] <=>
            /\ nftToLoanIds[nft] # 0
            /\ loans[nftToLoanIds[nft]].state = "Auction"

\* The two collateral counters are the numbers of open loans they stand for, so
\* the underflow checks of repayLoan and liquidateLoan never refuse a call.
CollateralCounted ==
    \A a \in NftAssets :
        LET securedBy == {id \in OpenLoans : loans[id].nft[1] = a} IN
        /\ nftTotalCollateral[a] = Cardinality(securedBy)
        /\ \A u \in Users : userNftCollateral[u][a] =
              Cardinality({id \in securedBy : loans[id].borrower = u})

\* The bid fields a loan has in its state
BidFieldsMatch(loan) ==
    IF loan.state = "Active"
    THEN /\ loan.bidStartTimestamp = 0 /\ loan.bidPrice = 0
         /\ loan.bidderAddress = NoUser /\ loan.firstBidderAddress = NoUser
    ELSE /\ loan.bidStartTimestamp # 0 /\ loan.bidPrice # 0
         /\ loan.bidderAddress # NoUser /\ loan.firstBidderAddress # NoUser

\* bidStartTimestamp, which auctionLoan tests instead of the state, is zero
\* exactly outside of an auction, and no bidder is left behind on a loan that
\* has gone back to Active.
BidFieldsMatchState == \A id \in OpenLoans : BidFieldsMatch(loans[id])

LifecycleEdges == {<<"Active", "Auction">>, <<"Auction", "Active">>,
                   <<"Active", "Repaid">>, <<"Auction", "Defaulted">>}

LifecycleStep ==
    \A id \in DOMAIN loans :
        /\ id \in DOMAIN loans'
        /\ loans'[id].state # loans[id].state =>
              <<loans[id].state, loans'[id].state>> \in LifecycleEdges
        /\ loans'[id].borrower = loans[id].borrower
        /\ loans'[id].nft = loans[id].nft
        /\ ~ Open(id) => loans'[id] = loans[id]

\* A loan moves only along the edges of the life cycle, no loan is forgotten, its
\* collateral and borrower never change, and a finished loan never changes again.
LoanLifecycle == [][LifecycleStep]_loanVars

BiddingStep ==
    \A id \in DOMAIN loans :
        (loans[id].state = "Auction" /\ loans'[id].state = "Auction") =>
            /\ loans'[id].bidPrice >= loans[id].bidPrice
            /\ loans'[id].bidderAddress # loans[id].bidderAddress =>
                  loans'[id].bidPrice > loans[id].bidPrice
            /\ loans'[id].bidStartTimestamp = loans[id].bidStartTimestamp
            /\ loans'[id].firstBidderAddress = loans[id].firstBidderAddress

\* While an auction runs the highest bid only rises, and neither its start nor its
\* first bidder - who is owed the redeem fine - is ever rewritten.
BidsOnlyRise == [][BiddingStep]_loanVars

-----------------------------------------------------------------------------
(***************************************************************************)
(* The ledger and the bNFT contract together keep CollateralPromise.       *)
(***************************************************************************)
PhaseOf(nft) ==
    IF minters[nft] # LOAN THEN "Free"
    ELSE IF loans[nftToLoanIds[nft]].state = "Auction" THEN "OnSale" ELSE "Pledged"

\* The original of a bNFT that a user minted directly is the minter's
OwnerOf(nft) ==
    IF minters[nft] = LOAN THEN bnftOwner[nft]
    ELSE IF minters[nft] # NoUser THEN minters[nft] ELSE nftOwner[nft]

LeaderOf(nft) ==
    IF PhaseOf(nft) = "OnSale" THEN loans[nftToLoanIds[nft]].bidderAddress
    ELSE NoUser

Promise == INSTANCE CollateralPromise WITH
    Tokens <- Nfts, Owners <- Users, Nobody <- NoUser,
    phase <- [nft \in Nfts |-> PhaseOf(nft)],
    owner <- [nft \in Nfts |-> OwnerOf(nft)],
    leader <- [nft \in Nfts |-> LeaderOf(nft)]

\* Every step of the ledger is one the promise allows: while an NFT is pledged its
\* entitlement moves to nobody but the leading bidder of its auction.
KeepsPromise == Promise!Spec
=============================================================================
