-------------------------- MODULE MCLendPoolCases --------------------------
(***************************************************************************)
(* Five groups of users and administrators of one pool.  Each group makes  *)
(* the calls of its own instance of LendPool; the configuration, the       *)
(* initial states and the properties are those of MCLendPool.              *)
(***************************************************************************)
EXTENDS MCLendPool

VARIABLE group

\* One NFT, two loans on it in sequence, traded outside between them.
InTurn == INSTANCE LendPool WITH MaxTime <- 5

\* Two NFTs in auctions at the same time.
AtOnce == INSTANCE LendPool WITH
    DepositAmounts <- {21}, MaxDeposits <- 21, MaxTime <- 3, Moves <- FALSE

\* Suppliers deposit, transfer and withdraw while a loan runs.
Supplying == INSTANCE LendPool WITH
    MaxLoans <- 1, MaxTime <- 4, WithdrawAmounts <- {20}, WithdrawsAll <- TRUE,
    TransferAmounts <- {7}, RepayAmounts <- {5, 50}, BidPrices <- {14},
    OracleReadings <- SameReadings, Moves <- FALSE

\* Administrators set and clear every flag, prices go stale.
Configuring == INSTANCE LendPool WITH
    MaxLoans <- 1, MaxTime <- 3, LastPause <- 1, WithdrawAmounts <- {12},
    RepayAmounts <- {50}, BidPrices <- {14},
    OracleReadings <- StaleReadings, PausedTimes <- MCTimes,
    Configures <- TRUE, Moves <- FALSE

\* Borrowers approve one another and borrow on each other's behalf.
Delegating == INSTANCE LendPool WITH
    MaxLoans <- 1, MaxTime <- 2, RepayAmounts <- {50}, Delegations <- {8},
    BidPrices <- {14}, Moves <- FALSE

\* Only the group "at once" has a use for a second NFT.
Second == <<azuki, 2>>

CasesInit ==
    /\ Init
    /\ group \in {"in turn", "at once", "supplying", "configuring", "delegating"}
    /\ group # "at once" => nftOwner[Second] = nftOwner[<<azuki, 1>>]

FirstOnly ==
    /\ nftOwner'[Second] = nftOwner[Second]
    /\ bnftOwner'[Second] = bnftOwner[Second]

CasesNext ==
    /\ \/ group = "in turn" /\ InTurn!Next /\ FirstOnly
       \/ group = "at once" /\ AtOnce!Next
       \/ group = "supplying" /\ Supplying!Next /\ FirstOnly
       \/ group = "configuring" /\ Configuring!Next /\ FirstOnly
       \/ group = "delegating" /\ Delegating!Next /\ FirstOnly
    /\ UNCHANGED group

CasesSpec == CasesInit /\ [][CasesNext]_<<vars, group>>
=============================================================================
