---------------------------- MODULE PauseHistory ----------------------------
(***************************************************************************)
(* The lending pool with the history of every auction: for how long its    *)
(* bidders and its borrower could really act since the first bid, and how  *)
(* many pauses it has seen.  The history only watches; what it is for is   *)
(* to say what _pauseStartTime and _pauseDurationTime are to achieve.      *)
(***************************************************************************)
EXTENDS LendPool

VARIABLE auctions   \* auctions[id]: the history of the auction of loan id

NoAuction == [usable |-> 0, pauses |-> 0]

Watched == {id \in DOMAIN loans : loans[id].state = "Auction"}

\* Two pauses are all that the properties tell apart
Watch(history) ==
    [usable |-> history.usable + (IF ~ paused THEN now' - now ELSE 0),
     pauses |-> IF ~ paused /\ paused' /\ history.pauses < 2
                THEN history.pauses + 1 ELSE history.pauses]

PausesInit == Init /\ auctions = <<>>

PausesNext ==
    /\ Next
    /\ auctions' = [id \in DOMAIN loans' |->
                        IF id \in Watched THEN Watch(auctions[id]) ELSE NoAuction]

PausesSpec == PausesInit /\ [][PausesNext]_<<vars, auctions>>

\* Auctions during which the pool was paused at most once: a second pause
\* overwrites pauseStartTime and pauseDurationTime and the extension is lost
Extended == {id \in Watched : auctions[id].pauses <= 1}

\* However the pauses fall, before, after or over the first bid, bidders have the
\* full auction duration of an unpaused pool and not a block more.
BidWindow ==
    ~ paused =>
        \A id \in Extended :
            CanBeOutbid(loans[id].nft) <=> auctions[id].usable <= AuctionDuration

CanBeRedeemed(nft) ==
    LET loanId == nftToLoanIds[nft] IN
    ENABLED Redeem(nft, PercentMul(BorrowAmount(loanId), RedeemThreshold),
                   BidFine(loans[loanId].reserveAsset, BorrowAmount(loanId)))

\* The borrower has the full redeem duration of an unpaused pool, and what the
\* configured threshold asks for is within what redeem accepts.
RedeemWindow ==
    ~ paused =>
        \A id \in Extended :
            CanBeRedeemed(loans[id].nft) <=> auctions[id].usable <= RedeemDuration

\* Nobody is liquidated before bidders had their whole window.
NoEarlyLiquidation ==
    [][ \A id \in Extended :
          loans'[id].state = "Defaulted" => auctions[id].usable > AuctionDuration
      ]_<<vars, auctions>>
=============================================================================
