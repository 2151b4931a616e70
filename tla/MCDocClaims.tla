----------------------------- MODULE MCDocClaims -----------------------------
(***************************************************************************)
(* What a comment of the source says of a loan's life, stated as it stands *)
(* so that TLC can show where the code does otherwise.                     *)
(***************************************************************************)
EXTENDS MCLendPool

\* protocol/LendPool.sol:305 says of redeem "User repays 100 USDC, burning loan and
\* receives collateral asset": whoever gets a loan out of its auction has his NFT.
RedeemReturnsCollateral ==
    [][ \A id \in DOMAIN loans :
          (loans[id].state = "Auction" /\ loans'[id].state \notin {"Auction", "Defaulted"}) =>
              /\ loans'[id].state = "Repaid"
              /\ nftOwner'[loans[id].nft] = loans[id].borrower ]_vars
=============================================================================
