-------------------------------- MODULE BNFT --------------------------------
(***************************************************************************)
(* The bound NFT (mock/BNFT/BNFT.sol): wrapping an NFT gives the wrapped   *)
(* original to the BNFT contract and a non-transferable bNFT to a chosen   *)
(* owner; only the minter can burn it and get the original back.  The      *)
(* minter is the lending protocol (LOAN, the LendPoolLoan contract) or a   *)
(* user who wraps a token directly.                                        *)
(*                                                                         *)
(* Every function of the contract is one transaction or part of one, so    *)
(* the effects below are net effects: Wrap takes the original from         *)
(* `holder`, who hands it to the minter earlier in the same transaction.   *)
(***************************************************************************)
EXTENDS Naturals, FiniteSets

CONSTANTS
    Users,          \* accounts
    NftAssets,      \* NFT collections, each with its bNFT contract
    TokenIds,       \* token ids of each collection
    LOAN,           \* address of LendPoolLoan
    BNFT_CONTRACT,  \* the bNFT contract holding a wrapped original
    NoUser,         \* address(0)
    Lockers         \* contracts that may be whitelisted as flash loan lockers

ASSUME AddressAssumption ==
    /\ LOAN \notin Users \cup Lockers
    /\ BNFT_CONTRACT \notin Users
    /\ NoUser \notin Users
    /\ NoUser # LOAN

Nfts == NftAssets \X TokenIds

VARIABLES
    nftOwner,   \* ownerOf of the underlying ERC721
    bnftOwner,  \* ownerOf of the bNFT, NoUser when it does not exist
    minters,    \* _minters, NoUser when the bNFT does not exist
    lockings    \* _flashLoanOperatorLockings[LOAN]

bnftVars == <<nftOwner, bnftOwner, minters, lockings>>

BnftTypeOK ==
    /\ nftOwner \in [Nfts -> Users \cup {BNFT_CONTRACT}]
    /\ bnftOwner \in [Nfts -> Users \cup {NoUser}]
    /\ minters \in [Nfts -> Users \cup {LOAN, NoUser}]
    /\ lockings \in [Nfts -> SUBSET (Lockers \cup {LOAN})]

BnftInit ==
    /\ nftOwner \in [Nfts -> Users]
    /\ bnftOwner = [nft \in Nfts |-> NoUser]
    /\ minters = [nft \in Nfts |-> NoUser]
    /\ lockings = [nft \in Nfts |-> {}]

Exists(nft) == bnftOwner[nft] # NoUser

\* mint, called by minter for `to`
Wrap(holder, minter, to, nft) ==
    /\ ~ Exists(nft)
    /\ nftOwner[nft] = holder
    /\ bnftOwner' = [bnftOwner EXCEPT ![nft] = to]
    /\ minters' = [minters EXCEPT ![nft] = minter]
    /\ nftOwner' = [nftOwner EXCEPT ![nft] = BNFT_CONTRACT]

\* Fault: burn leaves the minter behind
UnwrapKeepingMinter(minter, receiver, nft) ==
    /\ Exists(nft)
    /\ minters[nft] = minter
    /\ bnftOwner' = [bnftOwner EXCEPT ![nft] = NoUser]
    /\ nftOwner' = [nftOwner EXCEPT ![nft] = receiver]
    /\ UNCHANGED minters

\* Fault: burn does not ask who minted
UnwrapByAnybody(minter, receiver, nft) ==
    /\ Exists(nft)
    /\ bnftOwner' = [bnftOwner EXCEPT ![nft] = NoUser]
    /\ minters' = [minters EXCEPT ![nft] = NoUser]
    /\ nftOwner' = [nftOwner EXCEPT ![nft] = receiver]

\* burn, called by minter, who hands the original on to `receiver`
Unwrap(minter, receiver, nft) ==
    /\ Exists(nft)
    /\ minters[nft] = minter
    /\ bnftOwner' = [bnftOwner EXCEPT ![nft] = NoUser]
    /\ minters' = [minters EXCEPT ![nft] = NoUser]
    /\ nftOwner' = [nftOwner EXCEPT ![nft] = receiver]

\* Fault: a lock is never taken off the list
LockForever(nft, operator, locked) ==
    lockings' = [lockings EXCEPT ![nft] = IF locked THEN @ \cup {operator} ELSE @]

\* setFlashLoanLocking, called by LOAN
SetLocking(nft, operator, locked) ==
    lockings' = [lockings EXCEPT ![nft] =
                    IF locked THEN @ \cup {operator} ELSE @ \ {operator}]

-----------------------------------------------------------------------------
(***************************************************************************)
(* Transactions in which the lending protocol takes no part.               *)
(***************************************************************************)
TransferNft(from, to, nft) ==
    /\ nftOwner[nft] = from
    /\ nftOwner' = [nftOwner EXCEPT ![nft] = to]
    /\ UNCHANGED <<bnftOwner, minters, lockings>>

\* A contract account may mint to anybody, an external one only to itself
DirectMint(user, to, nft) ==
    /\ Wrap(user, user, to, nft)
    /\ UNCHANGED lockings

DirectBurn(user, nft) ==
    /\ Unwrap(user, user, nft)
    /\ UNCHANGED lockings

BnftNext ==
    \E u \in Users, nft \in Nfts :
        \/ \E v \in Users : TransferNft(u, v, nft) \/ DirectMint(u, v, nft)
        \/ DirectBurn(u, nft)

-----------------------------------------------------------------------------
\* Every bNFT is backed: the contract owns the original of exactly the bNFTs that
\* exist, and each of them has a minter who can unwrap it.
BnftBacked ==
    \A nft \in Nfts :
        /\ Exists(nft) <=> nftOwner[nft] = BNFT_CONTRACT
        /\ Exists(nft) <=> minters[nft] # NoUser
=============================================================================
