--------------------------- MODULE MCLendPoolLoan ---------------------------
(***************************************************************************)
(* Instance of the loan ledger for TLC.                                    *)
(***************************************************************************)
EXTENDS LendPoolLoan, TLC

CONSTANTS alice, bob, t1, t2, azuki, weth, guard

MCUsers == {alice, bob}
MCTokenIds == {t1, t2}
MCNftAssets == {azuki}
MCReserves == {weth}
MCLockers == {guard}

\* No property tells the users, nor the token ids, apart
Symmetry == Permutations(MCUsers) \cup Permutations(MCTokenIds)
=============================================================================
