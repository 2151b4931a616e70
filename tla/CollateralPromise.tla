-------------------------- MODULE CollateralPromise -------------------------
(***************************************************************************)
(* What the loan ledger promises about an NFT, whatever contracts hold it  *)
(* in the meantime: an NFT that is pledged comes back to the borrower it   *)
(* was pledged for, unless it is put on sale, and then it goes either to   *)
(* that borrower or to the bidder who leads when the sale ends.            *)
(***************************************************************************)
CONSTANTS Tokens, Owners, Nobody

VARIABLES
    phase,      \* "Free", "Pledged" or "OnSale"
    owner,      \* who is entitled to the NFT when nothing further happens
    leader      \* the highest bidder of an NFT on sale

vars == <<phase, owner, leader>>

Init ==
    /\ phase = [t \in Tokens |-> "Free"]
    /\ owner \in [Tokens -> Owners]
    /\ leader = [t \in Tokens |-> Nobody]

Become(t, ph, o, l) ==
    /\ phase' = [phase EXCEPT ![t] = ph]
    /\ owner' = [owner EXCEPT ![t] = o]
    /\ leader' = [leader EXCEPT ![t] = l]

Trade(t, o) == phase[t] = "Free" /\ Become(t, "Free", o, Nobody)

Pledge(t, o) == phase[t] = "Free" /\ Become(t, "Pledged", o, Nobody)

Release(t) == phase[t] = "Pledged" /\ Become(t, "Free", owner[t], Nobody)

Bid(t, l) == phase[t] # "Free" /\ Become(t, "OnSale", owner[t], l)

Reclaim(t) == phase[t] = "OnSale" /\ Become(t, "Pledged", owner[t], Nobody)

Award(t) == phase[t] = "OnSale" /\ Become(t, "Free", leader[t], Nobody)

Next ==
    \E t \in Tokens :
        \/ \E u \in Owners : Trade(t, u) \/ Pledge(t, u) \/ Bid(t, u)
        \/ Release(t)
        \/ Reclaim(t)
        \/ Award(t)

Spec == Init /\ [][Next]_vars
=============================================================================
