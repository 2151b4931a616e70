----------------------------- MODULE MCGateways -----------------------------
(***************************************************************************)
(* Two users of the gateways, in six cases: each opens some of the entry  *)
(* points, in an instance of Gateways.                                     *)
(***************************************************************************)
EXTENDS Gateways, TLC

VARIABLE case

OfWeth == INSTANCE Gateways WITH Tokens <- {"ape"}, Doors <- {"weth", "pool"},
                                Coins <- {"weth"}
OfPunk == INSTANCE Gateways WITH Tokens <- {"punk"}, Doors <- {"punk", "pool"},
                                 Coins <- {"weth"}, Amounts <- {3, 4}
OfCoin == INSTANCE Gateways WITH Tokens <- {"punk"}, Doors <- {"coin", "pool"}
OfBatch == INSTANCE Gateways WITH Doors <- {"batch", "punk"}, Coins <- {"weth"},
                                  Amounts <- {1, 2}, MaxDebt <- 3
OfSavings == INSTANCE Gateways WITH Tokens <- {"ape"}, Doors <- {"save", "weth"},
                                    Coins <- {"weth"}, Amounts <- {1, 2}, MaxDebt <- 2
\* Loans of either coin, taken at the pool, meet a gateway that is for one.
OfBoth == INSTANCE Gateways WITH Tokens <- {"ape"}, Doors <- {"weth", "pool"},
                                 Amounts <- {3}, MaxDebt <- 3

CasesInit == Init /\ case \in {"weth", "punk", "coin", "batch", "savings", "both"}

CasesNext ==
    /\ \/ case = "weth" /\ OfWeth!Next
       \/ case = "punk" /\ OfPunk!Next
       \/ case = "coin" /\ OfCoin!Next
       \/ case = "batch" /\ OfBatch!Next
       \/ case = "savings" /\ OfSavings!Next
       \/ case = "both" /\ OfBoth!Next
    /\ UNCHANGED case

CasesSpec == CasesInit /\ [][CasesNext]_<<vars, case>>

\* The users are interchangeable.
MCSymmetry == Permutations(Users)
=============================================================================
