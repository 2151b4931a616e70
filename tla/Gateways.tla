------------------------------ MODULE Gateways ------------------------------
(***************************************************************************)
(* The gateways through which users reach the pool with ETH and with       *)
(* CryptoPunks: contracts/protocol/WETHGateway.sol and PunkGateway.sol.    *)
(*                                                                         *)
(* A call is one transaction.  It works on a copy of the state, passes it  *)
(* from contract to contract, and either commits it or, when a require     *)
(* failed anywhere, leaves everything as it was.  The gateways hold money  *)
(* and tokens only in between: they wrap what they are sent, act on the    *)
(* pool as its initiator, unwrap and pass on.                              *)
(*                                                                         *)
(* The pool is reduced to what the gateways see of it (LendPool models it  *)
(* in full): whole units of debt, one auction window for bids and for      *)
(* redemption, every user having approved the gateways and delegated       *)
(* credit to them.                                                         *)
(***************************************************************************)
EXTENDS Naturals, Sequences

CONSTANTS
    Users,
    None,
    Tokens,         \* of "ape" (an ERC721) and "punk" (a wrapped CryptoPunk)
    Coins,          \* of the reserves "weth" and "usdc"
    Doors,          \* the entry points in use: "save", "weth", "punk" (in ETH),
                    \*   "coin" (PunkGateway in an ERC20), "batch", "pool"
    Amounts,        \* the amounts users name
    Cash,           \* what each user owns at first of ETH and of each coin
    Liquidity,      \* what each reserve holds at first
    MaxDebt,        \* the most a loan may grow to, by borrowing or interest
    Threshold,      \* a debt above it can be auctioned
    MaxBatch        \* the most items of a batch

ASSUME GatewayAssumption ==
    /\ LET others == {"wethGateway", "punkGateway", "pool", "reserve", "wrapper", "time"}
       IN  None \notin Users \cup others /\ Users \cap others = {}
    /\ Tokens \subseteq {"ape", "punk"}
    /\ "weth" \in Coins /\ Coins \subseteq {"weth", "usdc"}
    /\ {"punk", "coin"} \cap Doors # {} => "punk" \in Tokens
    /\ Amounts \subseteq Nat /\ Cash \in Nat /\ Liquidity \in Nat
    /\ MaxDebt \in Nat /\ Threshold \in Nat /\ MaxBatch \in Nat

VARIABLES
    money,      \* who holds how much of ETH, of each coin, and of bWETH
    holder,     \* who holds each ERC721 token
    punk,       \* who holds the CryptoPunk itself
    offered,    \* it is offered to the punk gateway for nothing
    loan,
    by          \* whose transaction the last step was

vars == <<money, holder, punk, offered, loan, by>>

WG == "wethGateway"
PG == "punkGateway"
Contracts == {WG, PG, "pool", "reserve"}
Holders == Users \cup Contracts
Purses == {"eth", "bweth"} \cup Coins

NoLoan == [state |-> "none"]
ActiveLoans ==
    [state : {"active"}, borrower : Users, coin : Coins, debt : 1..MaxDebt,
     bid : {0}, bidder : {None}, first : {None}, over : {FALSE}]
Auctions ==
    [state : {"auction"}, borrower : Users, coin : Coins, debt : 1..MaxDebt,
     bid : Nat, bidder : Users, first : Users, over : BOOLEAN]
Loans == {NoLoan} \cup ActiveLoans \cup Auctions

TypeOK ==
    /\ money \in [Purses -> [Holders -> Nat]]
    /\ holder \in [Tokens -> Holders \cup {None}]
    /\ punk \in Holders \cup {"wrapper"}
    /\ offered \in BOOLEAN
    /\ loan \in [Tokens -> Loans]
    /\ by \in Users \cup {"time"}

Init ==
    /\ \E u \in Users :
         /\ holder = [t \in Tokens |-> IF t = "punk" THEN None ELSE u]
         /\ punk = u
    /\ money = [p \in Purses |-> [h \in Holders |->
         IF h \in Users /\ p # "bweth" THEN (IF p = "weth" THEN 0 ELSE Cash)
         ELSE IF h = "reserve" /\ p \in Coins THEN Liquidity ELSE 0]]
    /\ offered = FALSE
    /\ loan = [t \in Tokens |-> NoLoan]
    /\ by = "time"

(***************************************************************************)
(* A transaction: a copy of the state, what the last call returned (ret,   *)
(* all), and what a batch has spent so far (acc).                          *)
(***************************************************************************)

Now == [ok |-> TRUE, money |-> money, holder |-> holder, punk |-> punk, offered |-> offered,
        loan |-> loan, ret |-> 0, all |-> FALSE, acc |-> 0]

Require(w, condition) == [w EXCEPT !.ok = @ /\ condition]

Mint(w, purse, to, n) == [w EXCEPT !.money[purse][to] = @ + n]
Burn(w, purse, from, n) ==
    IF w.ok /\ w.money[purse][from] >= n
    THEN [w EXCEPT !.money[purse][from] = @ - n]
    ELSE [w EXCEPT !.ok = FALSE]

Move(w, purse, from, to, n) == Mint(Burn(w, purse, from, n), purse, to, n)

\* WETH.deposit and WETH.withdraw.
Wrap(w, g, n) == Mint(Burn(w, "eth", g, n), "weth", g, n)
Unwrap(w, g, n) == Mint(Burn(w, "weth", g, n), "eth", g, n)

MoveToken(w, t, from, to) ==
    [Require(w, w.holder[t] = from) EXCEPT !.holder[t] = to]

\* The items of a batch, one after the other.
InTurn(Do(_, _), w, items) ==
    LET after[i \in 0..Len(items)] ==
          IF i = 0 THEN w ELSE Do(after[i - 1], items[i])
    IN  after[Len(items)]

Commit(w, u) ==
    /\ w.ok
    /\ money' = w.money /\ holder' = w.holder /\ punk' = w.punk
    /\ offered' = w.offered /\ loan' = w.loan
    /\ by' = u

(***************************************************************************)
(* The pool, as its callers see it.                                        *)
(***************************************************************************)

Smaller(m, n) == IF m < n THEN m ELSE n
Over(m, n) == IF m > n THEN m - n ELSE 0
Percent(n, p) == (n * p + 50) \div 100

\* The fine follows the debt, and has a minimum.
FineOf(l) == IF l.debt < 4 THEN 1 ELSE 2

Deposit(w, g, n, for) ==
    Mint(Move(Require(w, n > 0), "weth", g, "reserve", n), "bweth", for, n)

Withdraw(w, g, n, to) ==
    Move(Burn(Require(w, n > 0), "bweth", g, n), "weth", "reserve", to, n)

Lend(w, g, coin, n, t, for, debt) ==
    IF ~w.ok THEN w
    ELSE Move([w EXCEPT !.loan[t] =
                 [state |-> "active", borrower |-> for, coin |-> coin, debt |-> debt,
                  bid |-> 0, bidder |-> None, first |-> None, over |-> FALSE]],
              coin, "reserve", g, n)

\* A further borrowing is the borrower's own, of the coin of the loan.
Borrow(w, g, coin, n, t, for) ==
    LET l == w.loan[t]
        owed == IF l.state = "none" THEN 0 ELSE l.debt
        w1 == Require(w, n > 0 /\ owed + n <= MaxDebt)
    IN  IF l.state = "none"
        THEN Lend(MoveToken(w1, t, g, "pool"), g, coin, n, t, for, n)
        ELSE Lend(Require(w1, l.state = "active" /\ l.coin = coin /\ l.borrower = for),
                  g, coin, n, t, for, owed + n)

Repay(w, g, t, n) ==
    LET l == w.loan[t] IN
    IF ~w.ok \/ l.state # "active" \/ n = 0 THEN [w EXCEPT !.ok = FALSE]
    ELSE LET pay == Smaller(n, l.debt)
             w1 == Move(w, l.coin, g, "reserve", pay)
         IN  IF n >= l.debt
             THEN [MoveToken(w1, t, "pool", l.borrower)
                     EXCEPT !.loan[t] = NoLoan, !.ret = pay, !.all = TRUE]
             ELSE [w1 EXCEPT !.loan[t].debt = @ - pay, !.ret = pay, !.all = FALSE]

Auction(w, g, t, bid, for) ==
    LET l == w.loan[t] IN
    IF ~w.ok \/ l.state = "none" THEN [w EXCEPT !.ok = FALSE]
    ELSE LET w1 == Require(w, /\ bid >= l.debt
                              /\ l.state = "active" => l.debt > Threshold
                              /\ l.state = "auction" => (~l.over /\ bid > l.bid))
             w2 == Move(w1, l.coin, g, "pool", bid)
             w3 == IF l.state = "auction" THEN Move(w2, l.coin, "pool", l.bidder, l.bid) ELSE w2
         IN  [w3 EXCEPT !.loan[t] = [l EXCEPT !.state = "auction", !.bid = bid, !.bidder = for,
                                       !.first = IF l.state = "active" THEN for ELSE @]]

RedeemableAt(l, n, fine) ==
    /\ l.state = "auction" /\ ~l.over /\ FineOf(l) <= fine
    /\ n > 0 /\ n < l.debt /\ n >= Percent(l.debt, 50) /\ n <= Percent(l.debt, 90)

\* Part of the debt is repaid; the bidder has the bid back, the first bidder
\* the fine.
Redeem(w, g, t, n, fine) ==
    LET l == w.loan[t] IN
    IF ~w.ok \/ ~RedeemableAt(l, n, fine) THEN [w EXCEPT !.ok = FALSE]
    ELSE LET w1 == Move(w, l.coin, g, "reserve", n)
             w2 == Move(w1, l.coin, "pool", l.bidder, l.bid)
             w3 == Move(w2, l.coin, g, l.first, FineOf(l))
         IN  [w3 EXCEPT !.ret = n + FineOf(l),
                        !.loan[t] = [l EXCEPT !.state = "active", !.debt = @ - n, !.bid = 0,
                                              !.bidder = None, !.first = None, !.over = FALSE]]

\* What the bid does not cover the caller pays, what it leaves is the
\* borrower's, and the bidder takes the token, whoever calls.
Liquidate(w, g, t, n) ==
    LET l == w.loan[t] IN
    IF ~w.ok \/ l.state # "auction" THEN [w EXCEPT !.ok = FALSE]
    ELSE LET extra == Over(l.debt, l.bid)
             w1 == Move(Require(w, l.over /\ n >= extra), l.coin, g, "pool", extra)
             w2 == Move(w1, l.coin, "pool", "reserve", l.debt)
             w3 == Move(w2, l.coin, "pool", l.borrower, Over(l.bid, l.debt))
         IN  [MoveToken(w3, t, "pool", l.bidder) EXCEPT !.loan[t] = NoLoan, !.ret = extra]

(***************************************************************************)
(* WETHGateway.  A caller u is a user or the punk gateway.                 *)
(***************************************************************************)

\* Fault: anyone may act in another's name.
AnyCaller(u, for) == TRUE

\* _checkValidCallerAndOnBehalfOf: the punk gateway is on the whitelist.
ValidCaller(u, for) == for = u \/ u = PG

\* What comes with the call.
Receive(w, u, g, value) == Move(w, "eth", u, g, value)

\* Fault: what the pool did not take is kept.
RefundNothing(w, u, g, value, spent) == w

\* What the pool did not take goes back to the caller.
Refund(w, u, g, value, spent) == Move(w, "eth", g, u, Over(value, spent))

\* The same for what was wrapped already.
RefundWrapped(w, u, value) ==
    Refund(Unwrap(w, WG, Over(value, w.ret)), u, WG, value, w.ret)

\* What one item of a batch took counts as spent.
Spent(w) == [w EXCEPT !.acc = @ + w.ret]

\* The end of a batch: ret is what all the items took.
EndBatch(w, u, g, value, before) ==
    [Refund(w, u, g, value, w.acc) EXCEPT !.ret = w.acc, !.acc = before]

IsWeth(w, t) == Require(w, w.loan[t].state # "none" /\ (w.ok => w.loan[t].coin = "weth"))

depositETH(w, u, value, for) ==
    LET w1 == Wrap(Receive(Require(w, ValidCaller(u, for)), u, WG, value), WG, value)
    IN  Deposit(w1, WG, value, for)

withdrawETH(w, u, n, to) ==
    LET w1 == Move(Require(w, ValidCaller(u, to)), "bweth", u, WG, n)
        w2 == Unwrap(Withdraw(w1, WG, n, WG), WG, n)
    IN  Move(w2, "eth", WG, to, n)

\* One item of borrowETH or batchBorrowETH.
BorrowItem(w, u, item, for) ==
    LET w1 == IF w.loan[item.t].state = "none" THEN MoveToken(w, item.t, u, WG) ELSE w
        w2 == Borrow(w1, WG, "weth", item.n, item.t, for)
    IN  Move(Unwrap(w2, WG, item.n), "eth", WG, for, item.n)

batchBorrowETH(w, u, items, for) ==
    InTurn(LAMBDA x, item : BorrowItem(x, u, item, for), Require(w, ValidCaller(u, for)), items)

\* Fault: the value has to exceed what is repaid.
RepayItemStrict(w, item, value) ==
    LET l == w.loan[item.t]
        w1 == IsWeth(w, item.t)
        pay == IF w1.ok THEN Smaller(item.n, l.debt) ELSE 0
    IN  Spent(Repay(Wrap(Require(w1, value > w.acc + pay), WG, pay), WG, item.t, item.n))

\* _repayETH
RepayItem(w, item, value) ==
    LET l == w.loan[item.t]
        w1 == IsWeth(w, item.t)
        pay == IF w1.ok THEN Smaller(item.n, l.debt) ELSE 0
    IN  Spent(Repay(Wrap(Require(w1, value >= w.acc + pay), WG, pay), WG, item.t, item.n))

StartBatch(w, u, g, value) == [Receive(w, u, g, value) EXCEPT !.acc = 0]

repayETH(w, u, item, value) ==
    EndBatch(RepayItem(StartBatch(w, u, WG, value), item, value), u, WG, value, w.acc)

batchRepayETH(w, u, items, value) ==
    LET w1 == InTurn(LAMBDA x, item : RepayItem(x, item, value),
                     StartBatch(w, u, WG, value), items)
    IN  EndBatch(w1, u, WG, value, w.acc)

auctionETH(w, u, t, value, for) ==
    LET w1 == IsWeth(Receive(Require(w, ValidCaller(u, for)), u, WG, value), t)
    IN  Auction(Wrap(w1, WG, value), WG, t, value, for)

redeemETH(w, u, t, n, fine, value) ==
    LET w1 == IsWeth(Receive(w, u, WG, value), t)
        w2 == Redeem(Wrap(Require(w1, value >= n + fine), WG, value), WG, t, n, fine)
    IN  RefundWrapped(w2, u, value)

liquidateETH(w, u, t, value) ==
    LET w1 == Wrap(IsWeth(Receive(w, u, WG, value), t), WG, value)
    IN  RefundWrapped(Liquidate(w1, WG, t, value), u, value)

(***************************************************************************)
(* PunkGateway.  The token of its loans is the wrapped punk.               *)
(***************************************************************************)

\* _depositPunk: bought for nothing from its owner, the caller, and wrapped.
DepositPunk(w, u) ==
    IF w.loan["punk"].state # "none" THEN w
    ELSE [Require(w, w.punk = u /\ w.offered)
            EXCEPT !.punk = "wrapper", !.offered = FALSE, !.holder["punk"] = PG]

\* _withdrawPunk
WithdrawPunk(w, u, for) ==
    IF w.ok /\ w.holder["punk"] = u /\ u = for
    THEN [w EXCEPT !.holder["punk"] = None, !.punk = for]
    ELSE [w EXCEPT !.ok = FALSE]

\* The punk goes back once the last of the debt is repaid, to the borrower alone.
Release(w, u, for) == IF w.ok /\ w.all THEN WithdrawPunk(w, u, for) ELSE w

\* In the coin of the loan: what the pool did not take goes back to the caller.
RefundCoin(w, u, coin, sent) == Move(w, coin, PG, u, Over(sent, w.ret))

\* In ETH the WETH gateway has given back what it did not spend.
RefundETH(w, u, value) == Refund(w, u, PG, value, w.ret)

\* One item of borrow or batchBorrow.
PunkBorrowItem(w, u, coin, n, for) ==
    Move(Borrow(DepositPunk(w, u), PG, coin, n, "punk", for), coin, PG, for, n)

punkBatchBorrow(w, u, coin, ns, for) ==
    InTurn(LAMBDA x, n : PunkBorrowItem(x, u, coin, n, for), Require(w, ValidCaller(u, for)), ns)

\* One item of repay or batchRepay.
PunkRepayItem(w, u, n) ==
    LET l == w.loan["punk"] IN
    IF ~w.ok \/ l.state = "none" THEN [w EXCEPT !.ok = FALSE]
    ELSE LET pay == Smaller(n, l.debt)
         IN  Release(Repay(Move(w, l.coin, u, PG, pay), PG, "punk", pay), u, l.borrower)

punkBatchRepay(w, u, ns) == InTurn(LAMBDA x, n : PunkRepayItem(x, u, n), w, ns)

punkAuction(w, u, bid, for) ==
    LET l == w.loan["punk"] IN
    IF l.state = "none" THEN [w EXCEPT !.ok = FALSE]
    ELSE Auction(Move(Require(w, ValidCaller(u, for)), l.coin, u, PG, bid), PG, "punk", bid, for)

punkRedeem(w, u, n, fine) ==
    LET l == w.loan["punk"] IN
    IF l.state = "none" THEN [w EXCEPT !.ok = FALSE]
    ELSE RefundCoin(Redeem(Move(w, l.coin, u, PG, n + fine), PG, "punk", n, fine),
                    u, l.coin, n + fine)

punkLiquidate(w, u, n) ==
    LET l == w.loan["punk"] IN
    IF l.state = "none" THEN [w EXCEPT !.ok = FALSE]
    ELSE LET w1 == Move(Require(w, l.bidder = u), l.coin, u, PG, n)
         IN  RefundCoin(WithdrawPunk(Liquidate(w1, PG, "punk", n), u, l.bidder),
                        u, l.coin, n)

\* All the punks are deposited before the first is borrowed on.
punkBatchBorrowETH(w, u, ns, for) ==
    LET w1 == InTurn(LAMBDA x, n : DepositPunk(x, u), Require(w, ValidCaller(u, for)), ns)
    IN  batchBorrowETH(w1, PG, [i \in DOMAIN ns |-> [t |-> "punk", n |-> ns[i]]], for)

\* One item of repayETH or batchRepayETH, passed on with just its money.
PunkRepayItemETH(w, u, n, value) ==
    LET l == w.loan["punk"] IN
    IF ~w.ok \/ l.state = "none" THEN [w EXCEPT !.ok = FALSE]
    ELSE LET pay == Smaller(n, l.debt)
             w1 == Require(w, l.borrower = u /\ value >= w.acc + pay)
             w2 == repayETH(w1, PG, [t |-> "punk", n |-> n], pay)
         IN  Spent(Release(w2, u, l.borrower))

punkBatchRepayETH(w, u, ns, value) ==
    LET w1 == InTurn(LAMBDA x, n : PunkRepayItemETH(x, u, n, value),
                     StartBatch(w, u, PG, value), ns)
    IN  EndBatch(w1, u, PG, value, w.acc)

punkAuctionETH(w, u, value, for) ==
    auctionETH(Receive(Require(w, ValidCaller(u, for)), u, PG, value), PG, "punk", value, for)

punkRedeemETH(w, u, n, fine, value) ==
    RefundETH(redeemETH(Receive(w, u, PG, value), PG, "punk", n, fine, value), u, value)

punkLiquidateETH(w, u, value) ==
    LET l == w.loan["punk"] IN
    IF l.state = "none" THEN [w EXCEPT !.ok = FALSE]
    ELSE LET w1 == Receive(Require(w, l.bidder = u), u, PG, value)
         IN  RefundETH(WithdrawPunk(liquidateETH(w1, PG, "punk", value), u, l.bidder),
                       u, value)

(***************************************************************************)
(* The users' transactions.                                                *)
(***************************************************************************)

Batches(S) == UNION {[1..n -> S] : n \in 0..MaxBatch}
Items == [t : Tokens, n : Amounts]

Fines == {1, 2}

UseSavings(u) ==
    /\ "save" \in Doors
    /\ \E n \in Amounts, for \in Users :
         Commit(depositETH(Now, u, n, for), u) \/ Commit(withdrawETH(Now, u, n, for), u)

UseWethGateway(u) ==
    /\ "weth" \in Doors
    /\ \E t \in Tokens, n \in Amounts :
        \/ \E for \in Users : Commit(batchBorrowETH(Now, u, <<[t |-> t, n |-> n]>>, for), u)
        \/ \E value \in Amounts : Commit(repayETH(Now, u, [t |-> t, n |-> n], value), u)
        \/ \E for \in Users : Commit(auctionETH(Now, u, t, n, for), u)
        \/ \E fine \in Fines, value \in Amounts : Commit(redeemETH(Now, u, t, n, fine, value), u)
        \/ Commit(liquidateETH(Now, u, t, n), u)
        \/ Commit(liquidateETH(Now, u, t, 0), u)

UsePunkGatewayETH(u) ==
    /\ "punk" \in Doors
    /\ \E n \in Amounts :
        \/ \E for \in Users : Commit(punkBatchBorrowETH(Now, u, <<n>>, for), u)
        \/ \E value \in Amounts : Commit(punkBatchRepayETH(Now, u, <<n>>, value), u)
        \/ \E for \in Users : Commit(punkAuctionETH(Now, u, n, for), u)
        \/ \E fine \in Fines, value \in Amounts : Commit(punkRedeemETH(Now, u, n, fine, value), u)
        \/ Commit(punkLiquidateETH(Now, u, n), u)
        \/ Commit(punkLiquidateETH(Now, u, 0), u)

UsePunkGateway(u) ==
    /\ "coin" \in Doors
    /\ \E n \in Amounts :
        \/ \E coin \in Coins, for \in Users : Commit(punkBatchBorrow(Now, u, coin, <<n>>, for), u)
        \/ Commit(punkBatchRepay(Now, u, <<n>>), u)
        \/ \E for \in Users : Commit(punkAuction(Now, u, n, for), u)
        \/ \E fine \in Fines : Commit(punkRedeem(Now, u, n, fine), u)
        \/ Commit(punkLiquidate(Now, u, n), u)
        \/ Commit(punkLiquidate(Now, u, 0), u)

UseBatches(u) ==
    /\ "batch" \in Doors
    /\ \/ \E items \in Batches(Items), for \in Users : Commit(batchBorrowETH(Now, u, items, for), u)
       \/ \E items \in Batches(Items), value \in Amounts :
            Commit(batchRepayETH(Now, u, items, value), u)
       \/ /\ "punk" \in Tokens
          /\ \E ns \in Batches(Amounts), value \in Amounts :
               \/ \E for \in Users : Commit(punkBatchBorrowETH(Now, u, ns, for), u)
               \/ \E coin \in Coins, for \in Users : Commit(punkBatchBorrow(Now, u, coin, ns, for), u)
               \/ Commit(punkBatchRepayETH(Now, u, ns, value), u)
               \/ Commit(punkBatchRepay(Now, u, ns), u)

\* The punk's owner offers it to the gateway; a holder of the wrapped punk
\* unwraps it.
HandlePunk(u) ==
    /\ "punk" \in Tokens
    /\ \/ punk = u /\ ~offered /\ Commit([Now EXCEPT !.offered = TRUE], u)
       \/ holder["punk"] = u /\ Commit([Now EXCEPT !.holder["punk"] = None, !.punk = u], u)

\* The same pool without a gateway: anyone may repay or liquidate.
UsePool(u) ==
    /\ "pool" \in Doors
    /\ \E t \in Tokens, n \in Amounts :
        \/ \E coin \in Coins : Commit(Borrow(Now, u, coin, n, t, u), u)
        \/ Commit(Repay(Now, u, t, n), u)
        \/ Commit(Liquidate(Now, u, t, n), u)

\* Interest, and the end of an auction.
Time ==
    \E t \in Tokens :
        /\ loan[t].state # "none"
        /\ \/ /\ loan[t].debt < MaxDebt
              /\ loan' = [loan EXCEPT ![t].debt = @ + 1]
           \/ /\ loan[t].state = "auction" /\ ~loan[t].over
              /\ loan' = [loan EXCEPT ![t].over = TRUE]
        /\ by' = "time"
        /\ UNCHANGED <<money, holder, punk, offered>>

Next ==
    \/ \E u \in Users :
         \/ UseSavings(u) \/ UseWethGateway(u) \/ UsePunkGatewayETH(u) \/ UsePunkGateway(u)
         \/ UseBatches(u) \/ HandlePunk(u) \/ UsePool(u)
    \/ Time

Spec == Init /\ [][Next]_vars

(***************************************************************************)
(* Properties.                                                             *)
(***************************************************************************)

\* No call leaves ETH, coins, bWETH, a token or a punk with a gateway: what it
\* took from its caller and from the pool it has passed on or given back.  And a
\* wrapped punk exists while the wrapper has the punk, and only then.
GatewaysKeepNothing ==
    /\ TypeOK
    /\ \A g \in {WG, PG} :
          /\ \A p \in Purses : money[p][g] = 0
          /\ \A t \in Tokens : holder[t] # g
          /\ punk # g
    /\ "punk" \in Tokens => ((punk = "wrapper") <=> (holder["punk"] # None))

Worth(u) == money["eth"][u] + money["bweth"][u]
              + (IF "weth" \in Coins THEN money["weth"][u] ELSE 0)
              + (IF "usdc" \in Coins THEN money["usdc"][u] ELSE 0)
Owes(u, t) == IF loan[t].state # "none" /\ loan[t].borrower = u THEN loan[t].debt ELSE 0
OwnerOf(t) == IF t = "punk" /\ punk # "wrapper" THEN punk ELSE holder[t]

\* Nobody acts for another, though all have approved the gateways for everything
\* they own, delegated credit to them and may offer a punk to one: by a call of
\* someone else nobody pays, nobody's debt grows, and nobody's token is pledged.
NobodyActsForAnother ==
    [][\A u \in Users :
         by' # u =>
            /\ Worth(u)' >= Worth(u)
            /\ \A t \in Tokens :
                 /\ by' # "time" => Owes(u, t)' <= Owes(u, t)
                 /\ OwnerOf(t) = u => OwnerOf(t)' = u]_vars

\* A borrower who has the money closes the loan: through the gateway, with
\* just the debt or with more, and gets the token, the punk as a punk.
RepayAlwaysWorks ==
    \A t \in Tokens :
        (loan[t].state = "active" /\ loan[t].coin = "weth") =>
            LET u == loan[t].borrower
                d == loan[t].debt
                rich == [Now EXCEPT !.money["eth"][u] = @ + MaxDebt + 1]
            IN  \A more \in {0, 1} :
                  LET w == IF t = "punk" THEN punkBatchRepayETH(rich, u, <<d + more>>, d + more)
                           ELSE repayETH(rich, u, [t |-> t, n |-> d + more], d + more)
                  IN  /\ w.ok
                      /\ w.loan[t] = NoLoan
                      /\ (IF t = "punk" THEN w.punk ELSE w.holder[t]) = u
                      /\ w.money["eth"][u] = money["eth"][u] + MaxDebt + 1 - d
=============================================================================
