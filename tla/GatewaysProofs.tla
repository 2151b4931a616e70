--------------------------- MODULE GatewaysProofs ---------------------------
(***************************************************************************)
(* The gateways keep nothing, nobody acts for another through them, and a  *)
(* borrower who has the money can always repay.                            *)
(*                                                                         *)
(* A call is a chain of operators on a copy of the state.  The relation    *)
(* Pass(w, v, u, g, p, k) between the copies before and after a part of    *)
(* it says that whatever u did, nobody else is worse off, that of all the  *)
(* gateways' money only what g has in purse p changed, by k, and that no   *)
(* gateway got a token or a punk.  Passes compose and the amounts add up:  *)
(* each operator of Gateways has one lemma, each call comes to zero.       *)
(* That a repayment goes through is a second chain of lemmas, along the    *)
(* calls of one repayment, each with the amount its caller then has less.  *)
(***************************************************************************)
EXTENDS Gateways, Integers, WellFoundedInduction, TLAPS

World == [ok : BOOLEAN, money : [Purses -> [Holders -> Nat]],
          holder : [Tokens -> Holders \cup {None}], punk : Holders \cup {"wrapper"},
          offered : BOOLEAN, loan : [Tokens -> Loans], ret : Nat, all : BOOLEAN, acc : Nat]

\* What a payment leaves alone.
Rest(w) == <<w.holder, w.punk, w.offered, w.loan, w.ret, w.all, w.acc>>

LEMMA Fields ==
  ASSUME NEW w \in World
  PROVE  /\ w.ok \in BOOLEAN /\ w.money \in [Purses -> [Holders -> Nat]]
         /\ w.holder \in [Tokens -> Holders \cup {None}] /\ w.punk \in Holders \cup {"wrapper"}
         /\ w.offered \in BOOLEAN /\ w.loan \in [Tokens -> Loans]
         /\ w.ret \in Nat /\ w.all \in BOOLEAN /\ w.acc \in Nat
PROOF
  BY DEF World

LEMMA Fail ==
  ASSUME NEW w \in World
  PROVE  LET v == [w EXCEPT !.ok = FALSE]
         IN  v \in World /\ v.ok = FALSE /\ v.money = w.money /\ Rest(v) = Rest(w)
PROOF
  BY DEF World, Rest

LEMMA RequireStep ==
  ASSUME NEW w \in World, NEW c \in BOOLEAN
  PROVE  /\ Require(w, c) \in World
         /\ Require(w, c).ok = (w.ok /\ c)
         /\ Require(w, c).money = w.money /\ Rest(Require(w, c)) = Rest(w)
PROOF
  BY DEF Require, World, Rest

\* One entry of the books changes.
LEMMA SetMoney ==
  ASSUME NEW w \in World, NEW p \in Purses, NEW h \in Holders, NEW k \in Nat
  PROVE  LET v == [w EXCEPT !.money[p][h] = k]
         IN  /\ v \in World /\ v.ok = w.ok /\ Rest(v) = Rest(w)
             /\ \A q \in Purses, x \in Holders :
                  v.money[q][x] = IF q = p /\ x = h THEN k ELSE w.money[q][x]
PROOF
  <1> DEFINE m == [w.money EXCEPT ![p][h] = k]
  <1> DEFINE v == [w EXCEPT !.money[p][h] = k]
  <1>1. w.money \in [Purses -> [Holders -> Nat]]
    BY Fields
  <1>2. m \in [Purses -> [Holders -> Nat]]
    BY <1>1
  <1>3. \A q \in Purses, x \in Holders : m[q][x] = IF q = p /\ x = h THEN k ELSE w.money[q][x]
    BY <1>1
  <1>4. v = [w EXCEPT !.money = m]
    BY DEF World
  <1> HIDE DEF m
  <1>5. [w EXCEPT !.money = m] \in World
    BY <1>2 DEF World
  <1>6. v.money = m /\ v.ok = w.ok /\ Rest(v) = Rest(w)
    BY <1>4 DEF World, Rest
  <1> QED BY <1>3, <1>4, <1>5, <1>6

LEMMA MintStep ==
  ASSUME NEW w \in World, NEW p \in Purses, NEW h \in Holders, NEW n \in Nat
  PROVE  LET v == Mint(w, p, h, n)
         IN  /\ v \in World /\ v.ok = w.ok /\ Rest(v) = Rest(w)
             /\ \A q \in Purses, x \in Holders :
                  v.money[q][x] = w.money[q][x] + (IF q = p /\ x = h THEN n ELSE 0)
PROOF
  <1> DEFINE k == w.money[p][h] + n
  <1>1. \A q \in Purses, x \in Holders : w.money[q][x] \in Nat
    BY Fields
  <1>2. k \in Nat
    BY <1>1
  <1>3. Mint(w, p, h, n) = [w EXCEPT !.money[p][h] = k]
    BY DEF Mint
  <1>4. \A q \in Purses, x \in Holders :
          (IF q = p /\ x = h THEN k ELSE w.money[q][x])
            = w.money[q][x] + (IF q = p /\ x = h THEN n ELSE 0)
    BY <1>1
  <1> HIDE DEF k
  <1> QED BY ONLY <1>2, <1>3, <1>4, SetMoney, w \in World, p \in Purses, h \in Holders

LEMMA BurnStep ==
  ASSUME NEW w \in World, NEW p \in Purses, NEW h \in Holders, NEW n \in Nat
  PROVE  LET v == Burn(w, p, h, n)
         IN  /\ v \in World /\ v.ok = (w.ok /\ w.money[p][h] >= n) /\ Rest(v) = Rest(w)
             /\ v.ok => \A q \in Purses, x \in Holders :
                  v.money[q][x] = w.money[q][x] - (IF q = p /\ x = h THEN n ELSE 0)
PROOF
  <1>1. \A q \in Purses, x \in Holders : w.money[q][x] \in Nat
    BY Fields
  <1>2. CASE w.ok /\ w.money[p][h] >= n
    <2> DEFINE k == w.money[p][h] - n
    <2>1. k \in Nat
      BY <1>1, <1>2
    <2>2. Burn(w, p, h, n) = [w EXCEPT !.money[p][h] = k]
      BY <1>2 DEF Burn
    <2>3. \A q \in Purses, x \in Holders :
            (IF q = p /\ x = h THEN k ELSE w.money[q][x])
              = w.money[q][x] - (IF q = p /\ x = h THEN n ELSE 0)
      BY <1>1
    <2>4. w.ok = (w.ok /\ w.money[p][h] >= n)
      BY <1>2, Fields
    <2> HIDE DEF k
    <2> QED BY ONLY <2>1, <2>2, <2>3, <2>4, SetMoney, w \in World, p \in Purses, h \in Holders
  <1>3. CASE ~(w.ok /\ w.money[p][h] >= n)
    <2>1. Burn(w, p, h, n) = [w EXCEPT !.ok = FALSE]
      BY <1>3 DEF Burn
    <2>2. Burn(w, p, h, n) \in World /\ Burn(w, p, h, n).ok = FALSE
            /\ Rest(Burn(w, p, h, n)) = Rest(w)
      BY <2>1, Fail
    <2>3. Burn(w, p, h, n).ok = (w.ok /\ w.money[p][h] >= n)
      BY <1>3, <2>2
    <2> QED BY ONLY <2>2, <2>3
  <1> QED BY <1>2, <1>3

(***************************************************************************)
(* What an operation of u does to the others, and to the gateways' books.  *)
(***************************************************************************)

Gates == {WG, PG}

OwesIn(w, x, t) ==
    IF w.loan[t].state # "none" /\ w.loan[t].borrower = x THEN w.loan[t].debt ELSE 0
OwnerIn(w, t) == IF t = "punk" /\ w.punk # "wrapper" THEN w.punk ELSE w.holder[t]
Wrapped(w) == "punk" \in Tokens => ((w.punk = "wrapper") <=> (w.holder["punk"] # None))

NotPoorer(w, v, x) == \A p \in Purses : v.money[p][x] >= w.money[p][x]
NotBound(w, v, x) ==
    \A t \in Tokens : OwesIn(v, x, t) <= OwesIn(w, x, t) /\ (OwnerIn(w, t) = x => OwnerIn(v, t) = x)

\* Nobody but u is worse off.
Fair(w, v, u) ==
    Wrapped(w) => Wrapped(v) /\ \A x \in Users \ {u} : NotPoorer(w, v, x) /\ NotBound(w, v, x)

\* Of the gateways' money only that of g in purse p changes, by k.
Shift(w, v, g, p, k) ==
    \A q \in Purses, h \in Gates :
        v.money[q][h] = w.money[q][h] + (IF q = p /\ h = g THEN k ELSE 0)

\* What secures a loan is in the pool.
Pledged(w) == \A t \in Tokens : w.loan[t].state # "none" => w.holder[t] = "pool"

\* No gateway gets a token or a punk, and what is pledged stays in the pool.
Clean(w, v) ==
    /\ \A t \in Tokens : v.holder[t] \in Gates => v.holder[t] = w.holder[t]
    /\ v.punk \in Gates => v.punk = w.punk
    /\ Pledged(w) => Pledged(v)

Pay(w, v, u, g, p, k) == v \in World /\ (v.ok => w.ok /\ Fair(w, v, u) /\ Shift(w, v, g, p, k))
Pass(w, v, u, g, p, k) == Pay(w, v, u, g, p, k) /\ (v.ok => Clean(w, v))

LEMMA LoanKinds ==
  ASSUME NEW l \in Loans
  PROVE  /\ l.state \in {"none", "active", "auction"}
         /\ l.state = "none" => l = NoLoan
         /\ l.state # "none" => l.borrower \in Users /\ l.coin \in Coins /\ l.debt \in 1..MaxDebt
         /\ l.state = "active" => l \in ActiveLoans
         /\ l.state = "auction" =>
              l \in Auctions /\ l.bid \in Nat /\ l.bidder \in Users /\ l.first \in Users
PROOF
  <1>1. CASE l = NoLoan
    BY <1>1 DEF NoLoan
  <1>2. CASE l \in ActiveLoans
    BY <1>2 DEF ActiveLoans
  <1>3. CASE l \in Auctions
    BY <1>3 DEF Auctions
  <1> QED BY <1>1, <1>2, <1>3 DEF Loans

LEMMA DebtNat == \A d \in 1..MaxDebt : d \in Nat /\ d > 0
PROOF
  BY GatewayAssumption

LEMMA OwesNat ==
  ASSUME NEW w \in World, NEW x, NEW t \in Tokens
  PROVE  OwesIn(w, x, t) \in Nat
PROOF
  <1>1. w.loan[t] \in Loans
    BY Fields
  <1>2. w.loan[t].state # "none" => w.loan[t].debt \in Nat
    BY <1>1, LoanKinds, DebtNat
  <1> QED BY ONLY <1>2 DEF OwesIn

LEMMA FairTrans ==
  ASSUME NEW w \in World, NEW v \in World, NEW z \in World, NEW u, Fair(w, v, u), Fair(v, z, u)
  PROVE  Fair(w, z, u)
PROOF
  <1>1. SUFFICES ASSUME Wrapped(w), NEW x \in Users \ {u}
                 PROVE  Wrapped(z) /\ NotPoorer(w, z, x) /\ NotBound(w, z, x)
    BY DEF Fair
  <1>2. Wrapped(v) /\ NotPoorer(w, v, x) /\ NotBound(w, v, x)
    BY <1>1 DEF Fair
  <1>3. Wrapped(z) /\ NotPoorer(v, z, x) /\ NotBound(v, z, x)
    BY <1>1, <1>2 DEF Fair
  <1>4. NotPoorer(w, z, x)
    <2> SUFFICES ASSUME NEW p \in Purses PROVE z.money[p][x] >= w.money[p][x]
      BY DEF NotPoorer
    <2>1. w.money[p][x] \in Nat /\ v.money[p][x] \in Nat /\ z.money[p][x] \in Nat
      BY Fields DEF Holders
    <2>2. v.money[p][x] >= w.money[p][x] /\ z.money[p][x] >= v.money[p][x]
      BY <1>2, <1>3 DEF NotPoorer
    <2> QED BY <2>1, <2>2
  <1>5. NotBound(w, z, x)
    <2> SUFFICES ASSUME NEW t \in Tokens
                 PROVE  OwesIn(z, x, t) <= OwesIn(w, x, t) /\ (OwnerIn(w, t) = x => OwnerIn(z, t) = x)
      BY DEF NotBound
    <2>1. OwesIn(w, x, t) \in Nat /\ OwesIn(v, x, t) \in Nat /\ OwesIn(z, x, t) \in Nat
      BY OwesNat
    <2>2. OwesIn(v, x, t) <= OwesIn(w, x, t) /\ (OwnerIn(w, t) = x => OwnerIn(v, t) = x)
      BY <1>2 DEF NotBound
    <2>3. OwesIn(z, x, t) <= OwesIn(v, x, t) /\ (OwnerIn(v, t) = x => OwnerIn(z, t) = x)
      BY <1>3 DEF NotBound
    <2> QED BY ONLY <2>1, <2>2, <2>3
  <1> QED BY <1>3, <1>4, <1>5

LEMMA ShiftTrans ==
  ASSUME NEW w \in World, NEW v \in World, NEW z \in World, NEW g, NEW p,
         NEW j \in Int, NEW k \in Int, Shift(w, v, g, p, j), Shift(v, z, g, p, k)
  PROVE  Shift(w, z, g, p, j + k)
PROOF
  <1> SUFFICES ASSUME NEW q \in Purses, NEW h \in Gates
               PROVE  z.money[q][h] = w.money[q][h] + (IF q = p /\ h = g THEN j + k ELSE 0)
    BY DEF Shift
  <1>1. w.money[q][h] \in Nat /\ v.money[q][h] \in Nat /\ z.money[q][h] \in Nat
    BY Fields DEF Gates, Holders, Contracts
  <1>2. v.money[q][h] = w.money[q][h] + (IF q = p /\ h = g THEN j ELSE 0)
    BY DEF Shift
  <1>3. z.money[q][h] = v.money[q][h] + (IF q = p /\ h = g THEN k ELSE 0)
    BY DEF Shift
  <1> QED BY ONLY <1>1, <1>2, <1>3, j \in Int, k \in Int

LEMMA CleanTrans ==
  ASSUME NEW w, NEW v, NEW z, Clean(w, v), Clean(v, z)
  PROVE  Clean(w, z)
PROOF
  BY DEF Clean

LEMMA PayTrans ==
  ASSUME NEW w \in World, NEW v, NEW z, NEW u, NEW g, NEW p, NEW j \in Int, NEW k \in Int,
         Pay(w, v, u, g, p, j), Pay(v, z, u, g, p, k)
  PROVE  Pay(w, z, u, g, p, j + k)
PROOF
  BY FairTrans, ShiftTrans DEF Pay

LEMMA PayIdle ==
  ASSUME NEW w \in World, NEW v, NEW u, NEW g, NEW p, NEW k \in Int, Pay(w, v, u, g, p, k),
         k = 0 \/ g \notin Gates, NEW h, NEW q
  PROVE  Pay(w, v, u, h, q, 0)
PROOF
  BY DEF Pay, Shift

LEMMA PassTrans ==
  ASSUME NEW w \in World, NEW v, NEW z, NEW u, NEW g, NEW p, NEW j \in Int, NEW k \in Int,
         Pass(w, v, u, g, p, j), Pass(v, z, u, g, p, k)
  PROVE  Pass(w, z, u, g, p, j + k)
PROOF
  <1>1. Pay(w, z, u, g, p, j + k)
    BY PayTrans DEF Pass
  <1>2. z.ok => v.ok
    BY DEF Pass, Pay
  <1> QED BY <1>1, <1>2, CleanTrans DEF Pass

LEMMA PassIdle ==
  ASSUME NEW w \in World, NEW v, NEW u, NEW g, NEW p, NEW k \in Int, Pass(w, v, u, g, p, k),
         k = 0 \/ g \notin Gates, NEW h, NEW q
  PROVE  Pass(w, v, u, h, q, 0)
PROOF
  BY PayIdle DEF Pass

(***************************************************************************)
(* Payments.                                                               *)
(***************************************************************************)

\* Whose money and tokens an operation of u may take.
Actors(u) == {u} \cup Contracts

LEMMA Names ==
  /\ WG \in Gates /\ PG \in Gates /\ WG # PG /\ Gates \subseteq Contracts
  /\ "pool" \in Contracts \ Gates /\ "reserve" \in Contracts \ Gates
  /\ Contracts \subseteq Holders /\ Users \subseteq Holders /\ Users \cap Contracts = {}
  /\ None \notin Holders /\ "wrapper" \notin Holders /\ "time" \notin Users
  /\ "eth" \in Purses /\ "bweth" \in Purses /\ "weth" \in Coins /\ Coins \subseteq Purses
PROOF
  BY GatewayAssumption DEF Gates, Contracts, Holders, Purses, WG, PG

LEMMA FairPayment ==
  ASSUME NEW w \in World, NEW v \in World, NEW u, Rest(v) = Rest(w),
         \A x \in Users \ {u} : NotPoorer(w, v, x)
  PROVE  Fair(w, v, u)
PROOF
  <1>1. v.holder = w.holder /\ v.punk = w.punk /\ v.loan = w.loan
    BY DEF Rest
  <1>2. \A x, t : OwesIn(v, x, t) = OwesIn(w, x, t) /\ OwnerIn(v, t) = OwnerIn(w, t)
    BY <1>1 DEF OwesIn, OwnerIn
  <1>3. \A x, t : t \in Tokens => OwesIn(w, x, t) <= OwesIn(w, x, t)
    BY OwesNat
  <1>4. Wrapped(w) => Wrapped(v)
    BY <1>1 DEF Wrapped
  <1> QED BY <1>2, <1>3, <1>4 DEF Fair, NotBound

LEMMA CleanPayment ==
  ASSUME NEW w, NEW v, Rest(v) = Rest(w)
  PROVE  Clean(w, v)
PROOF
  BY DEF Rest, Clean, Pledged

LEMMA NotPoorerSame ==
  ASSUME NEW w \in World, NEW v, v.money = w.money, NEW x \in Users
  PROVE  NotPoorer(w, v, x)
PROOF
  <1>1. \A p \in Purses : w.money[p][x] \in Nat
    BY Fields, Names
  <1> QED BY <1>1 DEF NotPoorer

LEMMA ShiftSame ==
  ASSUME NEW w \in World, NEW v, v.money = w.money, NEW g, NEW p
  PROVE  Shift(w, v, g, p, 0)
PROOF
  <1>1. \A q \in Purses, h \in Gates : w.money[q][h] \in Nat
    BY Fields, Names
  <1> QED BY <1>1 DEF Shift

LEMMA RequirePass ==
  ASSUME NEW w \in World, NEW u, NEW c \in BOOLEAN, NEW g, NEW p
  PROVE  Pass(w, Require(w, c), u, g, p, 0) /\ (Require(w, c).ok => c)
PROOF
  <1> DEFINE v == Require(w, c)
  <1>1. v \in World /\ v.ok = (w.ok /\ c) /\ v.money = w.money /\ Rest(v) = Rest(w)
    BY RequireStep
  <1> HIDE DEF v
  <1>2. Fair(w, v, u)
    BY <1>1, NotPoorerSame, FairPayment
  <1>3. Clean(w, v) /\ Shift(w, v, g, p, 0)
    BY <1>1, CleanPayment, ShiftSame
  <1> QED BY <1>1, <1>2, <1>3 DEF Pass, Pay, v

LEMMA MintPass ==
  ASSUME NEW w \in World, NEW u, NEW p \in Purses, NEW h \in Holders, NEW n \in Nat
  PROVE  Pass(w, Mint(w, p, h, n), u, h, p, n)
PROOF
  <1> DEFINE v == Mint(w, p, h, n)
  <1>1. v \in World /\ v.ok = w.ok /\ Rest(v) = Rest(w)
    BY MintStep
  <1>2. \A q \in Purses, x \in Holders :
          v.money[q][x] = w.money[q][x] + (IF q = p /\ x = h THEN n ELSE 0)
    BY MintStep
  <1> HIDE DEF v
  <1>3. \A q \in Purses, x \in Holders : w.money[q][x] \in Nat
    BY Fields
  <1>4. \A x \in Users \ {u} : NotPoorer(w, v, x)
    BY <1>2, <1>3, Names DEF NotPoorer
  <1>5. Fair(w, v, u) /\ Clean(w, v)
    BY <1>1, <1>4, FairPayment, CleanPayment
  <1>6. Shift(w, v, h, p, n)
    BY <1>2, Names DEF Shift
  <1> QED BY <1>1, <1>5, <1>6 DEF Pass, Pay, v

LEMMA BurnPass ==
  ASSUME NEW w \in World, NEW u \in Users, NEW p \in Purses, NEW h \in Actors(u), NEW n \in Nat
  PROVE  Pass(w, Burn(w, p, h, n), u, h, p, -n)
PROOF
  <1> DEFINE v == Burn(w, p, h, n)
  <1>1. h \in Holders /\ h \notin Users \ {u}
    BY Names DEF Actors
  <1>2. v \in World /\ v.ok = (w.ok /\ w.money[p][h] >= n) /\ Rest(v) = Rest(w)
    BY <1>1, BurnStep
  <1>3. v.ok => \A q \in Purses, x \in Holders :
          v.money[q][x] = w.money[q][x] - (IF q = p /\ x = h THEN n ELSE 0)
    BY <1>1, BurnStep
  <1> HIDE DEF v
  <1>4. \A q \in Purses, x \in Holders : w.money[q][x] \in Nat
    BY Fields
  <1>5. v.ok => \A x \in Users \ {u} : NotPoorer(w, v, x)
    BY <1>1, <1>3, <1>4, Names DEF NotPoorer
  <1>6. v.ok => Fair(w, v, u) /\ Clean(w, v)
    BY <1>2, <1>5, FairPayment, CleanPayment
  <1>7. v.ok => Shift(w, v, h, p, -n)
    BY <1>3, <1>4, Names DEF Shift
  <1> QED BY <1>2, <1>6, <1>7 DEF Pass, Pay, v

LEMMA MoveOut ==
  ASSUME NEW w \in World, NEW u \in Users, NEW p \in Purses, NEW g \in Actors(u),
         NEW x \in Holders \ Gates, NEW n \in Nat
  PROVE  Pass(w, Move(w, p, g, x, n), u, g, p, -n)
PROOF
  <1> DEFINE w1 == Burn(w, p, g, n)
  <1>1. Pass(w, w1, u, g, p, -n)
    BY BurnPass
  <1> DEFINE v == Mint(w1, p, x, n)
  <1>2. w1 \in World
    BY <1>1 DEF Pass, Pay
  <1> HIDE DEF w1
  <1>3. Pass(w1, v, u, x, p, n)
    BY <1>2, MintPass
  <1> HIDE DEF v
  <1>4. Pass(w1, v, u, g, p, 0)
    BY <1>2, <1>3, PassIdle
  <1>5. Pass(w, v, u, g, p, -n + 0)
    BY <1>1, <1>4, PassTrans
  <1> QED BY <1>5 DEF v, w1, Move

LEMMA MoveIn ==
  ASSUME NEW w \in World, NEW u \in Users, NEW p \in Purses, NEW x \in Actors(u) \ Gates,
         NEW g \in Holders, NEW n \in Nat
  PROVE  Pass(w, Move(w, p, x, g, n), u, g, p, n)
PROOF
  <1> DEFINE w1 == Burn(w, p, x, n)
  <1>1. Pass(w, w1, u, x, p, -n)
    BY BurnPass
  <1>2. Pass(w, w1, u, g, p, 0)
    BY <1>1, PassIdle
  <1> DEFINE v == Mint(w1, p, g, n)
  <1>3. w1 \in World
    BY <1>1 DEF Pass, Pay
  <1> HIDE DEF w1
  <1>4. Pass(w1, v, u, g, p, n)
    BY <1>3, MintPass
  <1> HIDE DEF v
  <1>5. Pass(w, v, u, g, p, 0 + n)
    BY <1>2, <1>4, PassTrans
  <1> QED BY <1>5 DEF v, w1, Move

LEMMA MoveAround ==
  ASSUME NEW w \in World, NEW u \in Users, NEW p \in Purses, NEW x \in Actors(u) \ Gates,
         NEW y \in Holders \ Gates, NEW n \in Nat, NEW g, NEW q
  PROVE  Pass(w, Move(w, p, x, y, n), u, g, q, 0)
PROOF
  <1>1. Pass(w, Move(w, p, x, y, n), u, y, p, n)
    BY MoveIn
  <1> QED BY <1>1, PassIdle

\* What a payment keeps.
LEMMA MoveRest ==
  ASSUME NEW w \in World, NEW p \in Purses, NEW x \in Holders, NEW y \in Holders, NEW n \in Nat
  PROVE  Rest(Move(w, p, x, y, n)) = Rest(w) /\ Move(w, p, x, y, n) \in World
PROOF
  BY BurnStep, MintStep DEF Move

LEMMA MoveOk ==
  ASSUME NEW w \in World, NEW p \in Purses, NEW x \in Holders, NEW y \in Holders, NEW n \in Nat
  PROVE  Move(w, p, x, y, n).ok = (w.ok /\ w.money[p][x] >= n)
PROOF
  BY BurnStep, MintStep DEF Move

LEMMA WrapPass ==
  ASSUME NEW w \in World, NEW u \in Users, NEW g \in Gates, NEW n \in Nat
  PROVE  \E v \in World : Pass(w, v, u, g, "eth", -n) /\ Pass(v, Wrap(w, g, n), u, g, "weth", n)
PROOF
  <1> DEFINE v == Burn(w, "eth", g, n)
  <1>1. g \in Actors(u) /\ g \in Holders /\ "eth" \in Purses /\ "weth" \in Purses
    BY Names DEF Actors
  <1>2. Pass(w, v, u, g, "eth", -n)
    BY <1>1, BurnPass
  <1>3. v \in World
    BY <1>2 DEF Pass, Pay
  <1>4. Wrap(w, g, n) = Mint(v, "weth", g, n)
    BY DEF Wrap
  <1> HIDE DEF v
  <1>5. Pass(v, Wrap(w, g, n), u, g, "weth", n)
    BY <1>1, <1>3, <1>4, MintPass
  <1> QED BY <1>2, <1>3, <1>5

LEMMA UnwrapPass ==
  ASSUME NEW w \in World, NEW u \in Users, NEW g \in Gates, NEW n \in Nat
  PROVE  \E v \in World : Pass(w, v, u, g, "weth", -n) /\ Pass(v, Unwrap(w, g, n), u, g, "eth", n)
PROOF
  <1> DEFINE v == Burn(w, "weth", g, n)
  <1>1. g \in Actors(u) /\ g \in Holders /\ "eth" \in Purses /\ "weth" \in Purses
    BY Names DEF Actors
  <1>2. Pass(w, v, u, g, "weth", -n)
    BY <1>1, BurnPass
  <1>3. v \in World
    BY <1>2 DEF Pass, Pay
  <1>4. Unwrap(w, g, n) = Mint(v, "eth", g, n)
    BY DEF Unwrap
  <1> HIDE DEF v
  <1>5. Pass(v, Unwrap(w, g, n), u, g, "eth", n)
    BY <1>1, <1>3, <1>4, MintPass
  <1> QED BY <1>2, <1>3, <1>5

LEMMA WrapRest ==
  ASSUME NEW w \in World, NEW g \in Gates, NEW n \in Nat
  PROVE  /\ Rest(Wrap(w, g, n)) = Rest(w) /\ Wrap(w, g, n) \in World
         /\ Rest(Unwrap(w, g, n)) = Rest(w) /\ Unwrap(w, g, n) \in World
         /\ Wrap(w, g, n).ok = (w.ok /\ w.money["eth"][g] >= n)
         /\ Unwrap(w, g, n).ok = (w.ok /\ w.money["weth"][g] >= n)
PROOF
  <1>1. g \in Holders /\ "eth" \in Purses /\ "weth" \in Purses
    BY Names
  <1> QED BY <1>1, BurnStep, MintStep DEF Wrap, Unwrap

(***************************************************************************)
(* Tokens and loans.                                                       *)
(***************************************************************************)

LEMMA MoveTokenStep ==
  ASSUME NEW w \in World, NEW t \in Tokens, NEW x \in Holders, NEW y \in Holders
  PROVE  LET v == MoveToken(w, t, x, y)
         IN  /\ v \in World /\ v.money = w.money /\ v.punk = w.punk /\ v.loan = w.loan
             /\ v.ret = w.ret /\ v.all = w.all /\ v.acc = w.acc
PROOF
  <1> DEFINE w1 == Require(w, w.holder[t] = x)
             h == [w.holder EXCEPT ![t] = y]
  <1>1. w1 \in World /\ w1.ok = (w.ok /\ w.holder[t] = x) /\ w1.money = w.money /\ Rest(w1) = Rest(w)
    BY RequireStep
  <1>2. h \in [Tokens -> Holders \cup {None}]
    BY Fields
  <1>3. w1.holder = w.holder /\ w1.punk = w.punk /\ w1.loan = w.loan
          /\ w1.ret = w.ret /\ w1.all = w.all /\ w1.acc = w.acc
    BY <1>1 DEF Rest
  <1> HIDE DEF w1
  <1>4. MoveToken(w, t, x, y) = [w1 EXCEPT !.holder = h]
    BY <1>1, <1>3 DEF MoveToken, World, w1
  <1> HIDE DEF h
  <1>5. [w1 EXCEPT !.holder = h] \in World
    BY <1>1, <1>2 DEF World
  <1>6. LET v == [w1 EXCEPT !.holder = h]
        IN  /\ v.money = w1.money /\ v.punk = w1.punk
            /\ v.loan = w1.loan /\ v.ret = w1.ret /\ v.all = w1.all /\ v.acc = w1.acc
    BY <1>1 DEF World
  <1> QED BY <1>1, <1>3, <1>4, <1>5, <1>6

LEMMA MoveTokenHolder ==
  ASSUME NEW w \in World, NEW t \in Tokens, NEW x \in Holders, NEW y \in Holders
  PROVE  MoveToken(w, t, x, y).holder = [w.holder EXCEPT ![t] = y]
PROOF
  <1> DEFINE c == w.holder[t] = x
             w1 == Require(w, c)
  <1>1. MoveToken(w, t, x, y) = [w1 EXCEPT !.holder = [w1.holder EXCEPT ![t] = y]]
    BY DEF MoveToken
  <1>2. c \in BOOLEAN
    OBVIOUS
  <1> HIDE DEF c
  <1>3. w1 \in World /\ Rest(w1) = Rest(w)
    BY <1>2, RequireStep
  <1>4. w1.holder = w.holder
    BY <1>3 DEF Rest
  <1> HIDE DEF w1
  <1> DEFINE h == [w.holder EXCEPT ![t] = y]
  <1>5. MoveToken(w, t, x, y) = [w1 EXCEPT !.holder = h]
    BY <1>1, <1>4
  <1> HIDE DEF h
  <1>6. [w1 EXCEPT !.holder = h].holder = h
    BY <1>3 DEF World
  <1> QED BY <1>5, <1>6 DEF h

LEMMA MoveTokenOk ==
  ASSUME NEW w \in World, NEW t \in Tokens, NEW x \in Holders, NEW y \in Holders
  PROVE  MoveToken(w, t, x, y).ok = (w.ok /\ w.holder[t] = x)
PROOF
  <1> DEFINE c == w.holder[t] = x
             w1 == Require(w, c)
             h == [w1.holder EXCEPT ![t] = y]
  <1>1. c \in BOOLEAN
    OBVIOUS
  <1>2. MoveToken(w, t, x, y) = [w1 EXCEPT !.holder[t] = y]
    BY DEF MoveToken
  <1> HIDE DEF c
  <1>3. w1 \in World /\ w1.ok = (w.ok /\ c)
    BY <1>1, RequireStep
  <1> HIDE DEF w1
  <1>4. [w1 EXCEPT !.holder[t] = y].ok = w1.ok
    BY <1>3 DEF World
  <1> QED BY <1>2, <1>3, <1>4 DEF c

LEMMA MoveTokenPay ==
  ASSUME NEW w \in World, NEW u \in Users, NEW t \in Tokens, NEW x \in Actors(u),
         NEW y \in Holders, NEW g, NEW p
  PROVE  Pay(w, MoveToken(w, t, x, y), u, g, p, 0)
PROOF
  <1> DEFINE v == MoveToken(w, t, x, y)
  <1>1. x \in Holders /\ x \notin Users \ {u}
    BY Names DEF Actors
  <1>2. /\ v \in World /\ v.holder = [w.holder EXCEPT ![t] = y]
        /\ v.money = w.money /\ v.punk = w.punk /\ v.loan = w.loan
    BY <1>1, MoveTokenStep, MoveTokenHolder
  <1>3. v.ok = (w.ok /\ w.holder[t] = x)
    BY <1>1, MoveTokenOk
  <1> HIDE DEF v
  <1>4. SUFFICES ASSUME v.ok PROVE w.ok /\ Fair(w, v, u) /\ Shift(w, v, g, p, 0)
    BY <1>2 DEF Pay, v
  <1>5. w.ok /\ w.holder[t] = x
    BY <1>4, <1>3
  <1>6. w.holder \in [Tokens -> Holders \cup {None}]
    BY Fields
  <1>7. Wrapped(w) => Wrapped(v)
    BY <1>1, <1>2, <1>5, <1>6, Names DEF Wrapped
  <1>8. ASSUME NEW z \in Users \ {u} PROVE NotBound(w, v, z)
    <2> SUFFICES ASSUME NEW s \in Tokens
                 PROVE  OwesIn(v, z, s) <= OwesIn(w, z, s) /\ (OwnerIn(w, s) = z => OwnerIn(v, s) = z)
      BY DEF NotBound
    <2>1. OwesIn(w, z, s) \in Nat /\ OwesIn(v, z, s) = OwesIn(w, z, s)
      BY <1>2, OwesNat DEF OwesIn
    <2>2. OwnerIn(w, s) = z => OwnerIn(v, s) = z
      BY <1>1, <1>2, <1>5, <1>6 DEF OwnerIn
    <2> QED BY <2>1, <2>2
  <1>9. Fair(w, v, u)
    BY <1>2, <1>7, <1>8, NotPoorerSame DEF Fair
  <1> QED BY <1>2, <1>5, <1>9, ShiftSame

LEMMA MoveTokenPass ==
  ASSUME NEW w \in World, NEW u \in Users, NEW t \in Tokens, NEW x \in Actors(u),
         NEW y \in Holders \ Gates, x # "pool" \/ y = "pool", NEW g, NEW p
  PROVE  Pass(w, MoveToken(w, t, x, y), u, g, p, 0)
PROOF
  <1> DEFINE v == MoveToken(w, t, x, y)
  <1>1. x \in Holders
    BY Names DEF Actors
  <1>2. v.holder = [w.holder EXCEPT ![t] = y] /\ v.punk = w.punk /\ v.loan = w.loan
    BY <1>1, MoveTokenStep, MoveTokenHolder
  <1>3. w.holder \in [Tokens -> Holders \cup {None}]
    BY Fields
  <1>4. v.ok => w.holder[t] = x
    BY <1>1, MoveTokenOk
  <1> HIDE DEF v
  <1>5. ASSUME v.ok PROVE Clean(w, v)
    <2>1. Pledged(w) => Pledged(v)
      BY <1>2, <1>3, <1>4, <1>5 DEF Pledged
    <2> QED BY <1>2, <1>3, <2>1 DEF Clean
  <1> QED BY <1>5, MoveTokenPay DEF Pass, v

\* A loan is opened, changed or closed.
LEMMA SettlePass ==
  ASSUME NEW w \in World, NEW v \in World, NEW u \in Users, NEW t \in Tokens, NEW l \in Loans,
         v.ok = w.ok, v.money = w.money, v.holder = w.holder, v.punk = w.punk,
         v.loan = [w.loan EXCEPT ![t] = l],
         \A x \in Users \ {u} : (l.state # "none" /\ l.borrower = x) =>
            w.loan[t].state # "none" /\ w.loan[t].borrower = x /\ l.debt <= w.loan[t].debt,
         w.ok /\ l.state # "none" => w.loan[t].state # "none" \/ w.holder[t] = "pool",
         NEW g, NEW p
  PROVE  Pass(w, v, u, g, p, 0)
PROOF
  <1>1. Wrapped(w) => Wrapped(v)
    BY DEF Wrapped
  <1>2. ASSUME NEW x \in Users \ {u} PROVE NotBound(w, v, x)
    <2> SUFFICES ASSUME NEW s \in Tokens
                 PROVE  OwesIn(v, x, s) <= OwesIn(w, x, s) /\ (OwnerIn(w, s) = x => OwnerIn(v, s) = x)
      BY DEF NotBound
    <2>1. OwnerIn(v, s) = OwnerIn(w, s)
      BY DEF OwnerIn
    <2>2. OwesIn(w, x, s) \in Nat /\ OwesIn(v, x, s) \in Nat
      BY OwesNat
    <2>3. v.loan[s] = IF s = t THEN l ELSE w.loan[s]
      BY Fields
    <2>4. s # t => OwesIn(v, x, s) = OwesIn(w, x, s)
      BY <2>3 DEF OwesIn
    <2>5. s = t => OwesIn(v, x, s) <= OwesIn(w, x, s)
      BY <2>2, <2>3 DEF OwesIn
    <2> QED BY <2>1, <2>2, <2>4, <2>5
  <1>3. Fair(w, v, u)
    BY <1>1, <1>2, NotPoorerSame DEF Fair
  <1>4. ASSUME v.ok PROVE Clean(w, v)
    <2>1. \A s \in Tokens : v.loan[s] = IF s = t THEN l ELSE w.loan[s]
      BY Fields
    <2>2. Pledged(w) => Pledged(v)
      BY <1>4, <2>1 DEF Pledged
    <2> QED BY <2>2 DEF Clean
  <1> QED BY <1>3, <1>4, ShiftSame DEF Pass, Pay

Settled(w, t, l, r, a) ==
    [w EXCEPT !.loan = [w.loan EXCEPT ![t] = l], !.ret = r, !.all = a]

LEMMA SettleStep ==
  ASSUME NEW w \in World, NEW t \in Tokens, NEW l \in Loans, NEW r \in Nat, NEW a \in BOOLEAN
  PROVE  LET v == Settled(w, t, l, r, a)
         IN  /\ v \in World /\ v.ok = w.ok /\ v.money = w.money /\ v.holder = w.holder
             /\ v.punk = w.punk /\ v.ret = r /\ v.all = a /\ v.acc = w.acc
PROOF
  <1> DEFINE m == [w.loan EXCEPT ![t] = l]
  <1>1. m \in [Tokens -> Loans]
    BY Fields
  <1> HIDE DEF m
  <1>2. [w EXCEPT !.loan = m, !.ret = r, !.all = a] \in World
    BY <1>1 DEF World
  <1>3. LET v == [w EXCEPT !.loan = m, !.ret = r, !.all = a]
        IN  /\ v.ok = w.ok /\ v.money = w.money /\ v.holder = w.holder
            /\ v.punk = w.punk /\ v.ret = r /\ v.all = a /\ v.acc = w.acc
    BY DEF World
  <1> QED BY <1>2, <1>3 DEF m, Settled

LEMMA SettleRet ==
  ASSUME NEW w \in World, NEW t, NEW l, NEW r, NEW a
  PROVE  Settled(w, t, l, r, a).ret = r /\ Settled(w, t, l, r, a).acc = w.acc
PROOF
  BY DEF Settled, World

LEMMA SettleLoan ==
  ASSUME NEW w \in World, NEW t \in Tokens, NEW l \in Loans, NEW r \in Nat, NEW a \in BOOLEAN
  PROVE  Settled(w, t, l, r, a).loan = [w.loan EXCEPT ![t] = l]
PROOF
  <1> DEFINE m == [w.loan EXCEPT ![t] = l]
  <1> HIDE DEF m
  <1>1. [w EXCEPT !.loan = m, !.ret = r, !.all = a].loan = m
    BY DEF World
  <1> QED BY <1>1 DEF m, Settled

\* As a loan of t, l makes nobody but u owe more.
NoWorse(w, t, l, u) ==
    \A x \in Users \ {u} : (l.state # "none" /\ l.borrower = x) =>
        w.loan[t].state # "none" /\ w.loan[t].borrower = x /\ l.debt <= w.loan[t].debt

\* t is in the pool, if l is a loan of it.
Placed(w, t, l) ==
    w.ok /\ l.state # "none" => w.loan[t].state # "none" \/ w.holder[t] = "pool"

\* One entry of the loans changes, and what the call returns.
LEMMA SetLoan ==
  ASSUME NEW w \in World, NEW u \in Users, NEW t \in Tokens, NEW l \in Loans, NEW r \in Nat,
         NEW a \in BOOLEAN,
         NoWorse(w, t, l, u), Placed(w, t, l),
         NEW g, NEW p
  PROVE  LET v == Settled(w, t, l, r, a)
         IN  /\ Pass(w, v, u, g, p, 0) /\ v.loan[t] = l
             /\ v.holder = w.holder /\ v.punk = w.punk
PROOF
  <1> DEFINE v == Settled(w, t, l, r, a)
  <1>1. /\ v \in World /\ v.ok = w.ok /\ v.money = w.money /\ v.holder = w.holder
        /\ v.punk = w.punk /\ v.loan = [w.loan EXCEPT ![t] = l]
    BY SettleStep, SettleLoan
  <1> HIDE DEF v
  <1>2. Pass(w, v, u, g, p, 0)
    BY <1>1, SettlePass DEF NoWorse, Placed
  <1>3. v.loan[t] = l
    BY <1>1, Fields
  <1> QED BY <1>1, <1>2, <1>3 DEF v

(***************************************************************************)
(* The pool.                                                               *)
(***************************************************************************)

LEMMA PassOk ==
  ASSUME NEW w, NEW v, NEW u, NEW g, NEW p, NEW k, Pass(w, v, u, g, p, k)
  PROVE  v \in World /\ (v.ok => w.ok)
PROOF
  BY DEF Pass, Pay

LEMMA IdlePass ==
  ASSUME NEW w \in World, NEW u, NEW g, NEW p
  PROVE  Pass(w, w, u, g, p, 0)
PROOF
  <1>1. Fair(w, w, u)
    BY FairPayment, NotPoorerSame
  <1>2. Clean(w, w) /\ Shift(w, w, g, p, 0)
    BY ShiftSame DEF Clean
  <1> QED BY <1>1, <1>2 DEF Pass, Pay

LEMMA FailPass ==
  ASSUME NEW w \in World, NEW u, NEW g, NEW p, NEW k
  PROVE  Pass(w, [w EXCEPT !.ok = FALSE], u, g, p, k)
PROOF
  BY Fail DEF Pass, Pay

\* A loan of t stands, and t came to the pool if there was none before.
Borrowed(w, v, t) ==
    /\ v.loan[t].state = "active" /\ v.punk = w.punk
    /\ v.holder = IF w.loan[t].state = "none" THEN [w.holder EXCEPT ![t] = "pool"] ELSE w.holder

LEMMA LendPass ==
  ASSUME NEW w \in World, NEW u \in Users, NEW g \in Actors(u), NEW coin \in Coins, NEW n \in Nat,
         NEW t \in Tokens, NEW for \in Users, NEW debt, w.ok => for = u /\ debt \in 1..MaxDebt,
         w.ok => w.loan[t].state # "none" \/ w.holder[t] = "pool"
  PROVE  LET v == Lend(w, g, coin, n, t, for, debt)
         IN  /\ Pass(w, v, u, g, coin, n)
             /\ v.ok => v.loan[t].state = "active" /\ v.holder = w.holder /\ v.punk = w.punk
PROOF
  <1> DEFINE v == Lend(w, g, coin, n, t, for, debt)
             l == [state |-> "active", borrower |-> for, coin |-> coin, debt |-> debt,
                   bid |-> 0, bidder |-> None, first |-> None, over |-> FALSE]
             w1 == [w EXCEPT !.loan[t] = l]
  <1>1. CASE ~w.ok
    BY <1>1 DEF Lend, Pass, Pay
  <1>2. CASE w.ok
    <2>1. l \in Loans
      BY <1>2 DEF Loans, ActiveLoans
    <2>2. l.borrower = u /\ l.state = "active"
      BY <1>2
    <2>3. v = Move(w1, coin, "reserve", g, n)
      BY <1>2 DEF Lend
    <2> HIDE DEF l, v
    <2>4. w1 = Settled(w, t, l, w.ret, w.all)
      BY DEF World, Settled
    <2>5. w.ret \in Nat /\ w.all \in BOOLEAN
      BY Fields
    <2>6. Pass(w, w1, u, g, coin, 0) /\ w1.loan[t] = l /\ w1.holder = w.holder /\ w1.punk = w.punk
      <3> HIDE DEF w1
      <3>1. NoWorse(w, t, l, u) /\ Placed(w, t, l)
        BY <2>2 DEF NoWorse, Placed
      <3> QED BY <2>1, <2>4, <2>5, <3>1, SetLoan
    <2>7. w1 \in World
      BY <2>6 DEF Pass, Pay
    <2> HIDE DEF w1
    <2>8. coin \in Purses /\ "reserve" \in Actors(u) \ Gates /\ g \in Holders /\ "reserve" \in Holders
      BY Names DEF Actors
    <2>9. Pass(w1, v, u, g, coin, n)
      BY <2>3, <2>7, <2>8, MoveIn
    <2>10. Pass(w, v, u, g, coin, 0 + n)
      BY <2>6, <2>9, PassTrans
    <2>11. Rest(v) = Rest(w1)
      BY <2>3, <2>7, <2>8, MoveRest
    <2>12. v.loan = w1.loan /\ v.holder = w1.holder /\ v.punk = w1.punk
      BY <2>11 DEF Rest
    <2> QED BY <2>2, <2>6, <2>10, <2>12 DEF v
  <1> QED BY <1>1, <1>2

LEMMA BorrowPass ==
  ASSUME NEW w \in World, NEW u \in Users, NEW g \in Actors(u), NEW coin \in Coins, NEW n \in Nat,
         NEW t \in Tokens, NEW for \in Users, w.ok => for = u
  PROVE  LET v == Borrow(w, g, coin, n, t, for)
         IN  Pass(w, v, u, g, coin, n) /\ (v.ok => Borrowed(w, v, t))
PROOF
  <1> DEFINE l == w.loan[t]
             owed == IF l.state = "none" THEN 0 ELSE l.debt
             w1 == Require(w, n > 0 /\ owed + n <= MaxDebt)
             v == Borrow(w, g, coin, n, t, for)
  <1>1. l \in Loans /\ MaxDebt \in Nat
    BY Fields, GatewayAssumption
  <1>2. owed \in Nat
    BY <1>1, LoanKinds, DebtNat
  <1>3. /\ Pass(w, w1, u, g, coin, 0) /\ (w1.ok => n > 0 /\ owed + n <= MaxDebt)
        /\ Rest(w1) = Rest(w) /\ w1 \in World
    BY RequirePass, RequireStep
  <1>4. w1.holder = w.holder /\ w1.punk = w.punk
    BY <1>3 DEF Rest
  <1>5. w1.ok => w.ok
    BY <1>3 DEF Pass, Pay
  <1>6. CASE l.state = "none"
    <2> DEFINE w2 == MoveToken(w1, t, g, "pool")
    <2>1. v = Lend(w2, g, coin, n, t, for, n)
      BY <1>6 DEF Borrow
    <2> HIDE DEF w1, v
    <2>2. "pool" \in Holders \ Gates /\ g \in Holders
      BY Names DEF Actors
    <2>3. Pass(w1, w2, u, g, coin, 0)
      BY <1>3, <2>2, MoveTokenPass
    <2>4. w2.holder = [w1.holder EXCEPT ![t] = "pool"] /\ w2.punk = w1.punk
      BY <1>3, <2>2, MoveTokenStep, MoveTokenHolder
    <2>5. w2 \in World /\ w2.holder = [w.holder EXCEPT ![t] = "pool"] /\ w2.punk = w.punk
            /\ (w2.ok => w1.ok)
      BY <1>4, <2>3, <2>4, PassOk
    <2> HIDE DEF w2
    <2>6. w2.ok => w2.loan[t].state # "none" \/ w2.holder[t] = "pool"
      <3>1. w.holder \in [Tokens -> Holders \cup {None}]
        BY Fields
      <3> QED BY <2>5, <3>1
    <2>7. w2.ok => for = u /\ n \in 1..MaxDebt
      BY <1>1, <1>2, <1>3, <1>5, <1>6, <2>5
    <2>8. Pass(w2, v, u, g, coin, n)
            /\ (v.ok => v.loan[t].state = "active" /\ v.holder = w2.holder /\ v.punk = w2.punk)
      <3>1. w2 \in World
        BY <2>5
      <3> QED BY <2>1, <2>6, <2>7, <3>1, LendPass
    <2>9. Pass(w, w2, u, g, coin, 0 + 0)
      BY <1>3, <2>3, PassTrans
    <2>10. Pass(w, v, u, g, coin, 0 + 0 + n)
      BY <2>8, <2>9, PassTrans
    <2> QED BY <1>6, <2>5, <2>8, <2>10 DEF v, Borrowed
  <1>7. CASE l.state # "none"
    <2> DEFINE c == l.state = "active" /\ l.coin = coin /\ l.borrower = for
               w2 == Require(w1, c)
    <2>1. v = Lend(w2, g, coin, n, t, for, owed + n)
      BY <1>7 DEF Borrow
    <2> HIDE DEF w1, v
    <2>2. Pass(w1, w2, u, g, coin, 0) /\ w2 \in World /\ w2.ok = (w1.ok /\ c) /\ Rest(w2) = Rest(w1)
      BY <1>3, RequirePass, RequireStep
    <2>3. w2.holder = w.holder /\ w2.punk = w.punk /\ w2.loan[t].state # "none"
      BY <1>3, <1>4, <1>7, <2>2 DEF Rest
    <2> HIDE DEF w2, c
    <2>4. w2.ok => for = u /\ owed + n \in 1..MaxDebt
      <3> HIDE DEF owed
      <3>1. w2.ok => w1.ok
        BY <2>2, PassOk
      <3>2. w2.ok => for = u /\ n > 0 /\ owed + n <= MaxDebt
        BY <1>3, <1>5, <3>1
      <3> QED BY ONLY <1>1, <1>2, <3>2, n \in Nat
    <2>5. Pass(w2, v, u, g, coin, n)
            /\ (v.ok => v.loan[t].state = "active" /\ v.holder = w2.holder /\ v.punk = w2.punk)
      BY <2>1, <2>2, <2>3, <2>4, LendPass
    <2>6. Pass(w, w2, u, g, coin, 0 + 0)
      BY <1>3, <2>2, PassTrans
    <2>7. Pass(w, v, u, g, coin, 0 + 0 + n)
      BY <2>5, <2>6, PassTrans
    <2> QED BY <1>7, <2>3, <2>5, <2>7 DEF v, Borrowed
  <1> QED BY <1>6, <1>7

LEMMA DepositPass ==
  ASSUME NEW w \in World, NEW u \in Users, NEW g \in Actors(u), NEW n \in Nat, NEW for \in Users
  PROVE  Pass(w, Deposit(w, g, n, for), u, g, "weth", -n)
PROOF
  <1> DEFINE w1 == Require(w, n > 0)
             w2 == Move(w1, "weth", g, "reserve", n)
             v == Mint(w2, "bweth", for, n)
  <1>1. /\ "weth" \in Purses /\ "bweth" \in Purses /\ "reserve" \in Holders \ Gates
        /\ for \in Holders /\ for \notin Gates
    BY Names
  <1>2. Pass(w, w1, u, g, "weth", 0)
    <2> DEFINE c == n > 0
    <2>1. c \in BOOLEAN
      OBVIOUS
    <2> HIDE DEF c
    <2>2. Pass(w, Require(w, c), u, g, "weth", 0)
      BY <2>1, RequirePass
    <2> QED BY <2>2 DEF c
  <1>3. w1 \in World
    BY <1>2, PassOk
  <1> HIDE DEF w1
  <1>4. Pass(w1, w2, u, g, "weth", -n)
    BY <1>1, <1>3, MoveOut
  <1>5. w2 \in World
    BY <1>4, PassOk
  <1> HIDE DEF w2
  <1>6. Pass(w2, v, u, for, "bweth", n)
    BY <1>1, <1>5, MintPass
  <1> HIDE DEF v
  <1>7. Pass(w2, v, u, g, "weth", 0)
    BY <1>1, <1>5, <1>6, PassIdle
  <1>8. Pass(w, w2, u, g, "weth", 0 + -n)
    BY <1>2, <1>4, PassTrans
  <1>9. Pass(w, v, u, g, "weth", (0 + -n) + 0)
    BY <1>7, <1>8, PassTrans
  <1> QED BY <1>9 DEF v, w2, w1, Deposit

LEMMA WithdrawPass ==
  ASSUME NEW w \in World, NEW u \in Users, NEW g \in Gates, NEW n \in Nat
  PROVE  \E v \in World : /\ Pass(w, v, u, g, "bweth", -n)
                          /\ Pass(v, Withdraw(w, g, n, g), u, g, "weth", n)
PROOF
  <1> DEFINE w1 == Require(w, n > 0)
             w2 == Burn(w1, "bweth", g, n)
             v == Move(w2, "weth", "reserve", g, n)
  <1>1. /\ "weth" \in Purses /\ "bweth" \in Purses /\ "reserve" \in Actors(u) \ Gates
        /\ g \in Actors(u) /\ g \in Holders
    BY Names DEF Actors
  <1>2. Pass(w, w1, u, g, "bweth", 0)
    <2> DEFINE c == n > 0
    <2>1. c \in BOOLEAN
      OBVIOUS
    <2> HIDE DEF c
    <2>2. Pass(w, Require(w, c), u, g, "bweth", 0)
      BY <2>1, RequirePass
    <2> QED BY <2>2 DEF c
  <1>3. w1 \in World
    BY <1>2, PassOk
  <1> HIDE DEF w1
  <1>4. Pass(w1, w2, u, g, "bweth", -n)
    BY <1>1, <1>3, BurnPass
  <1>5. w2 \in World
    BY <1>4, PassOk
  <1> HIDE DEF w2
  <1>6. Pass(w2, v, u, g, "weth", n)
    BY <1>1, <1>5, MoveIn
  <1> HIDE DEF v
  <1>7. Pass(w, w2, u, g, "bweth", 0 + -n)
    BY <1>2, <1>4, PassTrans
  <1> QED BY <1>5, <1>6, <1>7 DEF v, w2, w1, Withdraw

\* A loan is closed, and what secured it leaves the pool.
LEMMA ClosePass ==
  ASSUME NEW w \in World, NEW u \in Users, NEW t \in Tokens, NEW y \in Holders \ Gates,
         NEW r \in Nat, NEW a \in BOOLEAN, NEW g, NEW p
  PROVE  LET v == Settled(MoveToken(w, t, "pool", y), t, NoLoan, r, a)
         IN  Pass(w, v, u, g, p, 0) /\ v.ret = r /\ v.acc = w.acc
PROOF
  <1> DEFINE w1 == MoveToken(w, t, "pool", y)
             v == Settled(w1, t, NoLoan, r, a)
  <1>1. "pool" \in Actors(u) /\ "pool" \in Holders /\ y \in Holders
    BY Names DEF Actors
  <1>2. Pay(w, w1, u, g, p, 0)
    BY <1>1, MoveTokenPay
  <1>3. w1 \in World /\ w1.acc = w.acc /\ w1.punk = w.punk /\ w1.loan = w.loan
    <2>1. w1 \in World
      BY <1>1, MoveTokenStep
    <2>2. w1.acc = w.acc /\ w1.punk = w.punk /\ w1.loan = w.loan
      BY <1>1, MoveTokenStep
    <2> QED BY <2>1, <2>2
  <1>4. w1.holder = [w.holder EXCEPT ![t] = y]
    BY <1>1, MoveTokenHolder
  <1> HIDE DEF w1, v
  <1>5. NoLoan \in Loans /\ NoLoan.state = "none"
    BY DEF Loans, NoLoan
  <1>6. NoWorse(w1, t, NoLoan, u) /\ Placed(w1, t, NoLoan)
    BY <1>5 DEF NoWorse, Placed
  <1>7. Pass(w1, v, u, g, p, 0) /\ v.holder = w1.holder /\ v.punk = w1.punk
    <2>1. LET z == Settled(w1, t, NoLoan, r, a)
          IN  Pass(w1, z, u, g, p, 0) /\ z.holder = w1.holder /\ z.punk = w1.punk
      BY <1>3, <1>5, <1>6, SetLoan
    <2> QED BY <2>1 DEF v
  <1>8. v.ret = r /\ v.acc = w1.acc
    BY <1>3, SettleRet DEF v
  <1>9. v.loan = [w.loan EXCEPT ![t] = NoLoan]
    BY <1>3, <1>5, SettleLoan DEF v
  <1>10. Pay(w, v, u, g, p, 0 + 0)
    BY <1>2, <1>7, PayTrans DEF Pass
  <1>11. w.holder \in [Tokens -> Holders \cup {None}] /\ w.loan \in [Tokens -> Loans]
    BY Fields
  <1>12. Pledged(w) => Pledged(v)
    BY <1>4, <1>5, <1>7, <1>9, <1>11 DEF Pledged
  <1>13. Clean(w, v)
    BY <1>3, <1>4, <1>7, <1>11, <1>12 DEF Clean
  <1> QED BY <1>3, <1>8, <1>10, <1>13 DEF Pass, v, w1

LEMMA SmallerNat ==
  ASSUME NEW m \in Nat, NEW n \in Nat
  PROVE  Smaller(m, n) \in Nat /\ Smaller(m, n) <= m /\ Smaller(m, n) <= n
PROOF
  BY DEF Smaller

LEMMA RepayPass ==
  ASSUME NEW w \in World, NEW u \in Users, NEW g \in Actors(u), NEW t \in Tokens, NEW n \in Nat
  PROVE  LET v == Repay(w, g, t, n)
         IN  /\ Pass(w, v, u, g, w.loan[t].coin, -v.ret)
             /\ v.ok => /\ w.loan[t].state = "active" /\ v.ret = Smaller(n, w.loan[t].debt)
                        /\ v.acc = w.acc
PROOF
  <1> DEFINE l == w.loan[t]
             pay == Smaller(n, l.debt)
             w1 == Move(w, l.coin, g, "reserve", pay)
             v == Repay(w, g, t, n)
  <1>1. CASE ~w.ok \/ l.state # "active" \/ n = 0
    <2>1. v = [w EXCEPT !.ok = FALSE]
      BY <1>1 DEF Repay
    <2> HIDE DEF v
    <2>2. v.ok = FALSE
      BY <2>1, Fail
    <2>3. Pass(w, v, u, g, w.loan[t].coin, -v.ret)
      BY <2>1, FailPass
    <2> QED BY <2>2, <2>3 DEF v
  <1>2. CASE ~(~w.ok \/ l.state # "active" \/ n = 0)
    <2>1. /\ l \in Loans /\ l \in ActiveLoans /\ l.borrower \in Users /\ l.coin \in Coins
          /\ l.debt \in 1..MaxDebt /\ l.debt \in Nat /\ l.debt > 0
      BY <1>2, Fields, LoanKinds, DebtNat
    <2>2. pay \in Nat /\ pay <= l.debt
      BY <2>1, SmallerNat
    <2>3. /\ l.coin \in Purses /\ "reserve" \in Holders \ Gates /\ g \in Holders
          /\ "pool" \in Actors(u) /\ "pool" \in Holders /\ l.borrower \in Holders \ Gates
      BY <2>1, Names DEF Actors
    <2> HIDE DEF pay
    <2>4. Pass(w, w1, u, g, l.coin, -pay) /\ Rest(w1) = Rest(w) /\ w1 \in World
      BY <2>2, <2>3, MoveOut, MoveRest
    <2>5. w1.loan = w.loan /\ w1.holder = w.holder /\ w1.acc = w.acc
      BY <2>4 DEF Rest
    <2> HIDE DEF w1
    <2>6. CASE n >= l.debt
      <3> DEFINE w2 == MoveToken(w1, t, "pool", l.borrower)
      <3>1. v = [w2 EXCEPT !.loan[t] = NoLoan, !.ret = pay, !.all = TRUE]
        BY <1>2, <2>6 DEF Repay, w1, pay
      <3> HIDE DEF v
      <3>2. PICK yes \in BOOLEAN : v = Settled(w2, t, NoLoan, pay, yes)
        BY <3>1 DEF Settled
      <3>3. Pass(w1, v, u, g, l.coin, 0) /\ v.ret = pay /\ v.acc = w1.acc
        BY <2>2, <2>3, <2>4, <3>2, ClosePass
      <3>4. Pass(w, v, u, g, l.coin, -pay + 0)
        BY <2>2, <2>4, <3>3, PassTrans
      <3>5. -pay + 0 = -v.ret
        BY <2>2, <3>3
      <3>6. Pass(w, v, u, g, l.coin, -v.ret)
        BY <3>4, <3>5
      <3> QED BY <1>2, <2>5, <3>3, <3>6 DEF v, pay
    <2>7. CASE ~(n >= l.debt)
      <3> DEFINE m == [l EXCEPT !.debt = @ - pay]
      <3>1. v = [w1 EXCEPT !.loan[t].debt = @ - pay, !.ret = pay, !.all = FALSE]
        BY <1>2, <2>7 DEF Repay, w1, pay
      <3>2. pay = n /\ l.debt - pay \in 1..MaxDebt
        BY <1>2, <2>1, <2>7, GatewayAssumption DEF pay, Smaller
      <3>3. m \in ActiveLoans /\ m.borrower = l.borrower /\ m.debt = l.debt - pay
        BY <2>1, <3>2 DEF ActiveLoans
      <3> HIDE DEF v
      <3>4. PICK no \in BOOLEAN : v = Settled(w1, t, m, pay, no)
        BY <2>5, <3>1 DEF Settled
      <3> HIDE DEF m
      <3>5. m \in Loans /\ m.debt <= w1.loan[t].debt /\ w1.loan[t].state # "none"
              /\ m.borrower = w1.loan[t].borrower
        BY <1>2, <2>1, <2>2, <2>5, <3>3 DEF Loans
      <3>6. NoWorse(w1, t, m, u) /\ Placed(w1, t, m)
        BY <3>5 DEF NoWorse, Placed
      <3>7. Pass(w1, v, u, g, l.coin, 0) /\ v.ret = pay /\ v.acc = w1.acc
        <4>1. Pass(w1, v, u, g, l.coin, 0)
          BY ONLY <2>2, <2>4, <3>4, <3>5, <3>6, SetLoan, u \in Users, t \in Tokens
        <4>2. v.ret = pay /\ v.acc = w1.acc
          BY ONLY <2>2, <2>4, <3>4, SettleRet
        <4> QED BY <4>1, <4>2
      <3>8. Pass(w, v, u, g, l.coin, -pay + 0)
        BY <2>2, <2>4, <3>7, PassTrans
      <3>9. -pay + 0 = -v.ret
        BY <2>2, <3>7
      <3>10. Pass(w, v, u, g, l.coin, -v.ret)
        BY <3>8, <3>9
      <3> QED BY <1>2, <2>5, <3>7, <3>10 DEF v, pay
    <2> QED BY <2>6, <2>7
  <1> QED BY <1>1, <1>2

LEMMA AuctionPass ==
  ASSUME NEW w \in World, NEW u \in Users, NEW g \in Actors(u), NEW t \in Tokens, NEW bid \in Nat,
         NEW for \in Users
  PROVE  Pass(w, Auction(w, g, t, bid, for), u, g, w.loan[t].coin, -bid)
PROOF
  <1> DEFINE l == w.loan[t]
             v == Auction(w, g, t, bid, for)
  <1>1. CASE ~w.ok \/ l.state = "none"
    <2>1. v = [w EXCEPT !.ok = FALSE]
      BY <1>1 DEF Auction
    <2> QED BY <2>1, FailPass
  <1>2. CASE ~(~w.ok \/ l.state = "none")
    <2> DEFINE c == /\ bid >= l.debt
                    /\ l.state = "active" => l.debt > Threshold
                    /\ l.state = "auction" => (~l.over /\ bid > l.bid)
               w1 == Require(w, c)
               w2 == Move(w1, l.coin, g, "pool", bid)
               w3 == IF l.state = "auction" THEN Move(w2, l.coin, "pool", l.bidder, l.bid) ELSE w2
               m == [l EXCEPT !.state = "auction", !.bid = bid, !.bidder = for,
                              !.first = IF l.state = "active" THEN for ELSE @]
    <2>1. /\ l \in Loans /\ l.borrower \in Users /\ l.coin \in Coins
          /\ l.state \in {"active", "auction"}
      BY <1>2, Fields, LoanKinds
    <2>2. /\ l.coin \in Purses /\ "pool" \in Holders \ Gates /\ g \in Holders
          /\ "pool" \in Actors(u) \ Gates /\ "pool" \in Holders
      BY <2>1, Names DEF Actors
    <2>3. v = [w3 EXCEPT !.loan[t] = m]
      BY <1>2 DEF Auction
    <2>4. m \in Auctions /\ m.borrower = l.borrower /\ m.debt = l.debt
      <3>1. CASE l.state = "active"
        <4>1. l \in ActiveLoans
          BY <2>1, <3>1, LoanKinds
        <4> QED BY <3>1, <4>1 DEF ActiveLoans, Auctions
      <3>2. CASE l.state = "auction"
        <4>1. l \in Auctions
          BY <2>1, <3>2, LoanKinds
        <4> QED BY <3>2, <4>1 DEF Auctions
      <3> QED BY <2>1, <3>1, <3>2
    <2>5. c \in BOOLEAN
      OBVIOUS
    <2> HIDE DEF v, m, c
    <2>6. Pass(w, w1, u, g, l.coin, 0) /\ w1 \in World /\ Rest(w1) = Rest(w)
      BY <2>5, RequirePass, RequireStep
    <2> HIDE DEF w1
    <2>7. Pass(w1, w2, u, g, l.coin, -bid) /\ w2 \in World /\ Rest(w2) = Rest(w1)
      BY <2>2, <2>6, MoveOut, MoveRest
    <2> HIDE DEF w2
    <2>8. Pass(w2, w3, u, g, l.coin, 0) /\ w3 \in World /\ Rest(w3) = Rest(w2)
      <3>1. CASE l.state = "auction"
        <4>1. l.bidder \in Users /\ l.bid \in Nat
          BY <2>1, <3>1, LoanKinds
        <4>2. l.bidder \in Holders \ Gates /\ l.bidder \in Holders
          BY <4>1, Names
        <4> QED BY <2>2, <2>7, <3>1, <4>1, <4>2, MoveAround, MoveRest
      <3>2. CASE l.state # "auction"
        <4>1. w3 = w2
          BY <3>2
        <4>2. Pass(w2, w2, u, g, l.coin, 0)
          BY <2>7, IdlePass
        <4> QED BY <2>7, <4>1, <4>2
      <3> QED BY <3>1, <3>2
    <2> HIDE DEF w3
    <2>9. w3.loan = w.loan
      BY <2>6, <2>7, <2>8 DEF Rest
    <2>10. v = Settled(w3, t, m, w3.ret, w3.all)
      BY <2>3, <2>8 DEF Settled, World
    <2>11. w3.ret \in Nat /\ w3.all \in BOOLEAN
      BY <2>8, Fields
    <2>12. m \in Loans /\ NoWorse(w3, t, m, u) /\ Placed(w3, t, m)
      <3>1. l.debt <= l.debt
        BY <1>2, <2>1, LoanKinds, DebtNat
      <3> QED BY <1>2, <2>4, <2>9, <3>1 DEF NoWorse, Placed, Loans
    <2>13. Pass(w3, v, u, g, l.coin, 0)
      BY <2>8, <2>10, <2>11, <2>12, SetLoan
    <2>14. Pass(w, w2, u, g, l.coin, 0 + -bid)
      BY <2>6, <2>7, PassTrans
    <2>15. Pass(w, w3, u, g, l.coin, (0 + -bid) + 0)
      BY <2>8, <2>14, PassTrans
    <2>16. Pass(w, v, u, g, l.coin, ((0 + -bid) + 0) + 0)
      BY <2>13, <2>15, PassTrans
    <2>17. ((0 + -bid) + 0) + 0 = -bid
      OBVIOUS
    <2> QED BY <2>16, <2>17 DEF v
  <1> QED BY <1>1, <1>2

LEMMA FineNat ==
  ASSUME NEW l PROVE FineOf(l) \in Nat
PROOF
  BY DEF FineOf

LEMMA RedeemPass ==
  ASSUME NEW w \in World, NEW u \in Users, NEW g \in Actors(u), NEW t \in Tokens, NEW n \in Nat,
         NEW fine \in Nat
  PROVE  LET v == Redeem(w, g, t, n, fine)
         IN  Pass(w, v, u, g, w.loan[t].coin, -v.ret) /\ (v.ok => v.ret <= n + fine)
PROOF
  <1> DEFINE l == w.loan[t]
             f == FineOf(l)
             v == Redeem(w, g, t, n, fine)
  <1>1. CASE ~w.ok \/ ~RedeemableAt(l, n, fine)
    <2>1. v = [w EXCEPT !.ok = FALSE]
      BY <1>1 DEF Redeem
    <2> HIDE DEF v
    <2>2. v.ok = FALSE
      BY <2>1, Fail
    <2>3. Pass(w, v, u, g, w.loan[t].coin, -v.ret)
      BY <2>1, FailPass
    <2> QED BY <2>2, <2>3 DEF v
  <1>2. CASE ~(~w.ok \/ ~RedeemableAt(l, n, fine))
    <2> DEFINE w1 == Move(w, l.coin, g, "reserve", n)
               w2 == Move(w1, l.coin, "pool", l.bidder, l.bid)
               w3 == Move(w2, l.coin, g, l.first, f)
               m == [l EXCEPT !.state = "active", !.debt = @ - n, !.bid = 0,
                              !.bidder = None, !.first = None, !.over = FALSE]
    <2>1. l.state = "auction" /\ f <= fine /\ n > 0 /\ n < l.debt
      BY <1>2 DEF RedeemableAt
    <2>2. /\ l \in Loans /\ l \in Auctions /\ l.borrower \in Users /\ l.coin \in Coins
          /\ l.debt \in 1..MaxDebt /\ l.bidder \in Users /\ l.bid \in Nat /\ l.first \in Users
      BY <2>1, Fields, LoanKinds
    <2>3. f \in Nat /\ l.debt \in Nat /\ l.debt - n \in 1..MaxDebt
      BY <2>1, <2>2, FineNat, DebtNat, GatewayAssumption
    <2>4. /\ l.coin \in Purses /\ "pool" \in Actors(u) \ Gates /\ "pool" \in Holders /\ g \in Holders
          /\ "reserve" \in Holders \ Gates /\ "reserve" \in Holders
          /\ l.bidder \in Holders \ Gates /\ l.bidder \in Holders
          /\ l.first \in Holders \ Gates /\ l.first \in Holders
      BY <2>2, Names DEF Actors
    <2>5. v = [w3 EXCEPT !.ret = n + f, !.loan[t] = m]
      BY <1>2 DEF Redeem
    <2>6. m \in ActiveLoans /\ m.borrower = l.borrower /\ m.debt = l.debt - n
      BY <2>2, <2>3 DEF Auctions, ActiveLoans
    <2> HIDE DEF v, m, f
    <2>7. Pass(w, w1, u, g, l.coin, -n) /\ w1 \in World /\ Rest(w1) = Rest(w)
      BY <2>4, MoveOut, MoveRest
    <2> HIDE DEF w1
    <2>8. Pass(w1, w2, u, g, l.coin, 0) /\ w2 \in World /\ Rest(w2) = Rest(w1)
      <3>1. Pass(w1, w2, u, g, l.coin, 0)
        BY <2>2, <2>4, <2>7, MoveAround
      <3>2. w2 \in World /\ Rest(w2) = Rest(w1)
        <4>1. /\ w1 \in World /\ l.coin \in Purses /\ l.bid \in Nat
              /\ "pool" \in Holders /\ l.bidder \in Holders
          BY <2>2, <2>4, <2>7
        <4> QED BY ONLY <4>1, MoveRest
      <3> QED BY <3>1, <3>2
    <2> HIDE DEF w2
    <2>9. Pass(w2, w3, u, g, l.coin, -f) /\ w3 \in World /\ Rest(w3) = Rest(w2)
      BY <2>3, <2>4, <2>8, MoveOut, MoveRest
    <2> HIDE DEF w3
    <2>10. w3.loan = w.loan
      BY <2>7, <2>8, <2>9 DEF Rest
    <2>11. v = Settled(w3, t, m, n + f, w3.all)
      BY <2>5, <2>9 DEF Settled, World
    <2>12. n + f \in Nat /\ w3.all \in BOOLEAN
      BY <2>3, <2>9, Fields
    <2>13. m \in Loans /\ NoWorse(w3, t, m, u) /\ Placed(w3, t, m)
      <3>1. m.debt <= l.debt
        BY <2>3, <2>6
      <3> QED BY <2>1, <2>6, <2>10, <3>1 DEF NoWorse, Placed, Loans
    <2>14. Pass(w3, v, u, g, l.coin, 0)
      BY <2>9, <2>11, <2>12, <2>13, SetLoan
    <2>15. v.ret = n + f
      BY <2>9, <2>11, SettleRet
    <2>16. Pass(w, w2, u, g, l.coin, -n + 0)
      BY <2>7, <2>8, PassTrans
    <2>17. Pass(w, w3, u, g, l.coin, (-n + 0) + -f)
      BY <2>3, <2>9, <2>16, PassTrans
    <2>18. Pass(w, v, u, g, l.coin, ((-n + 0) + -f) + 0)
      BY <2>3, <2>14, <2>17, PassTrans
    <2>19. ((-n + 0) + -f) + 0 = -v.ret
      BY <2>3, <2>15
    <2>20. v.ret <= n + fine
      BY <2>1, <2>3, <2>15
    <2>21. Pass(w, v, u, g, l.coin, -v.ret)
      BY <2>18, <2>19
    <2> QED BY <2>20, <2>21 DEF v
  <1> QED BY <1>1, <1>2

LEMMA LiquidatePass ==
  ASSUME NEW w \in World, NEW u \in Users, NEW g \in Actors(u), NEW t \in Tokens, NEW n \in Nat
  PROVE  LET v == Liquidate(w, g, t, n)
         IN  Pass(w, v, u, g, w.loan[t].coin, -v.ret) /\ (v.ok => v.ret <= n)
PROOF
  <1> DEFINE l == w.loan[t]
             v == Liquidate(w, g, t, n)
  <1>1. CASE ~w.ok \/ l.state # "auction"
    <2>1. v = [w EXCEPT !.ok = FALSE]
      BY <1>1 DEF Liquidate
    <2> HIDE DEF v
    <2>2. v.ok = FALSE
      BY <2>1, Fail
    <2>3. Pass(w, v, u, g, w.loan[t].coin, -v.ret)
      BY <2>1, FailPass
    <2> QED BY <2>2, <2>3 DEF v
  <1>2. CASE ~(~w.ok \/ l.state # "auction")
    <2> DEFINE extra == Over(l.debt, l.bid)
               left == Over(l.bid, l.debt)
               c == l.over /\ n >= extra
               w0 == Require(w, c)
               w1 == Move(w0, l.coin, g, "pool", extra)
               w2 == Move(w1, l.coin, "pool", "reserve", l.debt)
               w3 == Move(w2, l.coin, "pool", l.borrower, left)
               w4 == MoveToken(w3, t, "pool", l.bidder)
    <2>1. /\ l \in Loans /\ l \in Auctions /\ l.borrower \in Users /\ l.coin \in Coins
          /\ l.debt \in 1..MaxDebt /\ l.bidder \in Users /\ l.bid \in Nat
      BY <1>2, Fields, LoanKinds
    <2>2. l.debt \in Nat /\ extra \in Nat /\ left \in Nat /\ c \in BOOLEAN
      <3>1. l.debt \in Nat /\ l.over \in BOOLEAN
        BY <2>1, DebtNat DEF Auctions
      <3> QED BY <2>1, <3>1 DEF Over
    <2>3. /\ l.coin \in Purses /\ "pool" \in Actors(u) \ Gates /\ "pool" \in Holders /\ g \in Holders
          /\ "pool" \in Holders \ Gates /\ "pool" \in Actors(u)
          /\ "reserve" \in Holders \ Gates /\ "reserve" \in Holders
          /\ l.bidder \in Holders \ Gates /\ l.bidder \in Holders
          /\ l.borrower \in Holders \ Gates /\ l.borrower \in Holders
      BY <2>1, Names DEF Actors
    <2>4. v = [w4 EXCEPT !.loan[t] = NoLoan, !.ret = extra]
      BY <1>2 DEF Liquidate
    <2> HIDE DEF v, extra, left
    <2>5. Pass(w, w0, u, g, l.coin, 0) /\ w0 \in World /\ (w0.ok => c)
      <3> HIDE DEF c
      <3> QED BY <2>2, RequirePass, RequireStep
    <2>6. w0.ok => n >= extra
      BY <2>5
    <2> HIDE DEF w0, c
    <2>7. Pass(w0, w1, u, g, l.coin, -extra) /\ w1 \in World
      BY <2>2, <2>3, <2>5, MoveOut, MoveRest
    <2> HIDE DEF w1
    <2>8. Pass(w1, w2, u, g, l.coin, 0) /\ w2 \in World
      BY <2>2, <2>3, <2>7, MoveAround, MoveRest
    <2> HIDE DEF w2
    <2>9. Pass(w2, w3, u, g, l.coin, 0) /\ w3 \in World
      BY <2>2, <2>3, <2>8, MoveAround, MoveRest
    <2> HIDE DEF w3
    <2>10. w4 \in World /\ w4.all \in BOOLEAN
      <3>1. w4 \in World
        BY <2>3, <2>9, MoveTokenStep
      <3> QED BY <3>1, Fields
    <2>11. PICK a \in BOOLEAN : v = Settled(w4, t, NoLoan, extra, a)
      <3> HIDE DEF w4
      <3>1. v = Settled(w4, t, NoLoan, extra, w4.all)
        BY <2>4, <2>10 DEF Settled, World
      <3> QED BY <2>10, <3>1
    <2>12. Pass(w3, v, u, g, l.coin, 0) /\ v.ret = extra
      BY <2>2, <2>3, <2>9, <2>11, ClosePass
    <2> HIDE DEF w4
    <2>13. Pass(w, w1, u, g, l.coin, 0 + -extra)
      BY <2>2, <2>5, <2>7, PassTrans
    <2>14. Pass(w, w2, u, g, l.coin, (0 + -extra) + 0)
      BY <2>2, <2>8, <2>13, PassTrans
    <2>15. Pass(w, w3, u, g, l.coin, ((0 + -extra) + 0) + 0)
      BY <2>2, <2>9, <2>14, PassTrans
    <2>16. Pass(w, v, u, g, l.coin, (((0 + -extra) + 0) + 0) + 0)
      BY <2>2, <2>12, <2>15, PassTrans
    <2>17. (((0 + -extra) + 0) + 0) + 0 = -v.ret
      BY <2>2, <2>12
    <2>18. Pass(w, v, u, g, l.coin, -v.ret)
      BY <2>16, <2>17
    <2>19. v.ok => w0.ok
      BY <2>7, <2>8, <2>9, <2>12, PassOk
    <2> QED BY <2>6, <2>12, <2>18, <2>19 DEF v
  <1> QED BY <1>1, <1>2

(***************************************************************************)
(* The WETH gateway, called by u or by the punk gateway for u.             *)
(***************************************************************************)

\* What the call costs the punk gateway, if it is the caller c.
Due(c, k) == IF c = PG THEN k ELSE 0

LEMMA PassAs ==
  ASSUME NEW w, NEW v, NEW u, NEW g, NEW p, NEW k, NEW q, NEW m, Pass(w, v, u, g, p, k),
         v.ok => p = q /\ k = m
  PROVE  Pass(w, v, u, g, q, m)
PROOF
  BY DEF Pass, Pay

\* What comes in goes out.
LEMMA PassCancel ==
  ASSUME NEW w \in World, NEW v, NEW z, NEW u, NEW g, NEW p, NEW k \in Int, NEW h, NEW q,
         Pass(w, v, u, g, p, k), Pass(v, z, u, g, p, -k)
  PROVE  Pass(w, z, u, h, q, 0)
PROOF
  <1>1. Pass(w, z, u, g, p, k + -k) /\ -k \in Int
    BY PassTrans
  <1>2. k + -k = 0
    OBVIOUS
  <1> QED BY <1>1, <1>2, PassIdle

LEMMA PassThen ==
  ASSUME NEW w \in World, NEW v, NEW z, NEW u, NEW g, NEW p, NEW k \in Int, NEW h, NEW q,
         Pass(w, v, u, g, p, k), Pass(v, z, u, h, q, 0)
  PROVE  Pass(w, z, u, g, p, k)
PROOF
  <1>1. v \in World
    BY PassOk
  <1>2. Pass(v, z, u, g, p, 0)
    BY <1>1, PassIdle
  <1>3. Pass(w, z, u, g, p, k + 0) /\ k + 0 = k
    BY <1>2, PassTrans
  <1> QED BY <1>3

LEMMA PassAfter ==
  ASSUME NEW w \in World, NEW v, NEW z, NEW u, NEW g, NEW p, NEW k \in Int, NEW h, NEW q,
         Pass(w, v, u, h, q, 0), Pass(v, z, u, g, p, k)
  PROVE  Pass(w, z, u, g, p, k)
PROOF
  <1>1. Pass(w, v, u, g, p, 0)
    BY PassIdle
  <1>2. Pass(w, z, u, g, p, 0 + k) /\ 0 + k = k
    BY <1>1, PassTrans
  <1> QED BY <1>2

LEMMA DueInt ==
  ASSUME NEW c, NEW k \in Int
  PROVE  Due(c, k) \in Int /\ Due(PG, k) = k /\ (c # PG => Due(c, k) = 0)
PROOF
  BY DEF Due

LEMMA ReceivePass ==
  ASSUME NEW w \in World, NEW u \in Users, NEW c \in {u, PG}, NEW value \in Nat
  PROVE  /\ \E x \in World : /\ Pass(w, x, u, PG, "eth", Due(c, -value))
                             /\ Pass(x, Receive(w, c, WG, value), u, WG, "eth", value)
         /\ Receive(w, c, WG, value) \in World /\ Rest(Receive(w, c, WG, value)) = Rest(w)
PROOF
  <1> DEFINE x == Burn(w, "eth", c, value)
             v == Receive(w, c, WG, value)
  <1>1. "eth" \in Purses /\ c \in Actors(u) /\ c \in Holders /\ WG \in Holders /\ u \notin Gates
    BY Names DEF Actors
  <1>2. Pass(w, x, u, c, "eth", -value)
    BY <1>1, BurnPass
  <1>3. x \in World
    BY <1>2, PassOk
  <1>4. v = Mint(x, "eth", WG, value)
    BY DEF Receive, Move
  <1> HIDE DEF x, v
  <1>5. Pass(x, v, u, WG, "eth", value)
    BY <1>1, <1>3, <1>4, MintPass
  <1>6. Pass(w, x, u, PG, "eth", Due(c, -value))
    <2>1. CASE c = PG
      BY <1>2, <2>1 DEF Due
    <2>2. CASE c # PG
      <3>1. c \notin Gates /\ Due(c, -value) = 0
        BY <1>1, <2>2 DEF Due
      <3> QED BY <1>2, <3>1, PassIdle
    <2> QED BY <2>1, <2>2
  <1>7. v \in World /\ Rest(v) = Rest(w)
    BY <1>1, MoveRest DEF v, Receive
  <1> QED BY <1>3, <1>5, <1>6, <1>7 DEF v

LEMMA RefundPass ==
  ASSUME NEW w \in World, NEW u \in Users, NEW c \in {u, PG}, NEW value \in Nat, NEW spent \in Nat
  PROVE  /\ \E x \in World :
              /\ Pass(w, x, u, WG, "eth", -Over(value, spent))
              /\ Pass(x, Refund(w, c, WG, value, spent), u, PG, "eth", Due(c, Over(value, spent)))
         /\ Refund(w, c, WG, value, spent) \in World
         /\ Rest(Refund(w, c, WG, value, spent)) = Rest(w)
PROOF
  <1> DEFINE k == Over(value, spent)
             x == Burn(w, "eth", WG, k)
             v == Refund(w, c, WG, value, spent)
  <1>1. k \in Nat
    BY DEF Over
  <1> HIDE DEF k
  <1>2. /\ "eth" \in Purses /\ WG \in Actors(u) /\ c \in Holders /\ WG \in Holders
        /\ u \notin Gates
    BY Names DEF Actors
  <1>3. Pass(w, x, u, WG, "eth", -k)
    BY <1>1, <1>2, BurnPass
  <1>4. x \in World
    BY <1>3, PassOk
  <1>5. v = Mint(x, "eth", c, k) /\ v = Move(w, "eth", WG, c, k)
    BY DEF Refund, Move, k
  <1> HIDE DEF x, v
  <1>6. Pass(x, v, u, c, "eth", k)
    BY <1>1, <1>2, <1>4, <1>5, MintPass
  <1>7. Pass(x, v, u, PG, "eth", Due(c, k))
    <2>1. CASE c = PG
      BY <1>6, <2>1 DEF Due
    <2>2. CASE c # PG
      <3>1. c \notin Gates /\ Due(c, k) = 0
        BY <1>2, <2>2 DEF Due
      <3> QED BY <1>1, <1>4, <1>6, <3>1, PassIdle
    <2> QED BY <2>1, <2>2
  <1>8. v \in World /\ Rest(v) = Rest(w)
    BY <1>1, <1>2, <1>5, MoveRest
  <1> QED BY <1>3, <1>4, <1>7, <1>8 DEF v, k

LEMMA IsWethPass ==
  ASSUME NEW w \in World, NEW u, NEW t \in Tokens, NEW g, NEW p
  PROVE  /\ Pass(w, IsWeth(w, t), u, g, p, 0) /\ Rest(IsWeth(w, t)) = Rest(w)
         /\ IsWeth(w, t).ok => w.ok /\ w.loan[t].state # "none" /\ w.loan[t].coin = "weth"
PROOF
  <1> DEFINE c == w.loan[t].state # "none" /\ (w.ok => w.loan[t].coin = "weth")
  <1>1. c \in BOOLEAN
    OBVIOUS
  <1>2. IsWeth(w, t) = Require(w, c)
    BY DEF IsWeth
  <1> HIDE DEF c
  <1>3. Pass(w, Require(w, c), u, g, p, 0) /\ (Require(w, c).ok => c)
    BY <1>1, RequirePass
  <1>4. Rest(Require(w, c)) = Rest(w)
    BY <1>1, RequireStep
  <1>5. Require(w, c).ok => w.ok
    BY <1>3, PassOk
  <1> QED BY <1>2, <1>3, <1>4, <1>5 DEF c

LEMMA ValidCallerBool ==
  ASSUME NEW c, NEW for PROVE ValidCaller(c, for) \in BOOLEAN
PROOF
  BY DEF ValidCaller

\* The value of a call, received and wrapped, with checks in between.
LEMMA WrappedValue ==
  ASSUME NEW w \in World, NEW u \in Users, NEW c \in {u, PG}, NEW value \in Nat, NEW m, NEW g, NEW p,
         Pass(Receive(w, c, WG, value), m, u, g, p, 0)
  PROVE  \E y \in World : /\ Pass(w, y, u, PG, "eth", Due(c, -value))
                          /\ Pass(y, Wrap(m, WG, value), u, WG, "weth", value)
PROOF
  <1> DEFINE r == Receive(w, c, WG, value)
             v == Wrap(m, WG, value)
  <1>1. m \in World /\ WG \in Gates
    BY PassOk, Names
  <1>2. PICK x \in World : Pass(w, x, u, PG, "eth", Due(c, -value)) /\ Pass(x, r, u, WG, "eth", value)
    BY ReceivePass
  <1>3. PICK y \in World : Pass(m, y, u, WG, "eth", -value) /\ Pass(y, v, u, WG, "weth", value)
    BY <1>1, WrapPass
  <1> HIDE DEF r, v
  <1>4. Pass(x, m, u, WG, "eth", value)
    BY <1>2, PassThen DEF r
  <1>5. Pass(x, y, u, WG, "eth", 0)
    BY <1>3, <1>4, PassCancel
  <1>6. Pass(w, y, u, PG, "eth", Due(c, -value))
    BY <1>2, <1>5, PassThen, DueInt
  <1> QED BY <1>3, <1>6 DEF v

LEMMA depositETHPass ==
  ASSUME NEW w \in World, NEW u \in Users, NEW c \in {u, PG}, NEW value \in Nat, NEW for \in Users
  PROVE  Pass(w, depositETH(w, c, value, for), u, PG, "eth", Due(c, -value))
PROOF
  <1> DEFINE w0 == Require(w, ValidCaller(c, for))
             r == Receive(w0, c, WG, value)
             w1 == Wrap(r, WG, value)
             v == Deposit(w1, WG, value, for)
  <1>1. Pass(w, w0, u, PG, "eth", 0) /\ w0 \in World
    BY ValidCallerBool, RequirePass, RequireStep
  <1>2. depositETH(w, c, value, for) = v
    BY DEF depositETH
  <1>3. WG \in Actors(u) /\ WG \in Gates
    BY Names DEF Actors
  <1> HIDE DEF w0
  <1>4. r \in World
    BY <1>1, ReceivePass
  <1>5. Pass(r, r, u, PG, "eth", 0)
    BY <1>4, IdlePass
  <1>6. PICK y \in World : /\ Pass(w0, y, u, PG, "eth", Due(c, -value))
                           /\ Pass(y, w1, u, WG, "weth", value)
    BY <1>1, <1>5, WrappedValue
  <1>7. w1 \in World
    BY <1>6, PassOk
  <1> HIDE DEF w1
  <1>8. Pass(w1, v, u, WG, "weth", -value)
    BY <1>3, <1>7, DepositPass
  <1> HIDE DEF v
  <1>9. Pass(y, v, u, PG, "eth", 0)
    BY <1>6, <1>8, PassCancel
  <1>10. Pass(w0, v, u, PG, "eth", Due(c, -value))
    BY <1>1, <1>6, <1>9, PassThen, DueInt
  <1>11. Pass(w, v, u, PG, "eth", Due(c, -value))
    BY <1>1, <1>10, PassAfter, DueInt
  <1> QED BY <1>2, <1>11

LEMMA withdrawETHPass ==
  ASSUME NEW w \in World, NEW u \in Users, NEW n \in Nat, NEW to \in Users
  PROVE  Pass(w, withdrawETH(w, u, n, to), u, PG, "eth", 0)
PROOF
  <1> DEFINE w0 == Require(w, ValidCaller(u, to))
             w1 == Move(w0, "bweth", u, WG, n)
             w2 == Withdraw(w1, WG, n, WG)
             w3 == Unwrap(w2, WG, n)
             v == Move(w3, "eth", WG, to, n)
  <1>1. Pass(w, w0, u, PG, "eth", 0) /\ w0 \in World
    BY ValidCallerBool, RequirePass, RequireStep
  <1>2. withdrawETH(w, u, n, to) = v
    BY DEF withdrawETH
  <1>3. /\ WG \in Gates /\ WG \in Holders /\ WG \in Actors(u) /\ u \in Actors(u) \ Gates
        /\ to \in Holders \ Gates /\ "eth" \in Purses /\ "bweth" \in Purses
    BY Names DEF Actors
  <1> HIDE DEF w0
  <1>4. Pass(w0, w1, u, WG, "bweth", n)
    BY <1>1, <1>3, MoveIn
  <1>5. w1 \in World
    BY <1>4, PassOk
  <1> HIDE DEF w1
  <1>6. PICK x \in World : Pass(w1, x, u, WG, "bweth", -n) /\ Pass(x, w2, u, WG, "weth", n)
    BY <1>3, <1>5, WithdrawPass
  <1>7. w2 \in World
    BY <1>6, PassOk
  <1> HIDE DEF w2
  <1>8. PICK y \in World : Pass(w2, y, u, WG, "weth", -n) /\ Pass(y, w3, u, WG, "eth", n)
    BY <1>3, <1>7, UnwrapPass
  <1>9. w3 \in World
    BY <1>8, PassOk
  <1> HIDE DEF w3
  <1>10. Pass(w3, v, u, WG, "eth", -n)
    BY <1>3, <1>9, MoveOut
  <1> HIDE DEF v
  <1>11. Pass(w0, x, u, PG, "eth", 0)
    BY <1>1, <1>4, <1>6, PassCancel
  <1>12. Pass(x, y, u, PG, "eth", 0)
    BY <1>6, <1>8, PassCancel
  <1>13. Pass(y, v, u, PG, "eth", 0)
    BY <1>8, <1>10, PassCancel
  <1>14. Pass(w, x, u, PG, "eth", 0)
    BY <1>1, <1>11, PassThen
  <1>15. Pass(w, y, u, PG, "eth", 0)
    BY <1>12, <1>14, PassThen
  <1>16. Pass(w, v, u, PG, "eth", 0)
    BY <1>13, <1>15, PassThen
  <1> QED BY <1>2, <1>16

LEMMA auctionETHPass ==
  ASSUME NEW w \in World, NEW u \in Users, NEW c \in {u, PG}, NEW t \in Tokens, NEW value \in Nat,
         NEW for \in Users
  PROVE  Pass(w, auctionETH(w, c, t, value, for), u, PG, "eth", Due(c, -value))
PROOF
  <1> DEFINE w0 == Require(w, ValidCaller(c, for))
             r == Receive(w0, c, WG, value)
             m == IsWeth(r, t)
             w1 == Wrap(m, WG, value)
             v == Auction(w1, WG, t, value, for)
  <1>1. Pass(w, w0, u, PG, "eth", 0) /\ w0 \in World
    BY ValidCallerBool, RequirePass, RequireStep
  <1>2. auctionETH(w, c, t, value, for) = v
    BY DEF auctionETH
  <1>3. WG \in Actors(u) /\ WG \in Gates
    BY Names DEF Actors
  <1> HIDE DEF w0
  <1>4. r \in World
    BY <1>1, ReceivePass
  <1>5. Pass(r, m, u, PG, "eth", 0) /\ (m.ok => r.loan[t].coin = "weth") /\ Rest(m) = Rest(r)
    BY <1>4, IsWethPass
  <1>6. m \in World
    BY <1>5, PassOk
  <1>7. PICK y \in World : /\ Pass(w0, y, u, PG, "eth", Due(c, -value))
                           /\ Pass(y, w1, u, WG, "weth", value)
    BY <1>1, <1>5, WrappedValue
  <1> HIDE DEF r, m
  <1>8. w1 \in World /\ Rest(w1) = Rest(m) /\ (w1.ok => m.ok)
    BY <1>3, <1>6, WrapRest
  <1>9. w1.loan = r.loan
    BY <1>5, <1>8 DEF Rest
  <1> HIDE DEF w1
  <1>10. Pass(w1, v, u, WG, w1.loan[t].coin, -value)
    BY <1>3, <1>8, AuctionPass
  <1>11. v.ok => w1.ok
    BY <1>10, PassOk
  <1> HIDE DEF v
  <1>12. v.ok => w1.loan[t].coin = "weth"
    BY <1>5, <1>8, <1>9, <1>11
  <1>13. Pass(w1, v, u, WG, "weth", -value)
    BY <1>10, <1>12, PassAs
  <1>14. Pass(y, v, u, PG, "eth", 0)
    BY <1>7, <1>13, PassCancel
  <1>15. Pass(w0, v, u, PG, "eth", Due(c, -value))
    BY <1>1, <1>7, <1>14, PassThen, DueInt
  <1>16. Pass(w, v, u, PG, "eth", Due(c, -value))
    BY <1>1, <1>15, PassAfter, DueInt
  <1> QED BY <1>2, <1>16

\* What was wrapped and not taken, unwrapped and given back.
LEMMA RefundWrappedPass ==
  ASSUME NEW w \in World, NEW u \in Users, NEW c \in {u, PG}, NEW value \in Nat
  PROVE  /\ \E x \in World :
              /\ Pass(w, x, u, WG, "weth", -Over(value, w.ret))
              /\ Pass(x, RefundWrapped(w, c, value), u, PG, "eth", Due(c, Over(value, w.ret)))
         /\ RefundWrapped(w, c, value).ret = w.ret
PROOF
  <1> DEFINE k == Over(value, w.ret)
             w1 == Unwrap(w, WG, k)
             v == Refund(w1, c, WG, value, w.ret)
  <1>1. w.ret \in Nat /\ k \in Nat /\ WG \in Gates
    BY Fields, Names DEF Over
  <1>2. RefundWrapped(w, c, value) = v
    BY DEF RefundWrapped
  <1> HIDE DEF k
  <1>3. PICK x \in World : Pass(w, x, u, WG, "weth", -k) /\ Pass(x, w1, u, WG, "eth", k)
    BY <1>1, UnwrapPass
  <1>4. w1 \in World /\ Rest(w1) = Rest(w)
    BY <1>1, WrapRest
  <1> HIDE DEF w1
  <1>5. PICK y \in World : Pass(w1, y, u, WG, "eth", -k) /\ Pass(y, v, u, PG, "eth", Due(c, k))
    BY <1>1, <1>4, RefundPass DEF k
  <1>6. Rest(v) = Rest(w1)
    BY <1>1, <1>4, RefundPass
  <1> HIDE DEF v
  <1>7. Pass(x, y, u, PG, "eth", 0)
    BY <1>1, <1>3, <1>5, PassCancel
  <1>8. Pass(x, v, u, PG, "eth", Due(c, k))
    BY <1>1, <1>5, <1>7, PassAfter, DueInt
  <1>9. v.ret = w.ret
    BY <1>4, <1>6 DEF Rest
  <1> QED BY <1>2, <1>3, <1>8, <1>9 DEF k

\* The pool took ret of what was wrapped, the caller has the rest back.
LEMMA TakenAndRefunded ==
  ASSUME NEW w \in World, NEW u \in Users, NEW c \in {u, PG}, NEW value \in Nat, NEW y \in World,
         NEW w1 \in World, NEW w2, Pass(w, y, u, PG, "eth", Due(c, -value)),
         Pass(y, w1, u, WG, "weth", value), Pass(w1, w2, u, WG, "weth", -w2.ret),
         w2.ok => w2.ret <= value
  PROVE  LET v == RefundWrapped(w2, c, value)
         IN  Pass(w, v, u, PG, "eth", Due(c, -v.ret)) /\ (v.ok => v.ret <= value)
PROOF
  <1> DEFINE v == RefundWrapped(w2, c, value)
             k == Over(value, w2.ret)
  <1>1. w2 \in World
    BY PassOk
  <1>2. w2.ret \in Nat /\ k \in Nat
    BY <1>1, Fields DEF Over
  <1>3. w2.ok => value + -w2.ret = k /\ -value + k = -w2.ret
    BY <1>2 DEF Over
  <1> HIDE DEF k
  <1>4. PICK x \in World : Pass(w2, x, u, WG, "weth", -k) /\ Pass(x, v, u, PG, "eth", Due(c, k))
    BY <1>1, RefundWrappedPass DEF k
  <1>5. v.ret = w2.ret
    BY <1>1, RefundWrappedPass
  <1> HIDE DEF v
  <1>6. Pass(y, w2, u, WG, "weth", value + -w2.ret)
    BY <1>2, PassTrans
  <1>7. Pass(y, w2, u, WG, "weth", k)
    BY <1>3, <1>6, PassAs
  <1>8. Pass(y, x, u, PG, "eth", 0)
    BY <1>2, <1>4, <1>7, PassCancel
  <1>9. Pass(y, v, u, PG, "eth", Due(c, k))
    BY <1>2, <1>4, <1>8, PassAfter, DueInt
  <1>10. Pass(w, v, u, PG, "eth", Due(c, -value) + Due(c, k))
    BY <1>2, <1>9, PassTrans, DueInt
  <1>11. v.ok => w2.ok
    BY <1>4, PassOk
  <1>12. w2.ok => Due(c, -value) + Due(c, k) = Due(c, -v.ret)
    BY <1>3, <1>5 DEF Due
  <1>13. Pass(w, v, u, PG, "eth", Due(c, -v.ret))
    BY <1>10, <1>11, <1>12, PassAs
  <1> QED BY <1>5, <1>11, <1>13 DEF v

LEMMA redeemETHPass ==
  ASSUME NEW w \in World, NEW u \in Users, NEW c \in {u, PG}, NEW t \in Tokens, NEW n \in Nat,
         NEW fine \in Nat, NEW value \in Nat
  PROVE  LET v == redeemETH(w, c, t, n, fine, value)
         IN  Pass(w, v, u, PG, "eth", Due(c, -v.ret)) /\ (v.ok => v.ret <= value)
PROOF
  <1> DEFINE r == Receive(w, c, WG, value)
             m0 == IsWeth(r, t)
             enough == value >= n + fine
             m == Require(m0, enough)
             w1 == Wrap(m, WG, value)
             w2 == Redeem(w1, WG, t, n, fine)
  <1>1. redeemETH(w, c, t, n, fine, value) = RefundWrapped(w2, c, value)
    BY DEF redeemETH
  <1>2. WG \in Actors(u) /\ WG \in Gates /\ enough \in BOOLEAN
    BY Names DEF Actors
  <1>3. r \in World
    BY ReceivePass
  <1>4. Pass(r, m0, u, PG, "eth", 0) /\ (m0.ok => r.loan[t].coin = "weth") /\ Rest(m0) = Rest(r)
    BY <1>3, IsWethPass
  <1>5. m0 \in World
    BY <1>4, PassOk
  <1> HIDE DEF m0, enough
  <1>6. Pass(m0, m, u, PG, "eth", 0) /\ (m.ok => enough)
    BY <1>2, <1>5, RequirePass
  <1>7. m \in World /\ Rest(m) = Rest(m0)
    BY <1>2, <1>5, RequireStep
  <1>8. m.ok => m0.ok
    BY <1>6, PassOk
  <1> HIDE DEF m
  <1>9. Pass(r, m, u, PG, "eth", 0)
    BY <1>3, <1>4, <1>6, PassThen
  <1>10. PICK y \in World : /\ Pass(w, y, u, PG, "eth", Due(c, -value))
                            /\ Pass(y, w1, u, WG, "weth", value)
    BY <1>9, WrappedValue
  <1> HIDE DEF r
  <1>11. w1 \in World /\ Rest(w1) = Rest(m) /\ (w1.ok => m.ok)
    BY <1>2, <1>7, WrapRest
  <1>12. w1.loan = r.loan
    BY <1>4, <1>7, <1>11 DEF Rest
  <1> HIDE DEF w1
  <1>13. Pass(w1, w2, u, WG, w1.loan[t].coin, -w2.ret)
    BY <1>2, <1>11, RedeemPass
  <1>14. w2.ok => w2.ret <= n + fine
    BY <1>2, <1>11, RedeemPass
  <1>15. w2 \in World /\ (w2.ok => w1.ok)
    BY <1>13, PassOk
  <1> HIDE DEF w2
  <1>16. w2.ok => w1.loan[t].coin = "weth" /\ enough
    BY <1>4, <1>6, <1>8, <1>11, <1>12, <1>15
  <1>17. Pass(w1, w2, u, WG, "weth", -w2.ret)
    BY <1>13, <1>16, PassAs
  <1>18. w2.ok => w2.ret <= value
    <2>1. w2.ret \in Nat
      BY <1>15, Fields
    <2> QED BY <1>14, <1>16, <2>1 DEF enough
  <1> QED BY <1>1, <1>10, <1>11, <1>17, <1>18, TakenAndRefunded

LEMMA liquidateETHPass ==
  ASSUME NEW w \in World, NEW u \in Users, NEW c \in {u, PG}, NEW t \in Tokens, NEW value \in Nat
  PROVE  LET v == liquidateETH(w, c, t, value)
         IN  Pass(w, v, u, PG, "eth", Due(c, -v.ret)) /\ (v.ok => v.ret <= value)
PROOF
  <1> DEFINE r == Receive(w, c, WG, value)
             m == IsWeth(r, t)
             w1 == Wrap(m, WG, value)
             w2 == Liquidate(w1, WG, t, value)
  <1>1. liquidateETH(w, c, t, value) = RefundWrapped(w2, c, value)
    BY DEF liquidateETH
  <1>2. WG \in Actors(u) /\ WG \in Gates
    BY Names DEF Actors
  <1>3. r \in World
    BY ReceivePass
  <1>4. Pass(r, m, u, PG, "eth", 0) /\ (m.ok => r.loan[t].coin = "weth") /\ Rest(m) = Rest(r)
    BY <1>3, IsWethPass
  <1>5. m \in World
    BY <1>4, PassOk
  <1>6. PICK y \in World : /\ Pass(w, y, u, PG, "eth", Due(c, -value))
                           /\ Pass(y, w1, u, WG, "weth", value)
    BY <1>4, WrappedValue
  <1> HIDE DEF r, m
  <1>7. w1 \in World /\ Rest(w1) = Rest(m) /\ (w1.ok => m.ok)
    BY <1>2, <1>5, WrapRest
  <1>8. w1.loan = r.loan
    BY <1>4, <1>7 DEF Rest
  <1> HIDE DEF w1
  <1>9. Pass(w1, w2, u, WG, w1.loan[t].coin, -w2.ret)
    BY <1>2, <1>7, LiquidatePass
  <1>10. w2.ok => w2.ret <= value
    BY <1>2, <1>7, LiquidatePass
  <1>11. w2.ok => w1.ok
    BY <1>9, PassOk
  <1> HIDE DEF w2
  <1>12. w2.ok => w1.loan[t].coin = "weth"
    BY <1>4, <1>7, <1>8, <1>11
  <1>13. Pass(w1, w2, u, WG, "weth", -w2.ret)
    BY <1>9, <1>12, PassAs
  <1> QED BY <1>1, <1>6, <1>7, <1>10, <1>13, TakenAndRefunded

\* One item, for u: the token comes from the caller, or is pledged already.
LEMMA BorrowItemPass ==
  ASSUME NEW w \in World, NEW u \in Users, NEW c \in {u, PG}, NEW item \in [t : Tokens, n : Nat],
         NEW for \in Users, w.ok => for = u
  PROVE  LET v == BorrowItem(w, c, item, for)
         IN  Pass(w, v, u, PG, "eth", 0) /\ (v.ok => Borrowed(w, v, item.t))
PROOF
  <1> DEFINE t == item.t
             n == item.n
             w1 == IF w.loan[t].state = "none" THEN MoveToken(w, t, c, WG) ELSE w
             w2 == Borrow(w1, WG, "weth", n, t, for)
             w3 == Unwrap(w2, WG, n)
             v == Move(w3, "eth", WG, for, n)
  <1>1. t \in Tokens /\ n \in Nat
    OBVIOUS
  <1>2. BorrowItem(w, c, item, for) = v
    BY DEF BorrowItem
  <1>3. /\ WG \in Actors(u) /\ WG \in Gates /\ WG \in Holders /\ c \in Actors(u) /\ c \in Holders
        /\ for \in Holders \ Gates /\ for \in Holders /\ "weth" \in Coins /\ "eth" \in Purses
    BY Names DEF Actors
  <1> HIDE DEF t, n
  <1>4. Pay(w, w1, u, PG, "eth", 0) /\ w1.loan = w.loan /\ w1.punk = w.punk
          /\ (w.loan[t].state = "none" => w1.holder = [w.holder EXCEPT ![t] = WG])
          /\ (w.loan[t].state # "none" => w1.holder = w.holder)
    <2>1. CASE w.loan[t].state = "none"
      <3>1. Pay(w, w1, u, PG, "eth", 0)
        BY <1>1, <1>3, <2>1, MoveTokenPay
      <3>2. w1.loan = w.loan /\ w1.punk = w.punk
        BY <1>1, <1>3, <2>1, MoveTokenStep
      <3>3. w1.holder = [w.holder EXCEPT ![t] = WG]
        BY <1>1, <1>3, <2>1, MoveTokenHolder
      <3> QED BY <2>1, <3>1, <3>2, <3>3
    <2>2. CASE w.loan[t].state # "none"
      <3>1. w1 = w
        BY <2>2
      <3>2. Pay(w, w, u, PG, "eth", 0)
        BY IdlePass DEF Pass
      <3> QED BY <2>2, <3>1, <3>2
    <2> QED BY <2>1, <2>2
  <1>5. w1 \in World /\ (w1.ok => for = u)
    BY <1>4 DEF Pay
  <1> HIDE DEF w1
  <1>6. Pass(w1, w2, u, WG, "weth", n) /\ (w2.ok => Borrowed(w1, w2, t))
    BY <1>1, <1>3, <1>5, BorrowPass
  <1>7. w2 \in World
    BY <1>6, PassOk
  <1> HIDE DEF w2
  <1>8. PICK y \in World : Pass(w2, y, u, WG, "weth", -n) /\ Pass(y, w3, u, WG, "eth", n)
    BY <1>1, <1>3, <1>7, UnwrapPass
  <1>9. w3 \in World /\ Rest(w3) = Rest(w2)
    BY <1>1, <1>3, <1>7, WrapRest
  <1> HIDE DEF w3
  <1>10. Pass(w3, v, u, WG, "eth", -n)
    BY <1>1, <1>3, <1>9, MoveOut
  <1>11. Rest(v) = Rest(w3)
    BY <1>1, <1>3, <1>9, MoveRest
  <1> HIDE DEF v
  <1>12. Pass(w1, y, u, PG, "eth", 0)
    BY <1>1, <1>5, <1>6, <1>8, PassCancel
  <1>13. Pass(y, v, u, PG, "eth", 0)
    BY <1>1, <1>8, <1>10, PassCancel
  <1>14. Pass(w1, v, u, PG, "eth", 0)
    BY <1>5, <1>12, <1>13, PassThen
  <1>15. Pay(w, v, u, PG, "eth", 0)
    BY <1>4, <1>14, PayTrans DEF Pass
  <1>16. v.loan = w2.loan /\ v.holder = w2.holder /\ v.punk = w2.punk
    BY <1>9, <1>11 DEF Rest
  <1>17. v.ok => w2.ok
    BY <1>8, <1>10, PassOk
  <1>18. v.ok => Borrowed(w1, v, t)
    BY <1>6, <1>16, <1>17 DEF Borrowed
  <1>19. w.holder \in [Tokens -> Holders \cup {None}]
    BY Fields
  <1>20. v.ok => Borrowed(w, v, t)
    BY <1>4, <1>18, <1>19 DEF Borrowed
  <1>21. Pledged(w) => Pledged(w1)
    BY <1>4, <1>19 DEF Pledged
  <1>22. v.ok => Clean(w, v)
    <2>1. v.ok => (Pledged(w) => Pledged(v))
      BY <1>14, <1>21 DEF Pass, Clean
    <2> QED BY <1>3, <1>19, <1>20, <2>1, Names DEF Borrowed, Clean
  <1> QED BY <1>2, <1>15, <1>20, <1>22 DEF Pass, t

(***************************************************************************)
(* What a batch notes.                                                     *)
(***************************************************************************)

Noted(w, r, a) == [w EXCEPT !.ret = r, !.acc = a]

LEMMA NotedStep ==
  ASSUME NEW w \in World, NEW r \in Nat, NEW a \in Nat
  PROVE  LET v == Noted(w, r, a)
         IN  /\ v \in World /\ v.ok = w.ok /\ v.money = w.money /\ v.holder = w.holder
             /\ v.punk = w.punk /\ v.loan = w.loan /\ v.ret = r /\ v.acc = a
PROOF
  BY DEF Noted, World

LEMMA NotedRet ==
  ASSUME NEW w \in World, NEW r, NEW a
  PROVE  Noted(w, r, a).ret = r /\ Noted(w, r, a).acc = a
PROOF
  BY DEF Noted, World

LEMMA NotedOk ==
  ASSUME NEW w \in World, NEW r, NEW a
  PROVE  Noted(w, r, a).ok = w.ok
PROOF
  BY DEF Noted, World

LEMMA NotedPass ==
  ASSUME NEW w \in World, NEW r \in Nat, NEW a \in Nat, NEW u, NEW g, NEW p
  PROVE  Pass(w, Noted(w, r, a), u, g, p, 0)
PROOF
  <1> DEFINE v == Noted(w, r, a)
  <1>1. /\ v \in World /\ v.ok = w.ok /\ v.money = w.money /\ v.holder = w.holder
        /\ v.punk = w.punk /\ v.loan = w.loan
    BY NotedStep
  <1> HIDE DEF v
  <1>2. \A x, t : OwesIn(v, x, t) = OwesIn(w, x, t) /\ OwnerIn(v, t) = OwnerIn(w, t)
    BY <1>1 DEF OwesIn, OwnerIn
  <1>3. \A x, t : t \in Tokens => OwesIn(w, x, t) <= OwesIn(w, x, t)
    BY OwesNat
  <1>4. Fair(w, v, u)
    BY <1>1, <1>2, <1>3, NotPoorerSame DEF Fair, NotBound, Wrapped
  <1>5. Clean(w, v) /\ Shift(w, v, g, p, 0)
    BY <1>1, ShiftSame DEF Clean, Pledged
  <1> QED BY <1>1, <1>4, <1>5 DEF Pass, Pay, v

LEMMA RepayItemPass ==
  ASSUME NEW w \in World, NEW u \in Users, NEW item \in [t : Tokens, n : Nat], NEW value \in Nat
  PROVE  LET v == RepayItem(w, item, value)
         IN  Pass(w, v, u, WG, "eth", w.acc - v.acc) /\ (v.ok => v.acc <= value)
PROOF
  <1> DEFINE t == item.t
             n == item.n
             w1 == IsWeth(w, t)
             pay == IF w1.ok THEN Smaller(n, w.loan[t].debt) ELSE 0
             enough == value >= w.acc + pay
             w2 == Require(w1, enough)
             w3 == Wrap(w2, WG, pay)
             w4 == Repay(w3, WG, t, n)
             v == Spent(w4)
  <1>1. t \in Tokens /\ n \in Nat
    OBVIOUS
  <1>2. RepayItem(w, item, value) = v
    BY DEF RepayItem
  <1>3. WG \in Actors(u) /\ WG \in Gates /\ w.acc \in Nat
    BY Names, Fields DEF Actors
  <1> HIDE DEF t, n
  <1>4. Pass(w, w1, u, WG, "eth", 0) /\ Rest(w1) = Rest(w)
          /\ (w1.ok => w.ok /\ w.loan[t].state # "none" /\ w.loan[t].coin = "weth")
    BY <1>1, IsWethPass
  <1>5. w1 \in World
    BY <1>4, PassOk
  <1>6. pay \in Nat
    <2>1. w.loan[t] \in Loans
      BY <1>1, Fields
    <2>2. w1.ok => w.loan[t].debt \in Nat
      BY <1>4, <2>1, LoanKinds, DebtNat
    <2> QED BY <1>1, <2>2, SmallerNat
  <1>7. enough \in BOOLEAN
    OBVIOUS
  <1> HIDE DEF w1, enough
  <1>8. Pass(w1, w2, u, WG, "eth", 0) /\ (w2.ok => enough)
    BY <1>5, <1>7, RequirePass
  <1>9. w2 \in World /\ Rest(w2) = Rest(w1)
    BY <1>5, <1>7, RequireStep
  <1> HIDE DEF w2, pay
  <1>10. PICK y \in World : Pass(w2, y, u, WG, "eth", -pay) /\ Pass(y, w3, u, WG, "weth", pay)
    BY <1>3, <1>6, <1>9, WrapPass
  <1>11. w3 \in World /\ Rest(w3) = Rest(w2)
    BY <1>3, <1>6, <1>9, WrapRest
  <1>12. w3.loan = w.loan /\ w3.acc = w.acc
    BY <1>4, <1>9, <1>11 DEF Rest
  <1> HIDE DEF w3
  <1>13. Pass(w3, w4, u, WG, w3.loan[t].coin, -w4.ret)
           /\ (w4.ok => w4.ret = Smaller(n, w3.loan[t].debt) /\ w4.acc = w3.acc)
    BY <1>1, <1>3, <1>11, RepayPass
  <1>14. w4 \in World
    BY <1>13, PassOk
  <1>15. w4.ret \in Nat /\ w4.acc \in Nat
    BY <1>14, Fields
  <1> HIDE DEF w4
  <1>16. w4.ok => w1.ok /\ enough
    BY <1>8, <1>10, <1>13, PassOk
  <1>17. w4.ok => w4.ret = pay /\ w4.acc = w.acc /\ w3.loan[t].coin = "weth"
    BY <1>4, <1>12, <1>13, <1>16 DEF pay
  <1>18. Pass(w3, w4, u, WG, "weth", -pay)
    BY <1>13, <1>17, PassAs
  <1>19. v = Noted(w4, w4.ret, w4.acc + w4.ret)
    BY <1>14 DEF Spent, Noted, World
  <1> HIDE DEF v
  <1>20. Pass(w4, v, u, WG, "eth", 0) /\ v.ok = w4.ok /\ v.acc = w4.acc + w4.ret
    <2> DEFINE a == w4.acc + w4.ret
    <2>1. a \in Nat
      BY <1>15
    <2>2. v = Noted(w4, w4.ret, a)
      BY <1>19
    <2> HIDE DEF a
    <2>3. Pass(w4, v, u, WG, "eth", 0)
      BY <1>14, <1>15, <2>1, <2>2, NotedPass
    <2>4. v.ok = w4.ok /\ v.acc = a
      <3>1. v.acc = a
        BY <1>14, <2>2, NotedRet
      <3>2. v.ok = w4.ok
        BY <1>14, <2>2, NotedOk
      <3> QED BY <3>1, <3>2
    <2> QED BY <2>3, <2>4 DEF a
  <1>21. Pass(w, w2, u, WG, "eth", 0)
    BY <1>4, <1>8, PassThen
  <1>22. Pass(w, y, u, WG, "eth", -pay)
    BY <1>6, <1>10, <1>21, PassAfter
  <1>23. Pass(y, w4, u, WG, "eth", 0)
    BY <1>6, <1>10, <1>18, PassCancel
  <1>24. Pass(y, v, u, WG, "eth", 0)
    BY <1>20, <1>23, PassThen
  <1>25. Pass(w, v, u, WG, "eth", -pay)
    BY <1>6, <1>22, <1>24, PassThen
  <1>26. v.ok => -pay = w.acc - v.acc /\ v.acc <= value
    <2>1. v.ok => v.acc = w.acc + pay /\ value >= w.acc + pay
      BY <1>16, <1>17, <1>20 DEF enough
    <2> QED BY <1>3, <1>6, <2>1
  <1>27. Pass(w, v, u, WG, "eth", w.acc - v.acc)
    BY <1>25, <1>26, PassAs
  <1> QED BY <1>2, <1>26, <1>27

(***************************************************************************)
(* Batches.                                                                *)
(***************************************************************************)

\* From each of S up to n the next is in S.
Climbs(S, n) == \A i \in 0..n - 1 : i \in S => i + 1 \in S

LEMMA SetInduction ==
  ASSUME NEW n \in Nat, NEW S, 0 \in S, Climbs(S, n)
  PROVE  n \in S
PROOF
  <1>1. SUFFICES ASSUME n \notin S PROVE FALSE
    OBVIOUS
  <1> DEFINE T == {i \in Nat : i <= n /\ i \notin S}
  <1> DEFINE R == OpToRel(<, Nat)
  <1>2. T \subseteq Nat /\ T # {}
    BY <1>1
  <1>3. IsWellFoundedOn(R, Nat)
    BY NatLessThanWellFounded
  <1>4. \A i, j \in Nat : i < j => <<i, j>> \in R
    BY DEF OpToRel
  <1>5. \E x \in T : \A y \in T : <<y, x>> \notin R
    <2> HIDE DEF T, R
    <2> QED BY <1>2, <1>3, WFMin
  <1>6. PICK x \in T : \A y \in T : ~(y < x)
    BY <1>4, <1>5
  <1>7. x # 0 /\ x - 1 \in 0..n - 1 /\ x - 1 \notin T
    BY <1>6
  <1> QED BY <1>6, <1>7 DEF Climbs

\* g is the run of n steps from w, the i-th of which takes x to F[i][x].
Runs(F, w, n, g) == g[0] = w /\ \A i \in 1..n : g[i] = F[i][g[i - 1]]

\* When every step keeps W there is one.
LEMMA LoopExists ==
  ASSUME NEW W, NEW n \in Nat, NEW F \in [1..n -> [W -> W]], NEW w \in W
  PROVE  \E g \in [0..n -> W] : Runs(F, w, n, g)
PROOF
  <1> DEFINE S == {m \in 0..n : \E g \in [0..m -> W] : Runs(F, w, m, g)}
  <1>1. 0 \in S
    <2> DEFINE h == [i \in 0..0 |-> w]
    <2>1. h \in [0..0 -> W] /\ h[0] = w
      OBVIOUS
    <2> HIDE DEF h
    <2>2. Runs(F, w, 0, h)
      BY <2>1 DEF Runs
    <2> QED BY <2>1, <2>2
  <1>2. ASSUME NEW m \in 0..n - 1, m \in S PROVE m + 1 \in S
    <2>1. PICK g \in [0..m -> W] : Runs(F, w, m, g)
      BY <1>2
    <2>2. g[0] = w /\ \A i \in 1..m : g[i] = F[i][g[i - 1]]
      BY <2>1 DEF Runs
    <2> DEFINE h == [i \in 0..m + 1 |-> IF i = m + 1 THEN F[m + 1][g[m]] ELSE g[i]]
    <2>3. m + 1 \in 1..n /\ g[m] \in W
      BY <2>1
    <2>4. F[m + 1][g[m]] \in W
      BY <2>3
    <2>5. h \in [0..m + 1 -> W]
      BY <2>1, <2>4
    <2>6. h[0] = w
      <3>1. h[0] = g[0]
        OBVIOUS
      <3> QED BY <2>2, <3>1
    <2>7. ASSUME NEW i \in 1..m + 1 PROVE h[i] = F[i][h[i - 1]]
      <3>1. CASE i = m + 1
        BY <3>1
      <3>2. CASE i # m + 1
        <4>1. i \in 1..m /\ h[i] = g[i] /\ h[i - 1] = g[i - 1]
          BY <3>2
        <4> QED BY <2>2, <4>1
      <3> QED BY <3>1, <3>2
    <2> HIDE DEF h
    <2>8. Runs(F, w, m + 1, h)
      BY <2>6, <2>7 DEF Runs
    <2>9. m + 1 \in 0..n
      BY <2>3
    <2> QED BY <2>5, <2>8, <2>9
  <1>3. Climbs(S, n)
    BY <1>2 DEF Climbs
  <1>4. n \in S
    <2> HIDE DEF S
    <2> QED BY <1>1, <1>3, SetInduction
  <1> QED BY <1>4

\* Where g and h agree, they agree one step further.
Agree(g, h, n) == g[0] = h[0] /\ \A i \in 1..n : g[i - 1] = h[i - 1] => g[i] = h[i]

LEMMA SameLoop ==
  ASSUME NEW n \in Nat, NEW g, NEW h, Agree(g, h, n)
  PROVE  g[n] = h[n]
PROOF
  <1> DEFINE S == {i \in 0..n : g[i] = h[i]}
  <1>1. 0 \in S
    BY DEF Agree
  <1>2. ASSUME NEW i \in 0..n - 1, i \in S PROVE i + 1 \in S
    <2>1. i + 1 \in 1..n /\ (i + 1) - 1 = i
      OBVIOUS
    <2> QED BY <1>2, <2>1 DEF Agree
  <1>3. Climbs(S, n)
    BY <1>2 DEF Climbs
  <1> HIDE DEF S
  <1>4. n \in S
    BY <1>1, <1>3, SetInduction
  <1> QED BY <1>4 DEF S

\* The loops of the batches.  Each is the run above, over a set of states that
\* its items keep.
LEMMA BorrowLoop ==
  ASSUME NEW w, NEW W, NEW c, NEW n \in Nat, NEW for, NEW items, Len(items) = n,
         Require(w, ValidCaller(c, for)) \in W,
         \A i \in 1..n : \A x \in W : BorrowItem(x, c, items[i], for) \in W
  PROVE  \E g \in [0..n -> W] :
           /\ g[0] = Require(w, ValidCaller(c, for))
           /\ \A i \in 1..n : g[i] = BorrowItem(g[i - 1], c, items[i], for)
           /\ batchBorrowETH(w, c, items, for) = g[n]
PROOF
  <1> DEFINE w0 == Require(w, ValidCaller(c, for))
  <1> DEFINE F == [i \in 1..n |-> [x \in W |-> BorrowItem(x, c, items[i], for)]]
             Body(f) == [i \in 0..n |-> IF i = 0 THEN w0 ELSE BorrowItem(f[i - 1], c, items[i], for)]
             h == CHOOSE f : f = Body(f)
  <1>1. F \in [1..n -> [W -> W]]
    OBVIOUS
  <1>2. \A i \in 1..n : \A x \in W : F[i][x] = BorrowItem(x, c, items[i], for)
    OBVIOUS
  <1>3. batchBorrowETH(w, c, items, for) = h[n]
    BY DEF batchBorrowETH, InTurn
  <1> HIDE DEF F, w0
  <1>4. PICK g \in [0..n -> W] : Runs(F, w0, n, g)
    BY <1>1, LoopExists DEF w0
  <1>5. g[0] = w0 /\ \A i \in 1..n : g[i] = BorrowItem(g[i - 1], c, items[i], for)
    <2>1. \A i \in 1..n : g[i - 1] \in W
      OBVIOUS
    <2> QED BY <1>2, <1>4, <2>1 DEF Runs
  <1>6. g = Body(g)
    BY <1>5
  <1>7. h = Body(h)
    BY <1>6
  <1> HIDE DEF h
  <1>8. Agree(g, h, n)
    BY <1>5, <1>7 DEF Agree
  <1>9. g[n] = h[n]
    BY <1>8, SameLoop
  <1> QED BY <1>3, <1>5, <1>9 DEF w0

\* The token is with no gateway while it secures a loan.
Safe(w, t) == w.loan[t].state # "none" => w.holder[t] \notin Gates

LEMMA ItemNat == \A item \in Items : item \in [t : Tokens, n : Nat] /\ item.t \in Tokens
PROOF
  BY GatewayAssumption DEF Items

LEMMA batchBorrowETHPass ==
  ASSUME NEW w \in World, NEW u \in Users, NEW c \in {u, PG}, NEW n \in Nat,
         NEW items \in [1..n -> Items], NEW for \in Users, c = PG /\ w.ok => for = u
  PROVE  LET v == batchBorrowETH(w, c, items, for)
         IN  /\ Pass(w, v, u, PG, "eth", 0)
             /\ \A t \in Tokens :
                  (v.ok /\ Safe(w, t) /\ (\A i \in 1..n : items[i].t = t)) =>
                     Safe(v, t) /\ (n > 0 => v.loan[t].state = "active")
PROOF
  <1> DEFINE w0 == Require(w, ValidCaller(c, for))
             v == batchBorrowETH(w, c, items, for)
             Only(t) == \A i \in 1..n : items[i].t = t
             W == {x \in World : /\ Pass(w0, x, u, PG, "eth", 0)
                                 /\ \A t \in Tokens : x.ok /\ Safe(w, t) /\ Only(t) => Safe(x, t)}
  <1>1. Pass(w, w0, u, PG, "eth", 0) /\ (w0.ok => ValidCaller(c, for))
    BY ValidCallerBool, RequirePass
  <1>2. w0 \in World /\ Rest(w0) = Rest(w)
    BY ValidCallerBool, RequireStep
  <1> HIDE DEF w0, Only, v
  <1>3. w0.ok => for = u
    <2>1. w0.ok => w.ok
      BY <1>1, PassOk
    <2> QED BY <1>1, <2>1 DEF ValidCaller
  <1>4. Len(items) = n
    OBVIOUS
  <1>5. w0 \in W
    <2>1. Pass(w0, w0, u, PG, "eth", 0)
      BY <1>2, IdlePass
    <2>2. \A t \in Tokens : Safe(w, t) => Safe(w0, t)
      BY <1>2 DEF Rest, Safe
    <2> QED BY <1>2, <2>1, <2>2
  <1>6. ASSUME NEW i \in 1..n, NEW x \in W
        PROVE  /\ BorrowItem(x, c, items[i], for) \in W
               /\ LET y == BorrowItem(x, c, items[i], for)
                  IN  y.ok => Borrowed(x, y, items[i].t)
    <2> DEFINE item == items[i]
               y == BorrowItem(x, c, item, for)
    <2>1. item \in [t : Tokens, n : Nat]
      BY ItemNat
    <2>2. x \in World /\ Pass(w0, x, u, PG, "eth", 0)
      OBVIOUS
    <2>3. x.ok => for = u
      BY <1>3, <2>2, PassOk
    <2> HIDE DEF item
    <2>4. Pass(x, y, u, PG, "eth", 0) /\ (y.ok => Borrowed(x, y, item.t))
      BY <2>1, <2>2, <2>3, BorrowItemPass
    <2> HIDE DEF y
    <2>5. Pass(w0, y, u, PG, "eth", 0)
      BY <1>2, <2>2, <2>4, PassThen
    <2>6. y \in World /\ (y.ok => x.ok)
      BY <2>4, PassOk
    <2>7. ASSUME NEW t \in Tokens, y.ok, Safe(w, t), Only(t)
          PROVE  Safe(y, t)
      <3>1. Safe(x, t) /\ item.t = t
        BY <2>6, <2>7 DEF Only, item
      <3>2. x.holder \in [Tokens -> Holders \cup {None}]
        BY <2>2, Fields
      <3> QED BY <2>4, <2>7, <3>1, <3>2, Names DEF Borrowed, Safe
    <2> HIDE DEF W
    <2>8. y \in W
      BY <2>5, <2>6, <2>7 DEF W
    <2> QED BY <2>4, <2>8 DEF y, item
  <1>7. PICK g \in [0..n -> W] :
           /\ g[0] = w0 /\ \A i \in 1..n : g[i] = BorrowItem(g[i - 1], c, items[i], for)
           /\ v = g[n]
    <2>1. \A i \in 1..n : \A x \in W : BorrowItem(x, c, items[i], for) \in W
      BY <1>6
    <2> HIDE DEF W
    <2> QED BY <1>4, <1>5, <2>1, BorrowLoop DEF w0, v
  <1>8. v \in W
    <2>1. n \in 0..n
      OBVIOUS
    <2> HIDE DEF W
    <2> QED BY <1>7, <2>1
  <1>9. Pass(w, v, u, PG, "eth", 0)
    BY <1>1, <1>8, PassThen
  <1>10. ASSUME NEW t \in Tokens, v.ok, Safe(w, t), Only(t)
         PROVE  Safe(v, t) /\ (n > 0 => v.loan[t].state = "active")
    <2>1. Safe(v, t)
      <3>1. \A s \in Tokens : v.ok /\ Safe(w, s) /\ Only(s) => Safe(v, s)
        BY <1>8
      <3> QED BY <1>10, <3>1
    <2>2. ASSUME n > 0 PROVE v.loan[t].state = "active"
      <3>1. n \in 1..n /\ g[n - 1] \in W /\ v = BorrowItem(g[n - 1], c, items[n], for)
        BY <1>7, <2>2
      <3>2. Borrowed(g[n - 1], v, items[n].t)
        BY <1>6, <1>10, <3>1
      <3> QED BY <1>10, <3>1, <3>2 DEF Only, Borrowed
    <2> QED BY <2>1, <2>2
  <1> QED BY <1>9, <1>10 DEF v, Only

LEMMA StartBatchPass ==
  ASSUME NEW w \in World, NEW u \in Users, NEW c \in {u, PG}, NEW value \in Nat
  PROVE  LET s == StartBatch(w, c, WG, value)
         IN  /\ \E x \in World : /\ Pass(w, x, u, PG, "eth", Due(c, -value))
                                 /\ Pass(x, s, u, WG, "eth", value)
             /\ s \in World /\ s.acc = 0
PROOF
  <1> DEFINE r == Receive(w, c, WG, value)
             s == StartBatch(w, c, WG, value)
  <1>1. PICK x \in World : /\ Pass(w, x, u, PG, "eth", Due(c, -value))
                           /\ Pass(x, r, u, WG, "eth", value)
    BY ReceivePass
  <1>2. r \in World
    BY ReceivePass
  <1> HIDE DEF r
  <1>3. r.ret \in Nat
    BY <1>2, Fields
  <1>4. s = Noted(r, r.ret, 0)
    BY <1>2 DEF StartBatch, Noted, World, r
  <1> HIDE DEF s
  <1>5. s \in World /\ s.acc = 0 /\ Pass(r, s, u, WG, "eth", 0)
    BY <1>2, <1>3, <1>4, NotedStep, NotedPass
  <1>6. Pass(x, s, u, WG, "eth", value)
    BY <1>1, <1>5, PassThen
  <1> QED BY <1>1, <1>5, <1>6 DEF s

\* A batch that counts what it takes of the value, x, gives back the rest.
LEMMA EndBatchPass ==
  ASSUME NEW w \in World, NEW u \in Users, NEW c \in {u, PG}, NEW value \in Nat, NEW x,
         Pass(StartBatch(w, c, WG, value), x, u, WG, "eth", -x.acc), x.ok => x.acc <= value
  PROVE  LET v == EndBatch(x, c, WG, value, w.acc)
         IN  /\ Pass(w, v, u, PG, "eth", Due(c, -v.ret))
             /\ v.ok => v.ret <= value /\ v.acc = w.acc
PROOF
  <1> DEFINE s == StartBatch(w, c, WG, value)
             v == EndBatch(x, c, WG, value, w.acc)
             k == Over(value, x.acc)
             f == Refund(x, c, WG, value, x.acc)
  <1>1. x \in World /\ w.acc \in Nat
    BY PassOk, Fields
  <1>2. x.acc \in Nat
    BY <1>1, Fields
  <1>3. k \in Nat
    BY <1>2 DEF Over
  <1>4. x.ok => value + -x.acc = k /\ -value + k = -x.acc
    BY <1>2 DEF Over
  <1>5. s \in World
    BY StartBatchPass
  <1>6. PICK b \in World : Pass(w, b, u, PG, "eth", Due(c, -value)) /\ Pass(b, s, u, WG, "eth", value)
    BY StartBatchPass
  <1>7. PICK y \in World : Pass(x, y, u, WG, "eth", -k) /\ Pass(y, f, u, PG, "eth", Due(c, k))
    BY <1>1, <1>2, RefundPass
  <1>8. f \in World
    BY <1>1, <1>2, RefundPass
  <1>9. v = Noted(f, x.acc, w.acc)
    BY <1>8 DEF EndBatch, Noted, World
  <1> HIDE DEF s, k, f, v
  <1>10. v.ret = x.acc /\ v.acc = w.acc /\ Pass(f, v, u, PG, "eth", 0)
    <2>1. v.ret = x.acc /\ v.acc = w.acc
      BY <1>8, <1>9, NotedRet
    <2>2. Pass(f, v, u, PG, "eth", 0)
      BY ONLY <1>1, <1>2, <1>8, <1>9, NotedPass
    <2> QED BY <2>1, <2>2
  <1>11. Pass(b, x, u, WG, "eth", value + -x.acc)
    BY <1>2, <1>5, <1>6, PassTrans DEF s
  <1>12. Pass(b, x, u, WG, "eth", k)
    BY <1>4, <1>11, PassAs
  <1>13. Pass(b, y, u, PG, "eth", 0)
    BY <1>3, <1>7, <1>12, PassCancel
  <1>14. Pass(b, f, u, PG, "eth", Due(c, k))
    BY <1>3, <1>7, <1>13, PassAfter, DueInt
  <1>15. Pass(b, v, u, PG, "eth", Due(c, k))
    BY <1>3, <1>10, <1>14, PassThen, DueInt
  <1>16. Pass(w, v, u, PG, "eth", Due(c, -value) + Due(c, k))
    BY <1>3, <1>6, <1>15, PassTrans, DueInt
  <1>17. v.ok => x.ok
    BY <1>7, <1>10, PassOk
  <1>18. x.ok => Due(c, -value) + Due(c, k) = Due(c, -v.ret)
    BY <1>4, <1>10 DEF Due
  <1>19. Pass(w, v, u, PG, "eth", Due(c, -v.ret))
    BY <1>16, <1>17, <1>18, PassAs
  <1> QED BY <1>10, <1>17, <1>19 DEF v

LEMMA repayETHPass ==
  ASSUME NEW w \in World, NEW u \in Users, NEW c \in {u, PG}, NEW item \in [t : Tokens, n : Nat],
         NEW value \in Nat
  PROVE  LET v == repayETH(w, c, item, value)
         IN  /\ Pass(w, v, u, PG, "eth", Due(c, -v.ret))
             /\ v.ok => v.ret <= value /\ v.acc = w.acc
PROOF
  <1> DEFINE s == StartBatch(w, c, WG, value)
             x == RepayItem(s, item, value)
             v == EndBatch(x, c, WG, value, w.acc)
  <1>1. s \in World /\ s.acc = 0
    BY StartBatchPass
  <1> HIDE DEF s
  <1>2. Pass(s, x, u, WG, "eth", s.acc - x.acc) /\ (x.ok => x.acc <= value)
    BY <1>1, RepayItemPass
  <1> HIDE DEF x
  <1>3. x.acc \in Nat
    BY <1>2, PassOk, Fields
  <1>4. s.acc - x.acc = -x.acc
    BY <1>1, <1>3
  <1>5. Pass(s, x, u, WG, "eth", -x.acc)
    BY <1>2, <1>4
  <1>6. /\ Pass(w, v, u, PG, "eth", Due(c, -v.ret))
        /\ v.ok => v.ret <= value /\ v.acc = w.acc
    BY <1>2, <1>5, EndBatchPass DEF s
  <1> QED BY <1>6 DEF repayETH, s, x

LEMMA RepayLoop ==
  ASSUME NEW w, NEW W, NEW c, NEW n \in Nat, NEW value, NEW items, Len(items) = n,
         StartBatch(w, c, WG, value) \in W,
         \A i \in 1..n : \A x \in W : RepayItem(x, items[i], value) \in W
  PROVE  \E x \in W : batchRepayETH(w, c, items, value) = EndBatch(x, c, WG, value, w.acc)
PROOF
  <1> DEFINE w0 == StartBatch(w, c, WG, value)
  <1> DEFINE F == [i \in 1..n |-> [x \in W |-> RepayItem(x, items[i], value)]]
             Body(f) == [i \in 0..n |-> IF i = 0 THEN w0 ELSE RepayItem(f[i - 1], items[i], value)]
             h == CHOOSE f : f = Body(f)
  <1>1. F \in [1..n -> [W -> W]]
    OBVIOUS
  <1>2. \A i \in 1..n : \A x \in W : F[i][x] = RepayItem(x, items[i], value)
    OBVIOUS
  <1>3. batchRepayETH(w, c, items, value) = EndBatch(h[n], c, WG, value, w.acc)
    BY DEF batchRepayETH, InTurn
  <1> HIDE DEF F, w0
  <1>4. PICK g \in [0..n -> W] : Runs(F, w0, n, g)
    BY <1>1, LoopExists DEF w0
  <1>5. g[0] = w0 /\ \A i \in 1..n : g[i] = RepayItem(g[i - 1], items[i], value)
    <2>1. \A i \in 1..n : g[i - 1] \in W
      OBVIOUS
    <2> QED BY <1>2, <1>4, <2>1 DEF Runs
  <1>6. g = Body(g)
    BY <1>5
  <1>7. h = Body(h)
    BY <1>6
  <1> HIDE DEF h
  <1>8. Agree(g, h, n)
    BY <1>5, <1>7 DEF Agree
  <1>9. g[n] = h[n]
    BY <1>8, SameLoop
  <1>10. g[n] \in W
    OBVIOUS
  <1> QED BY <1>3, <1>9, <1>10

LEMMA batchRepayETHPass ==
  ASSUME NEW w \in World, NEW u \in Users, NEW c \in {u, PG}, NEW n \in Nat,
         NEW items \in [1..n -> Items], NEW value \in Nat
  PROVE  LET v == batchRepayETH(w, c, items, value)
         IN  Pass(w, v, u, PG, "eth", Due(c, -v.ret))
PROOF
  <1> DEFINE s == StartBatch(w, c, WG, value)
             v == batchRepayETH(w, c, items, value)
             W == {x \in World : /\ Pass(s, x, u, WG, "eth", -x.acc)
                                 /\ x.ok => x.acc <= value}
  <1>1. s \in World /\ s.acc = 0
    BY StartBatchPass
  <1> HIDE DEF s, v
  <1>2. s \in W
    <2>1. Pass(s, s, u, WG, "eth", 0)
      BY <1>1, IdlePass
    <2>2. 0 <= value
      OBVIOUS
    <2>3. Pass(s, s, u, WG, "eth", -s.acc) /\ s.acc <= value
      BY ONLY <1>1, <2>1, <2>2
    <2> QED BY <1>1, <2>3
  <1>3. ASSUME NEW i \in 1..n, NEW x \in W PROVE RepayItem(x, items[i], value) \in W
    <2> DEFINE item == items[i]
               y == RepayItem(x, item, value)
    <2>1. item \in [t : Tokens, n : Nat]
      BY ItemNat
    <2>2. x \in World /\ Pass(s, x, u, WG, "eth", -x.acc) /\ x.acc \in Nat
      BY Fields
    <2> HIDE DEF item, W
    <2>3. Pass(x, y, u, WG, "eth", x.acc - y.acc) /\ (y.ok => y.acc <= value)
      BY <2>1, <2>2, RepayItemPass
    <2> HIDE DEF y
    <2>4. y \in World /\ y.acc \in Nat
      BY <2>3, PassOk, Fields
    <2>5. Pass(s, y, u, WG, "eth", -x.acc + (x.acc - y.acc))
      BY <1>1, <2>2, <2>3, <2>4, PassTrans
    <2>6. -x.acc + (x.acc - y.acc) = -y.acc
      BY <2>2, <2>4
    <2>7. y \in W
      BY <2>3, <2>4, <2>5, <2>6 DEF W
    <2> QED BY <2>7 DEF y, item
  <1>4. PICK x \in W : v = EndBatch(x, c, WG, value, w.acc)
    <2>1. Len(items) = n
      OBVIOUS
    <2> HIDE DEF W
    <2> QED BY <1>2, <1>3, <2>1, RepayLoop DEF s, v
  <1>5. Pass(s, x, u, WG, "eth", -x.acc) /\ (x.ok => x.acc <= value)
    OBVIOUS
  <1>6. Pass(w, v, u, PG, "eth", Due(c, -v.ret))
    BY <1>4, <1>5, EndBatchPass DEF s
  <1> QED BY <1>6 DEF v

(***************************************************************************)
(* The punk gateway.                                                       *)
(***************************************************************************)

LEMMA DepositPunkStep ==
  ASSUME NEW w \in World, NEW u \in Users, "punk" \in Tokens, w.loan["punk"].state = "none"
  PROVE  LET v == DepositPunk(w, u)
         IN  /\ v \in World /\ v.money = w.money /\ v.loan = w.loan /\ v.punk = "wrapper"
             /\ v.ok = (w.ok /\ w.punk = u /\ w.offered)
PROOF
  <1> DEFINE h == [w.holder EXCEPT !["punk"] = PG]
             v == DepositPunk(w, u)
             c == w.punk = u /\ w.offered
             r == Require(w, c)
  <1>1. c \in BOOLEAN
    BY Fields
  <1>2. v = [r EXCEPT !.punk = "wrapper", !.offered = FALSE, !.holder["punk"] = PG]
    BY DEF DepositPunk
  <1> HIDE DEF c
  <1>3. r \in World /\ r.ok = (w.ok /\ c) /\ r.money = w.money /\ Rest(r) = Rest(w)
    BY <1>1, RequireStep
  <1>4. r.loan = w.loan /\ r.holder = w.holder
    BY <1>3 DEF Rest
  <1> HIDE DEF r
  <1>5. v = [r EXCEPT !.punk = "wrapper", !.offered = FALSE, !.holder = h]
    BY <1>2, <1>3, <1>4 DEF World
  <1>6. h \in [Tokens -> Holders \cup {None}]
    BY Fields, Names
  <1> HIDE DEF h, v
  <1>7. /\ v \in World /\ v.money = r.money /\ v.loan = r.loan /\ v.punk = "wrapper"
        /\ v.ok = r.ok
    BY <1>3, <1>5, <1>6 DEF World
  <1> QED BY <1>3, <1>4, <1>7 DEF c, v

LEMMA DepositPunkHolder ==
  ASSUME NEW w \in World, NEW u \in Users, "punk" \in Tokens, w.loan["punk"].state = "none"
  PROVE  DepositPunk(w, u).holder = [w.holder EXCEPT !["punk"] = PG]
PROOF
  <1> DEFINE r == Require(w, w.punk = u /\ w.offered)
             h == [w.holder EXCEPT !["punk"] = PG]
             v == DepositPunk(w, u)
  <1>1. v = [r EXCEPT !.punk = "wrapper", !.offered = FALSE, !.holder["punk"] = PG]
    BY DEF DepositPunk
  <1>2. r \in World /\ r.holder = w.holder
    BY DEF Require, World
  <1> HIDE DEF r, v
  <1>3. v = [r EXCEPT !.punk = "wrapper", !.offered = FALSE, !.holder = h]
    BY <1>1, <1>2 DEF World
  <1> HIDE DEF h
  <1>4. v.holder = h
    BY <1>2, <1>3 DEF World
  <1> QED BY <1>4 DEF h, v

LEMMA DepositPunkPay ==
  ASSUME NEW w \in World, NEW u \in Users, "punk" \in Tokens
  PROVE  LET v == DepositPunk(w, u)
         IN  /\ Pay(w, v, u, PG, "eth", 0) /\ v.loan = w.loan
             /\ w.loan["punk"].state # "none" => v = w
             /\ \A t \in Tokens \ {"punk"} : v.holder[t] = w.holder[t]
             /\ v.punk \in {w.punk, "wrapper"}
PROOF
  <1> DEFINE v == DepositPunk(w, u)
  <1>1. CASE w.loan["punk"].state # "none"
    <2>1. v = w
      BY <1>1 DEF DepositPunk
    <2>2. Pay(w, w, u, PG, "eth", 0)
      BY IdlePass DEF Pass
    <2> HIDE DEF v
    <2> QED BY <2>1, <2>2 DEF v
  <1>2. CASE w.loan["punk"].state = "none"
    <2>1. /\ v \in World /\ v.money = w.money /\ v.loan = w.loan /\ v.punk = "wrapper"
          /\ v.ok = (w.ok /\ w.punk = u /\ w.offered)
      BY <1>2, DepositPunkStep
    <2>2. v.holder = [w.holder EXCEPT !["punk"] = PG]
      BY <1>2, DepositPunkHolder
    <2>3. w.holder \in [Tokens -> Holders \cup {None}]
      BY Fields
    <2> HIDE DEF v
    <2>4. v.holder["punk"] = PG /\ \A t \in Tokens \ {"punk"} : v.holder[t] = w.holder[t]
      BY <2>2, <2>3
    <2>5. ASSUME v.ok PROVE Fair(w, v, u)
      <3>1. w.punk = u /\ u # "wrapper" /\ PG # None
        BY <2>1, <2>5, Names
      <3>2. Wrapped(v)
        BY <2>1, <2>4, <3>1 DEF Wrapped
      <3>3. ASSUME NEW x \in Users \ {u}, NEW t \in Tokens
            PROVE  /\ OwesIn(v, x, t) <= OwesIn(w, x, t)
                   /\ OwnerIn(w, t) = x => OwnerIn(v, t) = x
        <4>1. OwesIn(v, x, t) = OwesIn(w, x, t) /\ OwesIn(w, x, t) \in Nat
          BY <2>1, OwesNat DEF OwesIn
        <4>2. OwnerIn(w, t) = x => OwnerIn(v, t) = x
          BY <2>1, <2>4, <3>1 DEF OwnerIn
        <4> QED BY <4>1, <4>2
      <3> QED BY <2>1, <3>2, <3>3, NotPoorerSame DEF Fair, NotBound
    <2>6. Shift(w, v, PG, "eth", 0)
      BY <2>1, ShiftSame
    <2> QED BY <1>2, <2>1, <2>4, <2>5, <2>6 DEF Pay, v
  <1> QED BY <1>1, <1>2

LEMMA WithdrawPunkStep ==
  ASSUME NEW w \in World, NEW u \in Users, "punk" \in Tokens, NEW for,
         w.ok, w.holder["punk"] = u, u = for
  PROVE  LET v == WithdrawPunk(w, u, for)
         IN  /\ v \in World /\ v.ok /\ v.money = w.money /\ v.loan = w.loan /\ v.punk = u
             /\ v.ret = w.ret /\ v.acc = w.acc
PROOF
  <1> DEFINE h == [w.holder EXCEPT !["punk"] = None]
             v == WithdrawPunk(w, u, for)
  <1>1. v = [w EXCEPT !.holder["punk"] = None, !.punk = u]
    BY DEF WithdrawPunk
  <1>2. v = [w EXCEPT !.holder = h, !.punk = u]
    BY <1>1 DEF World
  <1>3. h \in [Tokens -> Holders \cup {None}] /\ u \in Holders
    BY Fields, Names
  <1> HIDE DEF h, v
  <1>4. /\ v \in World /\ v.ok = w.ok /\ v.money = w.money /\ v.loan = w.loan /\ v.punk = u
        /\ v.ret = w.ret /\ v.acc = w.acc
    BY <1>2, <1>3 DEF World
  <1> QED BY <1>4 DEF v

LEMMA WithdrawPunkHolder ==
  ASSUME NEW w \in World, NEW u \in Users, "punk" \in Tokens, NEW for,
         w.ok, w.holder["punk"] = u, u = for
  PROVE  WithdrawPunk(w, u, for).holder = [w.holder EXCEPT !["punk"] = None]
PROOF
  <1> DEFINE h == [w.holder EXCEPT !["punk"] = None]
             v == WithdrawPunk(w, u, for)
  <1>1. v = [w EXCEPT !.holder["punk"] = None, !.punk = u]
    BY DEF WithdrawPunk
  <1>2. v = [w EXCEPT !.holder = h, !.punk = u]
    BY <1>1 DEF World
  <1> HIDE DEF h, v
  <1>3. v.holder = h
    BY <1>2 DEF World
  <1> QED BY <1>3 DEF h, v

LEMMA WithdrawPunkPass ==
  ASSUME NEW w \in World, NEW u \in Users, "punk" \in Tokens, NEW for, NEW g, NEW p
  PROVE  LET v == WithdrawPunk(w, u, for)
         IN  Pass(w, v, u, g, p, 0) /\ v.ret = w.ret /\ v.acc = w.acc
PROOF
  <1> DEFINE v == WithdrawPunk(w, u, for)
  <1>1. CASE ~(w.ok /\ w.holder["punk"] = u /\ u = for)
    <2>1. v = [w EXCEPT !.ok = FALSE]
      BY <1>1 DEF WithdrawPunk
    <2> HIDE DEF v
    <2>2. v.ret = w.ret /\ v.acc = w.acc
      BY <2>1, Fail DEF Rest
    <2> QED BY <2>1, <2>2, FailPass DEF v
  <1>2. CASE w.ok /\ w.holder["punk"] = u /\ u = for
    <2>1. /\ v \in World /\ v.ok /\ v.money = w.money /\ v.loan = w.loan /\ v.punk = u
          /\ v.ret = w.ret /\ v.acc = w.acc
      BY <1>2, WithdrawPunkStep
    <2>2. v.holder = [w.holder EXCEPT !["punk"] = None]
      BY <1>2, WithdrawPunkHolder
    <2>3. w.holder \in [Tokens -> Holders \cup {None}]
      BY Fields
    <2> HIDE DEF v
    <2>4. v.holder["punk"] = None /\ \A t \in Tokens \ {"punk"} : v.holder[t] = w.holder[t]
      BY <2>2, <2>3
    <2>5. u # "wrapper" /\ u # None /\ u \notin Gates /\ None \notin Gates
      BY Names
    <2>6. Wrapped(v)
      BY <2>1, <2>4, <2>5 DEF Wrapped
    <2>7. ASSUME Wrapped(w), NEW x \in Users \ {u}, NEW t \in Tokens
          PROVE  /\ OwesIn(v, x, t) <= OwesIn(w, x, t)
                 /\ OwnerIn(w, t) = x => OwnerIn(v, t) = x
      <3>1. OwesIn(v, x, t) = OwesIn(w, x, t) /\ OwesIn(w, x, t) \in Nat
        BY <2>1, OwesNat DEF OwesIn
      <3>2. w.punk = "wrapper"
        BY <1>2, <2>5, <2>7 DEF Wrapped
      <3>3. OwnerIn(w, t) = x => OwnerIn(v, t) = x
        BY <1>2, <2>1, <2>4, <2>5, <3>2 DEF OwnerIn
      <3> QED BY <3>1, <3>3
    <2>8. Fair(w, v, u)
      BY <2>1, <2>6, <2>7, NotPoorerSame DEF Fair, NotBound
    <2>9. Clean(w, v)
      <3>1. Pledged(w) => Pledged(v)
        BY <1>2, <2>1, <2>4, Names DEF Pledged
      <3> QED BY <2>1, <2>4, <2>5, <3>1 DEF Clean
    <2>10. Shift(w, v, g, p, 0)
      BY <2>1, ShiftSame
    <2> QED BY <1>2, <2>1, <2>8, <2>9, <2>10 DEF Pass, Pay, v
  <1> QED BY <1>1, <1>2

LEMMA ReleasePass ==
  ASSUME NEW w \in World, NEW u \in Users, "punk" \in Tokens, NEW for, NEW g, NEW p
  PROVE  LET v == Release(w, u, for)
         IN  Pass(w, v, u, g, p, 0) /\ v.ret = w.ret /\ v.acc = w.acc
PROOF
  <1>1. CASE w.ok /\ w.all
    BY <1>1, WithdrawPunkPass DEF Release
  <1>2. CASE ~(w.ok /\ w.all)
    BY <1>2, IdlePass DEF Release
  <1> QED BY <1>1, <1>2

LEMMA PunkBorrowItemPass ==
  ASSUME NEW w \in World, NEW u \in Users, "punk" \in Tokens, NEW coin \in Coins, NEW n \in Nat,
         NEW for \in Users, w.ok => for = u
  PROVE  Pass(w, PunkBorrowItem(w, u, coin, n, for), u, PG, "eth", 0)
PROOF
  <1> DEFINE d == DepositPunk(w, u)
             b == Borrow(d, PG, coin, n, "punk", for)
             v == Move(b, coin, PG, for, n)
  <1>1. PG \in Actors(u) /\ PG \in Holders /\ for \in Holders \ Gates /\ coin \in Purses
    BY Names DEF Actors
  <1>2. /\ Pay(w, d, u, PG, "eth", 0) /\ d.loan = w.loan
        /\ w.loan["punk"].state # "none" => d = w
        /\ \A t \in Tokens \ {"punk"} : d.holder[t] = w.holder[t]
        /\ d.punk \in {w.punk, "wrapper"}
    BY DepositPunkPay
  <1> HIDE DEF d
  <1>3. d \in World /\ (d.ok => for = u)
    BY <1>2 DEF Pay
  <1>4. Pass(d, b, u, PG, coin, n) /\ (b.ok => Borrowed(d, b, "punk"))
    BY <1>1, <1>3, BorrowPass
  <1>5. b \in World
    BY <1>4, PassOk
  <1> HIDE DEF b
  <1>6. Pass(b, v, u, PG, coin, -n)
    BY <1>1, <1>5, MoveOut
  <1>7. Rest(v) = Rest(b)
    BY <1>1, <1>5, MoveRest
  <1> HIDE DEF v
  <1>8. Pass(d, v, u, PG, "eth", 0)
    BY <1>3, <1>4, <1>6, PassCancel
  <1>9. Pay(w, v, u, PG, "eth", 0)
    BY <1>2, <1>8, PayTrans DEF Pass
  <1>10. v.ok => Borrowed(d, b, "punk")
    BY <1>4, <1>6, PassOk
  <1>11. v.holder = b.holder /\ v.punk = b.punk
    BY <1>7 DEF Rest
  <1>12. d.holder \in [Tokens -> Holders \cup {None}]
    BY <1>3, Fields
  <1>13. ASSUME v.ok PROVE Clean(w, v)
    <2>1. v.punk \in Gates => v.punk = w.punk
      BY <1>2, <1>10, <1>11, <1>13, Names DEF Borrowed, Gates
    <2>2. CASE w.loan["punk"].state # "none"
      BY <1>2, <1>8, <1>13, <2>2 DEF Pass
    <2>3. CASE w.loan["punk"].state = "none"
      <3>1. v.holder = [d.holder EXCEPT !["punk"] = "pool"]
        BY <1>2, <1>10, <1>11, <1>13, <2>3 DEF Borrowed
      <3>2. v.holder["punk"] = "pool" /\ \A t \in Tokens \ {"punk"} : v.holder[t] = w.holder[t]
        BY <1>2, <1>12, <3>1
      <3>3. Pledged(w) => Pledged(d)
        BY <1>2, <2>3 DEF Pledged
      <3>4. Clean(d, v)
        BY <1>8, <1>13 DEF Pass
      <3> QED BY <2>1, <3>2, <3>3, <3>4, Names DEF Clean
    <2> QED BY <2>2, <2>3
  <1> QED BY <1>9, <1>13 DEF Pass, PunkBorrowItem, d, b, v

LEMMA PunkRepayItemPass ==
  ASSUME NEW w \in World, NEW u \in Users, "punk" \in Tokens, NEW n \in Nat
  PROVE  Pass(w, PunkRepayItem(w, u, n), u, PG, "eth", 0)
PROOF
  <1> DEFINE l == w.loan["punk"]
             pay == Smaller(n, l.debt)
             m == Move(w, l.coin, u, PG, pay)
             r == Repay(m, PG, "punk", pay)
             v == Release(r, u, l.borrower)
  <1>1. CASE ~w.ok \/ l.state = "none"
    BY <1>1, FailPass DEF PunkRepayItem
  <1>2. CASE ~(~w.ok \/ l.state = "none")
    <2>1. l \in Loans /\ l.borrower \in Users /\ l.coin \in Coins /\ l.debt \in Nat
      BY <1>2, Fields, LoanKinds, DebtNat
    <2>2. pay \in Nat /\ pay <= l.debt /\ Smaller(pay, l.debt) = pay
      <3>1. pay \in Nat /\ pay <= l.debt
        BY <2>1, SmallerNat
      <3> QED BY <2>1, <3>1 DEF Smaller
    <2>3. PG \in Actors(u) /\ PG \in Holders /\ u \in Actors(u) \ Gates /\ u \in Holders /\ l.coin \in Purses
      BY <2>1, Names DEF Actors
    <2> HIDE DEF pay
    <2>4. Pass(w, m, u, PG, l.coin, pay) /\ Rest(m) = Rest(w) /\ m \in World
      BY <2>2, <2>3, MoveIn, MoveRest
    <2>5. m.loan["punk"] = l
      BY <2>4 DEF Rest
    <2> HIDE DEF m
    <2>6. Pass(m, r, u, PG, l.coin, -r.ret) /\ (r.ok => r.ret = Smaller(pay, l.debt))
      BY <2>2, <2>3, <2>4, <2>5, RepayPass
    <2>7. r \in World
      BY <2>6, PassOk
    <2> HIDE DEF r
    <2>8. Pass(m, r, u, PG, l.coin, -pay)
      BY <2>2, <2>6, PassAs
    <2>9. Pass(w, r, u, PG, "eth", 0)
      BY <2>2, <2>4, <2>8, PassCancel
    <2>10. Pass(r, v, u, PG, "eth", 0)
      BY <2>1, <2>7, ReleasePass
    <2>11. Pass(w, v, u, PG, "eth", 0)
      BY <2>9, <2>10, PassThen
    <2> QED BY <1>2, <2>11 DEF PunkRepayItem, m, r, pay
  <1> QED BY <1>1, <1>2

LEMMA punkAuctionPass ==
  ASSUME NEW w \in World, NEW u \in Users, "punk" \in Tokens, NEW bid \in Nat, NEW for \in Users
  PROVE  Pass(w, punkAuction(w, u, bid, for), u, PG, "eth", 0)
PROOF
  <1> DEFINE l == w.loan["punk"]
             q == Require(w, ValidCaller(u, for))
             m == Move(q, l.coin, u, PG, bid)
             v == Auction(m, PG, "punk", bid, for)
  <1>1. CASE l.state = "none"
    BY <1>1, FailPass DEF punkAuction
  <1>2. CASE l.state # "none"
    <2>1. PG \in Actors(u) /\ PG \in Holders /\ u \in Actors(u) \ Gates /\ u \in Holders /\ l.coin \in Purses
      BY <1>2, Fields, LoanKinds, Names DEF Actors
    <2>2. Pass(w, q, u, PG, "eth", 0)
      BY ValidCallerBool, RequirePass
    <2>3. q \in World /\ Rest(q) = Rest(w)
      BY ValidCallerBool, RequireStep
    <2> HIDE DEF q
    <2>4. Pass(q, m, u, PG, l.coin, bid) /\ Rest(m) = Rest(q) /\ m \in World
      BY <2>1, <2>3, MoveIn, MoveRest
    <2>5. m.loan["punk"] = l
      BY <2>3, <2>4 DEF Rest
    <2> HIDE DEF m
    <2>6. Pass(m, v, u, PG, l.coin, -bid)
      BY <2>1, <2>4, <2>5, AuctionPass
    <2> HIDE DEF v
    <2>7. Pass(q, v, u, PG, "eth", 0)
      BY <2>3, <2>4, <2>6, PassCancel
    <2>8. Pass(w, v, u, PG, "eth", 0)
      BY <2>2, <2>7, PassThen
    <2> QED BY <1>2, <2>8 DEF punkAuction, q, m, v
  <1> QED BY <1>1, <1>2

\* What the pool takes of what was sent and what is given back, together.
LEMMA RefundCoinPass ==
  ASSUME NEW w \in World, NEW u \in Users, NEW coin \in Coins, NEW sent \in Nat, NEW m,
         NEW r, NEW z \in World, Pass(w, m, u, PG, coin, sent), Pass(m, r, u, PG, coin, -r.ret),
         Pass(r, z, u, PG, "eth", 0), z.ret = r.ret, r.ok => r.ret <= sent
  PROVE  Pass(w, RefundCoin(z, u, coin, sent), u, PG, "eth", 0)
PROOF
  <1> DEFINE k == Over(sent, r.ret)
             v == Move(z, coin, PG, u, k)
  <1>1. PG \in Actors(u) /\ u \in Holders \ Gates /\ coin \in Purses
    BY Names DEF Actors
  <1>2. r.ret \in Nat /\ k \in Nat
    <2>1. r \in World
      BY PassOk
    <2> QED BY <2>1, Fields DEF Over
  <1>3. r.ok => sent + -r.ret = k
    BY <1>2 DEF Over
  <1>4. RefundCoin(z, u, coin, sent) = v
    BY DEF RefundCoin
  <1> HIDE DEF k
  <1>5. Pass(z, v, u, PG, coin, -k)
    BY <1>1, <1>2, MoveOut
  <1> HIDE DEF v
  <1>6. Pass(w, r, u, PG, coin, sent + -r.ret)
    BY <1>2, PassTrans
  <1>7. Pass(w, r, u, PG, coin, k)
    BY <1>3, <1>6, PassAs
  <1>8. Pass(w, z, u, PG, coin, k)
    BY <1>2, <1>7, PassThen
  <1>9. Pass(w, v, u, PG, "eth", 0)
    BY <1>2, <1>5, <1>8, PassCancel
  <1> QED BY <1>4, <1>9

LEMMA punkRedeemPass ==
  ASSUME NEW w \in World, NEW u \in Users, "punk" \in Tokens, NEW n \in Nat, NEW fine \in Nat
  PROVE  Pass(w, punkRedeem(w, u, n, fine), u, PG, "eth", 0)
PROOF
  <1> DEFINE l == w.loan["punk"]
             sent == n + fine
             m == Move(w, l.coin, u, PG, sent)
             r == Redeem(m, PG, "punk", n, fine)
             v == RefundCoin(r, u, l.coin, sent)
  <1>1. CASE l.state = "none"
    BY <1>1, FailPass DEF punkRedeem
  <1>2. CASE l.state # "none"
    <2>1. /\ PG \in Actors(u) /\ PG \in Holders /\ u \in Actors(u) \ Gates /\ u \in Holders
          /\ l.coin \in Purses /\ l.coin \in Coins
      BY <1>2, Fields, LoanKinds, Names DEF Actors
    <2>2. sent \in Nat
      OBVIOUS
    <2>3. punkRedeem(w, u, n, fine) = v
      BY <1>2 DEF punkRedeem
    <2>4. \A k : k <= n + fine => k <= sent
      OBVIOUS
    <2> HIDE DEF sent
    <2>5. Pass(w, m, u, PG, l.coin, sent) /\ Rest(m) = Rest(w) /\ m \in World
      BY <2>1, <2>2, MoveIn, MoveRest
    <2>6. m.loan["punk"] = l
      BY <2>5 DEF Rest
    <2> HIDE DEF m
    <2>7. Pass(m, r, u, PG, l.coin, -r.ret) /\ (r.ok => r.ret <= sent)
      BY <2>1, <2>4, <2>5, <2>6, RedeemPass
    <2>8. r \in World
      BY <2>7, PassOk
    <2> HIDE DEF r
    <2>9. Pass(r, r, u, PG, "eth", 0)
      BY <2>8, IdlePass
    <2>10. Pass(w, v, u, PG, "eth", 0)
      BY <2>1, <2>2, <2>5, <2>7, <2>8, <2>9, RefundCoinPass
    <2> QED BY <2>3, <2>10
  <1> QED BY <1>1, <1>2

LEMMA punkLiquidatePass ==
  ASSUME NEW w \in World, NEW u \in Users, "punk" \in Tokens, NEW n \in Nat
  PROVE  Pass(w, punkLiquidate(w, u, n), u, PG, "eth", 0)
PROOF
  <1> DEFINE l == w.loan["punk"]
             c == l.bidder = u
             q == Require(w, c)
             m == Move(q, l.coin, u, PG, n)
             r == Liquidate(m, PG, "punk", n)
             z == WithdrawPunk(r, u, l.bidder)
             v == RefundCoin(z, u, l.coin, n)
  <1>1. CASE l.state = "none"
    BY <1>1, FailPass DEF punkLiquidate
  <1>2. CASE l.state # "none"
    <2>1. /\ PG \in Actors(u) /\ PG \in Holders /\ u \in Actors(u) \ Gates /\ u \in Holders
          /\ l.coin \in Purses /\ l.coin \in Coins
      BY <1>2, Fields, LoanKinds, Names DEF Actors
    <2>2. punkLiquidate(w, u, n) = v
      BY <1>2 DEF punkLiquidate
    <2>3. c \in BOOLEAN
      OBVIOUS
    <2> HIDE DEF c, v
    <2>4. Pass(w, q, u, PG, "eth", 0) /\ (q.ok => c)
      BY <2>3, RequirePass
    <2>5. q \in World /\ Rest(q) = Rest(w)
      BY <2>3, RequireStep
    <2> HIDE DEF q
    <2>6. Pass(q, m, u, PG, l.coin, n) /\ Rest(m) = Rest(q) /\ m \in World
      BY <2>1, <2>5, MoveIn, MoveRest
    <2>7. m.loan["punk"] = l
      BY <2>5, <2>6 DEF Rest
    <2> HIDE DEF m
    <2>8. Pass(m, r, u, PG, l.coin, -r.ret) /\ (r.ok => r.ret <= n)
      BY <2>1, <2>6, <2>7, LiquidatePass
    <2>9. r \in World
      BY <2>8, PassOk
    <2> HIDE DEF r
    <2>10. Pass(r, z, u, PG, "eth", 0) /\ z.ret = r.ret
      BY <2>9, WithdrawPunkPass
    <2>11. z \in World
      BY <2>10, PassOk
    <2> HIDE DEF z
    <2>12. Pass(q, v, u, PG, "eth", 0)
      BY <2>1, <2>5, <2>6, <2>8, <2>10, <2>11, RefundCoinPass DEF v
    <2> QED BY <2>2, <2>4, <2>12, PassThen
  <1> QED BY <1>1, <1>2

\* The value of a call to the punk gateway.
LEMMA SentPass ==
  ASSUME NEW w \in World, NEW u \in Users, NEW value \in Nat
  PROVE  LET m == Receive(w, u, PG, value)
         IN  Pass(w, m, u, PG, "eth", value) /\ m \in World /\ Rest(m) = Rest(w)
PROOF
  <1>1. "eth" \in Purses /\ u \in Actors(u) \ Gates /\ u \in Holders /\ PG \in Holders
    BY Names DEF Actors
  <1> QED BY <1>1, MoveIn, MoveRest DEF Receive

LEMMA punkAuctionETHPass ==
  ASSUME NEW w \in World, NEW u \in Users, "punk" \in Tokens, NEW value \in Nat, NEW for \in Users
  PROVE  Pass(w, punkAuctionETH(w, u, value, for), u, PG, "eth", 0)
PROOF
  <1> DEFINE q == Require(w, ValidCaller(u, for))
             m == Receive(q, u, PG, value)
             v == auctionETH(m, PG, "punk", value, for)
  <1>1. Pass(w, q, u, PG, "eth", 0) /\ q \in World
    BY ValidCallerBool, RequirePass, RequireStep
  <1> HIDE DEF q
  <1>2. Pass(q, m, u, PG, "eth", value) /\ m \in World
    BY <1>1, SentPass
  <1> HIDE DEF m
  <1>3. Pass(m, v, u, PG, "eth", -value)
    BY <1>2, auctionETHPass, DueInt
  <1> HIDE DEF v
  <1>4. Pass(q, v, u, PG, "eth", 0)
    BY <1>1, <1>2, <1>3, PassCancel
  <1>5. Pass(w, v, u, PG, "eth", 0)
    BY <1>1, <1>4, PassThen
  <1> QED BY <1>5 DEF punkAuctionETH, q, m, v

\* What the WETH gateway has kept of the value, and what it gave back.
LEMMA RefundETHPass ==
  ASSUME NEW w \in World, NEW u \in Users, NEW value \in Nat, NEW m \in World, NEW r, NEW z \in World,
         Pass(w, m, u, PG, "eth", value), Pass(m, r, u, PG, "eth", Due(PG, -r.ret)),
         Pass(r, z, u, PG, "eth", 0), z.ret = r.ret, r.ok => r.ret <= value
  PROVE  Pass(w, RefundETH(z, u, value), u, PG, "eth", 0)
PROOF
  <1> DEFINE k == Over(value, r.ret)
             v == Move(z, "eth", PG, u, k)
  <1>1. PG \in Actors(u) /\ u \in Holders \ Gates /\ "eth" \in Purses
    BY Names DEF Actors
  <1>2. r.ret \in Nat /\ k \in Nat
    <2>1. r \in World
      BY PassOk
    <2> QED BY <2>1, Fields DEF Over
  <1>3. r.ok => value + -r.ret = k
    BY <1>2 DEF Over
  <1>4. RefundETH(z, u, value) = v
    BY DEF RefundETH, Refund
  <1> HIDE DEF k
  <1>5. Pass(z, v, u, PG, "eth", -k)
    BY <1>1, <1>2, MoveOut
  <1> HIDE DEF v
  <1>6. Pass(m, r, u, PG, "eth", -r.ret)
    BY <1>2, DueInt
  <1>7. Pass(w, r, u, PG, "eth", value + -r.ret)
    BY <1>2, <1>6, PassTrans
  <1>8. Pass(w, r, u, PG, "eth", k)
    BY <1>3, <1>7, PassAs
  <1>9. Pass(w, z, u, PG, "eth", k)
    BY <1>2, <1>8, PassThen
  <1>10. Pass(w, v, u, PG, "eth", 0)
    BY <1>2, <1>5, <1>9, PassCancel
  <1> QED BY <1>4, <1>10

LEMMA punkRedeemETHPass ==
  ASSUME NEW w \in World, NEW u \in Users, "punk" \in Tokens, NEW n \in Nat, NEW fine \in Nat,
         NEW value \in Nat
  PROVE  Pass(w, punkRedeemETH(w, u, n, fine, value), u, PG, "eth", 0)
PROOF
  <1> DEFINE m == Receive(w, u, PG, value)
             r == redeemETH(m, PG, "punk", n, fine, value)
             v == RefundETH(r, u, value)
  <1>1. Pass(w, m, u, PG, "eth", value) /\ m \in World
    BY SentPass
  <1> HIDE DEF m
  <1>2. Pass(m, r, u, PG, "eth", Due(PG, -r.ret)) /\ (r.ok => r.ret <= value)
    BY <1>1, redeemETHPass
  <1>3. r \in World
    BY <1>2, PassOk
  <1> HIDE DEF r
  <1>4. Pass(r, r, u, PG, "eth", 0)
    BY <1>3, IdlePass
  <1>5. Pass(w, v, u, PG, "eth", 0)
    BY <1>1, <1>2, <1>3, <1>4, RefundETHPass
  <1> QED BY <1>5 DEF punkRedeemETH, m, r

LEMMA punkLiquidateETHPass ==
  ASSUME NEW w \in World, NEW u \in Users, "punk" \in Tokens, NEW value \in Nat
  PROVE  Pass(w, punkLiquidateETH(w, u, value), u, PG, "eth", 0)
PROOF
  <1> DEFINE l == w.loan["punk"]
             c == l.bidder = u
             q == Require(w, c)
             m == Receive(q, u, PG, value)
             r == liquidateETH(m, PG, "punk", value)
             z == WithdrawPunk(r, u, l.bidder)
             v == RefundETH(z, u, value)
  <1>1. CASE l.state = "none"
    BY <1>1, FailPass DEF punkLiquidateETH
  <1>2. CASE l.state # "none"
    <2>1. punkLiquidateETH(w, u, value) = v
      BY <1>2 DEF punkLiquidateETH
    <2>2. c \in BOOLEAN
      OBVIOUS
    <2> HIDE DEF c, v
    <2>3. Pass(w, q, u, PG, "eth", 0) /\ q \in World
      BY <2>2, RequirePass, RequireStep
    <2> HIDE DEF q
    <2>4. Pass(q, m, u, PG, "eth", value) /\ m \in World
      BY <2>3, SentPass
    <2> HIDE DEF m
    <2>5. Pass(m, r, u, PG, "eth", Due(PG, -r.ret)) /\ (r.ok => r.ret <= value)
      BY <2>4, liquidateETHPass
    <2>6. r \in World
      BY <2>5, PassOk
    <2> HIDE DEF r
    <2>7. Pass(r, z, u, PG, "eth", 0) /\ z.ret = r.ret
      BY <2>6, WithdrawPunkPass
    <2>8. z \in World
      BY <2>7, PassOk
    <2> HIDE DEF z
    <2>9. Pass(q, v, u, PG, "eth", 0)
      BY <2>3, <2>4, <2>5, <2>7, <2>8, RefundETHPass DEF v
    <2> QED BY <2>1, <2>3, <2>9, PassThen
  <1> QED BY <1>1, <1>2

LEMMA SpentPass ==
  ASSUME NEW w \in World, NEW u, NEW g, NEW p
  PROVE  Pass(w, Spent(w), u, g, p, 0) /\ Spent(w).acc = w.acc + w.ret
PROOF
  <1> DEFINE a == w.acc + w.ret
  <1>1. w.ret \in Nat /\ a \in Nat
    BY Fields
  <1>2. Spent(w) = Noted(w, w.ret, a)
    BY DEF Spent, Noted, World
  <1> HIDE DEF a
  <1>3. Pass(w, Noted(w, w.ret, a), u, g, p, 0)
    BY <1>1, NotedPass
  <1>4. Noted(w, w.ret, a).acc = a
    BY <1>1, NotedStep
  <1> QED BY <1>2, <1>3, <1>4 DEF a

LEMMA PunkRepayItemETHPass ==
  ASSUME NEW w \in World, NEW u \in Users, "punk" \in Tokens, NEW n \in Nat, NEW value \in Nat
  PROVE  LET v == PunkRepayItemETH(w, u, n, value)
         IN  Pass(w, v, u, PG, "eth", w.acc - v.acc) /\ (v.ok => v.acc <= value)
PROOF
  <1> DEFINE l == w.loan["punk"]
             pay == Smaller(n, l.debt)
             c == l.borrower = u /\ value >= w.acc + pay
             item == [t |-> "punk", n |-> n]
             q == Require(w, c)
             r == repayETH(q, PG, item, pay)
             z == Release(r, u, l.borrower)
             v == Spent(z)
  <1>1. CASE ~w.ok \/ l.state = "none"
    <2> DEFINE f == [w EXCEPT !.ok = FALSE]
    <2>1. PunkRepayItemETH(w, u, n, value) = f
      BY <1>1 DEF PunkRepayItemETH
    <2>2. f.ok = FALSE /\ Pass(w, f, u, PG, "eth", w.acc - f.acc)
      BY Fail, FailPass
    <2> QED BY <2>1, <2>2
  <1>2. CASE ~(~w.ok \/ l.state = "none")
    <2>1. PunkRepayItemETH(w, u, n, value) = v
      BY <1>2 DEF PunkRepayItemETH
    <2>2. w.acc \in Nat /\ pay \in Nat
      <3>1. l.debt \in Nat
        BY <1>2, Fields, LoanKinds, DebtNat
      <3> QED BY <3>1, Fields, SmallerNat
    <2>3. item \in [t : Tokens, n : Nat] /\ c \in BOOLEAN
      OBVIOUS
    <2>4. c => value >= w.acc + pay
      OBVIOUS
    <2> HIDE DEF c, v, item, pay
    <2>5. Pass(w, q, u, PG, "eth", 0) /\ (q.ok => c)
      BY <2>3, RequirePass
    <2>6. q \in World /\ Rest(q) = Rest(w)
      BY <2>3, RequireStep
    <2>7. q.acc = w.acc
      BY <2>6 DEF Rest
    <2> HIDE DEF q
    <2>8. /\ Pass(q, r, u, PG, "eth", Due(PG, -r.ret))
          /\ r.ok => r.ret <= pay /\ r.acc = q.acc
      BY <2>2, <2>3, <2>6, repayETHPass
    <2>9. r \in World /\ (r.ok => q.ok)
      BY <2>8, PassOk
    <2> HIDE DEF r
    <2>10. Pass(r, z, u, PG, "eth", 0) /\ z.ret = r.ret /\ z.acc = r.acc
      BY <2>9, ReleasePass
    <2>11. z \in World
      BY <2>10, PassOk
    <2> HIDE DEF z
    <2>12. Pass(z, v, u, PG, "eth", 0) /\ v.acc = z.acc + z.ret
      BY <2>11, SpentPass DEF v
    <2>13. v.ok => r.ok
      BY <2>10, <2>12, PassOk
    <2>14. r.ret \in Nat /\ v.acc = r.acc + r.ret
      BY <2>9, <2>10, <2>12, Fields
    <2>15. v.ok => v.acc = w.acc + r.ret
      BY <2>7, <2>8, <2>13, <2>14
    <2>16. v.ok => v.acc <= value /\ -r.ret = w.acc - v.acc
      <3>1. v.ok => r.ret <= pay /\ value >= w.acc + pay
        BY <2>4, <2>5, <2>8, <2>9, <2>13
      <3> QED BY <2>2, <2>14, <2>15, <3>1
    <2>17. Pass(q, r, u, PG, "eth", -r.ret)
      BY <2>8, <2>14, DueInt
    <2>18. Pass(w, r, u, PG, "eth", -r.ret)
      BY <2>5, <2>14, <2>17, PassAfter
    <2>19. Pass(w, z, u, PG, "eth", -r.ret)
      BY <2>10, <2>14, <2>18, PassThen
    <2>20. Pass(w, v, u, PG, "eth", -r.ret)
      BY <2>12, <2>14, <2>19, PassThen
    <2>21. Pass(w, v, u, PG, "eth", w.acc - v.acc)
      BY <2>16, <2>20, PassAs
    <2> QED BY <2>1, <2>16, <2>21
  <1> QED BY <1>1, <1>2

LEMMA PunkBorrowLoop ==
  ASSUME NEW w, NEW W, NEW u, NEW coin, NEW for, NEW n \in Nat, NEW ns, Len(ns) = n,
         Require(w, ValidCaller(u, for)) \in W,
         \A i \in 1..n : \A x \in W : PunkBorrowItem(x, u, coin, ns[i], for) \in W
  PROVE  punkBatchBorrow(w, u, coin, ns, for) \in W
PROOF
  <1> DEFINE w0 == Require(w, ValidCaller(u, for))
  <1> DEFINE F == [i \in 1..n |-> [x \in W |-> PunkBorrowItem(x, u, coin, ns[i], for)]]
             Body(f) == [i \in 0..n |-> IF i = 0 THEN w0 ELSE PunkBorrowItem(f[i - 1], u, coin, ns[i], for)]
             h == CHOOSE f : f = Body(f)
  <1>1. F \in [1..n -> [W -> W]]
    OBVIOUS
  <1>2. \A i \in 1..n : \A x \in W : F[i][x] = PunkBorrowItem(x, u, coin, ns[i], for)
    OBVIOUS
  <1>3. punkBatchBorrow(w, u, coin, ns, for) = h[n]
    BY DEF punkBatchBorrow, InTurn
  <1> HIDE DEF F, w0
  <1>4. PICK g \in [0..n -> W] : Runs(F, w0, n, g)
    BY <1>1, LoopExists DEF w0
  <1>5. g[0] = w0 /\ \A i \in 1..n : g[i] = PunkBorrowItem(g[i - 1], u, coin, ns[i], for)
    <2>1. \A i \in 1..n : g[i - 1] \in W
      OBVIOUS
    <2> QED BY <1>2, <1>4, <2>1 DEF Runs
  <1>6. g = Body(g)
    BY <1>5
  <1>7. h = Body(h)
    BY <1>6
  <1> HIDE DEF h
  <1>8. Agree(g, h, n)
    BY <1>5, <1>7 DEF Agree
  <1>9. g[n] = h[n]
    BY <1>8, SameLoop
  <1>10. g[n] \in W
    OBVIOUS
  <1> QED BY <1>3, <1>9, <1>10

LEMMA punkBatchBorrowPass ==
  ASSUME NEW w \in World, NEW u \in Users, "punk" \in Tokens, NEW coin \in Coins, NEW n \in Nat,
         NEW ns \in [1..n -> Nat], NEW for \in Users
  PROVE  Pass(w, punkBatchBorrow(w, u, coin, ns, for), u, PG, "eth", 0)
PROOF
  <1> DEFINE w0 == Require(w, ValidCaller(u, for))
             W == {x \in World : Pass(w0, x, u, PG, "eth", 0)}
             v == punkBatchBorrow(w, u, coin, ns, for)
  <1>1. w0 \in World /\ Pass(w, w0, u, PG, "eth", 0) /\ (w0.ok => ValidCaller(u, for))
    BY ValidCallerBool, RequirePass, RequireStep
  <1> HIDE DEF w0, v
  <1>2. w0.ok => for = u
    BY <1>1, Names DEF ValidCaller
  <1>3. w0 \in W
    BY <1>1, IdlePass
  <1>4. ASSUME NEW i \in 1..n, NEW x \in W PROVE PunkBorrowItem(x, u, coin, ns[i], for) \in W
    <2> DEFINE k == ns[i]
               y == PunkBorrowItem(x, u, coin, k, for)
    <2>1. x \in World /\ Pass(w0, x, u, PG, "eth", 0) /\ k \in Nat
      OBVIOUS
    <2>2. x.ok => for = u
      BY <1>2, <2>1, PassOk
    <2> HIDE DEF k, W
    <2>3. Pass(x, y, u, PG, "eth", 0)
      BY <2>1, <2>2, PunkBorrowItemPass
    <2> HIDE DEF y
    <2>4. y \in World /\ Pass(w0, y, u, PG, "eth", 0)
      BY <1>1, <2>1, <2>3, PassOk, PassThen
    <2>5. y \in W
      BY <2>4 DEF W
    <2> QED BY <2>5 DEF y, k
  <1>5. v \in W
    <2>1. Len(ns) = n
      OBVIOUS
    <2> HIDE DEF W
    <2> QED BY <1>3, <1>4, <2>1, PunkBorrowLoop DEF w0, v
  <1>6. Pass(w, v, u, PG, "eth", 0)
    BY <1>1, <1>5, PassThen
  <1> QED BY <1>6 DEF v

LEMMA PunkRepayLoop ==
  ASSUME NEW w, NEW W, NEW u, NEW n \in Nat, NEW ns, Len(ns) = n,
         w \in W,
         \A i \in 1..n : \A x \in W : PunkRepayItem(x, u, ns[i]) \in W
  PROVE  punkBatchRepay(w, u, ns) \in W
PROOF
  <1> DEFINE w0 == w
  <1> DEFINE F == [i \in 1..n |-> [x \in W |-> PunkRepayItem(x, u, ns[i])]]
             Body(f) == [i \in 0..n |-> IF i = 0 THEN w0 ELSE PunkRepayItem(f[i - 1], u, ns[i])]
             h == CHOOSE f : f = Body(f)
  <1>1. F \in [1..n -> [W -> W]]
    OBVIOUS
  <1>2. \A i \in 1..n : \A x \in W : F[i][x] = PunkRepayItem(x, u, ns[i])
    OBVIOUS
  <1>3. punkBatchRepay(w, u, ns) = h[n]
    BY DEF punkBatchRepay, InTurn
  <1> HIDE DEF F, w0
  <1>4. PICK g \in [0..n -> W] : Runs(F, w0, n, g)
    BY <1>1, LoopExists DEF w0
  <1>5. g[0] = w0 /\ \A i \in 1..n : g[i] = PunkRepayItem(g[i - 1], u, ns[i])
    <2>1. \A i \in 1..n : g[i - 1] \in W
      OBVIOUS
    <2> QED BY <1>2, <1>4, <2>1 DEF Runs
  <1>6. g = Body(g)
    BY <1>5
  <1>7. h = Body(h)
    BY <1>6
  <1> HIDE DEF h
  <1>8. Agree(g, h, n)
    BY <1>5, <1>7 DEF Agree
  <1>9. g[n] = h[n]
    BY <1>8, SameLoop
  <1>10. g[n] \in W
    OBVIOUS
  <1> QED BY <1>3, <1>9, <1>10

LEMMA punkBatchRepayPass ==
  ASSUME NEW w \in World, NEW u \in Users, "punk" \in Tokens, NEW n \in Nat, NEW ns \in [1..n -> Nat]
  PROVE  Pass(w, punkBatchRepay(w, u, ns), u, PG, "eth", 0)
PROOF
  <1> DEFINE W == {x \in World : Pass(w, x, u, PG, "eth", 0)}
             v == punkBatchRepay(w, u, ns)
  <1>1. w \in W
    BY IdlePass
  <1>2. ASSUME NEW i \in 1..n, NEW x \in W PROVE PunkRepayItem(x, u, ns[i]) \in W
    <2> DEFINE k == ns[i]
               y == PunkRepayItem(x, u, k)
    <2>1. x \in World /\ Pass(w, x, u, PG, "eth", 0) /\ k \in Nat
      OBVIOUS
    <2> HIDE DEF k, W
    <2>2. Pass(x, y, u, PG, "eth", 0)
      BY <2>1, PunkRepayItemPass
    <2> HIDE DEF y
    <2>3. y \in World /\ Pass(w, y, u, PG, "eth", 0)
      BY <2>1, <2>2, PassOk, PassThen
    <2>4. y \in W
      BY <2>3 DEF W
    <2> QED BY <2>4 DEF y, k
  <1>3. v \in W
    <2>1. Len(ns) = n
      OBVIOUS
    <2> HIDE DEF W
    <2> QED BY <1>1, <1>2, <2>1, PunkRepayLoop DEF v
  <1> QED BY <1>3

\* g[i] is what the first i items have come to.
PunkRepayments(g, w, u, ns, n, value) ==
    /\ g[0] = StartBatch(w, u, PG, value)
    /\ \A i \in 1..n : g[i] = PunkRepayItemETH(g[i - 1], u, ns[i], value)

LEMMA PunkRepayETHLoop ==
  ASSUME NEW w, NEW W, NEW u, NEW value, NEW n \in Nat, NEW ns, Len(ns) = n,
         StartBatch(w, u, PG, value) \in W,
         \A i \in 1..n : \A x \in W : PunkRepayItemETH(x, u, ns[i], value) \in W
  PROVE  \E g \in [0..n -> W] :
           /\ PunkRepayments(g, w, u, ns, n, value)
           /\ punkBatchRepayETH(w, u, ns, value) = EndBatch(g[n], u, PG, value, w.acc)
PROOF
  <1> DEFINE w0 == StartBatch(w, u, PG, value)
  <1> DEFINE F == [i \in 1..n |-> [x \in W |-> PunkRepayItemETH(x, u, ns[i], value)]]
             Body(f) == [i \in 0..n |-> IF i = 0 THEN w0 ELSE PunkRepayItemETH(f[i - 1], u, ns[i], value)]
             h == CHOOSE f : f = Body(f)
  <1>1. F \in [1..n -> [W -> W]]
    OBVIOUS
  <1>2. \A i \in 1..n : \A x \in W : F[i][x] = PunkRepayItemETH(x, u, ns[i], value)
    OBVIOUS
  <1>3. punkBatchRepayETH(w, u, ns, value) = EndBatch(h[n], u, PG, value, w.acc)
    BY DEF punkBatchRepayETH, InTurn
  <1> HIDE DEF F, w0
  <1>4. PICK g \in [0..n -> W] : Runs(F, w0, n, g)
    BY <1>1, LoopExists DEF w0
  <1>5. g[0] = w0 /\ \A i \in 1..n : g[i] = PunkRepayItemETH(g[i - 1], u, ns[i], value)
    <2>1. \A i \in 1..n : g[i - 1] \in W
      OBVIOUS
    <2> QED BY <1>2, <1>4, <2>1 DEF Runs
  <1>6. g = Body(g)
    BY <1>5
  <1>7. h = Body(h)
    BY <1>6
  <1> HIDE DEF h
  <1>8. Agree(g, h, n)
    BY <1>5, <1>7 DEF Agree
  <1>9. g[n] = h[n]
    BY <1>8, SameLoop
  <1>10. punkBatchRepayETH(w, u, ns, value) = EndBatch(g[n], u, PG, value, w.acc)
    BY <1>3, <1>9
  <1> QED BY <1>5, <1>10 DEF w0, PunkRepayments

LEMMA punkBatchRepayETHPass ==
  ASSUME NEW w \in World, NEW u \in Users, "punk" \in Tokens, NEW n \in Nat,
         NEW ns \in [1..n -> Nat], NEW value \in Nat
  PROVE  Pass(w, punkBatchRepayETH(w, u, ns, value), u, PG, "eth", 0)
PROOF
  <1> DEFINE m == Receive(w, u, PG, value)
             s == StartBatch(w, u, PG, value)
             v == punkBatchRepayETH(w, u, ns, value)
             W == {x \in World : /\ Pass(s, x, u, PG, "eth", -x.acc)
                                 /\ x.ok => x.acc <= value}
  <1>1. Pass(w, m, u, PG, "eth", value) /\ m \in World
    BY SentPass
  <1>2. s = [m EXCEPT !.acc = 0]
    BY DEF StartBatch
  <1> HIDE DEF m, s, v
  <1>3. s = Noted(m, m.ret, 0) /\ m.ret \in Nat /\ w.acc \in Nat
    <2>1. s = Noted(m, m.ret, 0)
      BY <1>1, <1>2 DEF Noted, World
    <2> QED BY <1>1, <2>1, Fields
  <1>4. s \in World /\ s.acc = 0 /\ Pass(m, s, u, PG, "eth", 0)
    <2>1. s \in World /\ s.acc = 0
      BY <1>1, <1>2 DEF World
    <2>2. Pass(m, s, u, PG, "eth", 0)
      BY <1>1, <1>3, NotedPass
    <2> QED BY <2>1, <2>2
  <1>5. Pass(w, s, u, PG, "eth", value)
    BY <1>1, <1>4, PassThen
  <1>6. s \in W
    <2>1. Pass(s, s, u, PG, "eth", 0)
      BY <1>4, IdlePass
    <2>2. 0 <= value
      OBVIOUS
    <2>3. Pass(s, s, u, PG, "eth", -s.acc) /\ s.acc <= value
      BY ONLY <1>4, <2>1, <2>2
    <2> QED BY <1>4, <2>3
  <1>7. ASSUME NEW i \in 1..n, NEW x \in W PROVE PunkRepayItemETH(x, u, ns[i], value) \in W
    <2> DEFINE k == ns[i]
               y == PunkRepayItemETH(x, u, k, value)
    <2>1. x \in World /\ Pass(s, x, u, PG, "eth", -x.acc) /\ x.acc \in Nat /\ k \in Nat
      BY Fields
    <2> HIDE DEF k, W
    <2>2. Pass(x, y, u, PG, "eth", x.acc - y.acc) /\ (y.ok => y.acc <= value)
      BY <2>1, PunkRepayItemETHPass
    <2> HIDE DEF y
    <2>3. y \in World /\ y.acc \in Nat
      BY <2>2, PassOk, Fields
    <2>4. Pass(s, y, u, PG, "eth", -x.acc + (x.acc - y.acc))
      BY <1>4, <2>1, <2>2, <2>3, PassTrans
    <2>5. -x.acc + (x.acc - y.acc) = -y.acc
      BY <2>1, <2>3
    <2>6. y \in W
      BY <2>2, <2>3, <2>4, <2>5 DEF W
    <2> QED BY <2>6 DEF y, k
  <1>8. PICK x \in W : v = EndBatch(x, u, PG, value, w.acc)
    <2>1. Len(ns) = n /\ n \in 0..n
      OBVIOUS
    <2>2. \A i \in 1..n : \A x \in W : PunkRepayItemETH(x, u, ns[i], value) \in W
      BY <1>7
    <2> HIDE DEF W
    <2>3. StartBatch(w, u, PG, value) \in W
      BY <1>6 DEF s
    <2>4. PICK g \in [0..n -> W] :
             punkBatchRepayETH(w, u, ns, value) = EndBatch(g[n], u, PG, value, w.acc)
      BY ONLY <2>1, <2>2, <2>3, n \in Nat, PunkRepayETHLoop
    <2> QED BY <2>1, <2>4 DEF v
  <1> DEFINE k == Over(value, x.acc)
             f == Move(x, "eth", PG, u, k)
  <1>9. x \in World /\ Pass(s, x, u, PG, "eth", -x.acc) /\ (x.ok => x.acc <= value)
    OBVIOUS
  <1>10. x.acc \in Nat
    BY <1>9, Fields
  <1>11. k \in Nat /\ (x.ok => value + -x.acc = k)
    BY <1>9, <1>10 DEF Over
  <1>12. PG \in Actors(u) /\ u \in Holders \ Gates /\ "eth" \in Purses /\ PG \in Holders /\ u \in Holders
    BY Names DEF Actors
  <1>13. v = [f EXCEPT !.ret = x.acc, !.acc = w.acc]
    BY <1>8 DEF EndBatch, Refund
  <1> HIDE DEF k, W
  <1>14. Pass(x, f, u, PG, "eth", -k) /\ f \in World
    BY <1>9, <1>11, <1>12, MoveOut, MoveRest
  <1> HIDE DEF f
  <1>15. v = Noted(f, x.acc, w.acc)
    BY <1>13, <1>14 DEF Noted, World
  <1>16. Pass(f, v, u, PG, "eth", 0)
    BY <1>3, <1>10, <1>14, <1>15, NotedPass
  <1>17. Pass(w, x, u, PG, "eth", value + -x.acc)
    BY <1>5, <1>9, <1>10, PassTrans
  <1>18. Pass(w, x, u, PG, "eth", k)
    BY <1>11, <1>17, PassAs
  <1>19. Pass(w, f, u, PG, "eth", 0)
    BY <1>9, <1>11, <1>14, <1>18, PassCancel
  <1>20. Pass(w, v, u, PG, "eth", 0)
    BY <1>16, <1>19, PassThen
  <1> QED BY <1>20 DEF v

\* The punks of a batch, as the WETH gateway has them.
PunkItems(ns) == [i \in DOMAIN ns |-> [t |-> "punk", n |-> ns[i]]]

LEMMA PunkDepositLoop ==
  ASSUME NEW w, NEW W, NEW u, NEW for, NEW n \in Nat, NEW ns, Len(ns) = n,
         Require(w, ValidCaller(u, for)) \in W,
         \A x \in W : DepositPunk(x, u) \in W
  PROVE  \E x \in W :
           /\ n = 0 => x = Require(w, ValidCaller(u, for))
           /\ punkBatchBorrowETH(w, u, ns, for)
                = batchBorrowETH(x, PG, PunkItems(ns), for)
PROOF
  <1> DEFINE w0 == Require(w, ValidCaller(u, for))
  <1> DEFINE F == [i \in 1..n |-> [x \in W |-> DepositPunk(x, u)]]
             Body(f) == [i \in 0..n |-> IF i = 0 THEN w0 ELSE DepositPunk(f[i - 1], u)]
             h == CHOOSE f : f = Body(f)
  <1>1. F \in [1..n -> [W -> W]]
    OBVIOUS
  <1>2. \A i \in 1..n : \A x \in W : F[i][x] = DepositPunk(x, u)
    OBVIOUS
  <1>3. punkBatchBorrowETH(w, u, ns, for)
           = batchBorrowETH(h[n], PG, PunkItems(ns), for)
    BY DEF punkBatchBorrowETH, InTurn, PunkItems
  <1> HIDE DEF F, w0
  <1>4. PICK g \in [0..n -> W] : Runs(F, w0, n, g)
    BY <1>1, LoopExists DEF w0
  <1>5. g[0] = w0 /\ \A i \in 1..n : g[i] = DepositPunk(g[i - 1], u)
    <2>1. \A i \in 1..n : g[i - 1] \in W
      OBVIOUS
    <2> QED BY <1>2, <1>4, <2>1 DEF Runs
  <1>6. g = Body(g)
    BY <1>5
  <1>7. h = Body(h)
    BY <1>6
  <1> HIDE DEF h
  <1>8. Agree(g, h, n)
    BY <1>5, <1>7 DEF Agree
  <1>9. g[n] = h[n]
    BY <1>8, SameLoop
  <1>10. g[n] \in W
    OBVIOUS
  <1> QED BY <1>3, <1>5, <1>9, <1>10 DEF w0

\* The punk was handed over, if no loan stood against it.
Deposited(w, x) ==
    /\ x.loan = w.loan /\ x.punk \in {w.punk, "wrapper"}
    /\ w.loan["punk"].state # "none" => x.holder = w.holder
    /\ \A t \in Tokens \ {"punk"} : x.holder[t] = w.holder[t]

LEMMA punkBatchBorrowETHPass ==
  ASSUME NEW w \in World, NEW u \in Users, "punk" \in Tokens, NEW n \in Nat,
         NEW ns \in [1..n -> Amounts], NEW for \in Users, Safe(w, "punk")
  PROVE  Pass(w, punkBatchBorrowETH(w, u, ns, for), u, PG, "eth", 0)
PROOF
  <1> DEFINE w0 == Require(w, ValidCaller(u, for))
             items == PunkItems(ns)
             W == {x \in World : Pay(w0, x, u, PG, "eth", 0) /\ (x.ok => Deposited(w0, x))}
             v == punkBatchBorrowETH(w, u, ns, for)
  <1>1. w0 \in World /\ Pass(w, w0, u, PG, "eth", 0) /\ (w0.ok => ValidCaller(u, for))
    BY ValidCallerBool, RequirePass, RequireStep
  <1>2. Safe(w0, "punk")
    <2>1. Rest(w0) = Rest(w)
      BY ValidCallerBool, RequireStep
    <2> HIDE DEF w0
    <2> QED BY <2>1 DEF Rest, Safe
  <1>3. items \in [1..n -> Items] /\ \A i \in 1..n : items[i].t = "punk"
    BY DEF Items, PunkItems
  <1> HIDE DEF w0, v, items
  <1>4. w0.ok => for = u
    BY <1>1, Names DEF ValidCaller
  <1>5. w0 \in W
    <2>1. Pay(w0, w0, u, PG, "eth", 0)
      BY <1>1, IdlePass DEF Pass
    <2> QED BY <1>1, <2>1 DEF Deposited
  <1>6. ASSUME NEW x \in W PROVE DepositPunk(x, u) \in W
    <2> DEFINE y == DepositPunk(x, u)
    <2>1. x \in World /\ Pay(w0, x, u, PG, "eth", 0) /\ (x.ok => Deposited(w0, x))
      OBVIOUS
    <2> HIDE DEF W
    <2>2. /\ Pay(x, y, u, PG, "eth", 0) /\ y.loan = x.loan
          /\ x.loan["punk"].state # "none" => y = x
          /\ \A t \in Tokens \ {"punk"} : y.holder[t] = x.holder[t]
          /\ y.punk \in {x.punk, "wrapper"}
      BY <2>1, DepositPunkPay
    <2> HIDE DEF y
    <2>3. Pay(w0, y, u, PG, "eth", 0)
      BY <1>1, <2>1, <2>2, PayTrans
    <2>4. y \in World /\ (y.ok => x.ok)
      BY <2>2 DEF Pay
    <2>5. y.ok => Deposited(w0, y)
      BY <2>1, <2>2, <2>4 DEF Deposited
    <2>6. y \in W
      BY <2>3, <2>4, <2>5 DEF W
    <2> QED BY <2>6 DEF y
  <1>7. PICK x \in W : (n = 0 => x = w0) /\ v = batchBorrowETH(x, PG, items, for)
    <2>1. Len(ns) = n
      OBVIOUS
    <2>2. \A x \in W : DepositPunk(x, u) \in W
      BY <1>6
    <2> HIDE DEF W
    <2> QED BY <1>5, <2>1, <2>2, PunkDepositLoop DEF w0, v, items
  <1>8. x \in World /\ Pay(w0, x, u, PG, "eth", 0) /\ (x.ok => Deposited(w0, x))
    OBVIOUS
  <1> HIDE DEF W
  <1>9. x.ok => w0.ok /\ for = u
    BY <1>4, <1>8 DEF Pay
  <1>10. /\ Pass(x, v, u, PG, "eth", 0)
         /\ (v.ok /\ Safe(x, "punk")) =>
               Safe(v, "punk") /\ (n > 0 => v.loan["punk"].state = "active")
    BY <1>3, <1>7, <1>8, <1>9, batchBorrowETHPass
  <1>11. Pay(w0, v, u, PG, "eth", 0)
    BY <1>1, <1>8, <1>10, PayTrans DEF Pass
  <1>12. ASSUME v.ok PROVE Clean(w0, v)
    <2>1. x.ok /\ Clean(x, v)
      BY <1>10, <1>12 DEF Pass, Pay
    <2>2. CASE n = 0
      <3>1. x = w0
        BY <1>7, <2>2
      <3> QED BY <2>1, <3>1
    <2>3. CASE n # 0
      <3>1. Deposited(w0, x) /\ n > 0
        BY <1>8, <2>1, <2>3
      <3>2. Safe(x, "punk")
        BY <1>2, <3>1 DEF Deposited, Safe
      <3>3. v.holder["punk"] \notin Gates
        BY <1>10, <1>12, <3>1, <3>2 DEF Safe
      <3>4. v.punk \in Gates => v.punk = w0.punk
        BY <2>1, <3>1, Names DEF Clean, Deposited, Gates
      <3>5. ASSUME NEW t \in Tokens, v.holder[t] \in Gates PROVE v.holder[t] = w0.holder[t]
        BY <2>1, <3>1, <3>3, <3>5 DEF Clean, Deposited
      <3>6. Pledged(w0) => Pledged(x)
        BY <3>1 DEF Deposited, Pledged
      <3> QED BY <2>1, <3>4, <3>5, <3>6 DEF Clean
    <2> QED BY <2>2, <2>3
  <1>13. Pass(w0, v, u, PG, "eth", 0)
    BY <1>11, <1>12 DEF Pass
  <1>14. Pass(w, v, u, PG, "eth", 0)
    BY <1>1, <1>13, PassThen
  <1> QED BY <1>14 DEF v

(***************************************************************************)
(* A repayment in full goes through.                                       *)
(***************************************************************************)

\* Of the money only n moves, from x to y in purse p.
Paid(w, v, p, x, y, n) ==
    \A q \in Purses, h \in Holders :
        v.money[q][h] = w.money[q][h] - (IF q = p /\ h = x THEN n ELSE 0)
                                      + (IF q = p /\ h = y THEN n ELSE 0)

LEMMA MintMoney ==
  ASSUME NEW w \in World, NEW p \in Purses, NEW x \in Holders, NEW n \in Nat
  PROVE  \A q \in Purses, h \in Holders :
           Mint(w, p, x, n).money[q][h] = w.money[q][h] + (IF q = p /\ h = x THEN n ELSE 0)
PROOF
  BY MintStep

LEMMA MovePaid ==
  ASSUME NEW w \in World, NEW p \in Purses, NEW x \in Holders, NEW y \in Holders, NEW n \in Nat,
         w.ok, w.money[p][x] >= n
  PROVE  Move(w, p, x, y, n).ok /\ Paid(w, Move(w, p, x, y, n), p, x, y, n)
PROOF
  <1> DEFINE b == Burn(w, p, x, n)
             v == Mint(b, p, y, n)
  <1>1. b \in World /\ b.ok
    BY BurnStep
  <1>2. \A q \in Purses, h \in Holders :
          b.money[q][h] = w.money[q][h] - (IF q = p /\ h = x THEN n ELSE 0)
    BY <1>1, BurnStep
  <1>3. Move(w, p, x, y, n) = v
    BY DEF Move
  <1> HIDE DEF b
  <1>4. v.ok
    BY <1>1, MintStep
  <1>5. \A q \in Purses, h \in Holders :
          v.money[q][h] = b.money[q][h] + (IF q = p /\ h = y THEN n ELSE 0)
    BY <1>1, MintMoney
  <1> HIDE DEF v
  <1>6. Paid(w, v, p, x, y, n)
    BY <1>2, <1>5 DEF Paid
  <1> QED BY <1>3, <1>4, <1>6

LEMMA WrapPaid ==
  ASSUME NEW w \in World, NEW g \in Gates, NEW n \in Nat, w.ok, w.money["eth"][g] >= n
  PROVE  \A q \in Purses, h \in Holders :
           Wrap(w, g, n).money[q][h] = w.money[q][h] - (IF q = "eth" /\ h = g THEN n ELSE 0)
                                                     + (IF q = "weth" /\ h = g THEN n ELSE 0)
PROOF
  <1> DEFINE b == Burn(w, "eth", g, n)
             v == Mint(b, "weth", g, n)
  <1>1. g \in Holders /\ "eth" \in Purses /\ "weth" \in Purses
    BY Names
  <1>2. b \in World /\ b.ok
    BY <1>1, BurnStep
  <1>3. \A q \in Purses, h \in Holders :
          b.money[q][h] = w.money[q][h] - (IF q = "eth" /\ h = g THEN n ELSE 0)
    BY <1>1, <1>2, BurnStep
  <1>4. Wrap(w, g, n) = v
    BY DEF Wrap
  <1> HIDE DEF b
  <1>5. \A q \in Purses, h \in Holders :
          v.money[q][h] = b.money[q][h] + (IF q = "weth" /\ h = g THEN n ELSE 0)
    BY <1>1, <1>2, MintMoney
  <1> HIDE DEF v
  <1>6. \A q \in Purses, h \in Holders :
          v.money[q][h] = w.money[q][h] - (IF q = "eth" /\ h = g THEN n ELSE 0)
                                        + (IF q = "weth" /\ h = g THEN n ELSE 0)
    BY ONLY <1>3, <1>5
  <1> QED BY ONLY <1>4, <1>6

\* The loan of t is closed for its debt, and t is with its borrower.
Closed(w, v, t) ==
    /\ v \in World /\ v.ok /\ v.all
    /\ v.loan[t] = NoLoan /\ v.holder[t] = w.loan[t].borrower /\ v.ret = w.loan[t].debt

\* Who has how much ETH: c has n less.
SameEth(w, v) == \A h \in Holders : v.money["eth"][h] = w.money["eth"][h]
EthLess(w, v, c, n) ==
    \A h \in Holders : v.money["eth"][h] = w.money["eth"][h] - (IF h = c THEN n ELSE 0)

\* A loan in WETH whose token is in the pool.
Repayable(w, t) ==
    w.loan[t].state = "active" /\ w.loan[t].coin = "weth" /\ w.holder[t] = "pool"

LEMMA RepayableLoan ==
  ASSUME NEW w \in World, NEW t \in Tokens, Repayable(w, t)
  PROVE  /\ w.loan[t] \in ActiveLoans /\ w.loan[t].debt \in Nat /\ w.loan[t].debt > 0
         /\ w.loan[t].debt <= MaxDebt /\ w.loan[t].borrower \in Users
PROOF
  <1>1. w.loan[t] \in Loans
    BY Fields
  <1>2. w.loan[t] \in ActiveLoans /\ w.loan[t].debt \in 1..MaxDebt /\ w.loan[t].borrower \in Users
    BY <1>1, LoanKinds DEF Repayable
  <1> QED BY <1>2, GatewayAssumption

LEMMA MoveTokenRest ==
  ASSUME NEW w \in World, NEW t \in Tokens, NEW x \in Holders, NEW y \in Holders
  PROVE  LET v == MoveToken(w, t, x, y)
         IN  v.money = w.money /\ v.loan = w.loan /\ v.acc = w.acc
PROOF
  <1> DEFINE c == w.holder[t] = x
             w1 == Require(w, c)
             h == [w1.holder EXCEPT ![t] = y]
  <1>1. c \in BOOLEAN
    OBVIOUS
  <1>2. MoveToken(w, t, x, y) = [w1 EXCEPT !.holder = h]
    BY DEF MoveToken
  <1> HIDE DEF c
  <1>3. w1 \in World /\ w1.money = w.money /\ Rest(w1) = Rest(w)
    BY <1>1, RequireStep
  <1>4. w1.loan = w.loan /\ w1.acc = w.acc
    BY <1>3 DEF Rest
  <1> HIDE DEF w1, h
  <1>5. LET v == [w1 EXCEPT !.holder = h]
        IN  v.money = w1.money /\ v.loan = w1.loan /\ v.acc = w1.acc
    BY <1>3 DEF World
  <1> QED BY <1>2, <1>3, <1>4, <1>5

LEMMA SettledWorld ==
  ASSUME NEW w \in World, NEW t \in Tokens, NEW l \in Loans, NEW r \in Nat, NEW a \in BOOLEAN
  PROVE  Settled(w, t, l, r, a) \in World
PROOF
  BY SettleStep

LEMMA SettledRest ==
  ASSUME NEW w \in World, NEW t, NEW l, NEW r, NEW a
  PROVE  LET v == Settled(w, t, l, r, a)
         IN  v.money = w.money /\ v.holder = w.holder /\ v.acc = w.acc /\ v.ret = r
PROOF
  BY DEF Settled, World

LEMMA SettledOk ==
  ASSUME NEW w \in World, NEW t, NEW l, NEW r, NEW a
  PROVE  Settled(w, t, l, r, a).ok = w.ok
PROOF
  BY DEF Settled, World

LEMMA SettledAll ==
  ASSUME NEW w \in World, NEW t, NEW l, NEW r, NEW a
  PROVE  Settled(w, t, l, r, a).all = a
PROOF
  BY DEF Settled, World

\* At the pool: the WETH gateway has the money.
LEMMA RepayWorks ==
  ASSUME NEW w \in World, NEW t \in Tokens, NEW n \in Nat, w.ok, Repayable(w, t),
         n >= w.loan[t].debt, w.money["weth"][WG] >= w.loan[t].debt
  PROVE  LET v == Repay(w, WG, t, n)
         IN  Closed(w, v, t) /\ v.acc = w.acc /\ SameEth(w, v)
PROOF
  <1> DEFINE l == w.loan[t]
             d == l.debt
             m == Move(w, "weth", WG, "reserve", d)
             x == MoveToken(m, t, "pool", l.borrower)
             v == Repay(w, WG, t, n)
  <1>1. d \in Nat /\ d > 0 /\ l.borrower \in Users /\ l.coin = "weth" /\ l.state = "active"
    BY RepayableLoan DEF Repayable
  <1>2. WG \in Holders /\ "reserve" \in Holders /\ "pool" \in Holders /\ l.borrower \in Holders
          /\ "weth" \in Purses /\ "eth" \in Purses /\ "eth" # "weth"
    BY <1>1, Names
  <1>3. Smaller(n, d) = d
    BY <1>1 DEF Smaller
  <1>4. v = [x EXCEPT !.loan[t] = NoLoan, !.ret = d, !.all = TRUE]
    BY <1>1, <1>3 DEF Repay
  <1> HIDE DEF v
  <1>5. m \in World /\ Rest(m) = Rest(w)
    BY <1>1, <1>2, MoveRest
  <1>6. m.ok /\ Paid(w, m, "weth", WG, "reserve", d)
    BY <1>1, <1>2, MovePaid
  <1>7. m.holder = w.holder /\ m.loan = w.loan /\ m.acc = w.acc
    BY <1>5 DEF Rest
  <1>8. w.holder[t] = "pool" /\ w.holder \in [Tokens -> Holders \cup {None}]
          /\ w.loan \in [Tokens -> Loans]
    BY Fields DEF Repayable
  <1> HIDE DEF m, d
  <1>9. x \in World /\ x.money = m.money /\ x.loan = m.loan /\ x.acc = m.acc
    <2>1. x \in World
      BY <1>2, <1>5, MoveTokenStep
    <2>2. x.money = m.money /\ x.loan = m.loan /\ x.acc = m.acc
      BY <1>2, <1>5, MoveTokenRest
    <2> QED BY <2>1, <2>2
  <1>10. x.ok = (m.ok /\ m.holder[t] = "pool")
    BY <1>2, <1>5, MoveTokenOk
  <1>11. x.ok
    BY <1>6, <1>7, <1>8, <1>10
  <1>12. x.holder = [m.holder EXCEPT ![t] = l.borrower]
    BY <1>2, <1>5, MoveTokenHolder
  <1> HIDE DEF x
  <1>13. PICK yes \in BOOLEAN : yes /\ v = Settled(x, t, NoLoan, d, yes)
    BY <1>4 DEF Settled
  <1> DEFINE z == Settled(x, t, NoLoan, d, yes)
  <1>14. NoLoan \in Loans /\ d \in Nat
    BY <1>1 DEF Loans, d
  <1>15. z \in World
    BY <1>9, <1>14, SettledWorld
  <1>16. z.ok = x.ok
    BY <1>9, SettledOk
  <1>17. z.all = yes
    BY <1>9, SettledAll
  <1>18. z.money = x.money /\ z.holder = x.holder /\ z.acc = x.acc /\ z.ret = d
    BY <1>9, SettledRest
  <1>19. z.loan = [x.loan EXCEPT ![t] = NoLoan]
    BY <1>9, <1>14, SettleLoan
  <1> HIDE DEF z
  <1>20. v = z
    BY <1>13 DEF z
  <1>21. v \in World /\ v.ok /\ v.all
    BY <1>11, <1>13, <1>15, <1>16, <1>17, <1>20
  <1>22. Closed(w, v, t)
    <2>1. v.loan[t] = NoLoan
      BY <1>7, <1>8, <1>9, <1>19, <1>20
    <2>2. v.holder[t] = l.borrower
      BY <1>7, <1>8, <1>12, <1>18, <1>20
    <2>3. v.ret = w.loan[t].debt
      BY <1>18, <1>20 DEF d
    <2> QED BY <1>21, <2>1, <2>2, <2>3 DEF Closed
  <1>23. SameEth(w, v)
    <2>1. \A h \in Holders : w.money["eth"][h] \in Nat
      BY <1>2, Fields
    <2>2. \A h \in Holders : m.money["eth"][h] = w.money["eth"][h]
      BY <1>2, <1>6, <2>1 DEF Paid
    <2> QED BY <1>9, <1>18, <1>20, <2>2 DEF SameEth
  <1>24. v.acc = w.acc
    BY <1>7, <1>9, <1>18, <1>20
  <1> QED BY <1>22, <1>23, <1>24 DEF v

LEMMA NotedBooks ==
  ASSUME NEW w \in World, NEW r, NEW a
  PROVE  LET v == Noted(w, r, a)
         IN  v.money = w.money /\ v.holder = w.holder /\ v.punk = w.punk /\ v.loan = w.loan
PROOF
  BY DEF Noted, World

LEMMA NotedWorld ==
  ASSUME NEW w \in World, NEW r \in Nat, NEW a \in Nat
  PROVE  Noted(w, r, a) \in World
PROOF
  BY DEF Noted, World

LEMMA NotedAll ==
  ASSUME NEW w \in World, NEW r, NEW a
  PROVE  Noted(w, r, a).all = w.all
PROOF
  BY DEF Noted, World

\* What was noted does not matter for the loan.
LEMMA NotedClosed ==
  ASSUME NEW w \in World, NEW x \in World, NEW t \in Tokens, Closed(w, x, t), NEW a \in Nat
  PROVE  /\ Closed(w, Noted(x, x.ret, a), t) /\ Noted(x, x.ret, a).acc = a
         /\ SameEth(x, Noted(x, x.ret, a))
PROOF
  <1> DEFINE v == Noted(x, x.ret, a)
  <1>1. x.ret \in Nat
    BY Fields
  <1>2. v \in World
    BY <1>1, NotedStep
  <1>3. v.money = x.money /\ v.holder = x.holder /\ v.loan = x.loan
    BY DEF Noted, World
  <1>4. v.ret = x.ret /\ v.acc = a
    BY NotedRet
  <1>5. v.ok = x.ok
    BY NotedOk
  <1>6. v.all = x.all
    BY NotedAll
  <1> HIDE DEF v
  <1>7. v.ok /\ v.all
    BY <1>5, <1>6 DEF Closed
  <1>8. Closed(w, v, t)
    BY <1>2, <1>3, <1>4, <1>7 DEF Closed
  <1>9. SameEth(x, v)
    BY <1>3 DEF SameEth
  <1> QED BY <1>4, <1>8, <1>9 DEF v

LEMMA SameLoans ==
  ASSUME NEW w, NEW v, NEW t, Rest(v) = Rest(w)
  PROVE  /\ Repayable(w, t) => Repayable(v, t)
         /\ v.loan[t] = w.loan[t] /\ v.acc = w.acc
         /\ \A x : Closed(v, x, t) => Closed(w, x, t)
PROOF
  <1>1. v.holder = w.holder /\ v.loan = w.loan /\ v.acc = w.acc
    BY DEF Rest
  <1> QED BY <1>1 DEF Repayable, Closed

\* One item of a repayment in full, the money being with the gateway.
LEMMA RepayItemWorks ==
  ASSUME NEW w \in World, NEW t \in Tokens, NEW n \in Nat, NEW value \in Nat, w.ok,
         Repayable(w, t), n >= w.loan[t].debt, value >= w.acc + w.loan[t].debt,
         w.money["eth"][WG] >= w.loan[t].debt
  PROVE  LET v == RepayItem(w, [t |-> t, n |-> n], value)
         IN  /\ Closed(w, v, t) /\ v.acc = w.acc + w.loan[t].debt
             /\ EthLess(w, v, WG, w.loan[t].debt)
PROOF
  <1> DEFINE item == [t |-> t, n |-> n]
             d == w.loan[t].debt
             w1 == IsWeth(w, t)
             pay == IF w1.ok THEN Smaller(n, d) ELSE 0
             w2 == Require(w1, value >= w1.acc + pay)
             v == RepayItem(w, item, value)
  <1>1. d \in Nat /\ d > 0 /\ w.acc \in Nat
    BY RepayableLoan, Fields
  <1>2. w1 \in World /\ w1.ok /\ w1.money = w.money /\ Rest(w1) = Rest(w)
    <2> DEFINE c == w.loan[t].state # "none" /\ (w.ok => w.loan[t].coin = "weth")
    <2>1. c \in BOOLEAN /\ c
      BY DEF Repayable
    <2>2. w1 = Require(w, c)
      BY DEF IsWeth
    <2> HIDE DEF c, w1
    <2>3. w1 \in World /\ w1.money = w.money /\ Rest(w1) = Rest(w)
      BY <2>1, <2>2, RequireStep
    <2>4. w1.ok = (w.ok /\ c)
      BY <2>1, <2>2, RequireStep
    <2> QED BY <2>1, <2>3, <2>4
  <1>3. w1.acc = w.acc
    BY <1>2 DEF Rest
  <1>4. pay = d
    BY <1>1, <1>2 DEF Smaller
  <1> DEFINE enough == value >= w.acc + d
             w3 == Require(w1, enough)
             w4 == Wrap(w3, WG, d)
             w5 == Repay(w4, WG, t, n)
  <1>5. v = Spent(w5)
    <2>1. item.t = t /\ item.n = n
      OBVIOUS
    <2> QED BY <1>4, <2>1 DEF RepayItem
  <1>6. enough \in BOOLEAN /\ enough
    BY <1>1
  <1> HIDE DEF v, pay, enough, w1, item
  <1>7. w3 \in World /\ w3.ok /\ w3.money = w.money /\ Rest(w3) = Rest(w)
    BY <1>2, <1>6, RequireStep
  <1> HIDE DEF w3, d
  <1>8. WG \in Gates /\ WG \in Holders /\ "eth" \in Purses /\ "weth" \in Purses
          /\ "eth" # "weth" /\ w3.money["eth"][WG] >= d
    BY <1>7, Names DEF Gates, d
  <1>9. w4 \in World /\ w4.ok /\ Rest(w4) = Rest(w)
    BY <1>1, <1>7, <1>8, WrapRest
  <1>10. \A q \in Purses, h \in Holders :
           w4.money[q][h] = w3.money[q][h] - (IF q = "eth" /\ h = WG THEN d ELSE 0)
                                           + (IF q = "weth" /\ h = WG THEN d ELSE 0)
    BY <1>1, <1>7, <1>8, WrapPaid
  <1> HIDE DEF w4
  <1>11. \A q \in Purses, h \in Holders : w3.money[q][h] \in Nat
    BY <1>7, Fields
  <1>12. Repayable(w4, t) /\ w4.loan[t] = w.loan[t] /\ w4.acc = w.acc
    BY <1>9, SameLoans
  <1>13. w4.money["weth"][WG] >= d
    BY <1>1, <1>8, <1>10, <1>11
  <1>14. Closed(w4, w5, t) /\ w5.acc = w4.acc /\ SameEth(w4, w5)
    BY <1>9, <1>12, <1>13, RepayWorks DEF d
  <1> HIDE DEF w5
  <1>15. Closed(w, w5, t)
    BY <1>9, <1>14, SameLoans
  <1>16. w5 \in World /\ w5.ret = d
    BY <1>15 DEF Closed, d
  <1>17. v = Noted(w5, w5.ret, w.acc + d)
    BY <1>5, <1>12, <1>14, <1>16 DEF Spent, Noted, World
  <1>18. w.acc + d \in Nat
    BY <1>1
  <1>19. Closed(w, v, t) /\ v.acc = w.acc + d /\ SameEth(w5, v)
    BY <1>15, <1>16, <1>17, <1>18, NotedClosed
  <1>20. EthLess(w, v, WG, d)
    <2>1. \A h \in Holders : w4.money["eth"][h] = w3.money["eth"][h] - (IF h = WG THEN d ELSE 0)
      BY <1>1, <1>8, <1>10, <1>11
    <2> QED BY <1>7, <1>14, <1>19, <2>1 DEF EthLess, SameEth
  <1> QED BY <1>19, <1>20 DEF v, d, item

\* Of the ETH only n moves, from x to y.
EthMoved(w, v, x, y, n) ==
    \A h \in Holders : v.money["eth"][h] = w.money["eth"][h] - (IF h = x THEN n ELSE 0)
                                                             + (IF h = y THEN n ELSE 0)

LEMMA MoveEth ==
  ASSUME NEW w \in World, NEW x \in Holders, NEW y \in Holders, NEW n \in Nat,
         w.ok, w.money["eth"][x] >= n
  PROVE  LET v == Move(w, "eth", x, y, n)
         IN  v \in World /\ v.ok /\ Rest(v) = Rest(w) /\ EthMoved(w, v, x, y, n)
PROOF
  <1>1. "eth" \in Purses
    BY Names
  <1> DEFINE v == Move(w, "eth", x, y, n)
  <1>2. v \in World /\ Rest(v) = Rest(w)
    BY <1>1, MoveRest
  <1>3. v.ok /\ Paid(w, v, "eth", x, y, n)
    BY <1>1, MovePaid
  <1> HIDE DEF v
  <1>4. EthMoved(w, v, x, y, n)
    BY <1>1, <1>3 DEF EthMoved, Paid
  <1> QED BY <1>2, <1>3, <1>4 DEF v

\* The state but for the money and the notes.
Books(w) == <<w.holder, w.punk, w.loan>>

LEMMA StartBatchWorks ==
  ASSUME NEW w \in World, NEW c \in Holders, NEW g \in Holders, NEW value \in Nat,
         w.ok, w.money["eth"][c] >= value
  PROVE  LET v == StartBatch(w, c, g, value)
         IN  /\ v \in World /\ v.ok /\ v.acc = 0 /\ Books(v) = Books(w)
             /\ EthMoved(w, v, c, g, value)
PROOF
  <1> DEFINE r == Receive(w, c, g, value)
             v == StartBatch(w, c, g, value)
  <1>1. r \in World /\ r.ok /\ Rest(r) = Rest(w) /\ EthMoved(w, r, c, g, value)
    BY MoveEth DEF Receive
  <1>2. v = [r EXCEPT !.acc = 0]
    BY DEF StartBatch
  <1> HIDE DEF r, v
  <1>3. r.holder = w.holder /\ r.punk = w.punk /\ r.loan = w.loan /\ r.ret \in Nat
    BY <1>1, Fields DEF Rest
  <1>4. v = Noted(r, r.ret, 0)
    BY <1>1, <1>2 DEF Noted, World
  <1>5. v \in World /\ v.money = r.money /\ v.holder = r.holder /\ v.punk = r.punk
          /\ v.loan = r.loan
    <2>1. v \in World
      BY <1>1, <1>3, <1>4, NotedWorld
    <2>2. v.money = r.money /\ v.holder = r.holder /\ v.punk = r.punk /\ v.loan = r.loan
      BY <1>1, <1>4, NotedBooks
    <2> QED BY <2>1, <2>2
  <1>6. v.acc = 0
    BY <1>1, <1>4, NotedRet
  <1>7. v.ok = r.ok
    BY <1>1, <1>4, NotedOk
  <1>8. EthMoved(w, v, c, g, value)
    BY <1>1, <1>5 DEF EthMoved
  <1>9. Books(v) = Books(w)
    BY <1>3, <1>5 DEF Books
  <1> QED BY <1>1, <1>5, <1>6, <1>7, <1>8, <1>9 DEF v

\* x took x.acc of the value, and the rest is with the gateway.
LEMMA EndBatchWorks ==
  ASSUME NEW x \in World, NEW c \in Holders, NEW g \in Holders, NEW value \in Nat,
         NEW k \in Nat, x.ok, value = x.acc + k, x.money["eth"][g] >= k, NEW before \in Nat
  PROVE  LET v == EndBatch(x, c, g, value, before)
         IN  /\ v \in World /\ v.ok /\ (x.all => v.all) /\ v.ret = x.acc /\ v.acc = before
             /\ Books(v) = Books(x) /\ EthMoved(x, v, g, c, k)
PROOF
  <1> DEFINE f == Refund(x, c, g, value, x.acc)
             v == EndBatch(x, c, g, value, before)
  <1>1. x.acc \in Nat
    BY Fields
  <1>2. Over(value, x.acc) = k
    BY <1>1 DEF Over
  <1>3. f = Move(x, "eth", g, c, k)
    BY <1>2 DEF Refund
  <1>4. f \in World /\ f.ok /\ Rest(f) = Rest(x) /\ EthMoved(x, f, g, c, k)
    BY <1>3, MoveEth
  <1>5. v = [f EXCEPT !.ret = x.acc, !.acc = before]
    BY DEF EndBatch
  <1> HIDE DEF f, v
  <1>6. v = Noted(f, x.acc, before)
    BY <1>5 DEF Noted
  <1>7. f.holder = x.holder /\ f.punk = x.punk /\ f.loan = x.loan
    BY <1>4 DEF Rest
  <1>8. v \in World /\ v.money = f.money /\ v.holder = f.holder /\ v.punk = f.punk
          /\ v.loan = f.loan
    <2>1. v \in World
      BY <1>1, <1>4, <1>6, NotedWorld
    <2>2. v.money = f.money /\ v.holder = f.holder /\ v.punk = f.punk /\ v.loan = f.loan
      BY <1>4, <1>6, NotedBooks
    <2> QED BY <2>1, <2>2
  <1>9. v.ret = x.acc /\ v.acc = before
    BY <1>4, <1>6, NotedRet
  <1>10. v.ok = f.ok
    BY <1>4, <1>6, NotedOk
  <1>11. x.all => v.all
    <2>1. v.all = f.all
      BY <1>4, <1>6, NotedAll
    <2>2. f.all = x.all
      BY <1>4 DEF Rest
    <2> QED BY <2>1, <2>2
  <1>12. EthMoved(x, v, g, c, k)
    BY <1>4, <1>8 DEF EthMoved
  <1>13. Books(v) = Books(x)
    BY <1>7, <1>8 DEF Books
  <1> QED BY <1>4, <1>8, <1>9, <1>10, <1>11, <1>12, <1>13 DEF v

LEMMA SameBooks ==
  ASSUME NEW w, NEW v, NEW t, Books(v) = Books(w)
  PROVE  /\ Repayable(w, t) => Repayable(v, t)
         /\ v.loan[t] = w.loan[t] /\ v.holder[t] = w.holder[t] /\ v.punk = w.punk
PROOF
  BY DEF Books, Repayable

\* At the WETH gateway: a caller who has the value, which is the debt and k more.
LEMMA RepayETHWorks ==
  ASSUME NEW w \in World, NEW t \in Tokens, NEW n \in Nat, NEW value \in Nat, NEW c \in Holders,
         NEW k \in Nat, c # WG, w.ok, Repayable(w, t), n >= w.loan[t].debt,
         value = w.loan[t].debt + k, w.money["eth"][c] >= value
  PROVE  LET v == repayETH(w, c, [t |-> t, n |-> n], value)
         IN  Closed(w, v, t) /\ v.acc = w.acc /\ EthLess(w, v, c, w.loan[t].debt)
PROOF
  <1> DEFINE d == w.loan[t].debt
             item == [t |-> t, n |-> n]
             s == StartBatch(w, c, WG, value)
             x == RepayItem(s, item, value)
             v == EndBatch(x, c, WG, value, w.acc)
  <1>1. d \in Nat /\ w.acc \in Nat /\ WG \in Holders
    BY RepayableLoan, Fields, Names
  <1>2. repayETH(w, c, item, value) = v
    BY DEF repayETH
  <1>3. s \in World /\ s.ok /\ s.acc = 0 /\ Books(s) = Books(w) /\ EthMoved(w, s, c, WG, value)
    BY <1>1, StartBatchWorks
  <1> HIDE DEF s, d
  <1>4. Repayable(s, t) /\ s.loan[t] = w.loan[t]
    BY <1>3, SameBooks
  <1>5. \A h \in Holders : w.money["eth"][h] \in Nat
    BY Fields, Names
  <1>6. s.money["eth"][WG] = w.money["eth"][WG] + value
    BY <1>1, <1>3, <1>5 DEF EthMoved
  <1>7. value = d + k /\ n >= d
    BY DEF d
  <1>8. value >= s.acc + s.loan[t].debt /\ n >= s.loan[t].debt /\ s.money["eth"][WG] >= s.loan[t].debt
    BY <1>1, <1>3, <1>4, <1>5, <1>6, <1>7 DEF d
  <1>9. Closed(s, x, t) /\ x.acc = s.acc + s.loan[t].debt /\ EthLess(s, x, WG, s.loan[t].debt)
    BY <1>3, <1>4, <1>8, RepayItemWorks
  <1> HIDE DEF x, item
  <1>10. x.acc = d /\ EthLess(s, x, WG, d)
    BY <1>1, <1>3, <1>4, <1>9 DEF d
  <1>11. x \in World /\ x.ok /\ x.all /\ x.loan[t] = NoLoan /\ x.holder[t] = w.loan[t].borrower
    BY <1>4, <1>9 DEF Closed
  <1>12. x.money["eth"][WG] >= k
    BY <1>1, <1>5, <1>6, <1>7, <1>10 DEF EthLess
  <1>13. value = x.acc + k
    BY <1>7, <1>10
  <1>14. /\ v \in World /\ v.ok /\ (x.all => v.all) /\ v.ret = x.acc /\ v.acc = w.acc
         /\ Books(v) = Books(x) /\ EthMoved(x, v, WG, c, k)
    BY <1>1, <1>11, <1>12, <1>13, EndBatchWorks
  <1> HIDE DEF v
  <1>15. v.loan[t] = NoLoan /\ v.holder[t] = w.loan[t].borrower
    BY <1>11, <1>14, SameBooks
  <1>16. Closed(w, v, t)
    BY <1>10, <1>11, <1>14, <1>15 DEF Closed, d
  <1>17. EthLess(w, v, c, d)
    <2> SUFFICES ASSUME NEW h \in Holders
                 PROVE  v.money["eth"][h] = w.money["eth"][h] - (IF h = c THEN d ELSE 0)
      BY DEF EthLess
    <2>1. s.money["eth"][h] = w.money["eth"][h] - (IF h = c THEN value ELSE 0)
                                                + (IF h = WG THEN value ELSE 0)
      BY <1>3 DEF EthMoved
    <2>2. x.money["eth"][h] = s.money["eth"][h] - (IF h = WG THEN d ELSE 0)
      BY <1>10 DEF EthLess
    <2>3. v.money["eth"][h] = x.money["eth"][h] - (IF h = WG THEN k ELSE 0)
                                                + (IF h = c THEN k ELSE 0)
      BY <1>14 DEF EthMoved
    <2> QED BY <1>1, <1>5, <1>7, <2>1, <2>2, <2>3
  <1> QED BY <1>2, <1>14, <1>16, <1>17 DEF d, item

\* One item at the punk gateway: the borrower has his punk back.
LEMMA PunkRepayItemETHWorks ==
  ASSUME NEW w \in World, NEW u \in Users, "punk" \in Tokens, NEW n \in Nat, NEW value \in Nat,
         w.ok, Repayable(w, "punk"), w.loan["punk"].borrower = u, n >= w.loan["punk"].debt,
         value >= w.acc + w.loan["punk"].debt, w.money["eth"][PG] >= w.loan["punk"].debt
  PROVE  LET v == PunkRepayItemETH(w, u, n, value)
         IN  /\ v \in World /\ v.ok /\ v.loan["punk"] = NoLoan /\ v.punk = u
             /\ v.acc = w.acc + w.loan["punk"].debt
             /\ EthLess(w, v, PG, w.loan["punk"].debt)
PROOF
  <1> DEFINE l == w.loan["punk"]
             d == l.debt
             item == [t |-> "punk", n |-> n]
             c == l.borrower = u /\ value >= w.acc + d
             q == Require(w, c)
             r == repayETH(q, PG, item, d)
             z == WithdrawPunk(r, u, u)
             v == PunkRepayItemETH(w, u, n, value)
  <1>1. d \in Nat /\ d > 0 /\ w.acc \in Nat /\ PG \in Holders /\ PG # WG /\ l.state = "active"
    BY RepayableLoan, Fields, Names DEF Repayable
  <1>2. Smaller(n, d) = d
    BY <1>1 DEF Smaller
  <1>3. v = Spent(Release(r, u, u))
    BY <1>1, <1>2 DEF PunkRepayItemETH
  <1>4. c \in BOOLEAN /\ c
    BY <1>1
  <1> HIDE DEF v, c
  <1>5. q \in World /\ q.money = w.money /\ Rest(q) = Rest(w)
    BY <1>4, RequireStep
  <1>6. q.ok
    <2>1. q.ok = (w.ok /\ c)
      BY <1>4, RequireStep
    <2> QED BY <1>4, <2>1
  <1> HIDE DEF q
  <1>7. Repayable(q, "punk") /\ q.loan["punk"] = l /\ q.acc = w.acc
    BY <1>5, SameLoans
  <1>8. q.money["eth"][PG] >= d /\ d = q.loan["punk"].debt + 0 /\ n >= q.loan["punk"].debt
    BY <1>1, <1>5, <1>7
  <1> HIDE DEF d
  <1>9. Closed(q, r, "punk") /\ r.acc = q.acc /\ EthLess(q, r, PG, q.loan["punk"].debt)
    BY <1>1, <1>5, <1>6, <1>7, <1>8, RepayETHWorks
  <1> HIDE DEF r
  <1>10. r \in World /\ r.ok /\ r.all /\ r.loan["punk"] = NoLoan /\ r.holder["punk"] = u
           /\ r.ret = d /\ r.acc = w.acc
    BY <1>7, <1>9 DEF Closed, d
  <1>11. Release(r, u, u) = z
    BY <1>10 DEF Release
  <1>12. /\ z \in World /\ z.ok /\ z.money = r.money /\ z.loan = r.loan /\ z.punk = u
         /\ z.ret = r.ret /\ z.acc = r.acc
    BY <1>10, WithdrawPunkStep
  <1> HIDE DEF z
  <1> DEFINE a == w.acc + d
  <1>13. v = Noted(z, d, a)
    BY <1>3, <1>10, <1>11, <1>12 DEF Spent, Noted, World
  <1>14. a \in Nat
    BY <1>1
  <1> HIDE DEF a
  <1>15. v \in World
    BY <1>1, <1>12, <1>13, <1>14, NotedWorld
  <1>16. v.money = z.money /\ v.loan = z.loan /\ v.punk = z.punk
    BY <1>12, <1>13, NotedBooks
  <1>17. v.acc = a
    BY <1>12, <1>13, NotedRet
  <1>18. v.ok = z.ok
    BY <1>12, <1>13, NotedOk
  <1>19. EthLess(w, v, PG, d)
    BY <1>5, <1>7, <1>9, <1>12, <1>16 DEF EthLess, d
  <1> QED BY <1>10, <1>12, <1>15, <1>16, <1>17, <1>18, <1>19 DEF v, a, d

\* At the punk gateway: the caller is the borrower, and has the value.
LEMMA PunkRepayETHWorks ==
  ASSUME NEW w \in World, NEW u \in Users, "punk" \in Tokens, NEW value \in Nat, NEW k \in Nat,
         w.ok, Repayable(w, "punk"), w.loan["punk"].borrower = u,
         value = w.loan["punk"].debt + k, w.money["eth"][u] >= value
  PROVE  LET v == punkBatchRepayETH(w, u, <<value>>, value)
         IN  /\ v.ok /\ v.loan["punk"] = NoLoan /\ v.punk = u
             /\ v.money["eth"][u] = w.money["eth"][u] - w.loan["punk"].debt
PROOF
  <1> DEFINE d == w.loan["punk"].debt
             s == StartBatch(w, u, PG, value)
             x == PunkRepayItemETH(s, u, value, value)
             v == EndBatch(x, u, PG, value, w.acc)
  <1>1. d \in Nat /\ w.acc \in Nat /\ PG \in Holders /\ u \in Holders /\ u # PG
    BY RepayableLoan, Fields, Names
  <1>2. s \in World /\ s.ok /\ s.acc = 0 /\ Books(s) = Books(w) /\ EthMoved(w, s, u, PG, value)
    BY <1>1, StartBatchWorks
  <1>3. punkBatchRepayETH(w, u, <<value>>, value) = v
    <2> DEFINE ns == <<value>>
    <2>1. Len(ns) = 1 /\ 1 \in Nat /\ \A i \in 1..1 : ns[i] = value
      OBVIOUS
    <2> HIDE DEF ns
    <2>2. ASSUME NEW i \in 1..1, NEW y \in World
          PROVE  PunkRepayItemETH(y, u, ns[i], value) \in World
      <3> DEFINE b == PunkRepayItemETH(y, u, value, value)
      <3>1. Pass(y, b, u, PG, "eth", y.acc - b.acc)
        BY PunkRepayItemETHPass
      <3> HIDE DEF b
      <3>2. b \in World
        BY <3>1 DEF Pass, Pay
      <3> QED BY <2>1, <3>2 DEF b
    <2>3. \A i \in 1..1 : \A y \in World : PunkRepayItemETH(y, u, ns[i], value) \in World
      BY <2>2
    <2> DEFINE n == 1
    <2>4. Len(ns) = n /\ n \in Nat
      BY <2>1
    <2>5. \A i \in 1..n : \A y \in World : PunkRepayItemETH(y, u, ns[i], value) \in World
      BY <2>3
    <2> HIDE DEF s, n
    <2>6. StartBatch(w, u, PG, value) \in World
      BY <1>2 DEF s
    <2>7. PICK g \in [0..n -> World] :
            /\ PunkRepayments(g, w, u, ns, n, value)
            /\ punkBatchRepayETH(w, u, ns, value) = EndBatch(g[n], u, PG, value, w.acc)
      BY ONLY <2>4, <2>5, <2>6, PunkRepayETHLoop
    <2>8. g[1] = PunkRepayItemETH(g[1 - 1], u, ns[1], value) /\ g[0] = s
      BY <2>7 DEF PunkRepayments, s, n
    <2>9. g[1] = x
      BY <2>1, <2>8
    <2> QED BY <2>7, <2>9 DEF ns, n
  <1> HIDE DEF s, d
  <1>4. Repayable(s, "punk") /\ s.loan["punk"] = w.loan["punk"]
    BY <1>2, SameBooks
  <1>5. \A h \in Holders : w.money["eth"][h] \in Nat
    BY Fields, Names
  <1>6. s.money["eth"][PG] = w.money["eth"][PG] + value
    BY <1>1, <1>2, <1>5 DEF EthMoved
  <1>7. value = d + k
    BY DEF d
  <1>8. value >= s.acc + s.loan["punk"].debt /\ value >= s.loan["punk"].debt
          /\ s.money["eth"][PG] >= s.loan["punk"].debt
    BY <1>1, <1>2, <1>4, <1>5, <1>6, <1>7 DEF d
  <1>9. /\ x \in World /\ x.ok /\ x.loan["punk"] = NoLoan /\ x.punk = u
        /\ x.acc = s.acc + s.loan["punk"].debt /\ EthLess(s, x, PG, s.loan["punk"].debt)
    BY <1>2, <1>4, <1>8, PunkRepayItemETHWorks
  <1> HIDE DEF x
  <1>10. x.acc = d /\ EthLess(s, x, PG, d)
    BY <1>1, <1>2, <1>4, <1>9 DEF d
  <1>11. x.money["eth"][PG] >= k
    BY <1>1, <1>5, <1>6, <1>7, <1>10 DEF EthLess
  <1>12. value = x.acc + k
    BY <1>7, <1>10
  <1>13. v \in World /\ v.ok /\ Books(v) = Books(x) /\ EthMoved(x, v, PG, u, k)
    BY <1>1, <1>9, <1>11, <1>12, EndBatchWorks
  <1> HIDE DEF v
  <1>14. v.loan["punk"] = NoLoan /\ v.punk = u
    <2>1. v.loan["punk"] = x.loan["punk"] /\ v.punk = x.punk
      BY <1>13, SameBooks
    <2> QED BY <1>9, <2>1
  <1>15. v.money["eth"][u] = w.money["eth"][u] - d
    <2>1. s.money["eth"][u] = w.money["eth"][u] - value
      BY <1>1, <1>2, <1>5 DEF EthMoved
    <2>2. x.money["eth"][u] = s.money["eth"][u]
      BY <1>1, <1>5, <1>10, <2>1 DEF EthLess
    <2>3. v.money["eth"][u] = x.money["eth"][u] + k
      BY <1>1, <1>5, <1>13, <2>1, <2>2 DEF EthMoved
    <2> QED BY <1>1, <1>5, <1>7, <2>1, <2>2, <2>3
  <1> QED BY <1>3, <1>13, <1>14, <1>15 DEF d

(***************************************************************************)
(* The theorems.                                                           *)
(***************************************************************************)

\* No step of another takes a user's money or token, or adds to a debt.
Unharmed ==
    \A u \in Users :
         by' # u =>
            /\ Worth(u)' >= Worth(u)
            /\ \A t \in Tokens :
                 /\ by' # "time" => Owes(u, t)' <= Owes(u, t)
                 /\ OwnerOf(t) = u => OwnerOf(t)' = u

\* What a loan is taken on is in the pool.
PledgesInPool == \A t \in Tokens : loan[t].state # "none" => holder[t] = "pool"

\* What every step keeps.
Kept == GatewaysKeepNothing' /\ (PledgesInPool => PledgesInPool') /\ Unharmed

LEMMA NowWorld ==
  ASSUME GatewaysKeepNothing
  PROVE  Now \in World /\ Wrapped(Now) /\ ("punk" \in Tokens => Safe(Now, "punk"))
PROOF
  <1>1. Now \in World
    BY DEF GatewaysKeepNothing, TypeOK, Now, World
  <1>2. Wrapped(Now)
    BY DEF GatewaysKeepNothing, Wrapped, Now
  <1>3. "punk" \in Tokens => Safe(Now, "punk")
    BY DEF GatewaysKeepNothing, Gates, Safe, Now
  <1> QED BY <1>1, <1>2, <1>3

LEMMA MoneyNat ==
  ASSUME NEW w \in World, NEW x \in Users
  PROVE  \A p \in Purses : w.money[p][x] \in Nat
PROOF
  BY Fields, Names

LEMMA CommitKeeps ==
  ASSUME GatewaysKeepNothing, NEW u \in Users, NEW v, Pass(Now, v, u, PG, "eth", 0), Commit(v, u)
  PROVE  Kept
PROOF
  <1>1. /\ v \in World /\ v.ok /\ Fair(Now, v, u) /\ Shift(Now, v, PG, "eth", 0) /\ Clean(Now, v)
    BY DEF Pass, Pay, Commit
  <1>2. /\ money' = v.money /\ holder' = v.holder /\ punk' = v.punk
        /\ offered' = v.offered /\ loan' = v.loan /\ by' = u
    BY DEF Commit
  <1>3. /\ Now.money = money /\ Now.holder = holder /\ Now.punk = punk /\ Now.loan = loan
    BY DEF Now
  <1>4. Now \in World /\ Wrapped(Now)
    BY NowWorld
  <1>5. TypeOK'
    BY <1>1, <1>2, Fields DEF TypeOK
  <1>6. ASSUME NEW g \in {WG, PG}
        PROVE  /\ \A p \in Purses : (money[p][g] = 0)'
               /\ \A t \in Tokens : (holder[t] # g)'
               /\ (punk # g)'
    <2>1. /\ \A p \in Purses : money[p][g] = 0
          /\ \A t \in Tokens : holder[t] \notin Gates
          /\ punk \notin Gates
      BY DEF GatewaysKeepNothing, Gates
    <2>2. g \in Gates
      BY DEF Gates
    <2>3. \A p \in Purses : v.money[p][g] = money[p][g] + 0
      BY <1>1, <1>3, <2>2 DEF Shift
    <2>4. \A t \in Tokens : v.holder[t] \in Gates => v.holder[t] = holder[t]
      BY <1>1, <1>3 DEF Clean
    <2>5. v.punk \in Gates => v.punk = punk
      BY <1>1, <1>3 DEF Clean
    <2>6. \A p \in Purses : v.money[p][g] = 0
      BY <2>1, <2>3
    <2>7. (\A t \in Tokens : v.holder[t] # g) /\ v.punk # g
      BY <2>1, <2>2, <2>4, <2>5
    <2> QED BY <1>2, <2>6, <2>7
  <1>7. Wrapped(v)
    BY <1>1, <1>4 DEF Fair
  <1>8. GatewaysKeepNothing'
    BY <1>2, <1>5, <1>6, <1>7 DEF GatewaysKeepNothing, Wrapped
  <1>9. ASSUME NEW x \in Users, by' # x
        PROVE  /\ Worth(x)' >= Worth(x)
               /\ \A t \in Tokens :
                    /\ by' # "time" => Owes(x, t)' <= Owes(x, t)
                    /\ OwnerOf(t) = x => OwnerOf(t)' = x
    <2>1. NotPoorer(Now, v, x) /\ NotBound(Now, v, x)
      BY <1>1, <1>2, <1>4, <1>9 DEF Fair
    <2>2. Worth(x)' >= Worth(x)
      <3>1. \A p \in Purses : v.money[p][x] \in Nat /\ money[p][x] \in Nat
        BY <1>1, <1>3, <1>4, MoneyNat
      <3>2. \A p \in Purses : v.money[p][x] >= money[p][x]
        BY <1>3, <2>1 DEF NotPoorer
      <3> QED BY <1>2, <3>1, <3>2 DEF Worth, Purses
    <2>3. ASSUME NEW t \in Tokens
          PROVE  Owes(x, t)' <= Owes(x, t) /\ (OwnerOf(t) = x => OwnerOf(t)' = x)
      <3>1. Owes(x, t) = OwesIn(Now, x, t) /\ OwnerOf(t) = OwnerIn(Now, t)
        BY <1>3 DEF Owes, OwesIn, OwnerOf, OwnerIn
      <3>2. Owes(x, t)' = OwesIn(v, x, t) /\ OwnerOf(t)' = OwnerIn(v, t)
        BY <1>2 DEF Owes, OwesIn, OwnerOf, OwnerIn
      <3> QED BY <2>1, <3>1, <3>2 DEF NotBound
    <2> QED BY <2>2, <2>3
  <1>10. PledgesInPool => PledgesInPool'
    <2>1. Pledged(Now) => Pledged(v)
      BY <1>1 DEF Clean
    <2> QED BY <1>2, <1>3, <2>1 DEF Pledged, PledgesInPool
  <1> QED BY <1>8, <1>9, <1>10 DEF Kept, Unharmed

LEMMA InitKeeps == Init => GatewaysKeepNothing
PROOF
  <1> SUFFICES ASSUME Init PROVE GatewaysKeepNothing
    OBVIOUS
  <1>1. PICK u \in Users : /\ holder = [t \in Tokens |-> IF t = "punk" THEN None ELSE u]
                           /\ punk = u
    BY DEF Init
  <1>2. \A p \in Purses, h \in Holders :
          money[p][h] = IF h \in Users /\ p # "bweth" THEN (IF p = "weth" THEN 0 ELSE Cash)
                        ELSE IF h = "reserve" /\ p \in Coins THEN Liquidity ELSE 0
    BY DEF Init
  <1>3. money \in [Purses -> [Holders -> Nat]]
    BY GatewayAssumption DEF Init
  <1>4. loan \in [Tokens -> Loans]
    BY DEF Init, Loans
  <1>5. TypeOK
    BY <1>1, <1>3, <1>4, Names DEF Init, TypeOK
  <1>6. u \notin Gates /\ None \notin Gates /\ u # "wrapper" /\ "reserve" \notin Gates
    BY Names
  <1>7. ASSUME NEW g \in {WG, PG}
        PROVE  /\ \A p \in Purses : money[p][g] = 0
               /\ \A t \in Tokens : holder[t] # g
               /\ punk # g
    <2>1. g \in Gates /\ g \in Holders /\ g \notin Users
      BY Names DEF Gates
    <2> QED BY <1>1, <1>2, <1>6, <2>1
  <1>8. "punk" \in Tokens => ((punk = "wrapper") <=> (holder["punk"] # None))
    BY <1>1, <1>6
  <1> QED BY <1>5, <1>7, <1>8 DEF GatewaysKeepNothing

LEMMA IdleNow ==
  ASSUME GatewaysKeepNothing, UNCHANGED vars
  PROVE  GatewaysKeepNothing'
PROOF
  BY DEF vars, GatewaysKeepNothing, TypeOK

LEMMA TimeKeeps ==
  ASSUME GatewaysKeepNothing, Time
  PROVE  Kept
PROOF
  <1>1. PICK t \in Tokens :
          /\ loan[t].state # "none"
          /\ \/ /\ loan[t].debt < MaxDebt
                /\ loan' = [loan EXCEPT ![t].debt = @ + 1]
             \/ /\ loan[t].state = "auction" /\ ~loan[t].over
                /\ loan' = [loan EXCEPT ![t].over = TRUE]
    BY DEF Time
  <1>2. by' = "time" /\ UNCHANGED <<money, holder, punk, offered>>
    BY DEF Time
  <1>3. loan \in [Tokens -> Loans] /\ loan[t] \in Loans /\ TypeOK
    BY DEF GatewaysKeepNothing, TypeOK
  <1>4. loan[t].state # "none" /\ loan[t].debt \in 1..MaxDebt /\ MaxDebt \in Nat
    BY <1>1, <1>3, LoanKinds, GatewayAssumption
  <1>5. loan' \in [Tokens -> Loans]
    <2> DEFINE l == loan[t]
    <2>1. CASE loan[t].debt < MaxDebt /\ loan' = [loan EXCEPT ![t].debt = @ + 1]
      <3> DEFINE k == l.debt + 1
      <3>1. k \in 1..MaxDebt
        BY <1>4, <2>1
      <3>2. loan' = [loan EXCEPT ![t] = [l EXCEPT !.debt = k]]
        BY <1>3, <2>1
      <3> HIDE DEF k
      <3>3. l \in ActiveLoans \/ l \in Auctions
        BY <1>3, <1>4, LoanKinds
      <3>4. [l EXCEPT !.debt = k] \in ActiveLoans \cup Auctions
        BY <3>1, <3>3 DEF ActiveLoans, Auctions
      <3>5. [l EXCEPT !.debt = k] \in Loans
        BY <3>4 DEF Loans
      <3> HIDE DEF l
      <3> QED BY <1>3, <3>2, <3>5
    <2>2. CASE loan[t].state = "auction" /\ loan' = [loan EXCEPT ![t].over = TRUE]
      <3>1. loan' = [loan EXCEPT ![t] = [l EXCEPT !.over = TRUE]]
        BY <1>3, <2>2
      <3>2. l \in Auctions
        BY <1>3, <2>2, LoanKinds
      <3>3. [l EXCEPT !.over = TRUE] \in Auctions
        BY <3>2 DEF Auctions
      <3>4. [l EXCEPT !.over = TRUE] \in Loans
        BY <3>3 DEF Loans
      <3> HIDE DEF l
      <3> QED BY <1>3, <3>1, <3>4
    <2> QED BY <1>1, <2>1, <2>2
  <1>6. TypeOK'
    BY <1>2, <1>3, <1>5 DEF TypeOK
  <1>7. GatewaysKeepNothing'
    BY <1>2, <1>6 DEF GatewaysKeepNothing
  <1>8. ASSUME NEW x \in Users PROVE Worth(x)' >= Worth(x)
    <2>1. Worth(x)' = Worth(x)
      BY <1>2 DEF Worth
    <2>2. \A p \in Purses : money[p][x] \in Nat
      BY <1>3, Names DEF TypeOK
    <2>3. Worth(x) \in Nat
      BY <2>2 DEF Worth, Purses
    <2> QED BY <2>1, <2>3
  <1>9. \A s : OwnerOf(s)' = OwnerOf(s)
    BY <1>2 DEF OwnerOf
  <1>10. PledgesInPool => PledgesInPool'
    <2>1. \A s \in Tokens : loan'[s].state # "none" => loan[s].state # "none"
      BY <1>1, <1>3
    <2> QED BY <1>2, <2>1 DEF PledgesInPool
  <1> QED BY <1>2, <1>7, <1>8, <1>9, <1>10 DEF Kept, Unharmed

LEMMA AmountNat == (\A n \in Amounts : n \in Nat) /\ (\A n \in Fines : n \in Nat) /\ 0 \in Nat
PROOF
  BY GatewayAssumption DEF Fines

LEMMA NowPass ==
  ASSUME GatewaysKeepNothing, NEW u \in Users, NEW v, NEW k, Pass(Now, v, u, PG, "eth", Due(u, k))
  PROVE  Pass(Now, v, u, PG, "eth", 0)
PROOF
  <1>1. u # PG
    BY Names DEF Gates
  <1> QED BY <1>1 DEF Due

LEMMA SavingsKeep ==
  ASSUME GatewaysKeepNothing, NEW u \in Users, UseSavings(u)
  PROVE  Kept
PROOF
  <1>1. PICK n \in Amounts, for \in Users :
          Commit(depositETH(Now, u, n, for), u) \/ Commit(withdrawETH(Now, u, n, for), u)
    BY DEF UseSavings
  <1>2. n \in Nat /\ Now \in World
    BY AmountNat, NowWorld
  <1>3. Pass(Now, depositETH(Now, u, n, for), u, PG, "eth", 0)
    BY <1>2, depositETHPass, NowPass
  <1>4. Pass(Now, withdrawETH(Now, u, n, for), u, PG, "eth", 0)
    BY <1>2, withdrawETHPass
  <1> QED BY <1>1, <1>3, <1>4, CommitKeeps

LEMMA WethGatewayKeeps ==
  ASSUME GatewaysKeepNothing, NEW u \in Users, UseWethGateway(u)
  PROVE  Kept
PROOF
  <1>1. PICK t \in Tokens, n \in Amounts :
        \/ \E for \in Users : Commit(batchBorrowETH(Now, u, <<[t |-> t, n |-> n]>>, for), u)
        \/ \E value \in Amounts : Commit(repayETH(Now, u, [t |-> t, n |-> n], value), u)
        \/ \E for \in Users : Commit(auctionETH(Now, u, t, n, for), u)
        \/ \E fine \in Fines, value \in Amounts : Commit(redeemETH(Now, u, t, n, fine, value), u)
        \/ Commit(liquidateETH(Now, u, t, n), u)
        \/ Commit(liquidateETH(Now, u, t, 0), u)
    BY DEF UseWethGateway
  <1>2. n \in Nat /\ Now \in World /\ u # PG
    BY AmountNat, NowWorld, Names DEF Gates
  <1>3. ASSUME NEW for \in Users
        PROVE  Pass(Now, batchBorrowETH(Now, u, <<[t |-> t, n |-> n]>>, for), u, PG, "eth", 0)
    <2> DEFINE items == <<[t |-> t, n |-> n]>>
    <2>1. items \in [1..1 -> Items]
      BY DEF Items
    <2> HIDE DEF items
    <2>2. Pass(Now, batchBorrowETH(Now, u, items, for), u, PG, "eth", 0)
      BY <1>2, <2>1, batchBorrowETHPass
    <2> QED BY <2>2 DEF items
  <1>4. ASSUME NEW value \in Amounts
        PROVE  Pass(Now, repayETH(Now, u, [t |-> t, n |-> n], value), u, PG, "eth", 0)
    <2> DEFINE item == [t |-> t, n |-> n]
    <2>1. item \in [t : Tokens, n : Nat] /\ value \in Nat
      BY <1>2, AmountNat
    <2> HIDE DEF item
    <2>2. Pass(Now, repayETH(Now, u, item, value), u, PG, "eth", 0)
      BY <1>2, <2>1, repayETHPass, NowPass
    <2> QED BY <2>2 DEF item
  <1>5. \A for \in Users : Pass(Now, auctionETH(Now, u, t, n, for), u, PG, "eth", 0)
    BY <1>2, auctionETHPass, NowPass
  <1>6. ASSUME NEW fine \in Fines, NEW value \in Amounts
        PROVE  Pass(Now, redeemETH(Now, u, t, n, fine, value), u, PG, "eth", 0)
    BY <1>2, AmountNat, redeemETHPass, NowPass
  <1>7. \A k \in Nat : Pass(Now, liquidateETH(Now, u, t, k), u, PG, "eth", 0)
    BY <1>2, liquidateETHPass, NowPass
  <1> QED BY <1>1, <1>2, <1>3, <1>4, <1>5, <1>6, <1>7, AmountNat, CommitKeeps

LEMMA PunkGatewayETHKeeps ==
  ASSUME GatewaysKeepNothing, NEW u \in Users, UsePunkGatewayETH(u)
  PROVE  Kept
PROOF
  <1>1. PICK n \in Amounts :
        \/ \E for \in Users : Commit(punkBatchBorrowETH(Now, u, <<n>>, for), u)
        \/ \E value \in Amounts : Commit(punkBatchRepayETH(Now, u, <<n>>, value), u)
        \/ \E for \in Users : Commit(punkAuctionETH(Now, u, n, for), u)
        \/ \E fine \in Fines, value \in Amounts : Commit(punkRedeemETH(Now, u, n, fine, value), u)
        \/ Commit(punkLiquidateETH(Now, u, n), u)
        \/ Commit(punkLiquidateETH(Now, u, 0), u)
    BY DEF UsePunkGatewayETH
  <1>2. n \in Nat /\ Now \in World /\ "punk" \in Tokens /\ Safe(Now, "punk")
    BY AmountNat, NowWorld, GatewayAssumption DEF UsePunkGatewayETH
  <1> DEFINE ns == <<n>>
  <1>3. ns \in [1..1 -> Amounts] /\ ns \in [1..1 -> Nat]
    BY <1>2
  <1> HIDE DEF ns
  <1>4. \A for \in Users : Pass(Now, punkBatchBorrowETH(Now, u, ns, for), u, PG, "eth", 0)
    BY <1>2, <1>3, punkBatchBorrowETHPass
  <1>5. \A value \in Amounts : Pass(Now, punkBatchRepayETH(Now, u, ns, value), u, PG, "eth", 0)
    BY <1>2, <1>3, AmountNat, punkBatchRepayETHPass
  <1>6. \A for \in Users : Pass(Now, punkAuctionETH(Now, u, n, for), u, PG, "eth", 0)
    BY <1>2, punkAuctionETHPass
  <1>7. \A fine \in Fines, value \in Amounts :
          Pass(Now, punkRedeemETH(Now, u, n, fine, value), u, PG, "eth", 0)
    BY <1>2, AmountNat, punkRedeemETHPass
  <1>8. \A k \in Nat : Pass(Now, punkLiquidateETH(Now, u, k), u, PG, "eth", 0)
    BY <1>2, punkLiquidateETHPass
  <1> USE DEF ns
  <1> QED BY <1>1, <1>2, <1>4, <1>5, <1>6, <1>7, <1>8, AmountNat, CommitKeeps

LEMMA PunkGatewayKeeps ==
  ASSUME GatewaysKeepNothing, NEW u \in Users, UsePunkGateway(u)
  PROVE  Kept
PROOF
  <1>1. PICK n \in Amounts :
        \/ \E coin \in Coins, for \in Users : Commit(punkBatchBorrow(Now, u, coin, <<n>>, for), u)
        \/ Commit(punkBatchRepay(Now, u, <<n>>), u)
        \/ \E for \in Users : Commit(punkAuction(Now, u, n, for), u)
        \/ \E fine \in Fines : Commit(punkRedeem(Now, u, n, fine), u)
        \/ Commit(punkLiquidate(Now, u, n), u)
        \/ Commit(punkLiquidate(Now, u, 0), u)
    BY DEF UsePunkGateway
  <1>2. n \in Nat /\ Now \in World /\ "punk" \in Tokens
    BY AmountNat, NowWorld, GatewayAssumption DEF UsePunkGateway
  <1> DEFINE ns == <<n>>
  <1>3. ns \in [1..1 -> Nat]
    BY <1>2
  <1> HIDE DEF ns
  <1>4. \A coin \in Coins, for \in Users :
          Pass(Now, punkBatchBorrow(Now, u, coin, ns, for), u, PG, "eth", 0)
    BY <1>2, <1>3, punkBatchBorrowPass
  <1>5. Pass(Now, punkBatchRepay(Now, u, ns), u, PG, "eth", 0)
    BY <1>2, <1>3, punkBatchRepayPass
  <1>6. \A for \in Users : Pass(Now, punkAuction(Now, u, n, for), u, PG, "eth", 0)
    BY <1>2, punkAuctionPass
  <1>7. \A fine \in Fines : Pass(Now, punkRedeem(Now, u, n, fine), u, PG, "eth", 0)
    BY <1>2, AmountNat, punkRedeemPass
  <1>8. \A k \in Nat : Pass(Now, punkLiquidate(Now, u, k), u, PG, "eth", 0)
    BY <1>2, punkLiquidatePass
  <1> USE DEF ns
  <1> QED BY <1>1, <1>2, <1>4, <1>5, <1>6, <1>7, <1>8, AmountNat, CommitKeeps

LEMMA BatchesKeep ==
  ASSUME GatewaysKeepNothing, NEW u \in Users, UseBatches(u)
  PROVE  Kept
PROOF
  <1>1. Now \in World /\ u # PG /\ ("punk" \in Tokens => Safe(Now, "punk"))
    BY NowWorld, Names DEF Gates
  <1>2. ASSUME NEW items \in Batches(Items), NEW for \in Users
        PROVE  Pass(Now, batchBorrowETH(Now, u, items, for), u, PG, "eth", 0)
    <2>1. PICK n \in 0..MaxBatch : items \in [1..n -> Items]
      BY DEF Batches
    <2>2. n \in Nat
      BY GatewayAssumption
    <2> QED BY <1>1, <2>1, <2>2, batchBorrowETHPass
  <1>3. ASSUME NEW items \in Batches(Items), NEW value \in Amounts
        PROVE  Pass(Now, batchRepayETH(Now, u, items, value), u, PG, "eth", 0)
    <2> DEFINE v == batchRepayETH(Now, u, items, value)
    <2>1. PICK n \in 0..MaxBatch : items \in [1..n -> Items]
      BY DEF Batches
    <2>2. n \in Nat /\ value \in Nat
      BY GatewayAssumption
    <2>3. Pass(Now, v, u, PG, "eth", Due(u, -v.ret))
      BY <1>1, <2>1, <2>2, batchRepayETHPass
    <2> HIDE DEF v
    <2>4. Pass(Now, v, u, PG, "eth", 0)
      BY <2>3, NowPass
    <2> QED BY <2>4 DEF v
  <1>4. ASSUME "punk" \in Tokens, NEW ns \in Batches(Amounts), NEW value \in Amounts,
               NEW coin \in Coins, NEW for \in Users
        PROVE  /\ Pass(Now, punkBatchBorrowETH(Now, u, ns, for), u, PG, "eth", 0)
               /\ Pass(Now, punkBatchBorrow(Now, u, coin, ns, for), u, PG, "eth", 0)
               /\ Pass(Now, punkBatchRepayETH(Now, u, ns, value), u, PG, "eth", 0)
               /\ Pass(Now, punkBatchRepay(Now, u, ns), u, PG, "eth", 0)
    <2>1. PICK n \in 0..MaxBatch : ns \in [1..n -> Amounts]
      BY DEF Batches
    <2>2. n \in Nat /\ value \in Nat /\ ns \in [1..n -> Nat]
      <3>1. n \in Nat /\ value \in Nat
        BY GatewayAssumption
      <3>2. ns \in [1..n -> Nat]
        BY <2>1, AmountNat
      <3> QED BY <3>1, <3>2
    <2>3. Pass(Now, punkBatchBorrowETH(Now, u, ns, for), u, PG, "eth", 0)
      BY <1>1, <1>4, <2>1, <2>2, punkBatchBorrowETHPass
    <2>4. Pass(Now, punkBatchBorrow(Now, u, coin, ns, for), u, PG, "eth", 0)
      BY <1>1, <1>4, <2>2, punkBatchBorrowPass
    <2>5. Pass(Now, punkBatchRepayETH(Now, u, ns, value), u, PG, "eth", 0)
      BY <1>1, <1>4, <2>2, punkBatchRepayETHPass
    <2>6. Pass(Now, punkBatchRepay(Now, u, ns), u, PG, "eth", 0)
      BY <1>1, <1>4, <2>2, punkBatchRepayPass
    <2> QED BY <2>3, <2>4, <2>5, <2>6
  <1>5. CASE \E items \in Batches(Items), for \in Users : Commit(batchBorrowETH(Now, u, items, for), u)
    BY <1>2, <1>5, CommitKeeps
  <1>6. CASE \E items \in Batches(Items), value \in Amounts :
               Commit(batchRepayETH(Now, u, items, value), u)
    BY <1>3, <1>6, CommitKeeps
  <1>7. CASE /\ "punk" \in Tokens
             /\ \E ns \in Batches(Amounts), value \in Amounts :
                  \/ \E for \in Users : Commit(punkBatchBorrowETH(Now, u, ns, for), u)
                  \/ \E coin \in Coins, for \in Users :
                       Commit(punkBatchBorrow(Now, u, coin, ns, for), u)
                  \/ Commit(punkBatchRepayETH(Now, u, ns, value), u)
                  \/ Commit(punkBatchRepay(Now, u, ns), u)
    <2>1. "weth" \in Coins /\ u \in Users
      BY Names
    <2> QED BY <1>4, <1>7, <2>1, CommitKeeps
  <1> QED BY <1>5, <1>6, <1>7 DEF UseBatches

LEMMA HandlingKeeps ==
  ASSUME GatewaysKeepNothing, NEW u \in Users, HandlePunk(u)
  PROVE  Kept
PROOF
  <1>1. Now \in World /\ "punk" \in Tokens
    BY NowWorld DEF HandlePunk
  <1>2. CASE punk = u /\ ~offered /\ Commit([Now EXCEPT !.offered = TRUE], u)
    <2> DEFINE v == [Now EXCEPT !.offered = TRUE]
    <2>1. /\ v \in World /\ v.ok = Now.ok /\ v.money = Now.money /\ v.holder = Now.holder
          /\ v.punk = Now.punk /\ v.loan = Now.loan
      BY <1>1 DEF World
    <2> HIDE DEF v
    <2>2. \A x, t : OwesIn(v, x, t) = OwesIn(Now, x, t) /\ OwnerIn(v, t) = OwnerIn(Now, t)
      BY <2>1 DEF OwesIn, OwnerIn
    <2>3. \A x, t : t \in Tokens => OwesIn(Now, x, t) <= OwesIn(Now, x, t)
      BY <1>1, OwesNat
    <2>4. Fair(Now, v, u)
      BY <1>1, <2>1, <2>2, <2>3, NotPoorerSame DEF Fair, NotBound, Wrapped
    <2>5. Clean(Now, v) /\ Shift(Now, v, PG, "eth", 0)
      BY <1>1, <2>1, ShiftSame DEF Clean, Pledged
    <2>6. Pass(Now, v, u, PG, "eth", 0)
      BY <2>1, <2>4, <2>5 DEF Pass, Pay
    <2>7. Commit(v, u)
      BY <1>2 DEF v
    <2> QED BY <2>6, <2>7, CommitKeeps
  <1>3. CASE holder["punk"] = u /\ Commit([Now EXCEPT !.holder["punk"] = None, !.punk = u], u)
    <2>1. WithdrawPunk(Now, u, u) = [Now EXCEPT !.holder["punk"] = None, !.punk = u]
      BY <1>3 DEF WithdrawPunk, Now
    <2>2. Commit(WithdrawPunk(Now, u, u), u)
      BY <1>3, <2>1
    <2>3. Pass(Now, WithdrawPunk(Now, u, u), u, PG, "eth", 0)
      BY <1>1, WithdrawPunkPass
    <2> QED BY <2>2, <2>3, CommitKeeps
  <1> QED BY <1>2, <1>3 DEF HandlePunk

LEMMA PoolKeeps ==
  ASSUME GatewaysKeepNothing, NEW u \in Users, UsePool(u)
  PROVE  Kept
PROOF
  <1>1. PICK t \in Tokens, n \in Amounts :
        \/ \E coin \in Coins : Commit(Borrow(Now, u, coin, n, t, u), u)
        \/ Commit(Repay(Now, u, t, n), u)
        \/ Commit(Liquidate(Now, u, t, n), u)
    BY DEF UsePool
  <1>2. n \in Nat /\ Now \in World /\ u \in Actors(u) /\ u \notin Gates
    BY AmountNat, NowWorld, Names DEF Actors
  <1>3. ASSUME NEW coin \in Coins
        PROVE  Pass(Now, Borrow(Now, u, coin, n, t, u), u, PG, "eth", 0)
    <2>1. Pass(Now, Borrow(Now, u, coin, n, t, u), u, u, coin, n)
      BY <1>2, BorrowPass
    <2> QED BY <1>2, <2>1, PassIdle
  <1>4. Pass(Now, Repay(Now, u, t, n), u, PG, "eth", 0)
    <2> DEFINE v == Repay(Now, u, t, n)
               coin == Now.loan[t].coin
    <2>1. Pass(Now, v, u, u, coin, -v.ret)
      BY <1>2, RepayPass
    <2> HIDE DEF v, coin
    <2>2. v.ret \in Nat
      BY <2>1, PassOk, Fields
    <2>3. Pass(Now, v, u, PG, "eth", 0)
      BY <1>2, <2>1, <2>2, PassIdle
    <2> QED BY <2>3 DEF v
  <1>5. Pass(Now, Liquidate(Now, u, t, n), u, PG, "eth", 0)
    <2> DEFINE v == Liquidate(Now, u, t, n)
               coin == Now.loan[t].coin
    <2>1. Pass(Now, v, u, u, coin, -v.ret)
      BY <1>2, LiquidatePass
    <2> HIDE DEF v, coin
    <2>2. v.ret \in Nat
      BY <2>1, PassOk, Fields
    <2>3. Pass(Now, v, u, PG, "eth", 0)
      BY <1>2, <2>1, <2>2, PassIdle
    <2> QED BY <2>3 DEF v
  <1> QED BY <1>1, <1>3, <1>4, <1>5, CommitKeeps

LEMMA StepKeeps ==
  ASSUME GatewaysKeepNothing, Next
  PROVE  Kept
PROOF
  <1>1. CASE Time
    BY <1>1, TimeKeeps
  <1>2. ASSUME NEW u \in Users,
               \/ UseSavings(u) \/ UseWethGateway(u) \/ UsePunkGatewayETH(u) \/ UsePunkGateway(u)
               \/ UseBatches(u) \/ HandlePunk(u) \/ UsePool(u)
        PROVE  Kept
    BY <1>2, SavingsKeep, WethGatewayKeeps, PunkGatewayETHKeeps, PunkGatewayKeeps, BatchesKeep,
       HandlingKeeps, PoolKeeps
  <1> QED BY <1>1, <1>2 DEF Next

\* Whatever is called, in batches of any length and for any amounts, the gateways
\* are left with nothing: what a call takes it passes on or gives back.
THEOREM GatewaysAreEmpty == Spec => []GatewaysKeepNothing
PROOF
  <1>1. GatewaysKeepNothing /\ [Next]_vars => GatewaysKeepNothing'
    BY StepKeeps, IdleNow DEF Kept
  <1> QED BY <1>1, InitKeeps, PTL DEF Spec

\* The borrower of t, who has the ETH of the state rich, sends value to repay.
Repaid(rich, t, value) ==
    LET u == loan[t].borrower
    IN  IF t = "punk" THEN punkBatchRepayETH(rich, u, <<value>>, value)
        ELSE repayETH(rich, u, [t |-> t, n |-> value], value)

\* After that the loan is closed, the token or the punk his, and the debt paid.
Freed(w, t) ==
    LET u == loan[t].borrower
    IN  /\ w.ok /\ w.loan[t] = NoLoan
        /\ (IF t = "punk" THEN w.punk ELSE w.holder[t]) = u
        /\ w.money["eth"][u] = money["eth"][u] + MaxDebt + 1 - loan[t].debt

\* The state, but u has enough ETH to repay.
Rich(u) == [Now EXCEPT !.money["eth"][u] = @ + MaxDebt + 1]

LEMMA RepaidIsFreed ==
  ASSUME GatewaysKeepNothing, PledgesInPool, NEW t \in Tokens,
         loan[t].state = "active", loan[t].coin = "weth", NEW more \in {0, 1}
  PROVE  Freed(Repaid(Rich(loan[t].borrower), t, loan[t].debt + more), t)
PROOF
  <1> DEFINE u == loan[t].borrower
             d == loan[t].debt
             value == d + more
             k == money["eth"][u] + MaxDebt + 1
             rich == Rich(u)
  <1>1. Now \in World /\ Now.money = money /\ Now.holder = holder /\ Now.loan = loan
    BY NowWorld DEF Now
  <1>2. Repayable(Now, t)
    BY <1>1 DEF Repayable, PledgesInPool
  <1>3. d \in Nat /\ d <= MaxDebt /\ u \in Users
    BY <1>1, <1>2, RepayableLoan
  <1>4. u \in Holders /\ "eth" \in Purses /\ u # WG
    BY <1>3, Names
  <1>5. money["eth"][u] \in Nat /\ MaxDebt \in Nat
    BY <1>1, <1>4, Fields, GatewayAssumption
  <1>6. k \in Nat /\ k >= d + 1 /\ value \in Nat /\ k >= value /\ more \in Nat
    BY <1>3, <1>5
  <1>7. rich = [Now EXCEPT !.money["eth"][u] = k]
    BY DEF Rich, Now
  <1> HIDE DEF k, rich
  <1>8. rich \in World /\ Rest(rich) = Rest(Now) /\ rich.money["eth"][u] = k
    <2> HIDE DEF u
    <2> DEFINE r == [Now EXCEPT !.money["eth"][u] = k]
    <2>1. /\ r \in World /\ r.ok = Now.ok /\ Rest(r) = Rest(Now)
          /\ \A q \in Purses, x \in Holders :
               r.money[q][x] = IF q = "eth" /\ x = u THEN k ELSE Now.money[q][x]
      BY <1>1, <1>4, <1>6, SetMoney
    <2> HIDE DEF r
    <2>2. r.money["eth"][u] = k
      BY <1>4, <2>1
    <2> QED BY <1>7, <2>1, <2>2 DEF r
  <1>9. rich.ok
    BY <1>7 DEF Now
  <1>10. Repayable(rich, t) /\ rich.loan[t] = loan[t]
    BY <1>1, <1>2, <1>8, SameLoans
  <1>11. value = rich.loan[t].debt + more /\ rich.loan[t].borrower = u /\ value >= rich.loan[t].debt
    BY <1>3, <1>10
  <1> HIDE DEF value
  <1>12. ASSUME t = "punk" PROVE Freed(Repaid(rich, t, value), t)
    <2> DEFINE v == punkBatchRepayETH(rich, u, <<value>>, value)
    <2>1. /\ v.ok /\ v.loan["punk"] = NoLoan /\ v.punk = u
          /\ v.money["eth"][u] = rich.money["eth"][u] - rich.loan["punk"].debt
      BY <1>3, <1>6, <1>8, <1>9, <1>10, <1>11, <1>12, PunkRepayETHWorks
    <2> HIDE DEF v
    <2>2. v.ok /\ v.loan[t] = NoLoan /\ v.punk = u /\ v.money["eth"][u] = k - d
      BY <1>8, <1>10, <1>12, <2>1
    <2>3. Repaid(rich, t, value) = v
      BY <1>12 DEF Repaid, v
    <2>4. Freed(v, t)
      <3>1. (IF t = "punk" THEN v.punk ELSE v.holder[t]) = loan[t].borrower
        BY <1>12, <2>2
      <3>2. v.money["eth"][loan[t].borrower] = money["eth"][loan[t].borrower] + MaxDebt + 1 - loan[t].debt
        BY <1>3, <1>5, <2>2 DEF k
      <3>3. v.ok /\ v.loan[t] = NoLoan
        BY <2>2
      <3> QED BY ONLY <3>1, <3>2, <3>3, Zenon DEF Freed
    <2> QED BY <2>3, <2>4
  <1>13. ASSUME t # "punk" PROVE Freed(Repaid(rich, t, value), t)
    <2> DEFINE v == repayETH(rich, u, [t |-> t, n |-> value], value)
    <2>1. Closed(rich, v, t) /\ EthLess(rich, v, u, rich.loan[t].debt)
      BY <1>4, <1>6, <1>8, <1>9, <1>10, <1>11, RepayETHWorks
    <2> HIDE DEF v
    <2>2. v.ok /\ v.loan[t] = NoLoan /\ v.holder[t] = u
      BY <1>11, <2>1 DEF Closed
    <2>3. v.money["eth"][u] = k - d
      BY <1>4, <1>8, <1>10, <2>1 DEF EthLess
    <2>4. Repaid(rich, t, value) = v
      BY <1>13 DEF Repaid, v
    <2>5. Freed(v, t)
      <3>1. (IF t = "punk" THEN v.punk ELSE v.holder[t]) = loan[t].borrower
        BY <1>13, <2>2
      <3>2. v.money["eth"][loan[t].borrower] = money["eth"][loan[t].borrower] + MaxDebt + 1 - loan[t].debt
        BY <1>3, <1>5, <2>3 DEF k
      <3>3. v.ok /\ v.loan[t] = NoLoan
        BY <2>2
      <3> QED BY ONLY <3>1, <3>2, <3>3, Zenon DEF Freed
    <2> QED BY <2>4, <2>5
  <1>14. Freed(Repaid(rich, t, value), t)
    <2> HIDE DEF u, d
    <2> QED BY ONLY <1>12, <1>13
  <1> QED BY <1>14 DEF value, rich

LEMMA RepaymentsFollow ==
  ASSUME GatewaysKeepNothing, PledgesInPool
  PROVE  RepayAlwaysWorks
PROOF
  <1> SUFFICES ASSUME NEW t \in Tokens,
                      loan[t].state = "active" /\ loan[t].coin = "weth", NEW more \in {0, 1}
               PROVE  LET u == loan[t].borrower
                          d == loan[t].debt
                          rich == [Now EXCEPT !.money["eth"][u] = @ + MaxDebt + 1]
                          w == IF t = "punk"
                               THEN punkBatchRepayETH(rich, u, <<d + more>>, d + more)
                               ELSE repayETH(rich, u, [t |-> t, n |-> d + more], d + more)
                      IN  /\ w.ok
                          /\ w.loan[t] = NoLoan
                          /\ (IF t = "punk" THEN w.punk ELSE w.holder[t]) = u
                          /\ w.money["eth"][u] = money["eth"][u] + MaxDebt + 1 - d
    BY DEF RepayAlwaysWorks
  <1> DEFINE w == Repaid(Rich(loan[t].borrower), t, loan[t].debt + more)
  <1>1. Freed(w, t)
    BY RepaidIsFreed
  <1> HIDE DEF w
  <1>2. /\ w.ok /\ w.loan[t] = NoLoan
        /\ (IF t = "punk" THEN w.punk ELSE w.holder[t]) = loan[t].borrower
        /\ w.money["eth"][loan[t].borrower]
             = money["eth"][loan[t].borrower] + MaxDebt + 1 - loan[t].debt
    BY <1>1 DEF Freed
  <1> QED BY <1>2 DEF w, Repaid, Rich

LEMMA InitPledges == Init => PledgesInPool
PROOF
  BY DEF Init, PledgesInPool, NoLoan

\* However the gateways and the pool are used, a borrower of WETH who has the money
\* closes his loan through a gateway, sending what he owes or more: the gateway
\* takes the debt and no more, and he has his token, or the punk itself.
THEOREM RepaymentsGoThrough == Spec => []RepayAlwaysWorks
PROOF
  <1> DEFINE P == GatewaysKeepNothing /\ PledgesInPool
  <1>1. Init => P
    BY InitKeeps, InitPledges
  <1>2. P /\ [Next]_vars => P'
    <2>1. CASE UNCHANGED vars
      BY <2>1, IdleNow DEF vars, PledgesInPool
    <2>2. CASE Next
      BY <2>2, StepKeeps DEF Kept
    <2> QED BY <2>1, <2>2
  <1>3. P => RepayAlwaysWorks
    BY RepaymentsFollow
  <1> QED BY <1>1, <1>2, <1>3, PTL DEF Spec

\* No call of another makes a user pay, owe or pledge anything.
THEOREM CallersActForThemselves == Spec => NobodyActsForAnother
PROOF
  <1>1. GatewaysKeepNothing /\ [Next]_vars => [Unharmed]_vars
    BY StepKeeps DEF Kept
  <1>2. Spec => [][Unharmed]_vars
    BY <1>1, GatewaysAreEmpty, PTL DEF Spec
  <1> QED BY <1>2 DEF NobodyActsForAnother, Unharmed
=============================================================================
