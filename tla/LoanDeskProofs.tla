--------------------------- MODULE LoanDeskProofs ---------------------------
(***************************************************************************)
(* Two results about the page.                                             *)
(*                                                                         *)
(* The quote a borrow is checked against.  The wizard compares the amount  *)
(* with whatever quote it shows, which may be another collection's; the    *)
(* proof follows the handler instead: a flow that has passed readPoolQuote *)
(* carries an amount within the quote of its own collection until it is    *)
(* signed, and only such a flow ever sends a borrow.                       *)
(*                                                                         *)
(* The list of tracked positions against the loans on the chain.  A borrow *)
(* in flight is known to the handler that waits for it; the proof follows  *)
(* it from there into the list, through the filter and the cut of          *)
(* savePosition.                                                           *)
(***************************************************************************)
EXTENDS LoanDesk, SequenceTheorems, FiniteSetTheorems, TLAPS

FlowSet == [kind : Kinds \cup {"idle"},
            pc : {"idle", "owner", "quote", "approval", "debt", "allowance",
                  "assert", "sign", "wait"},
            op : Ops, from : Accounts \cup {None}, coll : Collections \cup {None},
            amount : Nat, tx : 0..MaxTxs]
TxSet == [op : Ops, from : Accounts, coll : Collections \cup {None}, amount : Nat,
          status : {"pending", "ok", "reverted"}, lost : BOOLEAN]
FormSet == [coll : Collections \cup {None}, token : BOOLEAN,
            amount : Amounts \cup {0}, max : Nat,
            maxOf : Collections \cup {None}, step : 1..3]
PositionSet == [coll : Collections, tx : 1..MaxTxs]
MessageSet == [said : Accounts \cup {None}, paid : Accounts \cup {None}]
ChainSet == [owner : [Collections -> Accounts \cup {Pool}],
             approved : SUBSET Collections,
             borrower : [Collections -> Accounts \cup {None}],
             debt : [Collections -> Nat],
             allowance : [Accounts -> Nat]]

-----------------------------------------------------------------------------
(***************************************************************************)
(* The inductive invariant.                                                *)
(***************************************************************************)
Quoted(x) == x.amount <= Quote[x.coll]

\* What holds of one flow, whatever the others do
GoodFlow(flow) ==
    /\ flow \in FlowSet
    /\ flow.op = "borrow" => flow.kind = "borrow" /\ flow.pc \in {"assert", "sign", "wait"}
    /\ flow.op \in {"approve721", "repay"} => flow.kind \in {"borrow", "repay"}
    /\ flow.kind \in {"terms", "borrow", "repay"} => flow.coll \in Collections
    /\ flow.tx # 0 <=> flow.pc = "wait"
    /\ flow.pc = "allowance" => flow.kind \in {"repay", "supply"}
    /\ flow.pc \in {"owner", "quote"} => flow.kind \in {"terms", "borrow"}
    /\ flow.pc \in {"approval", "assert", "sign", "wait"} =>
           \/ flow.kind \in {"repay", "supply"}
           \/ flow.kind = "borrow" /\ Quoted(flow)
    /\ flow.pc \in {"allowance", "assert", "sign", "wait"} => flow.from \in Accounts

GoodTx(tx) ==
    /\ tx \in TxSet
    /\ tx.op = "borrow" => Quoted(tx)
    /\ tx.op \in {"approve721", "borrow", "repay"} => tx.coll \in Collections

Desk ==
    /\ me \in Accounts \cup {None} /\ active \in Accounts
    /\ form \in FormSet
    /\ asks \subseteq Collections
    /\ flows \in [Flows -> FlowSet] /\ \A f \in Flows : GoodFlow(flows[f])
    /\ txs \in Seq(TxSet) /\ \A i \in DOMAIN txs : GoodTx(txs[i])

\* The parts that most steps leave alone
Outside == /\ me \in Accounts \cup {None} /\ active \in Accounts
              /\ form \in FormSet /\ asks \subseteq Collections
              /\ txs \in Seq(TxSet) /\ \A i \in DOMAIN txs : GoodTx(txs[i])

LEMMA IdleIsGood ==
    GoodFlow(Idle)
    BY DeskAssumption DEF GoodFlow, Idle, FlowSet, Ops

LEMMA InitDesk ==
    ASSUME Init
    PROVE  Desk
<1>1. me \in Accounts \cup {None} /\ active \in Accounts /\ asks \subseteq Collections
    BY DEF Init
<1>2. form \in FormSet
    BY DEF Init, NewForm, FormSet
<1>4. flows \in [Flows -> FlowSet] /\ \A f \in Flows : GoodFlow(flows[f])
    BY IdleIsGood DEF Init, GoodFlow
<1>5. txs \in Seq(TxSet) /\ \A i \in DOMAIN txs : GoodTx(txs[i])
    BY DEF Init
<1> QED
    BY <1>1, <1>2, <1>4, <1>5 DEF Desk

-----------------------------------------------------------------------------
(***************************************************************************)
(* One flow at a time.                                                     *)
(***************************************************************************)

\* Replacing one flow by a good one
LEMMA GoKeeps ==
    ASSUME Desk, NEW f \in Flows, NEW flow, Go(f, flow), GoodFlow(flow), Outside'
    PROVE  Desk'
<1>1. flows' = [flows EXCEPT ![f] = flow]
    BY DEF Go
<1>2. flow \in FlowSet
    BY DEF GoodFlow
<1>3. flows' \in [Flows -> FlowSet]
    BY <1>1, <1>2 DEF Desk
<1>4. ASSUME NEW g \in Flows
      PROVE  GoodFlow(flows[g])' 
  <2>1. flows'[g] = IF g = f THEN flow ELSE flows[g]
      BY <1>1 DEF Desk
  <2>2. GoodFlow(flows'[g])
      BY <2>1 DEF Desk
  <2> QED
      BY <2>2 DEF GoodFlow, Quoted, FlowSet, Ops
<1> QED
    BY <1>3, <1>4 DEF Desk, Outside

LEMMA FinishKeeps ==
    ASSUME Desk, NEW f \in Flows, Finish(f), Outside'
    PROVE  Desk'
    BY IdleIsGood, GoKeeps DEF Finish

\* The page's own variables, the wallet and the chain untouched
LEMMA OutsideStays ==
    ASSUME Desk, UNCHANGED <<pageVars, outside>>
    PROVE  Outside'
    BY DEF Desk, Outside, pageVars, outside, GoodTx, Quoted, TxSet, FormSet, Ops

\* sendTx starts a transaction: a borrow, if a borrow was quoted
LEMMA SendKeeps ==
    ASSUME Desk, NEW f \in Flows, NEW op \in Ops, sendTx(f, flows[f], op),
           UNCHANGED <<pageVars, outside>>,
           \/ /\ flows[f].kind \in {"repay", "supply"} /\ op # "borrow"
              /\ flows[f].kind = "supply" => op \notin {"approve721", "repay"}
           \/ flows[f].kind = "borrow" /\ Quoted(flows[f])
    PROVE  Desk'
<1>1. Outside'
    BY OutsideStays
<1>2. CASE me = None
    BY <1>1, <1>2, FinishKeeps DEF sendTx
<1>3. CASE me # None
  <2> DEFINE flow == [flows[f] EXCEPT !.pc = "assert", !.op = op, !.from = me, !.tx = 0]
  <2>1. Go(f, flow)
      BY <1>3 DEF sendTx
  <2>2. flows[f] \in FlowSet /\ GoodFlow(flows[f]) /\ me \in Accounts
      BY <1>3 DEF Desk
  <2>3. flow \in FlowSet
    <3> DEFINE old == flows[f]
    <3>1. old \in FlowSet
        BY <2>2
    <3> HIDE DEF old
    <3>2. 0 \in 0..MaxTxs
        BY DeskAssumption
    <3>3. [old EXCEPT !.pc = "assert", !.op = op, !.from = me, !.tx = 0] \in FlowSet
        BY <2>2, <3>1, <3>2 DEF FlowSet
    <3> QED
        BY <3>3 DEF old
  <2>4. /\ flow.pc = "assert" /\ flow.op = op /\ flow.from = me
        /\ flow.kind = flows[f].kind /\ flow.coll = flows[f].coll
        /\ flow.amount = flows[f].amount /\ flow.tx = 0
      BY <2>2 DEF FlowSet
  <2> HIDE DEF flow
  <2>5. GoodFlow(flow)
      BY <2>2, <2>3, <2>4 DEF GoodFlow, Quoted
  <2> QED
      BY <1>1, <2>1, <2>5, GoKeeps
<1> QED
    BY <1>2, <1>3

-----------------------------------------------------------------------------
(***************************************************************************)
(* The wizard and the clicks.                                              *)
(***************************************************************************)
LEMMA ShownForm ==
    ASSUME Desk, NEW c \in Collections, NEW max \in {0, Quote[c]}
    PROVE  Shown(c, max) \in FormSet
<1>1. max \in Nat
    BY DeskAssumption
<1> QED
    BY <1>1 DEF Desk, FormSet, Shown

\* A step that leaves the flows and the transactions alone
LEMMA PageOnly ==
    ASSUME Desk, form' \in FormSet, asks' \subseteq Collections,
           UNCHANGED <<flows, outside>>
    PROVE  Desk'
    BY DEF Desk, outside, GoodFlow, FlowSet, GoodTx, Quoted, TxSet, FormSet, Ops

LEMMA WizardStep ==
    ASSUME Desk,
           \/ \E c \in Collections : selectCollection(c) \/ refreshPoolQuote(c)
           \/ \E c \in Collections \cup {None} : customCollection(c)
           \/ readBorrowDraft \/ toConfirm \/ wizardBack
    PROVE  Desk'
<1>0. form \in FormSet /\ asks \subseteq Collections
    BY DEF Desk
<1>1. ASSUME NEW c \in Collections, selectCollection(c)
      PROVE  Desk'
  <2>1. form' \in FormSet /\ asks' \subseteq Collections
      BY <1>0, <1>1 DEF selectCollection, NewForm, FormSet
  <2> QED
      BY <1>1, <2>1, PageOnly DEF selectCollection
<1>2. ASSUME NEW c \in Collections, refreshPoolQuote(c)
      PROVE  Desk'
  <2>1. form' \in FormSet /\ asks' \subseteq Collections
      BY <1>0, <1>2, ShownForm DEF refreshPoolQuote
  <2> QED
      BY <1>2, <2>1, PageOnly DEF refreshPoolQuote
<1>3. ASSUME NEW c \in Collections \cup {None}, customCollection(c)
      PROVE  Desk'
  <2>1. form' \in FormSet /\ asks' \subseteq Collections
      BY <1>0, <1>3 DEF customCollection, FormSet
  <2> QED
      BY <1>3, <2>1, PageOnly DEF customCollection
<1>4. CASE readBorrowDraft
  <2>1. form' \in FormSet
      BY <1>0, <1>4, DeskAssumption DEF readBorrowDraft, FormSet
  <2> QED
      BY <1>0, <1>4, <2>1, PageOnly DEF readBorrowDraft
<1>5. CASE toConfirm
  <2>1. form' \in FormSet
      BY <1>0, <1>5 DEF toConfirm, FormSet
  <2> QED
      BY <1>0, <1>5, <2>1, PageOnly DEF toConfirm
<1>6. CASE wizardBack
  <2>1. form' \in FormSet
      BY <1>0, <1>6 DEF wizardBack, FormSet
  <2> QED
      BY <1>0, <1>6, <2>1, PageOnly DEF wizardBack
<1> QED
    BY <1>1, <1>2, <1>3, <1>4, <1>5, <1>6

LEMMA ClickKeeps ==
    ASSUME Desk, NEW f \in Flows,
           NEW kind, NEW pc, NEW c \in Collections \cup {None}, NEW n \in Nat,
           Click(f, kind, pc, c, n),
           \/ pc = "owner" /\ kind \in {"terms", "borrow"} /\ c \in Collections
           \/ pc = "debt" /\ kind = "repay" /\ c \in Collections
           \/ pc = "allowance" /\ kind = "supply"
    PROVE  Desk'
<1> DEFINE flow == [Idle EXCEPT !.kind = kind, !.pc = pc, !.from = me, !.coll = c,
                                !.amount = n]
<1>1. Go(f, flow) /\ kind \in Kinds /\ me # None
    BY DEF Click
<1>2. me \in Accounts
    BY <1>1 DEF Desk
<1>3. /\ flow \in FlowSet
      /\ flow.kind = kind /\ flow.pc = pc /\ flow.op = "none" /\ flow.from = me
      /\ flow.coll = c /\ flow.tx = 0
  <2> DEFINE old == Idle
  <2>1. old \in FlowSet /\ old.op = "none" /\ old.tx = 0
      BY IdleIsGood DEF GoodFlow, Idle
  <2> HIDE DEF old
  <2> DEFINE new == [old EXCEPT !.kind = kind, !.pc = pc, !.from = me, !.coll = c,
                                !.amount = n]
  <2>2. new \in FlowSet
      BY <1>1, <1>2, <2>1 DEF FlowSet
  <2>3. /\ new.kind = kind /\ new.pc = pc /\ new.op = "none" /\ new.from = me
        /\ new.coll = c /\ new.tx = 0
      BY <2>1 DEF FlowSet
  <2> QED
      BY <2>2, <2>3 DEF old
<1> HIDE DEF flow
<1>4. GoodFlow(flow)
    BY <1>1, <1>2, <1>3 DEF GoodFlow
<1>5. Outside'
    BY OutsideStays DEF Click
<1> QED
    BY <1>1, <1>4, <1>5, GoKeeps

LEMMA ClicksStep ==
    ASSUME Desk, positions \in Seq(PositionSet), NEW f \in Flows,
           borrowToTerms(f) \/ borrowConfirm(f) \/ repayClick(f) \/ supplySubmit(f)
    PROVE  Desk'
<1>1. form \in FormSet
    BY DEF Desk
<1>2. CASE borrowToTerms(f)
  <2>1. form.coll \in Collections
      BY <1>1, <1>2 DEF borrowToTerms, FormSet
  <2> QED
      BY <1>2, <2>1, ClickKeeps DEF borrowToTerms
<1>3. CASE borrowConfirm(f)
  <2>1. form.amount \in Amounts \cup {0} /\ form.coll \in Collections
      BY <1>1, <1>3 DEF borrowConfirm, FormSet
  <2>2. Amounts \cup {0} \subseteq Nat
      BY ONLY DeskAssumption
  <2>3. form.amount \in Nat
      BY ONLY <2>1, <2>2
  <2> QED
      BY <1>3, <2>1, <2>3, ClickKeeps DEF borrowConfirm
<1>4. CASE repayClick(f)
  <2>1. PICK i \in DOMAIN positions : Click(f, "repay", "debt", positions[i].coll, 0)
      BY <1>4 DEF repayClick
  <2>2. positions[i] \in PositionSet
      OBVIOUS
  <2>3. positions[i].coll \in Collections
      BY <2>2 DEF PositionSet
  <2> QED
      BY <2>1, <2>3, ClickKeeps
<1>5. CASE supplySubmit(f)
  <2>1. PICK n \in Amounts : Click(f, "supply", "allowance", None, n)
      BY <1>5 DEF supplySubmit
  <2>2. n \in Nat
      BY DeskAssumption
  <2> QED
      BY <2>1, <2>2, ClickKeeps
<1> QED
    BY <1>2, <1>3, <1>4, <1>5

-----------------------------------------------------------------------------
(***************************************************************************)
(* The reads that precede a transaction.                                   *)
(***************************************************************************)

\* A flow goes on to its next read.
LEMMA AdvanceKeeps ==
    ASSUME Desk, NEW f \in Flows,
           NEW pc \in {"quote", "approval", "sign"},
           Go(f, [flows[f] EXCEPT !.pc = pc]), UNCHANGED <<pageVars, outside>>,
           flows[f].kind \in {"terms", "borrow"} \/ pc = "sign",
           pc # "sign" => flows[f].op # "borrow",
           pc = "approval" => flows[f].kind = "borrow" /\ Quoted(flows[f]),
           pc = "sign" => flows[f].pc = "assert", flows[f].pc # "wait"
    PROVE  Desk'
<1> DEFINE old == flows[f]
           new == [old EXCEPT !.pc = pc]
<1>1. old \in FlowSet /\ GoodFlow(old)
    BY DEF Desk
<1> HIDE DEF old
<1>2. /\ new \in FlowSet
      /\ new.pc = pc /\ new.kind = old.kind /\ new.op = old.op /\ new.from = old.from
      /\ new.coll = old.coll /\ new.amount = old.amount /\ new.tx = old.tx
    BY <1>1 DEF FlowSet
<1> HIDE DEF new
<1>3. GoodFlow(new)
    BY <1>1, <1>2 DEF GoodFlow, Quoted, old
<1>4. Outside'
    BY OutsideStays
<1>5. Go(f, new)
    BY DEF new, old
<1> QED
    BY <1>3, <1>4, <1>5, GoKeeps

LEMMA OwnerStep ==
    ASSUME Desk, NEW f \in Flows, assertOwnsNft(f)
    PROVE  Desk'
<1>1. flows[f].pc = "owner" /\ GoodFlow(flows[f]) /\ UNCHANGED <<pageVars, outside>>
    BY DEF assertOwnsNft, Desk
<1>2. CASE Go(f, [flows[f] EXCEPT !.pc = "quote"])
  <2>1. flows[f].kind \in {"terms", "borrow"} /\ flows[f].op # "borrow"
      BY <1>1 DEF GoodFlow
  <2> QED
      BY <1>1, <1>2, <2>1, AdvanceKeeps
<1>3. CASE Finish(f)
    BY <1>1, <1>3, OutsideStays, FinishKeeps
<1> QED
    BY <1>2, <1>3 DEF assertOwnsNft

LEMMA TermsStep ==
    ASSUME Desk, NEW f \in Flows, termsQuoted(f)
    PROVE  Desk'
<1> DEFINE c == flows[f].coll
<1>1. At(f, "terms", "quote") /\ Finish(f) /\ UNCHANGED <<asks, positions, message, outside>>
    BY DEF termsQuoted
<1>2. c \in Collections
    BY <1>1 DEF At, Desk, GoodFlow
<1>3. PICK max \in {0, Quote[c]} :
          form' = [Shown(c, max) EXCEPT !.step = IF max > 0 THEN 2 ELSE @]
    BY DEF termsQuoted
<1>4. Shown(c, max) \in FormSet
    BY <1>2, ShownForm
<1>5. form' \in FormSet
    BY <1>3, <1>4 DEF FormSet
<1>6. Outside'
    BY <1>1, <1>5 DEF Desk, Outside, outside, GoodTx, Quoted, TxSet, FormSet, Ops
<1> QED
    BY <1>1, <1>6, FinishKeeps

LEMMA QuoteStep ==
    ASSUME Desk, NEW f \in Flows, readPoolQuote(f)
    PROVE  Desk'
<1>1. At(f, "borrow", "quote") /\ GoodFlow(flows[f]) /\ UNCHANGED <<pageVars, outside>>
    BY DEF readPoolQuote, Desk
<1>2. CASE Quoted(flows[f]) /\ Go(f, [flows[f] EXCEPT !.pc = "approval"])
  <2>1. flows[f].kind = "borrow" /\ flows[f].op # "borrow" /\ flows[f].pc = "quote"
      BY <1>1 DEF At, GoodFlow
  <2> QED
      BY <1>1, <1>2, <2>1, AdvanceKeeps
<1>3. CASE Finish(f)
    BY <1>1, <1>3, OutsideStays, FinishKeeps
<1> QED
    BY <1>2, <1>3 DEF readPoolQuote, Quoted

LEMMA ApprovalStep ==
    ASSUME Desk, NEW f \in Flows, ensureNftApproved(f)
    PROVE  Desk'
<1>1. At(f, "borrow", "approval") /\ GoodFlow(flows[f]) /\ UNCHANGED <<pageVars, outside>>
    BY DEF ensureNftApproved, Desk
<1>2. flows[f].kind = "borrow" /\ Quoted(flows[f])
    BY <1>1 DEF At, GoodFlow
<1>3. \E op \in Ops : sendTx(f, flows[f], op)
    BY DEF ensureNftApproved, Ops
<1> QED
    BY <1>1, <1>2, <1>3, SendKeeps

LEMMA DebtStep ==
    ASSUME Desk, chain \in ChainSet, NEW f \in Flows, readDebt(f)
    PROVE  Desk'
<1> DEFINE old == flows[f]
           debt == chain.debt[old.coll]
           new == [old EXCEPT !.pc = "allowance", !.from = me, !.amount = debt]
<1>1. /\ old.kind = "repay" /\ old.pc = "debt" /\ GoodFlow(old) /\ old \in FlowSet
      /\ UNCHANGED <<pageVars, outside>>
    BY DEF readDebt, At, Desk
<1>2. debt \in Nat
    BY <1>1 DEF GoodFlow, ChainSet
<1>3. Outside'
    BY <1>1, OutsideStays
<1>4. CASE Finish(f)
    BY <1>3, <1>4, FinishKeeps
<1>5. CASE me # None /\ Go(f, new)
  <2>1. me \in Accounts
      BY <1>5 DEF Desk
  <2> HIDE DEF old, debt
  <2>2. /\ new \in FlowSet
        /\ new.pc = "allowance" /\ new.kind = old.kind /\ new.op = old.op /\ new.from = me
        /\ new.coll = old.coll /\ new.tx = old.tx
      BY <1>1, <1>2, <2>1 DEF FlowSet
  <2> HIDE DEF new
  <2>3. GoodFlow(new)
      BY <1>1, <2>1, <2>2 DEF GoodFlow
  <2> QED
      BY <1>3, <1>5, <2>3, GoKeeps
<1> QED
    BY <1>1, <1>4, <1>5 DEF readDebt

LEMMA AllowanceStep ==
    ASSUME Desk, NEW f \in Flows, ensureErc20Allowance(f)
    PROVE  Desk'
<1>1. /\ flows[f].pc = "allowance" /\ GoodFlow(flows[f])
      /\ UNCHANGED <<pageVars, outside>>
    BY DEF ensureErc20Allowance, Desk
<1>2. flows[f].kind \in {"repay", "supply"}
    BY <1>1 DEF GoodFlow
<1>3. \E op \in Ops : /\ op # "borrow" /\ sendTx(f, flows[f], op)
                      /\ flows[f].kind = "supply" => op \notin {"approve721", "repay"}
    BY <1>2 DEF ensureErc20Allowance, MainOp, Ops
<1> QED
    BY <1>1, <1>2, <1>3, SendKeeps

LEMMA AssertStep ==
    ASSUME Desk, NEW f \in Flows, assertActiveAccount(f)
    PROVE  Desk'
<1>1. flows[f].pc = "assert" /\ UNCHANGED <<pageVars, outside>>
    BY DEF assertActiveAccount
<1>2. CASE Go(f, [flows[f] EXCEPT !.pc = "sign"])
    BY <1>1, <1>2, AdvanceKeeps
<1>3. CASE Finish(f)
    BY <1>1, <1>3, OutsideStays, FinishKeeps
<1> QED
    BY <1>2, <1>3 DEF assertActiveAccount

-----------------------------------------------------------------------------
(***************************************************************************)
(* Transactions.                                                           *)
(***************************************************************************)

\* The wallet sends what the flow carries.
LEMMA WalletStep ==
    ASSUME Desk, NEW f \in Flows, walletCall(f)
    PROVE  Desk'
<1> DEFINE old == flows[f]
           tx == [op |-> old.op, from |-> old.from, coll |-> old.coll, amount |-> old.amount,
                  status |-> "pending", lost |-> FALSE]
           n == Len(txs) + 1
           new == [old EXCEPT !.pc = "wait", !.tx = n]
<1>1. /\ old.pc = "sign" /\ old \in FlowSet /\ GoodFlow(old)
      /\ txs \in Seq(TxSet) /\ n \in 0..MaxTxs /\ n # 0
    BY DeskAssumption DEF walletCall, Desk
<1>2. txs' = Append(txs, tx) /\ Go(f, new) /\ UNCHANGED <<pageVars, me, active, chain>>
    BY DEF walletCall
<1> HIDE DEF old, n
<1>3. /\ tx \in TxSet /\ (tx.op = "borrow" => Quoted(tx))
      /\ tx.op \in {"approve721", "borrow", "repay"} => tx.coll \in Collections
    BY <1>1 DEF TxSet, FlowSet, GoodFlow, Quoted
<1>4. /\ new \in FlowSet
      /\ new.pc = "wait" /\ new.kind = old.kind /\ new.op = old.op /\ new.from = old.from
      /\ new.coll = old.coll /\ new.amount = old.amount /\ new.tx = n
    BY <1>1 DEF FlowSet
<1> HIDE DEF tx, new
<1>5. GoodFlow(new)
    BY <1>1, <1>4 DEF GoodFlow, Quoted
<1>6. txs' \in Seq(TxSet) /\ \A i \in DOMAIN txs' : GoodTx(txs'[i])
  <2>1. txs' \in Seq(TxSet) /\ Len(txs') = Len(txs) + 1
      BY <1>1, <1>2, <1>3
  <2>2. ASSUME NEW i \in DOMAIN txs'
        PROVE  GoodTx(txs'[i])
    <3>1. txs'[i] = tx \/ (i \in DOMAIN txs /\ txs'[i] = txs[i])
        BY <1>1, <1>2, <1>3, <2>1
    <3> QED
        BY <1>3, <3>1 DEF GoodTx, Desk
  <2> QED
      BY <2>1, <2>2
<1>7. Outside'
    BY <1>2, <1>6 DEF Desk, Outside, pageVars, GoodTx, Quoted, TxSet, FormSet, Ops
<1> QED
    BY <1>2, <1>5, <1>7, GoKeeps DEF old

LEMMA ApprovedStep ==
    ASSUME Desk, NEW f \in Flows, approvalMined(f)
    PROVE  Desk'
<1>1. /\ flows[f].pc = "wait" /\ GoodFlow(flows[f])
      /\ UNCHANGED <<pageVars, outside>> /\ sendTx(f, flows[f], MainOp(flows[f]))
    BY DEF approvalMined, Receipt, Desk
<1>2. \/ /\ flows[f].kind \in {"repay", "supply"} /\ MainOp(flows[f]) # "borrow"
         /\ flows[f].kind = "supply" => MainOp(flows[f]) \notin {"approve721", "repay"}
      \/ flows[f].kind = "borrow" /\ Quoted(flows[f])
    BY <1>1 DEF GoodFlow, MainOp
<1>3. MainOp(flows[f]) \in Ops
    BY DEF MainOp, Ops
<1> QED
    BY <1>1, <1>2, <1>3, SendKeeps

LEMMA MinedStep ==
    ASSUME Desk, NEW f \in Flows, borrowMined(f) \/ reported(f)
    PROVE  Desk'
<1>1. CASE borrowMined(f)
  <2>1. form' \in FormSet
      BY <1>1 DEF borrowMined, Desk, FormSet
  <2>2. Outside'
      BY <1>1, <2>1 DEF borrowMined, Desk, Outside, outside, GoodTx, Quoted, TxSet, FormSet, Ops
  <2> QED
      BY <1>1, <2>2, FinishKeeps DEF borrowMined
<1>2. CASE reported(f)
    BY <1>2, OutsideStays, FinishKeeps DEF reported
<1> QED
    BY <1>1, <1>2

\* Marking transactions as lost, or as mined, changes neither amount nor
\* collection.
LEMMA MarkedTxs ==
    ASSUME Desk, DOMAIN txs' = DOMAIN txs, txs' = [i \in DOMAIN txs |-> txs'[i]],
           \A i \in DOMAIN txs :
              \/ txs'[i] = txs[i]
              \/ txs'[i] = [txs[i] EXCEPT !.lost = TRUE]
              \/ \E st \in {"ok", "reverted"} : txs'[i] = [txs[i] EXCEPT !.status = st]
    PROVE  txs' \in Seq(TxSet) /\ \A i \in DOMAIN txs' : GoodTx(txs'[i])
<1>1. txs \in Seq(TxSet) /\ DOMAIN txs = 1..Len(txs) /\ Len(txs) \in Nat
    BY DEF Desk
<1>2. ASSUME NEW i \in DOMAIN txs
      PROVE  GoodTx(txs'[i])
  <2> DEFINE old == txs[i]
             new == txs'[i]
  <2>1. GoodTx(old) /\ old \in TxSet
      BY DEF Desk, GoodTx
  <2>2. \/ new = old \/ new = [old EXCEPT !.lost = TRUE]
        \/ \E st \in {"ok", "reverted"} : new = [old EXCEPT !.status = st]
      OBVIOUS
  <2> HIDE DEF old, new
  <2>3. new \in TxSet /\ new.op = old.op /\ new.coll = old.coll /\ new.amount = old.amount
      BY <2>1, <2>2 DEF TxSet
  <2>4. GoodTx(new)
      BY <2>1, <2>3 DEF GoodTx, Quoted
  <2> QED
      BY <2>4 DEF new
<1>3. txs' \in Seq(TxSet)
  <2>1. \A i \in 1..Len(txs) : txs'[i] \in TxSet
      BY <1>1, <1>2 DEF GoodTx
  <2> QED
      BY <1>1, <2>1, IsASeq
<1> QED
    BY <1>2, <1>3

\* Transactions whose marks changed, and the page wound up or left alone
LEMMA MarkedKeeps ==
    ASSUME Desk,
           me' \in Accounts \cup {None}, active' \in Accounts,
           form' \in FormSet, asks' \subseteq Collections,
           \/ flows' = flows
           \/ \E f \in Flows : Finish(f)
           \/ flows' = [f \in Flows |-> Idle],
           DOMAIN txs' = DOMAIN txs, txs' = [i \in DOMAIN txs |-> txs'[i]],
           \A i \in DOMAIN txs :
              \/ txs'[i] = txs[i]
              \/ txs'[i] = [txs[i] EXCEPT !.lost = TRUE]
              \/ \E st \in {"ok", "reverted"} : txs'[i] = [txs[i] EXCEPT !.status = st]
    PROVE  Desk'
<1>1. txs' \in Seq(TxSet) /\ \A i \in DOMAIN txs' : GoodTx(txs'[i])
    BY MarkedTxs
<1>2. Outside'
    BY <1>1 DEF Outside, GoodTx, Quoted, TxSet, FormSet, Ops
<1>3. CASE flows' = flows
    BY <1>2, <1>3 DEF Desk, Outside, GoodFlow, Quoted, FlowSet, Ops
<1>4. CASE \E f \in Flows : Finish(f)
    BY <1>2, <1>4, FinishKeeps
<1>5. CASE flows' = [f \in Flows |-> Idle]
  <2>1. \A f \in Flows : GoodFlow(flows'[f])
      BY <1>5, IdleIsGood
  <2>2. flows' \in [Flows -> FlowSet]
      BY <1>5, IdleIsGood DEF GoodFlow
  <2> QED
      BY <1>2, <2>1, <2>2 DEF Desk, Outside, GoodFlow, Quoted, FlowSet, Ops
<1> QED
    BY <1>3, <1>4, <1>5

LEMMA ThrowsStep ==
    ASSUME Desk, NEW f \in Flows, throws(f)
    PROVE  Desk'
<1>1. /\ me' = me /\ active' = active /\ form' = form /\ asks' = asks /\ Finish(f)
      /\ txs' = [i \in DOMAIN txs |->
                   IF i = flows[f].tx THEN [txs[i] EXCEPT !.lost = TRUE] ELSE txs[i]]
    BY DEF throws, pageVars
<1>2. me' \in Accounts \cup {None} /\ active' \in Accounts
      /\ form' \in FormSet /\ asks' \subseteq Collections
    BY <1>1 DEF Desk
<1> QED
    BY <1>1, <1>2, MarkedKeeps

LEMMA ReloadStep ==
    ASSUME Desk, Reload
    PROVE  Desk'
<1>1. /\ me' = None /\ active' = active /\ form' = NewForm /\ asks' = {}
      /\ flows' = [f \in Flows |-> Idle]
      /\ txs' = [i \in DOMAIN txs |->
                   IF \E f \in Flows : flows[f].tx = i
                   THEN [txs[i] EXCEPT !.lost = TRUE] ELSE txs[i]]
    BY DEF Reload
<1>2. me' \in Accounts \cup {None} /\ active' \in Accounts
      /\ form' \in FormSet /\ asks' \subseteq Collections
    BY <1>1 DEF Desk, NewForm, FormSet
<1> QED
    BY <1>1, <1>2, MarkedKeeps

LEMMA MineStep ==
    ASSUME Desk, NEW i, Mine(i)
    PROVE  Desk'
<1>1. /\ me' = me /\ active' = active /\ form' = form /\ asks' = asks /\ flows' = flows
      /\ \E st \in {"ok", "reverted"} : txs' = [txs EXCEPT ![i].status = st]
    BY DEF Mine, pageVars
<1>2. me' \in Accounts \cup {None} /\ active' \in Accounts
      /\ form' \in FormSet /\ asks' \subseteq Collections
    BY <1>1 DEF Desk
<1>3. txs \in Seq(TxSet) /\ DOMAIN txs = 1..Len(txs) /\ Len(txs) \in Nat
    BY DEF Desk
<1>4. /\ DOMAIN txs' = DOMAIN txs /\ txs' = [j \in DOMAIN txs |-> txs'[j]]
      /\ \A j \in DOMAIN txs :
           \/ txs'[j] = txs[j]
           \/ \E st \in {"ok", "reverted"} : txs'[j] = [txs[j] EXCEPT !.status = st]
    BY <1>1, <1>3
<1> QED
    BY <1>1, <1>2, <1>4, MarkedKeeps

LEMMA SwitchStep ==
    ASSUME Desk, SwitchAccount
    PROVE  Desk'
<1>1. active' \in Accounts /\ me' \in Accounts \cup {None}
    BY DEF SwitchAccount, Desk
<1>2. form' = form /\ asks' = asks /\ txs' = txs /\ flows' = flows
    BY DEF SwitchAccount, pageVars
<1> QED
    BY <1>1, <1>2 DEF Desk, GoodFlow, FlowSet, GoodTx, Quoted, TxSet, FormSet, Ops

LEMMA StillStep ==
    ASSUME Desk,
           (\E c \in Collections : Accrue(c)) \/ UNCHANGED vars
    PROVE  Desk'
<1>1. me' = me /\ active' = active /\ form' = form /\ asks' = asks /\ txs' = txs
      /\ flows' = flows
    BY DEF Accrue, pageVars, vars
<1> QED
    BY <1>1 DEF Desk, GoodFlow, FlowSet, GoodTx, Quoted, TxSet, FormSet, Ops

-----------------------------------------------------------------------------
(***************************************************************************)
(* The specification.                                                      *)
(***************************************************************************)
LEMMA DeskStep ==
    ASSUME Desk, positions \in Seq(PositionSet), chain \in ChainSet, [Next]_vars
    PROVE  Desk'
<1>1. ASSUME NEW f \in Flows,
             \/ borrowToTerms(f) \/ borrowConfirm(f) \/ repayClick(f) \/ supplySubmit(f)
             \/ Proceed(f) \/ walletCall(f)
      PROVE  Desk'
    BY <1>1, ClicksStep, OwnerStep, TermsStep, QuoteStep, ApprovalStep, DebtStep,
       AllowanceStep, AssertStep, WalletStep, ApprovedStep, MinedStep, ThrowsStep
       DEF Proceed
<1>2. CASE \/ \E c \in Collections : selectCollection(c) \/ refreshPoolQuote(c)
           \/ \E c \in Collections \cup {None} : customCollection(c)
           \/ readBorrowDraft \/ toConfirm \/ wizardBack
    BY <1>2, WizardStep
<1>3. CASE \/ \E i \in 1..MaxTxs : Mine(i)
           \/ SwitchAccount \/ Reload
           \/ (\E c \in Collections : Accrue(c)) \/ UNCHANGED vars
    BY <1>3, MineStep, SwitchStep, ReloadStep, StillStep
<1> QED
    BY <1>1, <1>2, <1>3 DEF Next

-----------------------------------------------------------------------------
(***************************************************************************)
(* savePosition: a filter, an unshift and a slice.                         *)
(***************************************************************************)

\* In a finite set of numbers, each number has its own rank: how many are less.
LEMMA Ranks ==
    ASSUME NEW K, K \subseteq Nat, IsFiniteSet(K)
    PROVE  \E rank \in Bijection(K, 0..(Cardinality(K) - 1)) :
              \A i \in K : rank[i] = Cardinality({j \in K : j < i})
<1> DEFINE Below(i) == {j \in K : j < i}
           n == Cardinality(K)
           rank == [i \in K |-> Cardinality(Below(i))]
<1>0. n \in Nat /\ IsFiniteSet(0..(n - 1)) /\ Cardinality(0..(n - 1)) = n
  <2>1. n \in Nat
      BY FS_CardinalityType
  <2>2. IsFiniteSet(0..(n - 1)) /\ Cardinality(0..(n - 1)) = IF 0 > n - 1 THEN 0 ELSE (n - 1) - 0 + 1
      BY <2>1, FS_Interval
  <2> HIDE DEF n
  <2> QED
      BY <2>1, <2>2
<1>1. ASSUME NEW i \in K
      PROVE  /\ IsFiniteSet(Below(i)) /\ Cardinality(Below(i)) \in Nat
             /\ Cardinality(Below(i)) < n
  <2>1. Below(i) \subseteq K /\ i \in K /\ i \notin Below(i)
      BY DEF Below
  <2> HIDE DEF Below
  <2>2. IsFiniteSet(Below(i)) /\ Cardinality(Below(i)) <= n /\ (n = Cardinality(Below(i)) => K = Below(i))
      BY <2>1, FS_Subset
  <2>3. Cardinality(Below(i)) \in Nat
      BY <2>2, FS_CardinalityType
  <2> HIDE DEF n
  <2> QED
      BY <1>0, <2>1, <2>2, <2>3
<1>2. ASSUME NEW i \in K, NEW j \in K, i < j
      PROVE  Cardinality(Below(i)) < Cardinality(Below(j))
  <2>1. Below(i) \subseteq Below(j) /\ i \in Below(j) /\ i \notin Below(i)
    <3>1. \A l \in K : l < i => l < j
        BY ONLY <1>2, K \subseteq Nat, i \in K, j \in K
    <3>2. ~(i < i)
        BY ONLY K \subseteq Nat, i \in K
    <3> QED
        BY ONLY <1>2, <3>1, <3>2, i \in K, j \in K DEF Below
  <2>2. IsFiniteSet(Below(j)) /\ Cardinality(Below(i)) \in Nat /\ Cardinality(Below(j)) \in Nat
      BY <1>1
  <2> HIDE DEF Below
  <2>3. /\ Cardinality(Below(i)) <= Cardinality(Below(j))
        /\ Cardinality(Below(j)) = Cardinality(Below(i)) => Below(j) = Below(i)
      BY <2>1, <2>2, FS_Subset
  <2> QED
      BY <2>1, <2>2, <2>3
<1>3. \A i \in K : Cardinality(Below(i)) \in 0..(n - 1)
  <2> HIDE DEF Below, n
  <2> QED
      BY <1>0, <1>1
<1>4. \A i, j \in K : Cardinality(Below(i)) = Cardinality(Below(j)) => i = j
  <2> SUFFICES ASSUME NEW i \in K, NEW j \in K, i # j
               PROVE  Cardinality(Below(i)) # Cardinality(Below(j))
      OBVIOUS
  <2>1. i < j \/ j < i
      OBVIOUS
  <2>2. Cardinality(Below(i)) \in Nat /\ Cardinality(Below(j)) \in Nat
      BY <1>1
  <2>3. Cardinality(Below(i)) < Cardinality(Below(j)) \/ Cardinality(Below(j)) < Cardinality(Below(i))
      BY <1>2, <2>1
  <2> HIDE DEF Below
  <2> QED
      BY <2>2, <2>3
<1> HIDE DEF Below, n
<1>5. rank \in Injection(K, 0..(n - 1))
    BY <1>3, <1>4 DEF Injection, IsInjective
<1> HIDE DEF rank
<1>6. rank \in Surjection(K, 0..(n - 1))
    BY <1>0, <1>5, FS_Injection DEF n
<1>7. rank \in Bijection(K, 0..(n - 1))
    BY <1>5, <1>6 DEF Bijection
<1> QED
    BY <1>7 DEF rank, n, Below

Kept(c) == {i \in DOMAIN positions : positions[i].coll # c}

\* What the filter keeps: each position of another NFT, once.
LEMMA OtherPositionsKept ==
    ASSUME NEW P, positions \in Seq(P), NEW c
    PROVE  /\ IsFiniteSet(Kept(c)) /\ Cardinality(Kept(c)) \in Nat
           /\ \E old \in Bijection(1..Cardinality(Kept(c)), Kept(c)) :
                 OtherPositions(c) = [k \in 1..Cardinality(Kept(c)) |-> positions[old[k]]]
<1> DEFINE K == Kept(c)
           n == Cardinality(K)
<1>1. IsFiniteSet(K) /\ K \subseteq Nat /\ K \subseteq DOMAIN positions /\ n \in Nat
  <2>1. K \subseteq 1..Len(positions) /\ Len(positions) \in Nat
      BY DEF Kept
  <2>2. IsFiniteSet(1..Len(positions))
      BY <2>1, FS_Interval
  <2>3. IsFiniteSet(K)
      BY <2>1, <2>2, FS_Subset
  <2> QED
      BY <2>1, <2>3, FS_CardinalityType
<1> DEFINE Below(i) == {j \in K : j < i}
<1>2. OtherPositions(c) =
        [k \in 1..n |-> positions[CHOOSE i \in K : Cardinality(Below(i)) = k - 1]]
    BY Zenon DEF OtherPositions, Kept
<1> HIDE DEF K
<1>3. PICK rank \in Bijection(K, 0..(n - 1)) : \A i \in K : rank[i] = Cardinality(Below(i))
    BY <1>1, Ranks
<1> HIDE DEF n, Below
<1> DEFINE old == [k \in 1..n |-> CHOOSE i \in K : Cardinality(Below(i)) = k - 1]
<1>4. ASSUME NEW k \in 1..n
      PROVE  old[k] \in K /\ rank[old[k]] = k - 1
  <2>1. k - 1 \in 0..(n - 1)
      BY <1>1
  <2>2. \E i \in K : rank[i] = k - 1
      BY <1>3, <2>1 DEF Bijection, Surjection
  <2>3. \E i \in K : Cardinality(Below(i)) = k - 1
      BY <1>3, <2>2
  <2>4. old[k] \in K /\ Cardinality(Below(old[k])) = k - 1
      BY <2>3
  <2> QED
      BY <1>3, <2>4
<1>5. \A i \in K : rank[i] \in 0..(n - 1) /\ rank[i] + 1 \in 1..n /\ old[rank[i] + 1] = i
  <2> SUFFICES ASSUME NEW i \in K
               PROVE  rank[i] \in 0..(n - 1) /\ rank[i] + 1 \in 1..n /\ old[rank[i] + 1] = i
      OBVIOUS
  <2>1. rank[i] \in 0..(n - 1)
      BY <1>3 DEF Bijection, Injection
  <2>2. rank[i] + 1 \in 1..n
      BY <1>1, <2>1
  <2>3. old[rank[i] + 1] \in K /\ rank[old[rank[i] + 1]] = (rank[i] + 1) - 1
      BY <1>4, <2>2
  <2> HIDE DEF old
  <2>4. rank[old[rank[i] + 1]] = rank[i]
      BY <2>1, <2>3
  <2>5. old[rank[i] + 1] = i
      BY <1>3, <2>3, <2>4 DEF Bijection, Injection, IsInjective
  <2> QED
      BY <2>1, <2>2, <2>5
<1>6. old \in Injection(1..n, K)
  <2>1. old \in [1..n -> K]
      BY <1>4
  <2>2. \A k, l \in 1..n : old[k] = old[l] => k = l
    <3> HIDE DEF old
    <3>1. \A k \in 1..n : k - 1 = rank[old[k]]
        BY <1>4
    <3>2. \A k, l \in 1..n : k - 1 = l - 1 => k = l
        BY <1>1
    <3> QED
        BY <3>1, <3>2
  <2> HIDE DEF old
  <2> QED
      BY <2>1, <2>2 DEF Injection, IsInjective
<1> DEFINE others == [k \in 1..n |-> positions[old[k]]]
<1>8. OtherPositions(c) = others
    BY <1>2
<1> HIDE DEF old
<1>7. old \in Surjection(1..n, K)
    BY <1>5, <1>6 DEF Surjection, Injection
<1>9. old \in Bijection(1..n, K)
    BY <1>6, <1>7 DEF Bijection
<1> QED
    BY <1>1, <1>8, <1>9 DEF n, K
Once == \A p, q \in DOMAIN positions : positions[p].coll = positions[q].coll => p = q

\* With one position per NFT the filter leaves room for the new one.
LEMMA OthersFit ==
    ASSUME positions \in Seq(PositionSet), Once, NEW c \in Collections,
           IsFiniteSet(Collections)
    PROVE  Cardinality(Kept(c)) < Cardinality(Collections)
<1> DEFINE others == Collections \ {c}
           nft == [p \in Kept(c) |-> positions[p].coll]
<1>1. /\ IsFiniteSet(others) /\ Cardinality(others) = Cardinality(Collections) - 1
      /\ Cardinality(Collections) \in Nat
    BY FS_RemoveElement, FS_CardinalityType
<1>2. \A p \in DOMAIN positions : positions[p].coll \in Collections
  <2>1. \A p \in DOMAIN positions : positions[p] \in PositionSet
      OBVIOUS
  <2> QED
      BY <2>1 DEF PositionSet
<1>3. nft \in Injection(Kept(c), others)
  <2>1. nft \in [Kept(c) -> others]
      BY <1>2 DEF Kept
  <2>2. \A p, q \in Kept(c) : nft[p] = nft[q] => p = q
      BY DEF Kept, Once
  <2> HIDE DEF nft, others
  <2> QED
      BY <2>1, <2>2 DEF Injection, IsInjective
<1> HIDE DEF nft, others
<1>4. Cardinality(Kept(c)) <= Cardinality(others)
    BY <1>1, <1>3, FS_Injection
<1>5. Cardinality(Kept(c)) \in Nat
    BY OtherPositionsKept
<1> QED
    BY <1>1, <1>4, <1>5

\* The new position, then the kept ones
Front(c, i) == <<[coll |-> c, tx |-> i]>> \o OtherPositions(c)

Shifted(c, i, old, n) ==
    /\ Front(c, i) \in Seq(PositionSet) /\ Len(Front(c, i)) = n + 1
    /\ Front(c, i)[1] = [coll |-> c, tx |-> i]
    /\ \A k \in 2..(n + 1) : /\ k - 1 \in 1..n /\ old[k - 1] \in Kept(c)
                             /\ Front(c, i)[k] = positions[old[k - 1]]

LEMMA PutInFront ==
    ASSUME positions \in Seq(PositionSet), NEW c \in Collections, NEW i \in 1..MaxTxs
    PROVE  \E old \in Bijection(1..Cardinality(Kept(c)), Kept(c)) :
              Shifted(c, i, old, Cardinality(Kept(c)))
<1>0. PICK old \in Bijection(1..Cardinality(Kept(c)), Kept(c)) :
          OtherPositions(c) = [k \in 1..Cardinality(Kept(c)) |-> positions[old[k]]]
    BY OtherPositionsKept
<1> DEFINE n == Cardinality(Kept(c))
           others == OtherPositions(c)
           all == Front(c, i)
           new == <<[coll |-> c, tx |-> i]>>
<1>1. n \in Nat
    BY OtherPositionsKept
<1>2. \A k \in 1..n : old[k] \in Kept(c) /\ old[k] \in DOMAIN positions
    BY DEF Bijection, Injection, Kept
<1>3. \A k \in 1..n : positions[old[k]] \in PositionSet
    BY <1>2
<1> HIDE DEF n
<1>4. others = [k \in 1..n |-> positions[old[k]]]
    BY <1>0 DEF n
<1> HIDE DEF others, all
<1>5. others \in Seq(PositionSet) /\ Len(others) = n
    BY <1>1, <1>3, <1>4
<1>6. new \in Seq(PositionSet) /\ Len(new) = 1 /\ new[1] = [coll |-> c, tx |-> i]
    BY DEF PositionSet
<1> HIDE DEF new
<1>7. all = new \o others
    BY DEF new, others, all, Front
<1>8. /\ all \in Seq(PositionSet) /\ Len(all) = 1 + n
      /\ \A k \in 1..(1 + n) : all[k] = IF k <= 1 THEN new[k] ELSE others[k - 1]
  <2>1. /\ all \in Seq(PositionSet) /\ Len(all) = Len(new) + Len(others)
        /\ \A k \in 1..(Len(new) + Len(others)) :
              all[k] = IF k <= Len(new) THEN new[k] ELSE others[k - Len(new)]
      BY ONLY <1>5, <1>6, <1>7, ConcatProperties
  <2> QED
      BY ONLY <1>5, <1>6, <2>1
<1>9. all[1] = [coll |-> c, tx |-> i]
    BY <1>1, <1>6, <1>8
<1>10. ASSUME NEW k \in 2..(n + 1)
       PROVE  k - 1 \in 1..n /\ old[k - 1] \in Kept(c) /\ all[k] = positions[old[k - 1]]
  <2>1. k - 1 \in 1..n /\ k \in 1..(1 + n) /\ ~(k <= 1)
      BY <1>1
  <2>2. all[k] = others[k - 1]
      BY <1>8, <2>1
  <2> QED
      BY <1>2, <1>4, <2>1, <2>2
<1>11. Shifted(c, i, old, n)
    BY <1>1, <1>8, <1>9, <1>10 DEF all, Shifted
<1> QED
    BY <1>11 DEF n

\* The list stays a list of positions, wherever it is cut.
LEMMA SavedAreTyped ==
    ASSUME positions \in Seq(PositionSet), NEW c \in Collections, NEW i \in 1..MaxTxs
    PROVE  savePosition(c, i) \in Seq(PositionSet)
<1> DEFINE all == Front(c, i)
           m == IF Len(all) < MaxPositions THEN Len(all) ELSE MaxPositions
<1>2. all \in Seq(PositionSet)
    BY PutInFront DEF Shifted
<1>3. savePosition(c, i) = SubSeq(all, 1, m)
    BY DEF savePosition, Front
<1> HIDE DEF all
<1>4. m \in Nat /\ m <= Len(all)
    BY <1>2, DeskAssumption
<1> HIDE DEF m
<1>5. \A k \in 1..m : all[k] \in PositionSet
    BY <1>2, <1>4
<1>6. SubSeq(all, 1, m) \in Seq(PositionSet)
    BY <1>4, <1>5, SubSeqProperties
<1> QED
    BY <1>3, <1>6

\* With room for every NFT nothing is cut: the new position, the kept ones and
\* no others, each once.
LEMMA SavedPositions ==
    ASSUME positions \in Seq(PositionSet), Once, NEW c \in Collections,
           NEW i \in 1..MaxTxs, NEW ps, ps = savePosition(c, i),
           IsFiniteSet(Collections), Cardinality(Collections) <= MaxPositions
    PROVE  /\ \A p \in DOMAIN ps :
                 \/ ps[p] = [coll |-> c, tx |-> i]
                 \/ \E q \in DOMAIN positions : ps[p] = positions[q]
           /\ \E p \in DOMAIN ps : ps[p].coll = c
           /\ \A q \in DOMAIN positions :
                 \E p \in DOMAIN ps : ps[p].coll = positions[q].coll
           /\ \A p, q \in DOMAIN ps : ps[p].coll = ps[q].coll => p = q
<1> DEFINE n == Cardinality(Kept(c))
           new == [coll |-> c, tx |-> i]
           all == Front(c, i)
<1>1. PICK old \in Bijection(1..n, Kept(c)) : Shifted(c, i, old, n)
    BY PutInFront
<1>2. /\ all \in Seq(PositionSet) /\ Len(all) = n + 1
      /\ all[1] = new
      /\ \A k \in 2..(n + 1) :
            k - 1 \in 1..n /\ old[k - 1] \in Kept(c) /\ all[k] = positions[old[k - 1]]
    BY <1>1 DEF Shifted
<1>3. n \in Nat /\ n < Cardinality(Collections) /\ Cardinality(Collections) \in Nat
    BY OtherPositionsKept, OthersFit, FS_CardinalityType
<1>4. ps = all
  <2>1. ps = SubSeq(all, 1, IF Len(all) < MaxPositions THEN Len(all) ELSE MaxPositions)
      BY DEF savePosition, Front
  <2> HIDE DEF all, n
  <2>2. ps = SubSeq(all, 1, Len(all))
      BY <1>2, <1>3, <2>1, DeskAssumption
  <2> QED
      BY <1>2, <2>2, SubSeqFull
<1>5. DOMAIN ps = 1..(n + 1)
    BY <1>2, <1>4
<1>6. ps[1] = new /\ new.coll = c
    BY <1>2, <1>4
<1>7. \A k \in 2..(n + 1) :
          k - 1 \in 1..n /\ old[k - 1] \in Kept(c) /\ ps[k] = positions[old[k - 1]]
    BY <1>2, <1>4
<1>8. \A q \in Kept(c) : q \in DOMAIN positions /\ positions[q].coll # c
    BY DEF Kept
<1>9. \A q \in DOMAIN positions : q \in Kept(c) \/ positions[q].coll = c
    BY DEF Kept
<1>10. \A q \in Kept(c) : \E k \in 1..n : old[k] = q
    BY DEF Bijection, Surjection
<1>11. \A k, l \in 1..n : old[k] = old[l] => k = l
    BY DEF Bijection, Injection, IsInjective
<1> HIDE DEF n, new, all
<1>12. \A p \in DOMAIN ps : p = 1 \/ p \in 2..(n + 1)
    BY <1>3, <1>5
<1>13. \A p \in DOMAIN ps : ps[p] = new \/ \E q \in DOMAIN positions : ps[p] = positions[q]
    BY <1>6, <1>7, <1>8, <1>12
<1>14. 1 \in DOMAIN ps
    BY <1>3, <1>5
<1>15. ASSUME NEW q \in DOMAIN positions
       PROVE  \E p \in DOMAIN ps : ps[p].coll = positions[q].coll
  <2>1. CASE positions[q].coll = c
      BY <1>6, <1>14, <2>1
  <2>2. CASE q \in Kept(c)
    <3>1. PICK k \in 1..n : old[k] = q
        BY <1>10, <2>2
    <3>2. k + 1 \in 2..(n + 1) /\ k + 1 \in DOMAIN ps /\ (k + 1) - 1 = k
        BY <1>3, <1>5
    <3>3. ps[k + 1] = positions[q]
        BY <1>7, <3>1, <3>2
    <3> QED
        BY <3>2, <3>3
  <2> QED
      BY <1>9, <2>1, <2>2
<1>16. ASSUME NEW p \in DOMAIN ps, NEW q \in DOMAIN ps, ps[p].coll = ps[q].coll
       PROVE  p = q
  <2>1. CASE p = 1 \/ q = 1
    <3>1. \A k \in 2..(n + 1) : ps[k].coll # c
        BY <1>7, <1>8
    <3> QED
        BY <1>6, <1>12, <1>16, <2>1, <3>1
  <2>2. CASE p \in 2..(n + 1) /\ q \in 2..(n + 1)
    <3>1. /\ p - 1 \in 1..n /\ old[p - 1] \in Kept(c) /\ ps[p] = positions[old[p - 1]]
          /\ q - 1 \in 1..n /\ old[q - 1] \in Kept(c) /\ ps[q] = positions[old[q - 1]]
        BY <1>7, <2>2
    <3>2. old[p - 1] = old[q - 1]
        BY <1>8, <1>16, <3>1 DEF Once
    <3>3. p - 1 = q - 1
        BY <1>11, <3>1, <3>2
    <3> QED
        BY <1>3, <2>2, <3>3
  <2> QED
      BY <1>12, <2>1, <2>2
<1> QED
    BY <1>6, <1>13, <1>14, <1>15, <1>16 DEF new

-----------------------------------------------------------------------------
(***************************************************************************)
(* The types of the rest: what the page stored, said and reads.            *)
(***************************************************************************)
Store ==
    /\ positions \in Seq(PositionSet)
    /\ message \in MessageSet
    /\ chain \in ChainSet
    /\ reloads \in 0..MaxReloads

\* A mined transaction leaves a chain of the same shape.
LEMMA EffectTyped ==
    ASSUME chain \in ChainSet, NEW tx, GoodTx(tx)
    PROVE  Effect(tx) \in ChainSet
<1> DEFINE c == tx.coll
           a == tx.from
           room == IF chain.borrower[c] = None
                   THEN chain.owner[c] = a /\ c \in chain.approved
                   ELSE chain.borrower[c] = a
           left == chain.debt[c] - tx.amount
<1>1. /\ a \in Accounts /\ tx.amount \in Nat
      /\ tx.op \in {"approve721", "borrow", "repay"} => c \in Collections
    BY DEF GoodTx, TxSet
<1>2. /\ chain.owner \in [Collections -> Accounts \cup {Pool}]
      /\ chain.approved \subseteq Collections
      /\ chain.borrower \in [Collections -> Accounts \cup {None}]
      /\ chain.debt \in [Collections -> Nat]
      /\ chain.allowance \in [Accounts -> Nat]
    BY DEF ChainSet
<1>3. ASSUME c \in Collections
      PROVE  [chain EXCEPT !.approved = @ \cup {c}] \in ChainSet
    BY <1>3 DEF ChainSet
<1> DEFINE owner(x) == [chain.owner EXCEPT ![c] = x]
           borrower(x) == [chain.borrower EXCEPT ![c] = x]
           debt(n) == [chain.debt EXCEPT ![c] = n]
           allowance(n) == [chain.allowance EXCEPT ![a] = n]
<1>4. /\ \A x \in Accounts \cup {Pool} : owner(x) \in [Collections -> Accounts \cup {Pool}]
      /\ \A x \in Accounts \cup {None} :
            borrower(x) \in [Collections -> Accounts \cup {None}]
      /\ \A n \in Nat : debt(n) \in [Collections -> Nat] /\ allowance(n) \in [Accounts -> Nat]
    BY <1>2
<1>5. [chain EXCEPT !.allowance[a] = tx.amount] \in ChainSet
    BY <1>1 DEF ChainSet
<1>6. ASSUME chain.allowance[a] >= tx.amount
      PROVE  [chain EXCEPT !.allowance[a] = @ - tx.amount] \in ChainSet
    BY <1>1, <1>6 DEF ChainSet
<1>7. ASSUME c \in Collections
      PROVE  [chain EXCEPT !.owner[c] = Pool, !.borrower[c] = a,
                           !.approved = @ \ {c}, !.debt[c] = @ + tx.amount] \in ChainSet
  <2> DEFINE sum == chain.debt[c] + tx.amount
             o == owner(Pool)
             b == borrower(a)
             d == debt(sum)
  <2>1. sum \in Nat
      BY <1>1, <1>2, <1>7
  <2> HIDE DEF sum
  <2>2. /\ o \in [Collections -> Accounts \cup {Pool}] /\ d \in [Collections -> Nat]
        /\ b \in [Collections -> Accounts \cup {None}]
      BY <1>1, <1>4, <2>1
  <2> HIDE DEF o, b, d
  <2>3. [chain EXCEPT !.owner = o, !.borrower = b, !.approved = @ \ {c}, !.debt = d]
            \in ChainSet
      BY <2>2 DEF ChainSet
  <2> QED
      BY <2>3 DEF o, b, d, sum
<1>8. ASSUME c \in Collections, chain.allowance[a] >= tx.amount, left > 0
      PROVE  [chain EXCEPT !.allowance[a] = @ - tx.amount, !.debt[c] = left] \in ChainSet
  <2> DEFINE rest == chain.allowance[a] - tx.amount
             l == allowance(rest)
             d == debt(left)
  <2>1. left \in Nat /\ rest \in Nat
      BY <1>1, <1>2, <1>8
  <2> HIDE DEF left, rest
  <2>2. d \in [Collections -> Nat] /\ l \in [Accounts -> Nat]
      BY <1>4, <2>1
  <2> HIDE DEF l, d
  <2>3. [chain EXCEPT !.allowance = l, !.debt = d] \in ChainSet
      BY <2>2 DEF ChainSet
  <2> QED
      BY <2>3 DEF l, d, rest
<1>9. ASSUME c \in Collections, chain.borrower[c] # None,
             chain.allowance[a] >= chain.debt[c]
      PROVE  [chain EXCEPT !.allowance[a] = @ - chain.debt[c], !.debt[c] = 0,
                           !.owner[c] = chain.borrower[c], !.borrower[c] = None]
                \in ChainSet
  <2> DEFINE rest == chain.allowance[a] - chain.debt[c]
             l == allowance(rest)
             d == debt(0)
             o == owner(chain.borrower[c])
             b == borrower(None)
  <2>1. rest \in Nat /\ chain.borrower[c] \in Accounts
      BY <1>1, <1>2, <1>9
  <2> HIDE DEF rest
  <2>2. /\ d \in [Collections -> Nat] /\ l \in [Accounts -> Nat]
        /\ b \in [Collections -> Accounts \cup {None}]
        /\ o \in [Collections -> Accounts \cup {Pool}]
      BY <1>2, <1>4, <1>9, <2>1
  <2> HIDE DEF l, d, o, b
  <2>3. [chain EXCEPT !.allowance = l, !.debt = d, !.owner = o, !.borrower = b] \in ChainSet
      BY <2>2 DEF ChainSet
  <2> QED
      BY <2>3 DEF l, d, o, b, rest
<1> QED
    BY <1>1, <1>3, <1>5, <1>6, <1>7, <1>8, <1>9 DEF Effect

LEMMA InitStore ==
    ASSUME Init
    PROVE  Store
<1>1. positions \in Seq(PositionSet) /\ message \in MessageSet /\ reloads \in 0..MaxReloads
    BY DeskAssumption DEF Init, NoMessage, MessageSet
<1>2. chain \in ChainSet
    BY DEF Init, ChainSet
<1> QED
    BY <1>1, <1>2 DEF Store

\* The step that tracks a position names an NFT and a transaction.
LEMMA Confirmed ==
    ASSUME Desk, NEW f \in Flows, Receipt(f, "ok"), flows[f].op = "borrow"
    PROVE  /\ flows[f].coll \in Collections /\ flows[f].tx \in 1..MaxTxs
           /\ flows[f].from \in Accounts /\ flows[f].tx # 0
<1>1. GoodFlow(flows[f]) /\ flows[f].pc = "wait"
    BY DEF Desk, Receipt
<1>2. flows[f].tx \in 0..MaxTxs /\ flows[f].tx # 0
    BY <1>1 DEF GoodFlow, FlowSet
<1> QED
    BY <1>1, <1>2, DeskAssumption DEF GoodFlow

LEMMA StoreStep ==
    ASSUME Desk, Store, [Next]_vars
    PROVE  Store'
<1>1. CASE UNCHANGED <<positions, message, chain, reloads>>
    BY <1>1 DEF Store, PositionSet, MessageSet, ChainSet
<1>2. ASSUME NEW f \in Flows, borrowMined(f)
      PROVE  Store'
  <2>1. positions' = savePosition(flows[f].coll, flows[f].tx)
      BY <1>2 DEF borrowMined
  <2>2. positions' \in Seq(PositionSet)
      BY <1>2, <2>1, Confirmed, SavedAreTyped DEF borrowMined, Store
  <2>3. message' \in MessageSet
      BY <1>2, Confirmed DEF borrowMined, MessageSet, Desk
  <2>4. chain' = chain /\ reloads' = reloads
      BY <1>2 DEF borrowMined, outside
  <2> QED
      BY <2>2, <2>3, <2>4 DEF Store, PositionSet, MessageSet, ChainSet
<1>3. ASSUME NEW i, Mine(i)
      PROVE  Store'
  <2>1. chain' \in ChainSet
    <3>1. GoodTx(txs[i]) /\ chain' = Effect(txs[i])
        BY <1>3 DEF Mine, Desk
    <3> QED
        BY <3>1, EffectTyped DEF Store
  <2> QED
      BY <1>3, <2>1 DEF Store, Mine, pageVars, PositionSet, MessageSet, ChainSet
<1>4. ASSUME NEW c \in Collections, Accrue(c)
      PROVE  Store'
  <2>1. chain' \in ChainSet
    <3> DEFINE d == [chain.debt EXCEPT ![c] = @ + 1]
    <3>1. chain \in ChainSet /\ chain.debt \in [Collections -> Nat]
        BY DEF Store, ChainSet
    <3>2. d \in [Collections -> Nat]
        BY <3>1
    <3>3. chain' = [chain EXCEPT !.debt = d]
        BY <1>4 DEF Accrue
    <3> HIDE DEF d
    <3> QED
        BY <3>1, <3>2, <3>3 DEF ChainSet
  <2> QED
      BY <1>4, <2>1 DEF Store, Accrue, pageVars, PositionSet, MessageSet, ChainSet
<1>5. CASE Reload
  <2>1. reloads' \in 0..MaxReloads /\ message' \in MessageSet
      BY <1>5, DeskAssumption DEF Reload, Store, NoMessage, MessageSet
  <2> QED
      BY <1>5, <2>1 DEF Store, Reload, PositionSet, MessageSet, ChainSet
<1>6. ASSUME \/ \E c \in Collections : selectCollection(c) \/ refreshPoolQuote(c)
             \/ \E c \in Collections \cup {None} : customCollection(c)
             \/ readBorrowDraft \/ toConfirm \/ wizardBack
             \/ SwitchAccount \/ UNCHANGED vars
      PROVE  UNCHANGED <<positions, message, chain, reloads>>
    BY <1>6 DEF selectCollection, refreshPoolQuote, customCollection, readBorrowDraft,
       toConfirm, wizardBack, SwitchAccount, vars, outside, pageVars
<1>7. ASSUME NEW f \in Flows,
             \/ borrowToTerms(f) \/ borrowConfirm(f) \/ repayClick(f) \/ supplySubmit(f)
             \/ walletCall(f) \/ assertOwnsNft(f) \/ termsQuoted(f) \/ readPoolQuote(f)
             \/ ensureNftApproved(f) \/ readDebt(f) \/ ensureErc20Allowance(f)
             \/ assertActiveAccount(f) \/ approvalMined(f) \/ reported(f) \/ throws(f)
      PROVE  UNCHANGED <<positions, message, chain, reloads>>
    BY <1>7 DEF borrowToTerms, borrowConfirm, repayClick, supplySubmit, Click, walletCall,
       assertOwnsNft, termsQuoted, readPoolQuote, ensureNftApproved, readDebt,
       ensureErc20Allowance, assertActiveAccount, approvalMined, reported, throws,
       outside, pageVars
<1> QED
    BY <1>1, <1>2, <1>3, <1>4, <1>5, <1>6, <1>7 DEF Next, Proceed

LEMMA TypesInvariant == Spec => [](Desk /\ Store)
<1>1. Init => Desk /\ Store
    BY InitDesk, InitStore
<1>2. Desk /\ Store /\ [Next]_vars => (Desk /\ Store)'
    BY DeskStep, StoreStep DEF Store
<1> QED
    BY <1>1, <1>2, PTL DEF Spec

\* borrow-confirm never sends a borrow above the quote of its own collection,
\* whatever the wizard showed and checked the amount against.
THEOREM BorrowsStayWithinQuote == Spec => []SubmittedWithinQuote
<1>1. Desk => SubmittedWithinQuote
    BY DEF Desk, GoodTx, Quoted, SubmittedWithinQuote
<1> QED
    BY <1>1, TypesInvariant, PTL

-----------------------------------------------------------------------------
(***************************************************************************)
(* Positions and loans.  A handler that waits knows its transaction, and a *)
(* borrow that has not failed is in the hands of its handler until it is   *)
(* tracked: also while it is pending, for it may be mined at any time.     *)
(***************************************************************************)
Awaited ==
    \A f \in Flows : flows[f].tx # 0 =>
        /\ flows[f].tx \in DOMAIN txs
        /\ txs[flows[f].tx].op = flows[f].op /\ txs[flows[f].tx].coll = flows[f].coll

Named ==
    \A p \in DOMAIN positions :
        LET i == positions[p].tx
        IN  /\ i \in DOMAIN txs /\ txs[i].op = "borrow"
            /\ txs[i].coll = positions[p].coll /\ txs[i].status = "ok"

Live(i) == txs[i].op = "borrow" /\ txs[i].status # "reverted" /\ ~txs[i].lost

Followed ==
    \A i \in DOMAIN txs : Live(i) =>
        \/ \E f \in Flows : flows[f].tx = i
        \/ \E p \in DOMAIN positions : positions[p].coll = txs[i].coll

Ledger == Awaited /\ Named /\ Once /\ Followed

LEMMA InitLedger ==
    ASSUME Init
    PROVE  Ledger
    BY DEF Init, Idle, Ledger, Awaited, Named, Once, Followed

\* A handler that has no transaction, or is done with one that is no live borrow
LEMMA FlowMoves ==
    ASSUME Desk, Ledger, NEW f \in Flows, NEW flow, Go(f, flow), flow.tx = 0,
           UNCHANGED <<txs, positions>>,
           flows[f].tx = 0 \/ ~Live(flows[f].tx)
    PROVE  Ledger'
<1>1. \A g \in Flows : flows'[g] = IF g = f THEN flow ELSE flows[g]
    BY DEF Go, Desk
<1>2. Awaited'
    BY <1>1 DEF Ledger, Awaited
<1>3. Named' /\ Once'
    BY DEF Ledger, Named, Once
<1>4. Followed'
  <2> SUFFICES ASSUME NEW i \in DOMAIN txs, Live(i)
               PROVE  \/ \E g \in Flows : flows'[g].tx = i
                      \/ \E p \in DOMAIN positions : positions[p].coll = txs[i].coll
      BY DEF Followed, Live
  <2>1. CASE \E p \in DOMAIN positions : positions[p].coll = txs[i].coll
      BY <2>1
  <2>2. CASE \E g \in Flows : flows[g].tx = i
    <3>1. PICK g \in Flows : flows[g].tx = i
        BY <2>2
    <3>2. i # 0
        BY DEF Desk
    <3>3. g # f
        BY <3>1, <3>2
    <3> QED
        BY <1>1, <3>1, <3>3
  <2> QED
      BY <2>1, <2>2 DEF Ledger, Followed
<1> QED
    BY <1>2, <1>3, <1>4 DEF Ledger

LEMMA FlowEnds ==
    ASSUME Desk, Ledger, NEW f \in Flows, Finish(f), UNCHANGED <<txs, positions>>,
           flows[f].tx = 0 \/ ~Live(flows[f].tx)
    PROVE  Ledger'
    BY FlowMoves DEF Finish, Idle

LEMMA SendMoves ==
    ASSUME Desk, Ledger, NEW f \in Flows, NEW op, sendTx(f, flows[f], op),
           UNCHANGED <<txs, positions>>,
           flows[f].tx = 0 \/ ~Live(flows[f].tx)
    PROVE  Ledger'
<1>1. CASE Finish(f)
    BY <1>1, FlowEnds
<1>2. CASE me # None
  <2> DEFINE flow == [flows[f] EXCEPT !.pc = "assert", !.op = op, !.from = me, !.tx = 0]
  <2>1. Go(f, flow)
      BY <1>2 DEF sendTx
  <2>2. flow.tx = 0
    <3>1. flows[f] \in FlowSet
        BY DEF Desk
    <3> QED
        BY <3>1 DEF FlowSet
  <2> HIDE DEF flow
  <2> QED
      BY <2>1, <2>2, FlowMoves
<1> QED
    BY <1>1, <1>2 DEF sendTx

\* A handler not waiting has no transaction.
LEMMA NotWaiting ==
    ASSUME Desk, NEW f \in Flows, flows[f].pc # "wait"
    PROVE  /\ flows[f].tx = 0
           /\ \A pc : [flows[f] EXCEPT !.pc = pc].tx = 0
           /\ \A pc, a, n :
                 [flows[f] EXCEPT !.pc = pc, !.from = a, !.amount = n].tx = 0
<1>1. flows[f] \in FlowSet /\ flows[f].tx = 0
    BY DEF Desk, GoodFlow
<1> QED
    BY <1>1 DEF FlowSet

LEMMA ReadsKeepLedger ==
    ASSUME Desk, Ledger, NEW f \in Flows,
           \/ borrowToTerms(f) \/ borrowConfirm(f) \/ repayClick(f) \/ supplySubmit(f)
           \/ assertOwnsNft(f) \/ termsQuoted(f) \/ readPoolQuote(f) \/ ensureNftApproved(f)
           \/ readDebt(f) \/ ensureErc20Allowance(f) \/ assertActiveAccount(f)
    PROVE  Ledger'
<1>1. UNCHANGED <<txs, positions>>
    BY DEF borrowToTerms, borrowConfirm, repayClick, supplySubmit, Click, assertOwnsNft,
       termsQuoted, readPoolQuote, ensureNftApproved, readDebt, ensureErc20Allowance,
       assertActiveAccount, outside, pageVars
<1>2. CASE borrowToTerms(f) \/ borrowConfirm(f) \/ repayClick(f) \/ supplySubmit(f)
  <2>1. PICK kind, pc, c, n : Click(f, kind, pc, c, n)
      BY <1>2 DEF borrowToTerms, borrowConfirm, repayClick, supplySubmit
  <2> DEFINE flow == [Idle EXCEPT !.kind = kind, !.pc = pc, !.from = me, !.coll = c,
                                  !.amount = n]
  <2>2. Go(f, flow) /\ flows[f].tx = 0 /\ flow.tx = 0
      BY <2>1 DEF Click, Idle
  <2> HIDE DEF flow
  <2> QED
      BY <1>1, <2>2, FlowMoves
<1>3. CASE ensureNftApproved(f) \/ ensureErc20Allowance(f)
  <2>1. flows[f].tx = 0 /\ \E op : sendTx(f, flows[f], op)
      BY <1>3, NotWaiting DEF ensureNftApproved, ensureErc20Allowance, At
  <2> QED
      BY <1>1, <2>1, SendMoves
<1>4. CASE assertOwnsNft(f) \/ termsQuoted(f) \/ readPoolQuote(f) \/ readDebt(f)
           \/ assertActiveAccount(f)
  <2>1. flows[f].pc # "wait"
      BY <1>4 DEF assertOwnsNft, termsQuoted, readPoolQuote, readDebt, assertActiveAccount, At
  <2>2. flows[f].tx = 0
      BY <2>1, NotWaiting
  <2>3. CASE Finish(f)
      BY <1>1, <2>2, <2>3, FlowEnds
  <2>4. CASE \E pc : Go(f, [flows[f] EXCEPT !.pc = pc])
    <3>1. PICK flow : Go(f, flow) /\ flow.tx = 0
        BY <2>1, <2>4, NotWaiting
    <3> QED
        BY <1>1, <2>2, <3>1, FlowMoves
  <2>5. CASE \E pc, a, n :
                Go(f, [flows[f] EXCEPT !.pc = pc, !.from = a, !.amount = n])
    <3>1. PICK pc, a, n : Go(f, [flows[f] EXCEPT !.pc = pc, !.from = a, !.amount = n])
        BY <2>5
    <3> DEFINE flow == [flows[f] EXCEPT !.pc = pc, !.from = a, !.amount = n]
    <3>2. flow.tx = 0
        BY <2>1, NotWaiting
    <3>3. Go(f, flow)
        BY <3>1
    <3> HIDE DEF flow
    <3> QED
        BY <1>1, <2>2, <3>2, <3>3, FlowMoves
  <2> QED
      BY <1>4, <2>3, <2>4, <2>5
         DEF assertOwnsNft, termsQuoted, readPoolQuote, readDebt, assertActiveAccount
<1> QED
    BY <1>2, <1>3, <1>4

\* An approval, a repayment, a deposit and a failure leave no borrow behind.
LEMMA OtherReceipts ==
    ASSUME Desk, Ledger, NEW f \in Flows, approvalMined(f) \/ reported(f)
    PROVE  Ledger'
<1>1. UNCHANGED <<txs, positions>>
    BY DEF approvalMined, reported, outside, pageVars
<1>2. flows[f].tx # 0
    BY DEF approvalMined, reported, Receipt, Desk, GoodFlow
<1>3. ~Live(flows[f].tx)
    BY <1>2 DEF approvalMined, reported, Receipt, Ledger, Awaited, Live
<1>4. CASE approvalMined(f)
    BY <1>1, <1>3, <1>4, SendMoves DEF approvalMined
<1>5. CASE reported(f)
    BY <1>1, <1>3, <1>5, FlowEnds DEF reported
<1> QED
    BY <1>4, <1>5

\* The wallet sends: the handler takes the new transaction.
LEMMA WalletLedger ==
    ASSUME Desk, Store, Ledger, NEW f \in Flows, walletCall(f)
    PROVE  Ledger'
<1> DEFINE n == Len(txs) + 1
           tx == [op |-> flows[f].op, from |-> flows[f].from, coll |-> flows[f].coll,
                  amount |-> flows[f].amount, status |-> "pending", lost |-> FALSE]
           flow == [flows[f] EXCEPT !.pc = "wait", !.tx = n]
<1>1. /\ txs' = Append(txs, tx) /\ Go(f, flow) /\ positions' = positions
      /\ flows[f].pc = "sign"
    BY DEF walletCall, pageVars
<1>2. flow.tx = n /\ flow.op = flows[f].op /\ flow.coll = flows[f].coll
  <2>1. flows[f] \in FlowSet
      BY DEF Desk
  <2> HIDE DEF n
  <2> QED
      BY <2>1 DEF FlowSet
<1>3. tx.op = flow.op /\ tx.coll = flow.coll
    BY <1>2
<1>4. flows[f].tx = 0
    BY <1>1, NotWaiting
<1> HIDE DEF tx, flow
<1>5. /\ DOMAIN txs = 1..Len(txs) /\ Len(txs) \in Nat
      /\ DOMAIN txs' = 1..n /\ txs'[n] = tx
      /\ \A i \in DOMAIN txs : txs'[i] = txs[i]
    BY <1>1 DEF Desk
<1>6. \A g \in Flows : flows'[g] = IF g = f THEN flow ELSE flows[g]
    BY <1>1 DEF Go, Desk
<1>7. n \in DOMAIN txs' /\ DOMAIN txs \subseteq DOMAIN txs'
      /\ \A i \in DOMAIN txs' : i \in DOMAIN txs \/ i = n
    BY <1>5
<1> HIDE DEF n
<1>8. Awaited'
  <2> SUFFICES ASSUME NEW g \in Flows, flows'[g].tx # 0
               PROVE  /\ flows'[g].tx \in DOMAIN txs'
                      /\ txs'[flows'[g].tx].op = flows'[g].op
                      /\ txs'[flows'[g].tx].coll = flows'[g].coll
      BY DEF Awaited
  <2>1. CASE g = f
      BY <1>2, <1>3, <1>5, <1>6, <1>7, <2>1
  <2>2. CASE g # f
      BY <1>5, <1>6, <1>7, <2>2 DEF Ledger, Awaited
  <2> QED
      BY <2>1, <2>2
<1>9. Named' /\ Once'
  <2>1. Named
      BY DEF Ledger
  <2>2. Named'
      BY <1>1, <1>5, <1>7, <2>1 DEF Named
  <2> QED
      BY <1>1, <2>2 DEF Ledger, Once
<1>10. Followed'
  <2> SUFFICES ASSUME NEW i \in DOMAIN txs', Live(i)'
               PROVE  \/ \E g \in Flows : flows'[g].tx = i
                      \/ \E p \in DOMAIN positions : positions[p].coll = txs'[i].coll
      BY <1>1 DEF Followed
  <2>1. CASE i = n
      BY <1>2, <1>6, <2>1
  <2>2. CASE i \in DOMAIN txs
    <3>1. txs'[i] = txs[i] /\ Live(i) /\ i # 0
        BY <1>5, <2>2 DEF Live
    <3>2. \/ \E g \in Flows : flows[g].tx = i
          \/ \E p \in DOMAIN positions : positions[p].coll = txs[i].coll
        BY <2>2, <3>1 DEF Ledger, Followed
    <3>3. ASSUME NEW g \in Flows, flows[g].tx = i
          PROVE  flows'[g].tx = i
        BY <1>4, <1>6, <3>1, <3>3
    <3> QED
        BY <3>1, <3>2, <3>3
  <2> QED
      BY <1>7, <2>1, <2>2
<1> QED
    BY <1>8, <1>9, <1>10 DEF Ledger

\* The handler of a confirmed borrow hands it over to the list.
LEMMA BorrowLedger ==
    ASSUME Desk, Store, Ledger, NEW f \in Flows, borrowMined(f),
           IsFiniteSet(Collections), Cardinality(Collections) <= MaxPositions
    PROVE  Ledger'
<1> DEFINE c == flows[f].coll
           i == flows[f].tx
<1>1. /\ positions' = savePosition(c, i) /\ Finish(f) /\ txs' = txs
      /\ Receipt(f, "ok") /\ flows[f].op = "borrow"
    BY DEF borrowMined, outside
<1>2. c \in Collections /\ i \in 1..MaxTxs /\ i # 0
    BY <1>1, Confirmed
<1>3. /\ i \in DOMAIN txs /\ txs[i].op = "borrow" /\ txs[i].coll = c
      /\ txs[i].status = "ok"
    BY <1>1, <1>2 DEF Ledger, Awaited, Receipt
<1>4. \A g \in Flows : flows'[g] = IF g = f THEN Idle ELSE flows[g]
    BY <1>1 DEF Finish, Go, Desk
<1>5. Idle.tx = 0
    BY DEF Idle
<1> HIDE DEF c, i
<1>6. /\ \A p \in DOMAIN positions' :
            \/ positions'[p] = [coll |-> c, tx |-> i]
            \/ \E q \in DOMAIN positions : positions'[p] = positions[q]
      /\ \E p \in DOMAIN positions' : positions'[p].coll = c
      /\ \A q \in DOMAIN positions :
            \E p \in DOMAIN positions' : positions'[p].coll = positions[q].coll
      /\ \A p, q \in DOMAIN positions' : positions'[p].coll = positions'[q].coll => p = q
    BY <1>1, <1>2, SavedPositions DEF Store, Ledger
<1>7. Awaited'
    BY <1>1, <1>4, <1>5 DEF Ledger, Awaited
<1>8. Named'
  <2>1. ASSUME NEW p \in DOMAIN positions'
        PROVE  LET j == positions'[p].tx
               IN  /\ j \in DOMAIN txs /\ txs[j].op = "borrow"
                   /\ txs[j].coll = positions'[p].coll /\ txs[j].status = "ok"
    <3>1. CASE positions'[p] = [coll |-> c, tx |-> i]
        BY <1>3, <3>1
    <3>2. CASE \E q \in DOMAIN positions : positions'[p] = positions[q]
        BY <3>2 DEF Ledger, Named
    <3> QED
        BY <1>6, <3>1, <3>2
  <2> QED
      BY <1>1, <2>1 DEF Named
<1>9. Once'
    BY <1>6 DEF Once
<1>10. Followed'
  <2> SUFFICES ASSUME NEW j \in DOMAIN txs, Live(j)
               PROVE  \/ \E g \in Flows : flows'[g].tx = j
                      \/ \E p \in DOMAIN positions' : positions'[p].coll = txs[j].coll
      BY <1>1 DEF Followed, Live
  <2>1. CASE j = i
      BY <1>3, <1>6, <2>1
  <2>2. CASE \E p \in DOMAIN positions : positions[p].coll = txs[j].coll
    <3>1. PICK q \in DOMAIN positions : positions[q].coll = txs[j].coll
        BY <2>2
    <3>2. PICK p \in DOMAIN positions' : positions'[p].coll = positions[q].coll
        BY <1>6
    <3> QED
        BY <3>1, <3>2
  <2>3. CASE j # i /\ \E g \in Flows : flows[g].tx = j
      BY <1>4, <2>3 DEF i
  <2> QED
      BY <2>1, <2>2, <2>3 DEF Ledger, Followed
<1> QED
    BY <1>7, <1>8, <1>9, <1>10 DEF Ledger

\* Marks on transactions: a confirmation stays one, and a live borrow was live,
\* confirmed or not.  A handler that ends lets go only of what it marks as lost.
LEMMA MarksKeepLedger ==
    ASSUME Desk, Ledger, DOMAIN txs' = DOMAIN txs, positions' = positions,
           \A i \in DOMAIN txs :
              /\ txs'[i].op = txs[i].op /\ txs'[i].coll = txs[i].coll
              /\ txs[i].status = "ok" => txs'[i].status = "ok"
              /\ txs[i].status = "reverted" => txs'[i].status = "reverted"
              /\ txs[i].lost => txs'[i].lost,
           \A f \in Flows :
              \/ flows'[f] = flows[f]
              \/ /\ flows'[f].tx = 0
                 /\ \A i \in DOMAIN txs : flows[f].tx = i => txs'[i].lost
    PROVE  Ledger'
<1>1. Awaited'
    BY DEF Ledger, Awaited
<1>2. Named' /\ Once'
    BY DEF Ledger, Named, Once
<1>3. Followed'
  <2> SUFFICES ASSUME NEW i \in DOMAIN txs, Live(i)'
               PROVE  \/ \E g \in Flows : flows'[g].tx = i
                      \/ \E p \in DOMAIN positions : positions[p].coll = txs[i].coll
      BY DEF Followed
  <2>1. Live(i) /\ ~txs'[i].lost
      <3>1. txs[i].status # "reverted" /\ ~txs[i].lost /\ txs[i].op = "borrow"
          BY DEF Live
      <3> QED
          BY <3>1 DEF Live
  <2>2. ASSUME NEW g \in Flows, flows[g].tx = i
        PROVE  flows'[g].tx = i
      BY <2>1, <2>2
  <2> QED
      BY <2>1, <2>2 DEF Ledger, Followed
<1> QED
    BY <1>1, <1>2, <1>3 DEF Ledger

LEMMA ThrowsLedger ==
    ASSUME Desk, Ledger, NEW f \in Flows, throws(f)
    PROVE  Ledger'
<1>1. /\ positions' = positions /\ Finish(f)
      /\ txs' = [i \in DOMAIN txs |->
                   IF i = flows[f].tx THEN [txs[i] EXCEPT !.lost = TRUE] ELSE txs[i]]
    BY DEF throws, pageVars
<1>2. \A g \in Flows : flows'[g] = IF g = f THEN Idle ELSE flows[g]
    BY <1>1 DEF Finish, Go, Desk
<1>3. \A i \in DOMAIN txs : txs[i] \in TxSet
    BY DEF Desk, GoodTx
<1>4. \A i \in DOMAIN txs : txs'[i] =
          IF i = flows[f].tx THEN [txs[i] EXCEPT !.lost = TRUE] ELSE txs[i]
    BY <1>1
<1>5. \A i \in DOMAIN txs :
         /\ txs'[i].op = txs[i].op /\ txs'[i].coll = txs[i].coll
         /\ txs'[i].status = txs[i].status
         /\ txs[i].lost => txs'[i].lost
         /\ flows[f].tx = i => txs'[i].lost
    BY <1>3, <1>4 DEF TxSet
<1>6. DOMAIN txs' = DOMAIN txs /\ Idle.tx = 0
    BY <1>1 DEF Idle
<1> QED
    BY <1>1, <1>2, <1>5, <1>6, MarksKeepLedger

LEMMA ReloadLedger ==
    ASSUME Desk, Ledger, Reload
    PROVE  Ledger'
<1>1. /\ positions' = positions /\ flows' = [f \in Flows |-> Idle]
      /\ txs' = [i \in DOMAIN txs |->
                   IF \E f \in Flows : flows[f].tx = i
                   THEN [txs[i] EXCEPT !.lost = TRUE] ELSE txs[i]]
    BY DEF Reload
<1>3. \A i \in DOMAIN txs : txs[i] \in TxSet
    BY DEF Desk, GoodTx
<1>4. \A i \in DOMAIN txs : txs'[i] =
          IF \E f \in Flows : flows[f].tx = i
          THEN [txs[i] EXCEPT !.lost = TRUE] ELSE txs[i]
    BY <1>1
<1>5. \A i \in DOMAIN txs :
         /\ txs'[i].op = txs[i].op /\ txs'[i].coll = txs[i].coll
         /\ txs'[i].status = txs[i].status
         /\ txs[i].lost => txs'[i].lost
         /\ \A f \in Flows : flows[f].tx = i => txs'[i].lost
    BY <1>3, <1>4 DEF TxSet
<1>6. DOMAIN txs' = DOMAIN txs /\ \A f \in Flows : flows'[f].tx = 0
    BY <1>1 DEF Idle
<1> QED
    BY <1>1, <1>5, <1>6, MarksKeepLedger

LEMMA MineLedger ==
    ASSUME Desk, Ledger, NEW i, Mine(i)
    PROVE  Ledger'
<1>1. /\ positions' = positions /\ flows' = flows
      /\ i \in DOMAIN txs /\ txs[i].status = "pending"
    BY DEF Mine, pageVars
<1>2. PICK st \in {"ok", "reverted"} : txs' = [txs EXCEPT ![i].status = st]
    BY DEF Mine
<1>3. \A j \in DOMAIN txs : txs[j] \in TxSet
    BY DEF Desk, GoodTx
<1>4. /\ DOMAIN txs' = DOMAIN txs
      /\ \A j \in DOMAIN txs :
            txs'[j] = IF j = i THEN [txs[j] EXCEPT !.status = st] ELSE txs[j]
    BY <1>2 DEF Desk
<1>5. \A j \in DOMAIN txs :
         /\ txs'[j].op = txs[j].op /\ txs'[j].coll = txs[j].coll
         /\ txs[j].status = "ok" => txs'[j].status = "ok"
         /\ txs[j].status = "reverted" => txs'[j].status = "reverted"
         /\ txs[j].lost => txs'[j].lost
    BY <1>1, <1>3, <1>4 DEF TxSet
<1> QED
    BY <1>1, <1>4, <1>5, MarksKeepLedger

LEMMA LedgerStays ==
    ASSUME Ledger, UNCHANGED <<flows, txs, positions>>
    PROVE  Ledger'
    BY DEF Ledger, Awaited, Named, Once, Followed, Live

LEMMA LedgerStep ==
    ASSUME Desk, Store, Ledger, [Next]_vars,
           IsFiniteSet(Collections), Cardinality(Collections) <= MaxPositions
    PROVE  Ledger'
<1>1. ASSUME NEW f \in Flows,
             \/ borrowToTerms(f) \/ borrowConfirm(f) \/ repayClick(f) \/ supplySubmit(f)
             \/ Proceed(f) \/ walletCall(f)
      PROVE  Ledger'
    BY <1>1, ReadsKeepLedger, OtherReceipts, WalletLedger, BorrowLedger, ThrowsLedger
       DEF Proceed
<1>2. CASE (\E i \in 1..MaxTxs : Mine(i)) \/ Reload
    BY <1>2, MineLedger, ReloadLedger
<1>3. ASSUME \/ \E c \in Collections :
                   selectCollection(c) \/ refreshPoolQuote(c) \/ Accrue(c)
             \/ \E c \in Collections \cup {None} : customCollection(c)
             \/ readBorrowDraft \/ toConfirm \/ wizardBack
             \/ SwitchAccount \/ UNCHANGED vars
      PROVE  Ledger'
  <2>1. UNCHANGED <<flows, txs, positions>>
      BY <1>3 DEF selectCollection, refreshPoolQuote, Accrue, customCollection,
         readBorrowDraft, toConfirm, wizardBack, SwitchAccount, vars, outside, pageVars
  <2> QED
      BY <2>1, LedgerStays
<1> QED
    BY <1>1, <1>2, <1>3 DEF Next

LEMMA DeskTypes ==
    ASSUME Desk, Store
    PROVE  TypeOK
    BY DEF TypeOK, Desk, Store, FormSet, FlowSet, PositionSet, MessageSet, TxSet, ChainSet

\* The list of tracked positions and the loans on the chain agree for ever, as
\* long as the list has room for every collection: each position names the
\* confirmed borrow it came from, none is tracked twice, and a confirmed borrow is
\* tracked or with its handler, unless the handler gave up or the page reloaded.
THEOREM PositionsFollowLoans ==
    ASSUME IsFiniteSet(Collections), Cardinality(Collections) <= MaxPositions
    PROVE  Spec => []PositionsMatchLoans
<1>1. Init => Ledger
    BY InitLedger
<1>2. Desk /\ Store /\ Ledger /\ [Next]_vars => Ledger'
    BY LedgerStep
<1>3. Desk /\ Store /\ Ledger => PositionsMatchLoans
  <2> SUFFICES ASSUME Desk, Store, Ledger
               PROVE  PositionsMatchLoans
      OBVIOUS
  <2>1. TypeOK
      BY DeskTypes
  <2>2. \A i, j \in DOMAIN positions :
          /\ LET tx == txs[positions[i].tx]
             IN  tx.op = "borrow" /\ tx.coll = positions[i].coll /\ tx.status = "ok"
          /\ positions[i].coll = positions[j].coll => i = j
      BY DEF Ledger, Named, Once
  <2>3. \A i \in DOMAIN txs :
          txs[i].op = "borrow" /\ txs[i].status = "ok" /\ ~txs[i].lost =>
              \/ \E f \in Flows : flows[f].tx = i
              \/ \E p \in DOMAIN positions : positions[p].coll = txs[i].coll
      BY DEF Ledger, Followed, Live
  <2> QED
      BY <2>1, <2>2, <2>3 DEF PositionsMatchLoans
<1> QED
    BY <1>1, <1>2, <1>3, TypesInvariant, PTL DEF Spec
=============================================================================
