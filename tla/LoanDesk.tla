------------------------------ MODULE LoanDesk ------------------------------
(***************************************************************************)
(* Borrowing, repaying and supplying from the page: the wizard, the quote, *)
(* the tracked positions and the forms of frontend/js/app.js, over the     *)
(* calls of frontend/js/pool.js.  Every click starts a flow of its own -   *)
(* no button is disabled while one runs - and a flow is cut at its awaits: *)
(*   "owner" "quote" "approval" "debt" "allowance"  a read of the chain    *)
(*   "assert"  assertActiveAccount       "sign"  the wallet's prompt       *)
(*   "wait"    waitReceipt, 60 polls                                       *)
(* One token per collection is enough, so an NFT is named by its           *)
(* collection.  The wallet (WalletSession) and the chain are external: the *)
(* account may change between any two steps, and a transaction may be      *)
(* mined after the page stopped polling for it.                            *)
(***************************************************************************)
EXTENDS Naturals, Sequences, FiniteSets

CONSTANTS
    Accounts,
    Pool,           \* the pool as the holder of an NFT
    None,           \* null
    Collections,
    Amounts,        \* USDC amounts a user types
    Quote,          \* availableReserve of each collection
    Flows,          \* clicks whose handlers run at the same time
    Kinds,          \* which buttons are clicked
    MaxPositions,   \* tracked positions, 25 in the code
    MaxTxs,         \* bound on transactions sent
    MaxDebt,        \* bound on a debt that accrues interest
    MaxReloads      \* bound on page reloads

ASSUME DeskAssumption ==
    /\ None \notin Accounts \cup Collections /\ Pool \notin Accounts
    /\ Amounts \subseteq Nat \ {0} /\ Quote \in [Collections -> Nat]
    /\ Kinds \subseteq {"terms", "borrow", "repay", "supply"}
    /\ MaxPositions \in Nat /\ MaxTxs \in Nat /\ MaxDebt \in Nat /\ MaxReloads \in Nat

VARIABLES
    me,         \* getAddress()
    active,     \* the account the wallet exposes and signs with
    form,       \* the borrow wizard; maxOf remembers whose quote max is
    asks,       \* collections whose refreshPoolQuote is unanswered
    flows,      \* the handlers under way
    positions,  \* lender-positions in localStorage
    message,    \* the recipient the last message named, and the real one
    txs,        \* transactions sent; the index is the hash
    chain,      \* the collections, the USDC allowances and the loans
    reloads

vars == <<me, active, form, asks, flows, positions, message, txs, chain, reloads>>

Idle == [kind |-> "idle", pc |-> "idle", op |-> "none", from |-> None,
         coll |-> None, amount |-> 0, tx |-> 0]
NewForm == [coll |-> None, token |-> FALSE, amount |-> 0, max |-> 0,
            maxOf |-> None, step |-> 1]
NoMessage == [said |-> None, paid |-> None]
Ops == {"none", "approve721", "borrow", "approve20", "repay", "deposit"}

TypeOK ==
    /\ me \in Accounts \cup {None} /\ active \in Accounts
    /\ form \in [coll : Collections \cup {None}, token : BOOLEAN,
                 amount : Amounts \cup {0}, max : Nat,
                 maxOf : Collections \cup {None}, step : 1..3]
    /\ asks \subseteq Collections
    /\ flows \in [Flows -> [kind : Kinds \cup {"idle"},
          pc : {"idle", "owner", "quote", "approval", "debt", "allowance",
                "assert", "sign", "wait"},
          op : Ops, from : Accounts \cup {None}, coll : Collections \cup {None},
          amount : Nat, tx : 0..MaxTxs]]
    /\ positions \in Seq([coll : Collections, tx : 1..MaxTxs])
    /\ message \in [said : Accounts \cup {None}, paid : Accounts \cup {None}]
    /\ txs \in Seq([op : Ops, from : Accounts, coll : Collections \cup {None},
                    amount : Nat, status : {"pending", "ok", "reverted"},
                    lost : BOOLEAN])
    /\ chain \in [owner : [Collections -> Accounts \cup {Pool}],
                  approved : SUBSET Collections,
                  borrower : [Collections -> Accounts \cup {None}],
                  debt : [Collections -> Nat],
                  allowance : [Accounts -> Nat]]
    /\ reloads \in 0..MaxReloads

Init ==
    /\ me = None /\ active \in Accounts
    /\ form = NewForm /\ asks = {} /\ message = NoMessage
    /\ flows = [f \in Flows |-> Idle]
    /\ positions = <<>> /\ txs = <<>> /\ reloads = 0
    /\ \E owner \in [Collections -> Accounts] :
          chain = [owner |-> owner, approved |-> {},
                   borrower |-> [c \in Collections |-> None],
                   debt |-> [c \in Collections |-> 0],
                   allowance |-> [a \in Accounts |-> 0]]

pageVars == <<form, asks, positions, message>>
outside == <<me, active, txs, chain, reloads>>

At(f, kind, pc) == flows[f].kind = kind /\ flows[f].pc = pc
Go(f, flow) == flows' = [flows EXCEPT ![f] = flow]
Finish(f) == Go(f, Idle)

-----------------------------------------------------------------------------
\* The wizard.

\* Whatever is selected by the time the quote of c arrives is shown with it.
Shown(c, max) == [form EXCEPT !.max = max, !.maxOf = IF max > 0 THEN c ELSE None]

selectCollection(c) ==
    /\ form.step = 1
    /\ form' = [NewForm EXCEPT !.coll = c, !.amount = form.amount]
    /\ asks' = asks \cup {c}
    /\ UNCHANGED <<flows, positions, message, outside>>

\* toggle-custom, and an address typed in: the old quote stays meanwhile.
customCollection(c) ==
    /\ form.step = 1 /\ c # form.coll
    /\ form' = [form EXCEPT !.coll = c]
    /\ asks' = asks \cup ({c} \ {None})
    /\ UNCHANGED <<flows, positions, message, outside>>

refreshPoolQuote(c) ==
    /\ c \in asks /\ asks' = asks \ {c}
    /\ form' \in {Shown(c, Quote[c]), Shown(c, 0)}
    /\ UNCHANGED <<flows, positions, message, outside>>

readBorrowDraft ==
    /\ \/ form.step = 1 /\ ~form.token /\ form' = [form EXCEPT !.token = TRUE]
       \/ form.step = 2 /\ \E n \in Amounts : form' = [form EXCEPT !.amount = n]
    /\ UNCHANGED <<asks, flows, positions, message, outside>>

\* borrow-to-confirm
toConfirm ==
    /\ form.step = 2 /\ form.amount > 0 /\ form.amount <= form.max
    /\ form' = [form EXCEPT !.step = 3]
    /\ UNCHANGED <<asks, flows, positions, message, outside>>

wizardBack ==
    /\ form.step > 1 /\ form' = [form EXCEPT !.step = @ - 1]
    /\ UNCHANGED <<asks, flows, positions, message, outside>>

-----------------------------------------------------------------------------
\* Clicks; requireWallet opens the connect dialog instead when me is None.

Click(f, kind, pc, c, n) ==
    /\ kind \in Kinds /\ me # None /\ flows[f] = Idle
    /\ Go(f, [Idle EXCEPT !.kind = kind, !.pc = pc, !.from = me, !.coll = c,
                          !.amount = n])
    /\ UNCHANGED <<pageVars, outside>>

borrowToTerms(f) ==
    /\ form.step = 1 /\ form.coll # None /\ form.token
    /\ Click(f, "terms", "owner", form.coll, 0)

borrowConfirm(f) ==
    /\ form.step = 3 /\ form.coll # None /\ form.token
    /\ Click(f, "borrow", "owner", form.coll, form.amount)

repayClick(f) ==
    \E i \in DOMAIN positions : Click(f, "repay", "debt", positions[i].coll, 0)

supplySubmit(f) == \E n \in Amounts : Click(f, "supply", "allowance", None, n)

-----------------------------------------------------------------------------
\* The reads that precede a transaction.

\* sendTx, up to its first await: the account is read again.
sendTx(f, flow, op) ==
    IF me = None THEN Finish(f)
    ELSE Go(f, [flow EXCEPT !.pc = "assert", !.op = op, !.from = me, !.tx = 0])

assertOwnsNft(f) ==
    /\ flows[f].pc = "owner"
    /\ IF chain.owner[flows[f].coll] = flows[f].from
       THEN Go(f, [flows[f] EXCEPT !.pc = "quote"])
       ELSE Finish(f)
    /\ UNCHANGED <<pageVars, outside>>

\* borrow-to-terms shows the quote it awaited, and moves on if there is one.
termsQuoted(f) ==
    /\ At(f, "terms", "quote")
    /\ LET c == flows[f].coll IN
          \E max \in {0, Quote[c]} :
             form' = [Shown(c, max) EXCEPT !.step = IF max > 0 THEN 2 ELSE @]
    /\ Finish(f)
    /\ UNCHANGED <<asks, positions, message, outside>>

\* Fault: the amount is not compared with the quote read last
readPoolQuoteUnused(f) ==
    /\ At(f, "borrow", "quote")
    /\ Go(f, [flows[f] EXCEPT !.pc = "approval"])
    /\ UNCHANGED <<pageVars, outside>>

readPoolQuote(f) ==
    /\ At(f, "borrow", "quote")
    /\ IF flows[f].amount <= Quote[flows[f].coll]
       THEN Go(f, [flows[f] EXCEPT !.pc = "approval"])
       ELSE Finish(f)
    /\ UNCHANGED <<pageVars, outside>>

ensureNftApproved(f) ==
    /\ At(f, "borrow", "approval")
    /\ sendTx(f, flows[f], IF flows[f].coll \in chain.approved
                           THEN "borrow" ELSE "approve721")
    /\ UNCHANGED <<pageVars, outside>>

\* The debt of this moment is what will be repaid.
readDebt(f) ==
    /\ At(f, "repay", "debt")
    /\ LET debt == chain.debt[flows[f].coll] IN
          IF debt = 0 \/ me = None THEN Finish(f)
          ELSE Go(f, [flows[f] EXCEPT !.pc = "allowance", !.from = me,
                                      !.amount = debt])
    /\ UNCHANGED <<pageVars, outside>>

MainOp(flow) == CASE flow.kind = "repay"  -> "repay"
                  [] flow.kind = "supply" -> "deposit"
                  [] OTHER                -> "borrow"

ensureErc20Allowance(f) ==
    /\ flows[f].pc = "allowance"
    /\ sendTx(f, flows[f],
              IF chain.allowance[flows[f].from] >= flows[f].amount
              THEN MainOp(flows[f]) ELSE "approve20")
    /\ UNCHANGED <<pageVars, outside>>

-----------------------------------------------------------------------------
\* sendTx and waitReceipt.

assertActiveAccount(f) ==
    /\ flows[f].pc = "assert"
    /\ IF me # None /\ active = flows[f].from
       THEN Go(f, [flows[f] EXCEPT !.pc = "sign"])
       ELSE Finish(f)
    /\ UNCHANGED <<pageVars, outside>>

\* The user signs, with the account the transaction names.
walletCall(f) ==
    /\ flows[f].pc = "sign" /\ active = flows[f].from /\ Len(txs) < MaxTxs
    /\ txs' = Append(txs, [op |-> flows[f].op, from |-> flows[f].from,
                           coll |-> flows[f].coll, amount |-> flows[f].amount,
                           status |-> "pending", lost |-> FALSE])
    /\ Go(f, [flows[f] EXCEPT !.pc = "wait", !.tx = Len(txs) + 1])
    /\ UNCHANGED <<pageVars, me, active, chain, reloads>>

Receipt(f, status) == flows[f].pc = "wait" /\ txs[flows[f].tx].status = status

approvalMined(f) ==
    /\ Receipt(f, "ok") /\ flows[f].op \in {"approve721", "approve20"}
    /\ sendTx(f, flows[f], MainOp(flows[f]))
    /\ UNCHANGED <<pageVars, outside>>

\* The positions of other NFTs, in their order: the k-th has k - 1 before it.
OtherPositions(c) ==
    LET kept == {i \in DOMAIN positions : positions[i].coll # c}
    IN  [k \in 1..Cardinality(kept) |->
            positions[CHOOSE i \in kept : Cardinality({j \in kept : j < i}) = k - 1]]

\* Fault: the list is cut before the new position is put in front
savePositionAfterCut(c, i) == OtherPositions(c)

savePosition(c, i) ==
    LET all == <<[coll |-> c, tx |-> i]>> \o OtherPositions(c)
    IN  SubSeq(all, 1, IF Len(all) < MaxPositions THEN Len(all) ELSE MaxPositions)

\* borrow-confirm goes on: the position, the message, the first step again
borrowMined(f) ==
    /\ Receipt(f, "ok") /\ flows[f].op = "borrow"
    /\ positions' = savePosition(flows[f].coll, flows[f].tx)
    /\ message' = [said |-> me, paid |-> flows[f].from]
    /\ form' = [form EXCEPT !.step = 1]
    /\ Finish(f)
    /\ UNCHANGED <<asks, outside>>

\* Repaid, supplied, or reverted: there is only something to report.
reported(f) ==
    /\ \/ Receipt(f, "reverted")
       \/ Receipt(f, "ok") /\ flows[f].op \in {"repay", "deposit"}
    /\ Finish(f)
    /\ UNCHANGED <<pageVars, outside>>

\* Fault: polling never stops
throwsUnlessWaiting(f) ==
    /\ flows[f] # Idle /\ flows[f].pc # "wait"
    /\ Finish(f)
    /\ UNCHANGED <<txs, pageVars, me, active, chain, reloads>>

\* An RPC call fails, the user refuses, or 60 polls found no receipt: the
\* handler throws, and forgets the transaction it may have sent.
throws(f) ==
    /\ flows[f] # Idle
    /\ Finish(f)
    /\ txs' = [i \in DOMAIN txs |->
                  IF i = flows[f].tx THEN [txs[i] EXCEPT !.lost = TRUE] ELSE txs[i]]
    /\ UNCHANGED <<pageVars, me, active, chain, reloads>>

-----------------------------------------------------------------------------
\* The wallet and the chain.

\* The user changes the account; the page may hear of it late, or never.
SwitchAccount ==
    /\ active' \in Accounts /\ me' \in {me, active', None}
    /\ <<me', active'>> # <<me, active>>
    /\ UNCHANGED <<flows, pageVars, txs, chain, reloads>>

\* What the transaction does to the chain, or chain itself when it reverts.
Effect(tx) ==
    LET c == tx.coll
        a == tx.from
        room == IF chain.borrower[c] = None
                THEN chain.owner[c] = a /\ c \in chain.approved
                ELSE chain.borrower[c] = a
        left == chain.debt[c] - tx.amount
    IN  CASE tx.op = "approve721" /\ chain.owner[c] = a ->
               [chain EXCEPT !.approved = @ \cup {c}]
          [] tx.op = "borrow" /\ room /\ chain.debt[c] + tx.amount <= Quote[c] ->
               [chain EXCEPT !.owner[c] = Pool, !.borrower[c] = a,
                             !.approved = @ \ {c}, !.debt[c] = @ + tx.amount]
          [] tx.op = "approve20" ->
               [chain EXCEPT !.allowance[a] = tx.amount]
          [] tx.op = "deposit" /\ chain.allowance[a] >= tx.amount ->
               [chain EXCEPT !.allowance[a] = @ - tx.amount]
          [] tx.op = "repay" /\ chain.borrower[c] # None
                 /\ chain.allowance[a] >= tx.amount /\ left > 0 ->
               [chain EXCEPT !.allowance[a] = @ - tx.amount, !.debt[c] = left]
          [] tx.op = "repay" /\ chain.borrower[c] # None
                 /\ chain.allowance[a] >= chain.debt[c] /\ left <= 0 ->
               [chain EXCEPT !.allowance[a] = @ - chain.debt[c], !.debt[c] = 0,
                             !.owner[c] = chain.borrower[c], !.borrower[c] = None]
          [] OTHER -> chain

\* Transactions of one account are mined in the order they were sent.
Mine(i) ==
    /\ i \in DOMAIN txs /\ txs[i].status = "pending"
    /\ \A j \in 1..(i - 1) : txs[j].from = txs[i].from => txs[j].status # "pending"
    /\ chain' = Effect(txs[i])
    /\ txs' = [txs EXCEPT ![i].status = IF chain' = chain THEN "reverted" ELSE "ok"]
    /\ UNCHANGED <<me, active, flows, pageVars, reloads>>

Accrue(c) ==
    /\ chain.debt[c] \in 1..(MaxDebt - 1)
    /\ chain' = [chain EXCEPT !.debt[c] = @ + 1]
    /\ UNCHANGED <<me, active, flows, pageVars, txs, reloads>>

\* localStorage survives; the handlers do not.
Reload ==
    /\ reloads < MaxReloads /\ reloads' = reloads + 1
    /\ me' = None
    /\ form' = NewForm /\ asks' = {} /\ message' = NoMessage
    /\ txs' = [i \in DOMAIN txs |->
                  IF \E f \in Flows : flows[f].tx = i
                  THEN [txs[i] EXCEPT !.lost = TRUE] ELSE txs[i]]
    /\ flows' = [f \in Flows |-> Idle]
    /\ UNCHANGED <<active, positions, chain>>

-----------------------------------------------------------------------------
\* The steps of a handler that need neither the user nor the chain.
Proceed(f) ==
    \/ assertOwnsNft(f) \/ termsQuoted(f) \/ readPoolQuote(f) \/ ensureNftApproved(f)
    \/ readDebt(f) \/ ensureErc20Allowance(f) \/ assertActiveAccount(f)
    \/ approvalMined(f) \/ borrowMined(f) \/ reported(f) \/ throws(f)

Next ==
    \/ \E c \in Collections :
          selectCollection(c) \/ refreshPoolQuote(c) \/ Accrue(c)
    \/ \E c \in Collections \cup {None} : customCollection(c)
    \/ readBorrowDraft \/ toConfirm \/ wizardBack
    \/ \E f \in Flows :
          \/ borrowToTerms(f) \/ borrowConfirm(f) \/ repayClick(f) \/ supplySubmit(f)
          \/ Proceed(f) \/ walletCall(f)
    \/ \E i \in 1..MaxTxs : Mine(i)
    \/ SwitchAccount \/ Reload

\* Handlers run to their end: every read is answered or fails, and polling for
\* a receipt stops after 60 polls.  Nothing is assumed of the user and the chain.
Fairness == \A f \in Flows : WF_vars(Proceed(f))

Spec == Init /\ [][Next]_vars /\ Fairness

-----------------------------------------------------------------------------
\* No borrow is sent above the quote of its own collection, whichever quote the
\* wizard showed and checked the amount against.
SubmittedWithinQuote ==
    \A i \in DOMAIN txs : txs[i].op = "borrow" => txs[i].amount <= Quote[txs[i].coll]

\* Tracked positions and loans agree.  A position names a borrow of that NFT that
\* was confirmed on the chain, and no NFT is tracked twice; a confirmed borrow is
\* tracked, or about to be by the handler that waits for it, unless that handler
\* gave up or the page was reloaded.
PositionsMatchLoans ==
    /\ TypeOK
    /\ \A i, j \in DOMAIN positions :
          /\ LET tx == txs[positions[i].tx]
             IN  tx.op = "borrow" /\ tx.coll = positions[i].coll /\ tx.status = "ok"
          /\ positions[i].coll = positions[j].coll => i = j
    /\ \A i \in DOMAIN txs :
          txs[i].op = "borrow" /\ txs[i].status = "ok" /\ ~txs[i].lost =>
              \/ \E f \in Flows : flows[f].tx = i
              \/ \E p \in DOMAIN positions : positions[p].coll = txs[i].coll

\* A handler never waits for a receipt for ever, even of a transaction that is
\* never mined.
WaitSettles == \A f \in Flows : flows[f].pc = "wait" ~> flows[f].pc # "wait"

-----------------------------------------------------------------------------
\* What the page says of itself.

\* app.js:287 "The pool quote is read on-chain.", said of the collection just
\* selected: with no quote outstanding, the maximum shown is that collection's.
QuoteIsOfSelection ==
    asks = {} /\ form.coll # None /\ form.maxOf # None => form.maxOf = form.coll
=============================================================================
