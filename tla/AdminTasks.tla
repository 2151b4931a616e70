----------------------------- MODULE AdminTasks -----------------------------
(***************************************************************************)
(* The administration tasks an operator runs by hand against a deployed    *)
(* market: tasks/misc/pool-admin.ts, oracle-admin.ts, transfer-owner.ts    *)
(* and the whitelist tasks of tasks/full/*-gateway.ts.                     *)
(*                                                                         *)
(* Each is a program of its own: it reads the chain, decides, sends a      *)
(* transaction signed by the account it read, and waits until it is mined. *)
(* Two operators may run tasks at once and either may stop one, whose      *)
(* transaction stays in the mempool.  A contract is its registers; users   *)
(* deposit and pledge while the operators work.                            *)
(***************************************************************************)
EXTENDS Naturals, Sequences, FiniteSets

CONSTANTS
    Operators,
    Menu,           \* the tasks this instance runs
    Keys,           \* the accounts the operators' node can sign for
    Feed,           \* the configured NFT assets, in the order of NftsAssets
    MaxTasks        \* bound on the tasks started

VARIABLES
    chain,      \* the registers the tasks set
    used,       \* which of the two assets hold funds or collateral
    task,       \* the task of each operator
    mempool,    \* transactions sent and not yet mined, in the order they were sent
    asked,      \* what a task that ran alone was the last to ask of a register
    started

vars == <<chain, used, task, mempool, asked, started>>

Flags == {"paused", "reserveActive", "reserveFrozen", "nftActive", "nftFrozen"}
Registers == Flags \cup {"whitelisted", "owner", "feedAdmin", "oracle", "usd", "keys", "priced"}
Accounts == {"deployer", "poolAdmin", "emergencyAdmin", "safe"}
Oracles == {"recorded", "other"}
Assets == {Feed[i] : i \in DOMAIN Feed}

\* A task is the register it sets and the argument it is given.
Tasks ==
    [reg : Flags, arg : {"0", "1", "false"}] \cup [reg : {"whitelisted"}, arg : {"0", "1"}]
        \cup [reg : {"owner", "feedAdmin"}, arg : Accounts] \cup [reg : {"oracle"}, arg : Oracles]
        \cup [reg : {"usd", "keys", "priced"}, arg : {"configured"}]

ASSUME AdminAssumption ==
    /\ Feed \in Seq(Assets) \ {<<>>}
    /\ Menu \subseteq Tasks
    /\ Keys \subseteq Accounts
    /\ MaxTasks \in Nat

Idle == [pc |-> "idle"]

TypeOK ==
    /\ DOMAIN chain = Registers
    /\ \A r \in Flags \cup {"whitelisted", "usd"} : chain[r] \in BOOLEAN
    /\ chain.oracle \in Oracles
    /\ chain.owner \in [Oracles -> Accounts] /\ chain.feedAdmin \in [Oracles -> Accounts]
    /\ chain.keys \in [Oracles -> SUBSET Assets] /\ chain.priced \in [Oracles -> SUBSET Assets]
    /\ used \subseteq {"reserve", "nft"}
    /\ \A o \in Operators :
         \/ task[o] = Idle
         \/ /\ task[o].pc \in {"read", "send", "wait"} /\ task[o].t \in Menu
            /\ task[o].id \in 1..started /\ task[o].sent \in 0..Len(Feed)
            /\ task[o].from \in Accounts /\ task[o].on \in Oracles /\ task[o].alone \in BOOLEAN
    /\ \A i \in DOMAIN mempool : mempool[i].id \in 1..started /\ mempool[i].reg \in Registers
    /\ asked \in [Registers -> {<<>>} \cup {<<t>> : t \in Menu}]
    /\ started \in 0..MaxTasks

(***************************************************************************)
(* What the arguments come to.                                             *)
(***************************************************************************)

\* state == 0 || state == false: of the strings, "0" equals 0 and false, and
\* "false" equals neither.
WantState(t) == t.arg # "0"

\* ethers writes a boolean argument by its truth, and a string is true unless
\* it is empty.
EncodedFlag(t) == t.arg # ""

Want(t) ==
    CASE t.reg \in Flags -> WantState(t)
      [] t.reg = "whitelisted" -> EncodedFlag(t)
      [] t.reg = "usd" -> TRUE
      [] t.reg \in {"keys", "priced"} -> Assets
      [] OTHER -> t.arg

(***************************************************************************)
(* The chain.                                                              *)
(***************************************************************************)

Init ==
    /\ chain = [r \in Registers |->
         CASE r \in {"reserveActive", "nftActive"} -> TRUE
           [] r \in {"owner", "feedAdmin"} -> [o \in Oracles |-> "deployer"]
           [] r = "oracle" -> "recorded"
           [] r \in {"keys", "priced"} -> [o \in Oracles |-> {}]
           [] OTHER -> FALSE]
    /\ used = {}
    /\ task = [o \in Operators |-> Idle]
    /\ mempool = <<>>
    /\ asked = [r \in Registers |-> <<>>]
    /\ started = 0

\* What the contracts refuse: to deactivate what is in use, to obey another
\* than the owner or the feed admin, to list an asset twice, to price one that
\* is not listed.
Accepted(tx) ==
    /\ tx.reg = "reserveActive" => (tx.value \/ "reserve" \notin used)
    /\ tx.reg = "nftActive" => (tx.value \/ "nft" \notin used)
    /\ tx.reg \in {"owner", "feedAdmin", "keys"} => tx.from = chain.owner[tx.on]
    /\ tx.reg = "keys" => tx.value \cap chain.keys[tx.on] = {}
    /\ tx.reg = "priced" => (tx.from = chain.feedAdmin[tx.on] /\ tx.value \subseteq chain.keys[tx.on])

\* Users deposit and pledge while the asset is active, not frozen and the pool
\* not paused, and take everything back while the pool is not paused.
Active(a) == IF a = "reserve" THEN chain.reserveActive ELSE chain.nftActive
Frozen(a) == IF a = "reserve" THEN chain.reserveFrozen ELSE chain.nftFrozen

Users(a) ==
    /\ Active(a) /\ ~chain.paused
    /\ \/ a \notin used /\ ~Frozen(a) /\ used' = used \cup {a}
       \/ a \in used /\ used' = used \ {a}
    /\ UNCHANGED <<chain, task, mempool, asked, started>>

(***************************************************************************)
(* The tasks.                                                              *)
(***************************************************************************)

Busy(o) == task[o].pc # "idle"

\* Setting r bears on what was asked of q: the feed and its admin are those of
\* the oracle of the provider.
Disturbs(r, q) == r = q \/ (r = "oracle" /\ q \in {"feedAdmin", "priced"})

Start(o) ==
    /\ ~Busy(o) /\ started < MaxTasks
    /\ \E t \in Menu :
        /\ task' = [p \in Operators |->
             IF p = o
             THEN [pc |-> "read", t |-> t, id |-> started + 1, sent |-> 0,
                   from |-> "deployer", on |-> "recorded",
                   alone |-> /\ \A q \in Operators \ {o} :
                                  Busy(q) => ~Disturbs(task[q].t.reg, t.reg)
                             /\ \A i \in DOMAIN mempool : ~Disturbs(mempool[i].reg, t.reg)]
             ELSE IF Busy(p) /\ Disturbs(t.reg, task[p].t.reg)
             THEN [task[p] EXCEPT !.alone = FALSE]
             ELSE task[p]]
        /\ asked' = [r \in Registers |-> IF Disturbs(t.reg, r) THEN <<>> ELSE asked[r]]
    /\ started' = started + 1
    /\ UNCHANGED <<chain, used, mempool>>

Finish(o) ==
    /\ asked' = IF task[o].alone THEN [asked EXCEPT ![task[o].t.reg] = <<task[o].t>>] ELSE asked
    /\ task' = [task EXCEPT ![o] = Idle]

Fail(o) == task' = [task EXCEPT ![o] = Idle] /\ UNCHANGED asked

\* What lendPool.paused() or the data provider says of a flag.
CurrentState(reg) == chain[reg]

\* Fault: the oracle of the deployment record is fed.
OracleRecorded(reg) == "recorded"

\* set-nft-assets addresses the oracle of the deployment record, transfer-owner
\* is told to; the feed and its admin go to the oracle the provider names.
OracleOf(reg) == IF reg \in {"feedAdmin", "priced"} THEN chain.oracle ELSE "recorded"

\* set-price-feed-admin leaves the oracle connected to the deploy signer,
\* whoever owns it.
SignerOf(reg) ==
    CASE reg = "paused" -> "emergencyAdmin"
      [] reg \in Flags \ {"paused"} -> "poolAdmin"
      [] reg \in {"owner", "keys"} -> chain.owner["recorded"]
      [] reg = "priced" -> chain.feedAdmin[chain.oracle]
      [] OTHER -> "deployer"

\* What the task reads before it sends, and what it decides from that.
NothingToDo(t) == t.reg \in Flags /\ CurrentState(t.reg) = Want(t)
Existing(t) == t.reg = "keys" /\ Assets \cap chain.keys["recorded"] # {}

Read(o) ==
    LET t == task[o].t IN
    /\ task[o].pc = "read"
    /\ \/ NothingToDo(t) /\ Finish(o)
       \/ Existing(t) /\ Fail(o)
       \/ /\ ~NothingToDo(t) /\ ~Existing(t)
          /\ task' = [task EXCEPT ![o].pc = "send", ![o].from = SignerOf(t.reg),
                                  ![o].on = OracleOf(t.reg)]
          /\ UNCHANGED asked
    /\ UNCHANGED <<chain, used, mempool, started>>

\* The next transaction of the task: the feed sends one for each asset.
CallOf(o) ==
    LET t == task[o].t IN
    [reg |-> t.reg, id |-> task[o].id, from |-> task[o].from, on |-> task[o].on,
     value |-> IF t.reg = "priced" THEN {Feed[task[o].sent + 1]} ELSE Want(t)]

\* The node estimates the call: it refuses one that would revert, and one of
\* an account it has no key for.
Send(o) ==
    LET tx == CallOf(o) IN
    /\ task[o].pc = "send"
    /\ \/ /\ tx.from \in Keys /\ Accepted(tx)
          /\ mempool' = Append(mempool, tx)
          /\ task' = [task EXCEPT ![o].pc = "wait", ![o].sent = @ + 1]
          /\ UNCHANGED asked
       \/ ~(tx.from \in Keys /\ Accepted(tx)) /\ Fail(o) /\ UNCHANGED mempool
    /\ UNCHANGED <<chain, used, started>>

CallsOf(t) == IF t.reg = "priced" THEN Len(Feed) ELSE 1

\* The task that waits for transaction i, if it still runs, goes on.
Receipt(i, ok) ==
    LET waiting == {o \in Operators : Busy(o) /\ task[o].id = mempool[i].id} IN
    IF waiting = {} THEN UNCHANGED <<task, asked>>
    ELSE \E o \in waiting :
           \/ ~ok /\ Fail(o)
           \/ ok /\ task[o].sent = CallsOf(task[o].t) /\ Finish(o)
           \/ /\ ok /\ task[o].sent # CallsOf(task[o].t)
              /\ task' = [task EXCEPT ![o].pc = "send"]
              /\ UNCHANGED asked

Remove(i) == [j \in 1..(Len(mempool) - 1) |-> IF j < i THEN mempool[j] ELSE mempool[j + 1]]

Applied(tx) ==
    CASE tx.reg \in {"keys", "priced"} -> [chain EXCEPT ![tx.reg][tx.on] = @ \cup tx.value]
      [] tx.reg \in {"owner", "feedAdmin"} -> [chain EXCEPT ![tx.reg][tx.on] = tx.value]
      [] OTHER -> [chain EXCEPT ![tx.reg] = tx.value]

\* Fault: what the estimate found is not looked at again.
MineUnchecked(i) ==
    /\ i \in DOMAIN mempool
    /\ \A j \in 1..(i - 1) : mempool[j].from # mempool[i].from
    /\ chain' = Applied(mempool[i])
    /\ Receipt(i, TRUE)
    /\ mempool' = Remove(i)
    /\ UNCHANGED <<used, started>>

\* A transaction has its block, and is mined after the earlier ones of its sender; it may revert,
\* and wait(1) then throws.
Mine(i) ==
    /\ i \in DOMAIN mempool
    /\ \A j \in 1..(i - 1) : mempool[j].from # mempool[i].from
    /\ chain' = IF Accepted(mempool[i]) THEN Applied(mempool[i]) ELSE chain
    /\ Receipt(i, Accepted(mempool[i]))
    /\ mempool' = Remove(i)
    /\ UNCHANGED <<used, started>>

\* The operator stops the program; what it sent is not called back.
Stop(o) == Busy(o) /\ Fail(o) /\ UNCHANGED <<chain, used, mempool, started>>

(***************************************************************************)
(* The specification.                                                      *)
(***************************************************************************)

Next ==
    \/ \E o \in Operators : Start(o) \/ Read(o) \/ Send(o) \/ Stop(o)
    \/ \E i \in DOMAIN mempool : Mine(i)
    \/ \E a \in {"reserve", "nft"} : Users(a)

Spec == Init /\ [][Next]_vars

(***************************************************************************)
(* Properties.                                                             *)
(***************************************************************************)

Holds(t) ==
    CASE t.reg = "priced" -> chain.priced[chain.oracle] = Assets
      [] t.reg = "feedAdmin" -> chain.feedAdmin[chain.oracle] = t.arg
      [] t.reg = "owner" -> chain.owner["recorded"] = t.arg
      [] t.reg = "keys" -> chain.keys["recorded"] = Assets
      [] t.reg \in Flags /\ t.arg \in {"0", "1"} -> chain[t.reg] = (t.arg = "1")
      [] OTHER -> chain[t.reg] = Want(t)

\* What a task asked for and reported done stays so until another task about
\* it starts, when no other task, and no transaction left behind by a stopped
\* one, was under way meanwhile: this is what "No need to do because same
\* state" and the wait for the receipt are for, and for the feed it is about
\* the oracle the market uses.
LastWordHolds == TypeOK /\ \A r \in Registers : \A i \in DOMAIN asked[r] : Holds(asked[r][i])

\* A reserve with funds or a collection with pledges is never inactive, though
\* users come in between the estimate of a deactivation and its block.
InUseIsActive ==
    /\ "reserve" \in used => chain.reserveActive
    /\ "nft" \in used => chain.nftActive

\* "Flag of whitelist, 0-1": a caller given the flag 0 is off the list.
FlagZeroRemoves ==
    \A i \in DOMAIN asked["whitelisted"] :
        asked["whitelisted"][i].arg = "0" => ~chain.whitelisted
=============================================================================
