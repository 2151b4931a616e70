-------------------------- MODULE AdminTasksProofs --------------------------
(***************************************************************************)
(* Administration and users.                                               *)
(*                                                                         *)
(* Whatever the operators start, stop and leave in the mempool, what is in *)
(* use stays active: the estimate a task makes before it sends plays no    *)
(* part in the proof, the check the configurator makes in the block, with  *)
(* the pool's own refusal of new deposits and pledges, carries it.         *)
(*                                                                         *)
(* And what a task that ran alone reports done stays so (Sound, below).    *)
(***************************************************************************)
EXTENDS AdminTasks, SequenceTheorems, TLAPS

AdminInv == DOMAIN chain = Registers /\ InUseIsActive

LEMMA InitAdmin == Init => AdminInv
    BY DEF Init, AdminInv, InUseIsActive, Registers, Flags

\* A task reads and sends; it changes neither the registers nor who uses them.
LEMMA TasksChangeNothing ==
    ASSUME NEW o, Start(o) \/ Read(o) \/ Send(o) \/ Stop(o)
    PROVE  chain' = chain /\ used' = used
    BY DEF Start, Read, Send, Stop

\* Only a transaction to the flag of an asset changes it.
LEMMA AppliedFlag ==
    ASSUME DOMAIN chain = Registers, NEW tx, NEW r \in {"reserveActive", "nftActive"}
    PROVE  /\ DOMAIN Applied(tx) = Registers
           /\ tx.reg # r => Applied(tx)[r] = chain[r]
           /\ tx.reg = r => Applied(tx)[r] = tx.value
<1>1. r \in Registers
    BY DEF Registers, Flags
<1>2. CASE tx.reg \in {"keys", "priced"}
  <2>1. Applied(tx) = [chain EXCEPT ![tx.reg][tx.on] = @ \cup tx.value]
      BY <1>2 DEF Applied
  <2> QED
      BY <1>1, <1>2, <2>1
<1>3. CASE tx.reg \in {"owner", "feedAdmin"}
  <2>1. Applied(tx) = [chain EXCEPT ![tx.reg][tx.on] = tx.value]
      BY <1>3 DEF Applied
  <2> QED
      BY <1>1, <1>3, <2>1
<1>4. CASE tx.reg \notin {"keys", "priced", "owner", "feedAdmin"}
  <2>1. Applied(tx) = [chain EXCEPT ![tx.reg] = tx.value]
      BY <1>4 DEF Applied
  <2> QED
      BY <1>1, <1>4, <2>1
<1> QED
    BY <1>2, <1>3, <1>4

LEMMA MineStep ==
    ASSUME AdminInv, NEW i, Mine(i)
    PROVE  AdminInv'
<1> DEFINE tx == mempool[i]
<1>1. used' = used /\ chain' = IF Accepted(tx) THEN Applied(tx) ELSE chain
    BY DEF Mine
<1>2. CASE Accepted(tx)
  <2>1. chain' = Applied(tx)
      BY <1>1, <1>2
  <2>2. DOMAIN chain = Registers
      BY DEF AdminInv
  <2>3. "reserve" \in used => chain'["reserveActive"]
    <3>1. CASE tx.reg = "reserveActive"
        BY <1>2, <2>1, <2>2, <3>1, AppliedFlag DEF Accepted
    <3>2. CASE tx.reg # "reserveActive"
        BY <2>1, <2>2, <3>2, AppliedFlag DEF AdminInv, InUseIsActive
    <3> QED
        BY <3>1, <3>2
  <2>4. "nft" \in used => chain'["nftActive"]
    <3>1. CASE tx.reg = "nftActive"
        BY <1>2, <2>1, <2>2, <3>1, AppliedFlag DEF Accepted
    <3>2. CASE tx.reg # "nftActive"
        BY <2>1, <2>2, <3>2, AppliedFlag DEF AdminInv, InUseIsActive
    <3> QED
        BY <3>1, <3>2
  <2> QED
      BY <1>1, <2>1, <2>2, <2>3, <2>4, AppliedFlag DEF AdminInv, InUseIsActive
<1>3. CASE ~Accepted(tx)
    BY <1>1, <1>3 DEF AdminInv, InUseIsActive
<1> QED
    BY <1>2, <1>3

LEMMA UsersStep ==
    ASSUME AdminInv, NEW a \in {"reserve", "nft"}, Users(a)
    PROVE  AdminInv'
    BY DEF AdminInv, InUseIsActive, Users, Active

LEMMA NextKeepsAdmin == AdminInv /\ [Next]_vars => AdminInv'
<1> SUFFICES ASSUME AdminInv, [Next]_vars
             PROVE  AdminInv'
    OBVIOUS
<1>1. CASE chain' = chain /\ used' = used
    BY <1>1 DEF AdminInv, InUseIsActive
<1>2. CASE UNCHANGED vars
    BY <1>1, <1>2 DEF vars
<1>3. CASE \E o \in Operators : Start(o) \/ Read(o) \/ Send(o) \/ Stop(o)
    BY <1>1, <1>3, TasksChangeNothing
<1>4. CASE \E i \in DOMAIN mempool : Mine(i)
    BY <1>4, MineStep
<1>5. CASE \E a \in {"reserve", "nft"} : Users(a)
    BY <1>5, UsersStep
<1> QED
    BY <1>2, <1>3, <1>4, <1>5 DEF Next

\* A reserve with funds and a collection with pledges stay active, for any
\* number of operators and tasks: the configurator's own check decides, not
\* what a task saw when it estimated its transaction.
THEOREM WhatIsUsedStaysActive == Spec => []InUseIsActive
<1>1. AdminInv => InUseIsActive
    BY DEF AdminInv
<1> QED
    BY <1>1, InitAdmin, NextKeepsAdmin, PTL DEF Spec

-----------------------------------------------------------------------------
(***************************************************************************)
(* What a task reports done.                                               *)
(*                                                                         *)
(* The invariant is over the values of the variables, so that a block,     *)
(* which applies a transaction and lets the task that waits for it go on,  *)
(* can be taken in these two steps.                                        *)
(***************************************************************************)
Switches == Flags \cup {"whitelisted", "usd"}

BusyIn(tk) == {o \in Operators : tk[o].pc # "idle"}

\* What Holds says of other registers than those of the present
HoldsIn(c, t) ==
    CASE t.reg = "priced" -> c["priced"][c["oracle"]] = Assets
      [] t.reg = "feedAdmin" -> c["feedAdmin"][c["oracle"]] = t.arg
      [] t.reg = "owner" -> c["owner"]["recorded"] = t.arg
      [] t.reg = "keys" -> c["keys"]["recorded"] = Assets
      [] t.reg \in Flags /\ t.arg \in {"0", "1"} -> c[t.reg] = (t.arg = "1")
      [] OTHER -> c[t.reg] = Want(t)

OracleIn(c, reg) == IF reg \in {"feedAdmin", "priced"} THEN c["oracle"] ELSE "recorded"

\* Types
ChainOK(c) ==
    /\ DOMAIN c = Registers
    /\ \A r \in Switches : c[r] \in BOOLEAN
    /\ c["oracle"] \in Oracles
    /\ \A r \in {"owner", "feedAdmin"} : c[r] \in [Oracles -> Accounts]
    /\ \A r \in {"keys", "priced"} : c[r] \in [Oracles -> SUBSET Assets]

ValueOK(reg, v) ==
    /\ reg \in Switches => v \in BOOLEAN
    /\ reg = "oracle" => v \in Oracles
    /\ reg \in {"owner", "feedAdmin"} => v \in Accounts
    /\ reg \in {"keys", "priced"} => v \in SUBSET Assets

TxOK(tx, s) ==
    /\ tx.reg \in Registers /\ tx.id \in 1..s /\ tx.on \in Oracles
    /\ ValueOK(tx.reg, tx.value)

Running == [pc : {"read", "send", "wait"}, t : Menu, id : Nat, sent : 0..Len(Feed),
            from : Accounts, on : Oracles, alone : BOOLEAN]

IsSeq(m) == m \in Seq({m[i] : i \in DOMAIN m})

Typed(c, tk, m, a, s) ==
    /\ ChainOK(c) /\ s \in Nat
    /\ tk \in [Operators -> {Idle} \cup Running]
    /\ \A o \in BusyIn(tk) : tk[o].id \in 1..s
    /\ IsSeq(m) /\ \A i \in DOMAIN m : TxOK(m[i], s)
    /\ a \in [Registers -> {<<>>} \cup {<<t>> : t \in Menu}]

\* Of a task in state x there is at most one transaction in the mempool, the one
\* it waits for.
OneCall(x, m) ==
    /\ x.pc = "read" => x.sent = 0
    /\ x.pc = "send" => x.sent < CallsOf(x.t)
    /\ x.pc = "wait" => x.sent \in 1..CallsOf(x.t)
    /\ \A i \in DOMAIN m : m[i].id = x.id =>
          /\ x.pc = "wait"
          /\ \A j \in DOMAIN m : m[j].id = x.id => j = i
          /\ m[i].reg = x.t.reg /\ m[i].on = x.on
          /\ m[i].value = IF x.t.reg = "priced" THEN {Feed[x.sent]} ELSE Want(x.t)

Calls(tk, m) ==
    /\ \A o, p \in BusyIn(tk) : tk[p].id = tk[o].id => p = o
    /\ \A o \in BusyIn(tk) : OneCall(tk[o], m)

\* What is priced already for the task in state x
Priced(c, x) ==
    \A k \in 1..Len(Feed) :
        k < x.sent \/ (k = x.sent /\ x.pc = "send") => Feed[k] \in c["priced"][x.on]

\* A task in state x that works on what nobody else touches
OnItsWay(c, x, m) ==
    /\ \A i \in DOMAIN m : Disturbs(m[i].reg, x.t.reg) => m[i].id = x.id
    /\ x.pc # "read" => x.on = OracleIn(c, x.t.reg)
    /\ x.pc # "read" /\ x.t.reg = "priced" => Priced(c, x)

\* Nothing under way disturbs a task that runs alone.
Alone(c, tk, m) ==
    \A o \in BusyIn(tk) : tk[o].alone =>
        /\ \A p \in BusyIn(tk) : p # o => ~ Disturbs(tk[p].t.reg, tk[o].t.reg)
        /\ OnItsWay(c, tk[o], m)

\* Nothing under way disturbs what is remembered.
Remembered(c, tk, m, a) ==
    \A r \in Registers : a[r] # <<>> =>
        \E t \in Menu :
            /\ a[r] = <<t>> /\ t.reg = r /\ HoldsIn(c, t)
            /\ \A o \in BusyIn(tk) : ~ Disturbs(tk[o].t.reg, r)
            /\ \A i \in DOMAIN m : ~ Disturbs(m[i].reg, r)

Sound(c, tk, m, a, s) ==
    Typed(c, tk, m, a, s) /\ Calls(tk, m) /\ Alone(c, tk, m) /\ Remembered(c, tk, m, a)

\* What the arguments of the tasks of the menu come to
LEMMA TaskFacts ==
    ASSUME NEW t \in Menu
    PROVE  /\ t.reg \in Registers
           /\ t.reg \in Switches => Want(t) \in BOOLEAN
           /\ t.reg \in {"owner", "feedAdmin"} => t.arg \in Accounts /\ Want(t) = t.arg
           /\ t.reg = "oracle" => t.arg \in Oracles /\ Want(t) = t.arg
           /\ t.reg \in {"keys", "priced"} => Want(t) = Assets
           /\ t.reg \in Flags => t.arg \in {"0", "1", "false"} /\ Want(t) = (t.arg # "0")
<1>1. t \in Tasks
    BY AdminAssumption
<1>2. CASE t.reg \in Flags
    BY <1>1, <1>2 DEF Tasks, Flags, Registers, Switches, Want, WantState
<1>3. CASE t.reg = "whitelisted"
    BY <1>3 DEF Flags, Registers, Switches, Want, EncodedFlag
<1>4. CASE t.reg = "usd"
    BY <1>4 DEF Flags, Registers, Switches, Want
<1>5. CASE t.reg \in {"keys", "priced"}
    BY <1>5 DEF Flags, Registers, Switches, Want
<1>6. CASE t.reg \in {"owner", "feedAdmin"}
    BY <1>1, <1>6 DEF Tasks, Flags, Registers, Switches, Want, Accounts
<1>7. CASE t.reg = "oracle"
    BY <1>1, <1>7 DEF Tasks, Flags, Registers, Switches, Want, Oracles
<1>8. t.reg \in Flags \cup {"whitelisted", "usd", "keys", "priced", "owner", "feedAdmin", "oracle"}
    BY <1>1 DEF Tasks
<1> QED
    BY <1>2, <1>3, <1>4, <1>5, <1>6, <1>7, <1>8

LEMMA FeedFacts ==
    /\ Len(Feed) \in Nat \ {0}
    /\ \A k \in 1..Len(Feed) : Feed[k] \in Assets
    /\ \A x \in Assets : \E k \in 1..Len(Feed) : x = Feed[k]
    /\ \A t \in Menu : CallsOf(t) \in 1..Len(Feed)
<1>1. Feed \in Seq(Assets) /\ Feed # <<>>
    BY AdminAssumption
<1>2. Len(Feed) \in Nat \ {0} /\ DOMAIN Feed = 1..Len(Feed)
    BY <1>1, EmptySeq, LenProperties
<1> QED
    BY <1>2 DEF Assets, CallsOf

LEMMA SeqFacts ==
    ASSUME NEW m, IsSeq(m)
    PROVE  Len(m) \in Nat /\ DOMAIN m = 1..Len(m)
    BY LenProperties DEF IsSeq

\* The mempool after a transaction was sent.
LEMMA AppendedTo ==
    ASSUME NEW m, IsSeq(m), NEW tx
    PROVE  LET n == Append(m, tx) IN
           /\ IsSeq(n)
           /\ DOMAIN n = DOMAIN m \cup {Len(m) + 1} /\ Len(m) + 1 \notin DOMAIN m
           /\ \A i \in DOMAIN m : n[i] = m[i]
           /\ n[Len(m) + 1] = tx
<1> DEFINE n == Append(m, tx)
           V == {m[i] : i \in DOMAIN m} \cup {tx}
<1>1. m \in Seq(V) /\ tx \in V
    BY SeqMonotonic DEF IsSeq
<1> HIDE DEF V
<1>2. /\ n \in Seq(V) /\ Len(n) = Len(m) + 1
      /\ \A i \in 1..Len(m) : n[i] = m[i]
      /\ n[Len(m) + 1] = tx
    BY <1>1, AppendProperties
<1>3. Len(m) \in Nat /\ DOMAIN m = 1..Len(m) /\ DOMAIN n = 1..(Len(m) + 1)
    BY <1>1, <1>2, LenProperties
<1>4. IsSeq(n)
  <2> DEFINE W == {n[i] : i \in DOMAIN n}
  <2> HIDE DEF n
  <2>1. \A i \in 1..Len(n) : n[i] \in W
      BY <1>2, <1>3
  <2>2. n \in [1..Len(n) -> V]
      BY <1>2, LenProperties
  <2>3. n \in [1..Len(n) -> W] /\ Len(n) \in Nat
      BY <1>2, <1>3, <2>1, <2>2
  <2> QED
      BY <2>3, SeqDef DEF IsSeq
<1> QED
    BY <1>2, <1>3, <1>4

\* The mempool without its transaction i
Without(m, i) == [j \in 1..(Len(m) - 1) |-> IF j < i THEN m[j] ELSE m[j + 1]]

\* The place in m of what is at j in Without(m, i)
Before(i, j) == IF j < i THEN j ELSE j + 1

LEMMA RemovedFrom ==
    ASSUME NEW m, IsSeq(m), NEW i \in DOMAIN m
    PROVE  LET n == Without(m, i) IN
           /\ IsSeq(n)
           /\ \A j \in DOMAIN n :
                 Before(i, j) \in DOMAIN m \ {i} /\ n[j] = m[Before(i, j)]
           /\ \A j, k \in DOMAIN n : Before(i, j) = Before(i, k) => j = k
<1> DEFINE n == Without(m, i)
           W == {n[j] : j \in DOMAIN n}
<1>1. Len(m) \in Nat /\ DOMAIN m = 1..Len(m) /\ i \in 1..Len(m)
    BY SeqFacts
<1>2. DOMAIN n = 1..(Len(m) - 1) /\ Len(m) - 1 \in Nat
    BY <1>1 DEF Without
<1>3. \A j \in DOMAIN n : Before(i, j) \in DOMAIN m \ {i} /\ n[j] = m[Before(i, j)]
    BY <1>1, <1>2 DEF Without, Before
<1>4. \A j, k \in DOMAIN n : Before(i, j) = Before(i, k) => j = k
    BY <1>1, <1>2 DEF Before
<1>5. n \in [1..(Len(m) - 1) -> W]
  <2>1. n = [j \in 1..(Len(m) - 1) |-> n[j]]
      BY <1>2 DEF Without
  <2> HIDE DEF n
  <2> QED
      BY <1>2, <2>1
<1>6. IsSeq(n)
  <2> HIDE DEF n, W
  <2>1. n \in Seq(W)
      BY <1>2, <1>5, SeqDef
  <2> QED
      BY <2>1 DEF IsSeq, W
<1> QED
    BY <1>3, <1>4, <1>6

-----------------------------------------------------------------------------
\* A task ends.
LEMMA FreedSound ==
    ASSUME NEW c, NEW tk, NEW m, NEW a, NEW s, Sound(c, tk, m, a, s), NEW o \in Operators
    PROVE  Sound(c, [tk EXCEPT ![o] = Idle], m, a, s)
<1> DEFINE new == [tk EXCEPT ![o] = Idle]
<1>1. tk \in [Operators -> {Idle} \cup Running]
    BY DEF Sound, Typed
<1>2. /\ new \in [Operators -> {Idle} \cup Running]
      /\ BusyIn(new) \subseteq BusyIn(tk)
      /\ \A p \in BusyIn(new) : new[p] = tk[p]
    BY <1>1 DEF BusyIn, Idle
<1> HIDE DEF new
<1>3. Typed(c, new, m, a, s)
    BY <1>2 DEF Sound, Typed
<1>4. Calls(new, m)
  <2>1. Calls(tk, m)
      BY DEF Sound
  <2> QED
      BY <1>2, <2>1 DEF Calls
<1>5. Alone(c, new, m)
  <2>1. Alone(c, tk, m)
      BY DEF Sound
  <2> QED
      BY <1>2, <2>1 DEF Alone
<1>6. Remembered(c, new, m, a)
  <2>1. Remembered(c, tk, m, a)
      BY DEF Sound
  <2> QED
      BY <1>2, <2>1 DEF Remembered
<1> QED
    BY <1>3, <1>4, <1>5, <1>6 DEF Sound, new

\* A task that ran alone reports what is so.
LEMMA ReportSound ==
    ASSUME NEW c, NEW tk, NEW m, NEW a, NEW s, Sound(c, tk, m, a, s), NEW o \in BusyIn(tk),
           tk[o].alone, HoldsIn(c, tk[o].t), \A i \in DOMAIN m : m[i].id # tk[o].id
    PROVE  Sound(c, [tk EXCEPT ![o] = Idle], m, [a EXCEPT ![tk[o].t.reg] = <<tk[o].t>>], s)
<1> DEFINE x == tk[o]
           q == x.t.reg
           freed == [tk EXCEPT ![o] = Idle]
           new == [a EXCEPT ![q] = <<x.t>>]
<1>1. /\ o \in Operators /\ tk \in [Operators -> {Idle} \cup Running]
      /\ a \in [Registers -> {<<>>} \cup {<<t>> : t \in Menu}]
    BY DEF BusyIn, Sound, Typed
<1>2. x \in Running
    BY <1>1 DEF BusyIn, Idle
<1>3. x.t \in Menu /\ q \in Registers
    BY <1>2, TaskFacts DEF Running
<1>4. /\ Typed(c, freed, m, a, s) /\ Calls(freed, m)
      /\ Alone(c, freed, m) /\ Remembered(c, freed, m, a)
    BY <1>1, FreedSound DEF Sound
<1>5. \A p \in BusyIn(freed) : p \in BusyIn(tk) /\ p # o /\ freed[p] = tk[p]
    BY <1>1 DEF BusyIn, Idle
<1>6. /\ new \in [Registers -> {<<>>} \cup {<<t>> : t \in Menu}]
      /\ new[q] = <<x.t>> /\ \A r \in Registers : r # q => new[r] = a[r]
    BY <1>1, <1>3
<1>7. /\ \A p \in BusyIn(tk) : p # o => ~ Disturbs(tk[p].t.reg, q)
      /\ \A i \in DOMAIN m : ~ Disturbs(m[i].reg, q)
    BY DEF Sound, Alone, OnItsWay
<1> HIDE DEF freed, new
<1>8. Remembered(c, freed, m, new)
  <2> SUFFICES ASSUME NEW r \in Registers, new[r] # <<>>
               PROVE  \E t \in Menu :
                        /\ new[r] = <<t>> /\ t.reg = r /\ HoldsIn(c, t)
                        /\ \A p \in BusyIn(freed) : ~ Disturbs(freed[p].t.reg, r)
                        /\ \A i \in DOMAIN m : ~ Disturbs(m[i].reg, r)
      BY DEF Remembered
  <2>1. CASE r = q
      BY <1>3, <1>5, <1>6, <1>7, <2>1
  <2>2. CASE r # q
      BY <1>4, <1>6, <2>2 DEF Remembered
  <2> QED
      BY <2>1, <2>2
<1>9. Typed(c, freed, m, new, s)
    BY <1>4, <1>6 DEF Typed
<1> QED
    BY <1>4, <1>8, <1>9 DEF Sound, freed, new

-----------------------------------------------------------------------------
\* The task of operator o moves on to state x, which is of the same task.
LEMMA MovedSound ==
    ASSUME NEW c, NEW tk, NEW m, NEW a, NEW s, Sound(c, tk, m, a, s), NEW o \in BusyIn(tk),
           NEW x \in Running, x.id = tk[o].id, x.t = tk[o].t, x.alone = tk[o].alone,
           OneCall(x, m), x.alone => OnItsWay(c, x, m)
    PROVE  Sound(c, [tk EXCEPT ![o] = x], m, a, s)
<1> DEFINE new == [tk EXCEPT ![o] = x]
<1>1. o \in Operators /\ tk \in [Operators -> {Idle} \cup Running]
    BY DEF BusyIn, Sound, Typed
<1>2. x.pc # "idle"
    BY DEF Running
<1>3. /\ new \in [Operators -> {Idle} \cup Running]
      /\ new[o] = x /\ \A p \in Operators : p # o => new[p] = tk[p]
    BY <1>1
<1>4. BusyIn(new) = BusyIn(tk)
    BY <1>2, <1>3 DEF BusyIn
<1> HIDE DEF new
<1>5. \A p \in BusyIn(tk) : /\ p \in Operators /\ new[p].id = tk[p].id /\ new[p].t = tk[p].t
                            /\ new[p].alone = tk[p].alone
    BY <1>3 DEF BusyIn
<1>6. Typed(c, new, m, a, s)
    BY <1>3, <1>4, <1>5 DEF Sound, Typed
<1>7. Calls(new, m)
    BY <1>3, <1>4, <1>5 DEF Sound, Calls
<1>8. Alone(c, new, m)
    BY <1>3, <1>4, <1>5 DEF Sound, Alone
<1>9. Remembered(c, new, m, a)
  <2> SUFFICES ASSUME NEW r \in Registers, a[r] # <<>>
               PROVE  \E t \in Menu :
                        /\ a[r] = <<t>> /\ t.reg = r /\ HoldsIn(c, t)
                        /\ \A p \in BusyIn(new) : ~ Disturbs(new[p].t.reg, r)
                        /\ \A i \in DOMAIN m : ~ Disturbs(m[i].reg, r)
      BY DEF Remembered
  <2> QED
      BY <1>4, <1>5 DEF Sound, Remembered
<1> QED
    BY <1>6, <1>7, <1>8, <1>9 DEF Sound, new

\* A task starts: the others it disturbs, and what it would disturb, are no longer
\* claimed to be alone and remembered.
LEMMA StartSound ==
    ASSUME Sound(chain, task, mempool, asked, started), NEW o \in Operators, Start(o)
    PROVE  Sound(chain, task', mempool, asked', started')
<1>1. /\ task \in [Operators -> {Idle} \cup Running] /\ started \in Nat
      /\ asked \in [Registers -> {<<>>} \cup {<<t>> : t \in Menu}]
    BY DEF Sound, Typed
<1>2. PICK t \in Menu :
        /\ task' = [p \in Operators |->
             IF p = o
             THEN [pc |-> "read", t |-> t, id |-> started + 1, sent |-> 0,
                   from |-> "deployer", on |-> "recorded",
                   alone |-> /\ \A q \in Operators \ {o} :
                                  Busy(q) => ~Disturbs(task[q].t.reg, t.reg)
                             /\ \A i \in DOMAIN mempool : ~Disturbs(mempool[i].reg, t.reg)]
             ELSE IF Busy(p) /\ Disturbs(t.reg, task[p].t.reg)
             THEN [task[p] EXCEPT !.alone = FALSE]
             ELSE task[p]]
        /\ asked' = [r \in Registers |-> IF Disturbs(t.reg, r) THEN <<>> ELSE asked[r]]
    BY DEF Start
<1>3. started' = started + 1 /\ ~ Busy(o)
    BY DEF Start
<1>4. /\ task'[o] \in Running /\ task'[o].pc = "read" /\ task'[o].t = t
      /\ task'[o].id = started + 1 /\ task'[o].sent = 0
      /\ task'[o].alone =>
            /\ \A q \in Operators : q # o /\ Busy(q) => ~Disturbs(task[q].t.reg, t.reg)
            /\ \A i \in DOMAIN mempool : ~Disturbs(mempool[i].reg, t.reg)
  <2> DEFINE alone == /\ \A q \in Operators \ {o} :
                            Busy(q) => ~Disturbs(task[q].t.reg, t.reg)
                      /\ \A i \in DOMAIN mempool : ~Disturbs(mempool[i].reg, t.reg)
  <2>1. alone \in BOOLEAN
      OBVIOUS
  <2>2. task'[o] = [pc |-> "read", t |-> t, id |-> started + 1, sent |-> 0,
                    from |-> "deployer", on |-> "recorded", alone |-> alone]
      BY <1>2
  <2>3. 0 \in 0..Len(Feed) /\ "deployer" \in Accounts /\ "recorded" \in Oracles
      BY FeedFacts DEF Accounts, Oracles
  <2>4. task'[o].alone = alone
      BY <2>2
  <2> HIDE DEF alone
  <2>5. /\ task'[o] \in Running /\ task'[o].pc = "read" /\ task'[o].t = t
        /\ task'[o].id = started + 1 /\ task'[o].sent = 0
      BY <1>1, <2>1, <2>2, <2>3 DEF Running
  <2> QED
      BY <2>4, <2>5 DEF alone
<1>5. \A p \in BusyIn(task) :
         /\ p \in Operators /\ p # o /\ Busy(p)
         /\ task[p] \in Running /\ task'[p] \in Running
         /\ task'[p] = task[p] \/ task'[p] = [task[p] EXCEPT !.alone = FALSE]
         /\ task'[p].alone => task'[p] = task[p] /\ ~ Disturbs(t.reg, task[p].t.reg)
  <2> SUFFICES ASSUME NEW p \in BusyIn(task)
               PROVE  /\ p \in Operators /\ p # o /\ Busy(p)
                      /\ task[p] \in Running /\ task'[p] \in Running
                      /\ task'[p] = task[p] \/ task'[p] = [task[p] EXCEPT !.alone = FALSE]
                      /\ task'[p].alone =>
                            task'[p] = task[p] /\ ~ Disturbs(t.reg, task[p].t.reg)
      OBVIOUS
  <2>1. p \in Operators /\ Busy(p) /\ p # o /\ task[p] \in Running
      BY <1>1, <1>3 DEF BusyIn, Busy, Idle
  <2>2. task'[p] = IF Busy(p) /\ Disturbs(t.reg, task[p].t.reg)
                   THEN [task[p] EXCEPT !.alone = FALSE] ELSE task[p]
      BY <1>2, <2>1
  <2>3. [task[p] EXCEPT !.alone = FALSE] \in Running
        /\ ~ [task[p] EXCEPT !.alone = FALSE].alone
      BY <2>1 DEF Running
  <2> QED
      BY <2>1, <2>2, <2>3
<1>6. /\ task' \in [Operators -> {Idle} \cup Running]
      /\ BusyIn(task') = BusyIn(task) \cup {o}
  <2>1. \A p \in Operators \ (BusyIn(task) \cup {o}) : task'[p] = task[p] /\ task[p] = Idle
      BY <1>1, <1>2 DEF BusyIn, Busy, Running
  <2>2. DOMAIN task' = Operators /\ task' = [p \in Operators |-> task'[p]]
      BY <1>2
  <2>3. \A p \in Operators : task'[p] \in {Idle} \cup Running
      BY <1>4, <1>5, <2>1
  <2>4. \A p \in Operators : task'[p].pc # "idle" <=> p \in BusyIn(task) \cup {o}
    <3>1. Idle.pc = "idle" /\ \A x \in Running : x.pc # "idle"
        BY DEF Running, Idle
    <3>2. \A p \in BusyIn(task) \cup {o} : task'[p] \in Running
        BY <1>4, <1>5
    <3> QED
        BY <2>1, <3>1, <3>2
  <2> QED
      BY <2>2, <2>3, <2>4 DEF BusyIn
<1>7. \A p \in BusyIn(task) :
         /\ task'[p].id = task[p].id /\ task'[p].t = task[p].t /\ task'[p].pc = task[p].pc
         /\ task'[p].sent = task[p].sent /\ task'[p].on = task[p].on
  <2>1. \A x \in Running : LET y == [x EXCEPT !.alone = FALSE] IN
           y.id = x.id /\ y.t = x.t /\ y.pc = x.pc /\ y.sent = x.sent /\ y.on = x.on
      BY DEF Running
  <2> QED
      BY ONLY <1>5, <2>1
<1>8. Typed(chain, task', mempool, asked', started')
  <2>1. started' \in Nat /\ 1..started \subseteq 1..started' /\ started + 1 \in 1..started'
      BY <1>1, <1>3
  <2>2. asked' \in [Registers -> {<<>>} \cup {<<u>> : u \in Menu}]
      BY <1>1, <1>2
  <2>3. /\ \A p \in BusyIn(task) : task[p].id \in 1..started
        /\ \A i \in DOMAIN mempool : TxOK(mempool[i], started)
        /\ ChainOK(chain) /\ IsSeq(mempool)
      BY DEF Sound, Typed
  <2>4. \A p \in BusyIn(task') : task'[p].id \in 1..started'
      BY <1>4, <1>6, <1>7, <2>1, <2>3
  <2>5. \A i \in DOMAIN mempool : TxOK(mempool[i], started')
      BY <2>1, <2>3 DEF TxOK
  <2> QED
      BY <1>6, <2>1, <2>2, <2>3, <2>4, <2>5 DEF Typed
<1>9. Calls(task', mempool)
  <2>1. /\ \A p \in BusyIn(task) : task[p].id \in 1..started
        /\ \A i \in DOMAIN mempool : mempool[i].id \in 1..started
        /\ Calls(task, mempool)
      BY DEF Sound, Typed, TxOK
  <2>2. \A p \in BusyIn(task) : task[p].id # started + 1
      BY <1>1, <2>1
  <2>3. \A i \in DOMAIN mempool : mempool[i].id # started + 1
      BY <1>1, <2>1
  <2>4. OneCall(task'[o], mempool)
      BY <1>4, <2>3 DEF OneCall
  <2>5. \A p \in BusyIn(task) : OneCall(task'[p], mempool)
    <3> SUFFICES ASSUME NEW p \in BusyIn(task)
                 PROVE  OneCall(task'[p], mempool)
        OBVIOUS
    <3>1. OneCall(task[p], mempool)
        BY <2>1 DEF Calls
    <3> QED
        BY <1>7, <3>1 DEF OneCall
  <2>6. \A p, q \in BusyIn(task') : task'[q].id = task'[p].id => q = p
      BY <1>4, <1>6, <1>7, <2>1, <2>2 DEF Calls
  <2> QED
      BY <1>6, <2>4, <2>5, <2>6 DEF Calls
<1>10. Alone(chain, task', mempool)
  <2> SUFFICES ASSUME NEW p \in BusyIn(task'), task'[p].alone
               PROVE  /\ \A q \in BusyIn(task') :
                            q # p => ~ Disturbs(task'[q].t.reg, task'[p].t.reg)
                      /\ OnItsWay(chain, task'[p], mempool)
      BY DEF Alone
  <2>1. CASE p = o
    <3>1. \A q \in BusyIn(task') : q # o => ~ Disturbs(task'[q].t.reg, t.reg)
        BY <1>4, <1>5, <1>6, <1>7, <2>1
    <3>2. OnItsWay(chain, task'[o], mempool)
        BY <1>4, <2>1 DEF OnItsWay
    <3> QED
        BY <1>4, <2>1, <3>1, <3>2
  <2>2. CASE p # o
    <3>1. p \in BusyIn(task) /\ task'[p] = task[p] /\ ~ Disturbs(t.reg, task[p].t.reg)
        BY <1>5, <1>6, <2>2
    <3>2. /\ \A q \in BusyIn(task) : q # p => ~ Disturbs(task[q].t.reg, task[p].t.reg)
          /\ OnItsWay(chain, task[p], mempool)
        BY <3>1 DEF Sound, Alone
    <3> QED
        BY <1>4, <1>6, <1>7, <3>1, <3>2
  <2> QED
      BY <2>1, <2>2
<1>11. Remembered(chain, task', mempool, asked')
  <2> SUFFICES ASSUME NEW r \in Registers, asked'[r] # <<>>
               PROVE  \E u \in Menu :
                        /\ asked'[r] = <<u>> /\ u.reg = r /\ HoldsIn(chain, u)
                        /\ \A p \in BusyIn(task') : ~ Disturbs(task'[p].t.reg, r)
                        /\ \A i \in DOMAIN mempool : ~ Disturbs(mempool[i].reg, r)
      BY DEF Remembered
  <2>1. asked'[r] = asked[r] /\ ~ Disturbs(t.reg, r)
      BY <1>2
  <2>2. PICK u \in Menu :
                        /\ asked[r] = <<u>> /\ u.reg = r /\ HoldsIn(chain, u)
                        /\ \A p \in BusyIn(task) : ~ Disturbs(task[p].t.reg, r)
                        /\ \A i \in DOMAIN mempool : ~ Disturbs(mempool[i].reg, r)
      BY <2>1 DEF Sound, Remembered
  <2>3. \A p \in BusyIn(task') : ~ Disturbs(task'[p].t.reg, r)
      BY <1>4, <1>6, <1>7, <2>1, <2>2
  <2> QED
      BY <2>1, <2>2, <2>3
<1> QED
    BY <1>8, <1>9, <1>10, <1>11 DEF Sound

\* A task has read what it needs and sends next.
LEMMA ReadSound ==
    ASSUME Sound(chain, task, mempool, asked, started), NEW o \in Operators, Read(o)
    PROVE  Sound(chain, task', mempool, asked', started')
<1> DEFINE x == task[o]
           t == x.t
<1>1. o \in BusyIn(task) /\ x \in Running /\ x.pc = "read"
    BY DEF Read, BusyIn, Sound, Typed, Idle
<1>2. t \in Menu
    BY <1>1 DEF Running
<1>3. started' = started
    BY DEF Read
<1>4. OneCall(x, mempool) /\ x.sent = 0 /\ \A i \in DOMAIN mempool : mempool[i].id # x.id
    BY <1>1 DEF Sound, Calls, OneCall
<1>5. CASE NothingToDo(t) /\ Finish(o)
  <2>1. task' = [task EXCEPT ![o] = Idle]
      BY <1>5 DEF Finish
  <2>2. CASE ~ x.alone
    <3>1. asked' = asked
        BY <1>5, <2>2 DEF Finish
    <3> QED
        BY <1>3, <2>1, <3>1, FreedSound
  <2>3. CASE x.alone
    <3>1. asked' = [asked EXCEPT ![t.reg] = <<t>>]
        BY <1>5, <2>3 DEF Finish
    <3>2. t.reg \in Flags /\ chain[t.reg] = Want(t)
        BY <1>5 DEF NothingToDo, CurrentState
    <3>3. HoldsIn(chain, t)
        BY <1>2, <3>2, TaskFacts DEF HoldsIn, Flags
    <3> QED
        BY <1>1, <1>3, <1>4, <2>1, <2>3, <3>1, <3>3, ReportSound
  <2> QED
      BY <2>2, <2>3
<1>6. CASE Existing(t) /\ Fail(o)
    BY <1>3, <1>6, FreedSound DEF Fail
<1>7. CASE /\ ~NothingToDo(t) /\ ~Existing(t)
           /\ task' = [task EXCEPT ![o].pc = "send", ![o].from = SignerOf(t.reg),
                                   ![o].on = OracleOf(t.reg)]
           /\ UNCHANGED asked
  <2> DEFINE y == [x EXCEPT !.pc = "send", !.from = SignerOf(t.reg), !.on = OracleOf(t.reg)]
  <2>1. ChainOK(chain)
      BY DEF Sound, Typed
  <2>2. OracleOf(t.reg) \in Oracles /\ OracleOf(t.reg) = OracleIn(chain, t.reg)
      BY <2>1 DEF OracleOf, OracleIn, ChainOK, Oracles
  <2>3. SignerOf(t.reg) \in Accounts
    <3>1. chain["owner"]["recorded"] \in Accounts /\ chain["feedAdmin"][chain["oracle"]] \in Accounts
        BY <2>1 DEF ChainOK, Oracles
    <3> QED
        BY <3>1 DEF SignerOf, Accounts
  <2>4. task' = [task EXCEPT ![o] = y]
      BY <1>7
  <2>5. /\ y \in Running /\ y.id = x.id /\ y.t = t /\ y.alone = x.alone /\ y.pc = "send"
        /\ y.sent = 0 /\ y.on = OracleOf(t.reg)
      BY <1>1, <1>4, <2>2, <2>3 DEF Running
  <2> HIDE DEF y
  <2>6. OneCall(y, mempool)
      BY <1>2, <1>4, <2>5, FeedFacts DEF OneCall
  <2>7. x.alone => OnItsWay(chain, y, mempool)
    <3>1. Priced(chain, y)
        BY <2>5, FeedFacts DEF Priced
    <3>2. x.alone => OnItsWay(chain, x, mempool)
        BY <1>1 DEF Sound, Alone
    <3> QED
        BY <2>2, <2>5, <3>1, <3>2 DEF OnItsWay
  <2> HIDE DEF x, t
  <2>8. Sound(chain, [task EXCEPT ![o] = y], mempool, asked, started)
      BY <1>1, <2>5, <2>6, <2>7, MovedSound DEF x, t
  <2> QED
      BY <1>3, <1>7, <2>4, <2>8
<1> QED
    BY <1>5, <1>6, <1>7 DEF Read

\* A task sends a transaction, and waits for it.
LEMMA SendSound ==
    ASSUME Sound(chain, task, mempool, asked, started), NEW o \in Operators, Send(o)
    PROVE  Sound(chain, task', mempool', asked', started')
<1> DEFINE x == task[o]
           t == x.t
           tx == CallOf(o)
           y == [x EXCEPT !.pc = "wait", !.sent = @ + 1]
<1>1. o \in BusyIn(task) /\ o \in Operators /\ x \in Running /\ x.pc = "send"
    BY DEF Send, BusyIn, Sound, Typed, Idle
<1>2. t \in Menu /\ x.sent \in 0..Len(Feed) /\ x.id \in 1..started /\ x.on \in Oracles
    BY <1>1 DEF Running, Sound, Typed
<1>3. started' = started
    BY DEF Send
<1>4. CASE ~(tx.from \in Keys /\ Accepted(tx)) /\ Fail(o) /\ UNCHANGED mempool
    BY <1>3, <1>4, FreedSound DEF Fail
<1>5. CASE /\ mempool' = Append(mempool, tx)
           /\ task' = [task EXCEPT ![o].pc = "wait", ![o].sent = @ + 1]
           /\ UNCHANGED asked
  <2>1. /\ x.sent < CallsOf(t) /\ CallsOf(t) \in 1..Len(Feed)
        /\ \A i \in DOMAIN mempool : mempool[i].id # x.id
      BY <1>1, <1>2, FeedFacts DEF Sound, Calls, OneCall
  <2>2. x.sent + 1 \in 1..CallsOf(t) /\ x.sent + 1 \in 1..Len(Feed)
      BY <1>2, <2>1, FeedFacts
  <2>3. /\ tx.reg = t.reg /\ tx.id = x.id /\ tx.on = x.on
        /\ tx.value = IF t.reg = "priced" THEN {Feed[x.sent + 1]} ELSE Want(t)
      BY DEF CallOf
  <2>4. task' = [task EXCEPT ![o] = y]
      BY <1>5
  <2>5. /\ y \in Running /\ y.id = x.id /\ y.t = t /\ y.alone = x.alone /\ y.on = x.on
        /\ y.pc = "wait" /\ y.sent = x.sent + 1
    <3>1. x.sent + 1 \in 0..Len(Feed)
        BY <2>2, FeedFacts
    <3> HIDE DEF x
    <3> QED
        BY <1>1, <3>1 DEF Running
  <2> HIDE DEF y, tx
  <2> DEFINE new == mempool'
             last == Len(mempool) + 1
  <2>6. /\ IsSeq(new) /\ DOMAIN new = DOMAIN mempool \cup {last} /\ last \notin DOMAIN mempool
        /\ \A i \in DOMAIN mempool : new[i] = mempool[i]
        /\ new[last] = tx
      BY <1>5, AppendedTo DEF Sound, Typed
  <2>7. TxOK(tx, started)
    <3>1. t.reg # "priced" => ValueOK(t.reg, Want(t))
        BY <1>2, TaskFacts DEF ValueOK, Switches, Flags
    <3>2. ValueOK("priced", {Feed[x.sent + 1]})
        BY <2>2, FeedFacts DEF ValueOK, Switches, Flags
    <3> QED
        BY <1>2, <2>3, <3>1, <3>2, TaskFacts DEF TxOK
  <2> HIDE DEF new, last
  \* the other tasks do not mind
  <2>8. /\ Typed(chain, task, new, asked, started)
        /\ \A p \in BusyIn(task) : p # o => OneCall(task[p], new)
        /\ \A p \in BusyIn(task) : p # o /\ task[p].alone => OnItsWay(chain, task[p], new)
        /\ Remembered(chain, task, new, asked)
    <3>1. Typed(chain, task, new, asked, started)
        BY <2>6, <2>7 DEF Sound, Typed
    <3>2. \A p \in BusyIn(task) : p # o => task[p].id # x.id /\ OneCall(task[p], mempool)
        BY <1>1 DEF Sound, Calls
    <3>3. \A p \in BusyIn(task) : p # o => OneCall(task[p], new)
      <4> SUFFICES ASSUME NEW p \in BusyIn(task), p # o
                   PROVE  OneCall(task[p], new)
          OBVIOUS
      <4>1. OneCall(task[p], mempool) /\ task[p].id # tx.id
          BY <2>3, <3>2
      <4> QED
          BY <2>6, <4>1 DEF OneCall
    <3>4. \A p \in BusyIn(task) : p # o /\ task[p].alone => OnItsWay(chain, task[p], new)
      <4> SUFFICES ASSUME NEW p \in BusyIn(task), p # o, task[p].alone
                   PROVE  OnItsWay(chain, task[p], new)
          OBVIOUS
      <4>1. OnItsWay(chain, task[p], mempool) /\ ~ Disturbs(tx.reg, task[p].t.reg)
          BY <1>1, <2>3 DEF Sound, Alone
      <4> QED
          BY <2>6, <4>1 DEF OnItsWay
    <3>5. Remembered(chain, task, new, asked)
      <4> SUFFICES ASSUME NEW r \in Registers, asked[r] # <<>>
                   PROVE  \E u \in Menu :
                            /\ asked[r] = <<u>> /\ u.reg = r /\ HoldsIn(chain, u)
                            /\ \A p \in BusyIn(task) : ~ Disturbs(task[p].t.reg, r)
                            /\ \A i \in DOMAIN new : ~ Disturbs(new[i].reg, r)
          BY DEF Remembered
      <4> PICK u \in Menu :
                            /\ asked[r] = <<u>> /\ u.reg = r /\ HoldsIn(chain, u)
                            /\ \A p \in BusyIn(task) : ~ Disturbs(task[p].t.reg, r)
                            /\ \A i \in DOMAIN mempool : ~ Disturbs(mempool[i].reg, r)
          BY DEF Sound, Remembered
      <4> QED
          BY <1>1, <2>3, <2>6
    <3> QED
        BY <3>1, <3>3, <3>4, <3>5
  <2>9. OneCall(y, new)
      BY <2>1, <2>2, <2>3, <2>5, <2>6 DEF OneCall
  <2>10. y.alone => OnItsWay(chain, y, new)
    <3> SUFFICES ASSUME y.alone
                 PROVE  OnItsWay(chain, y, new)
        OBVIOUS
    <3>1. OnItsWay(chain, x, mempool)
        BY <1>1, <2>5 DEF Sound, Alone
    <3>2. t.reg = "priced" => Priced(chain, y)
        BY <1>1, <1>2, <2>5, <3>1 DEF OnItsWay, Priced
    <3> QED
        BY <1>1, <2>3, <2>5, <2>6, <3>1, <3>2 DEF OnItsWay
  <2>11. BusyIn(task') = BusyIn(task) /\ task'[o] = y
         /\ \A p \in BusyIn(task) : /\ p # o => task'[p] = task[p]
                                    /\ task'[p].id = task[p].id /\ task'[p].t = task[p].t
    <3>1. task \in [Operators -> {Idle} \cup Running]
        BY DEF Sound, Typed
    <3> QED
        BY <1>1, <2>4, <2>5, <3>1 DEF BusyIn
  <2>12. Typed(chain, task', new, asked, started)
    <3>1. task' \in [Operators -> {Idle} \cup Running]
        BY <1>1, <2>4, <2>5, <2>8 DEF Typed
    <3> QED
        BY <2>8, <2>11, <3>1 DEF Typed
  <2>13. Calls(task', new)
      BY <2>8, <2>9, <2>11 DEF Calls, Sound
  <2>14. Alone(chain, task', new)
      BY <2>8, <2>10, <2>11, <2>5 DEF Alone, Sound
  <2>15. Remembered(chain, task', new, asked)
    <3> SUFFICES ASSUME NEW r \in Registers, asked[r] # <<>>
                 PROVE  \E u \in Menu :
                          /\ asked[r] = <<u>> /\ u.reg = r /\ HoldsIn(chain, u)
                          /\ \A p \in BusyIn(task') : ~ Disturbs(task'[p].t.reg, r)
                          /\ \A i \in DOMAIN new : ~ Disturbs(new[i].reg, r)
        BY DEF Remembered
    <3> QED
        BY <2>8, <2>11 DEF Remembered
  <2> QED
      BY <1>3, <1>5, <2>12, <2>13, <2>14, <2>15 DEF Sound, new
<1> QED
    BY <1>4, <1>5 DEF Send

-----------------------------------------------------------------------------
\* A transaction is applied.
LEMMA AppliedRegister ==
    ASSUME ChainOK(chain), NEW tx, NEW s, TxOK(tx, s)
    PROVE  LET c == Applied(tx) IN
           /\ ChainOK(c)
           /\ \A r \in Registers : r # tx.reg => c[r] = chain[r]
           /\ tx.reg \in {"keys", "priced"} =>
                 /\ c[tx.reg][tx.on] = chain[tx.reg][tx.on] \cup tx.value
                 /\ \A on \in Oracles : chain[tx.reg][on] \subseteq c[tx.reg][on]
           /\ tx.reg \in {"owner", "feedAdmin"} => c[tx.reg][tx.on] = tx.value
           /\ tx.reg \in Switches \cup {"oracle"} => c[tx.reg] = tx.value
<1> DEFINE c == Applied(tx)
           g == tx.reg
<1>1. /\ g \in Registers /\ tx.on \in Oracles /\ ValueOK(g, tx.value)
      /\ DOMAIN chain = Registers
    BY DEF TxOK, ChainOK
<1>2. CASE g \in {"keys", "priced"}
  <2> DEFINE f == [chain[g] EXCEPT ![tx.on] = @ \cup tx.value]
  <2>1. c = [chain EXCEPT ![g] = f]
      BY <1>2 DEF Applied
  <2>2. chain[g] \in [Oracles -> SUBSET Assets] /\ tx.value \in SUBSET Assets
      BY <1>1, <1>2 DEF ChainOK, ValueOK
  <2>3. /\ f \in [Oracles -> SUBSET Assets] /\ f[tx.on] = chain[g][tx.on] \cup tx.value
        /\ \A on \in Oracles : chain[g][on] \subseteq f[on]
      BY <1>1, <2>2
  <2> HIDE DEF f, c
  <2>4. c[g] = f /\ DOMAIN c = Registers /\ \A r \in Registers : r # g => c[r] = chain[r]
      BY <1>1, <2>1
  <2>5. ChainOK(c)
      BY <1>2, <2>3, <2>4 DEF ChainOK, Switches, Flags, Registers
  <2> QED
      BY <1>2, <2>3, <2>4, <2>5 DEF Switches, Flags, c
<1>3. CASE g \in {"owner", "feedAdmin"}
  <2> DEFINE f == [chain[g] EXCEPT ![tx.on] = tx.value]
  <2>1. c = [chain EXCEPT ![g] = f]
      BY <1>3 DEF Applied
  <2>2. chain[g] \in [Oracles -> Accounts] /\ tx.value \in Accounts
      BY <1>1, <1>3 DEF ChainOK, ValueOK
  <2>3. f \in [Oracles -> Accounts] /\ f[tx.on] = tx.value
      BY <1>1, <2>2
  <2> HIDE DEF f, c
  <2>4. c[g] = f /\ DOMAIN c = Registers /\ \A r \in Registers : r # g => c[r] = chain[r]
      BY <1>1, <2>1
  <2>5. ChainOK(c)
      BY <1>3, <2>3, <2>4 DEF ChainOK, Switches, Flags, Registers
  <2> QED
      BY <1>3, <2>3, <2>4, <2>5 DEF Switches, Flags, c
<1>4. CASE g \in Switches \cup {"oracle"}
  <2>1. c = [chain EXCEPT ![g] = tx.value]
      BY <1>4 DEF Applied, Switches, Flags
  <2> HIDE DEF c
  <2>2. c[g] = tx.value /\ DOMAIN c = Registers /\ \A r \in Registers : r # g => c[r] = chain[r]
      BY <1>1, <2>1
  <2>3. ChainOK(c)
      BY <1>1, <1>4, <2>2 DEF ChainOK, Switches, Flags, Registers, ValueOK
  <2> QED
      BY <1>4, <2>2, <2>3 DEF Switches, Flags, c
<1>5. g \in {"keys", "priced", "owner", "feedAdmin"} \cup Switches \cup {"oracle"}
    BY <1>1 DEF Registers, Switches
<1> QED
    BY <1>2, <1>3, <1>4, <1>5

\* HoldsIn, case by case
LEMMA HoldsCases ==
    ASSUME NEW c, NEW t
    PROVE  /\ t.reg = "priced" => (HoldsIn(c, t) <=> c["priced"][c["oracle"]] = Assets)
           /\ t.reg = "feedAdmin" => (HoldsIn(c, t) <=> c["feedAdmin"][c["oracle"]] = t.arg)
           /\ t.reg = "owner" => (HoldsIn(c, t) <=> c["owner"]["recorded"] = t.arg)
           /\ t.reg = "keys" => (HoldsIn(c, t) <=> c["keys"]["recorded"] = Assets)
           /\ t.reg \in Flags /\ t.arg \in {"0", "1"} =>
                 (HoldsIn(c, t) <=> c[t.reg] = (t.arg = "1"))
           /\ t.reg \notin {"priced", "feedAdmin", "owner", "keys"}
              /\ ~ (t.reg \in Flags /\ t.arg \in {"0", "1"}) =>
                 (HoldsIn(c, t) <=> c[t.reg] = Want(t))
<1>1. CASE t.reg \in {"priced", "feedAdmin", "owner", "keys"}
    BY <1>1 DEF HoldsIn, Flags
<1>2. CASE t.reg \in Flags /\ t.arg \in {"0", "1"}
    BY <1>2 DEF HoldsIn, Flags
<1>3. CASE /\ t.reg \notin {"priced", "feedAdmin", "owner", "keys"}
           /\ ~ (t.reg \in Flags /\ t.arg \in {"0", "1"})
    BY <1>3 DEF HoldsIn, Flags
<1> QED
    BY <1>1, <1>2, <1>3

\* What a transaction does not disturb it leaves true.
LEMMA UndisturbedHolds ==
    ASSUME ChainOK(chain), NEW tx, NEW s, TxOK(tx, s), NEW t \in Menu,
           ~ Disturbs(tx.reg, t.reg), HoldsIn(chain, t)
    PROVE  HoldsIn(Applied(tx), t)
<1> DEFINE c == Applied(tx)
<1>1. \A r \in Registers : r # tx.reg => c[r] = chain[r]
    BY AppliedRegister
<1>2. t.reg \in Registers /\ t.reg # tx.reg
    BY TaskFacts DEF Disturbs
<1>3. c[t.reg] = chain[t.reg]
    BY <1>1, <1>2
<1>4. t.reg \in {"feedAdmin", "priced"} => c["oracle"] = chain["oracle"]
    BY <1>1 DEF Disturbs, Registers
<1> SUFFICES HoldsIn(c, t)
    OBVIOUS
<1> HIDE DEF c
<1>5. CASE t.reg \in {"feedAdmin", "priced"}
    BY <1>3, <1>4, <1>5, HoldsCases
<1>6. CASE t.reg \notin {"feedAdmin", "priced"}
    BY <1>3, <1>6, HoldsCases
<1> QED
    BY <1>5, <1>6

\* The block in which transaction i is mined, before its task hears of it.
LEMMA AppliedSound ==
    ASSUME Sound(chain, task, mempool, asked, started), NEW i \in DOMAIN mempool,
           NEW c, c = chain \/ c = Applied(mempool[i])
    PROVE  Sound(c, task, Without(mempool, i), asked, started)
<1> DEFINE tx == mempool[i]
           rest == Without(mempool, i)
<1>1. /\ ChainOK(chain) /\ TxOK(tx, started) /\ IsSeq(mempool)
      /\ \A j \in DOMAIN mempool : TxOK(mempool[j], started)
    BY DEF Sound, Typed
<1>2. /\ IsSeq(rest)
      /\ \A j \in DOMAIN rest : Before(i, j) \in DOMAIN mempool \ {i} /\ rest[j] = mempool[Before(i, j)]
      /\ \A j, k \in DOMAIN rest : Before(i, j) = Before(i, k) => j = k
    BY <1>1, RemovedFrom
<1>3. /\ ChainOK(c)
      /\ \A r \in Registers : r # tx.reg => c[r] = chain[r]
      /\ \A on \in Oracles : chain["priced"][on] \subseteq c["priced"][on]
    BY <1>1, AppliedRegister DEF Registers
<1> HIDE DEF tx, rest
<1>4. Typed(c, task, rest, asked, started)
    BY <1>1, <1>2, <1>3 DEF Sound, Typed
<1>5. Calls(task, rest)
  <2> SUFFICES ASSUME NEW o \in BusyIn(task)
               PROVE  OneCall(task[o], rest)
      BY DEF Sound, Calls
  <2>1. OneCall(task[o], mempool)
      BY DEF Sound, Calls
  <2> QED
      BY <1>2, <2>1 DEF OneCall
<1>6. Alone(c, task, rest)
  <2> SUFFICES ASSUME NEW o \in BusyIn(task), task[o].alone
               PROVE  OnItsWay(c, task[o], rest)
      BY DEF Sound, Alone
  <2> DEFINE x == task[o]
  <2>1. OnItsWay(chain, x, mempool)
      BY DEF Sound, Alone
  <2>2. \A j \in DOMAIN rest : Disturbs(rest[j].reg, x.t.reg) => rest[j].id = x.id
      BY <1>2, <2>1 DEF OnItsWay
  <2>3. x \in Running /\ OneCall(x, mempool)
      BY DEF Sound, Calls, Typed, BusyIn, Idle
  <2>4. x.t.reg \in {"feedAdmin", "priced"} => c["oracle"] = chain["oracle"]
    <3> SUFFICES ASSUME x.t.reg \in {"feedAdmin", "priced"}
                 PROVE  tx.reg # "oracle"
        BY <1>3 DEF Registers
    <3>1. tx.id = x.id => tx.reg = x.t.reg
        BY <2>3 DEF OneCall, tx
    <3> QED
        BY <2>1, <3>1 DEF OnItsWay, Disturbs, tx
  <2>5. x.pc # "read" => x.on = OracleIn(c, x.t.reg)
      BY <2>1, <2>4 DEF OnItsWay, OracleIn
  <2>6. x.pc # "read" /\ x.t.reg = "priced" => Priced(c, x)
      BY <1>3, <2>1, <2>3 DEF OnItsWay, Priced, Running
  <2> QED
      BY <2>2, <2>5, <2>6 DEF OnItsWay
<1>7. Remembered(c, task, rest, asked)
  <2> SUFFICES ASSUME NEW r \in Registers, asked[r] # <<>>
               PROVE  \E u \in Menu :
                        /\ asked[r] = <<u>> /\ u.reg = r /\ HoldsIn(c, u)
                        /\ \A p \in BusyIn(task) : ~ Disturbs(task[p].t.reg, r)
                        /\ \A j \in DOMAIN rest : ~ Disturbs(rest[j].reg, r)
      BY DEF Remembered
  <2> PICK u \in Menu :
                        /\ asked[r] = <<u>> /\ u.reg = r /\ HoldsIn(chain, u)
                        /\ \A p \in BusyIn(task) : ~ Disturbs(task[p].t.reg, r)
                        /\ \A j \in DOMAIN mempool : ~ Disturbs(mempool[j].reg, r)
      BY DEF Sound, Remembered
  <2>1. HoldsIn(c, u)
      BY <1>1, UndisturbedHolds DEF tx
  <2>2. \A j \in DOMAIN rest : ~ Disturbs(rest[j].reg, r)
      BY <1>2
  <2> QED
      BY <2>1, <2>2
<1> QED
    BY <1>4, <1>5, <1>6, <1>7 DEF Sound, rest

\* What the task of operator o waited for was done.
LEMMA OwnCallDone ==
    ASSUME Sound(chain, task, mempool, asked, started), NEW i \in DOMAIN mempool,
           NEW o \in BusyIn(task), task[o].id = mempool[i].id, task[o].alone
    PROVE  LET c == Applied(mempool[i])
               x == task[o]
           IN  /\ x.t.reg = "priced" => \A k \in 1..x.sent : Feed[k] \in c["priced"][x.on]
               /\ x.sent = CallsOf(x.t) => HoldsIn(c, x.t)
<1> DEFINE tx == mempool[i]
           x == task[o]
           t == x.t
           c == Applied(tx)
<1>1. ChainOK(chain) /\ TxOK(tx, started) /\ x \in Running /\ x.on \in Oracles /\ t \in Menu
    BY DEF Sound, Typed, BusyIn, Idle, Running
<1>2. /\ x.pc = "wait" /\ x.sent \in 1..CallsOf(t) /\ tx.reg = t.reg /\ tx.on = x.on
      /\ tx.value = IF t.reg = "priced" THEN {Feed[x.sent]} ELSE Want(t)
    BY DEF Sound, Calls, OneCall
<1>3. OnItsWay(chain, x, mempool)
    BY DEF Sound, Alone
<1>4. x.on = OracleIn(chain, t.reg)
    BY <1>2, <1>3 DEF OnItsWay
<1>5. /\ ChainOK(c)
      /\ \A r \in Registers : r # t.reg => c[r] = chain[r]
      /\ t.reg \in {"keys", "priced"} =>
            /\ c[t.reg][x.on] = chain[t.reg][x.on] \cup tx.value
            /\ \A on \in Oracles : chain[t.reg][on] \subseteq c[t.reg][on]
      /\ t.reg \in {"owner", "feedAdmin"} => c[t.reg][x.on] = tx.value
      /\ t.reg \in Switches \cup {"oracle"} => c[t.reg] = tx.value
  <2>1. ChainOK(chain) /\ TxOK(tx, started) /\ tx.reg = t.reg /\ tx.on = x.on
      BY <1>1, <1>2
  <2> HIDE DEF tx, x, t
  <2> QED
      BY ONLY <2>1, AppliedRegister
<1> HIDE DEF tx, x, t, c
<1>6. t.reg \in {"feedAdmin", "priced"} => x.on = c["oracle"]
    BY <1>4, <1>5 DEF OracleIn, Registers
<1>7. t.reg \notin {"feedAdmin", "priced"} => x.on = "recorded"
    BY <1>4 DEF OracleIn
<1>8. t.reg = "priced" => \A k \in 1..x.sent : Feed[k] \in c["priced"][x.on]
  <2> SUFFICES ASSUME t.reg = "priced", NEW k \in 1..x.sent
               PROVE  Feed[k] \in c["priced"][x.on]
      OBVIOUS
  <2>1. CASE k = x.sent
      BY <1>2, <1>5, <2>1
  <2>2. CASE k # x.sent
    <3>1. Priced(chain, x)
        BY <1>2, <1>3 DEF OnItsWay, t
    <3>2. k < x.sent /\ k \in 1..Len(Feed)
        BY <1>1, <1>2, <2>2, FeedFacts DEF Running
    <3>3. Feed[k] \in chain["priced"][x.on]
        BY <3>1, <3>2 DEF Priced
    <3> QED
        BY <1>1, <1>5, <3>3
  <2> QED
      BY <2>1, <2>2
<1>9. x.sent = CallsOf(t) => HoldsIn(c, t)
  <2> SUFFICES ASSUME x.sent = CallsOf(t)
               PROVE  HoldsIn(c, t)
      OBVIOUS
  <2>1. CASE t.reg = "priced"
    <3>1. c["priced"][x.on] \subseteq Assets
        BY <1>1, <1>5 DEF ChainOK
    <3>2. Assets \subseteq c["priced"][x.on]
        BY <1>8, <2>1, FeedFacts DEF CallsOf
    <3>3. c["priced"][c["oracle"]] = Assets
        BY <1>6, <2>1, <3>1, <3>2
    <3> QED
        BY <2>1, <3>3, HoldsCases
  <2>2. CASE t.reg = "feedAdmin"
    <3>1. c["feedAdmin"][c["oracle"]] = t.arg
        BY <1>1, <1>2, <1>5, <1>6, <2>2, TaskFacts
    <3> QED
        BY <2>2, <3>1, HoldsCases
  <2>3. CASE t.reg = "owner"
    <3>1. c["owner"]["recorded"] = t.arg
        BY <1>1, <1>2, <1>5, <1>7, <2>3, TaskFacts
    <3> QED
        BY <2>3, <3>1, HoldsCases
  <2>4. CASE t.reg = "keys"
    <3>1. c["keys"]["recorded"] \subseteq Assets
        BY <1>1, <1>5 DEF ChainOK, Oracles
    <3>2. Assets \subseteq c["keys"]["recorded"]
        BY <1>1, <1>2, <1>5, <1>7, <2>4, TaskFacts
    <3>3. c["keys"]["recorded"] = Assets
        BY <3>1, <3>2
    <3> QED
        BY <2>4, <3>3, HoldsCases
  <2>5. CASE t.reg \in Switches \cup {"oracle"}
    <3>1. c[t.reg] = Want(t)
        BY <1>2, <1>5, <2>5 DEF Switches, Flags
    <3>2. t.reg \in Flags /\ t.arg \in {"0", "1"} => Want(t) = (t.arg = "1")
        BY <1>1, TaskFacts
    <3> QED
        BY <2>5, <3>1, <3>2, HoldsCases DEF Switches, Flags
  <2>6. t.reg \in {"priced", "feedAdmin", "owner", "keys"} \cup Switches \cup {"oracle"}
      BY <1>1, TaskFacts DEF Registers, Switches
  <2> QED
      BY <2>1, <2>2, <2>3, <2>4, <2>5, <2>6
<1> QED
    BY <1>8, <1>9 DEF c, x, t, tx

LEMMA MineSound ==
    ASSUME Sound(chain, task, mempool, asked, started), NEW i, Mine(i)
    PROVE  Sound(chain', task', mempool', asked', started')
<1> DEFINE tx == mempool[i]
           rest == Without(mempool, i)
           waiting == {o \in Operators : Busy(o) /\ task[o].id = tx.id}
<1>1. /\ i \in DOMAIN mempool /\ mempool' = rest /\ started' = started
      /\ chain' = IF Accepted(tx) THEN Applied(tx) ELSE chain
      /\ Receipt(i, Accepted(tx))
    BY DEF Mine, Remove, Without
<1>2. Sound(chain', task, rest, asked, started)
    BY <1>1, AppliedSound
<1> HIDE DEF rest
<1>3. CASE UNCHANGED <<task, asked>>
    BY <1>1, <1>2, <1>3
<1>4. ASSUME NEW o \in waiting, ~ Accepted(tx), Fail(o)
      PROVE  Sound(chain', task', mempool', asked', started')
    BY <1>1, <1>2, <1>4, FreedSound DEF Fail
<1>5. ASSUME NEW o \in waiting
      PROVE  /\ o \in BusyIn(task) /\ task[o].id = tx.id /\ task[o] \in Running
             /\ task[o].pc = "wait" /\ task[o].sent \in 1..CallsOf(task[o].t)
             /\ \A j \in DOMAIN rest : rest[j].id # task[o].id
  <2>1. o \in BusyIn(task) /\ task[o].id = tx.id /\ task[o] \in Running
      BY <1>5 DEF Busy, BusyIn, Sound, Typed, Idle
  <2>2. OneCall(task[o], mempool)
      BY <2>1 DEF Sound, Calls
  <2>3. \A j \in DOMAIN rest : Before(i, j) \in DOMAIN mempool \ {i} /\ rest[j] = mempool[Before(i, j)]
      BY <1>1, RemovedFrom DEF Sound, Typed, rest
  <2> QED
      BY <1>1, <2>1, <2>2, <2>3 DEF OneCall
<1>6. ASSUME NEW o \in waiting, Accepted(tx), task[o].sent = CallsOf(task[o].t), Finish(o)
      PROVE  Sound(chain', task', mempool', asked', started')
  <2>1. task' = [task EXCEPT ![o] = Idle] /\ chain' = Applied(tx)
      BY <1>1, <1>6 DEF Finish
  <2>2. CASE ~ task[o].alone
    <3>1. asked' = asked
        BY <1>6, <2>2 DEF Finish
    <3> QED
        BY <1>1, <1>2, <2>1, <3>1, FreedSound
  <2>3. CASE task[o].alone
    <3>1. asked' = [asked EXCEPT ![task[o].t.reg] = <<task[o].t>>]
        BY <1>6, <2>3 DEF Finish
    <3>2. HoldsIn(chain', task[o].t)
        BY <1>1, <1>5, <1>6, <2>1, <2>3, OwnCallDone
    <3>3. Sound(chain', [task EXCEPT ![o] = Idle], rest,
                [asked EXCEPT ![task[o].t.reg] = <<task[o].t>>], started)
        BY <1>2, <1>5, <2>3, <3>2, ReportSound
    <3> QED
        BY <1>1, <2>1, <3>1, <3>3
  <2> QED
      BY <2>2, <2>3
<1>7. ASSUME NEW o \in waiting, Accepted(tx), task[o].sent # CallsOf(task[o].t),
             task' = [task EXCEPT ![o].pc = "send"], UNCHANGED asked
      PROVE  Sound(chain', task', mempool', asked', started')
  <2> DEFINE x == task[o]
             y == [x EXCEPT !.pc = "send"]
  <2>1. task' = [task EXCEPT ![o] = y] /\ chain' = Applied(tx)
      BY <1>1, <1>7
  <2>2. /\ x \in Running /\ x.sent \in 1..CallsOf(x.t) /\ x.sent # CallsOf(x.t)
        /\ \A j \in DOMAIN rest : rest[j].id # x.id
      BY <1>5, <1>7
  <2>3. /\ y \in Running /\ y.id = x.id /\ y.t = x.t /\ y.alone = x.alone /\ y.pc = "send"
        /\ y.sent = x.sent /\ y.on = x.on
      BY <2>2 DEF Running
  <2> HIDE DEF y
  <2>4. OneCall(y, rest)
    <3>1. x.t \in Menu /\ CallsOf(x.t) \in Nat
        BY <2>2, FeedFacts DEF Running
    <3>2. y.sent < CallsOf(y.t)
        BY <2>2, <2>3, <3>1
    <3> QED
        BY <2>2, <2>3, <3>2 DEF OneCall
  <2>5. y.alone => OnItsWay(chain', y, rest)
    <3> SUFFICES ASSUME y.alone
                 PROVE  OnItsWay(chain', y, rest)
        OBVIOUS
    <3>1. OnItsWay(chain', x, rest) /\ x.pc # "read"
        BY <1>2, <1>5, <2>3 DEF Sound, Alone
    <3>2. x.t.reg = "priced" => \A k \in 1..x.sent : Feed[k] \in chain'["priced"][x.on]
        BY <1>1, <1>5, <2>1, <2>3, OwnCallDone
    <3>3. x.t.reg = "priced" => Priced(chain', y)
        BY <2>2, <2>3, <3>2 DEF Priced, Running
    <3> QED
        BY <2>3, <3>1, <3>3 DEF OnItsWay
  <2>6. Sound(chain', [task EXCEPT ![o] = y], rest, asked, started)
      BY <1>2, <1>5, <2>3, <2>4, <2>5, MovedSound
  <2> QED
      BY <1>1, <1>7, <2>1, <2>6
<1> HIDE DEF waiting
<1>8. \/ UNCHANGED <<task, asked>>
      \/ \E o \in waiting :
           \/ ~ Accepted(tx) /\ Fail(o)
           \/ Accepted(tx) /\ task[o].sent = CallsOf(task[o].t) /\ Finish(o)
           \/ /\ Accepted(tx) /\ task[o].sent # CallsOf(task[o].t)
              /\ task' = [task EXCEPT ![o].pc = "send"]
              /\ UNCHANGED asked
    BY <1>1 DEF Receipt, waiting
<1> QED
    BY <1>3, <1>4, <1>6, <1>7, <1>8

LEMMA InitSound == Init => Sound(chain, task, mempool, asked, started)
<1> SUFFICES ASSUME Init
             PROVE  Sound(chain, task, mempool, asked, started)
    OBVIOUS
<1>1. BusyIn(task) = {} /\ task \in [Operators -> {Idle} \cup Running]
    BY DEF Init, BusyIn, Idle
<1>2. DOMAIN mempool = {} /\ IsSeq(mempool)
  <2>1. mempool = <<>> /\ DOMAIN mempool = {}
      BY DEF Init
  <2> QED
      BY <2>1, EmptySeq DEF IsSeq
<1>3. asked \in [Registers -> {<<>>} \cup {<<t>> : t \in Menu}] /\ \A r \in Registers : asked[r] = <<>>
    BY DEF Init
<1>4. ChainOK(chain) /\ started \in Nat
  <2>1. /\ DOMAIN chain = Registers /\ started = 0
        /\ \A r \in Registers : chain[r] =
             CASE r \in {"reserveActive", "nftActive"} -> TRUE
               [] r \in {"owner", "feedAdmin"} -> [o \in Oracles |-> "deployer"]
               [] r = "oracle" -> "recorded"
               [] r \in {"keys", "priced"} -> [o \in Oracles |-> {}]
               [] OTHER -> FALSE
      BY DEF Init
  <2>2. \A r \in Switches : chain[r] \in BOOLEAN
      BY <2>1 DEF Switches, Flags, Registers
  <2>3. chain["oracle"] = "recorded"
      BY <2>1 DEF Flags, Registers
  <2>4. \A r \in {"owner", "feedAdmin"} : chain[r] = [o \in Oracles |-> "deployer"]
      BY <2>1 DEF Flags, Registers
  <2>5. \A r \in {"keys", "priced"} : chain[r] = [o \in Oracles |-> {}]
      BY <2>1 DEF Flags, Registers
  <2> QED
      BY <2>1, <2>2, <2>3, <2>4, <2>5 DEF ChainOK, Oracles, Accounts
<1> QED
    BY <1>1, <1>2, <1>3, <1>4 DEF Sound, Typed, Calls, Alone, Remembered

LEMMA NextSound ==
    ASSUME Sound(chain, task, mempool, asked, started), [Next]_vars
    PROVE  Sound(chain, task, mempool, asked, started)'
<1>1. ASSUME NEW o \in Operators, Start(o)
      PROVE  Sound(chain', task', mempool', asked', started')
  <2>1. chain' = chain /\ mempool' = mempool
      BY <1>1 DEF Start
  <2> QED
      BY <1>1, <2>1, StartSound
<1>2. ASSUME NEW o \in Operators, Read(o)
      PROVE  Sound(chain', task', mempool', asked', started')
  <2>1. chain' = chain /\ mempool' = mempool
      BY <1>2 DEF Read
  <2> QED
      BY <1>2, <2>1, ReadSound
<1>3. ASSUME NEW o \in Operators, Send(o)
      PROVE  Sound(chain', task', mempool', asked', started')
  <2>1. chain' = chain
      BY <1>3 DEF Send
  <2> QED
      BY <1>3, <2>1, SendSound
<1>4. ASSUME NEW o \in Operators, Stop(o)
      PROVE  Sound(chain', task', mempool', asked', started')
    BY <1>4, FreedSound DEF Stop, Fail
<1>5. ASSUME NEW a, Users(a)
      PROVE  Sound(chain', task', mempool', asked', started')
    BY <1>5 DEF Users
<1>6. CASE UNCHANGED vars
    BY <1>6 DEF vars
<1> QED
    BY <1>1, <1>2, <1>3, <1>4, <1>5, <1>6, MineSound DEF Next


-----------------------------------------------------------------------------
\* What a task that ran alone reports done, and nothing has disturbed since, is so:
\* of every transaction in the mempool the invariant says whose it is, of every task
\* that runs alone what it has done so far.
THEOREM ReportsAreSound == Spec => []Sound(chain, task, mempool, asked, started)
<1> DEFINE S == Sound(chain, task, mempool, asked, started)
<1>1. Init => S
    BY InitSound
<1>2. S /\ [Next]_vars => S'
    BY NextSound
<1> QED
    BY <1>1, <1>2, PTL DEF Spec

\* The users' part and the bound on the tasks, which the invariant leaves out
Bounded == used \subseteq {"reserve", "nft"} /\ started \in 0..MaxTasks

LEMMA StaysBounded == Spec => []Bounded
<1>1. Init => Bounded
    BY AdminAssumption DEF Init, Bounded
<1>2. Bounded /\ [Next]_vars => Bounded'
  <2> SUFFICES ASSUME Bounded, [Next]_vars
               PROVE  Bounded'
      OBVIOUS
  <2>1. CASE UNCHANGED <<used, started>>
      BY <2>1 DEF Bounded
  <2>2. ASSUME NEW o \in Operators, Start(o)
        PROVE  Bounded'
      BY <2>2, AdminAssumption DEF Start, Bounded
  <2>3. ASSUME NEW o \in Operators, Read(o) \/ Send(o) \/ Stop(o)
        PROVE  Bounded'
      BY <2>1, <2>3 DEF Read, Send, Stop
  <2>4. ASSUME NEW i, Mine(i)
        PROVE  Bounded'
      BY <2>1, <2>4 DEF Mine
  <2>5. ASSUME NEW a \in {"reserve", "nft"}, Users(a)
        PROVE  Bounded'
      BY <2>5 DEF Users, Bounded
  <2>6. CASE UNCHANGED vars
      BY <2>1, <2>6 DEF vars
  <2> QED
      BY <2>2, <2>3, <2>4, <2>5, <2>6 DEF Next
<1> QED
    BY <1>1, <1>2, PTL DEF Spec

LEMMA SoundIsTyped ==
    ASSUME Sound(chain, task, mempool, asked, started), Bounded
    PROVE  TypeOK
<1>1. Typed(chain, task, mempool, asked, started)
    BY DEF Sound
<1>2. /\ DOMAIN chain = Registers
      /\ \A r \in Flags \cup {"whitelisted", "usd"} : chain[r] \in BOOLEAN
      /\ chain.oracle \in Oracles
      /\ chain.owner \in [Oracles -> Accounts] /\ chain.feedAdmin \in [Oracles -> Accounts]
      /\ chain.keys \in [Oracles -> SUBSET Assets] /\ chain.priced \in [Oracles -> SUBSET Assets]
    BY <1>1 DEF Typed, ChainOK, Switches
<1>3. \A o \in Operators :
         \/ task[o] = Idle
         \/ /\ task[o].pc \in {"read", "send", "wait"} /\ task[o].t \in Menu
            /\ task[o].id \in 1..started /\ task[o].sent \in 0..Len(Feed)
            /\ task[o].from \in Accounts /\ task[o].on \in Oracles /\ task[o].alone \in BOOLEAN
  <2> SUFFICES ASSUME NEW o \in Operators, task[o] # Idle
               PROVE  /\ task[o].pc \in {"read", "send", "wait"} /\ task[o].t \in Menu
                      /\ task[o].id \in 1..started /\ task[o].sent \in 0..Len(Feed)
                      /\ task[o].from \in Accounts /\ task[o].on \in Oracles
                      /\ task[o].alone \in BOOLEAN
      OBVIOUS
  <2>1. task[o] \in Running
      BY <1>1 DEF Typed
  <2>2. o \in BusyIn(task)
      BY <2>1 DEF BusyIn, Running
  <2>3. task[o].id \in 1..started
      BY <1>1, <2>2 DEF Typed
  <2> QED
      BY <2>1, <2>3 DEF Running
<1>4. \A i \in DOMAIN mempool : mempool[i].id \in 1..started /\ mempool[i].reg \in Registers
    BY <1>1 DEF Typed, TxOK
<1>5. asked \in [Registers -> {<<>>} \cup {<<t>> : t \in Menu}]
    BY <1>1 DEF Typed
<1> QED
    BY <1>2, <1>3, <1>4, <1>5 DEF TypeOK, Bounded

LEMMA SoundHolds ==
    ASSUME Sound(chain, task, mempool, asked, started), NEW r \in Registers,
           NEW i \in DOMAIN asked[r]
    PROVE  Holds(asked[r][i])
<1>1. asked[r] = <<>> \/ \E t \in Menu : asked[r] = <<t>> /\ HoldsIn(chain, t)
    BY DEF Sound, Remembered
<1>2. PICK t \in Menu : asked[r] = <<t>> /\ HoldsIn(chain, t)
    BY <1>1
<1>3. asked[r][i] = t
    BY <1>2
<1>4. Holds(t) <=> HoldsIn(chain, t)
    BY DEF Holds, HoldsIn
<1> QED
    BY <1>2, <1>3, <1>4

\* For any feed, any menu of tasks and any number of operators, what a task that ran
\* alone reported done stays so until another task about it starts; in particular a
\* task that found nothing to do, one whose feed took several blocks, and one whose
\* transaction was mined after others that a stopped task had left behind.
THEOREM LastWordsHold == Spec => []LastWordHolds
<1> DEFINE S == Sound(chain, task, mempool, asked, started)
<1>1. S /\ Bounded => LastWordHolds
    BY SoundIsTyped, SoundHolds DEF LastWordHolds
<1> QED
    BY <1>1, ReportsAreSound, StaysBounded, PTL
=============================================================================
