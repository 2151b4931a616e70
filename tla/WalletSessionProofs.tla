------------------------- MODULE WalletSessionProofs -------------------------
(***************************************************************************)
(* Theorems about the wallet connection, for any number of wallets,        *)
(* clients, clicks and reloads and any sequence of cancelled attempts.     *)
(***************************************************************************)
EXTENDS WalletSession, TLAPS

USE WalletAssumption

PageSet == [address : Accounts \cup {None}, provider : Providers \cup {None},
            wcp : Clients \cup {None}, bound : Providers \cup {None},
            listening : SUBSET Providers, gen : Nat, lock : BOOLEAN]
StoreSet == [key : {None, "injected", "wc"}, rdns : Wallets \cup {None}]
DialogSet == [open : BOOLEAN, panel : {"options", "qr"}]
TaskSet == [kind : Kinds,
            pc : {"idle", "discover", "ask", "drop", "init", "pair",
                  "accts", "empty", "switch"},
            dev : Providers \cup {None}, acct : Accounts \cup {None}, gen : Nat]
WorldSet == [acct : [Wallets \cup {Phone} -> Accounts \cup {None}],
             session : SUBSET Clients, proposal : SUBSET Clients,
             made : SUBSET Clients, paired : BOOLEAN]

LEMMA TypeParts ==
    TypeOK <=> /\ page \in PageSet /\ store \in StoreSet /\ dialog \in DialogSet
               /\ tasks \in [Tasks -> TaskSet] /\ world \in WorldSet
               /\ overtaken \in BOOLEAN /\ reloads \in 0..MaxReloads
    BY DEF TypeOK, PageSet, StoreSet, DialogSet, TaskSet, WorldSet

-----------------------------------------------------------------------------
(***************************************************************************)
(* The inductive invariant.                                                *)
(***************************************************************************)
\* A page that listens to the provider it uses and to nothing else
GoodPage(pg) ==
    /\ pg \in PageSet
    /\ pg.bound = pg.provider
    /\ pg.listening = {pg.provider} \ {None}
    /\ (pg.address = None) <=> (pg.provider = None)

\* What is known of a connection under way on a page of this generation
GoodTask(t, task, gen) ==
    /\ task \in TaskSet
    /\ task.kind = "wc" => t \in Clicks
    /\ task.gen <= gen
    /\ task.kind = "injected" => task.dev \in Wallets
    /\ task.pc = "accts" => task.dev \in Providers
    /\ (task.kind = "injected" /\ task.pc = "drop") => task.acct # None

\* A cancelled attempt cannot catch up with the page's generation, since no
\* generation is ever used twice: this is what the lock rests on.
SessionInv ==
    /\ GoodPage(page)
    /\ store \in StoreSet /\ dialog \in DialogSet /\ world \in WorldSet
    /\ overtaken \in BOOLEAN /\ reloads \in 0..MaxReloads
    /\ tasks \in [Tasks -> TaskSet]
    /\ \A t \in Tasks : GoodTask(t, tasks[t], page.gen)
    /\ LockIsCurrentAttempt

\* The body of CancelledNeverConnects
Cancelled(t) ==
    /\ tasks[t].kind = "wc" /\ tasks[t].pc \in {"drop", "init", "pair"}
    /\ tasks[t].gen # page.gen

CancelStep == \A t \in Clicks : Cancelled(t) => tasks'[t].pc \notin {"accts", "switch"}

LEMMA IdleTask ==
    /\ Idle \in TaskSet
    /\ \A t, gen : gen \in Nat => GoodTask(t, Idle, gen)
    BY DEF Idle, TaskSet, Kinds, GoodTask

\* The other variables keep their types.
Rest == /\ store \in StoreSet /\ dialog \in DialogSet /\ world \in WorldSet
        /\ overtaken \in BOOLEAN /\ reloads \in 0..MaxReloads

\* The QR code does not come up.
NoNewCode == (dialog'.open /\ dialog'.panel = "qr") => (dialog.open /\ dialog.panel = "qr")

-----------------------------------------------------------------------------
(***************************************************************************)
(* The four ways in which a step can bear on the lock.                     *)
(***************************************************************************)
\* A connection goes on, in the generation it began in.
LEMMA TaskStep ==
    ASSUME SessionInv, NEW t \in Tasks, NEW task, Await(t, task),
           GoodPage(page'), page'.gen = page.gen, page'.lock = page.lock,
           GoodTask(t, task, page.gen),
           (task.kind = "wc") <=> (tasks[t].kind = "wc"),
           task.kind = "wc" => task.gen = tasks[t].gen,
           NoNewCode, Rest',
           Cancelled(t) => task.pc \notin {"accts", "switch"}
    PROVE  SessionInv' /\ CancelStep
<1>1. /\ tasks' = [tasks EXCEPT ![t] = task] /\ task \in TaskSet
      /\ tasks \in [Tasks -> TaskSet]
    BY DEF Await, SessionInv, GoodTask
<1>2. /\ tasks' \in [Tasks -> TaskSet] /\ tasks'[t] = task
      /\ \A u \in Tasks : u # t => tasks'[u] = tasks[u]
    BY <1>1
<1>3. \A u \in Tasks : GoodTask(u, tasks'[u], page'.gen)
    BY <1>2 DEF SessionInv
<1>4. Clicks \subseteq Tasks
    BY DEF Tasks
<1>5. \A u \in Clicks : /\ (tasks'[u].kind = "wc") <=> (tasks[u].kind = "wc")
                        /\ tasks'[u].kind = "wc" => tasks'[u].gen = tasks[u].gen
    BY <1>2, <1>4
<1>6. LockIsCurrentAttempt'
    BY <1>5 DEF SessionInv, LockIsCurrentAttempt, IsCurrent, NoNewCode
<1>7. CancelStep
    BY <1>2, <1>4 DEF CancelStep, Cancelled
<1> QED
    BY <1>2, <1>3, <1>6, <1>7 DEF SessionInv, Rest

\* Nothing happens to the connections.
LEMMA PageStep ==
    ASSUME SessionInv, tasks' = tasks,
           GoodPage(page'), page'.gen = page.gen, page'.lock = page.lock,
           NoNewCode, Rest'
    PROVE  SessionInv' /\ CancelStep
<1>1. \A u \in Tasks : GoodTask(u, tasks'[u], page'.gen)
    BY DEF SessionInv
<1>2. LockIsCurrentAttempt'
    BY DEF SessionInv, LockIsCurrentAttempt, IsCurrent, NoNewCode
<1>3. CancelStep
    BY DEF CancelStep, Cancelled
<1> QED
    BY <1>1, <1>2, <1>3 DEF SessionInv, Rest

\* An attempt throws: it frees the lock if it is the current one.
LEMMA FailStep ==
    ASSUME SessionInv, NEW t \in Tasks, tasks[t].kind = "wc",
           NEW pg, GoodPage(pg), pg.gen = page.gen, pg.lock = page.lock,
           wcFails(t, pg), store' \in StoreSet, world' \in WorldSet,
           overtaken' \in BOOLEAN, reloads' \in 0..MaxReloads
    PROVE  SessionInv' /\ CancelStep
<1>1. /\ page' = [pg EXCEPT !.lock = pg.lock /\ ~ IsCurrent(t)]
      /\ tasks' = [tasks EXCEPT ![t] = Idle]
      /\ dialog' = [dialog EXCEPT !.panel = "options"]
    BY DEF wcFails, Unlocked, Finish, Await
<1>2. tasks \in [Tasks -> TaskSet] /\ pg \in PageSet
    BY DEF SessionInv, GoodPage
<1>3. /\ tasks' \in [Tasks -> TaskSet] /\ tasks'[t] = Idle
      /\ \A u \in Tasks : u # t => tasks'[u] = tasks[u]
    BY <1>1, <1>2, IdleTask
<1>4. /\ page' \in PageSet /\ page'.gen = page.gen
      /\ page'.lock <=> (page.lock /\ ~ IsCurrent(t))
      /\ page'.bound = pg.bound /\ page'.provider = pg.provider
      /\ page'.listening = pg.listening /\ page'.address = pg.address
    BY <1>1, <1>2 DEF PageSet
<1>5. GoodPage(page')
    BY <1>4 DEF GoodPage
<1>6. page.gen \in Nat
    BY DEF SessionInv, GoodPage, PageSet
<1>7. \A u \in Tasks : GoodTask(u, tasks'[u], page'.gen)
    BY <1>3, <1>4, <1>6, IdleTask DEF SessionInv
<1>8. dialog' \in DialogSet /\ dialog'.panel = "options"
    BY <1>1 DEF SessionInv, DialogSet
<1>9. /\ t \in Clicks /\ Clicks \subseteq Tasks
      /\ \A u \in Clicks : tasks'[u].kind = "wc" =>
            u # t /\ tasks[u].kind = "wc" /\ tasks'[u].gen = tasks[u].gen
      /\ \A u \in Clicks : u # t => tasks'[u] = tasks[u]
  <2>1. t \in Clicks /\ Clicks \subseteq Tasks
      BY DEF SessionInv, GoodTask, Tasks
  <2>2. Idle.kind # "wc"
      BY DEF Idle
  <2> QED
      BY <1>3, <2>1, <2>2
<1>10. page'.lock <=> \E u \in Clicks : tasks'[u].kind = "wc" /\ tasks'[u].gen = page'.gen
  <2>1. /\ page.lock <=> \E u \in Clicks : tasks[u].kind = "wc" /\ tasks[u].gen = page.gen
        /\ \A u \in Clicks : tasks[u].kind = "wc" /\ tasks[u].gen = tasks[t].gen => u = t
      BY <1>9 DEF SessionInv, LockIsCurrentAttempt, IsCurrent
  <2>2. CASE tasks[t].gen = page.gen
      BY <1>4, <1>9, <2>1, <2>2 DEF IsCurrent
  <2>3. CASE tasks[t].gen # page.gen
      BY <1>4, <1>9, <2>1, <2>3 DEF IsCurrent
  <2> QED
      BY <2>2, <2>3
<1>11. \A u, v \in Clicks :
          tasks'[u].kind = "wc" /\ tasks'[v].kind = "wc" /\ tasks'[u].gen = tasks'[v].gen
              => u = v
    BY <1>9 DEF SessionInv, LockIsCurrentAttempt
<1>12. LockIsCurrentAttempt'
    BY <1>8, <1>10, <1>11 DEF LockIsCurrentAttempt, IsCurrent
<1>13. CancelStep
    BY <1>3, <1>9 DEF CancelStep, Cancelled, Idle
<1> QED
    BY <1>3, <1>5, <1>7, <1>8, <1>12, <1>13 DEF SessionInv

\* The page's attempt is aborted, or a connection ends by aborting what is left:
\* no attempt of the new generation exists.
LEMMA AbortStep ==
    ASSUME SessionInv, GoodPage(page'), page'.gen = page.gen + 1, page'.lock = FALSE,
           tasks' = tasks \/ \E t \in Tasks : Finish(t),
           Rest', ~ (dialog'.open /\ dialog'.panel = "qr")
    PROVE  SessionInv' /\ CancelStep
<1>1. page.gen \in Nat /\ tasks \in [Tasks -> TaskSet] /\ Clicks \subseteq Tasks
    BY DEF SessionInv, GoodPage, PageSet, Tasks
<1>2. /\ tasks' \in [Tasks -> TaskSet]
      /\ \A u \in Tasks : tasks'[u] \in {tasks[u], Idle}
    BY <1>1, IdleTask DEF Finish, Await
<1>3. \A u \in Tasks : GoodTask(u, tasks[u], page.gen + 1)
    BY <1>1 DEF SessionInv, GoodTask, TaskSet
<1>4. \A u \in Tasks : GoodTask(u, tasks'[u], page'.gen)
    BY <1>1, <1>2, <1>3, IdleTask
<1>5. \A u \in Clicks : tasks'[u].kind = "wc" =>
          tasks'[u] = tasks[u] /\ tasks[u].gen <= page.gen /\ tasks[u].gen \in Nat
    BY <1>1, <1>2 DEF SessionInv, GoodTask, TaskSet, Idle
<1>6. LockIsCurrentAttempt'
    BY <1>1, <1>5 DEF SessionInv, LockIsCurrentAttempt, IsCurrent
<1>7. CancelStep
    BY <1>1, <1>2 DEF CancelStep, Cancelled, Idle
<1> QED
    BY <1>2, <1>4, <1>6, <1>7 DEF SessionInv, Rest

-----------------------------------------------------------------------------
(***************************************************************************)
(* What the helpers do to a good page and to the world.                    *)
(***************************************************************************)
LEMMA UnbindFrees ==
    ASSUME NEW pg \in PageSet, pg.listening \subseteq {pg.bound}
    PROVE  LET freed == unbindProvider(pg, pg.bound) IN
           /\ freed \in PageSet /\ freed.listening \subseteq {} \cup ({pg.bound} \cap {None})
           /\ freed.gen = pg.gen /\ freed.lock = pg.lock /\ freed.wcp = pg.wcp
           /\ freed.address = pg.address /\ freed.provider = pg.provider
           /\ freed.bound = None
    BY DEF unbindProvider, PageSet

LEMMA ConnectedGood ==
    ASSUME NEW pg \in PageSet, pg.listening \subseteq {pg.bound} \ {None},
           NEW p \in Providers, NEW a \in Accounts
    PROVE  /\ GoodPage(Connected(pg, p, a))
           /\ Connected(pg, p, a).gen = pg.gen /\ Connected(pg, p, a).lock = pg.lock
<1> DEFINE freed == IF pg.bound # p THEN unbindProvider(pg, pg.bound) ELSE pg
           heard == [freed EXCEPT !.listening = @ \cup {p}, !.bound = p]
<1>1. p # None /\ a # None
    BY DEF Providers
<1>2. /\ freed \in PageSet /\ freed.listening \subseteq {p}
      /\ freed.gen = pg.gen /\ freed.lock = pg.lock
  <2>1. CASE pg.bound = p
      BY <2>1
  <2>2. CASE pg.bound # p
    <3>1. freed = unbindProvider(pg, pg.bound)
        BY <2>2
    <3>2. unbindProvider(pg, pg.bound).listening \subseteq {}
        BY UnbindFrees
    <3> QED
        BY <3>1, <3>2, UnbindFrees
  <2> QED
      BY <2>1, <2>2
<1>3. bindProviderListeners(pg, p) = heard
    BY DEF bindProviderListeners
<1> HIDE DEF freed
<1>4. /\ heard \in PageSet /\ heard.listening = {p} /\ heard.bound = p
      /\ heard.gen = pg.gen /\ heard.lock = pg.lock
    BY <1>2 DEF PageSet
<1> HIDE DEF heard
<1>5. Connected(pg, p, a) = [heard EXCEPT !.provider = p, !.address = a]
    BY <1>3 DEF Connected
<1> DEFINE new == Connected(pg, p, a)
<1>6. /\ new \in PageSet
      /\ new.provider = p /\ new.address = a
      /\ new.bound = p /\ new.listening = {p}
      /\ new.gen = pg.gen /\ new.lock = pg.lock
    BY <1>4, <1>5 DEF PageSet
<1> HIDE DEF new
<1>7. GoodPage(new) /\ new.gen = pg.gen /\ new.lock = pg.lock
    BY <1>1, <1>6 DEF GoodPage
<1> QED
    BY <1>7 DEF new

LEMMA GoodPageListens ==
    ASSUME NEW pg, GoodPage(pg)
    PROVE  pg \in PageSet /\ pg.listening \subseteq {pg.bound} \ {None}
    BY DEF GoodPage

\* Dropping or setting the WalletConnect client, or releasing the lock
LEMMA FieldsGood ==
    ASSUME NEW pg, GoodPage(pg), NEW wcp \in Clients \cup {None}, NEW lock \in BOOLEAN
    PROVE  /\ GoodPage([pg EXCEPT !.wcp = wcp]) /\ GoodPage([pg EXCEPT !.lock = lock])
           /\ [pg EXCEPT !.wcp = wcp].gen = pg.gen /\ [pg EXCEPT !.wcp = wcp].lock = pg.lock
           /\ [pg EXCEPT !.lock = lock].gen = pg.gen
    BY DEF GoodPage, PageSet

LEMMA AbortGood ==
    ASSUME NEW pg, GoodPage(pg)
    PROVE  /\ GoodPage(abortWalletConnect(pg))
           /\ abortWalletConnect(pg).gen = pg.gen + 1
           /\ abortWalletConnect(pg).lock = FALSE
<1> DEFINE wcp == IF pg.wcp \in world.session THEN pg.wcp ELSE None
<1>1. abortWalletConnect(pg) = [pg EXCEPT !.gen = pg.gen + 1, !.lock = FALSE, !.wcp = wcp]
    BY DEF abortWalletConnect
<1>2. pg \in PageSet /\ wcp \in Clients \cup {None}
    BY DEF GoodPage, PageSet
<1> HIDE DEF wcp
<1> DEFINE new == [pg EXCEPT !.gen = pg.gen + 1, !.lock = FALSE, !.wcp = wcp]
<1>3. /\ new.gen = pg.gen + 1 /\ new.lock = FALSE /\ new.wcp = wcp
      /\ new.address = pg.address /\ new.provider = pg.provider
      /\ new.bound = pg.bound /\ new.listening = pg.listening
    BY <1>2 DEF PageSet
<1>4. new \in PageSet
  <2> DEFINE gen == pg.gen + 1
  <2>1. gen \in Nat
      BY <1>2 DEF PageSet
  <2> HIDE DEF gen
  <2>2. [pg EXCEPT !.gen = gen, !.lock = FALSE, !.wcp = wcp] \in PageSet
      BY <1>2, <2>1 DEF PageSet
  <2> QED
      BY <2>2 DEF gen
<1> HIDE DEF new
<1>5. GoodPage(new)
    BY <1>3, <1>4 DEF GoodPage
<1> QED
    BY <1>1, <1>3, <1>5 DEF new

LEMMA DisconnectedType ==
    ASSUME NEW wd \in WorldSet, NEW c
    PROVE  Disconnected(wd, c) \in WorldSet
    BY DEF Disconnected, WorldSet

LEMMA WithClientType ==
    ASSUME NEW wd \in WorldSet, NEW c \in Clients
    PROVE  WithClient(wd, c) \in WorldSet
    BY DEF WithClient, WorldSet

LEMMA LogoutGood ==
    ASSUME SessionInv, NEW wd \in WorldSet, fullLogout(wd)
    PROVE  /\ GoodPage(page') /\ page'.gen = page.gen /\ page'.lock = page.lock
           /\ world' \in WorldSet /\ store' \in StoreSet
<1> DEFINE bare == [page EXCEPT !.address = None, !.provider = None]
<1>1. /\ page' = [unbindProvider(bare, page.provider) EXCEPT !.wcp = None]
      /\ world' = Disconnected(wd, page.wcp)
      /\ store' = [key |-> None, rdns |-> None]
    BY DEF fullLogout
<1>2. GoodPage(page)
    BY DEF SessionInv
<1>3. /\ bare \in PageSet /\ bare.bound = page.provider
      /\ bare.listening = {page.provider} \ {None} /\ bare.provider = None
      /\ bare.address = None /\ bare.gen = page.gen /\ bare.lock = page.lock
    BY <1>2 DEF GoodPage, PageSet
<1> HIDE DEF bare
<1>4. /\ unbindProvider(bare, page.provider) \in PageSet
      /\ unbindProvider(bare, page.provider).listening = {}
      /\ unbindProvider(bare, page.provider).bound = None
      /\ unbindProvider(bare, page.provider).provider = None
      /\ unbindProvider(bare, page.provider).address = None
      /\ unbindProvider(bare, page.provider).gen = page.gen
      /\ unbindProvider(bare, page.provider).lock = page.lock
    BY <1>3 DEF unbindProvider, PageSet
<1>5. GoodPage(page') /\ page'.gen = page.gen /\ page'.lock = page.lock
    BY <1>1, <1>4 DEF GoodPage, PageSet
<1>6. world' \in WorldSet /\ store' \in StoreSet
    BY <1>1, DisconnectedType DEF StoreSet
<1> QED
    BY <1>5, <1>6

LEMMA ClearGood ==
    ASSUME SessionInv, clearWalletConnect(world)
    PROVE  /\ GoodPage(page') /\ page'.gen = page.gen /\ page'.lock = page.lock
           /\ world' \in WorldSet
<1>1. GoodPage(page) /\ world \in WorldSet
    BY DEF SessionInv
<1>2. page' = [page EXCEPT !.wcp = None] /\ world' = Disconnected(world, page.wcp)
    BY DEF clearWalletConnect
<1> QED
    BY <1>1, <1>2, FieldsGood, DisconnectedType

LEMMA SelectedType ==
    ASSUME SessionInv, NEW p \in Providers
    PROVE  Selected(p) \in Accounts \cup {None}
<1>1. world.acct \in [Wallets \cup {Phone} -> Accounts \cup {None}]
    BY DEF SessionInv, WorldSet
<1> QED
    BY <1>1 DEF Selected, Providers

\* The facts about a task and the page that every step starts from.
LEMMA Known ==
    ASSUME SessionInv, NEW t \in Tasks
    PROVE  /\ tasks[t] \in TaskSet /\ GoodTask(t, tasks[t], page.gen)
           /\ GoodPage(page) /\ page \in PageSet /\ page.gen \in Nat /\ page.lock \in BOOLEAN
           /\ world \in WorldSet /\ store \in StoreSet /\ dialog \in DialogSet
           /\ Rest
    BY DEF SessionInv, GoodPage, PageSet, Rest

LEMMA SameCode ==
    ASSUME dialog' = dialog
    PROVE  NoNewCode
    BY DEF NoNewCode

-----------------------------------------------------------------------------
(***************************************************************************)
(* silentConnect.                                                          *)
(***************************************************************************)
LEMMA ReloadStep == ASSUME SessionInv, Reload PROVE SessionInv' /\ CancelStep
<1>1. /\ page' = NewPage /\ dialog' = NewDialog /\ store' = store
      /\ world' = NewWorld(world.acct, world.paired) /\ overtaken' = FALSE
      /\ reloads < MaxReloads /\ reloads' = reloads + 1
    BY DEF Reload
<1>2. /\ GoodPage(page') /\ page'.gen = 0 /\ page'.lock = FALSE
      /\ dialog' \in DialogSet /\ dialog'.open = FALSE
    BY <1>1 DEF GoodPage, PageSet, NewPage, NewDialog, DialogSet
<1>3. world' \in WorldSet /\ store' \in StoreSet /\ reloads' \in 0..MaxReloads
    BY <1>1 DEF SessionInv, WorldSet, NewWorld
<1>4. ASSUME NEW pc \in {"init", "discover"}
      PROVE  LET task == [Idle EXCEPT !.kind = "silent", !.pc = pc] IN
             GoodTask(Boot, task, 0) /\ task.kind = "silent" /\ task.pc = pc
  <2> DEFINE task == [Idle EXCEPT !.kind = "silent", !.pc = pc]
  <2>1. Idle \in TaskSet /\ Idle.gen = 0
      BY IdleTask DEF Idle
  <2>2. task \in TaskSet /\ task.kind = "silent" /\ task.pc = pc /\ task.gen = 0
      BY <2>1 DEF TaskSet, Kinds
  <2> QED
      BY <2>2 DEF GoodTask
<1>5. /\ tasks' \in [Tasks -> TaskSet]
      /\ \A u \in Tasks : GoodTask(u, tasks'[u], 0) /\ tasks'[u].kind # "wc"
                          /\ tasks'[u].pc \notin {"accts", "switch"}
  <2>1. \A u \in Tasks : \/ tasks'[u] = Idle
                         \/ \E pc \in {"init", "discover"} :
                              u = Boot /\ tasks'[u] = [Idle EXCEPT !.kind = "silent", !.pc = pc]
      BY DEF Reload
  <2>2. \A u \in Tasks : GoodTask(u, tasks'[u], 0)
      BY <1>4, <2>1, IdleTask
  <2>3. \A u \in Tasks : tasks'[u].kind # "wc" /\ tasks'[u].pc \notin {"accts", "switch"}
    <3>1. Idle.kind # "wc" /\ Idle.pc \notin {"accts", "switch"}
        BY DEF Idle
    <3> QED
        BY <1>4, <2>1, <3>1
  <2>4. DOMAIN tasks' = Tasks /\ tasks' = [u \in Tasks |-> tasks'[u]]
      BY DEF Reload
  <2>5. tasks' \in [Tasks -> TaskSet]
      BY <2>2, <2>4 DEF GoodTask
  <2> QED
      BY <2>2, <2>3, <2>5
<1>6. Clicks \subseteq Tasks
    BY DEF Tasks
<1>7. LockIsCurrentAttempt'
    BY <1>2, <1>5, <1>6 DEF LockIsCurrentAttempt
<1>8. CancelStep
    BY <1>5, <1>6 DEF CancelStep
<1> QED
    BY <1>1, <1>2, <1>3, <1>5, <1>7, <1>8 DEF SessionInv

LEMMA SilentInitStep ==
    ASSUME SessionInv, NEW t \in Tasks, silentInit(t)
    PROVE  SessionInv' /\ CancelStep
<1>1. /\ At(t, "silent", "init") /\ UNCHANGED <<dialog, overtaken, reloads>>
    BY DEF silentInit
<1>2. PICK c \in Clients :
        /\ world' = WithClient(world, c)
        /\ \/ /\ Await(t, [tasks[t] EXCEPT !.pc = "accts", !.dev = c])
              /\ page' = [page EXCEPT !.wcp = c]
              /\ UNCHANGED store
           \/ /\ Await(t, [tasks[t] EXCEPT !.pc = "empty"])
              /\ page' = [page EXCEPT !.wcp = None]
              /\ store' = [store EXCEPT !.key = None]
    BY DEF silentInit
<1>3. /\ GoodPage(page') /\ page'.gen = page.gen /\ page'.lock = page.lock
  <2>1. PICK wcp \in Clients \cup {None} : page' = [page EXCEPT !.wcp = wcp]
      BY <1>2
  <2> QED
      BY <2>1, Known, FieldsGood
<1>4. world' \in WorldSet /\ store' \in StoreSet
    BY <1>2, Known, WithClientType DEF StoreSet
<1>5. Rest' /\ NoNewCode
    BY <1>1, <1>4, Known, SameCode DEF Rest
<1>6. PICK task : /\ Await(t, task) /\ GoodTask(t, task, page.gen)
                  /\ task.kind = "silent"
  <2>1. /\ GoodTask(t, [tasks[t] EXCEPT !.pc = "accts", !.dev = c], page.gen)
        /\ [tasks[t] EXCEPT !.pc = "accts", !.dev = c].kind = "silent"
      BY <1>1, Known DEF At, GoodTask, TaskSet, Providers
  <2>2. /\ GoodTask(t, [tasks[t] EXCEPT !.pc = "empty"], page.gen)
        /\ [tasks[t] EXCEPT !.pc = "empty"].kind = "silent"
      BY <1>1, Known DEF At, GoodTask, TaskSet
  <2> QED
      BY <1>2, <2>1, <2>2
<1> QED
    BY <1>1, <1>3, <1>5, <1>6, TaskStep DEF At, Cancelled

LEMMA SilentDiscoveredStep ==
    ASSUME SessionInv, NEW t \in Tasks, silentDiscovered(t)
    PROVE  SessionInv' /\ CancelStep
<1>1. /\ At(t, "silent", "discover") /\ UNCHANGED <<page, dialog, world, overtaken, reloads>>
      /\ \/ /\ store.rdns \in Wallets
            /\ Await(t, [tasks[t] EXCEPT !.pc = "accts", !.dev = store.rdns])
            /\ UNCHANGED store
         \/ /\ Await(t, Idle) /\ store' = [key |-> None, rdns |-> None]
    BY DEF silentDiscovered, Finish
<1>2. store' \in StoreSet
    BY <1>1, Known DEF StoreSet
<1>3. Rest' /\ NoNewCode
    BY <1>1, <1>2, Known, SameCode DEF Rest
<1>4. PICK task : /\ Await(t, task) /\ GoodTask(t, task, page.gen) /\ task.kind # "wc"
  <2>1. store.rdns \in Wallets =>
            /\ GoodTask(t, [tasks[t] EXCEPT !.pc = "accts", !.dev = store.rdns], page.gen)
            /\ [tasks[t] EXCEPT !.pc = "accts", !.dev = store.rdns].kind = "silent"
      BY <1>1, Known DEF At, GoodTask, TaskSet, Providers
  <2>2. GoodTask(t, Idle, page.gen) /\ Idle.kind # "wc"
      BY Known, IdleTask DEF Idle
  <2> QED
      BY <1>1, <2>1, <2>2
<1> QED
    BY <1>1, <1>3, <1>4, Known, TaskStep DEF At, Cancelled

LEMMA SilentAnsweredStep ==
    ASSUME SessionInv, NEW t \in Tasks, silentAnswered(t)
    PROVE  SessionInv' /\ CancelStep
<1> DEFINE p == tasks[t].dev
<1>1. /\ At(t, "silent", "accts") /\ Selected(p) # None
      /\ page' = Connected(page, p, Selected(p)) /\ Await(t, Idle)
      /\ UNCHANGED <<store, dialog, world, overtaken, reloads>>
    BY DEF silentAnswered, Finish, Answers
<1>2. p \in Providers
    BY <1>1, Known DEF At, GoodTask
<1> HIDE DEF p
<1>3. Selected(p) \in Accounts
    BY <1>1, <1>2, SelectedType
<1>4. GoodPage(page') /\ page'.gen = page.gen /\ page'.lock = page.lock
    BY <1>1, <1>2, <1>3, Known, GoodPageListens, ConnectedGood
<1>5. Rest' /\ NoNewCode
    BY <1>1, Known, SameCode DEF Rest
<1>6. GoodTask(t, Idle, page.gen) /\ Idle.kind # "wc"
    BY Known, IdleTask DEF Idle
<1> QED
    BY <1>1, <1>4, <1>5, <1>6, TaskStep DEF At, Cancelled

LEMMA SilentUnansweredStep ==
    ASSUME SessionInv, NEW t \in Tasks, silentUnanswered(t)
    PROVE  SessionInv' /\ CancelStep
<1>1. /\ At(t, "silent", "accts") /\ UNCHANGED <<dialog, overtaken, reloads>>
      /\ \/ /\ clearWalletConnect(world)
            /\ store' = [store EXCEPT !.key = None]
            /\ Await(t, [tasks[t] EXCEPT !.pc = "empty"])
         \/ Await(t, Idle) /\ UNCHANGED <<page, store, world>>
    BY DEF silentUnanswered, Finish
<1>2. /\ GoodPage(page') /\ page'.gen = page.gen /\ page'.lock = page.lock
      /\ world' \in WorldSet
    BY <1>1, Known, ClearGood
<1>3. store' \in StoreSet
    BY <1>1, Known DEF StoreSet
<1>4. Rest' /\ NoNewCode
    BY <1>1, <1>2, <1>3, Known, SameCode DEF Rest
<1>5. PICK task : /\ Await(t, task) /\ GoodTask(t, task, page.gen) /\ task.kind # "wc"
  <2>1. /\ GoodTask(t, [tasks[t] EXCEPT !.pc = "empty"], page.gen)
        /\ [tasks[t] EXCEPT !.pc = "empty"].kind = "silent"
      BY <1>1, Known DEF At, GoodTask, TaskSet
  <2>2. GoodTask(t, Idle, page.gen) /\ Idle.kind # "wc"
      BY Known, IdleTask DEF Idle
  <2> QED
      BY <1>1, <2>1, <2>2
<1> QED
    BY <1>1, <1>2, <1>4, <1>5, TaskStep DEF At, Cancelled

LEMMA SilentEndsStep ==
    ASSUME SessionInv, NEW t \in Tasks, silentEnds(t)
    PROVE  SessionInv' /\ CancelStep
<1>1. /\ tasks[t].kind = "silent" /\ Await(t, Idle)
      /\ UNCHANGED <<page, store, dialog, world, overtaken, reloads>>
    BY DEF silentEnds, Finish, At
<1>2. Rest' /\ NoNewCode
    BY <1>1, Known, SameCode DEF Rest
<1>3. GoodTask(t, Idle, page.gen) /\ Idle.kind # "wc"
    BY Known, IdleTask DEF Idle
<1> QED
    BY <1>1, <1>2, <1>3, Known, TaskStep DEF Cancelled

-----------------------------------------------------------------------------
(***************************************************************************)
(* The dialog and the connect button.                                      *)
(***************************************************************************)
LEMMA DialogStep ==
    ASSUME SessionInv, openConnectDialog \/ escapeDialog
    PROVE  SessionInv' /\ CancelStep
<1>1. /\ UNCHANGED <<page, store, tasks, world, overtaken, reloads>>
      /\ \/ dialog' = [open |-> TRUE, panel |-> "options"]
         \/ dialog' = [dialog EXCEPT !.open = FALSE]
    BY DEF openConnectDialog, escapeDialog
<1>2. dialog' \in DialogSet /\ (dialog'.panel = "options" \/ dialog'.open = FALSE)
  <2>1. dialog \in DialogSet
      BY DEF SessionInv
  <2>2. CASE dialog' = [open |-> TRUE, panel |-> "options"]
      BY <2>2 DEF DialogSet
  <2>3. CASE dialog' = [dialog EXCEPT !.open = FALSE]
      BY <2>1, <2>3 DEF DialogSet
  <2> QED
      BY <1>1, <2>2, <2>3
<1>3. GoodPage(page') /\ Rest' /\ NoNewCode
    BY <1>1, <1>2 DEF SessionInv, Rest, NoNewCode
<1> QED
    BY <1>1, <1>3, PageStep

LEMMA OverlapType ==
    ASSUME SessionInv, Overlap
    PROVE  overtaken' \in BOOLEAN
    BY DEF Overlap, Busy, SessionInv

LEMMA DisconnectWalletStep ==
    ASSUME SessionInv, disconnectWallet
    PROVE  SessionInv' /\ CancelStep
<1>1. fullLogout(world) /\ Overlap /\ UNCHANGED <<dialog, tasks, reloads>>
    BY DEF disconnectWallet
<1>2. world \in WorldSet
    BY DEF SessionInv
<1>3. /\ GoodPage(page') /\ page'.gen = page.gen /\ page'.lock = page.lock
      /\ world' \in WorldSet /\ store' \in StoreSet
    BY <1>1, <1>2, LogoutGood
<1>4. Rest' /\ NoNewCode
    BY <1>1, <1>3, OverlapType, SameCode DEF SessionInv, Rest
<1> QED
    BY <1>1, <1>3, <1>4, PageStep

LEMMA CloseStep ==
    ASSUME SessionInv, closeConnectDialog \/ backFromQr
    PROVE  SessionInv' /\ CancelStep
<1>1. /\ page' = abortWalletConnect(page) /\ Overlap
      /\ UNCHANGED <<store, tasks, world, reloads>>
      /\ \/ dialog' = [dialog EXCEPT !.open = FALSE]
         \/ dialog' = [dialog EXCEPT !.panel = "options"]
    BY DEF closeConnectDialog, backFromQr
<1>2. GoodPage(page)
    BY DEF SessionInv
<1>3. GoodPage(page') /\ page'.gen = page.gen + 1 /\ page'.lock = FALSE
    BY <1>1, <1>2, AbortGood
<1>4. dialog' \in DialogSet /\ ~ (dialog'.open /\ dialog'.panel = "qr")
    BY <1>1 DEF SessionInv, DialogSet
<1>5. Rest'
    BY <1>1, <1>4, OverlapType DEF SessionInv, Rest
<1> QED
    BY <1>1, <1>3, <1>4, <1>5, AbortStep

-----------------------------------------------------------------------------
(***************************************************************************)
(* connectInjected.                                                        *)
(***************************************************************************)
LEMMA InjectedChoiceStep ==
    ASSUME SessionInv, NEW t \in Tasks, NEW w \in Wallets, onInjectedChoice(t, w)
    PROVE  SessionInv' /\ CancelStep
<1> DEFINE task == [Idle EXCEPT !.kind = "injected", !.pc = "ask", !.dev = w]
<1>1. /\ tasks[t] = Idle /\ Overlap /\ Await(t, task)
      /\ UNCHANGED <<page, store, dialog, world, reloads>>
    BY DEF onInjectedChoice, Clicked
<1>2. Idle \in TaskSet /\ Idle.gen = 0 /\ Idle.kind = "idle" /\ Idle.pc = "idle"
    BY IdleTask DEF Idle
<1>3. /\ task \in TaskSet /\ task.kind = "injected" /\ task.pc = "ask"
      /\ task.dev = w /\ task.gen = 0
    BY <1>2 DEF TaskSet, Kinds, Providers
<1> HIDE DEF task
<1>4. GoodTask(t, task, page.gen)
    BY <1>3, Known DEF GoodTask
<1>5. Rest' /\ NoNewCode
    BY <1>1, Known, OverlapType, SameCode DEF Rest
<1> QED
    BY <1>1, <1>2, <1>3, <1>4, <1>5, Known, TaskStep DEF Cancelled

LEMMA CommitStep ==
    ASSUME SessionInv, NEW t \in Tasks, tasks[t].kind = "injected",
           NEW a \in Accounts, commitInjected(t, tasks[t].dev, a),
           UNCHANGED <<dialog, world, overtaken, reloads>>
    PROVE  SessionInv' /\ CancelStep
<1> DEFINE w == tasks[t].dev
           task == [tasks[t] EXCEPT !.pc = "switch", !.acct = None]
<1>1. /\ page' = Connected(page, w, a)
      /\ store' = [key |-> "injected", rdns |-> w] /\ Await(t, task)
    BY DEF commitInjected
<1>2. w \in Wallets /\ w \in Providers
    BY Known DEF GoodTask, Providers
<1>3. GoodTask(t, task, page.gen) /\ task.kind = "injected"
    BY Known DEF GoodTask, TaskSet
<1> HIDE DEF w, task
<1>4. GoodPage(page') /\ page'.gen = page.gen /\ page'.lock = page.lock
    BY <1>1, <1>2, Known, GoodPageListens, ConnectedGood
<1>5. Rest' /\ NoNewCode
    BY <1>1, <1>2, Known, SameCode DEF Rest, StoreSet
<1> QED
    BY <1>1, <1>3, <1>4, <1>5, TaskStep DEF Cancelled

LEMMA InjectedAnsweredStep ==
    ASSUME SessionInv, NEW t \in Tasks, injectedAnswered(t)
    PROVE  SessionInv' /\ CancelStep
<1> DEFINE w == tasks[t].dev
           task == [tasks[t] EXCEPT !.pc = "drop", !.acct = world.acct[w]]
<1>1. /\ tasks[t].kind = "injected" /\ world.acct[w] # None
      /\ UNCHANGED <<dialog, overtaken, reloads>>
      /\ \/ commitInjected(t, w, world.acct[w]) /\ UNCHANGED world
         \/ clearWalletConnect(world) /\ Await(t, task) /\ UNCHANGED store
    BY DEF injectedAnswered, At
<1>2. world.acct[w] \in Accounts
    BY <1>1, Known DEF GoodTask, WorldSet
<1>3. CASE commitInjected(t, w, world.acct[w]) /\ UNCHANGED world
    BY <1>1, <1>2, <1>3, CommitStep
<1>4. CASE clearWalletConnect(world) /\ Await(t, task) /\ UNCHANGED store
  <2>1. /\ GoodPage(page') /\ page'.gen = page.gen /\ page'.lock = page.lock
        /\ world' \in WorldSet
      BY <1>4, ClearGood
  <2>2. GoodTask(t, task, page.gen) /\ task.kind = "injected"
    <3>1. /\ task \in TaskSet /\ task.kind = "injected" /\ task.pc = "drop"
          /\ task.acct = world.acct[w] /\ task.dev = tasks[t].dev /\ task.gen = tasks[t].gen
        BY <1>1, <1>2, Known DEF TaskSet
    <3> HIDE DEF task
    <3> QED
        BY <1>1, <3>1, Known DEF GoodTask
  <2>3. Rest' /\ NoNewCode
      BY <1>1, <1>4, <2>1, Known, SameCode DEF Rest
  <2> HIDE DEF task
  <2> QED
      BY <1>1, <1>4, <2>1, <2>2, <2>3, TaskStep DEF Cancelled
<1> QED
    BY <1>1, <1>3, <1>4

LEMMA InjectedDroppedStep ==
    ASSUME SessionInv, NEW t \in Tasks, injectedDropped(t)
    PROVE  SessionInv' /\ CancelStep
<1>1. /\ tasks[t].kind = "injected" /\ tasks[t].pc = "drop"
      /\ commitInjected(t, tasks[t].dev, tasks[t].acct)
      /\ UNCHANGED <<dialog, world, overtaken, reloads>>
    BY DEF injectedDropped, At
<1>2. tasks[t].acct \in Accounts
    BY <1>1, Known DEF GoodTask, TaskSet
<1> QED
    BY <1>1, <1>2, CommitStep

LEMMA InjectedRefusedStep ==
    ASSUME SessionInv, NEW t \in Tasks, injectedRefused(t)
    PROVE  SessionInv' /\ CancelStep
<1>1. /\ tasks[t].kind = "injected" /\ Await(t, Idle)
      /\ UNCHANGED <<page, store, dialog, world, overtaken, reloads>>
    BY DEF injectedRefused, At, Finish
<1>2. Rest' /\ NoNewCode
    BY <1>1, Known, SameCode DEF Rest
<1>3. GoodTask(t, Idle, page.gen) /\ Idle.kind # "wc"
    BY Known, IdleTask DEF Idle
<1> QED
    BY <1>1, <1>2, <1>3, Known, TaskStep DEF Cancelled

LEMMA InjectedSwitchedStep ==
    ASSUME SessionInv, NEW t \in Tasks, injectedSwitched(t)
    PROVE  SessionInv' /\ CancelStep
<1>1. /\ Finish(t) /\ page' = abortWalletConnect(page)
      /\ dialog' = [dialog EXCEPT !.open = FALSE]
      /\ UNCHANGED <<store, world, overtaken, reloads>>
    BY DEF injectedSwitched
<1>2. GoodPage(page') /\ page'.gen = page.gen + 1 /\ page'.lock = FALSE
    BY <1>1, Known, AbortGood
<1>3. dialog' \in DialogSet /\ ~ dialog'.open
    BY <1>1, Known DEF DialogSet
<1>4. Rest'
    BY <1>1, <1>3, Known DEF Rest
<1> QED
    BY <1>1, <1>2, <1>3, <1>4, AbortStep

-----------------------------------------------------------------------------
(***************************************************************************)
(* connectWalletConnect.                                                   *)
(***************************************************************************)
\* A new attempt takes the lock in a generation of its own.
LEMMA NewAttemptStep ==
    ASSUME SessionInv, NEW t \in Tasks, connectWalletConnect(t)
    PROVE  SessionInv' /\ CancelStep
<1> DEFINE wcp == IF page.wcp \in world.session THEN page.wcp ELSE None
<1>1. /\ t \in Clicks /\ tasks[t] = Idle /\ ~ page.lock /\ Overlap
      /\ page' = [page EXCEPT !.lock = TRUE, !.gen = page.gen + 1, !.wcp = wcp]
      /\ dialog' = [dialog EXCEPT !.panel = "qr"]
      /\ UNCHANGED <<store, world, reloads>>
    BY DEF connectWalletConnect, Clicked
<1>2. wcp \in Clients \cup {None} /\ page.gen \in Nat /\ page \in PageSet /\ GoodPage(page)
    BY Known DEF PageSet
<1> HIDE DEF wcp
<1>3. /\ page' \in PageSet /\ page'.lock = TRUE /\ page'.gen = page.gen + 1
      /\ page'.bound = page.bound /\ page'.provider = page.provider
      /\ page'.listening = page.listening /\ page'.address = page.address
  <2> DEFINE gen == page.gen + 1
  <2>1. gen \in Nat
      BY <1>2
  <2> HIDE DEF gen
  <2>2. page' = [page EXCEPT !.lock = TRUE, !.gen = gen, !.wcp = wcp]
      BY <1>1 DEF gen
  <2>3. /\ page' \in PageSet /\ page'.lock = TRUE /\ page'.gen = gen
        /\ page'.bound = page.bound /\ page'.provider = page.provider
        /\ page'.listening = page.listening /\ page'.address = page.address
      BY <1>2, <2>1, <2>2 DEF PageSet
  <2> QED
      BY <2>3 DEF gen
<1>4. GoodPage(page')
    BY <1>2, <1>3 DEF GoodPage
<1> DEFINE next == page.gen + 1
           fresh == [Idle EXCEPT !.kind = "wc", !.gen = next]
<1>5. next \in Nat
    BY <1>2
<1> HIDE DEF next
<1>6. /\ fresh \in TaskSet /\ fresh.kind = "wc" /\ fresh.gen = next
      /\ fresh.dev = None
  <2>1. Idle \in TaskSet /\ Idle.dev = None
      BY IdleTask DEF Idle
  <2> QED
      BY <1>5, <2>1 DEF TaskSet, Kinds
<1>7. \/ /\ page.wcp \in world.session
         /\ Await(t, [fresh EXCEPT !.pc = "accts", !.dev = page.wcp])
      \/ Await(t, [fresh EXCEPT !.pc = "init"]) \/ Await(t, [fresh EXCEPT !.pc = "drop"])
    BY DEF connectWalletConnect, next
<1> HIDE DEF fresh
<1>8. PICK task : /\ Await(t, task) /\ GoodTask(t, task, next)
                  /\ task.kind = "wc" /\ task.gen = next
  <2>1. page.wcp \in world.session =>
          LET task == [fresh EXCEPT !.pc = "accts", !.dev = page.wcp] IN
          GoodTask(t, task, next) /\ task.kind = "wc" /\ task.gen = next
    <3> SUFFICES ASSUME page.wcp \in world.session
                 PROVE  LET task == [fresh EXCEPT !.pc = "accts", !.dev = page.wcp] IN
                        GoodTask(t, task, next) /\ task.kind = "wc"
                        /\ task.gen = next
        OBVIOUS
    <3>1. page.wcp \in Providers
        BY Known DEF WorldSet, Providers
    <3> DEFINE task == [fresh EXCEPT !.pc = "accts", !.dev = page.wcp]
    <3>2. /\ task \in TaskSet /\ task.kind = "wc" /\ task.gen = next
          /\ task.dev = page.wcp
        BY <1>6, <3>1 DEF TaskSet
    <3> HIDE DEF task
    <3>3. GoodTask(t, task, next)
        BY <1>1, <1>5, <3>1, <3>2 DEF GoodTask
    <3> QED
        BY <3>2, <3>3 DEF task
  <2>2. \A pc \in {"init", "drop"} :
          LET task == [fresh EXCEPT !.pc = pc] IN
          GoodTask(t, task, next) /\ task.kind = "wc" /\ task.gen = next
      BY <1>1, <1>5, <1>6 DEF GoodTask, TaskSet
  <2> QED
      BY <1>7, <2>1, <2>2
<1> USE DEF next
<1>9. /\ tasks' \in [Tasks -> TaskSet] /\ tasks'[t] = task
      /\ \A u \in Tasks : u # t => tasks'[u] = tasks[u]
    BY <1>8 DEF Await, SessionInv, GoodTask
<1>10. \A u \in Tasks : GoodTask(u, tasks'[u], page'.gen)
  <2>1. \A u \in Tasks : GoodTask(u, tasks[u], page.gen + 1)
      BY <1>2, Known DEF GoodTask, TaskSet
  <2> QED
      BY <1>3, <1>8, <1>9, <2>1
<1>11. Clicks \subseteq Tasks
    BY DEF Tasks
<1>12. \A u \in Clicks : tasks'[u].kind = "wc" =>
          \/ u = t /\ tasks'[u].gen = page.gen + 1
          \/ u # t /\ tasks'[u] = tasks[u] /\ tasks[u].gen \in 0..page.gen
    BY <1>2, <1>8, <1>9, <1>11, Known DEF GoodTask, TaskSet
<1>13. LockIsCurrentAttempt'
  <2>1. page'.lock <=> \E u \in Clicks : tasks'[u].kind = "wc" /\ tasks'[u].gen = page'.gen
      BY <1>1, <1>3, <1>8, <1>9
  <2>2. \A u, v \in Clicks :
          tasks'[u].kind = "wc" /\ tasks'[v].kind = "wc" /\ tasks'[u].gen = tasks'[v].gen
              => u = v
      BY <1>2, <1>12 DEF SessionInv, LockIsCurrentAttempt
  <2> QED
      BY <1>3, <2>1, <2>2 DEF LockIsCurrentAttempt, IsCurrent
<1>14. CancelStep
    BY <1>1, <1>9, <1>11 DEF CancelStep, Cancelled, Idle
<1>15. Rest'
    BY <1>1, OverlapType, Known DEF Rest, DialogSet
<1> QED
    BY <1>4, <1>9, <1>10, <1>13, <1>14, <1>15 DEF SessionInv, Rest

LEMMA ProceedStep ==
    ASSUME SessionInv, NEW t \in Tasks, tasks[t].kind = "wc",
           NEW pg, GoodPage(pg), pg.gen = page.gen, pg.lock = page.lock,
           NEW wd \in WorldSet, NEW c \in Clients, wcProceed(t, pg, wd, c),
           UNCHANGED <<store, overtaken, reloads>>
    PROVE  SessionInv' /\ CancelStep
<1>1. CASE ~ IsCurrent(t)
  <2>1. wcFails(t, pg) /\ world' = wd
      BY <1>1 DEF wcProceed
  <2> QED
      BY <2>1, Known, FailStep DEF Rest
<1>2. CASE IsCurrent(t)
  <2>1. /\ page' = pg /\ dialog' = dialog
        /\ \E pc \in {"accts", "pair"} : Await(t, [tasks[t] EXCEPT !.pc = pc, !.dev = c])
        /\ world' = wd \/ world' = [wd EXCEPT !.proposal = @ \cup {c}]
      BY <1>2 DEF wcProceed
  <2>2. world' \in WorldSet
      BY <2>1 DEF WorldSet
  <2>3. Rest' /\ NoNewCode
      BY <2>1, <2>2, Known, SameCode DEF Rest
  <2>4. PICK task : /\ Await(t, task) /\ GoodTask(t, task, page.gen)
                    /\ task.kind = "wc" /\ task.gen = tasks[t].gen
    <3>1. \A pc \in {"accts", "pair"} :
            LET task == [tasks[t] EXCEPT !.pc = pc, !.dev = c] IN
            GoodTask(t, task, page.gen) /\ task.kind = "wc" /\ task.gen = tasks[t].gen
        BY Known DEF GoodTask, TaskSet, Providers
    <3> QED
        BY <2>1, <3>1
  <2>5. ~ Cancelled(t)
      BY <1>2 DEF Cancelled, IsCurrent
  <2> QED
      BY <2>1, <2>3, <2>4, <2>5, TaskStep
<1> QED
    BY <1>1, <1>2

LEMMA WcDroppedStep ==
    ASSUME SessionInv, NEW t \in Tasks, wcDropped(t)
    PROVE  SessionInv' /\ CancelStep
<1>1. tasks[t].kind = "wc" /\ UNCHANGED <<store, overtaken, reloads>>
    BY DEF wcDropped, At
<1>2. CASE page.wcp # None
  <2>1. wcProceed(t, page, world, page.wcp)
      BY <1>2 DEF wcDropped
  <2>2. page.wcp \in Clients
      BY <1>2, Known DEF PageSet
  <2> QED
      BY <1>1, <2>1, <2>2, Known, ProceedStep
<1>3. CASE page.wcp = None
  <2> DEFINE task == [tasks[t] EXCEPT !.pc = "init"]
  <2>1. Await(t, task) /\ UNCHANGED <<page, dialog, world>>
      BY <1>3 DEF wcDropped
  <2>2. /\ GoodTask(t, task, page.gen) /\ task.kind = "wc"
        /\ task.gen = tasks[t].gen /\ task.pc = "init"
      BY <1>1, Known DEF GoodTask, TaskSet
  <2>3. Rest' /\ NoNewCode
      BY <1>1, <2>1, Known, SameCode DEF Rest
  <2> HIDE DEF task
  <2> QED
      BY <1>1, <2>1, <2>2, <2>3, Known, TaskStep
<1> QED
    BY <1>2, <1>3

LEMMA WcReadyStep ==
    ASSUME SessionInv, NEW t \in Tasks, wcReady(t)
    PROVE  SessionInv' /\ CancelStep
<1>1. tasks[t].kind = "wc" /\ UNCHANGED <<store, overtaken, reloads>>
    BY DEF wcReady, At
<1>2. PICK c \in Clients :
        wcProceed(t, [page EXCEPT !.wcp = c], WithClient(world, c), c)
    BY DEF wcReady
<1> DEFINE pg == [page EXCEPT !.wcp = c]
           wd == WithClient(world, c)
<1>3. GoodPage(pg) /\ pg.gen = page.gen /\ pg.lock = page.lock
    BY Known, FieldsGood
<1>4. wd \in WorldSet
    BY Known, WithClientType
<1>5. wcProceed(t, pg, wd, c)
    BY <1>2
<1> HIDE DEF pg, wd
<1> QED
    BY <1>1, <1>3, <1>4, <1>5, ProceedStep

LEMMA WcThrowsStep ==
    ASSUME SessionInv, NEW t \in Tasks, wcThrows(t)
    PROVE  SessionInv' /\ CancelStep
<1>1. /\ tasks[t].kind = "wc" /\ wcFails(t, page)
      /\ UNCHANGED <<store, world, overtaken, reloads>>
    BY DEF wcThrows, At
<1> QED
    BY <1>1, Known, FailStep DEF Rest

LEMMA WcAnsweredStep ==
    ASSUME SessionInv, NEW t \in Tasks, wcAnswered(t)
    PROVE  SessionInv' /\ CancelStep
<1> DEFINE c == tasks[t].dev
           free == IF page.provider # c THEN unbindProvider(page, page.provider) ELSE page
<1>1. /\ tasks[t].kind = "wc" /\ tasks[t].pc = "accts" /\ c \in world.session
      /\ UNCHANGED <<dialog, overtaken, reloads>>
      /\ \/ /\ Selected(c) # None
            /\ page' = Connected(free, c, Selected(c))
            /\ store' = [key |-> "wc", rdns |-> None]
            /\ Await(t, [tasks[t] EXCEPT !.pc = "switch"]) /\ UNCHANGED world
         \/ /\ clearWalletConnect(world)
            /\ Await(t, [tasks[t] EXCEPT !.pc = "empty"]) /\ UNCHANGED store
    BY DEF wcAnswered, At
<1>2. c \in Providers
    BY <1>1, Known DEF WorldSet, Providers
<1>3. /\ free \in PageSet /\ free.listening \subseteq {free.bound} \ {None}
      /\ free.gen = page.gen /\ free.lock = page.lock
    BY Known, UnbindFrees, GoodPageListens DEF GoodPage
<1>4. /\ GoodPage(page') /\ page'.gen = page.gen /\ page'.lock = page.lock
      /\ world' \in WorldSet /\ store' \in StoreSet
  <2>1. CASE /\ Selected(c) # None /\ page' = Connected(free, c, Selected(c))
             /\ store' = [key |-> "wc", rdns |-> None] /\ UNCHANGED world
    <3>1. Selected(c) \in Accounts
        BY <1>2, <2>1, SelectedType
    <3> HIDE DEF free, c
    <3>2. GoodPage(page') /\ page'.gen = page.gen /\ page'.lock = page.lock
        BY <1>2, <1>3, <2>1, <3>1, ConnectedGood
    <3> QED
        BY <2>1, <3>2, Known DEF StoreSet
  <2>2. CASE clearWalletConnect(world) /\ UNCHANGED store
      BY <2>2, ClearGood, Known
  <2> QED
      BY <1>1, <2>1, <2>2
<1>5. Rest' /\ NoNewCode
    BY <1>1, <1>4, Known, SameCode DEF Rest
<1>6. PICK task : /\ Await(t, task) /\ GoodTask(t, task, page.gen)
                  /\ task.kind = "wc" /\ task.gen = tasks[t].gen
  <2>1. \A pc \in {"switch", "empty"} :
          LET task == [tasks[t] EXCEPT !.pc = pc] IN
          GoodTask(t, task, page.gen) /\ task.kind = "wc" /\ task.gen = tasks[t].gen
      BY <1>1, Known DEF GoodTask, TaskSet
  <2> QED
      BY <1>1, <2>1
<1> QED
    BY <1>1, <1>4, <1>5, <1>6, TaskStep DEF Cancelled

LEMMA WcSwitchedStep ==
    ASSUME SessionInv, NEW t \in Tasks, wcSwitched(t)
    PROVE  SessionInv' /\ CancelStep
<1> DEFINE lock == page.lock /\ ~ IsCurrent(t)
           pg == [page EXCEPT !.lock = lock]
<1>1. /\ Finish(t) /\ page' = abortWalletConnect(Unlocked(t, page))
      /\ dialog' = [dialog EXCEPT !.open = FALSE]
      /\ UNCHANGED <<store, world, overtaken, reloads>>
    BY DEF wcSwitched
<1>2. Unlocked(t, page) = pg
    BY DEF Unlocked
<1>3. lock \in BOOLEAN
    OBVIOUS
<1> HIDE DEF lock
<1>4. GoodPage(pg) /\ pg.gen = page.gen
    BY <1>3, Known, FieldsGood
<1> HIDE DEF pg
<1>5. GoodPage(page') /\ page'.gen = page.gen + 1 /\ page'.lock = FALSE
    BY <1>1, <1>2, <1>4, AbortGood
<1>6. dialog' \in DialogSet /\ ~ dialog'.open
    BY <1>1, Known DEF DialogSet
<1>7. Rest'
    BY <1>1, <1>6, Known DEF Rest
<1> QED
    BY <1>1, <1>5, <1>6, <1>7, AbortStep

-----------------------------------------------------------------------------
(***************************************************************************)
(* Wallets.                                                                *)
(***************************************************************************)
LEMMA ApproveStep ==
    ASSUME SessionInv, NEW c \in Clients, approvePairing(c)
    PROVE  SessionInv' /\ CancelStep
<1>1. /\ world' = [world EXCEPT !.proposal = @ \ {c}, !.session = @ \cup {c}, !.paired = TRUE]
      /\ UNCHANGED <<store, overtaken, reloads>>
      /\ \/ UNCHANGED <<page, dialog, tasks>>
         \/ \E t \in Tasks :
              /\ At(t, "wc", "pair") /\ tasks[t].dev = c
              /\ IF IsCurrent(t)
                 THEN /\ Await(t, [tasks[t] EXCEPT !.pc = "accts"])
                      /\ UNCHANGED <<page, dialog>>
                 ELSE wcFails(t, page)
    BY DEF approvePairing
<1>2. world \in WorldSet /\ GoodPage(page) /\ Rest
    BY DEF SessionInv, Rest
<1>3. world' \in WorldSet
  <2>1. /\ world.proposal \ {c} \in SUBSET Clients /\ world.session \cup {c} \in SUBSET Clients
      BY <1>2 DEF WorldSet
  <2> QED
      BY <1>1, <1>2, <2>1 DEF WorldSet
<1>4. CASE UNCHANGED <<page, dialog, tasks>>
    BY <1>1, <1>2, <1>3, <1>4, SameCode, PageStep DEF Rest
<1>5. ASSUME NEW t \in Tasks, At(t, "wc", "pair"), tasks[t].dev = c, ~ IsCurrent(t),
             wcFails(t, page)
      PROVE  SessionInv' /\ CancelStep
    BY <1>1, <1>2, <1>3, <1>5, FailStep DEF At, Rest
<1>6. ASSUME NEW t \in Tasks, At(t, "wc", "pair"), tasks[t].dev = c, IsCurrent(t),
             Await(t, [tasks[t] EXCEPT !.pc = "accts"]), UNCHANGED <<page, dialog>>
      PROVE  SessionInv' /\ CancelStep
  <2> DEFINE task == [tasks[t] EXCEPT !.pc = "accts"]
  <2>1. /\ task \in TaskSet /\ task.kind = "wc" /\ task.gen = tasks[t].gen
        /\ task.dev = c /\ task.acct = tasks[t].acct
      BY <1>6, Known DEF At, TaskSet
  <2> HIDE DEF task
  <2>2. GoodTask(t, task, page.gen)
      BY <1>6, <2>1, Known DEF At, GoodTask, Providers
  <2>3. ~ Cancelled(t) /\ Await(t, task)
      BY <1>6 DEF Cancelled, IsCurrent, task
  <2>4. Rest' /\ NoNewCode
      BY <1>1, <1>2, <1>3, <1>6, SameCode DEF Rest
  <2> QED
      BY <1>2, <1>6, <2>1, <2>2, <2>3, <2>4, TaskStep DEF At
<1> QED
    BY <1>1, <1>4, <1>5, <1>6

LEMMA RefuseStep ==
    ASSUME SessionInv, NEW c \in Clients, refusePairing(c)
    PROVE  SessionInv' /\ CancelStep
<1>1. /\ world' = [world EXCEPT !.proposal = @ \ {c}]
      /\ UNCHANGED <<store, overtaken, reloads>>
      /\ \/ UNCHANGED <<page, dialog, tasks>>
         \/ \E t \in Tasks : At(t, "wc", "pair") /\ wcFails(t, page)
    BY DEF refusePairing
<1>2. world \in WorldSet /\ GoodPage(page) /\ Rest
    BY DEF SessionInv, Rest
<1>3. world' \in WorldSet
    BY <1>1, <1>2 DEF WorldSet
<1>4. CASE UNCHANGED <<page, dialog, tasks>>
    BY <1>1, <1>2, <1>3, <1>4, SameCode, PageStep DEF Rest
<1>5. CASE \E t \in Tasks : At(t, "wc", "pair") /\ wcFails(t, page)
    BY <1>1, <1>2, <1>3, <1>5, FailStep DEF At, Rest
<1> QED
    BY <1>1, <1>4, <1>5

LEMMA AccountsChangedStep ==
    ASSUME SessionInv, NEW w \in Wallets \cup {Phone}, NEW a \in Accounts \cup {None},
           onAccountsChanged(w, a)
    PROVE  SessionInv' /\ CancelStep
<1> DEFINE wd == [world EXCEPT !.acct[w] = a]
<1>1. /\ UNCHANGED <<dialog, tasks, reloads>>
      /\ \/ world' = wd /\ UNCHANGED <<page, store, overtaken>>
         \/ fullLogout(wd) /\ Overlap
         \/ /\ Heard(w) # {} /\ a # None
            /\ page' = [page EXCEPT !.address = a]
            /\ \E key \in {store.key, "wc", "injected"} : store' = [store EXCEPT !.key = key]
            /\ world' = wd /\ UNCHANGED overtaken
    BY DEF onAccountsChanged
<1>2. GoodPage(page) /\ page \in PageSet /\ Rest /\ world \in WorldSet /\ store \in StoreSet
    BY DEF SessionInv, Rest, GoodPage
<1>3. wd \in WorldSet
    BY <1>2 DEF WorldSet
<1> HIDE DEF wd
<1>4. CASE world' = wd /\ UNCHANGED <<page, store, overtaken>>
  <2>1. Rest' /\ NoNewCode
      BY <1>1, <1>2, <1>3, <1>4, SameCode DEF Rest
  <2> QED
      BY <1>1, <1>2, <1>4, <2>1, PageStep
<1>5. CASE fullLogout(wd) /\ Overlap
  <2>1. /\ GoodPage(page') /\ page'.gen = page.gen /\ page'.lock = page.lock
        /\ world' \in WorldSet /\ store' \in StoreSet
      BY <1>3, <1>5, LogoutGood
  <2>2. Rest' /\ NoNewCode
      BY <1>1, <1>2, <1>5, <2>1, OverlapType, SameCode DEF Rest
  <2> QED
      BY <1>1, <2>1, <2>2, PageStep
<1>6. CASE /\ Heard(w) # {} /\ a # None
           /\ page' = [page EXCEPT !.address = a]
           /\ \E key \in {store.key, "wc", "injected"} : store' = [store EXCEPT !.key = key]
           /\ world' = wd /\ UNCHANGED overtaken
  <2>1. page.provider # None
      BY <1>2, <1>6 DEF Heard, GoodPage
  <2>2. GoodPage(page') /\ page'.gen = page.gen /\ page'.lock = page.lock
      BY <1>2, <1>6, <2>1 DEF GoodPage, PageSet
  <2>3. store' \in StoreSet
      BY <1>2, <1>6 DEF StoreSet
  <2>4. Rest' /\ NoNewCode
      BY <1>1, <1>2, <1>3, <1>6, <2>3, SameCode DEF Rest
  <2> QED
      BY <1>1, <2>2, <2>4, PageStep
<1> QED
    BY <1>1, <1>4, <1>5, <1>6

LEMMA DisconnectStep ==
    ASSUME SessionInv, NEW w \in Wallets \cup {Phone}, onDisconnect(w)
    PROVE  SessionInv' /\ CancelStep
<1> DEFINE wd == IF w = Phone THEN [world EXCEPT !.session = {}, !.paired = FALSE] ELSE world
<1>1. /\ Overlap /\ UNCHANGED <<dialog, tasks, reloads>>
      /\ fullLogout(wd) \/ (world' = wd /\ UNCHANGED <<page, store>>)
    BY DEF onDisconnect
<1>2. GoodPage(page) /\ Rest /\ world \in WorldSet
    BY DEF SessionInv, Rest
<1>3. wd \in WorldSet
    BY <1>2 DEF WorldSet
<1> HIDE DEF wd
<1>4. /\ GoodPage(page') /\ page'.gen = page.gen /\ page'.lock = page.lock
      /\ world' \in WorldSet /\ store' \in StoreSet
    BY <1>1, <1>2, <1>3, LogoutGood DEF Rest
<1>5. Rest' /\ NoNewCode
    BY <1>1, <1>2, <1>4, OverlapType, SameCode DEF Rest
<1> QED
    BY <1>1, <1>4, <1>5, PageStep

LEMMA StutterStep ==
    ASSUME SessionInv, UNCHANGED vars
    PROVE  SessionInv' /\ CancelStep
<1>1. UNCHANGED <<page, store, dialog, tasks, world, overtaken, reloads>>
    BY DEF vars
<1>2. GoodPage(page') /\ Rest' /\ NoNewCode
    BY <1>1, SameCode DEF SessionInv, Rest
<1> QED
    BY <1>1, <1>2, PageStep

-----------------------------------------------------------------------------
LEMMA SettleStep ==
    ASSUME SessionInv, NEW t \in Tasks, Settle(t)
    PROVE  SessionInv' /\ CancelStep
    BY SilentInitStep, SilentDiscoveredStep, SilentAnsweredStep, SilentUnansweredStep,
       SilentEndsStep, InjectedDroppedStep, WcDroppedStep, WcReadyStep, WcThrowsStep,
       WcAnsweredStep
       DEF Settle

LEMMA UserStep ==
    ASSUME SessionInv, NEW t \in Tasks, UserAnswers(t)
    PROVE  SessionInv' /\ CancelStep
    BY InjectedAnsweredStep, InjectedRefusedStep, InjectedSwitchedStep, WcSwitchedStep
       DEF UserAnswers

LEMMA NextKeepsSession == SessionInv /\ [Next]_vars => SessionInv' /\ CancelStep
    BY ReloadStep, DialogStep, DisconnectWalletStep, CloseStep, SettleStep, UserStep,
       NewAttemptStep, InjectedChoiceStep, ApproveStep, RefuseStep, DisconnectStep,
       AccountsChangedStep, StutterStep
       DEF Next

LEMMA InitSession == Init => SessionInv
<1> SUFFICES ASSUME Init
             PROVE  SessionInv
    OBVIOUS
<1>1. page = NewPage /\ dialog = NewDialog /\ tasks = [t \in Tasks |-> Idle]
    BY DEF Init
<1>2. /\ GoodPage(page) /\ page.gen = 0 /\ page.lock = FALSE /\ dialog \in DialogSet
      /\ dialog.open = FALSE
    BY <1>1 DEF GoodPage, PageSet, NewPage, NewDialog, DialogSet
<1>3. store \in StoreSet /\ world \in WorldSet /\ overtaken \in BOOLEAN
      /\ reloads \in 0..MaxReloads
  <2>1. store \in StoreSet
    <3>1. store = [key |-> None, rdns |-> None]
        BY DEF Init
    <3> QED
        BY <3>1 DEF StoreSet
  <2>4. overtaken \in BOOLEAN
      BY DEF Init
  <2>5. reloads \in 0..MaxReloads
    <3>1. reloads = 0
        BY DEF Init
    <3> QED
        BY <3>1, WalletAssumption
  <2>2. PICK acct \in [Wallets \cup {Phone} -> Accounts \cup {None}] :
            world = NewWorld(acct, FALSE)
      BY DEF Init
  <2>3. world \in WorldSet
      BY <2>2 DEF NewWorld, WorldSet
  <2> QED
      BY <2>1, <2>3, <2>4, <2>5
<1>4. /\ tasks \in [Tasks -> TaskSet]
      /\ \A t \in Tasks : GoodTask(t, tasks[t], page.gen) /\ tasks[t] = Idle
    BY <1>1, <1>2, IdleTask
<1>5. Clicks \subseteq Tasks /\ Idle.kind # "wc"
    BY DEF Tasks, Idle
<1>6. LockIsCurrentAttempt
    BY <1>2, <1>4, <1>5 DEF LockIsCurrentAttempt
<1> QED
    BY <1>2, <1>3, <1>4, <1>6 DEF SessionInv

\* SessionInv is an invariant, whatever the wallets, the phone and the user do.
THEOREM SessionInvariant == Spec => []SessionInv
    BY InitSession, NextKeepsSession, PTL DEF Spec

\* bindProviderListeners, unbindProvider and fullLogout together keep the page
\* listening to the provider it uses and to no other.
THEOREM OnlyCurrentProviderIsHeard == Spec => []OnlyCurrentIsHeard
<1>1. SessionInv => OnlyCurrentIsHeard
    BY TypeParts DEF SessionInv, GoodPage, OnlyCurrentIsHeard
<1> QED
    BY <1>1, SessionInvariant, PTL

\* connectLock and wcGeneration: the lock belongs to the one current attempt.
THEOREM LockFollowsAttempt == Spec => []LockIsCurrentAttempt
    BY SessionInvariant, PTL DEF SessionInv

\* The generation checks of connectWalletConnect stop every attempt that was
\* cancelled before its pairing was approved.
THEOREM CancelledAttemptsStop == Spec => CancelledNeverConnects
<1>1. SessionInv /\ [Next]_vars =>
        [\A t \in Clicks :
            tasks[t].kind = "wc" /\ tasks[t].pc \in {"drop", "init", "pair"}
                /\ tasks[t].gen # page.gen
            => tasks'[t].pc \notin {"accts", "switch"}]_vars
    BY NextKeepsSession DEF CancelStep, Cancelled
<1> QED
    BY <1>1, SessionInvariant, PTL DEF Spec, CancelledNeverConnects

-----------------------------------------------------------------------------
(***************************************************************************)
(* The session a reload, or a logout, finds.                               *)
(*                                                                         *)
(* As long as nothing happened while a connection was under way, there is  *)
(* at most one, and what it has written so far is what its last step needs *)
(* to leave provider, storage and WalletConnect client in agreement.       *)
(***************************************************************************)
SoundWorld(pg, wd) ==
    /\ wd.session \cup wd.proposal \subseteq wd.made
    /\ wd.session \cap wd.proposal = {}
    /\ pg.wcp # None => pg.wcp \in wd.made

\* The provider in use is the one that storage names, and never one that a late
\* approval could still bring to life.
Reachable(pg, st, wd) ==
    pg.provider # None =>
        IF pg.provider \in Wallets
        THEN st = [key |-> "injected", rdns |-> pg.provider]
        ELSE /\ st.key = "wc"
             /\ pg.provider \in wd.session => pg.wcp = pg.provider
             /\ pg.provider \in wd.made \ wd.proposal

\* What the connection that runs alone has written so far
Prepared(task, pg, st, wd) ==
    /\ task.kind = "silent" =>
         /\ pg.provider = None
         /\ task.pc = "init" => st.key = "wc"
         /\ task.pc = "discover" => st.key = "injected"
         /\ task.pc = "accts" =>
              IF task.dev \in Wallets THEN st = [key |-> "injected", rdns |-> task.dev]
              ELSE st.key = "wc" /\ pg.wcp = task.dev
    /\ task.kind = "wc" =>
         /\ task.pc \in {"init", "drop"} => pg.wcp = None /\ pg.provider \notin wd.session
         /\ task.pc \in {"pair", "accts"} => pg.wcp = task.dev

AloneInv ==
    /\ SoundWorld(page, world)
    /\ ~ overtaken =>
         /\ Reachable(page, store, world)
         /\ \A t, u \in Tasks : tasks[t] # Idle /\ tasks[u] # Idle => t = u
         /\ \A t \in Tasks : Prepared(tasks[t], page, store, world)

\* The four ways in which a step can bear on it
LEMMA IdlePrepared ==
    ASSUME NEW pg, NEW st, NEW wd
    PROVE  Prepared(Idle, pg, st, wd)
    BY DEF Prepared, Idle

LEMMA AloneMoves ==
    ASSUME SessionInv, AloneInv, NEW t \in Tasks, tasks[t] # Idle, NEW task, Await(t, task),
           overtaken' = overtaken, SoundWorld(page', world'),
           ~ overtaken => /\ Reachable(page', store', world')
                          /\ Prepared(task, page', store', world')
    PROVE  AloneInv'
<1> SUFFICES ASSUME ~ overtaken
             PROVE  /\ \A u, v \in Tasks : tasks'[u] # Idle /\ tasks'[v] # Idle => u = v
                    /\ \A u \in Tasks : Prepared(tasks'[u], page', store', world')
    BY DEF AloneInv
<1>1. tasks'[t] = task /\ \A u \in Tasks : u # t => tasks'[u] = tasks[u]
    BY DEF SessionInv, Await
<1>2. \A u \in Tasks : u # t => tasks[u] = Idle
    BY DEF AloneInv
<1> QED
    BY <1>1, <1>2, IdlePrepared

LEMMA AloneStarts ==
    ASSUME SessionInv, AloneInv, NEW t \in Tasks, NEW task, Await(t, task), Overlap,
           SoundWorld(page', world'),
           ~ overtaken /\ ~ Busy => /\ Reachable(page', store', world')
                                    /\ Prepared(task, page', store', world')
    PROVE  AloneInv'
<1> SUFFICES ASSUME ~ overtaken, ~ Busy
             PROVE  /\ \A u, v \in Tasks : tasks'[u] # Idle /\ tasks'[v] # Idle => u = v
                    /\ \A u \in Tasks : Prepared(tasks'[u], page', store', world')
    BY DEF AloneInv, Overlap
<1>1. tasks'[t] = task /\ \A u \in Tasks : u # t => tasks'[u] = tasks[u]
    BY DEF SessionInv, Await
<1>2. \A u \in Tasks : tasks[u] = Idle
    BY DEF Busy
<1> QED
    BY <1>1, <1>2, IdlePrepared

LEMMA AloneOvertaken ==
    ASSUME AloneInv, tasks' = tasks, Overlap, SoundWorld(page', world'),
           ~ overtaken /\ ~ Busy => Reachable(page', store', world')
    PROVE  AloneInv'
<1> SUFFICES ASSUME ~ overtaken, ~ Busy
             PROVE  /\ \A u, v \in Tasks : tasks'[u] # Idle /\ tasks'[v] # Idle => u = v
                    /\ \A u \in Tasks : Prepared(tasks'[u], page', store', world')
    BY DEF AloneInv, Overlap
<1>1. \A u \in Tasks : tasks'[u] = Idle
    BY DEF Busy
<1> QED
    BY <1>1, IdlePrepared

LEMMA AloneStays ==
    ASSUME AloneInv, tasks' = tasks, overtaken' = overtaken, SoundWorld(page', world'),
           ~ overtaken => /\ Reachable(page', store', world')
                          /\ \A t \in Tasks : Prepared(tasks[t], page', store', world')
    PROVE  AloneInv'
    BY DEF AloneInv

-----------------------------------------------------------------------------
\* What the helpers do to the provider, the client and the sets of the library
LEMMA PageParts ==
    ASSUME NEW pg \in PageSet, NEW p \in Providers \cup {None}
    PROVE  /\ \A wcp : LET new == [pg EXCEPT !.wcp = wcp] IN
                       new.provider = pg.provider /\ new.wcp = wcp
           /\ LET new == unbindProvider(pg, p) IN
              new \in PageSet /\ new.provider = pg.provider /\ new.wcp = pg.wcp
           /\ LET new == abortWalletConnect(pg) IN
              /\ new.provider = pg.provider
              /\ new.wcp = IF pg.wcp \in world.session THEN pg.wcp ELSE None
           /\ \A t \in Tasks : LET new == Unlocked(t, pg) IN
              new.provider = pg.provider /\ new.wcp = pg.wcp /\ new \in PageSet
    BY DEF PageSet, unbindProvider, abortWalletConnect, Unlocked

LEMMA ConnectedParts ==
    ASSUME NEW pg \in PageSet, NEW p \in Providers, NEW a \in Accounts
    PROVE  Connected(pg, p, a).provider = p /\ Connected(pg, p, a).wcp = pg.wcp
<1> DEFINE freed == IF pg.bound # p THEN unbindProvider(pg, pg.bound) ELSE pg
           heard == [freed EXCEPT !.listening = @ \cup {p}, !.bound = p]
<1>1. pg.bound \in Providers \cup {None}
    BY DEF PageSet
<1>2. freed \in PageSet /\ freed.wcp = pg.wcp
    BY <1>1, PageParts
<1>3. bindProviderListeners(pg, p) = heard
    BY DEF bindProviderListeners
<1> HIDE DEF freed
<1>4. heard \in PageSet /\ heard.wcp = pg.wcp
    BY <1>2 DEF PageSet
<1> HIDE DEF heard
<1>5. Connected(pg, p, a) = [heard EXCEPT !.provider = p, !.address = a]
    BY <1>3 DEF Connected
<1> QED
    BY <1>4, <1>5 DEF PageSet

LEMMA WorldParts ==
    ASSUME NEW wd \in WorldSet, NEW c
    PROVE  /\ LET new == Disconnected(wd, c) IN
              /\ new.session = wd.session \ {c} /\ new.proposal = wd.proposal
              /\ new.made = wd.made
           /\ LET new == WithClient(wd, c) IN
              /\ new.session \in {wd.session, wd.session \cup {c}}
              /\ new.proposal = wd.proposal /\ new.made = wd.made \cup {c}
           /\ wd.session \subseteq Clients /\ wd.proposal \subseteq Clients
           /\ wd.made \subseteq Clients
    BY DEF WorldSet, Disconnected, WithClient

\* The provider of the page and of a task
LEMMA PartyTypes ==
    ASSUME SessionInv
    PROVE  /\ page \in PageSet /\ world \in WorldSet /\ store \in StoreSet
           /\ page.provider \in Wallets \cup Clients \cup {None}
           /\ page.wcp \in Clients \cup {None}
           /\ None \notin Wallets \cup Clients /\ Wallets \cap Clients = {}
    BY DEF SessionInv, GoodPage, PageSet, Providers

LEMMA ClearAlone ==
    ASSUME SessionInv, AloneInv, clearWalletConnect(world)
    PROVE  /\ SoundWorld(page', world')
           /\ page'.provider = page.provider /\ page'.wcp = None
           /\ world'.session = world.session \ {page.wcp}
           /\ ~ overtaken => Reachable(page', store, world')
<1>1. /\ page' = [page EXCEPT !.wcp = None] /\ world' = Disconnected(world, page.wcp)
    BY DEF clearWalletConnect
<1>2. /\ page'.provider = page.provider /\ page'.wcp = None
      /\ world'.session = world.session \ {page.wcp} /\ world'.proposal = world.proposal
      /\ world'.made = world.made
    BY <1>1, PartyTypes, PageParts, WorldParts
<1> QED
    BY <1>2, PartyTypes DEF AloneInv, SoundWorld, Reachable

LEMMA LogoutAlone ==
    ASSUME SessionInv, AloneInv, NEW wd \in WorldSet, fullLogout(wd),
           wd.session \subseteq world.session, wd.proposal = world.proposal,
           wd.made = world.made
    PROVE  SoundWorld(page', world') /\ Reachable(page', store', world')
<1> DEFINE bare == [page EXCEPT !.address = None, !.provider = None]
           freed == unbindProvider(bare, page.provider)
<1>1. page' = [freed EXCEPT !.wcp = None] /\ world' = Disconnected(wd, page.wcp)
    BY DEF fullLogout
<1>2. bare \in PageSet /\ bare.provider = None
    BY PartyTypes DEF PageSet
<1> HIDE DEF bare
<1>3. freed \in PageSet /\ freed.provider = None
    BY <1>2, PartyTypes, PageParts DEF Providers
<1> HIDE DEF freed
<1>4. page'.provider = None /\ page'.wcp = None
    BY <1>1, <1>3, PageParts
<1>5. /\ world'.session \subseteq wd.session /\ world'.proposal = wd.proposal
      /\ world'.made = wd.made
    BY <1>1, WorldParts
<1> QED
    BY <1>4, <1>5 DEF AloneInv, SoundWorld, Reachable

-----------------------------------------------------------------------------
(***************************************************************************)
(* Every action keeps it.                                                  *)
(***************************************************************************)
LEMMA AbortAlone ==
    ASSUME SessionInv, AloneInv, NEW pg \in PageSet,
           pg.provider = page.provider, pg.wcp = page.wcp,
           page' = abortWalletConnect(pg), world' = world
    PROVE  /\ SoundWorld(page', world')
           /\ ~ overtaken => Reachable(page', store, world')
<1>1. /\ page'.provider = page.provider
      /\ page'.wcp = IF page.wcp \in world.session THEN page.wcp ELSE None
    BY PageParts
<1> QED
    BY <1>1, PartyTypes DEF AloneInv, SoundWorld, Reachable

LEMMA ReloadAlone ==
    ASSUME SessionInv, AloneInv, Reload
    PROVE  AloneInv'
<1>1. /\ page' = NewPage /\ world' = NewWorld(world.acct, world.paired)
      /\ overtaken' = FALSE /\ store' = store
      /\ \A t \in Tasks : tasks'[t] =
            IF t # Boot \/ store.key = None THEN Idle
            ELSE [Idle EXCEPT !.kind = "silent",
                              !.pc = IF store.key = "wc" THEN "init" ELSE "discover"]
    BY DEF Reload
<1>2. /\ page'.provider = None /\ page'.wcp = None
      /\ world'.session = {} /\ world'.proposal = {}
    BY <1>1 DEF NewPage, NewWorld
<1>3. SoundWorld(page', world') /\ Reachable(page', store', world')
    BY <1>2 DEF SoundWorld, Reachable
<1>4. \A t, u \in Tasks : tasks'[t] # Idle /\ tasks'[u] # Idle => t = u
    BY <1>1
<1>5. ASSUME NEW t \in Tasks
      PROVE  Prepared(tasks'[t], page', store', world')
  <2>1. CASE t # Boot \/ store.key = None
    <3>1. tasks'[t] = Idle
        BY <1>1, <2>1
    <3> QED
        BY <3>1, IdlePrepared
  <2>2. CASE ~ (t # Boot \/ store.key = None)
    <3>1. /\ tasks'[t].kind = "silent"
          /\ tasks'[t].pc = IF store.key = "wc" THEN "init" ELSE "discover"
        BY <1>1, <2>2 DEF Idle
    <3>2. store.key \in {"injected", "wc"}
        BY <2>2, PartyTypes DEF StoreSet
    <3> QED
        BY <1>1, <1>2, <3>1, <3>2 DEF Prepared
  <2> QED
      BY <2>1, <2>2
<1> QED
    BY <1>3, <1>4, <1>5 DEF AloneInv

LEMMA SilentInitAlone ==
    ASSUME SessionInv, AloneInv, NEW t \in Tasks, silentInit(t)
    PROVE  AloneInv'
<1>1. PICK c \in Clients \ world.made :
          /\ world' = WithClient(world, c)
          /\ IF c \in world'.session
             THEN /\ Await(t, [tasks[t] EXCEPT !.pc = "accts", !.dev = c])
                  /\ page' = [page EXCEPT !.wcp = c]
                  /\ UNCHANGED store
             ELSE /\ Await(t, [tasks[t] EXCEPT !.pc = "empty"])
                  /\ page' = [page EXCEPT !.wcp = None]
                  /\ store' = [store EXCEPT !.key = None]
    BY DEF silentInit
<1>2. /\ At(t, "silent", "init") /\ overtaken' = overtaken
      /\ tasks[t].kind = "silent" /\ tasks[t].pc = "init" /\ tasks[t] # Idle
      /\ tasks[t] \in TaskSet
    BY DEF silentInit, At, Idle, SessionInv
<1>3. /\ world'.session \in {world.session, world.session \cup {c}}
      /\ world'.proposal = world.proposal /\ world'.made = world.made \cup {c}
    BY <1>1, PartyTypes, WorldParts
<1>4. page'.provider = page.provider /\ page'.wcp = IF c \in world'.session THEN c ELSE None
  <2>1. page \in PageSet
      BY PartyTypes
  <2> QED
      BY ONLY <1>1, <2>1 DEF PageSet
<1>5. SoundWorld(page', world')
    BY <1>3, <1>4, PartyTypes DEF AloneInv, SoundWorld
<1>6. ~ overtaken => page.provider = None /\ store.key = "wc"
    BY <1>2 DEF AloneInv, Prepared
<1>7. ~ overtaken => Reachable(page', store', world')
    BY <1>4, <1>6 DEF Reachable
<1>8. CASE c \in world'.session
  <2> DEFINE task == [tasks[t] EXCEPT !.pc = "accts", !.dev = c]
  <2>1. Await(t, task) /\ page'.wcp = c /\ store' = store
      BY <1>1, <1>4, <1>8
  <2>2. task.kind = "silent" /\ task.pc = "accts" /\ task.dev = c
      BY <1>2 DEF TaskSet
  <2>3. c \notin Wallets
      BY WalletAssumption
  <2> HIDE DEF task
  <2>4. ~ overtaken => Prepared(task, page', store', world')
      BY <1>4, <1>6, <2>1, <2>2, <2>3 DEF Prepared
  <2> QED
      BY <1>2, <1>5, <1>7, <2>1, <2>4, AloneMoves
<1>9. CASE c \notin world'.session
  <2> DEFINE task == [tasks[t] EXCEPT !.pc = "empty"]
  <2>1. Await(t, task)
      BY <1>1, <1>9
  <2>2. task.kind = "silent" /\ task.pc = "empty"
      BY <1>2 DEF TaskSet
  <2> HIDE DEF task
  <2>3. ~ overtaken => Prepared(task, page', store', world')
      BY <1>4, <1>6, <2>2 DEF Prepared
  <2> QED
      BY <1>2, <1>5, <1>7, <2>1, <2>3, AloneMoves
<1> QED
    BY <1>8, <1>9

LEMMA SilentDiscoveredAlone ==
    ASSUME SessionInv, AloneInv, NEW t \in Tasks, silentDiscovered(t)
    PROVE  AloneInv'
<1>1. /\ page' = page /\ world' = world /\ overtaken' = overtaken
      /\ tasks[t].kind = "silent" /\ tasks[t].pc = "discover" /\ tasks[t] # Idle
      /\ tasks[t] \in TaskSet
    BY DEF silentDiscovered, At, Idle, SessionInv
<1>2. SoundWorld(page', world')
    BY <1>1 DEF AloneInv
<1>3. ~ overtaken => page.provider = None /\ store.key = "injected"
    BY <1>1 DEF AloneInv, Prepared
<1>4. ~ overtaken => Reachable(page', store', world')
    BY <1>1, <1>3 DEF Reachable
<1> DEFINE task == [tasks[t] EXCEPT !.pc = "accts", !.dev = store.rdns]
<1>5. CASE Await(t, task) /\ store' = store /\ store.rdns \in Wallets
  <2>1. task.kind = "silent" /\ task.pc = "accts" /\ task.dev = store.rdns
      BY <1>1 DEF TaskSet
  <2> HIDE DEF task
  <2>2. ~ overtaken => store' = [key |-> "injected", rdns |-> store.rdns]
      BY <1>3, <1>5, PartyTypes DEF StoreSet
  <2>3. ~ overtaken => Prepared(task, page', store', world')
      BY <1>1, <1>3, <1>5, <2>1, <2>2 DEF Prepared
  <2> QED
      BY <1>1, <1>2, <1>4, <1>5, <2>3, AloneMoves
<1>6. CASE Finish(t)
    BY <1>1, <1>2, <1>4, <1>6, AloneMoves, IdlePrepared DEF Finish
<1> QED
    BY <1>5, <1>6 DEF silentDiscovered

LEMMA SilentAnsweredAlone ==
    ASSUME SessionInv, AloneInv, NEW t \in Tasks, silentAnswered(t)
    PROVE  AloneInv'
<1> DEFINE p == tasks[t].dev
<1>1. /\ Answers(p) /\ page' = Connected(page, p, Selected(p)) /\ Await(t, Idle)
      /\ store' = store /\ world' = world /\ overtaken' = overtaken
      /\ tasks[t].kind = "silent" /\ tasks[t].pc = "accts" /\ tasks[t] # Idle
    BY DEF silentAnswered, At, Idle, Finish
<1>2. p \in Providers
    BY <1>1 DEF SessionInv, GoodTask
<1> HIDE DEF p
<1>3. Selected(p) \in Accounts
    BY <1>1, <1>2, PartyTypes DEF Answers, Selected, WorldSet, Providers
<1>4. page'.provider = p /\ page'.wcp = page.wcp
    BY <1>1, <1>2, <1>3, PartyTypes, ConnectedParts
<1>5. SoundWorld(page', world')
    BY <1>1, <1>4 DEF AloneInv, SoundWorld
<1>6. ~ overtaken =>
         IF p \in Wallets THEN store = [key |-> "injected", rdns |-> p]
         ELSE store.key = "wc" /\ page.wcp = p
    BY <1>1 DEF AloneInv, Prepared, p
<1>7. p \notin Wallets => p \in world.made \ world.proposal
    BY <1>1, <1>2 DEF AloneInv, SoundWorld, Answers, Providers
<1>8. ~ overtaken => Reachable(page', store', world')
    BY <1>1, <1>4, <1>6, <1>7 DEF Reachable
<1> QED
    BY <1>1, <1>5, <1>8, IdlePrepared, AloneMoves

LEMMA SilentUnansweredAlone ==
    ASSUME SessionInv, AloneInv, NEW t \in Tasks, silentUnanswered(t)
    PROVE  AloneInv'
<1>1. /\ overtaken' = overtaken /\ tasks[t].kind = "silent" /\ tasks[t] # Idle
      /\ tasks[t] \in TaskSet
    BY DEF silentUnanswered, At, Idle, SessionInv
<1>2. ~ overtaken => page.provider = None
    BY <1>1 DEF AloneInv, Prepared
<1>3. CASE tasks[t].dev \in world.session
  <2> DEFINE task == [tasks[t] EXCEPT !.pc = "empty"]
  <2>1. clearWalletConnect(world) /\ Await(t, task)
      BY <1>3 DEF silentUnanswered
  <2>2. task.kind = "silent" /\ task.pc = "empty"
      BY <1>1 DEF TaskSet
  <2> HIDE DEF task
  <2>3. SoundWorld(page', world') /\ page'.provider = page.provider
      BY <2>1, ClearAlone
  <2>4. ~ overtaken => /\ Reachable(page', store', world')
                       /\ Prepared(task, page', store', world')
      BY <1>2, <2>2, <2>3 DEF Reachable, Prepared
  <2> QED
      BY <1>1, <2>1, <2>3, <2>4, AloneMoves
<1>4. CASE tasks[t].dev \notin world.session
  <2>1. Await(t, Idle) /\ page' = page /\ store' = store /\ world' = world
      BY <1>4 DEF silentUnanswered, Finish
  <2>2. SoundWorld(page', world') /\ (~ overtaken => Reachable(page', store', world'))
      BY <2>1 DEF AloneInv
  <2> QED
      BY <1>1, <2>1, <2>2, IdlePrepared, AloneMoves
<1> QED
    BY <1>3, <1>4

\* A connection ends and touches nothing else.
LEMMA EndsAlone ==
    ASSUME SessionInv, AloneInv, NEW t \in Tasks, tasks[t] # Idle, Finish(t),
           UNCHANGED <<store, world, overtaken>>,
           page'.provider = page.provider, page'.wcp = page.wcp
    PROVE  AloneInv'
<1>1. SoundWorld(page', world') /\ (~ overtaken => Reachable(page', store', world'))
    BY DEF AloneInv, SoundWorld, Reachable
<1> QED
    BY <1>1, IdlePrepared, AloneMoves DEF Finish

LEMMA SilentEndsAlone ==
    ASSUME SessionInv, AloneInv, NEW t \in Tasks, silentEnds(t)
    PROVE  AloneInv'
<1>1. tasks[t] # Idle
    BY DEF silentEnds, At, Idle
<1> QED
    BY <1>1, EndsAlone DEF silentEnds

LEMMA InjectedRefusedAlone ==
    ASSUME SessionInv, AloneInv, NEW t \in Tasks, injectedRefused(t)
    PROVE  AloneInv'
<1>1. tasks[t] # Idle
    BY DEF injectedRefused, At, Idle
<1> QED
    BY <1>1, EndsAlone DEF injectedRefused

LEMMA DialogAlone ==
    ASSUME SessionInv, AloneInv, openConnectDialog \/ escapeDialog
    PROVE  AloneInv'
    BY AloneStays DEF openConnectDialog, escapeDialog, AloneInv

LEMMA DisconnectWalletAlone ==
    ASSUME SessionInv, AloneInv, disconnectWallet
    PROVE  AloneInv'
<1>1. fullLogout(world) /\ Overlap /\ tasks' = tasks
    BY DEF disconnectWallet
<1>2. SoundWorld(page', world') /\ Reachable(page', store', world')
    BY <1>1, PartyTypes, LogoutAlone
<1> QED
    BY <1>1, <1>2, AloneOvertaken

LEMMA CloseAlone ==
    ASSUME SessionInv, AloneInv, closeConnectDialog \/ backFromQr
    PROVE  AloneInv'
<1>1. /\ page' = abortWalletConnect(page) /\ world' = world /\ store' = store
      /\ tasks' = tasks /\ Overlap
    BY DEF closeConnectDialog, backFromQr
<1>2. SoundWorld(page', world') /\ (~ overtaken => Reachable(page', store', world'))
    BY <1>1, PartyTypes, AbortAlone
<1> QED
    BY <1>1, <1>2, AloneOvertaken

LEMMA InjectedChoiceAlone ==
    ASSUME SessionInv, AloneInv, NEW t \in Tasks, NEW w \in Wallets, onInjectedChoice(t, w)
    PROVE  AloneInv'
<1> DEFINE task == [Idle EXCEPT !.kind = "injected", !.pc = "ask", !.dev = w]
<1>1. /\ Await(t, task) /\ Overlap
      /\ page' = page /\ store' = store /\ world' = world
    BY DEF onInjectedChoice, Clicked
<1>2. task.kind = "injected"
    BY DEF Idle
<1> HIDE DEF task
<1>3. Prepared(task, page', store', world')
    BY <1>2 DEF Prepared
<1>4. SoundWorld(page', world') /\ (~ overtaken => Reachable(page', store', world'))
    BY <1>1 DEF AloneInv
<1> QED
    BY <1>1, <1>3, <1>4, AloneStarts

LEMMA CommitAlone ==
    ASSUME SessionInv, AloneInv, NEW t \in Tasks, NEW w \in Wallets, NEW a \in Accounts,
           tasks[t].kind = "injected", tasks[t] # Idle, commitInjected(t, w, a),
           UNCHANGED <<world, overtaken>>
    PROVE  AloneInv'
<1> DEFINE task == [tasks[t] EXCEPT !.pc = "switch", !.acct = None]
<1>1. /\ page' = Connected(page, w, a) /\ store' = [key |-> "injected", rdns |-> w]
      /\ Await(t, task)
    BY DEF commitInjected
<1>2. task.kind = "injected"
    BY DEF SessionInv, TaskSet
<1> HIDE DEF task
<1>3. page'.provider = w /\ page'.wcp = page.wcp
    BY <1>1, PartyTypes, ConnectedParts DEF Providers
<1>4. SoundWorld(page', world')
    BY <1>3 DEF AloneInv, SoundWorld
<1>5. Reachable(page', store', world') /\ Prepared(task, page', store', world')
    BY <1>1, <1>2, <1>3 DEF Reachable, Prepared
<1> QED
    BY <1>1, <1>4, <1>5, AloneMoves

LEMMA InjectedAnsweredAlone ==
    ASSUME SessionInv, AloneInv, NEW t \in Tasks, injectedAnswered(t)
    PROVE  AloneInv'
<1> DEFINE w == tasks[t].dev
<1>1. /\ tasks[t].kind = "injected" /\ tasks[t] # Idle /\ overtaken' = overtaken
      /\ tasks[t] \in TaskSet /\ w \in Wallets /\ world.acct[w] # None
    BY DEF injectedAnswered, At, Idle, SessionInv, GoodTask
<1>2. world.acct[w] \in Accounts
    BY <1>1, PartyTypes DEF WorldSet
<1>3. CASE page.wcp = None
  <2>1. commitInjected(t, w, world.acct[w]) /\ world' = world
      BY <1>3 DEF injectedAnswered
  <2> QED
      BY <1>1, <1>2, <2>1, CommitAlone
<1>4. CASE page.wcp # None
  <2> DEFINE task == [tasks[t] EXCEPT !.pc = "drop", !.acct = world.acct[w]]
  <2>1. clearWalletConnect(world) /\ Await(t, task) /\ store' = store
      BY <1>4 DEF injectedAnswered
  <2>2. task.kind = "injected"
      BY <1>1 DEF TaskSet
  <2> HIDE DEF task
  <2>3. Prepared(task, page', store', world')
      BY <2>2 DEF Prepared
  <2>4. SoundWorld(page', world') /\ (~ overtaken => Reachable(page', store', world'))
      BY <2>1, ClearAlone
  <2> QED
      BY <1>1, <2>1, <2>3, <2>4, AloneMoves
<1> QED
    BY <1>3, <1>4

LEMMA InjectedDroppedAlone ==
    ASSUME SessionInv, AloneInv, NEW t \in Tasks, injectedDropped(t)
    PROVE  AloneInv'
<1>1. /\ tasks[t].kind = "injected" /\ tasks[t] # Idle
      /\ tasks[t].dev \in Wallets /\ tasks[t].acct \in Accounts
    BY DEF injectedDropped, At, Idle, SessionInv, GoodTask, TaskSet
<1> QED
    BY <1>1, CommitAlone DEF injectedDropped

LEMMA InjectedSwitchedAlone ==
    ASSUME SessionInv, AloneInv, NEW t \in Tasks, injectedSwitched(t)
    PROVE  AloneInv'
<1>1. /\ tasks[t] # Idle /\ Await(t, Idle) /\ page' = abortWalletConnect(page)
      /\ store' = store /\ world' = world /\ overtaken' = overtaken
    BY DEF injectedSwitched, At, Idle, Finish
<1>2. SoundWorld(page', world') /\ (~ overtaken => Reachable(page', store', world'))
    BY <1>1, PartyTypes, AbortAlone
<1> QED
    BY <1>1, <1>2, IdlePrepared, AloneMoves

\* connectWalletConnect starts with the page's client when that is live, and
\* otherwise without any: then the provider in use has no session either.
LEMMA NewAttemptAlone ==
    ASSUME SessionInv, AloneInv, NEW t \in Tasks, connectWalletConnect(t)
    PROVE  AloneInv'
<1> DEFINE live == page.wcp \in world.session
           blank == [Idle EXCEPT !.kind = "wc", !.gen = page.gen + 1]
           task == IF live THEN [blank EXCEPT !.pc = "accts", !.dev = page.wcp]
                   ELSE IF page.wcp = None THEN [blank EXCEPT !.pc = "init"]
                   ELSE [blank EXCEPT !.pc = "drop"]
<1>1. /\ page' = [page EXCEPT !.lock = TRUE, !.gen = @ + 1,
                              !.wcp = IF live THEN @ ELSE None]
      /\ Await(t, task) /\ Overlap /\ store' = store /\ world' = world
    BY DEF connectWalletConnect, Clicked
<1>2. page'.provider = page.provider /\ page'.wcp = IF live THEN page.wcp ELSE None
  <2>1. page \in PageSet
      BY PartyTypes
  <2> QED
      BY ONLY <1>1, <2>1 DEF PageSet
<1>3. /\ task.kind = "wc"
      /\ live => task.pc = "accts" /\ task.dev = page.wcp
      /\ ~ live => task.pc \in {"init", "drop"}
    BY DEF Idle
<1> HIDE DEF task
<1>4. SoundWorld(page', world')
    BY <1>1, <1>2 DEF AloneInv, SoundWorld
<1>5. ~ overtaken => Reachable(page', store', world')
    BY <1>1, <1>2 DEF AloneInv, Reachable
<1>6. ~ overtaken /\ ~ live => page.provider \notin world.session
    BY PartyTypes, WorldParts DEF AloneInv, Reachable
<1>7. ~ overtaken => Prepared(task, page', store', world')
    BY <1>1, <1>2, <1>3, <1>6 DEF Prepared
<1> QED
    BY <1>1, <1>4, <1>5, <1>7, AloneStarts

LEMMA FailAlone ==
    ASSUME SessionInv, AloneInv, NEW t \in Tasks, tasks[t] # Idle, NEW pg \in PageSet,
           wcFails(t, pg), overtaken' = overtaken, SoundWorld(pg, world'),
           ~ overtaken => Reachable(pg, store', world')
    PROVE  AloneInv'
<1>1. page'.provider = pg.provider /\ page'.wcp = pg.wcp /\ Await(t, Idle)
    BY PageParts DEF wcFails, Finish
<1>2. SoundWorld(page', world') /\ (~ overtaken => Reachable(page', store', world'))
    BY <1>1 DEF SoundWorld, Reachable
<1> QED
    BY <1>1, <1>2, IdlePrepared, AloneMoves

LEMMA ProceedAlone ==
    ASSUME SessionInv, AloneInv, NEW t \in Tasks, tasks[t].kind = "wc", tasks[t] # Idle,
           NEW pg \in PageSet, NEW wd \in WorldSet, NEW c \in wd.made,
           pg.wcp = c, wcProceed(t, pg, wd, c), store' = store, overtaken' = overtaken,
           SoundWorld(pg, wd),
           ~ overtaken => Reachable(pg, store, wd) /\ pg.provider # c
    PROVE  AloneInv'
<1>1. CASE ~ IsCurrent(t)
  <2>1. wcFails(t, pg) /\ world' = wd
      BY <1>1 DEF wcProceed
  <2> QED
      BY <2>1, FailAlone
<1>2. CASE IsCurrent(t)
  <2> DEFINE live == c \in wd.session
             task == [tasks[t] EXCEPT !.pc = IF live THEN "accts" ELSE "pair", !.dev = c]
  <2>1. /\ page' = pg /\ Await(t, task)
        /\ world' = IF live THEN wd ELSE [wd EXCEPT !.proposal = @ \cup {c}]
      BY <1>2 DEF wcProceed
  <2>2. tasks[t] \in TaskSet
      BY DEF SessionInv
  <2>3. task.kind = "wc" /\ task.pc \in {"accts", "pair"} /\ task.dev = c
      BY <2>2 DEF TaskSet
  <2> HIDE DEF task
  <2>4. Prepared(task, page', store', world')
      BY <2>1, <2>3 DEF Prepared
  <2>5. /\ world'.session = wd.session /\ world'.made = wd.made
        /\ world'.proposal = IF live THEN wd.proposal ELSE wd.proposal \cup {c}
      BY ONLY <2>1, wd \in WorldSet DEF WorldSet
  <2>6. SoundWorld(page', world')
      BY <2>1, <2>5 DEF SoundWorld
  <2>7. ~ overtaken => Reachable(page', store', world')
      BY <2>1, <2>5 DEF Reachable
  <2> QED
      BY <2>1, <2>4, <2>6, <2>7, AloneMoves
<1> QED
    BY <1>1, <1>2

LEMMA WcDroppedAlone ==
    ASSUME SessionInv, AloneInv, NEW t \in Tasks, wcDropped(t)
    PROVE  AloneInv'
<1>1. /\ tasks[t].kind = "wc" /\ tasks[t].pc = "drop" /\ tasks[t] # Idle
      /\ tasks[t] \in TaskSet /\ store' = store /\ overtaken' = overtaken
    BY DEF wcDropped, At, Idle, SessionInv
<1>2. ~ overtaken => page.wcp = None /\ page.provider \notin world.session
    BY <1>1 DEF AloneInv, Prepared
<1>3. CASE page.wcp # None
  <2>1. wcProceed(t, page, world, page.wcp)
      BY <1>3 DEF wcDropped
  <2>2. page.wcp \in world.made /\ SoundWorld(page, world) /\ overtaken
      BY <1>2, <1>3 DEF AloneInv, SoundWorld
  <2> QED
      BY <1>1, <2>1, <2>2, PartyTypes, ProceedAlone
<1>4. CASE page.wcp = None
  <2> DEFINE task == [tasks[t] EXCEPT !.pc = "init"]
  <2>1. Await(t, task) /\ page' = page /\ world' = world
      BY <1>4 DEF wcDropped
  <2>2. task.kind = "wc" /\ task.pc = "init"
      BY <1>1 DEF TaskSet
  <2> HIDE DEF task
  <2>3. ~ overtaken => Prepared(task, page', store', world')
      BY <1>2, <2>1, <2>2 DEF Prepared
  <2>4. SoundWorld(page', world') /\ (~ overtaken => Reachable(page', store', world'))
      BY <1>1, <2>1 DEF AloneInv
  <2> QED
      BY <1>1, <2>1, <2>3, <2>4, AloneMoves
<1> QED
    BY <1>3, <1>4

\* A client the library has just made is not the provider in use.
LEMMA WcReadyAlone ==
    ASSUME SessionInv, AloneInv, NEW t \in Tasks, wcReady(t)
    PROVE  AloneInv'
<1>1. PICK c \in Clients \ world.made :
          wcProceed(t, [page EXCEPT !.wcp = c], WithClient(world, c), c)
    BY DEF wcReady
<1>2. /\ tasks[t].kind = "wc" /\ tasks[t].pc = "init" /\ tasks[t] # Idle
      /\ store' = store /\ overtaken' = overtaken
    BY DEF wcReady, At, Idle
<1> DEFINE pg == [page EXCEPT !.wcp = c]
           wd == WithClient(world, c)
<1>3. pg \in PageSet /\ pg.provider = page.provider /\ pg.wcp = c
  <2>1. page \in PageSet
      BY PartyTypes
  <2> QED
      BY ONLY <2>1, c \in Clients DEF PageSet
<1>4. /\ wd \in WorldSet
      /\ wd.session \in {world.session, world.session \cup {c}}
      /\ wd.proposal = world.proposal /\ wd.made = world.made \cup {c}
  <2>1. world \in WorldSet /\ c \in Clients
      BY PartyTypes
  <2> QED
      BY ONLY <2>1, WithClientType, WorldParts
<1>5. wcProceed(t, pg, wd, c)
    BY <1>1
<1> HIDE DEF pg, wd
<1>6. SoundWorld(pg, wd)
    BY <1>3, <1>4 DEF AloneInv, SoundWorld
<1>7. ~ overtaken => Reachable(pg, store, wd) /\ pg.provider # c
  <2> SUFFICES ASSUME ~ overtaken
               PROVE  Reachable(pg, store, wd) /\ pg.provider # c
      OBVIOUS
  <2>1. Reachable(page, store, world) /\ page.provider \notin world.session
      BY <1>2 DEF AloneInv, Prepared
  <2>2. page.provider # c
      BY <2>1, PartyTypes DEF Reachable
  <2>3. page.provider \notin wd.session
      BY <1>4, <2>1, <2>2
  <2> QED
      BY <1>3, <1>4, <2>1, <2>2, <2>3 DEF Reachable
<1>8. c \in wd.made
    BY <1>4
<1> QED
    BY <1>2, <1>3, <1>4, <1>5, <1>6, <1>7, <1>8, ProceedAlone

LEMMA WcThrowsAlone ==
    ASSUME SessionInv, AloneInv, NEW t \in Tasks, wcThrows(t)
    PROVE  AloneInv'
<1>1. /\ tasks[t] # Idle /\ wcFails(t, page)
      /\ store' = store /\ world' = world /\ overtaken' = overtaken
    BY DEF wcThrows, At, Idle
<1>2. SoundWorld(page, world') /\ (~ overtaken => Reachable(page, store', world'))
    BY <1>1 DEF AloneInv
<1> QED
    BY <1>1, <1>2, PartyTypes, FailAlone

LEMMA WcAnsweredAlone ==
    ASSUME SessionInv, AloneInv, NEW t \in Tasks, wcAnswered(t)
    PROVE  AloneInv'
<1> DEFINE c == tasks[t].dev
           free == IF page.provider # c THEN unbindProvider(page, page.provider) ELSE page
<1>1. /\ tasks[t].kind = "wc" /\ tasks[t].pc = "accts" /\ tasks[t] # Idle
      /\ tasks[t] \in TaskSet /\ overtaken' = overtaken /\ c \in world.session
    BY DEF wcAnswered, At, Idle, SessionInv
<1>2. c \in Clients /\ c \in Providers
    BY <1>1, PartyTypes, WorldParts DEF Providers
<1>3. free \in PageSet /\ free.wcp = page.wcp
    BY PartyTypes, PageParts DEF Providers
<1>4. ~ overtaken => page.wcp = c
    BY <1>1 DEF AloneInv, Prepared
<1>5. CASE Selected(c) # None
  <2> DEFINE task == [tasks[t] EXCEPT !.pc = "switch"]
  <2>1. /\ page' = Connected(free, c, Selected(c))
        /\ store' = [key |-> "wc", rdns |-> None] /\ world' = world /\ Await(t, task)
      BY <1>5 DEF wcAnswered
  <2>2. task.kind = "wc" /\ task.pc = "switch"
      BY <1>1 DEF TaskSet
  <2> HIDE DEF task, free
  <2>3. Selected(c) \in Accounts
      BY <1>2, <1>5, PartyTypes DEF Selected, WorldSet
  <2>4. page'.provider = c /\ page'.wcp = page.wcp
    <3>1. Connected(free, c, Selected(c)).provider = c
          /\ Connected(free, c, Selected(c)).wcp = free.wcp
        BY <1>2, <1>3, <2>3, ConnectedParts
    <3> QED
        BY <1>3, <2>1, <3>1
  <2> HIDE DEF c
  <2>5. SoundWorld(page', world')
      BY <2>1, <2>4 DEF AloneInv, SoundWorld
  <2>6. c \in world.made \ world.proposal
      BY <1>1 DEF AloneInv, SoundWorld
  <2>7. ~ overtaken => Reachable(page', store', world')
      BY <1>2, <1>4, <2>1, <2>4, <2>6 DEF Reachable
  <2>8. Prepared(task, page', store', world')
      BY <2>2 DEF Prepared
  <2> QED
      BY <1>1, <2>1, <2>5, <2>7, <2>8, AloneMoves
<1>6. CASE Selected(c) = None
  <2> DEFINE task == [tasks[t] EXCEPT !.pc = "empty"]
  <2>1. clearWalletConnect(world) /\ Await(t, task) /\ store' = store
      BY <1>6 DEF wcAnswered
  <2>2. task.kind = "wc" /\ task.pc = "empty"
      BY <1>1 DEF TaskSet
  <2> HIDE DEF task
  <2>3. Prepared(task, page', store', world')
      BY <2>2 DEF Prepared
  <2>4. SoundWorld(page', world') /\ (~ overtaken => Reachable(page', store', world'))
      BY <2>1, ClearAlone
  <2> QED
      BY <1>1, <2>1, <2>3, <2>4, AloneMoves
<1> QED
    BY <1>5, <1>6

LEMMA WcSwitchedAlone ==
    ASSUME SessionInv, AloneInv, NEW t \in Tasks, wcSwitched(t)
    PROVE  AloneInv'
<1> DEFINE pg == Unlocked(t, page)
<1>1. /\ tasks[t] # Idle /\ Await(t, Idle) /\ page' = abortWalletConnect(pg)
      /\ store' = store /\ world' = world /\ overtaken' = overtaken
    BY DEF wcSwitched, At, Idle, Finish
<1>2. pg \in PageSet /\ pg.provider = page.provider /\ pg.wcp = page.wcp
    BY PartyTypes, PageParts
<1> HIDE DEF pg
<1>3. SoundWorld(page', world') /\ (~ overtaken => Reachable(page', store', world'))
    BY <1>1, <1>2, AbortAlone
<1> QED
    BY <1>1, <1>3, IdlePrepared, AloneMoves

\* A late approval brings no client to life that the page uses: while connections
\* run alone, the client in use is not one that still waits for the phone.
LEMMA ApproveAlone ==
    ASSUME SessionInv, AloneInv, NEW c \in Clients, approvePairing(c)
    PROVE  AloneInv'
<1>1. /\ c \in world.proposal /\ store' = store /\ overtaken' = overtaken
      /\ world' = [world EXCEPT !.proposal = @ \ {c}, !.session = @ \cup {c}, !.paired = TRUE]
    BY DEF approvePairing
<1>2. /\ world'.session = world.session \cup {c} /\ world'.made = world.made
      /\ world'.proposal = world.proposal \ {c}
  <2>1. world \in WorldSet
      BY PartyTypes
  <2> QED
      BY ONLY <1>1, <2>1 DEF WorldSet
<1>3. SoundWorld(page, world')
    BY <1>1, <1>2 DEF AloneInv, SoundWorld
<1>4. ~ overtaken => page.provider # c
    BY <1>1, PartyTypes DEF AloneInv, Reachable
<1>5. ~ overtaken => Reachable(page, store, world')
    BY <1>2, <1>4 DEF AloneInv, Reachable
<1>6. CASE UNCHANGED <<page, tasks>>
  <2>1. ASSUME ~ overtaken, NEW t \in Tasks
        PROVE  Prepared(tasks[t], page, store, world')
    <3>1. Prepared(tasks[t], page, store, world)
        BY <2>1 DEF AloneInv
    <3> QED
        BY <1>2, <1>4, <2>1, <3>1 DEF Prepared
  <2> QED
      BY <1>1, <1>3, <1>5, <1>6, <2>1, AloneStays
<1>7. ASSUME NEW t \in Tasks, At(t, "wc", "pair"), tasks[t].dev = c,
             IF IsCurrent(t)
             THEN Await(t, [tasks[t] EXCEPT !.pc = "accts"]) /\ UNCHANGED <<page, dialog>>
             ELSE wcFails(t, page)
      PROVE  AloneInv'
  <2>1. /\ tasks[t].kind = "wc" /\ tasks[t].pc = "pair" /\ tasks[t] # Idle
        /\ tasks[t] \in TaskSet
      BY <1>7 DEF At, Idle, SessionInv
  <2>2. CASE IsCurrent(t)
    <3> DEFINE task == [tasks[t] EXCEPT !.pc = "accts"]
    <3>1. Await(t, task) /\ page' = page
        BY <1>7, <2>2
    <3>2. task.kind = "wc" /\ task.pc = "accts" /\ task.dev = tasks[t].dev
        BY <2>1 DEF TaskSet
    <3> HIDE DEF task
    <3>3. ~ overtaken => page.wcp = tasks[t].dev
        BY <2>1 DEF AloneInv, Prepared
    <3>4. ~ overtaken => Prepared(task, page', store', world')
        BY <3>1, <3>2, <3>3 DEF Prepared
    <3> QED
        BY <1>1, <1>3, <1>5, <2>1, <3>1, <3>4, AloneMoves
  <2>3. CASE ~ IsCurrent(t)
    <3>1. wcFails(t, page)
        BY <1>7, <2>3
    <3> QED
        BY <1>1, <1>3, <1>5, <2>1, <3>1, PartyTypes, FailAlone
  <2> QED
      BY <2>2, <2>3
<1> QED
    BY <1>6, <1>7 DEF approvePairing

LEMMA RefuseAlone ==
    ASSUME SessionInv, AloneInv, NEW c \in Clients, refusePairing(c)
    PROVE  AloneInv'
<1>1. /\ store' = store /\ overtaken' = overtaken
      /\ world' = [world EXCEPT !.proposal = @ \ {c}]
    BY DEF refusePairing
<1>2. /\ world'.session = world.session /\ world'.made = world.made
      /\ world'.proposal = world.proposal \ {c}
  <2>1. world \in WorldSet
      BY PartyTypes
  <2> QED
      BY ONLY <1>1, <2>1 DEF WorldSet
<1>3. SoundWorld(page, world') /\ (~ overtaken => Reachable(page, store, world'))
    BY <1>2 DEF AloneInv, SoundWorld, Reachable
<1>4. CASE UNCHANGED <<page, tasks>>
  <2>1. ~ overtaken => \A t \in Tasks : Prepared(tasks[t], page, store, world')
      BY <1>2 DEF AloneInv, Prepared
  <2> QED
      BY <1>1, <1>3, <1>4, <2>1, AloneStays
<1>5. ASSUME NEW t \in Tasks, At(t, "wc", "pair"), wcFails(t, page)
      PROVE  AloneInv'
  <2>1. tasks[t] # Idle
      BY <1>5 DEF At, Idle
  <2> QED
      BY <1>1, <1>3, <1>5, <2>1, PartyTypes, FailAlone
<1> QED
    BY <1>4, <1>5 DEF refusePairing

LEMMA AccountsChangedAlone ==
    ASSUME SessionInv, AloneInv, NEW w \in Wallets \cup {Phone},
           NEW a \in Accounts \cup {None}, onAccountsChanged(w, a)
    PROVE  AloneInv'
<1> DEFINE wd == [world EXCEPT !.acct[w] = a]
<1>1. /\ tasks' = tasks
      /\ \/ world' = wd /\ UNCHANGED <<page, store, overtaken>>
         \/ fullLogout(wd) /\ Overlap
         \/ /\ Heard(w) # {}
            /\ page' = [page EXCEPT !.address = a]
            /\ store' = [store EXCEPT !.key =
                   IF @ # None THEN @
                   ELSE IF page.wcp = page.provider THEN "wc" ELSE "injected"]
            /\ world' = wd /\ overtaken' = overtaken
    BY DEF onAccountsChanged
<1>2. /\ wd \in WorldSet /\ wd.session = world.session /\ wd.proposal = world.proposal
      /\ wd.made = world.made
  <2>1. world \in WorldSet
      BY PartyTypes
  <2> QED
      BY ONLY <2>1, w \in Wallets \cup {Phone}, a \in Accounts \cup {None} DEF WorldSet
<1> HIDE DEF wd
<1>3. SoundWorld(page, wd) /\ (~ overtaken => Reachable(page, store, wd))
    BY <1>2 DEF AloneInv, SoundWorld, Reachable
<1>4. ~ overtaken => \A t \in Tasks : Prepared(tasks[t], page, store, wd)
    BY <1>2 DEF AloneInv, Prepared
<1>5. CASE world' = wd /\ UNCHANGED <<page, store, overtaken>>
    BY <1>1, <1>3, <1>4, <1>5, AloneStays
<1>6. CASE fullLogout(wd) /\ Overlap
  <2>1. SoundWorld(page', world') /\ Reachable(page', store', world')
      BY <1>2, <1>6, LogoutAlone
  <2> QED
      BY <1>1, <1>6, <2>1, AloneOvertaken
<1>7. CASE /\ Heard(w) # {} /\ page' = [page EXCEPT !.address = a]
           /\ store' = [store EXCEPT !.key =
                  IF @ # None THEN @
                  ELSE IF page.wcp = page.provider THEN "wc" ELSE "injected"]
           /\ world' = wd /\ overtaken' = overtaken
  <2>1. page.provider # None
      BY <1>7 DEF Heard, SessionInv, GoodPage
  <2>2. page'.provider = page.provider /\ page'.wcp = page.wcp
    <3>1. page \in PageSet
        BY PartyTypes
    <3> QED
        BY ONLY <1>7, <3>1 DEF PageSet
  <2>3. ~ overtaken => store' = store
    <3>1. ~ overtaken => store.key # None
      <4>1. "wc" # None /\ "injected" # None
          BY WalletAssumption
      <4> QED
          BY <2>1, <4>1 DEF AloneInv, Reachable
    <3>2. store \in StoreSet
        BY PartyTypes
    <3> QED
        BY ONLY <1>7, <3>1, <3>2 DEF StoreSet
  <2>4. SoundWorld(page', world')
      BY <1>3, <1>7, <2>2 DEF SoundWorld
  <2>5. ~ overtaken => Reachable(page', store', world')
      BY <1>3, <1>7, <2>2, <2>3 DEF Reachable
  <2>6. ~ overtaken => \A t \in Tasks : Prepared(tasks[t], page', store', world')
      BY <1>4, <1>7, <2>2, <2>3 DEF Prepared
  <2> QED
      BY <1>1, <1>7, <2>4, <2>5, <2>6, AloneStays
<1> QED
    BY <1>1, <1>5, <1>6, <1>7

LEMMA DisconnectAlone ==
    ASSUME SessionInv, AloneInv, NEW w \in Wallets \cup {Phone}, onDisconnect(w)
    PROVE  AloneInv'
<1> DEFINE wd == IF w = Phone THEN [world EXCEPT !.session = {}, !.paired = FALSE] ELSE world
<1>1. /\ Overlap /\ tasks' = tasks
      /\ fullLogout(wd) \/ (world' = wd /\ UNCHANGED <<page, store>>)
    BY DEF onDisconnect
<1>2. /\ wd \in WorldSet /\ wd.session \subseteq world.session
      /\ wd.proposal = world.proposal /\ wd.made = world.made
  <2>1. world \in WorldSet
      BY PartyTypes
  <2> QED
      BY ONLY <2>1 DEF WorldSet
<1> HIDE DEF wd
<1>3. SoundWorld(page', world') /\ (~ overtaken => Reachable(page', store', world'))
  <2>1. CASE fullLogout(wd)
      BY <1>2, <2>1, LogoutAlone
  <2>2. CASE world' = wd /\ UNCHANGED <<page, store>>
      BY <1>2, <2>2 DEF AloneInv, SoundWorld, Reachable
  <2> QED
      BY <1>1, <2>1, <2>2
<1> QED
    BY <1>1, <1>3, AloneOvertaken

-----------------------------------------------------------------------------
LEMMA SettleAlone ==
    ASSUME SessionInv, AloneInv, NEW t \in Tasks, Settle(t)
    PROVE  AloneInv'
    BY SilentInitAlone, SilentDiscoveredAlone, SilentAnsweredAlone, SilentUnansweredAlone,
       SilentEndsAlone, InjectedDroppedAlone, WcDroppedAlone, WcReadyAlone, WcThrowsAlone,
       WcAnsweredAlone
       DEF Settle

LEMMA UserAlone ==
    ASSUME SessionInv, AloneInv, NEW t \in Tasks, UserAnswers(t)
    PROVE  AloneInv'
    BY InjectedAnsweredAlone, InjectedRefusedAlone, InjectedSwitchedAlone, WcSwitchedAlone
       DEF UserAnswers

LEMMA NextKeepsAlone == SessionInv /\ AloneInv /\ [Next]_vars => AloneInv'
<1>1. ASSUME SessionInv, AloneInv, UNCHANGED vars
      PROVE  AloneInv'
  <2>1. UNCHANGED <<page, store, tasks, world, overtaken>>
      BY <1>1 DEF vars
  <2> QED
      BY <1>1, <2>1 DEF AloneInv
<1> QED
    BY <1>1, ReloadAlone, DialogAlone, DisconnectWalletAlone, CloseAlone, SettleAlone,
       UserAlone, NewAttemptAlone, InjectedChoiceAlone, ApproveAlone, RefuseAlone,
       DisconnectAlone, AccountsChangedAlone
       DEF Next

LEMMA InitAlone == Init => AloneInv
<1> SUFFICES ASSUME Init
             PROVE  AloneInv
    OBVIOUS
<1>1. /\ page.provider = None /\ page.wcp = None
      /\ world.session = {} /\ world.proposal = {}
      /\ \A t \in Tasks : tasks[t] = Idle
    BY DEF Init, NewPage, NewWorld
<1> QED
    BY <1>1, IdlePrepared DEF AloneInv, SoundWorld, Reachable

\* While connections do not overlap, AloneInv holds in every state: each has
\* written what its last step needs.
THEOREM AloneInvariant == Spec => []AloneInv
    BY InitAlone, NextKeepsAlone, SessionInvariant, PTL DEF Spec

\* commitInjected, connectWalletConnect and silentConnect leave the key and the
\* client that a reload or a logout will look for.
THEOREM SessionsAreReachable == Spec => []SessionIsReachable
<1>1. SessionInv /\ AloneInv => SessionIsReachable
    BY PartyTypes DEF AloneInv, Reachable, SessionIsReachable
<1> QED
    BY <1>1, SessionInvariant, AloneInvariant, PTL
=============================================================================
