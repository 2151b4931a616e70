--------------------------- MODULE WalletSession ---------------------------
(***************************************************************************)
(* The wallet connection of one browser tab: frontend/js/wallet.js and the *)
(* connect dialog of frontend/js/app.js.                                   *)
(*                                                                         *)
(* JavaScript runs one callback at a time, so an action is what runs       *)
(* between two awaits.  A connection that is under way is a task; its pc   *)
(* names the promise it awaits:                                            *)
(*   "discover" the EIP-6963 announcements   "init"  the WalletConnect     *)
(*   "ask"      eth_requestAccounts                   client               *)
(*   "drop"     clearWalletConnect           "pair"  wc.connect()          *)
(*   "accts"    eth_accounts                 "switch" ensureMonad          *)
(*   "empty"    the clearWalletConnect before giving up                    *)
(* Wallets, and the WalletConnect client library with the phone behind it, *)
(* are external: they answer, refuse, stay silent, and change account or   *)
(* end a session when they like.                                           *)
(***************************************************************************)
EXTENDS Naturals

CONSTANTS
    Wallets,        \* injected wallets, each standing for its rdns as well
    Clients,        \* WalletConnect clients that EthereumProvider.init may make
    Phone,          \* the mobile wallet behind every WalletConnect client
    Accounts,
    None,           \* null
    Boot,           \* the task of silentConnect, started by a page load
    Clicks,         \* the tasks of a user's clicks
    MaxGen,         \* the user clicks on while wcGeneration is below this bound
    MaxReloads      \* bound on page reloads

ASSUME WalletAssumption ==
    /\ None \notin Wallets \cup Clients \cup Accounts
    /\ None \notin {"injected", "wc"}
    /\ Wallets \cap Clients = {} /\ Phone \notin Wallets
    /\ Boot \notin Clicks
    /\ MaxGen \in Nat /\ MaxReloads \in Nat

VARIABLES
    page,       \* the module state of wallet.js
    store,      \* sessionStorage, which survives a reload
    dialog,     \* the connect dialog
    tasks,      \* the connections under way
    world,      \* the wallets and the WalletConnect library
    overtaken,  \* on this page, something happened while a task was under way
    reloads

vars == <<page, store, dialog, tasks, world, overtaken, reloads>>

Providers == Wallets \cup Clients
Tasks == {Boot} \cup Clicks
Kinds == {"idle", "silent", "injected", "wc"}
Idle == [kind |-> "idle", pc |-> "idle", dev |-> None, acct |-> None, gen |-> 0]

TypeOK ==
    /\ page \in [address : Accounts \cup {None}, provider : Providers \cup {None},
                 wcp : Clients \cup {None}, bound : Providers \cup {None},
                 listening : SUBSET Providers, gen : Nat, lock : BOOLEAN]
    /\ store \in [key : {None, "injected", "wc"}, rdns : Wallets \cup {None}]
    /\ dialog \in [open : BOOLEAN, panel : {"options", "qr"}]
    /\ tasks \in [Tasks -> [kind : Kinds,
                            pc : {"idle", "discover", "ask", "drop", "init", "pair",
                                  "accts", "empty", "switch"},
                            dev : Providers \cup {None},
                            acct : Accounts \cup {None}, gen : Nat]]
    /\ world \in [acct : [Wallets \cup {Phone} -> Accounts \cup {None}],
                  session : SUBSET Clients, proposal : SUBSET Clients,
                  made : SUBSET Clients, paired : BOOLEAN]
    /\ overtaken \in BOOLEAN /\ reloads \in 0..MaxReloads

NewPage == [address |-> None, provider |-> None, wcp |-> None, bound |-> None,
            listening |-> {}, gen |-> 0, lock |-> FALSE]
NewDialog == [open |-> FALSE, panel |-> "options"]
NewWorld(acct, paired) == [acct |-> acct, session |-> {}, proposal |-> {},
                           made |-> {}, paired |-> paired]

\* The first visit: nothing is in storage.
Init ==
    /\ page = NewPage /\ dialog = NewDialog
    /\ store = [key |-> None, rdns |-> None]
    /\ tasks = [t \in Tasks |-> Idle]
    /\ \E acct \in [Wallets \cup {Phone} -> Accounts \cup {None}] :
          acct[Phone] # None /\ world = NewWorld(acct, FALSE)
    /\ overtaken = FALSE /\ reloads = 0

Await(t, task) == tasks' = [tasks EXCEPT ![t] = task]
Finish(t) == Await(t, Idle)
At(t, kind, pc) == tasks[t].kind = kind /\ tasks[t].pc = pc
Busy == \E t \in Tasks : tasks[t] # Idle
Overlap == overtaken' = (overtaken \/ Busy)

-----------------------------------------------------------------------------
\* The helpers of wallet.js, on a page pg and a world wd.

unbindProvider(pg, p) ==
    IF p = None THEN pg
    ELSE [pg EXCEPT !.listening = @ \ {p}, !.bound = IF @ = p THEN None ELSE @]

\* Fault: the provider bound before keeps its listeners
bindWithoutUnbinding(pg, p) == [pg EXCEPT !.listening = @ \cup {p}, !.bound = p]

bindProviderListeners(pg, p) ==
    LET freed == IF pg.bound # p THEN unbindProvider(pg, pg.bound) ELSE pg
    IN  [freed EXCEPT !.listening = @ \cup {p}, !.bound = p]

\* wc.disconnect(): the client's session ends, in storage as well.
Disconnected(wd, c) ==
    [wd EXCEPT !.session = @ \ {c}, !.paired = @ /\ c \notin wd.session]

clearWalletConnect(wd) ==
    /\ page' = [page EXCEPT !.wcp = None]
    /\ world' = Disconnected(wd, page.wcp)

fullLogout(wd) ==
    /\ page' = [unbindProvider([page EXCEPT !.address = None, !.provider = None],
                               page.provider) EXCEPT !.wcp = None]
    /\ world' = Disconnected(wd, page.wcp)
    /\ store' = [key |-> None, rdns |-> None]

\* Fault: a client with a session is dropped too
abortDroppingClient(pg) == [pg EXCEPT !.gen = @ + 1, !.lock = FALSE, !.wcp = None]

\* The client it drops has no session to end.
abortWalletConnect(pg) ==
    [pg EXCEPT !.gen = @ + 1, !.lock = FALSE,
               !.wcp = IF @ \in world.session THEN @ ELSE None]

\* EthereumProvider.init restores a session that is still in storage.
WithClient(wd, c) ==
    [wd EXCEPT !.made = @ \cup {c},
               !.session = IF wd.paired THEN @ \cup {c} ELSE @]

Selected(p) == world.acct[IF p \in Clients THEN Phone ELSE p]

\* The page once p is connected with account a.
Connected(pg, p, a) ==
    [bindProviderListeners(pg, p) EXCEPT !.provider = p, !.address = a]

-----------------------------------------------------------------------------
\* Page load and silentConnect.  sessionStorage and the WalletConnect library's
\* own storage survive a reload.

Reload ==
    /\ reloads < MaxReloads
    /\ reloads' = reloads + 1
    /\ page' = NewPage /\ dialog' = NewDialog
    /\ tasks' = [t \in Tasks |->
          IF t # Boot \/ store.key = None THEN Idle
          ELSE [Idle EXCEPT !.kind = "silent",
                            !.pc = IF store.key = "wc" THEN "init" ELSE "discover"]]
    /\ world' = NewWorld(world.acct, world.paired)
    /\ overtaken' = FALSE
    /\ UNCHANGED store

silentInit(t) ==
    /\ At(t, "silent", "init")
    /\ \E c \in Clients \ world.made :
          /\ world' = WithClient(world, c)
          /\ IF c \in world'.session
             THEN /\ Await(t, [tasks[t] EXCEPT !.pc = "accts", !.dev = c])
                  /\ page' = [page EXCEPT !.wcp = c]
                  /\ UNCHANGED store
             ELSE /\ Await(t, [tasks[t] EXCEPT !.pc = "empty"])
                  /\ page' = [page EXCEPT !.wcp = None]
                  /\ store' = [store EXCEPT !.key = None]
    /\ UNCHANGED <<dialog, overtaken, reloads>>

silentDiscovered(t) ==
    /\ At(t, "silent", "discover")
    /\ \E present \in SUBSET Wallets :
          IF store.rdns \in present
          THEN /\ Await(t, [tasks[t] EXCEPT !.pc = "accts", !.dev = store.rdns])
               /\ UNCHANGED store
          ELSE Finish(t) /\ store' = [key |-> None, rdns |-> None]
    /\ UNCHANGED <<page, dialog, world, overtaken, reloads>>

Answers(p) == Selected(p) # None /\ (p \in Clients => p \in world.session)

\* The answer connects, whatever happened on the page since the question.
silentAnswered(t) ==
    LET p == tasks[t].dev
    IN  /\ At(t, "silent", "accts") /\ Answers(p)
        /\ page' = Connected(page, p, Selected(p))
        /\ Finish(t)
        /\ UNCHANGED <<store, dialog, world, overtaken, reloads>>

silentUnanswered(t) ==
    /\ At(t, "silent", "accts") /\ ~Answers(tasks[t].dev)
    /\ IF tasks[t].dev \in world.session
       THEN /\ clearWalletConnect(world)
            /\ store' = [store EXCEPT !.key = None]
            /\ Await(t, [tasks[t] EXCEPT !.pc = "empty"])
       ELSE Finish(t) /\ UNCHANGED <<page, store, world>>
    /\ UNCHANGED <<dialog, overtaken, reloads>>

\* The catch block, and the end of the last await.
silentEnds(t) ==
    /\ At(t, "silent", "init") \/ At(t, "silent", "empty")
    /\ Finish(t)
    /\ UNCHANGED <<page, store, dialog, world, overtaken, reloads>>

-----------------------------------------------------------------------------
\* The user and the connect dialog.

\* wireConnectButton while no address is shown, and requireWallet
openConnectDialog ==
    /\ page.address = None /\ ~dialog.open
    /\ dialog' = [open |-> TRUE, panel |-> "options"]
    /\ UNCHANGED <<page, store, tasks, world, overtaken, reloads>>

\* wireConnectButton while an address is shown
disconnectWallet ==
    /\ page.address # None /\ ~dialog.open
    /\ fullLogout(world)
    /\ Overlap
    /\ UNCHANGED <<dialog, tasks, reloads>>

\* The close button and the backdrop.
closeConnectDialog ==
    /\ dialog.open /\ page.gen < MaxGen
    /\ page' = abortWalletConnect(page)
    /\ dialog' = [dialog EXCEPT !.open = FALSE]
    /\ Overlap
    /\ UNCHANGED <<store, tasks, world, reloads>>

\* connect-qr-back
backFromQr ==
    /\ dialog.open /\ dialog.panel = "qr" /\ page.gen < MaxGen
    /\ page' = abortWalletConnect(page)
    /\ dialog' = [dialog EXCEPT !.panel = "options"]
    /\ Overlap
    /\ UNCHANGED <<store, tasks, world, reloads>>

\* The browser closes a modal dialog on Escape; no handler of the page runs.
escapeDialog ==
    /\ dialog.open
    /\ dialog' = [dialog EXCEPT !.open = FALSE]
    /\ UNCHANGED <<page, store, tasks, world, overtaken, reloads>>

Clicked(t) ==
    /\ t \in Clicks /\ tasks[t] = Idle /\ page.gen < MaxGen
    /\ dialog.open /\ dialog.panel = "options"
    /\ Overlap

-----------------------------------------------------------------------------
\* connectInjected

onInjectedChoice(t, w) ==
    /\ Clicked(t)
    /\ Await(t, [Idle EXCEPT !.kind = "injected", !.pc = "ask", !.dev = w])
    /\ UNCHANGED <<page, store, dialog, world, reloads>>

commitInjected(t, w, a) ==
    /\ page' = Connected(page, w, a)
    /\ store' = [key |-> "injected", rdns |-> w]
    /\ Await(t, [tasks[t] EXCEPT !.pc = "switch", !.acct = None])

\* requestAccounts resolves
injectedAnswered(t) ==
    LET w == tasks[t].dev
    IN  /\ At(t, "injected", "ask") /\ world.acct[w] # None
        /\ IF page.wcp = None
           THEN commitInjected(t, w, world.acct[w]) /\ UNCHANGED world
           ELSE /\ clearWalletConnect(world)
                /\ Await(t, [tasks[t] EXCEPT !.pc = "drop", !.acct = world.acct[w]])
                /\ UNCHANGED store
        /\ UNCHANGED <<dialog, overtaken, reloads>>

injectedDropped(t) ==
    /\ At(t, "injected", "drop")
    /\ commitInjected(t, tasks[t].dev, tasks[t].acct)
    /\ UNCHANGED <<dialog, world, overtaken, reloads>>

\* The user refuses the accounts, or the switch to Monad (4001): the dialog
\* stays open with a message, and after the switch the wallet stays connected.
injectedRefused(t) ==
    /\ At(t, "injected", "ask") \/ At(t, "injected", "switch")
    /\ Finish(t)
    /\ UNCHANGED <<page, store, dialog, world, overtaken, reloads>>

\* ensureMonad returns, or fails otherwise; onInjectedChoice closes the dialog.
injectedSwitched(t) ==
    /\ At(t, "injected", "switch")
    /\ Finish(t)
    /\ page' = abortWalletConnect(page)
    /\ dialog' = [dialog EXCEPT !.open = FALSE]
    /\ UNCHANGED <<store, world, overtaken, reloads>>

-----------------------------------------------------------------------------
\* connectWalletConnect.  Accounts the client already knows are taken by the
\* step that would ask for them.

IsCurrent(t) == tasks[t].gen = page.gen

\* Fault: the lock is freed whoever holds it
UnlockedAnyway(t, pg) == [pg EXCEPT !.lock = FALSE]

\* Fault: the lock is only freed on success
KeptLocked(t, pg) == IF tasks[t].pc = "switch" THEN [pg EXCEPT !.lock = FALSE] ELSE pg

\* The finally block of task t.
Unlocked(t, pg) == [pg EXCEPT !.lock = @ /\ ~IsCurrent(t)]

\* The attempt throws, and the dialog shows its options again.
wcFails(t, pg) ==
    /\ page' = Unlocked(t, pg)
    /\ Finish(t)
    /\ dialog' = [dialog EXCEPT !.panel = "options"]

\* connect-wc; while the lock is held it only reports "already in progress".
connectWalletConnect(t) ==
    /\ Clicked(t) /\ ~page.lock
    /\ LET live == page.wcp \in world.session
           task == [Idle EXCEPT !.kind = "wc", !.gen = page.gen + 1]
       IN  /\ page' = [page EXCEPT !.lock = TRUE, !.gen = @ + 1,
                                   !.wcp = IF live THEN @ ELSE None]
           /\ Await(t, IF live THEN [task EXCEPT !.pc = "accts", !.dev = page.wcp]
                       ELSE IF page.wcp = None THEN [task EXCEPT !.pc = "init"]
                       ELSE [task EXCEPT !.pc = "drop"])
    /\ dialog' = [dialog EXCEPT !.panel = "qr"]
    /\ UNCHANGED <<store, world, reloads>>

\* Fault: the generation is not checked after the client was awaited
wcProceedUnchecked(t, pg, wd, c) ==
    /\ page' = pg
    /\ LET live == c \in wd.session
       IN  /\ Await(t, [tasks[t] EXCEPT !.pc = IF live THEN "accts" ELSE "pair",
                                        !.dev = c])
           /\ world' = IF live THEN wd ELSE [wd EXCEPT !.proposal = @ \cup {c}]
    /\ UNCHANGED dialog

\* getWalletConnectProvider returned c
wcProceed(t, pg, wd, c) ==
    IF ~IsCurrent(t) THEN wcFails(t, pg) /\ world' = wd
    ELSE /\ page' = pg
         /\ LET live == c \in wd.session
            IN  /\ Await(t, [tasks[t] EXCEPT !.pc = IF live THEN "accts" ELSE "pair",
                                             !.dev = c])
                /\ world' = IF live THEN wd ELSE [wd EXCEPT !.proposal = @ \cup {c}]
         /\ UNCHANGED dialog

wcDropped(t) ==
    /\ At(t, "wc", "drop")
    /\ IF page.wcp # None THEN wcProceed(t, page, world, page.wcp)
       ELSE Await(t, [tasks[t] EXCEPT !.pc = "init"]) /\ UNCHANGED <<page, dialog, world>>
    /\ UNCHANGED <<store, overtaken, reloads>>

\* A client that was asked for replaces whatever client the page has by now.
wcReady(t) ==
    /\ At(t, "wc", "init")
    /\ \E c \in Clients \ world.made :
          wcProceed(t, [page EXCEPT !.wcp = c], WithClient(world, c), c)
    /\ UNCHANGED <<store, overtaken, reloads>>

\* The library does not load, 90 seconds pass, the session is gone when the
\* accounts are asked for, or none was returned.
wcThrows(t) ==
    /\ \/ \E pc \in {"init", "pair", "empty"} : At(t, "wc", pc)
       \/ At(t, "wc", "accts") /\ tasks[t].dev \notin world.session
    /\ wcFails(t, page)
    /\ UNCHANGED <<store, world, overtaken, reloads>>

\* eth_accounts; the generation is not checked again
wcAnswered(t) ==
    LET c == tasks[t].dev
        free == IF page.provider # c THEN unbindProvider(page, page.provider) ELSE page
    IN  /\ At(t, "wc", "accts") /\ c \in world.session
        /\ IF Selected(c) # None
           THEN /\ page' = Connected(free, c, Selected(c))
                /\ store' = [key |-> "wc", rdns |-> None]
                /\ Await(t, [tasks[t] EXCEPT !.pc = "switch"])
                /\ UNCHANGED world
           ELSE /\ clearWalletConnect(world)
                /\ Await(t, [tasks[t] EXCEPT !.pc = "empty"])
                /\ UNCHANGED store
        /\ UNCHANGED <<dialog, overtaken, reloads>>

\* ensureMonad settles, either way; the handler of the dialog closes it.
wcSwitched(t) ==
    /\ At(t, "wc", "switch")
    /\ Finish(t)
    /\ page' = abortWalletConnect(Unlocked(t, page))
    /\ dialog' = [dialog EXCEPT !.open = FALSE]
    /\ UNCHANGED <<store, world, overtaken, reloads>>

-----------------------------------------------------------------------------
\* Wallets.

\* The phone approves a pairing, perhaps one whose attempt is over.
approvePairing(c) ==
    LET wd == [world EXCEPT !.proposal = @ \ {c}, !.session = @ \cup {c},
                            !.paired = TRUE]
        waiting == {t \in Tasks : At(t, "wc", "pair") /\ tasks[t].dev = c}
    IN  /\ c \in world.proposal /\ world' = wd
        /\ \/ waiting = {} /\ UNCHANGED <<page, dialog, tasks>>
           \/ \E t \in waiting :
                 IF IsCurrent(t)
                 THEN /\ Await(t, [tasks[t] EXCEPT !.pc = "accts"])
                      /\ UNCHANGED <<page, dialog>>
                 ELSE wcFails(t, page)
        /\ UNCHANGED <<store, overtaken, reloads>>

refusePairing(c) ==
    /\ c \in world.proposal
    /\ world' = [world EXCEPT !.proposal = @ \ {c}]
    /\ \/ \E t \in Tasks : At(t, "wc", "pair") /\ tasks[t].dev = c /\ wcFails(t, page)
       \/ ~(\E t \in Tasks : At(t, "wc", "pair") /\ tasks[t].dev = c)
          /\ UNCHANGED <<page, dialog, tasks>>
    /\ UNCHANGED <<store, overtaken, reloads>>

\* The providers of wallet w whose events reach the page.
Heard(w) == IF w = Phone THEN page.listening \cap world.session
            ELSE page.listening \cap {w}

\* accountsChanged, with None when the wallet locks
onAccountsChanged(w, a) ==
    LET wd == [world EXCEPT !.acct[w] = a]
    IN  /\ world.acct[w] # a
        /\ IF Heard(w) = {} THEN world' = wd /\ UNCHANGED <<page, store, overtaken>>
           ELSE IF a = None THEN fullLogout(wd) /\ Overlap
           ELSE /\ page' = [page EXCEPT !.address = a]
                /\ store' = [store EXCEPT !.key =
                       IF @ # None THEN @
                       ELSE IF page.wcp = page.provider THEN "wc" ELSE "injected"]
                /\ world' = wd
                /\ UNCHANGED overtaken
        /\ UNCHANGED <<dialog, tasks, reloads>>

\* A wallet disconnects from the page; the phone deletes the session.
onDisconnect(w) ==
    LET wd == IF w = Phone THEN [world EXCEPT !.session = {}, !.paired = FALSE]
              ELSE world
    IN  /\ w = Phone => world.session # {}
        /\ IF Heard(w) # {} THEN fullLogout(wd)
           ELSE w = Phone /\ world' = wd /\ UNCHANGED <<page, store>>
        /\ Overlap
        /\ UNCHANGED <<dialog, tasks, reloads>>

-----------------------------------------------------------------------------
\* What settles without the user: the network, storage, and the 90 s timer.
Settle(t) ==
    \/ silentInit(t) \/ silentDiscovered(t) \/ silentAnswered(t)
    \/ silentUnanswered(t) \/ silentEnds(t)
    \/ injectedDropped(t)
    \/ wcDropped(t) \/ wcReady(t) \/ wcThrows(t) \/ wcAnswered(t)

UserAnswers(t) ==
    injectedAnswered(t) \/ injectedRefused(t) \/ injectedSwitched(t) \/ wcSwitched(t)

Next ==
    \/ Reload \/ openConnectDialog \/ disconnectWallet
    \/ closeConnectDialog \/ backFromQr \/ escapeDialog
    \/ \E t \in Tasks :
          \/ Settle(t) \/ UserAnswers(t) \/ connectWalletConnect(t)
          \/ \E w \in Wallets : onInjectedChoice(t, w)
    \/ \E c \in Clients : approvePairing(c) \/ refusePairing(c)
    \/ \E w \in Wallets \cup {Phone} :
          onDisconnect(w) \/ \E a \in Accounts \cup {None} : onAccountsChanged(w, a)

\* Promises of the network and timers settle; the user and the wallets need not.
Fairness == \A t \in Tasks : WF_vars(Settle(t))

Spec == Init /\ [][Next]_vars /\ Fairness

-----------------------------------------------------------------------------
\* Only the provider in use can change the page: a wallet that was replaced or
\* disconnected is no longer listened to, whatever connections ran at once.  And
\* the page never shows an account without a provider to sign with it, nor keeps
\* a provider after it stopped showing an account.
OnlyCurrentIsHeard ==
    /\ TypeOK
    /\ page.bound = page.provider
    /\ page.listening = {page.provider} \ {None}
    /\ (page.address = None) <=> (page.provider = None)

\* connectLock is held exactly while an attempt of the current generation runs:
\* the end of a cancelled attempt never frees the lock of a newer one, and no
\* attempt ends with the lock held.  The QR code is shown only meanwhile.
LockIsCurrentAttempt ==
    /\ page.lock <=> \E t \in Clicks : tasks[t].kind = "wc" /\ IsCurrent(t)
    /\ \A t, u \in Clicks :
          tasks[t].kind = "wc" /\ tasks[u].kind = "wc" /\ tasks[t].gen = tasks[u].gen
              => t = u
    /\ (dialog.open /\ dialog.panel = "qr") => page.lock

\* When connections do not overlap, the session key a reload will use names the
\* kind of provider that is connected, and a live WalletConnect session in use
\* belongs to the client that a logout disconnects.
SessionIsReachable ==
    ~overtaken /\ page.provider # None =>
        IF page.provider \in Wallets
        THEN store = [key |-> "injected", rdns |-> page.provider]
        ELSE /\ store.key = "wc"
             /\ page.provider \in world.session => page.wcp = page.provider

\* A pairing cancelled before it was approved never connects, however late the
\* library or the phone answers.
CancelledNeverConnects ==
    [][\A t \in Clicks :
          tasks[t].kind = "wc" /\ tasks[t].pc \in {"drop", "init", "pair"}
              /\ tasks[t].gen # page.gen
          => tasks'[t].pc \notin {"accts", "switch"}]_vars

\* The lock of an attempt is freed, or the attempt got as far as asking the
\* user's wallet to switch the chain.
LockSettles ==
    page.lock ~> (~page.lock \/ \E t \in Clicks : At(t, "wc", "switch"))
=============================================================================
