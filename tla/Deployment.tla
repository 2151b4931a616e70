----------------------------- MODULE Deployment -----------------------------
(***************************************************************************)
(* A deployment: the tasks of module DeployScripts run one after the other *)
(* against a chain and the deployment record, by a process that may die    *)
(* between any two steps and an operator who then runs the failed task     *)
(* again or starts the migration over.  The chain and the record survive;  *)
(* what a task has read (env) does not.                                    *)
(***************************************************************************)
EXTENDS DeployScripts, FiniteSets, FiniteSetsExt

CONSTANTS
    Scenarios    \* networks, each with what is run on it, as records

Plan == network.plan              \* the tasks of the migration, in order
Extras == network.extras          \* tasks the operator may run once it is over
CrashIn == network.crashIn        \* tasks in which the process may die
Recovery == network.recovery      \* what is done after a failure: "task", "all"
MaxCrashes == network.maxCrashes
MaxRuns == network.maxRuns        \* bound on tasks run again, by hand, or started over

ASSUME ScenarioShape ==
    \A s \in Scenarios :
        /\ IsConfiguration(s)
        /\ s.recovery \subseteq {"task", "all"}
        /\ s.maxCrashes \in Nat /\ s.maxRuns \in Nat

VARIABLES
    db,      \* the record: id -> address
    chain,   \* contracts by address: what they are, the addresses they hold, their state
    facts,   \* what transactions have established: <<address, verb, asset>>
    plan,    \* tasks still to start
    task,    \* the running task, or ""
    todo,    \* its remaining steps
    env,     \* the addresses it has at hand
    fate,    \* "ok", or how the last task failed: "died", "threw", "reverted"
    crashes, runs

vars == <<db, chain, facts, plan, task, todo, env, fate, crashes, runs>>

\* tasks/migrations and the tasks run by hand, by the names used in Plan.
Program == [
    proxyAdmin |-> deployProxyAdmin,
    collector |-> deployBendCollectorTask,
    addressProvider |-> deployAddressProvider(FALSE),
    unregisteredProvider |-> deployAddressProvider(TRUE),
    lendPool |-> deployLendPoolTask,
    oracleReserve |-> deployOracleReserve,
    oracleNft |-> deployOracleNft,
    initialize |-> initializeLendPool,
    wethGateway |-> deployWethGateway,
    punkGateway |-> deployPunkGateway,
    initializeGateway |-> initializeGateway,
    dataProvider |-> deployDataProvider,
    devReserves |-> devMockReserves, devNfts |-> devMockNfts,
    devBnftRegistry |-> devMockBnftRegistry, devBnftTokens |-> devMockBnftTokens,
    devAddressProvider |-> devAddressProvider, devLendPool |-> devLendPool,
    devOracleReserve |-> devOracleReserve, devOracleNft |-> devOracleNft,
    devInitialize |-> devInitialize,
    wrapperGateway |-> deployWrapperGateway,
    swapAdapter |-> deploySwapAdapter,
    aggregatorHelper |-> deployAggregatorHelper,
    oracleToken |-> deployOracleToken,
    upgradeLendPool |-> newPoolImplementation(
        "LendPool", deployLendPoolLibraries \o deployLendPool, TRUE),
    newLendPool |-> newPoolImplementation(
        "LendPool", deployLendPoolLibraries \o deployLendPool, FALSE),
    upgradeConfigurator |-> newPoolImplementation(
        "LendPoolConfigurator", deployConfiguratorLibraries \o deployLendPoolConfigurator, TRUE),
    upgradeLoan |-> newPoolImplementation(
        "LendPoolLoan", deployImpl("LendPoolLoan", Nothing), TRUE),
    upgradeReserveOracle |-> newProxiedImplementation("ReserveOracle", <<>>, TRUE),
    upgradeNftOracle |-> newProxiedImplementation("NFTOracle", <<>>, TRUE),
    upgradeWethGateway |-> newProxiedImplementation(
        "WETHGateway", getWrappedNativeTokenAddress, TRUE),
    upgradePunkGateway |-> newProxiedImplementation(
        "PunkGateway",
        Get("WETHGateway") \o getCryptoPunksMarketAddress \o getWrappedPunkTokenAddress, TRUE),
    upgradeKoda |-> newKodaGatewayImplementation(TRUE),
    newWrapperImpl |-> newWrapperGatewayImpl(FALSE),
    upgradeWrapperImpl |-> newWrapperGatewayImpl(TRUE),
    newReserveOracle |-> newProxiedImplementation("ReserveOracle", <<>>, FALSE),
    newKoda |-> newKodaGatewayImplementation(FALSE),
    newUi |-> newDataProvider("UIPoolDataProvider",
        Look("ReserveOracle") \o Look("NFTOracle"),
        Holds({"ReserveOracle", "NFTOracle"}), FALSE),
    upgradeUi |-> newDataProvider("UIPoolDataProvider",
        Look("ReserveOracle") \o Look("NFTOracle"),
        Holds({"ReserveOracle", "NFTOracle"}), TRUE),
    upgradeCollector |-> upgradeBendCollector,
    debtTokens |-> upgradeAllDebtTokens,
    addNft |-> addNftToPool("NEWNFT"), feedNft |-> addNftToOracle("NEWNFT"),
    newRate |-> deployInterestRateWithID("rateStrategyNew") ]

(***************************************************************************)
(* The chain before the first run: the contracts of the configuration.     *)
(***************************************************************************)
Externals == FoldSet(LAMBDA id, seq : Append(seq, id), <<>>, Configured)
AddressOf(id) == CHOOSE i \in DOMAIN Externals : Externals[i] = id

ConfiguredContract(id) ==
    [of |-> id, state |-> "live",
     refs |-> IF id \in {"ReserveOracle", "NFTOracle"}
              THEN [logic |-> 0, admin |-> IF PoolAdmin \in Configured
                                           THEN AddressOf(PoolAdmin) ELSE 0]
              ELSE Nothing]

Init ==
    /\ network \in Scenarios
    /\ db = Nothing
    /\ chain = [i \in DOMAIN Externals |-> ConfiguredContract(Externals[i])]
    /\ facts = {<<AddressOf(id), "bnft", n>> :
                  id \in Configured \cap {"BNFTRegistry"}, n \in ToSet(Nfts) \cup {"NEWNFT"}}
    /\ plan = Plan /\ task = "" /\ todo = <<>> /\ env = Nothing
    /\ fate = "ok" /\ crashes = 0 /\ runs = 0

(***************************************************************************)
(* Steps of a task.                                                        *)
(***************************************************************************)
Bind(id, address) == env' = (id :> address) @@ env
Refs(a) == IF a \in DOMAIN chain THEN chain[a].refs ELSE Nothing
Ref(a, name) == IF name \in DOMAIN Refs(a) THEN Refs(a)[name] ELSE 0
WithRef(a, name, b) == [chain EXCEPT ![a].refs = (name :> b) @@ @]
Live(a) == a \in DOMAIN chain /\ chain[a].state = "live"
IsProxy(a) == Live(a) /\ "logic" \in DOMAIN Refs(a)

Running(op) == fate = "ok" /\ task # "" /\ todo # <<>> /\ Head(todo).op = op
Goes == todo' = Tail(todo) /\ UNCHANGED <<plan, task, fate, crashes, runs>>
Fails(how) == /\ fate' = how
              /\ UNCHANGED <<db, chain, facts, plan, task, todo, env, crashes, runs>>

GetRecord ==
    /\ Running("get")
    /\ LET id == Head(todo).id IN
       IF id \in DOMAIN db
       THEN Bind(id, db[id]) /\ Goes /\ UNCHANGED <<db, chain, facts>>
       ELSE Fails("threw")

TryRecord ==
    /\ Running("try")
    /\ LET id == Head(todo).id
       IN  Bind(id, IF id \in DOMAIN db THEN db[id] ELSE 0)
    /\ Goes /\ UNCHANGED <<db, chain, facts>>

ReadConfiguration ==
    /\ Running("cfg")
    /\ LET id == Head(todo).id IN
       IF id \in Configured
       THEN Bind(id, AddressOf(id)) /\ Goes /\ UNCHANGED <<db, chain, facts>>
       ELSE Fails("threw")

ReadArgument ==
    /\ Running("given")
    /\ \E proxy \in DOMAIN chain :
         /\ IsProxy(proxy) /\ chain[proxy].of = Head(todo).id
         /\ Bind(Head(todo).id, proxy)
    /\ Goes /\ UNCHANGED <<db, chain, facts>>

LookUpSlot ==
    /\ Running("look")
    /\ Bind(Head(todo).slot, Ref(env[Market], Head(todo).slot))
    /\ Goes /\ UNCHANGED <<db, chain, facts>>

SendContract ==
    /\ Running("send")
    /\ LET s == Head(todo) IN
       /\ chain' = Append(chain, [of |-> s.id, state |-> "pending",
                                  refs |-> [n \in DOMAIN s.holds |-> env[s.holds[n]]]])
       /\ Bind(s.id, Len(chain) + 1)
    /\ Goes /\ UNCHANGED <<db, facts>>

WaitForTx ==
    /\ Running("mined")
    /\ chain' = [chain EXCEPT ![env[Head(todo).id]].state = "live"]
    /\ Goes /\ UNCHANGED <<db, facts, env>>

SaveAddress ==
    /\ Running("save")
    /\ db' = (Head(todo).id :> env[Head(todo).from]) @@ db
    /\ Goes /\ UNCHANGED <<chain, facts, env>>

SetAddress ==
    /\ Running("slot")
    /\ chain' = WithRef(env[Market], Head(todo).slot, env[Head(todo).id])
    /\ Goes /\ UNCHANGED <<db, facts, env>>

\* The provider makes its proxy the first time and upgrades it afterwards.
UpdateImpl ==
    /\ Running("wire")
    /\ LET slot == Head(todo).slot
           impl == env[ImplOf[slot]]
           provider == env[Market]
           proxy == Ref(provider, slot)
       IN  chain' = IF proxy # 0 THEN WithRef(proxy, "logic", impl)
                    ELSE Append(WithRef(provider, slot, Len(chain) + 1),
                                [of |-> slot, state |-> "live",
                                 refs |-> (Market :> provider)
                                          @@ [logic |-> impl, admin |-> provider]])
    /\ Goes /\ UNCHANGED <<db, facts, env>>

UpgradeProxy ==
    /\ Running("upgrade")
    /\ LET s == Head(todo)
           proxy == env[s.proxy]
       IN  IF IsProxy(proxy) /\ Ref(proxy, "admin") = env[s.admin]
           THEN /\ chain' = WithRef(proxy, "logic", env[s.impl])
                /\ Goes /\ UNCHANGED <<db, facts, env>>
           ELSE Fails("reverted")

Branch ==
    /\ Running("when")
    /\ LET s == Head(todo)
       IN  todo' = (IF env[s.id] # 0 THEN s.yes ELSE s.no) \o Tail(todo)
    /\ UNCHANGED <<db, chain, facts, plan, task, env, fate, crashes, runs>>

ThrowError == Running("throw") /\ Fails("threw")

Impls == {ImplOf[id] : id \in DOMAIN ImplOf}
Answers(a, verb) == /\ Live(a)
                    /\ \/ chain[a].of \notin Impls
                       \/ verb = "initialized" \/ <<a, "initialized", "">> \in facts

Transact ==
    /\ Running("call")
    /\ LET s == Head(todo)
           target == env[s.via]
           market == Ref(target, Market)
           At(slot) == IF slot = "" THEN market ELSE Ref(market, slot)
           where == IF s.at = "" THEN target ELSE At(s.at)
           new == {<<where, s.verb, asset>> : asset \in s.assets}
           needed == {<<At(n.slot), n.verb, IF n.own THEN asset ELSE "">> :
                        n \in s.needs, asset \in s.assets}
       IN  IF /\ Answers(target, s.verb)
              /\ where # 0
              /\ s.once => new \cap facts = {}
              /\ needed \subseteq facts
           THEN facts' = facts \cup new /\ Goes /\ UNCHANGED <<db, chain, env>>
           ELSE Fails("reverted")

TaskStep == \/ GetRecord \/ TryRecord \/ ReadConfiguration \/ ReadArgument \/ LookUpSlot
            \/ SendContract
            \/ WaitForTx \/ SaveAddress \/ SetAddress \/ UpdateImpl \/ UpgradeProxy
            \/ Branch \/ ThrowError \/ Transact

(***************************************************************************)
(* Tasks.                                                                  *)
(***************************************************************************)
StartTask ==
    /\ fate = "ok" /\ task = "" /\ plan # <<>>
    /\ task' = Head(plan) /\ todo' = Program[Head(plan)] /\ env' = Nothing
    /\ UNCHANGED <<db, chain, facts, plan, fate, crashes, runs>>

EndTask ==
    /\ fate = "ok" /\ task # "" /\ todo = <<>>
    /\ task' = "" /\ plan' = Tail(plan) /\ env' = Nothing
    /\ UNCHANGED <<db, chain, facts, todo, fate, crashes, runs>>

Over == fate = "ok" /\ task = "" /\ plan = <<>>

\* The process dies; a transaction on its way is mined or dropped.
Die ==
    /\ fate = "ok" /\ task \in CrashIn /\ crashes < MaxCrashes
    /\ \E outcome \in {"live", "void"} :
         chain' = [i \in DOMAIN chain |->
                     IF chain[i].state = "pending" THEN [chain[i] EXCEPT !.state = outcome]
                     ELSE chain[i]]
    /\ fate' = "died" /\ crashes' = crashes + 1 /\ todo' = <<>> /\ env' = Nothing
    /\ UNCHANGED <<db, facts, plan, task, runs>>

RunTaskAgain ==
    /\ fate # "ok" /\ "task" \in Recovery /\ runs < MaxRuns
    /\ fate' = "ok" /\ task' = "" /\ todo' = <<>> /\ env' = Nothing /\ runs' = runs + 1
    /\ UNCHANGED <<db, chain, facts, plan, crashes>>

StartOver ==
    /\ fate # "ok" /\ "all" \in Recovery /\ runs < MaxRuns
    /\ fate' = "ok" /\ task' = "" /\ todo' = <<>> /\ env' = Nothing /\ runs' = runs + 1
    /\ plan' = Plan
    /\ UNCHANGED <<db, chain, facts, crashes>>

RunByHand ==
    /\ Over /\ runs < MaxRuns
    /\ \E extra \in Extras : plan' = <<extra>>
    /\ runs' = runs + 1
    /\ UNCHANGED <<db, chain, facts, task, todo, env, fate, crashes>>

Next ==
    /\ TaskStep \/ StartTask \/ EndTask \/ Die \/ RunTaskAgain \/ StartOver \/ RunByHand
    /\ UNCHANGED network

Spec == Init /\ [][Next]_<<network, vars>>

\* The process runs while it lives, and the operator does not walk away from a
\* failed task.  Nothing makes the process die or a task be run by hand.
FairSpec == /\ Spec /\ WF_vars(TaskStep) /\ WF_vars(StartTask) /\ WF_vars(EndTask)
            /\ WF_vars(RunTaskAgain \/ StartOver)

(***************************************************************************)
(* Properties.                                                             *)
(***************************************************************************)
TypeOK ==
    /\ network \in Scenarios
    /\ \A id \in DOMAIN db : db[id] \in DOMAIN chain
    /\ \A a \in DOMAIN chain : /\ chain[a].state \in {"pending", "live", "void"}
                               /\ \A n \in DOMAIN Refs(a) : Ref(a, n) \in 0..Len(chain)
    /\ \A f \in facts : f[1] \in DOMAIN chain
    /\ fate \in {"ok", "died", "threw", "reverted"}
    /\ crashes \in 0..MaxCrashes /\ runs \in 0..MaxRuns

Provider == db[Market]
Pool == Ref(Provider, "LendPool")
Contracts == DOMAIN db

\* The record names contracts that were mined, and where the provider holds an
\* address for the same component it holds that one.
RecordIsTrue ==
    \A id \in Contracts : Live(db[id]) /\ Ref(Provider, id) \in {0, db[id]}

\* The libraries linked into a contract, the provider, gateway and oracles given
\* to its constructor, its implementation and its proxy admin are the ones on
\* record, not those of an earlier attempt.
OneGeneration ==
    \A id \in Contracts : \A name \in DOMAIN Refs(db[id]) :
        LET b == Ref(db[id], name) IN
        CASE name = "logic" -> id \in DOMAIN ImplOf =>
                 b \in {0} \cup (IF ImplOf[id] \in Contracts THEN {db[ImplOf[id]]} ELSE {})
          [] name = "admin" -> b \in {0, Provider} \cup
                 {db[a] : a \in Contracts \cap {PoolAdmin, FundAdmin, WTLAdmin}}
          [] OTHER -> name \in Contracts => b = db[name]

\* Every configured asset is listed in the recorded market's pool, has its
\* parameters, can be borrowed, has a price feed where the migration makes the
\* oracle, and is approved at its gateway.
MarketIsComplete ==
    /\ \A r \in ToSet(Reserves) : \A verb \in {"reserve", "reserveConfig", "borrowing"} :
           <<Pool, verb, r>> \in facts
    /\ \A n \in ToSet(Nfts) : /\ {<<Pool, "nft", n>>, <<Pool, "nftConfig", n>>} \subseteq facts
                              /\ <<Ref(Provider, "WETHGateway"), "approved", n>> \in facts
    /\ \A r \in ToSet(Reserves) :
           <<Ref(Provider, "PunkGateway"), "approved", r>> \in facts
    /\ \A id \in {"ReserveOracle", "NFTOracle"} \ Configured :
           \A a \in (IF id = "NFTOracle" THEN ToSet(Nfts) ELSE Pairs) :
               <<Ref(Provider, id), "feed", a>> \in facts

\* When the migration and the tasks run by hand are over, whatever crashes they
\* went through, the record is true, of one generation, and names a market that
\* is complete.  A task that only prepares a new implementation leaves the one
\* before in use, and files its own.
Prepared == {"newLendPool", "newReserveOracle", "newKoda", "newWrapperImpl", "newUi"}
OverIsSound ==
    /\ TypeOK
    /\ (Over /\ Extras \cap Prepared = {}) => (RecordIsTrue /\ OneGeneration /\ MarketIsComplete)

\* The only transaction that can be refused is one that lists an asset again:
\* everything else may be repeated after a crash, and what a task takes for a
\* proxy to upgrade is one.  And at no moment, of any attempt, is an asset listed
\* in a pool that was never paused: users cannot reach a half configured market.
\* The migration with mock assets does not pause.
OnlyRelistingReverts ==
    /\ fate = "reverted" => Head(todo).op = "call" /\ Head(todo).once
    /\ Plan # devMigration =>
           \A f \in facts : f[2] \in {"reserve", "nft"} => <<f[1], "paused", "">> \in facts

\* A migration that dies is eventually finished by running again what failed, or,
\* if it died while it listed the assets, by starting over.
Listing == {"initialize", "devInitialize", "devBnftTokens"}
Resumable == Extras = {} /\ (Recovery = {"all"} \/ CrashIn \cap Listing = {})
DeploymentResumes == Resumable => <>Over
=============================================================================
