---------------------------- MODULE MCDeployment ----------------------------
(***************************************************************************)
(* Networks as markets/bend configures them, and what is run on them.      *)
(***************************************************************************)
EXTENDS Deployment

\* A network where only the registry of bound NFTs, the incentives and the
\* wrapped native token exist.
Fresh == {"BNFTRegistry", "IncentivesController", "WrappedNativeToken"}
\* A network like the main one: admins, registry, oracles and tokens are there.
Standing == Fresh \cup {PoolAdmin, FundAdmin, Registry, "ProviderRegistryOwner",
                        "ReserveOracle", "NFTOracle", "CryptoPunksMarket",
                        "WrappedPunkToken"}

\* Two reserves that share a rate strategy, and two collections.
Main ==
    [configured |-> Fresh, reserves |-> <<"WETH", "USDC">>, nfts |-> <<"WPUNKS", "BAYC">>,
     strategyOf |-> [WETH |-> "rateStrategyWETH", USDC |-> "rateStrategyWETH"],
     aggregated |-> {"USD", "USDC"}, skipOracle |-> FALSE,
     plan |-> mainMigration, extras |-> {}, crashIn |-> ToSet(mainMigration),
     recovery |-> {"task", "all"}, maxCrashes |-> 1, maxRuns |-> 2]

\* The migration with mock assets.
Dev == [Main EXCEPT !.configured = {"WrappedNativeToken"},
                    !.plan = devMigration, !.crashIn = ToSet(devMigration)]

\* The operator always starts over, and the process dies again.
StartingOver == [Main EXCEPT !.reserves = <<"WETH">>,
                      !.strategyOf = [WETH |-> "rateStrategyWETH"],
                      !.recovery = {"all"}, !.maxCrashes = 2,
                      !.crashIn = {"addressProvider", "initialize", "wethGateway"}]

\* A network with oracles; the process does not die while it lists the assets.
OnStanding == [StartingOver EXCEPT !.configured = Standing,
                                !.crashIn = ToSet(mainMigration) \ Listing,
                                !.recovery = {"task", "all"}, !.maxCrashes = 1, !.maxRuns = 1]

\* Tasks run by hand afterwards, and those of them the process may die in.
LateTasks == {"wrapperGateway", "upgradeLendPool", "upgradeWethGateway",
              "upgradeCollector", "upgradeUi", "debtTokens"}
ByHand == [OnStanding EXCEPT
    !.nfts = <<"WPUNKS">>, !.skipOracle = TRUE, !.recovery = {"task"}, !.maxRuns = 3,
    !.crashIn = LateTasks,
    !.extras = LateTasks \cup
        {"upgradeConfigurator", "upgradeLoan", "upgradePunkGateway", "upgradeKoda",
         "upgradeReserveOracle", "upgradeNftOracle", "addNft", "feedNft", "newRate",
         "aggregatorHelper", "swapAdapter", "upgradeWrapperImpl", "oracleToken"}]

\* ... and those that prepare an upgrade.
Preparing == [ByHand EXCEPT !.extras = Prepared \cup {"wrapperGateway"},
                            !.crashIn = Prepared \cup {"wrapperGateway"}]

MCScenarios == {Main, Dev, StartingOver, OnStanding, ByHand, Preparing}

\* The wrapper gateway, and then its upgrade.
Wrapped == [ByHand EXCEPT !.plan = mainMigration \o <<"wrapperGateway", "upgradeWrapperImpl">>,
                          !.extras = {}, !.crashIn = {}, !.maxRuns = 0]
WrappedScenarios == {Wrapped}

\* "Upgrade contract" (wrapper-gateway.ts:115): run with that flag for a gateway on
\* record, the task does not fail by itself.
FlagUpgrades ==
    task = "upgradeWrapperImpl" /\ "KodaGateway" \in DOMAIN db => fate # "threw"
=============================================================================
