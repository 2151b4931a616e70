--------------------------- MODULE DeployScripts ---------------------------
(***************************************************************************)
(* The deployment tasks of tasks/full, tasks/dev, tasks/misc and           *)
(* tasks/deployments, each as the sequence of the steps that read or write *)
(* the deployment record (the lowdb file of misc-utils.ts:17) or the chain.*)
(* Nothing here has state: module Deployment runs these programs, lets the *)
(* process die between any two steps, and lets the operator start again.   *)
(*                                                                         *)
(* A step names contracts by the id the code files them under; the running *)
(* task binds those names to addresses.  Etherscan verification is left    *)
(* out: verifyEtherscanContract swallows its errors, and the two checks it *)
(* makes first stop the task just after a step that saved an address,      *)
(* which a crash there covers.                                             *)
(***************************************************************************)
EXTENDS Naturals, Sequences, SequencesExt, TLC

VARIABLE network     \* the pool configuration for the network, which does not change

Configured == network.configured  \* ids it gives an address on this network
Reserves == network.reserves      \* assets with an address, in the order of the config
Nfts == network.nfts
StrategyOf == network.strategyOf  \* the rate strategy of each reserve
Aggregated == network.aggregated  \* reserves it gives a price aggregator
SkipOracle == network.skipOracle  \* the flag the migration passes to both oracle tasks

IsConfiguration(n) ==
    /\ DOMAIN n.strategyOf = ToSet(n.reserves)
    /\ n.skipOracle \in BOOLEAN

ImplOf == [
    LendPool |-> "LendPoolImpl", LendPoolLoan |-> "LendPoolLoanImpl",
    LendPoolConfigurator |-> "LendPoolConfiguratorImpl",
    BNFTRegistry |-> "BNFTRegistryImpl", ReserveOracle |-> "ReserveOracleImpl",
    NFTOracle |-> "NFTOracleImpl", TokenOracle |-> "TokenOracleImpl",
    WETHGateway |-> "WETHGatewayImpl", PunkGateway |-> "PunkGatewayImpl",
    BendCollector |-> "BendCollectorImpl", KodaGateway |-> "KodaGatewayImpl",
    ChainlinkAggregatorHelper |-> "ChainlinkAggregatorHelperImpl",
    UniswapV3DebtSwapAdapter |-> "UniswapV3DebtSwapAdapterImpl" ]

Market == "LendPoolAddressesProvider"
PoolAdmin == "BendProxyAdminPool"
FundAdmin == "BendProxyAdminFund"
WTLAdmin == "BendProxyAdminWTL"

(***************************************************************************)
(* Steps.                                                                  *)
(***************************************************************************)
Get(id) == <<[op |-> "get", id |-> id]>>          \* the record, or an exception
Try(id) == <<[op |-> "try", id |-> id]>>          \* the record, or the zero address
Cfg(id) == <<[op |-> "cfg", id |-> id]>>          \* the configuration, or an exception
Given(id) == <<[op |-> "given", id |-> id]>>      \* a proxy the operator names
Look(slot) == <<[op |-> "look", slot |-> slot]>>  \* a getter of the addresses provider
Send(id, holds) == <<[op |-> "send", id |-> id, holds |-> holds]>>
Mined(id) == <<[op |-> "mined", id |-> id]>>
Save(id, from) == <<[op |-> "save", id |-> id, from |-> from]>>
SetSlotTo(slot, id) == <<[op |-> "slot", slot |-> slot, id |-> id]>>
SetSlot(slot) == SetSlotTo(slot, slot)
SetImpl(slot) == <<[op |-> "wire", slot |-> slot]>>
Upgrade(proxy, impl, admin) ==
    <<[op |-> "upgrade", proxy |-> proxy, impl |-> impl, admin |-> admin]>>
When(id, yes, no) == <<[op |-> "when", id |-> id, yes |-> yes, no |-> no]>>
Throw == <<[op |-> "throw"]>>

\* A transaction to the contract bound to `via`: it records `verb` of each
\* asset at that contract, or at the pool of the market it belongs to; it is
\* refused when a fact of `once` is there already or one of `needs` is not.
Call(via, at, verb, assets, once, needs) ==
    <<[op |-> "call", via |-> via, at |-> at, verb |-> verb,
       assets |-> assets, once |-> once, needs |-> needs]>>

Tell(via, verb) == Call(via, "", verb, {""}, FALSE, {})
Configure(verb, assets, once, needs) ==
    Call("LendPoolConfigurator", "LendPool", verb, assets, once, needs)
By(admin) == [slot |-> "", verb |-> admin, own |-> FALSE]

Nothing == [x \in {} |-> ""]
Holds(ids) == [x \in ids |-> x]

(***************************************************************************)
(* helpers/contracts-helpers.ts and helpers/contracts-deployments.ts.      *)
(***************************************************************************)
withSaveAndVerify(id, holds) == Send(id, holds) \o Mined(id) \o Save(id, id)

\* The implementation's address is filed before its transaction is mined, and
\* afterwards under the id of the proxy as well.
deployImpl(id, holds) ==
    LET impl == ImplOf[id]
    IN  Send(impl, holds) \o Save(impl, impl) \o Mined(impl) \o Save(id, impl)

deployBendUpgradeableProxy(id, admin, holds) ==
    withSaveAndVerify(id, [logic |-> ImplOf[id], admin |-> admin] @@ holds)

deployWrapperGatewayImpl(id) == withSaveAndVerify(ImplOf[id], Nothing)

Linked(id) == Get("ValidationLogic")
              \o withSaveAndVerify(id, Holds({"ValidationLogic"}))

deployLendPoolLibraries ==
    withSaveAndVerify("GenericLogic", Nothing)
    \o withSaveAndVerify("ReserveLogic", Nothing)
    \o withSaveAndVerify("NftLogic", Nothing)
    \o withSaveAndVerify("ValidationLogic", Holds({"ReserveLogic", "GenericLogic"}))
    \o Linked("SupplyLogic") \o Linked("BorrowLogic") \o Linked("LiquidateLogic")

deployConfiguratorLibraries == withSaveAndVerify("ConfiguratorLogic", Nothing)

deployLendPool ==
    Get("ReserveLogic") \o Get("NftLogic") \o Get("SupplyLogic")
    \o Get("BorrowLogic") \o Get("LiquidateLogic")
    \o deployImpl("LendPool", Holds({"ReserveLogic", "NftLogic", "SupplyLogic",
                                     "BorrowLogic", "LiquidateLogic"}))

deployLendPoolConfigurator ==
    Get("ConfiguratorLogic")
    \o deployImpl("LendPoolConfigurator", Holds({"ConfiguratorLogic"}))

deployBTokenImplementations ==
    (IF "BToken" \in Configured THEN <<>> ELSE withSaveAndVerify("BToken", Nothing))
    \o (IF "DebtTokenImplementation" \in Configured THEN <<>>
        ELSE withSaveAndVerify("DebtToken", Nothing))

\* An address of the configuration, or a fresh mock filed under `mock`.
ConfiguredOr(id, mock, holds) ==
    IF id \in Configured THEN Cfg(id) ELSE withSaveAndVerify(mock, holds)
NameOf(id, mock) == IF id \in Configured THEN id ELSE mock
Weth == NameOf("WrappedNativeToken", "WETH")
Punk == "CryptoPunksMarket"
WPunk == NameOf("WrappedPunkToken", "WrappedPunk")
getWrappedNativeTokenAddress == ConfiguredOr("WrappedNativeToken", "WETH", Nothing)
getCryptoPunksMarketAddress == ConfiguredOr(Punk, Punk, Nothing)
getWrappedPunkTokenAddress ==
    ConfiguredOr("WrappedPunkToken", "WrappedPunk", Holds({Punk}))

(***************************************************************************)
(* helpers/init-helpers.ts: listing and configuring the assets.            *)
(***************************************************************************)
Each(assets, Steps(_)) == FlattenSeq([i \in DOMAIN assets |-> Steps(assets[i])])

Listed(verb) == [slot |-> "LendPool", verb |-> verb, own |-> TRUE]
HasBNft == [slot |-> "BNFTRegistry", verb |-> "bnft", own |-> TRUE]

\* One rate strategy per name, however many reserves use it.
deployRateStrategy(i) ==
    IF \E j \in 1..(i - 1) : StrategyOf[Reserves[j]] = StrategyOf[Reserves[i]]
    THEN <<>>
    ELSE withSaveAndVerify("InterestRate", Holds({Market}))
         \o Save(StrategyOf[Reserves[i]], "InterestRate")

getContractAddressWithJsonFallback(id) == IF id \in Configured THEN Cfg(id) ELSE Get(id)

initReservesByHelper ==
    Get(Market)
    \o FlattenSeq([i \in DOMAIN Reserves |->
                     deployRateStrategy(i)
                     \o getContractAddressWithJsonFallback("BToken")
                     \o getContractAddressWithJsonFallback("DebtToken")])
    \o Get("LendPoolConfigurator")
    \o Each(Reserves, LAMBDA r : Configure("reserve", {r}, TRUE, {By("poolAdmin")}))

configureReservesByHelper ==
    Get(Market) \o Get("LendPoolConfigurator")
    \o Configure("reserveConfig", ToSet(Reserves), FALSE, {By("poolAdmin")})
    \o Configure("borrowing", ToSet(Reserves), FALSE, {By("poolAdmin")})

initNftsByHelper ==
    Get(Market) \o Look("BNFTRegistry") \o Get("LendPoolConfigurator")
    \o Each(Nfts, LAMBDA n : Configure("nft", {n}, TRUE, {By("poolAdmin"), HasBNft}))

configureNftsByHelper ==
    Get(Market) \o Get("LendPoolConfigurator")
    \o Configure("nftConfig", ToSet(Nfts), FALSE, {By("poolAdmin")})

\* Every token but the native one is paired with its aggregator, and the lookup
\* of one that is missing destructures an undefined entry.
getPairsTokenAggregator ==
    IF (ToSet(Reserves) \cup {"USD"}) \ {"WETH", "ETH"} \subseteq Aggregated
    THEN <<>> ELSE Throw
Pairs == (ToSet(Reserves) \cup {"USD"}) \ {"WETH", "ETH"}

(***************************************************************************)
(* tasks/full, tasks/deployments: the tasks of the migration.              *)
(***************************************************************************)
\* Fault: a proxy admin on record is not replaced but refused.
AdminOnce(id) == Try(id) \o When(id, Throw, withSaveAndVerify(id, Nothing))

ProxyAdmin(id) == IF id \in Configured THEN Cfg(id) \o Save(id, id)
                  ELSE withSaveAndVerify(id, Nothing)
deployProxyAdmin == ProxyAdmin(PoolAdmin) \o ProxyAdmin(FundAdmin) \o ProxyAdmin(WTLAdmin)

deployBendCollectorTask ==
    Get(FundAdmin) \o deployImpl("BendCollector", Nothing)
    \o deployBendUpgradeableProxy("BendCollector", FundAdmin, Nothing)

Registry == "LendPoolAddressesProviderRegistry"
deployAddressProviderRegistry ==
    IF Registry \in Configured THEN Cfg(Registry) \o Save(Registry, Registry)
    ELSE withSaveAndVerify(Registry, Nothing)

\* A configured registry must be owned by the deployer, or the task exits.
addMarketToRegistry ==
    (IF Registry \in Configured THEN Cfg("ProviderRegistryOwner") \o Cfg(Registry)
     ELSE deployAddressProviderRegistry \o Get(Registry))
    \o Tell(Market, "registered")

\* A new provider each time: the old one is never looked for.
deployAddressProvider(skipRegistry) ==
    withSaveAndVerify(Market, Nothing)
    \o (IF skipRegistry THEN <<>> ELSE addMarketToRegistry)
    \o Tell(Market, "poolAdmin") \o Tell(Market, "emergencyAdmin")

\* The implementation goes to the provider, whose proxy is then looked up and filed.
wireThroughProvider(slot, deploy) ==
    deploy \o SetImpl(slot) \o Look(slot) \o Save(slot, slot)

pauseLendPool == Configure("paused", {""}, FALSE, {By("emergencyAdmin")})

deployLendPoolTask ==
    Get(Market)
    \o Cfg("BNFTRegistry") \o SetSlot("BNFTRegistry")
    \o Cfg("IncentivesController") \o SetSlot("IncentivesController")
    \o deployLendPoolLibraries \o deployConfiguratorLibraries
    \o wireThroughProvider("LendPool", deployLendPool)
    \o wireThroughProvider("LendPoolLoan", deployImpl("LendPoolLoan", Nothing))
    \o wireThroughProvider("LendPoolConfigurator", deployLendPoolConfigurator)
    \o pauseLendPool \o deployBTokenImplementations

\* Fault: the proxy is read from the record, where the implementation now is.
OracleOnRecord(id, holds, verb, assets) ==
    deployImpl(id, Nothing)
    \o IF id \in Configured
       THEN Get(id) \o Save(id, id) \o Upgrade(id, ImplOf[id], PoolAdmin)
       ELSE deployBendUpgradeableProxy(id, PoolAdmin, holds)
            \o Call(id, "", verb, assets, FALSE, {})

\* An oracle of the configuration is upgraded in place; otherwise a new proxy is
\* made and told its assets.
oracleProxy(id, holds, verb, assets) ==
    deployImpl(id, Nothing)
    \o IF id \in Configured
       THEN Cfg(id) \o Save(id, id) \o Upgrade(id, ImplOf[id], PoolAdmin)
       ELSE deployBendUpgradeableProxy(id, PoolAdmin, holds)
            \o Call(id, "", verb, assets, FALSE, {})

deployOracleReserve ==
    Get(Market)
    \o (IF SkipOracle THEN Cfg("ReserveOracle")
        ELSE Get(PoolAdmin) \o getPairsTokenAggregator \o getWrappedNativeTokenAddress
             \o oracleProxy("ReserveOracle", Holds({Weth}), "feed", Pairs))
    \o SetSlot("ReserveOracle")

deployOracleNft ==
    (IF SkipOracle THEN Cfg("NFTOracle")
     ELSE Get(PoolAdmin) \o oracleProxy("NFTOracle", Nothing, "feed", ToSet(Nfts)))
    \o Get(Market) \o SetSlot("NFTOracle")

initializeLendPool ==
    Get(Market) \o initReservesByHelper \o configureReservesByHelper
    \o initNftsByHelper \o configureNftsByHelper

\* Both gateways look for no earlier proxy: the line that did is commented out.
deployWethGateway ==
    Get(Market) \o Get(PoolAdmin) \o getWrappedNativeTokenAddress
    \o deployImpl("WETHGateway", Nothing)
    \o deployBendUpgradeableProxy("WETHGateway", PoolAdmin, Holds({Market, Weth}))
    \o SetSlot("WETHGateway")

\* Fault: a gateway on record is upgraded, as the line commented out would have it.
PunkGatewayKept ==
    Get(Market) \o Get(PoolAdmin) \o Get("WETHGateway")
    \o getCryptoPunksMarketAddress \o getWrappedPunkTokenAddress
    \o Try("PunkGateway") \o deployImpl("PunkGateway", Nothing)
    \o When("PunkGateway",
            Save("PunkGateway", "PunkGateway")
            \o Upgrade("PunkGateway", ImplOf["PunkGateway"], PoolAdmin),
            deployBendUpgradeableProxy("PunkGateway", PoolAdmin,
                Holds({Market, "WETHGateway", Punk, WPunk})))
    \o SetSlot("PunkGateway")

deployPunkGateway ==
    Get(Market) \o Get(PoolAdmin) \o Get("WETHGateway")
    \o getCryptoPunksMarketAddress \o getWrappedPunkTokenAddress
    \o deployImpl("PunkGateway", Nothing)
    \o deployBendUpgradeableProxy("PunkGateway", PoolAdmin,
                                  Holds({Market, "WETHGateway", Punk, WPunk}))
    \o SetSlot("PunkGateway")

initializeGateway ==
    Get("WETHGateway") \o Call("WETHGateway", "", "approved", ToSet(Nfts), FALSE, {})
    \o Get("PunkGateway") \o Call("PunkGateway", "", "approved", ToSet(Reserves), FALSE, {})

dataProvider(id, holds) == withSaveAndVerify(id, holds) \o SetSlot(id)
deployDataProvider ==
    Get(Market) \o Look("ReserveOracle") \o Look("NFTOracle")
    \o dataProvider("WalletBalanceProvider", Nothing)
    \o dataProvider("BendProtocolDataProvider", Holds({Market}))
    \o dataProvider("UIPoolDataProvider", Holds({"ReserveOracle", "NFTOracle"}))

(***************************************************************************)
(* tasks/dev: the same market with mock assets and plain oracles.          *)
(***************************************************************************)
MockToken(generic, symbol) == withSaveAndVerify(generic, Nothing) \o Save(symbol, generic)
devMockReserves ==
    Each(Reserves, LAMBDA r : MockToken(IF r = "WETH" THEN "WETH" ELSE "MintableERC20", r))
devMockNfts ==
    withSaveAndVerify(Punk, Nothing) \o withSaveAndVerify("WrappedPunk", Holds({Punk}))
    \o Each(Nfts, LAMBDA n : MockToken("MintableERC721", n))

\* An account of the deployer, not a BendProxyAdmin, administers this proxy.
devMockBnftRegistry ==
    withSaveAndVerify("BNFT", Nothing) \o deployImpl("BNFTRegistry", Nothing)
    \o withSaveAndVerify("BNFTRegistry", [logic |-> ImplOf["BNFTRegistry"]])
devMockBnftTokens ==
    Get("BNFTRegistry") \o Each(Nfts, Get)
    \o Each(Nfts, LAMBDA n : Call("BNFTRegistry", "", "bnft", {n}, TRUE, {}))

devAddressProvider ==
    withSaveAndVerify(Market, Nothing)
    \o Tell(Market, "poolAdmin") \o Tell(Market, "emergencyAdmin")
    \o withSaveAndVerify(Registry, Nothing) \o Tell(Market, "registered")

devLendPool ==
    Get(Market) \o Get("BNFTRegistry") \o SetSlot("BNFTRegistry")
    \o deployLendPoolLibraries \o deployConfiguratorLibraries
    \o wireThroughProvider("LendPool", deployLendPool)
    \o wireThroughProvider("LendPoolConfigurator", deployLendPoolConfigurator)
    \o wireThroughProvider("LendPoolLoan", deployImpl("LendPoolLoan", Nothing))
    \o deployBTokenImplementations

\* Oracles without a proxy: the implementation itself is initialized, named at
\* the provider, and told its assets one transaction each.
mockAggregators(symbols) == FlattenSeq([i \in 1..(Len(symbols) + 1) |->
                                          withSaveAndVerify("MockChainlinkOracle", Nothing)])
plainOracle(id, verb, assets) ==
    Tell(ImplOf[id], "initialized") \o SetSlotTo(id, ImplOf[id])
    \o Each(assets, LAMBDA a : Call(ImplOf[id], "", verb, {a}, FALSE, {}))
devOracleReserve ==
    Get(Market) \o Each(Reserves, Get) \o mockAggregators(Reserves)
    \o deployImpl("ReserveOracle", Nothing)
    \o plainOracle("ReserveOracle", "feed", Append(Reserves, "USD"))
devOracleNft ==
    Get(Market) \o Each(Nfts, Get) \o deployImpl("NFTOracle", Nothing)
    \o plainOracle("NFTOracle", "feed", Nfts)
    \o Each(Nfts, LAMBDA n : Call(ImplOf["NFTOracle"], "", "price", {n}, FALSE, {}))

devInitialize ==
    Get(Market) \o withSaveAndVerify("BendProtocolDataProvider", Holds({Market}))
    \o Each(Reserves, Get) \o initReservesByHelper \o configureReservesByHelper
    \o Each(Nfts, Get) \o initNftsByHelper \o configureNftsByHelper
    \o Look("ReserveOracle") \o Look("NFTOracle")
    \o withSaveAndVerify("WalletBalanceProvider", Nothing)
    \o withSaveAndVerify("BendProtocolDataProvider", Holds({Market}))
    \o withSaveAndVerify("UIPoolDataProvider", Holds({"ReserveOracle", "NFTOracle"}))
    \o initializeGateway

(***************************************************************************)
(* Tasks run by hand once the market stands.                               *)
(***************************************************************************)
\* The address found in the record is upgraded, or a proxy is made.
upgradeOrProxy(id, admin, holds) ==
    When(id, Save(id, id) \o Upgrade(id, ImplOf[id], admin),
         deployBendUpgradeableProxy(id, admin, holds))

deployWrapperGateway ==
    Get(Market) \o Get(WTLAdmin) \o Get("WETHGateway")
    \o deployWrapperGatewayImpl("KodaGateway") \o Try("KodaGateway")
    \o upgradeOrProxy("KodaGateway", WTLAdmin, Holds({Market, "WETHGateway"}))

deploySwapAdapter ==
    Get(Market) \o Get(WTLAdmin) \o Try("UniswapV3DebtSwapAdapter")
    \o deployImpl("UniswapV3DebtSwapAdapter", Nothing)
    \o upgradeOrProxy("UniswapV3DebtSwapAdapter", WTLAdmin, Holds({Market}))

deployAggregatorHelper ==
    Get(Market) \o Try("ChainlinkAggregatorHelper") \o Get(PoolAdmin)
    \o deployImpl("ChainlinkAggregatorHelper", Nothing)
    \o upgradeOrProxy("ChainlinkAggregatorHelper", PoolAdmin, Holds({Market}))

deployOracleToken ==
    Get("BendV2ProxyAdmin") \o Try("TokenOracle") \o deployImpl("TokenOracle", Nothing)
    \o upgradeOrProxy("TokenOracle", "BendV2ProxyAdmin", Nothing)

\* A new implementation of a contract behind the provider's own proxy: the
\* libraries first, then the provider, then the record gets the proxy back.
newPoolImplementation(slot, deploy, upgrade) ==
    Get(Market) \o deploy
    \o (IF upgrade THEN SetImpl(slot) ELSE <<>>) \o Look(slot) \o Save(slot, slot)

\* A new implementation of a proxy owned by a proxy admin: the record names the
\* implementation until the address the provider holds is put back.
upgradeImplementation(id, admin) ==
    Get(admin) \o Upgrade(id, ImplOf[id], admin) \o Save(id, id)
newProxiedImplementation(id, read, upgrade) ==
    Get(Market) \o read \o deployImpl(id, Nothing) \o Look(id) \o Save(id, id)
    \o (IF upgrade THEN upgradeImplementation(id, PoolAdmin) ELSE <<>>)
newKodaGatewayImplementation(upgrade) ==
    Get(Market) \o Get("KodaGateway") \o deployImpl("KodaGateway", Nothing)
    \o Save("KodaGateway", "KodaGateway")
    \o (IF upgrade THEN upgradeImplementation("KodaGateway", WTLAdmin) ELSE <<>>)
\* With its upgrade flag this task runs dev:upgrade-implementation without the
\* `contract` that task requires, which Hardhat refuses.
newWrapperGatewayImpl(upgrade) ==
    Get("KodaGateway") \o deployWrapperGatewayImpl("KodaGateway")
    \o (IF upgrade THEN Throw ELSE <<>>)
newDataProvider(id, look, holds, upgrade) ==
    Get(Market) \o look \o withSaveAndVerify(id, holds)
    \o (IF upgrade THEN SetSlot(id) ELSE <<>>)

\* The proxy comes from the command line.
upgradeBendCollector ==
    Get(FundAdmin) \o Given("BendCollector") \o deployImpl("BendCollector", Nothing)
    \o Save("BendCollector", "BendCollector")
    \o Upgrade("BendCollector", ImplOf["BendCollector"], FundAdmin)

upgradeAllDebtTokens ==
    Get(Market) \o Look("LendPoolConfigurator") \o Look("BendProtocolDataProvider")
    \o withSaveAndVerify("DebtToken", Nothing)
    \o Configure("debtToken", ToSet(Reserves), FALSE, {By("poolAdmin"), Listed("reserve")})

addNftToPool(nft) ==
    Get(Market) \o Look("LendPoolConfigurator") \o Look("BNFTRegistry") \o Look("WETHGateway")
    \o Configure("nft", {nft}, TRUE, {By("poolAdmin"), HasBNft})
    \o Configure("nftCollateral", {nft}, FALSE, {By("poolAdmin")})
    \o Configure("nftConfig", {nft}, FALSE, {By("poolAdmin")})
    \o Call("WETHGateway", "", "approved", {nft}, FALSE, {})
addNftToOracle(nft) ==
    Get(Market) \o Look("NFTOracle") \o Call("NFTOracle", "", "feed", {nft}, TRUE, {})
deployInterestRateWithID(id) == Get(Market) \o withSaveAndVerify(id, Holds({Market}))

mainMigration == <<"proxyAdmin", "collector", "addressProvider", "lendPool",
    "oracleReserve", "oracleNft", "initialize", "wethGateway", "punkGateway",
    "initializeGateway", "dataProvider">>
devMigration == <<"devReserves", "devNfts", "devBnftRegistry", "devBnftTokens",
    "proxyAdmin", "devAddressProvider", "devLendPool", "devOracleReserve",
    "devOracleNft", "wethGateway", "punkGateway", "devInitialize">>
=============================================================================
