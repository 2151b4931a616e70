--------------------------- MODULE MCWalletSession ---------------------------
(***************************************************************************)
(* Three visits to the page.  Each makes the steps of its own instance of  *)
(* WalletSession; initial states, fairness and properties are shared.      *)
(***************************************************************************)
EXTENDS WalletSession

CONSTANTS mm, rabby, alice, bob, k1, k2

MCWallets == {mm, rabby}
MCAccounts == {alice, bob}
MCClicks == {k1, k2}

VARIABLE visit

\* Two installed wallets and the phone, connected one over the other.
TwoWallets == INSTANCE WalletSession WITH
    Accounts <- {alice}, MaxGen <- 2, MaxReloads <- 0

\* A reload, after which silentConnect runs against one click and a wallet that
\* changes its account.
Reloading == INSTANCE WalletSession WITH
    Wallets <- {mm}, MaxGen <- 2

\* Three attempts to pair, two of them at once.
ThreeAttempts == INSTANCE WalletSession WITH
    Wallets <- {mm}, Accounts <- {alice}, MaxReloads <- 0

\* Only the visit "reload" has a use for a second account, and only the visit
\* "two wallets" for a second wallet.
VisitsInit ==
    /\ Init
    /\ visit \in {"two wallets", "reload", "attempts"}
    /\ visit # "reload" => \A w \in DOMAIN world.acct : world.acct[w] # bob
    /\ visit # "two wallets" => world.acct[rabby] = None

VisitsNext ==
    /\ \/ visit = "two wallets" /\ TwoWallets!Next
       \/ visit = "reload" /\ Reloading!Next /\ tasks'[k2] = Idle
       \/ visit = "attempts" /\ ThreeAttempts!Next
    /\ UNCHANGED visit

VisitsSpec == VisitsInit /\ [][VisitsNext]_<<vars, visit>> /\ Fairness
=============================================================================
