SPECIFICATION VisitsSpec
CONSTANTS
    mm = mm
    rabby = rabby
    alice = alice
    bob = bob
    k1 = k1
    k2 = k2
    Phone = Phone
    None = None
    Boot = Boot
    Wallets <- MCWallets
    Clients = {c1, c2}
    Accounts <- MCAccounts
    Clicks <- MCClicks
    MaxGen = 3
    MaxReloads = 1
CHECK_DEADLOCK FALSE
INVARIANTS
    OnlyCurrentIsHeard
    LockIsCurrentAttempt
    SessionIsReachable
PROPERTIES
    CancelledNeverConnects
    LockSettles
