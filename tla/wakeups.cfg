SPECIFICATION Spec
CONSTANTS
    Handlers = {h1}
    Workers = {k1, k2}
    Requests <- QueuedChainRequests
    Request <- QueuedChainRequest
    Deliveries <- QueuedChainDeliveries
    Wallets = {"w1"}
    Wallet <- MCWallet
    Exts <- MCExts
    NoExt = "-"
    NoTx = "nil"
    MaxBalance = 3
    Messages = {"m1"}
    NoMessage = "-"
    Bodies <- QueuedChainRequests
    OpeningBalances = {1}
    ReferenceTTL = 2
    BackoffBase = 1
    BackoffMax = 1
    AttemptsCap = 0
    MaxClock = 4
    MaxArrivals = 5
    MaxFaults = 0
    PermanentFaults = FALSE
SYMMETRY ProcessSymmetry
CONSTRAINT BeforeExpiry
INVARIANTS
    OnlyLockedRowsSleep
    OnlyKeptRowsDeadlock
PROPERTIES
    ImplementsBook
