SPECIFICATION Spec
CONSTANTS
    Handlers = {h1, h2}
    Workers = {k1, k2}
    Requests <- ReversalRequests
    Request <- ReversalRequest
    Deliveries <- ReversalDeliveries
    Wallets = {"w1"}
    Wallet <- MCWallet
    Exts <- MCExts
    NoExt = "-"
    NoTx = "nil"
    MaxBalance = 3
    Messages = {}
    NoMessage = "-"
    Bodies <- ReversalRequests
    OpeningBalances = {1}
    ReferenceTTL = 2
    BackoffBase = 1
    BackoffMax = 1
    AttemptsCap = 0
    MaxClock = 4
    MaxArrivals = 4
    MaxFaults = 1
    PermanentFaults = TRUE
SYMMETRY ProcessSymmetry
CONSTRAINT UntilExpiry
INVARIANTS
    ReadUnderLockIsCurrent
    DecisionStillStands
    LedgerChain
    ReversedOnce
    RowsRehydrate
    EventsTellTheOutcome
PROPERTIES
    HistoryIsImmutable
    ReferenceNotIgnored
    DatabaseAccepts
