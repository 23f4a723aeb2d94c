SPECIFICATION FairSpec
CONSTANTS
    Handlers = {h1, h2}
    Workers = {k1}
    Requests <- CycleRequests
    Request <- CycleRequest
    Deliveries <- CycleDeliveries
    Wallets = {"w1"}
    Wallet <- MCWallet
    Exts <- MCExts
    NoExt = "-"
    NoTx = "nil"
    MaxBalance = 3
    Messages = {}
    NoMessage = "-"
    Bodies <- CycleRequests
    OpeningBalances = {1}
    ReferenceTTL = 2
    BackoffBase = 1
    BackoffMax = 1
    AttemptsCap = 0
    MaxClock = 4
    MaxArrivals = 3
    MaxFaults = 1
    PermanentFaults = TRUE
PROPERTIES
    EveryPendingSettles
    EveryRequestEnds
