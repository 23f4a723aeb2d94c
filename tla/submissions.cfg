SPECIFICATION Spec
CONSTANTS
    Handlers = {h1, h2}
    Workers = {}
    Requests <- SubmissionRequests
    Request <- SubmissionRequest
    Deliveries <- SubmissionDeliveries
    Wallets = {"w1", "w2"}
    Wallet <- MCWallet
    Exts <- MCExts
    NoExt = "-"
    NoTx = "nil"
    MaxBalance = 2
    Messages = {"m1"}
    NoMessage = "-"
    Bodies <- SubmissionRequests
    OpeningBalances = {0, 1}
    ReferenceTTL = 2
    BackoffBase = 1
    BackoffMax = 1
    AttemptsCap = 0
    MaxClock = 4
    MaxArrivals = 5
    MaxFaults = 1
    PermanentFaults = FALSE
CHECK_DEADLOCK FALSE
SYMMETRY HandlerSymmetry
CONSTRAINT TimeStands
INVARIANTS
    TypeOK
    AnswersNeverContradict
    InboxAgrees
    MoneyIsConserved
PROPERTIES
    ImplementsBook
