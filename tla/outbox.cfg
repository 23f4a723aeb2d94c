SPECIFICATION FairSpec
CONSTANTS
    Publishers = {p1, p2}
    Wallets = {"w1"}
    Stream <- OneWallet
    BatchSize = 2
    InstantsFollow = FALSE
    SkewedClocks = TRUE
    MaxFaults = 2
    NoOwner = NoOwner
CHECK_DEADLOCK FALSE
INVARIANTS
    PublishedWasSent
    ReceiptsCurrentWithoutFault
PROPERTIES
    LeaseUndisturbed
    EveryEventPublished
