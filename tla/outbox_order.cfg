SPECIFICATION Spec
CONSTANTS
    Publishers = {p1}
    Wallets = {"w1"}
    Stream <- OneWallet
    BatchSize = 1
    InstantsFollow = TRUE
    SkewedClocks = FALSE
    MaxFaults = 1
    NoOwner = NoOwner
CHECK_DEADLOCK FALSE
INVARIANTS
    WalletEventsInOrder
