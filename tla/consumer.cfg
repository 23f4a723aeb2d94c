SPECIFICATION Spec
CONSTANTS
    Instances = {c1, c2}
    Stoppable = {c1}
    Wallets = {"w1", "w2"}
    Stream <- TwoWallets
    Invalid = {"bad"}
    Slots = 2
    MaxReceives = 2
    MaxFaults = 1
    NoOne = NoOne
INVARIANTS
    NothingLost
    SettledInOrder
    OverlapOnlyCancelled
    StoppedHoldsNothing
