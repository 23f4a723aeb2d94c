SPECIFICATION Spec
CONSTANTS
    Instances = {c1, c2}
    Stoppable = {c1}
    Wallets = {"w1"}
    Stream <- TwoMessages
    Invalid = {}
    Slots = 1
    MaxReceives = 2
    MaxFaults = 0
    NoOne = NoOne
INVARIANTS
    OneMessagePerWallet
