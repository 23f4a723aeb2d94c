SPECIFICATION FairSpec
CONSTANTS
    Instances = {c1, c2}
    Stoppable = {c1}
    Wallets = {"w1"}
    Stream <- TwoMessages
    Invalid = {"a2"}
    Slots = 1
    MaxReceives = 2
    MaxFaults = 2
    NoOne = NoOne
PROPERTIES
    EveryMessageEnds
    EveryStopEnds
