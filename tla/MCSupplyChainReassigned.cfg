SPECIFICATION SupplySpec
CONSTANTS
    Stores = {v1}
    Field = Field
    NoStore = NoStore
    Capacity = 2
    Carry = 2
    Bag = 2
    MaxMade = 1
    MaxFaults = 0
INVARIANT AttachedLoopRuns
