SPECIFICATION SupplySpec
CONSTANTS
    Stores = {v1, v2}
    Field = Field
    NoStore = NoStore
    Capacity = 1
    Carry = 1
    Bag = 2
    MaxMade = 2
    MaxFaults = 2
INVARIANTS SupplyTypeOK Conserved
