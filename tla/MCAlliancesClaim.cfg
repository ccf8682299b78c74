SPECIFICATION Uncrashed
CONSTANTS
    Players = {p1, p2, p3}
    None = None
    MaxId = 1
    MaxMembers = 3
    MaxOfficers = 1
    Wealth = 1
    MaxWealth = 1
SYMMETRY PlayerSymmetry
INVARIANT OneLeader
CHECK_DEADLOCK FALSE
