SPECIFICATION Spec
CONSTANTS
    Players = {p1, p2, p3}
    None = None
    MaxId = 2
    MaxMembers = 3
    MaxOfficers = 1
    Wealth = 1
    MaxWealth = 2
SYMMETRY PlayerSymmetry
INVARIANTS TypeOK RosterTrue Conserved
