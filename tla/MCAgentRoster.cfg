SPECIFICATION FairSpec
CONSTANTS
    Agents = {a1, a2, a3}
    Posts = {b1, b2}
    Academies = {c1, c2}
    None = None
    Caps <- MCTwo
    Durations = {2}
    MaxId = 2
    MaxFaults = 1
INVARIANTS TypeOK SlotIsTrue IdsFresh
PROPERTY TrainingEnds
