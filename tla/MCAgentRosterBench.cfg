SPECIFICATION Spec
CONSTANTS
    Agents = {a1, a2, a3}
    Posts = {}
    Academies = {c1}
    None = None
    Caps <- MCCaps
    Durations = {1}
    MaxId = 3
    MaxFaults = 0
INVARIANT BenchOnlyBeyondCap
