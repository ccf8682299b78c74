SPECIFICATION Orderly
CONSTANTS
    a = a
    b = b
    c = c
    earth = earth
    outpost = outpost
    fortress = fortress
    Pristine = Pristine
    Planets = {earth}
    Tiers = {outpost, fortress}
    Spots = {a, b, c}
    SpotPlanet <- MCSpotPlanet
    SpawnCount <- MCSpawnCount
    RespawnTicks = 2
    Backoff = 1
    StaleTicks = 1
    MaxWaiting = 2
SYMMETRY MCSymmetry
INVARIANT NoStacking
