SPECIFICATION Uncrashed
CONSTANTS
    s1 = s1
    s2 = s2
    s3 = s3
    earth = earth
    mars = mars
    bio = bio
    cyber = cyber
    medic = medic
    taps = taps
    None = None
    Planets = {earth, mars}
    Sites = {s1, s2, s3}
    Branches = {bio, cyber}
    Techs = {taps}
    PlanetOf <- MCPlanetOf
    Agents = {medic}
    Station <- MCStation
    TreeOf <- MCTreeOf
    Unlock <- MCUnlock
    BuildTicks = 1
    ResearchTicks = 1
INVARIANT DormantBranchIsInert
