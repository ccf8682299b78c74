SPECIFICATION FairSpec
CONSTANTS
    Players = {p1, p2}
    p1 = p1
    p2 = p2
    None = None
    Armed = {p1}
    Tiles <- MCTwoTiles
    Cover <- MCCover
    TurretTile = 0
    GuardTiles <- MCGuardTiles
    Radius = 1
    MaxHp = 1
    BurnTicks = 0
    Duration = 1
    Grace = 2
PROPERTIES FullGrace LinkdeadEnds
