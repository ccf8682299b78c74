SPECIFICATION Spec
CONSTANTS
    Players = {p1, p2}
    p1 = p1
    p2 = p2
    None = None
    Armed = {p1}
    Tiles <- MCTiles
    Cover <- MCCover
    TurretTile = 0
    GuardTiles <- MCGuardTiles
    Radius = 1
    MaxHp = 2
    BurnTicks = 1
    Duration = 1
    Grace = 1
INVARIANTS TypeOK InFieldIsReal
PROPERTY AntiCombatLog
