SPECIFICATION Spec
CONSTANTS
    here = here  near = near  far = far
    p1 = p1  turret = turret
    Players = {p1}
    Bodies = {p1, turret}
    Bombs = {b1, b2}
    Spots = {here, near, far}
    Nowhere = Nowhere
    Start <- MCStart
    Tile <- MCTile
    Planet <- MCPlanet
    Reach <- MCReach
    Fuses = {2}
    Rolls = {1, 2}
    MaxUnits = 2
    MaxFaults = 1
INVARIANTS TypeOK CountdownKept BlastOnce UnitForBomb
