SPECIFICATION FairSpec
CONSTANTS
  o1 = o1  o2 = o2
  p1 = p1  n1 = n1
  b1 = b1  b2 = b2  nb = nb
  a1 = a1  na = na
  Ops = {o1, o2}
  Players = {n1}
  Npcs = {n1}
  Buildings = {nb}
  Agents = {na}
  Owner <- MCOwner
  Neutral = {nb}
  Cost = 1
  Stock0 = 2
  Fuses = {1, 2}
  Lives = {2}
  Floor = 1
  Cap = 1
  Cooldown = 0
  EscCap = 1
  EscWindow = 0
  MaxFaults = 1
  MaxWindow = 2
  NoOp = NoOp  NoRec = NoRec  NoOrder = NoOrder
INVARIANTS InFlightCapped
PROPERTIES PlacedOperationsSettle
CHECK_DEADLOCK FALSE
