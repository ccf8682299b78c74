SPECIFICATION Spec
CONSTANTS
  o1 = o1  o2 = o2
  p1 = p1  n1 = n1
  b1 = b1  b2 = b2  nb = nb
  a1 = a1  na = na
  Ops = {o1, o2}
  Players = {p1}
  Npcs = {}
  Buildings = {b1}
  Agents = {a1}
  Owner <- MCOwner
  Neutral = {}
  Cost = 1
  Stock0 = 2
  Fuses = {1, 3}
  Lives <- MCEndless
  Floor = 2
  Cap = 2
  Cooldown = 1
  EscCap = 1
  EscWindow = 1
  MaxFaults = 1
  MaxWindow = 3
  NoOp = NoOp  NoRec = NoRec  NoOrder = NoOrder
SYMMETRY OpSymmetry
INVARIANTS TypeOK StateDurable EndedForGood WholeOrNone WindowServed EffectOnce
PROPERTIES OnlyAbleOperationsAct ImplementsLifecycle
CHECK_DEADLOCK FALSE
