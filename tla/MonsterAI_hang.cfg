SPECIFICATION Spec
CONSTANTS
  Monsters = {m1}
  NoMonster = NoMonster
  MaxPoints = 3
  IdSpace = 4
  HasTransition = TRUE
INVARIANT
  WaitsOnlyForMovement
CHECK_DEADLOCK FALSE
