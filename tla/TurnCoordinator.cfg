SPECIFICATION Spec
CONSTANTS
  Turns = {alarm, user}
  Scheduled = {alarm}
  MaxRestarts = 1
  MaxFaults = 1
CHECK_DEADLOCK FALSE
INVARIANTS
    TurnInv
PROPERTIES
    TurnsEndForGood
