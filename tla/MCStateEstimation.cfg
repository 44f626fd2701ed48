SPECIFICATION Spec
CONSTANTS
  Topics = {"pose", "relative_pos"}
  Period = 2
  HistorySizes = {0, 1, 2, 3}
  MaxTime = 5
  MaxEvents = 5
CHECK_DEADLOCK FALSE
INVARIANTS
  TypeOK
  InOrderReplay
  IsNotAhead
PROPERTIES
  StampsAdvance
  RefusesOnlyTheOldest
