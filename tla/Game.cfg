CONSTANTS
  Point <- MCPoint
  MaxQueue = 2
SPECIFICATION Spec
INVARIANTS TypeOK FairPlay
PROPERTIES MovesStand ScreenCatchesUp
CHECK_DEADLOCK FALSE
