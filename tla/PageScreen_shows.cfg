SPECIFICATION Spec
CONSTANTS
  a = a
  b = b
  Nobody = Nobody
  Unmeasured = Unmeasured
  Windows <- MCWindows
  Spots <- MCSpots
  Layouts <- MCLayouts
  Reported = {"close", "resize"}
  Moves = {"back"}
  Sizes = {"small", "large"}
  Buttons = 0
  MaxWaiting = 2
INVARIANTS TheRootIsAsBigAsThePage
PROPERTIES EveryShowIsOfferedInTheEnd
CHECK_DEADLOCK FALSE
