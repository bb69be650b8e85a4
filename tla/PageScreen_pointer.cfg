SPECIFICATION Spec
CONSTANTS
  a = a
  b = b
  Nobody = Nobody
  Unmeasured = Unmeasured
  Windows <- MCWindows
  Spots <- MCSpots
  Layouts <- MCLayouts
  Reported = {"down", "move", "up", "key"}
  Moves = {}
  Sizes = {}
  Buttons = 1
  MaxWaiting = 2
INVARIANTS TypeOK PressedWindowsHearTheRelease NoGrabOutlivesItsPress
PROPERTIES KeysGoToWhoWasLastPressed
CHECK_DEADLOCK FALSE
