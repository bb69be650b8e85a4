SPECIFICATION Spec
CONSTANTS
  CheckEvery = 5
  Never = Never
  TimeLimits = {6, Never}
INVARIANTS TypeOK StopsWithinACheck ACancelStopsOnlyItsOwnRun
PROPERTIES OverdueRunsEnd CancelledRunsEnd
