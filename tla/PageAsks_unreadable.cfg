SPECIFICATION Spec
CONSTANTS
  Browsers = {a}
  Kinds = {"files"}
  MaxAsks = 2
  PagesLeave = FALSE
  FilesFail = TRUE
  MaxFaulty = 2
PROPERTIES EveryAskEnds
CHECK_DEADLOCK FALSE
