SPECIFICATION Spec
CONSTANTS
  Browsers = {a, b}
  Kinds = {"copy", "colour", "files"}
  MaxAsks = 3
  PagesLeave = TRUE
  FilesFail = TRUE
  MaxFaulty = 2
INVARIANTS TypeOK AnswersNameTheirAsk TheFirstAnswerStands OnlyTheAskInFlightWaits
PROPERTIES EveryAskEndsWhileAPageHoldsIt
CHECK_DEADLOCK FALSE
