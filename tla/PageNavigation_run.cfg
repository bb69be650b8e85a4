SPECIFICATION Spec
CONSTANTS
  begin = begin
  placeA = placeA
  placeB = placeB
  odd = odd
  none = none
  Places <- MCFewPlaces
  Start = begin
  Unreadable <- MCUnreadable
  NoAddress = none
  LastIndex = 2
  MostChanges = 2
  Window = 2
  MaxTime = 0
  MaxOperated = 2
  Typing = TRUE
INVARIANTS
  TypeOK
  TheAppIsWhereThePageIs
  EveryEntryKnownIsThePages
PROPERTIES
  AMoveLandsWhereTheHistorySays
  EveryMoveSettles
