SPECIFICATION Spec
CONSTANTS
  begin = begin
  placeA = placeA
  placeB = placeB
  odd = odd
  none = none
  Places <- MCPlaces
  Start = begin
  Unreadable <- MCUnreadable
  NoAddress = none
  LastIndex = 2
  MostChanges = 3
  Window = 2
  MaxTime = 0
  MaxOperated = 2
  Typing = FALSE
PROPERTY OnlyTheOperatorLeaves
