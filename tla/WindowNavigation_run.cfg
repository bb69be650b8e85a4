SPECIFICATION Spec
CONSTANTS
  begin = begin
  placeA = placeA
  placeB = placeB
  odd = odd
  none = none
  Places <- MCPlaces
  Start = begin
  Unreadable <- MCUnreadable
  NoAddress = none
  LastIndex = 2
  MostChanges = 2
  Window = 2
  MaxTime = 3
  MaxWaiting = 2
INVARIANTS
  TypeOK
  EntriesRunFromTheFirst
  NeverPastTheRate
  RefusedOnlyWhenFull
PROPERTY AppSpec
