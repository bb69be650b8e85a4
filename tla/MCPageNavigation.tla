--------------------------- MODULE MCPageNavigation ---------------------------
(* Instances of PageNavigation small enough for TLC.                       *)
EXTENDS PageNavigation

CONSTANTS begin, placeA, placeB, odd, none

MCPlaces == {begin, placeA, placeB}
MCFewPlaces == {begin, placeA}
MCUnreadable == {odd}
=============================================================================
