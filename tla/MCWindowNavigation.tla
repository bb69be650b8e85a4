-------------------------- MODULE MCWindowNavigation --------------------------
(* An instance of WindowNavigation small enough for TLC.                   *)
EXTENDS WindowNavigation

CONSTANTS begin, placeA, placeB, odd, none

MCPlaces == {begin, placeA, placeB}
MCUnreadable == {odd}
=============================================================================
