---------------------------- MODULE MCPageScreen ------------------------------
(***************************************************************************)
(* Two windows that overlap on two spots, each of them movable.            *)
(***************************************************************************)
EXTENDS PageScreen

CONSTANTS a, b

MCWindows == {a, b}
MCSpots == {1, 2}
MCLayouts == {(a :> {1, 2} @@ b :> {2}), (a :> {1} @@ b :> {1, 2})}
=============================================================================
