------------------------------ MODULE AppHistory ------------------------------
(***************************************************************************)
(* What an app may rely on about its history: a list of places with one    *)
(* current; going somewhere drops what was ahead; a move changes which is  *)
(* current and nothing else, and is told to an app that has asked about    *)
(* its history, once, naming the way and the place, while what the app     *)
(* does itself is told to nobody.                                          *)
(***************************************************************************)
EXTENDS Naturals, Sequences

CONSTANTS
  Places,  \* the places an app may be at
  Start    \* the one it begins at

VARIABLES
  places,  \* the places of the history, the first the one the app began at
  at,      \* how many of them are behind the current one
  asked,   \* the app has asked about or moved through its history
  heard    \* the moves the app has still to hear of, oldest first

appVars == <<places, at, asked, heard>>

Init == places = <<Start>> /\ at = 0 /\ asked = FALSE /\ heard = <<>>

Ask == asked' = TRUE /\ UNCHANGED <<places, at, heard>>

Go(p) ==
  /\ p # places[at + 1]
  /\ places' = Append(SubSeq(places, 1, at + 1), p)
  /\ at' = at + 1
  /\ asked' = TRUE
  /\ UNCHANGED heard

Replace(p) ==
  /\ places' = [places EXCEPT ![at + 1] = p]
  /\ asked' = TRUE
  /\ UNCHANGED <<at, heard>>

Move(to) ==
  /\ to \in 0 .. Len(places) - 1
  /\ to # at
  /\ at' = to
  /\ heard' = IF asked
              THEN Append(heard, [direction |-> IF to < at THEN "back" ELSE "forward",
                                  place |-> places[to + 1]])
              ELSE heard
  /\ UNCHANGED <<places, asked>>

Hear == heard # <<>> /\ heard' = Tail(heard) /\ UNCHANGED <<places, at, asked>>

Next ==
  \/ Ask
  \/ \E p \in Places : Go(p) \/ Replace(p)
  \/ \E to \in 0 .. Len(places) - 1 : Move(to)
  \/ Hear

Spec == Init /\ [][Next]_appVars
=============================================================================
