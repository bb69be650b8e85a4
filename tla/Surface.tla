------------------------------- MODULE Surface --------------------------------
(***************************************************************************)
(* Which window of one surface hears what the operator does                *)
(* (WindowsOnOneSurface.java): a press goes to the topmost window under    *)
(* it, the pointer stays with that window until the release, and keys go   *)
(* to the window last pressed in.                                          *)
(***************************************************************************)
EXTENDS Integers, Sequences, FiniteSets, SequencesExt

CONSTANTS
  Windows,  \* the windows a script has made
  Nobody,   \* no window
  Spots     \* places on the surface

ASSUME SurfaceAssumption == Nobody \notin Windows

VARIABLES
  pressedIn,     \* the window the press being held began in
  keyboardWith   \* the window last pressed in

surfaceVars == <<pressedIn, keyboardWith>>

\* A wheel turn is addressed as a move is, and each kind of key alike.
Kinds == {"down", "move", "up", "key", "close", "resize"}

Posts == [kind: Kinds, at: Spots]

\* A window no longer showing is forgotten, when the next event is addressed.
IfShowing(window, showing) ==
  IF window \in showing THEN window ELSE Nobody

\* (mutant) No window hears an event as a window would.
ListedAlways(window) == <<window>>

\* As a list of at most one, which is how the windows that hear are given.
Listed(window) == IF window = Nobody THEN <<>> ELSE <<window>>

\* order lists the windows of the surface, bottom to top.
Topmost(among, order) ==
  LET places == {i \in DOMAIN order : order[i] \in among}
  IN  IF places = {} THEN Nobody ELSE order[Max(places)]

\* The windows of order that are among some, bottom to top: the k-th is the
\* one with k of them at its place or below.
InOrder(among, order) ==
  LET places == {i \in DOMAIN order : order[i] \in among}
      Kth(k) == CHOOSE i \in places : Cardinality({j \in places : j <= i}) = k
  IN  [k \in 1 .. Cardinality(places) |-> order[Kth(k)]]

TopmostUnder(at, showing, order, covers) ==
  Topmost({w \in showing : at \in covers[w]}, order)

\* A press on no window reaches nothing and leaves a press held as it was.
HearPress(post, showing, order, covers) ==
  LET hit == TopmostUnder(post.at, showing, order, covers)
      Taken(window) == IF hit = Nobody THEN IfShowing(window, showing) ELSE hit
  IN  [heardBy |-> Listed(hit),
       pressedIn |-> Taken(pressedIn),
       keyboardWith |-> Taken(keyboardWith)]

\* (mutant) The release is looked for under the pointer.
HearPointerWithoutGrab(post, showing, order, covers) ==
  [heardBy |-> Listed(TopmostUnder(post.at, showing, order, covers)),
   pressedIn |-> IF post.kind = "up" THEN Nobody ELSE IfShowing(pressedIn, showing),
   keyboardWith |-> IfShowing(keyboardWith, showing)]

\* (mutant) A release does not end the press.
HearPointerForEver(post, showing, order, covers) ==
  LET held == IfShowing(pressedIn, showing)
  IN  [heardBy |-> Listed(IF held # Nobody THEN held ELSE TopmostUnder(post.at, showing, order, covers)),
       pressedIn |-> held,
       keyboardWith |-> IfShowing(keyboardWith, showing)]

HearPointer(post, showing, order, covers) ==
  LET held == IfShowing(pressedIn, showing)
  IN  [heardBy |-> Listed(IF held # Nobody THEN held ELSE TopmostUnder(post.at, showing, order, covers)),
       pressedIn |-> IF post.kind = "up" THEN Nobody ELSE held,
       keyboardWith |-> IfShowing(keyboardWith, showing)]

\* (mutant) A key goes to the topmost window whichever was pressed in.
HearKeyOnTop(showing, order) ==
  [heardBy |-> Listed(Topmost(showing, order)),
   pressedIn |-> IfShowing(pressedIn, showing),
   keyboardWith |-> IfShowing(keyboardWith, showing)]

HearKey(showing, order) ==
  LET with == IfShowing(keyboardWith, showing)
  IN  [heardBy |-> Listed(IF with # Nobody THEN with ELSE Topmost(showing, order)),
       pressedIn |-> IfShowing(pressedIn, showing),
       keyboardWith |-> with]

\* The page closing is heard by every window, a resize of one by none.
HearWhole(windows, showing) ==
  [heardBy |-> windows,
   pressedIn |-> IfShowing(pressedIn, showing),
   keyboardWith |-> IfShowing(keyboardWith, showing)]

\* showing are the windows of order that show; covers says which spots each
\* of the windows covers.
Heard(post, showing, order, covers) ==
  CASE post.kind = "down" -> HearPress(post, showing, order, covers)
    [] post.kind \in {"move", "up"} -> HearPointer(post, showing, order, covers)
    [] post.kind = "key" -> HearKey(showing, order)
    [] post.kind = "close" -> HearWhole(InOrder(showing, order), showing)
    [] post.kind = "resize" -> HearWhole(<<>>, showing)

SurfaceInit == pressedIn = Nobody /\ keyboardWith = Nobody

SurfaceTypeOK ==
  /\ pressedIn \in Windows \cup {Nobody}
  /\ keyboardWith \in Windows \cup {Nobody}
=============================================================================
