--------------------------- MODULE WindowNavigation ---------------------------
(***************************************************************************)
(* Navigation in a desktop window (WindowHistory.java, DesktopScreen.java):*)
(* the history is JEBOL's own, the app's Back and Forward arrive at once,  *)
(* and the operator's keys and mouse buttons are requests from the         *)
(* toolkit's thread.                                                       *)
(***************************************************************************)
EXTENDS Navigation

CONSTANT MaxWaiting  \* bound: reports and events waiting at one time

Init == NavigationInit /\ reports = <<>>

\* Another thread adds to the queue, whatever the interpreter is doing.
RequestMove(direction) ==
  /\ Len(reports) + Len(events) < MaxWaiting
  /\ reports' = Append(reports, Requested(direction))
  /\ UNCHANGED <<historyVars, rateVars, events, call>>

ArrivalAtOnce(direction) == <<Arrived(Target(direction), EntryAt(Target(direction)))>>

GoBackOrForward(direction) ==
  AskPort(direction, ArrivalAtOnce(direction)) \/ MoveNowhere(direction)

Next ==
  \/ \E c \in Calls : Begin(c)
  \/ TakeArrival \/ TakeRequest
  \/ \E p \in Places : GoTo(p) \/ Replace(p)
  \/ \E d \in {"back", "forward"} : GoBackOrForward(d) \/ RequestMove(d)
  \/ QuietCall
  \/ Tock

Spec == Init /\ [][Next]_navigationVars

-----------------------------------------------------------------------------
\* Types and ranges of the variables.
TypeOK == NavigationTypeOK

(***************************************************************************)
(* The entries are numbered from the first without a gap and the current   *)
(* one is among them, whatever was asked for while the app's own move was  *)
(* on its way (nav.allium, ThePositionIsAlwaysAnEntry).                    *)
(***************************************************************************)
EntriesRunFromTheFirst ==
  \E last \in Indexes : DOMAIN entries = 0 .. last /\ position \in 0 .. last

\* The history in a window is the one an app may rely on.
App == INSTANCE AppHistory
         WITH places <- [i \in 1 .. Cardinality(DOMAIN entries) |-> entries[i - 1]],
              at <- position,
              asked <- usedByApp,
              heard <- events

AppSpec == App!Spec
=============================================================================
