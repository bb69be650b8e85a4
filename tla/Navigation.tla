------------------------------ MODULE Navigation ------------------------------
(***************************************************************************)
(* How a script's calls and what its screen reports meet at the history    *)
(* (Navigation.java).  Reports come from other threads and wait in a queue *)
(* until the interpreter's thread takes them, which every call does first; *)
(* between any two of them another report may join.  What the screen does  *)
(* with a move is the composing module's: the calls here take what its     *)
(* port reports at once.                                                   *)
(***************************************************************************)
EXTENDS History

VARIABLES
  reports,  \* what the screen reported and nobody has taken, oldest first
  events,   \* back and forward events the script has not had, oldest first
  call      \* the call the interpreter's thread is in

navigationVars == <<historyVars, rateVars, reports, events, call>>

Calls == {"go", "replace", "back", "forward", "current", "event", "run"}

Started(i, address) == [kind |-> "start", index |-> i, address |-> address]
Arrived(i, address) == [kind |-> "arrival", index |-> i, address |-> address]
Requested(direction) == [kind |-> "request", direction |-> direction]

Reports ==
  {Started(i, a) : i \in Indexes, a \in Addresses}
    \cup {Arrived(i, a) : i \in Indexes, a \in Addresses}
    \cup {Requested(d) : d \in {"back", "forward"}}

Events == [direction: {"back", "forward"}, place: Places]

NavigationInit == HistoryInit /\ RateInit /\ events = <<>> /\ call = "idle"

Begin(c) ==
  /\ call = "idle"
  /\ call' = c
  /\ UNCHANGED <<historyVars, rateVars, reports, events>>

\* (mutant) The report is looked at and stays.
TakingNothing(kind) ==
  /\ call # "idle"
  /\ reports # <<>>
  /\ Head(reports).kind = kind
  /\ UNCHANGED <<reports, rateVars, call>>

\* The next report, if a call is there to take one.
Taking(kind) ==
  /\ call # "idle"
  /\ reports # <<>>
  /\ Head(reports).kind = kind
  /\ reports' = Tail(reports)
  /\ UNCHANGED <<rateVars, call>>

TakeStart ==
  /\ Taking("start")
  /\ StartAt(Head(reports).index, Head(reports).address)
  /\ UNCHANGED events

Arrive(i, place) ==
  /\ ArriveAt(i, place)
  /\ events' = IF ~usedByApp \/ Direction(i) = "none" THEN events
               ELSE Append(events, [direction |-> Direction(i), place |-> place])

TakeArrival ==
  /\ Taking("arrival")
  /\ Arrive(Head(reports).index, Read(Head(reports).address))

HasTarget(direction) == IF direction = "back" THEN HasBack ELSE HasForward

Target(direction) == IF direction = "back" THEN position - 1 ELSE position + 1

\* The operator's Back or Forward in a window; where there is nowhere to go
\* it does nothing.
TakeRequest ==
  /\ Taking("request")
  /\ LET d == Head(reports).direction
     IN  IF HasTarget(d) THEN Arrive(Target(d), EntryAt(Target(d)))
         ELSE UNCHANGED <<historyVars, events>>

\* A call does its own work once every report is taken.
Acting(c) == call = c /\ reports = <<>>

Returns(c) == Acting(c) /\ call' = "idle" /\ UNCHANGED reports

GoTo(place) ==
  /\ Returns("go")
  /\ Stay(place) \/ (place # Current /\ Refused) \/ Advance(place)
  /\ usedByApp' = TRUE
  /\ UNCHANGED events

Replace(place) ==
  /\ Returns("replace")
  /\ Refused \/ Rewrite(place)
  /\ usedByApp' = TRUE
  /\ UNCHANGED events

\* The app's own move: told is what the port reports before it answers.
AskPort(direction, told) ==
  /\ Acting(direction)
  /\ HasTarget(direction)
  /\ CountTarget
  /\ reports' = told
  /\ call' = "arriving"
  /\ usedByApp' = TRUE
  /\ UNCHANGED events

MoveNowhere(direction) ==
  /\ Returns(direction)
  /\ IF HasTarget(direction) THEN Refused
     ELSE UNCHANGED <<entries, position, refusedAddress, rateVars>>
  /\ usedByApp' = TRUE
  /\ UNCHANGED events

\* GO-BACK and GO-FORWARD take the reports once more before they return.
FinishMove ==
  /\ Returns("arriving")
  /\ UNCHANGED <<historyVars, rateVars, events>>

CurrentPlace ==
  /\ Returns("current")
  /\ usedByApp' = TRUE
  /\ UNCHANGED <<entries, position, refusedAddress, rateVars, events>>

AcceptNextEvent ==
  /\ Returns("event")
  /\ events' = IF events = <<>> THEN <<>> ELSE Tail(events)
  /\ UNCHANGED <<historyVars, rateVars>>

\* A run of a script takes the reports before it begins.
AcceptPendingReports ==
  /\ Returns("run")
  /\ UNCHANGED <<historyVars, rateVars, events>>

\* The calls that ask nothing of the port.
QuietCall == FinishMove \/ CurrentPlace \/ AcceptNextEvent \/ AcceptPendingReports

Tock ==
  /\ Tick
  /\ UNCHANGED <<historyVars, reports, events, call>>

-----------------------------------------------------------------------------
\* Types and ranges of the variables.
NavigationTypeOK ==
  /\ HistoryTypeOK
  /\ RateTypeOK
  /\ reports \in Seq(Reports)
  /\ events \in Seq(Events)
  /\ call \in Calls \cup {"idle", "arriving"}
=============================================================================
