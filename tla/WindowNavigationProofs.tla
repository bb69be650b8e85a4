------------------------ MODULE WindowNavigationProofs ------------------------
(***************************************************************************)
(* What holds of the history of an app in a desktop window for all places, *)
(* limits, windows and bounds.                                             *)
(***************************************************************************)
EXTENDS WindowNavigation, ChangeRateProofs, FiniteSetTheorems

Directions == {"back", "forward"}

TypeInv ==
  /\ HistoryTypeOK
  /\ reports \in Seq(Reports)
  /\ events \in Seq(Events)
  /\ call \in Calls \cup {"idle", "arriving"}

\* An arrival waits only for the app's own move, and at an entry as it is.
ArrivalsAreEntries ==
  \A n \in 1 .. Len(reports) :
    /\ reports[n].kind # "start"
    /\ reports[n].kind = "arrival" =>
         /\ call = "arriving"
         /\ reports[n].index \in DOMAIN entries
         /\ reports[n].address = entries[reports[n].index]

WhereInv == TypeInv /\ EntriesRunFromTheFirst /\ ArrivalsAreEntries

IInv == WhereInv /\ RateInv

LEMMA ReportsHaveTheirParts ==
  ASSUME NEW report \in Reports
  PROVE  /\ report.kind = "arrival" =>
              report.index \in Indexes /\ report.address \in Addresses
         /\ report.kind = "request" => report.direction \in Directions
BY DEF Reports, Started, Arrived, Requested, Directions

LEMMA PositionsAreIndexes ==
  ASSUME HistoryTypeOK
  PROVE  position \in Nat /\ LastIndex \in Nat /\ Indexes \subseteq Nat
BY HistoryAssumption DEF HistoryTypeOK, Indexes

LEMMA EntriesArePlaces ==
  ASSUME HistoryTypeOK, NEW i
  PROVE  EntryAt(i) \in Places
BY HistoryAssumption DEF HistoryTypeOK, EntryAt

LEMMA AddressesReadAsPlaces ==
  ASSUME NEW address
  PROVE  Read(address) \in Places
BY HistoryAssumption DEF Read

(***************************************************************************)
(* A target that is handed out is an entry (Navigation.hasTarget).         *)
(***************************************************************************)
LEMMA TargetsAreEntries ==
  ASSUME HistoryTypeOK, EntriesRunFromTheFirst,
         NEW d \in Directions, HasTarget(d)
  PROVE  Target(d) \in DOMAIN entries
<1>1. PICK last \in Indexes : DOMAIN entries = 0 .. last /\ position \in 0 .. last
  BY DEF EntriesRunFromTheFirst
<1>2. position \in Nat /\ last \in Nat
  BY <1>1, PositionsAreIndexes
<1> QED
  BY <1>1, <1>2 DEF Directions, HasTarget, Target, HasBack, HasForward

(***************************************************************************)
(* Arriving at an entry as it is moves the position and nothing else       *)
(* (History.arrive, Navigation.arrive).                                    *)
(***************************************************************************)
LEMMA ArrivingStaysInside ==
  ASSUME TypeInv, EntriesRunFromTheFirst,
         NEW i \in DOMAIN entries, Arrive(i, entries[i])
  PROVE  /\ HistoryTypeOK'
         /\ events' \in Seq(Events)
         /\ entries' = entries
         /\ EntriesRunFromTheFirst'
<1> DEFINE place == entries[i]
<1>1. /\ entries' = [j \in DOMAIN entries \cup {i} |->
                       IF j = i THEN entries[i] ELSE entries[j]]
      /\ position' = i
      /\ UNCHANGED <<usedByApp, refusedAddress>>
  BY DEF Arrive, ArriveAt, With
<1>2. entries' = entries
  <2>1. entries' = [j \in DOMAIN entries |-> entries[j]]
    BY <1>1
  <2>2. entries = [j \in DOMAIN entries |-> entries[j]]
    BY DEF TypeInv, HistoryTypeOK
  <2> QED
    BY <2>1, <2>2
<1>3. HistoryTypeOK'
  BY <1>1, <1>2 DEF TypeInv, HistoryTypeOK
<1>4. events' \in Seq(Events)
  <2>1. CASE ~usedByApp \/ Direction(i) = "none"
    BY <2>1 DEF Arrive, TypeInv
  <2>2. CASE ~(~usedByApp \/ Direction(i) = "none")
    <3>1. Direction(i) \in {"back", "forward"} /\ place \in Places
      BY <2>2 DEF Direction, TypeInv, HistoryTypeOK
    <3>2. [direction |-> Direction(i), place |-> place] \in Events
      BY <3>1 DEF Events
    <3>3. events' = Append(events, [direction |-> Direction(i), place |-> place])
      BY <2>2 DEF Arrive
    <3>4. events \in Seq(Events)
      BY DEF TypeInv
    <3> HIDE DEF Events
    <3> QED
      BY <3>2, <3>3, <3>4, AppendProperties
  <2> QED
    BY <2>1, <2>2
<1>5. EntriesRunFromTheFirst'
  BY <1>1, <1>2 DEF EntriesRunFromTheFirst
<1> QED
  BY <1>2, <1>3, <1>4, <1>5

(***************************************************************************)
(* What is left when a report is taken was there before.                   *)
(***************************************************************************)
LEMMA TakingLeavesTheRest ==
  ASSUME WhereInv, NEW kind, Taking(kind)
  PROVE  /\ Head(reports) \in Reports
         /\ Head(reports) = reports[1]
         /\ Len(reports) \in Nat \ {0}
         /\ reports' \in Seq(Reports)
         /\ Len(reports') = Len(reports) - 1
         /\ \A n \in 1 .. Len(reports') : reports'[n] = reports[n + 1]
BY DEF Taking, WhereInv, TypeInv

LEMMA TakingKeepsArrivals ==
  ASSUME WhereInv, NEW kind, Taking(kind), entries' = entries
  PROVE  ArrivalsAreEntries'
<1> SUFFICES ASSUME NEW n \in 1 .. Len(reports')
             PROVE  /\ reports'[n].kind # "start"
                    /\ reports'[n].kind = "arrival" =>
                         /\ call' = "arriving"
                         /\ reports'[n].index \in DOMAIN entries'
                         /\ reports'[n].address = entries'[reports'[n].index]
  BY DEF ArrivalsAreEntries
<1>1. n + 1 \in 1 .. Len(reports) /\ reports'[n] = reports[n + 1]
  BY TakingLeavesTheRest
<1>2. call' = call
  BY DEF Taking
<1> QED
  BY <1>1, <1>2 DEF WhereInv, ArrivalsAreEntries

(***************************************************************************)
(* What is taken as an arrival is one at an entry as it is.                *)
(***************************************************************************)
LEMMA ArrivalsAreAtEntries ==
  ASSUME WhereInv, TakeArrival
  PROVE  \E i \in DOMAIN entries : Arrive(i, entries[i])
<1>1. Taking("arrival") /\ Arrive(Head(reports).index, Read(Head(reports).address))
  BY DEF TakeArrival
<1>2. Head(reports).kind = "arrival" /\ call' = call
  BY <1>1 DEF Taking
<1>3. /\ Head(reports).index \in DOMAIN entries
      /\ Head(reports).address = entries[Head(reports).index]
  BY <1>1, <1>2, TakingLeavesTheRest DEF WhereInv, ArrivalsAreEntries
<1>4. Read(Head(reports).address) = entries[Head(reports).index]
  BY <1>3 DEF Read, WhereInv, TypeInv, HistoryTypeOK
<1> QED
  BY <1>1, <1>3, <1>4

LEMMA ArrivalsKeepWhereInv ==
  ASSUME WhereInv, TakeArrival
  PROVE  WhereInv'
<1>1. Taking("arrival") /\ call' = call
  BY DEF TakeArrival, Taking
<1>2. /\ HistoryTypeOK' /\ events' \in Seq(Events)
      /\ entries' = entries /\ EntriesRunFromTheFirst'
  BY ArrivalsAreAtEntries, ArrivingStaysInside DEF WhereInv
<1>3. ArrivalsAreEntries'
  BY <1>1, <1>2, TakingKeepsArrivals
<1> QED
  BY <1>1, <1>2, <1>3, TakingLeavesTheRest DEF WhereInv, TypeInv

(***************************************************************************)
(* What the operator asks for is an arrival at an entry as it is, or       *)
(* nothing.                                                                *)
(***************************************************************************)
LEMMA RequestsAreForEntries ==
  ASSUME WhereInv, TakeRequest
  PROVE  \/ \E i \in DOMAIN entries : Arrive(i, entries[i])
         \/ UNCHANGED <<historyVars, events>>
<1> DEFINE d == Head(reports).direction
<1>1. Taking("request") /\ Head(reports).kind = "request"
  BY DEF TakeRequest, Taking
<1>2. d \in Directions
  BY <1>1, TakingLeavesTheRest, ReportsHaveTheirParts
<1>3. ASSUME HasTarget(d)
      PROVE  \E i \in DOMAIN entries : Arrive(i, entries[i])
  <2>1. Arrive(Target(d), EntryAt(Target(d)))
    BY <1>3 DEF TakeRequest
  <2>2. Target(d) \in DOMAIN entries
    BY <1>2, <1>3, TargetsAreEntries DEF WhereInv, TypeInv
  <2> QED
    BY <2>1, <2>2 DEF EntryAt
<1>4. ASSUME ~HasTarget(d)
      PROVE  UNCHANGED <<historyVars, events>>
  BY <1>4 DEF TakeRequest
<1> QED
  BY <1>3, <1>4

LEMMA RequestsKeepWhereInv ==
  ASSUME WhereInv, TakeRequest
  PROVE  WhereInv'
<1>1. Taking("request") /\ call' = call
  BY DEF TakeRequest, Taking
<1>2. /\ HistoryTypeOK' /\ events' \in Seq(Events)
      /\ entries' = entries /\ EntriesRunFromTheFirst'
  <2>1. ASSUME NEW i \in DOMAIN entries, Arrive(i, entries[i])
        PROVE  /\ HistoryTypeOK' /\ events' \in Seq(Events)
               /\ entries' = entries /\ EntriesRunFromTheFirst'
    BY <2>1, ArrivingStaysInside DEF WhereInv
  <2>2. CASE UNCHANGED <<historyVars, events>>
    BY <2>2
    DEF WhereInv, TypeInv, historyVars, HistoryTypeOK, EntriesRunFromTheFirst
  <2> QED
    BY <2>1, <2>2, RequestsAreForEntries
<1>3. ArrivalsAreEntries'
  BY <1>1, <1>2, TakingKeepsArrivals
<1> QED
  BY <1>1, <1>2, <1>3, TakingLeavesTheRest DEF WhereInv, TypeInv

(***************************************************************************)
(* Going somewhere new leaves the entries up to the one it makes           *)
(* (History.advanceTo).                                                    *)
(***************************************************************************)
LEMMA AdvancingStaysInside ==
  ASSUME TypeInv, EntriesRunFromTheFirst, NEW place \in Places,
         Advance(place), usedByApp' = TRUE
  PROVE  HistoryTypeOK' /\ EntriesRunFromTheFirst'
<1>1. PICK last \in Indexes : DOMAIN entries = 0 .. last /\ position \in 0 .. last
  BY DEF EntriesRunFromTheFirst
<1>2. position \in Nat /\ last \in Nat /\ LastIndex \in Nat /\ HistoryTypeOK
  BY <1>1, PositionsAreIndexes DEF TypeInv
<1> DEFINE kept == {i \in DOMAIN entries : i <= position}
<1>3. /\ entries' = [j \in kept \cup {position + 1} |->
                       IF j = position + 1 THEN place
                       ELSE Restrict(entries, kept)[j]]
      /\ position' = position + 1 /\ position < LastIndex
      /\ UNCHANGED refusedAddress
  BY DEF Advance, KeptOnGoing, Restrict
<1>4. kept = 0 .. position
  BY <1>1, <1>2
<1>5. DOMAIN entries' = 0 .. position'
  <2>1. 0 .. position + 1 = (0 .. position) \cup {position + 1}
    BY <1>2
  <2> QED
    BY <1>3, <1>4, <2>1
<1>6. position' \in Indexes /\ position' \in Nat /\ 0 .. position' \subseteq Indexes
  BY <1>2, <1>3 DEF Indexes
<1>7. \A j \in DOMAIN entries' : entries'[j] \in Places
  <2>1. \A j \in kept : entries[j] \in Places
    BY <1>2 DEF HistoryTypeOK
  <2> QED
    BY <1>3, <2>1 DEF Restrict
<1>8. HistoryTypeOK'
  <2>1. entries' \in [DOMAIN entries' -> Places]
    <3>1. entries' = [j \in DOMAIN entries' |-> entries'[j]]
      BY <1>3
    <3> QED
      BY <1>7, <3>1
  <2> QED
    BY <1>2, <1>3, <1>5, <1>6, <2>1 DEF HistoryTypeOK
<1>9. EntriesRunFromTheFirst'
  BY <1>5, <1>6 DEF EntriesRunFromTheFirst
<1> QED
  BY <1>8, <1>9

(***************************************************************************)
(* A call that asks nothing of the port returns with no report waiting, so *)
(* only the entries are left to look at.                                   *)
(***************************************************************************)
LEMMA ReturningKeepsWhereInv ==
  ASSUME WhereInv, NEW c, Returns(c),
         HistoryTypeOK', EntriesRunFromTheFirst', events' \in Seq(Events)
  PROVE  WhereInv'
<1>1. reports' = <<>> /\ reports' = reports /\ call' = "idle"
  BY DEF Returns, Acting
<1>2. ArrivalsAreEntries'
  BY <1>1 DEF ArrivalsAreEntries
<1> QED
  BY <1>1, <1>2 DEF WhereInv, TypeInv

LEMMA SameHistory ==
  ASSUME WhereInv, UNCHANGED <<entries, position, refusedAddress>>,
         usedByApp' \in BOOLEAN
  PROVE  HistoryTypeOK' /\ EntriesRunFromTheFirst'
BY DEF WhereInv, TypeInv, HistoryTypeOK, EntriesRunFromTheFirst

LEMMA GoingKeepsWhereInv ==
  ASSUME WhereInv, NEW place \in Places, GoTo(place)
  PROVE  WhereInv'
<1>1. Returns("go") /\ events' \in Seq(Events) /\ usedByApp' = TRUE
  BY DEF GoTo, WhereInv, TypeInv
<1>2. HistoryTypeOK' /\ EntriesRunFromTheFirst'
  <2>1. CASE Stay(place) \/ Refused
    BY <1>1, <2>1, SameHistory DEF Stay, Refused
  <2>2. CASE Advance(place)
    BY <1>1, <2>2, AdvancingStaysInside DEF WhereInv
  <2> QED
    BY <2>1, <2>2 DEF GoTo
<1> QED
  BY <1>1, <1>2, ReturningKeepsWhereInv

LEMMA ReplacingKeepsWhereInv ==
  ASSUME WhereInv, NEW place \in Places, Replace(place)
  PROVE  WhereInv'
<1>1. Returns("replace") /\ events' \in Seq(Events) /\ usedByApp' = TRUE
  BY DEF Replace, WhereInv, TypeInv
<1>2. HistoryTypeOK' /\ EntriesRunFromTheFirst'
  <2>1. CASE Refused
    BY <1>1, <2>1, SameHistory DEF Refused
  <2>2. CASE Rewrite(place)
    <3>1. position \in DOMAIN entries
      BY PositionsAreIndexes DEF WhereInv, EntriesRunFromTheFirst
    <3>2. /\ entries' = [j \in DOMAIN entries |->
                           IF j = position THEN place ELSE entries[j]]
          /\ UNCHANGED <<position, refusedAddress>>
      BY <2>2, <3>1 DEF Rewrite, With
    <3> QED
      BY <1>1, <3>2
      DEF WhereInv, TypeInv, HistoryTypeOK, EntriesRunFromTheFirst
  <2> QED
    BY <2>1, <2>2 DEF Replace
<1> QED
  BY <1>1, <1>2, ReturningKeepsWhereInv

(***************************************************************************)
(* The app's own Back or Forward leaves one arrival, at an entry, for the  *)
(* same call to take (Navigation.goBack, WindowHistory.goBack).            *)
(***************************************************************************)
LEMMA AskingKeepsWhereInv ==
  ASSUME WhereInv, NEW d \in Directions, GoBackOrForward(d)
  PROVE  WhereInv'
<1>1. CASE AskPort(d, ArrivalAtOnce(d))
  <2> DEFINE arrival == Arrived(Target(d), EntryAt(Target(d)))
  <2>1. /\ HasTarget(d) /\ reports' = <<arrival>> /\ call' = "arriving"
        /\ usedByApp' = TRUE /\ UNCHANGED <<entries, position, refusedAddress, events>>
    BY <1>1 DEF AskPort, CountTarget, ArrivalAtOnce
  <2>2. Target(d) \in DOMAIN entries
    BY <2>1, TargetsAreEntries DEF WhereInv, TypeInv
  <2>3. Target(d) \in Indexes /\ EntryAt(Target(d)) \in Places
    BY <2>2, EntriesArePlaces DEF WhereInv, TypeInv, HistoryTypeOK
  <2>4. arrival \in Reports
    BY <2>3 DEF Reports, Addresses
  <2>5. HistoryTypeOK' /\ EntriesRunFromTheFirst'
    BY <2>1, SameHistory
  <2>6. /\ arrival.kind = "arrival" /\ arrival.index = Target(d)
        /\ arrival.address = entries[Target(d)]
    BY <2>2 DEF Arrived, EntryAt
  <2> HIDE DEF arrival
  <2>7. reports' \in Seq(Reports) /\ Len(reports') = 1 /\ reports'[1] = arrival
    BY <2>1, <2>4
  <2>8. ArrivalsAreEntries'
    BY <2>1, <2>2, <2>6, <2>7 DEF ArrivalsAreEntries
  <2> QED
    BY <2>1, <2>5, <2>7, <2>8 DEF WhereInv, TypeInv
<1>2. CASE MoveNowhere(d)
  <2>1. /\ Returns(d) /\ usedByApp' = TRUE /\ events' \in Seq(Events)
        /\ UNCHANGED <<entries, position, refusedAddress>>
    BY <1>2 DEF MoveNowhere, Refused, WhereInv, TypeInv
  <2> QED
    BY <2>1, SameHistory, ReturningKeepsWhereInv
<1> QED
  BY <1>1, <1>2 DEF GoBackOrForward

LEMMA RequestingKeepsWhereInv ==
  ASSUME WhereInv, NEW d \in Directions, RequestMove(d)
  PROVE  WhereInv'
<1>1. /\ reports' = Append(reports, Requested(d))
      /\ UNCHANGED <<historyVars, events, call>>
  BY DEF RequestMove
<1>2. Requested(d) \in Reports /\ Requested(d).kind = "request"
  BY DEF Reports, Requested, Directions
<1>3. reports \in Seq(Reports)
  BY DEF WhereInv, TypeInv
<1> HIDE DEF Reports
<1>4. /\ reports' \in Seq(Reports)
      /\ Len(reports) \in Nat
      /\ Len(reports') = Len(reports) + 1
      /\ \A n \in 1 .. Len(reports) : reports'[n] = reports[n]
      /\ reports'[Len(reports) + 1] = Requested(d)
  BY <1>1, <1>2, <1>3
<1>5. ArrivalsAreEntries'
  <2> SUFFICES ASSUME NEW n \in 1 .. Len(reports')
               PROVE  /\ reports'[n].kind # "start"
                      /\ reports'[n].kind = "arrival" =>
                           /\ call' = "arriving"
                           /\ reports'[n].index \in DOMAIN entries'
                           /\ reports'[n].address = entries'[reports'[n].index]
    BY DEF ArrivalsAreEntries
  <2>1. CASE n \in 1 .. Len(reports)
    BY <1>1, <1>4, <2>1 DEF WhereInv, ArrivalsAreEntries, historyVars
  <2>2. CASE n = Len(reports) + 1
    BY <1>2, <1>4, <2>2
  <2> QED
    BY <1>4, <2>1, <2>2
<1> QED
  BY <1>1, <1>4, <1>5
  DEF WhereInv, TypeInv, historyVars, HistoryTypeOK, EntriesRunFromTheFirst

LEMMA QuietCallsKeepWhereInv ==
  ASSUME WhereInv, QuietCall
  PROVE  WhereInv'
<1>1. \E c : Returns(c)
  BY DEF QuietCall, FinishMove, CurrentPlace, AcceptNextEvent, AcceptPendingReports
<1>2. UNCHANGED <<entries, position, refusedAddress>> /\ usedByApp' \in BOOLEAN
  BY DEF QuietCall, FinishMove, CurrentPlace, AcceptNextEvent,
         AcceptPendingReports, historyVars, WhereInv, TypeInv, HistoryTypeOK
<1>3. events' \in Seq(Events)
  <2>1. events \in Seq(Events)
    BY DEF WhereInv, TypeInv
  <2>2. events' = events \/ events' = <<>> \/ (events # <<>> /\ events' = Tail(events))
    BY DEF QuietCall, FinishMove, CurrentPlace, AcceptNextEvent, AcceptPendingReports
  <2> HIDE DEF Events
  <2>3. events # <<>> => Tail(events) \in Seq(Events)
    BY <2>1, HeadTailProperties
  <2>4. <<>> \in Seq(Events)
    OBVIOUS
  <2> QED
    BY <2>1, <2>2, <2>3, <2>4
<1> QED
  BY <1>1, <1>2, <1>3, SameHistory, ReturningKeepsWhereInv

(***************************************************************************)
(* Every step in a window keeps the entries in one run from the first.     *)
(***************************************************************************)
LEMMA StepKeepsWhereInv ==
  ASSUME WhereInv, [Next]_navigationVars
  PROVE  WhereInv'
<1>1. ASSUME NEW c \in Calls, Begin(c)
      PROVE  WhereInv'
  <2>1. /\ UNCHANGED <<historyVars, reports, events>>
        /\ call = "idle" /\ call' \in Calls
    BY <1>1 DEF Begin
  <2>2. ArrivalsAreEntries'
    BY <2>1 DEF WhereInv, ArrivalsAreEntries
  <2> QED
    BY <2>1, <2>2
    DEF WhereInv, TypeInv, historyVars, HistoryTypeOK, EntriesRunFromTheFirst
<1>2. CASE TakeArrival
  BY <1>2, ArrivalsKeepWhereInv
<1>3. CASE TakeRequest
  BY <1>3, RequestsKeepWhereInv
<1>4. ASSUME NEW p \in Places, GoTo(p) \/ Replace(p)
      PROVE  WhereInv'
  BY <1>4, GoingKeepsWhereInv, ReplacingKeepsWhereInv
<1>5. ASSUME NEW d \in {"back", "forward"}, GoBackOrForward(d) \/ RequestMove(d)
      PROVE  WhereInv'
  BY <1>5, AskingKeepsWhereInv, RequestingKeepsWhereInv DEF Directions
<1>6. CASE QuietCall
  BY <1>6, QuietCallsKeepWhereInv
<1>7. CASE Tock \/ UNCHANGED navigationVars
  <2>1. UNCHANGED <<historyVars, reports, events, call>>
    BY <1>7 DEF Tock, navigationVars
  <2> QED
    BY <2>1
    DEF WhereInv, TypeInv, historyVars, HistoryTypeOK, EntriesRunFromTheFirst,
        ArrivalsAreEntries
<1> QED
  BY <1>1, <1>2, <1>3, <1>4, <1>5, <1>6, <1>7 DEF Next

(***************************************************************************)
(* As far as the limit on changes can tell, every step in a window is one  *)
(* of its own or none (Navigation's calls of History.countChange).         *)
(***************************************************************************)
LEMMA StepsAreRateSteps ==
  ASSUME [Next]_navigationVars
  PROVE  [RateNext]_rateVars
<1>1. ASSUME NEW c \in Calls, Begin(c)
      PROVE  UNCHANGED rateVars
  BY <1>1 DEF Begin
<1>2. CASE TakeArrival \/ TakeRequest
  BY <1>2 DEF TakeArrival, TakeRequest, Taking
<1>3. ASSUME NEW p \in Places, GoTo(p) \/ Replace(p)
      PROVE  [RateNext]_rateVars
  BY <1>3 DEF GoTo, Replace, Stay, Refused, Advance, Rewrite, RateNext
<1>4. ASSUME NEW d \in {"back", "forward"}, GoBackOrForward(d) \/ RequestMove(d)
      PROVE  [RateNext]_rateVars
  BY <1>4
  DEF GoBackOrForward, RequestMove, AskPort, MoveNowhere, CountTarget, Refused,
      RateNext
<1>5. CASE QuietCall
  BY <1>5
  DEF QuietCall, FinishMove, CurrentPlace, AcceptNextEvent, AcceptPendingReports
<1>6. CASE Tock
  BY <1>6 DEF Tock, RateNext
<1>7. CASE UNCHANGED navigationVars
  BY <1>7 DEF navigationVars
<1> QED
  BY <1>1, <1>2, <1>3, <1>4, <1>5, <1>6, <1>7 DEF Next

LEMMA InitGivesIInv == Init => IInv
<1> SUFFICES ASSUME Init
             PROVE  IInv
  OBVIOUS
<1>1. HistoryInit /\ RateInit /\ events = <<>> /\ call = "idle" /\ reports = <<>>
  BY DEF Init, NavigationInit
<1>2. DOMAIN entries = 0 .. 0 /\ 0 \in Indexes /\ position \in 0 .. 0
  BY <1>1, HistoryAssumption DEF HistoryInit, Indexes
<1>3. HistoryTypeOK /\ EntriesRunFromTheFirst
  BY <1>1, <1>2, HistoryAssumption
  DEF HistoryInit, HistoryTypeOK, EntriesRunFromTheFirst, Indexes
<1>4. TypeInv /\ ArrivalsAreEntries
  BY <1>1, <1>3 DEF TypeInv, ArrivalsAreEntries
<1> QED
  BY <1>1, <1>3, <1>4, RateInitGivesRateInv DEF IInv, WhereInv

(***************************************************************************)
(* What holds in every state of a window's history.                        *)
(***************************************************************************)
THEOREM Invariance == Spec => []IInv
<1>1. IInv /\ [Next]_navigationVars => IInv'
  BY StepKeepsWhereInv, StepsAreRateSteps, RateStepKeepsRateInv DEF IInv
<1> QED
  BY InitGivesIInv, <1>1, PTL DEF Spec

(***************************************************************************)
(* The state of an app's history in a window is well typed.                *)
(***************************************************************************)
THEOREM WindowHistoriesAreWellTyped == Spec => []TypeOK
<1>1. IInv => TypeOK
  BY DEF IInv, WhereInv, TypeInv, RateInv, TypeOK, NavigationTypeOK
<1> QED
  BY Invariance, <1>1, PTL

(***************************************************************************)
(* The entries run from the first without a gap and the current one is     *)
(* among them, whatever the operator asks for while the app's own move is  *)
(* on its way (History.java, WindowHistory.java).                          *)
(***************************************************************************)
THEOREM ThePositionIsAlwaysAnEntry == Spec => []EntriesRunFromTheFirst
<1>1. IInv => EntriesRunFromTheFirst
  BY DEF IInv, WhereInv
<1> QED
  BY Invariance, <1>1, PTL

(***************************************************************************)
(* In a window, whatever the app calls and the operator presses, no window *)
(* of time holds more changes than the limit, and none is refused below it *)
(* (History.countChange).                                                  *)
(***************************************************************************)
THEOREM TheRateIsKeptInAWindow == Spec => [](NeverPastTheRate /\ RefusedOnlyWhenFull)
<1>1. IInv => NeverPastTheRate /\ RefusedOnlyWhenFull
  BY FullWhenReached DEF IInv, RateInv
<1> QED
  BY Invariance, <1>1, PTL
(***************************************************************************)
(* The history as a list of places, as AppSpec maps it.                    *)
(***************************************************************************)
Listed == [i \in 1 .. Cardinality(DOMAIN entries) |-> entries[i - 1]]

LEMMA TheListIsTheEntries ==
  ASSUME HistoryTypeOK, EntriesRunFromTheFirst
  PROVE  \E last \in Nat :
           /\ DOMAIN entries = 0 .. last /\ position \in 0 .. last
           /\ Cardinality(DOMAIN entries) = last + 1
           /\ Listed = [i \in 1 .. last + 1 |-> entries[i - 1]]
           /\ Listed \in Seq(Places) /\ Len(Listed) = last + 1
<1>1. PICK last \in Indexes : DOMAIN entries = 0 .. last /\ position \in 0 .. last
  BY DEF EntriesRunFromTheFirst
<1>2. last \in Nat
  BY PositionsAreIndexes
<1>3. Cardinality(0 .. last) = last + 1
  BY <1>2, FS_Interval
<1>4. Listed = [i \in 1 .. last + 1 |-> entries[i - 1]]
  BY <1>1, <1>3 DEF Listed
<1>5. \A i \in 1 .. last + 1 : entries[i - 1] \in Places
  BY <1>1, <1>2 DEF HistoryTypeOK
<1>6. Listed \in Seq(Places) /\ Len(Listed) = last + 1
  <2>1. last + 1 \in Nat
    BY <1>2
  <2> QED
    BY <1>4, <1>5, <2>1
<1> QED
  BY <1>1, <1>2, <1>3, <1>4, <1>6

LEMMA InitIsAppInit == Init => App!Init
<1> SUFFICES ASSUME Init
             PROVE  App!Init
  OBVIOUS
<1>1. /\ entries = [i \in {0} |-> Start] /\ position = 0 /\ usedByApp = FALSE
      /\ events = <<>>
  BY DEF Init, NavigationInit, HistoryInit
<1>2. DOMAIN entries = 0 .. 0 /\ Cardinality(0 .. 0) = 1
  <2>1. Cardinality({0}) = 1
    BY FS_Singleton
  <2>2. {0} = 0 .. 0
    OBVIOUS
  <2> QED
    BY <1>1, <2>1, <2>2
<1>3. [i \in 1 .. Cardinality(DOMAIN entries) |-> entries[i - 1]] = <<Start>>
  <2>1. [i \in 1 .. 1 |-> entries[i - 1]] = <<Start>>
    BY <1>1
  <2> QED
    BY <1>2, <2>1
<1> QED
  BY <1>1, <1>3 DEF App!Init

(***************************************************************************)
(* What leaves the history as it is and tells the app nothing is, to the   *)
(* app, asking about it or nothing at all.                                 *)
(***************************************************************************)
LEMMA SameHistoryIsAppAsk ==
  ASSUME UNCHANGED <<entries, position, events>>, usedByApp' = TRUE
  PROVE  App!Next
BY DEF App!Next, App!Ask

LEMMA SameToTheApp ==
  ASSUME UNCHANGED <<entries, position, usedByApp, events>>
  PROVE  UNCHANGED App!appVars
BY DEF App!appVars

(***************************************************************************)
(* An arrival at an entry as it is, is a move of the list, heard once, or  *)
(* nothing when the app is there already (Navigation.arrive).              *)
(***************************************************************************)
LEMMA ArrivingIsAppMove ==
  ASSUME WhereInv, NEW i \in DOMAIN entries, Arrive(i, entries[i])
  PROVE  [App!Next]_App!appVars
<1>1. /\ entries' = entries /\ position' = i /\ usedByApp' = usedByApp
      /\ events' = IF ~usedByApp \/ Direction(i) = "none" THEN events
                   ELSE Append(events, [direction |-> Direction(i),
                                        place |-> entries[i]])
  BY ArrivingStaysInside DEF WhereInv, Arrive, ArriveAt
<1>2. CASE i = position
  <2>1. UNCHANGED <<entries, position, usedByApp, events>>
    BY <1>1, <1>2 DEF Direction
  <2> QED
    BY <2>1, SameToTheApp
<1>3. CASE i # position
  <2>1. PICK last \in Nat :
          /\ DOMAIN entries = 0 .. last /\ position \in 0 .. last
          /\ Listed = [k \in 1 .. last + 1 |-> entries[k - 1]]
          /\ Len(Listed) = last + 1
    BY TheListIsTheEntries DEF WhereInv, TypeInv
  <2>2. i \in 0 .. Len(Listed) - 1 /\ Listed[i + 1] = entries[i]
    BY <2>1
  <2>3. Direction(i) = IF i < position THEN "back" ELSE "forward"
    BY <1>3 DEF Direction
  <2>4. events' = IF usedByApp
                  THEN Append(events,
                         [direction |-> IF i < position THEN "back" ELSE "forward",
                          place |-> Listed[i + 1]])
                  ELSE events
    BY <1>1, <2>2, <2>3
  <2>5. App!Move(i)
    BY <1>1, <1>3, <2>2, <2>4 DEF App!Move, Listed
  <2> QED
    BY <2>2, <2>5 DEF App!Next, Listed
<1> QED
  BY <1>2, <1>3

(***************************************************************************)
(* Going somewhere new drops what was ahead and adds the place             *)
(* (History.advanceTo).                                                    *)
(***************************************************************************)
LEMMA AdvancingIsAppGo ==
  ASSUME WhereInv, NEW place \in Places, Advance(place),
         usedByApp' = TRUE, UNCHANGED events
  PROVE  App!Next
<1>1. PICK last \in Nat :
        /\ DOMAIN entries = 0 .. last /\ position \in 0 .. last
        /\ Listed = [k \in 1 .. last + 1 |-> entries[k - 1]]
        /\ Listed \in Seq(Places) /\ Len(Listed) = last + 1
  BY TheListIsTheEntries DEF WhereInv, TypeInv
<1>2. PICK next \in Nat :
        /\ DOMAIN entries' = 0 .. next /\ position' \in 0 .. next
        /\ Listed' = [k \in 1 .. next + 1 |-> entries'[k - 1]]
  <2>1. HistoryTypeOK' /\ EntriesRunFromTheFirst'
    BY AdvancingStaysInside DEF WhereInv
  <2>2. \E next \in Nat :
          /\ DOMAIN entries' = 0 .. next /\ position' \in 0 .. next
          /\ Cardinality(DOMAIN entries') = next + 1
          /\ Listed' = [k \in 1 .. next + 1 |-> entries'[k - 1]]
    <3>1. PICK n \in Indexes : DOMAIN entries' = 0 .. n /\ position' \in 0 .. n
      BY <2>1 DEF EntriesRunFromTheFirst
    <3>2. n \in Nat
      BY HistoryAssumption DEF Indexes
    <3>3. Cardinality(0 .. n) = n + 1
      BY <3>2, FS_Interval
    <3> QED
      BY <3>1, <3>2, <3>3 DEF Listed
  <2> QED
    BY <2>2
<1> DEFINE kept == {i \in DOMAIN entries : i <= position}
<1>3. /\ entries' = [j \in kept \cup {position + 1} |->
                       IF j = position + 1 THEN place
                       ELSE Restrict(entries, kept)[j]]
      /\ position' = position + 1
      /\ place # Current
  BY DEF Advance, KeptOnGoing, Restrict
<1>4. kept = 0 .. position
  BY <1>1
<1>5. DOMAIN entries' = (0 .. position) \cup {position + 1}
  BY <1>3, <1>4
<1>6. next = position + 1
  <2>1. position \in Nat
    BY <1>1
  <2>2. 0 .. next = (0 .. position) \cup {position + 1}
    BY <1>2, <1>5
  <2>3. next \in (0 .. position) \cup {position + 1}
    <3>1. next \in 0 .. next
      OBVIOUS
    <3> QED
      BY <2>2, <3>1
  <2>4. position + 1 \in 0 .. next
    BY <2>2
  <2> QED
    BY <2>1, <2>3, <2>4
<1> DEFINE before == SubSeq(Listed, 1, position + 1)
<1>7. /\ before \in Seq(Places) /\ Len(before) = position + 1
      /\ \A k \in 1 .. position + 1 : before[k] = entries[k - 1]
  <2>1. position + 1 \in 1 .. Len(Listed) /\ position \in Nat
    BY <1>1
  <2>2. \A k \in 1 .. position + 1 : Listed[k] \in Places /\ Listed[k] = entries[k - 1]
    BY <1>1, <2>1
  <2> DEFINE m == position + 1
  <2>3. m \in Nat \ {0}
    BY <2>1
  <2>4. /\ SubSeq(Listed, 1, m) \in Seq(Places)
        /\ Len(SubSeq(Listed, 1, m)) = m
        /\ \A k \in 1 .. m : SubSeq(Listed, 1, m)[k] = Listed[k]
    <3>1. \A k \in 1 .. m : Listed[k] \in Places
      BY <2>2
    <3> HIDE DEF m
    <3>2. /\ SubSeq(Listed, 1, m) \in Seq(Places)
          /\ Len(SubSeq(Listed, 1, m)) = IF 1 <= m THEN m - 1 + 1 ELSE 0
          /\ \A k \in 1 .. m - 1 + 1 : SubSeq(Listed, 1, m)[k] = Listed[1 + k - 1]
      BY <2>3, <3>1, SubSeqProperties
    <3> QED
      BY <2>3, <3>2
  <2> QED
    BY <2>2, <2>4
<1>8. Listed' = Append(before, place)
  <2> DEFINE longer == Append(before, place)
  <2>1. /\ longer \in Seq(Places) /\ Len(longer) = position + 2
        /\ \A k \in 1 .. position + 1 : longer[k] = before[k]
        /\ longer[position + 2] = place
    <3> HIDE DEF before
    <3> QED
      BY <1>1, <1>7, AppendProperties
  <2>2. longer = [k \in 1 .. position + 2 |-> longer[k]]
    <3> HIDE DEF longer
    <3> QED
      BY <2>1
  <2>3. Listed' = [k \in 1 .. position + 2 |-> entries'[k - 1]]
    BY <1>1, <1>2, <1>6
  <2>4. ASSUME NEW k \in 1 .. position + 2
        PROVE  entries'[k - 1] = longer[k]
    <3>1. CASE k = position + 2
      BY <1>1, <1>3, <1>5, <2>1, <3>1
    <3>2. CASE k \in 1 .. position + 1
      <4>1. k - 1 \in 0 .. position /\ k - 1 # position + 1 /\ k - 1 \in kept
        BY <1>1, <1>4, <3>2
      <4>2. entries'[k - 1] = entries[k - 1]
        BY <1>3, <4>1 DEF Restrict
      <4> QED
        BY <1>7, <2>1, <3>2, <4>2
    <3> QED
      BY <1>1, <3>1, <3>2
  <2> HIDE DEF longer
  <2>5. Listed' = [k \in 1 .. position + 2 |-> longer[k]]
    BY <2>3, <2>4
  <2> QED
    BY <2>2, <2>5 DEF longer
<1>9. place # Listed[position + 1]
  BY <1>1, <1>3 DEF Current, EntryAt
<1>10. App!Go(place)
  BY <1>3, <1>8, <1>9 DEF App!Go, Listed
<1> QED
  BY <1>10 DEF App!Next

(***************************************************************************)
(* Replacing the current place replaces it in the list (History.replace).  *)
(***************************************************************************)
LEMMA RewritingIsAppReplace ==
  ASSUME WhereInv, NEW place \in Places, Rewrite(place),
         usedByApp' = TRUE, UNCHANGED events
  PROVE  App!Next
<1>1. PICK last \in Nat :
        /\ DOMAIN entries = 0 .. last /\ position \in 0 .. last
        /\ Cardinality(DOMAIN entries) = last + 1
        /\ Listed = [k \in 1 .. last + 1 |-> entries[k - 1]]
  BY TheListIsTheEntries DEF WhereInv, TypeInv
<1>2. /\ entries' = [j \in DOMAIN entries |->
                       IF j = position THEN place ELSE entries[j]]
      /\ position' = position
  <2>1. DOMAIN entries \cup {position} = DOMAIN entries
    BY <1>1
  <2> QED
    BY <2>1 DEF Rewrite, With
<1>3. Listed' = [k \in 1 .. last + 1 |-> entries'[k - 1]]
  BY <1>1, <1>2 DEF Listed
<1>4. Listed' = [Listed EXCEPT ![position + 1] = place]
  <2>1. \A k \in 1 .. last + 1 :
          entries'[k - 1] = IF k = position + 1 THEN place ELSE entries[k - 1]
    BY <1>1, <1>2
  <2> QED
    BY <1>1, <1>3, <2>1
<1>5. App!Replace(place)
  BY <1>2, <1>4 DEF App!Replace, Listed
<1> QED
  BY <1>5 DEF App!Next

(***************************************************************************)
(* Every step in a window is a step of the history the app relies on, or   *)
(* nothing to it.                                                          *)
(***************************************************************************)
LEMMA StepIsAppStep ==
  ASSUME WhereInv, [Next]_navigationVars
  PROVE  [App!Next]_App!appVars
<1>1. ASSUME NEW c \in Calls, Begin(c)
      PROVE  UNCHANGED App!appVars
  BY <1>1, SameToTheApp DEF Begin, historyVars
<1>2. CASE TakeArrival
  BY <1>2, ArrivalsAreAtEntries, ArrivingIsAppMove
<1>3. CASE TakeRequest
  <2>1. ASSUME UNCHANGED <<historyVars, events>>
        PROVE  UNCHANGED App!appVars
    BY <2>1, SameToTheApp DEF historyVars
  <2> QED
    BY <1>3, <2>1, RequestsAreForEntries, ArrivingIsAppMove
<1>4. ASSUME NEW p \in Places, GoTo(p)
      PROVE  App!Next
  <2>1. usedByApp' = TRUE /\ UNCHANGED events
    BY <1>4 DEF GoTo
  <2>2. CASE Stay(p) \/ Refused
    BY <2>1, <2>2, SameHistoryIsAppAsk DEF Stay, Refused
  <2>3. CASE Advance(p)
    BY <2>1, <2>3, AdvancingIsAppGo
  <2> QED
    BY <1>4, <2>2, <2>3 DEF GoTo
<1>5. ASSUME NEW p \in Places, Replace(p)
      PROVE  App!Next
  <2>1. usedByApp' = TRUE /\ UNCHANGED events
    BY <1>5 DEF Replace
  <2>2. CASE Refused
    BY <2>1, <2>2, SameHistoryIsAppAsk DEF Refused
  <2>3. CASE Rewrite(p)
    BY <2>1, <2>3, RewritingIsAppReplace
  <2> QED
    BY <1>5, <2>2, <2>3 DEF Replace
<1>6. ASSUME NEW d \in {"back", "forward"}, GoBackOrForward(d)
      PROVE  App!Next
  <2>1. UNCHANGED <<entries, position, events>> /\ usedByApp' = TRUE
    BY <1>6 DEF GoBackOrForward, AskPort, MoveNowhere, CountTarget, Refused
  <2> QED
    BY <2>1, SameHistoryIsAppAsk
<1>7. ASSUME NEW d \in {"back", "forward"}, RequestMove(d)
      PROVE  UNCHANGED App!appVars
  BY <1>7, SameToTheApp DEF RequestMove, historyVars
<1>8. CASE QuietCall
  <2>1. CASE FinishMove \/ AcceptPendingReports
    BY <2>1, SameToTheApp DEF FinishMove, AcceptPendingReports, historyVars
  <2>2. CASE CurrentPlace
    BY <2>2, SameHistoryIsAppAsk DEF CurrentPlace
  <2>3. CASE AcceptNextEvent
    <3>1. UNCHANGED <<entries, position, usedByApp>>
      BY <2>3 DEF AcceptNextEvent, historyVars
    <3>2. CASE events = <<>>
      BY <2>3, <3>1, <3>2, SameToTheApp DEF AcceptNextEvent
    <3>3. CASE events # <<>>
      <4>1. App!Hear
        BY <2>3, <3>1, <3>3 DEF AcceptNextEvent, App!Hear
      <4> QED
        BY <4>1 DEF App!Next
    <3> QED
      BY <3>2, <3>3
  <2> QED
    BY <1>8, <2>1, <2>2, <2>3 DEF QuietCall
<1>9. CASE Tock \/ UNCHANGED navigationVars
  BY <1>9, SameToTheApp DEF Tock, navigationVars, historyVars
<1> QED
  BY <1>1, <1>2, <1>3, <1>4, <1>5, <1>6, <1>7, <1>8, <1>9 DEF Next

(***************************************************************************)
(* In a window the history is the list of places an app may rely on: going *)
(* drops what was ahead, a move is heard once, with its place, and what    *)
(* the operator asks for meanwhile changes none of it (History.java,       *)
(* Navigation.java, WindowHistory.java).                                   *)
(***************************************************************************)
THEOREM AWindowKeepsTheAppsHistory == Spec => AppSpec
<1>1. IInv /\ [Next]_navigationVars => [App!Next]_App!appVars
  BY StepIsAppStep DEF IInv
<1> QED
  BY InitIsAppInit, Invariance, <1>1, PTL DEF Spec, AppSpec, App!Spec
=============================================================================
